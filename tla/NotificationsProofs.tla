------------------------- MODULE NotificationsProofs -------------------------
(***************************************************************************)
(* Theorems about Outbox and Notifications, for any payments, relays,      *)
(* workers, batch size and number of faults.                               *)
(***************************************************************************)
EXTENDS Notifications, FiniteSetTheorems, TLAPS

Delivered(i) == \E k \in 1 .. Len(topic) : topic[k] = i

(* A relay that holds a row has the earlier ones before it in its batch,   *)
(* or they are in the topic.                                               *)
BatchInOrder(r) ==
  \A k \in 1 .. Len(batch[r]) : \A i \in 1 .. batch[r][k] - 1 :
    Delivered(i) \/ \E l \in 1 .. k - 1 : batch[r][l] = i

TopicInOrder ==
  \A k \in 1 .. Len(topic) : \A i \in 1 .. topic[k] - 1 :
    \E l \in 1 .. k - 1 : topic[l] = i

AcknowledgedDelivered(r) ==
  sent[r] => batch[r] # <<>> /\ Delivered(Head(batch[r]))

OutboxInv ==
  /\ OutboxTypeOK
  /\ \A i \in published : Delivered(i)
  /\ \A r \in Relays : BatchInOrder(r) /\ AcknowledgedDelivered(r)
  /\ TopicInOrder

-----------------------------------------------------------------------------
(* A sequence of rows stays one when the table grows.                      *)
LEMMA LongerTable ==
  ASSUME NEW S, NEW T, S \subseteq T, NEW s \in Seq(S)
  PROVE  s \in Seq(T)
<1>1. s \in [1 .. Len(s) -> T] /\ Len(s) \in Nat
  OBVIOUS
<1> QED
  BY <1>1

LEMMA RowsAre ==
  ASSUME OutboxTypeOK PROVE RowIds = 1 .. Len(rows) /\ Len(rows) \in Nat
BY DEF OutboxTypeOK, RowIds

(* A delivery: the topic is longer by the first row of a batch.            *)
LEMMA DeliveredStays ==
  ASSUME OutboxTypeOK, NEW r \in Relays, batch[r] # <<>>, Deliver(r), UNCHANGED batch
  PROVE  /\ \A i : Delivered(i) => Delivered(i)'
         /\ Delivered(Head(batch[r]))'
         /\ topic' \in Seq(RowIds)
<1>1. Head(batch[r]) \in RowIds /\ topic \in Seq(RowIds)
  BY DEF OutboxTypeOK
<1>2. /\ topic' = Append(topic, Head(batch[r]))
      /\ Len(topic') = Len(topic) + 1
      /\ topic'[Len(topic) + 1] = Head(batch[r])
      /\ \A k \in 1 .. Len(topic) : topic'[k] = topic[k]
  BY <1>1 DEF Deliver
<1>3. topic' \in Seq(RowIds)
  BY <1>1, <1>2
<1>4. Len(topic) \in Nat
  BY <1>1
<1>5. ASSUME NEW i, Delivered(i) PROVE Delivered(i)'
  BY <1>2, <1>4, <1>5 DEF Delivered
<1>6. Delivered(Head(batch[r]))'
  <2>1. Len(topic) + 1 \in 1 .. Len(topic')
    BY <1>2, <1>4
  <2>2. UNCHANGED batch => Delivered(Head(batch[r]))'
    BY <1>2, <2>1 DEF Delivered
  <2> QED
    BY <2>2
<1> QED
  BY <1>3, <1>5, <1>6

(* Every earlier row is delivered before the first row of a batch is.      *)
LEMMA DeliveryInOrder ==
  ASSUME OutboxInv, NEW r \in Relays, batch[r] # <<>>, Deliver(r)
  PROVE  TopicInOrder'
<1>1. batch[r] \in Seq(RowIds) /\ topic \in Seq(RowIds)
  BY DEF OutboxInv, OutboxTypeOK
<1>2. /\ Len(topic') = Len(topic) + 1
      /\ topic'[Len(topic) + 1] = batch[r][1]
      /\ \A k \in 1 .. Len(topic) : topic'[k] = topic[k]
  BY <1>1 DEF Deliver
<1>3. \A i \in 1 .. batch[r][1] - 1 : Delivered(i)
  BY <1>1 DEF OutboxInv, BatchInOrder
<1>4. TopicInOrder
  BY DEF OutboxInv
<1> QED
  BY <1>1, <1>2, <1>3, <1>4 DEF TopicInOrder, Delivered

(* The relays that stand still while the topic grows.                      *)
LEMMA RelayStands ==
  ASSUME NEW r \in Relays, BatchInOrder(r), AcknowledgedDelivered(r),
         batch'[r] = batch[r], sent'[r] = sent[r],
         \A i : Delivered(i) => Delivered(i)'
  PROVE  BatchInOrder(r)' /\ AcknowledgedDelivered(r)'
BY DEF BatchInOrder, AcknowledgedDelivered

LEMMA RecordStep ==
  ASSUME OutboxInv, NEW p \in PaymentIds, RecordEvent(p)
  PROVE  OutboxInv'
<1>1. OutboxTypeOK /\ RowIds = 1 .. Len(rows) /\ Len(rows) \in Nat
  BY RowsAre DEF OutboxInv
<1>2. PICK c \in Courses :
        /\ Len(events[p]) < Len(c)
        /\ events' = [events EXCEPT ![p] = Append(@, c[Len(events[p]) + 1])]
        /\ rows' = Append(rows, [payment |-> p, type |-> c[Len(events[p]) + 1]])
  BY DEF RecordEvent
<1>3. events \in [PaymentIds -> Seq(STRING)] /\ c \in Seq(STRING)
  BY <1>1, OutboxAssumption DEF OutboxTypeOK
<1>4. Len(events[p]) + 1 \in 1 .. Len(c)
  BY <1>2, <1>3
<1>5. c[Len(events[p]) + 1] \in STRING
  BY <1>3, <1>4
<1>6. events' \in [PaymentIds -> Seq(STRING)]
  BY <1>2, <1>3, <1>5
<1>7. rows' \in Seq([payment : PaymentIds, type : STRING]) /\ Len(rows') = Len(rows) + 1
  BY <1>1, <1>2, <1>5 DEF OutboxTypeOK
<1>8. RowIds' = 1 .. Len(rows) + 1
  BY <1>7 DEF RowIds
<1>9. RowIds \subseteq RowIds'
  BY <1>1, <1>8
<1>10. OutboxTypeOK'
  <2>1. topic \in Seq(RowIds') /\ \A q \in Relays : batch[q] \in Seq(RowIds')
    BY <1>1, <1>9, LongerTable DEF OutboxTypeOK
  <2>2. batch \in [Relays -> Seq(RowIds')]
    BY <1>1, <2>1 DEF OutboxTypeOK
  <2> QED
    BY <1>1, <1>6, <1>7, <1>9, <2>1, <2>2 DEF OutboxTypeOK, RecordEvent
<1>11. UNCHANGED <<published, batch, sent, topic>>
  BY DEF RecordEvent
<1> QED
  BY <1>10, <1>11 DEF OutboxInv, BatchInOrder, AcknowledgedDelivered, TopicInOrder,
                      Delivered

LEMMA SelectStep ==
  ASSUME OutboxInv, NEW r \in Relays, Select(r)
  PROVE  OutboxInv'
<1>1. OutboxTypeOK /\ RowIds = 1 .. Len(rows) /\ Len(rows) \in Nat
  BY RowsAre DEF OutboxInv
<1>2. PICK n \in 0 .. BatchSize : \E s \in [1 .. n -> Unpublished] :
         OldestFirst(s) /\ batch' = [batch EXCEPT ![r] = s]
  BY DEF Select
<1>3. PICK s \in [1 .. n -> Unpublished] :
         OldestFirst(s) /\ batch' = [batch EXCEPT ![r] = s]
  BY <1>2
<1>4. UNCHANGED <<events, rows, published, sent, topic, faults>>
  BY DEF Select
<1>5. n \in Nat /\ Unpublished \subseteq RowIds
  BY OutboxAssumption DEF Unpublished
<1>6. s \in Seq(RowIds) /\ Len(s) = n /\ DOMAIN s = 1 .. n
  BY <1>5
<1>7. OutboxTypeOK'
  BY <1>1, <1>3, <1>4, <1>6 DEF OutboxTypeOK, RowIds
<1>8. BatchInOrder(r)'
  <2>1. batch'[r] = s
    BY <1>1, <1>3 DEF OutboxTypeOK
  <2>2. SUFFICES ASSUME NEW k \in 1 .. n, NEW i \in 1 .. s[k] - 1
                 PROVE  Delivered(i) \/ \E l \in 1 .. k - 1 : s[l] = i
    BY <1>4, <1>6, <2>1 DEF BatchInOrder, Delivered
  <2>3. s[k] \in 1 .. Len(rows) /\ i \in RowIds /\ i < s[k]
    <3>1. s[k] \in 1 .. Len(rows)
      BY <1>1, <1>5
    <3>2. i \in 1 .. Len(rows) /\ i < s[k]
      BY <1>1, <3>1
    <3> QED
      BY <1>1, <3>1, <3>2
  <2>4. CASE i \in published
    BY <2>4 DEF OutboxInv
  <2>5. CASE i \in Unpublished
    <3>1. (\E l \in 1 .. n : s[l] = i) \/ \A l \in 1 .. n : s[l] < i
      BY <1>3, <1>6, <2>5 DEF OldestFirst
    <3>2. ~(s[k] < i)
      BY <1>1, <2>3
    <3>3. PICK l \in 1 .. n : s[l] = i
      BY <3>1, <3>2
    <3>4. ~(k < l)
      BY <1>3, <1>6, <2>3, <3>3 DEF OldestFirst
    <3> QED
      BY <1>5, <2>3, <3>3, <3>4
  <2> QED
    BY <2>3, <2>4, <2>5 DEF Unpublished
<1>9. AcknowledgedDelivered(r)'
  BY <1>4 DEF Select, OutboxInv, AcknowledgedDelivered
<1>10. \A q \in Relays \ {r} : batch'[q] = batch[q] /\ sent'[q] = sent[q]
  BY <1>1, <1>3, <1>4 DEF OutboxTypeOK
<1>11. \A i : Delivered(i)' <=> Delivered(i)
  BY <1>4 DEF Delivered
<1>12. \A q \in Relays : BatchInOrder(q)' /\ AcknowledgedDelivered(q)'
  BY <1>8, <1>9, <1>10, <1>11, RelayStands DEF OutboxInv
<1> QED
  BY <1>4, <1>7, <1>11, <1>12 DEF OutboxInv, TopicInOrder

LEMMA SendStep ==
  ASSUME OutboxInv, NEW r \in Relays, Send(r) \/ Resend(r)
  PROVE  OutboxInv'
<1>1. OutboxTypeOK /\ RowIds = 1 .. Len(rows) /\ Len(rows) \in Nat
  BY RowsAre DEF OutboxInv
<1>2. /\ UNCHANGED <<events, rows, published, batch>>
      /\ batch[r] # <<>>
      /\ Deliver(r)
      /\ sent' \in {sent, [sent EXCEPT ![r] = TRUE]}
      /\ faults' \in 0 .. MaxFaults
  BY <1>1, OutboxAssumption DEF Send, Resend, Publishing, Fault, OutboxTypeOK
<1>3. /\ \A i : Delivered(i) => Delivered(i)'
      /\ Delivered(Head(batch[r]))'
      /\ topic' \in Seq(RowIds)
  BY <1>1, <1>2, DeliveredStays
<1>4. TopicInOrder'
  BY <1>2, DeliveryInOrder
<1>5. OutboxTypeOK'
  BY <1>1, <1>2, <1>3 DEF OutboxTypeOK, RowIds
<1>6. \A q \in Relays \ {r} : batch'[q] = batch[q] /\ sent'[q] = sent[q]
  BY <1>1, <1>2 DEF OutboxTypeOK
<1>7. BatchInOrder(r)' /\ AcknowledgedDelivered(r)'
  BY <1>2, <1>3 DEF OutboxInv, BatchInOrder, AcknowledgedDelivered
<1>8. \A q \in Relays : BatchInOrder(q)' /\ AcknowledgedDelivered(q)'
  BY <1>3, <1>6, <1>7, RelayStands DEF OutboxInv
<1> QED
  BY <1>2, <1>3, <1>4, <1>5, <1>8 DEF OutboxInv

LEMMA MarkStep ==
  ASSUME OutboxInv, NEW r \in Relays, MarkPublished(r)
  PROVE  OutboxInv'
<1>1. OutboxTypeOK /\ RowIds = 1 .. Len(rows) /\ Len(rows) \in Nat
  BY RowsAre DEF OutboxInv
<1>2. /\ UNCHANGED <<events, rows, topic, faults>>
      /\ batch[r] # <<>>
      /\ published' = published \cup {Head(batch[r])}
      /\ batch' = [batch EXCEPT ![r] = Tail(@)]
      /\ sent' = [sent EXCEPT ![r] = FALSE]
      /\ Delivered(Head(batch[r]))
  BY DEF MarkPublished, Publishing, OutboxInv, AcknowledgedDelivered
<1>3. batch[r] \in Seq(RowIds) /\ Head(batch[r]) \in RowIds /\ Tail(batch[r]) \in Seq(RowIds)
  BY <1>1, <1>2 DEF OutboxTypeOK
<1>4. /\ batch'[r] = Tail(batch[r]) /\ ~sent'[r]
      /\ \A q \in Relays \ {r} : batch'[q] = batch[q] /\ sent'[q] = sent[q]
  BY <1>1, <1>2 DEF OutboxTypeOK
<1>5. OutboxTypeOK'
  BY <1>1, <1>2, <1>3 DEF OutboxTypeOK, RowIds
<1>6. \A i : Delivered(i)' <=> Delivered(i)
  BY <1>2 DEF Delivered
<1>7. BatchInOrder(r)'
  <2>1. /\ Len(Tail(batch[r])) = Len(batch[r]) - 1 /\ Len(batch[r]) \in Nat \ {0}
        /\ \A k \in 1 .. Len(batch[r]) - 1 : Tail(batch[r])[k] = batch[r][k + 1]
        /\ Head(batch[r]) = batch[r][1]
    BY <1>2, <1>3
  <2>2. SUFFICES ASSUME NEW k \in 1 .. Len(batch[r]) - 1,
                        NEW i \in 1 .. batch[r][k + 1] - 1
                 PROVE  Delivered(i) \/ \E l \in 1 .. k - 1 : batch[r][l + 1] = i
    BY <1>4, <1>6, <2>1 DEF BatchInOrder
  <2>3. k + 1 \in 1 .. Len(batch[r])
    BY <2>1
  <2>4. Delivered(i) \/ \E l \in 1 .. (k + 1) - 1 : batch[r][l] = i
    BY <2>3 DEF OutboxInv, BatchInOrder
  <2>5. ASSUME NEW l \in 1 .. k, batch[r][l] = i, l # 1
        PROVE  \E m \in 1 .. k - 1 : batch[r][m + 1] = i
    <3>1. l - 1 \in 1 .. k - 1 /\ batch[r][(l - 1) + 1] = i
      BY <2>5
    <3> QED
      BY <3>1
  <2> QED
    BY <1>2, <2>1, <2>4, <2>5
<1>8. \A q \in Relays : BatchInOrder(q)' /\ AcknowledgedDelivered(q)'
  BY <1>4, <1>6, <1>7, RelayStands DEF OutboxInv, AcknowledgedDelivered
<1> QED
  BY <1>2, <1>5, <1>6, <1>8 DEF OutboxInv, TopicInOrder

LEMMA GiveUpStep ==
  ASSUME OutboxInv, NEW r \in Relays, GiveUp(r)
  PROVE  OutboxInv'
<1>1. OutboxTypeOK /\ RowIds = 1 .. Len(rows) /\ Len(rows) \in Nat
  BY RowsAre DEF OutboxInv
<1>2. /\ UNCHANGED <<events, rows, published, topic>>
      /\ batch' = [batch EXCEPT ![r] = <<>>]
      /\ sent' = [sent EXCEPT ![r] = FALSE]
      /\ faults' \in 0 .. MaxFaults
  BY <1>1, OutboxAssumption DEF GiveUp, Publishing, Fault, OutboxTypeOK
<1>3. /\ batch'[r] = <<>> /\ ~sent'[r]
      /\ \A q \in Relays \ {r} : batch'[q] = batch[q] /\ sent'[q] = sent[q]
  BY <1>1, <1>2 DEF OutboxTypeOK
<1>4. OutboxTypeOK'
  BY <1>1, <1>2 DEF OutboxTypeOK, RowIds
<1>5. \A i : Delivered(i)' <=> Delivered(i)
  BY <1>2 DEF Delivered
<1>6. BatchInOrder(r)' /\ AcknowledgedDelivered(r)'
  BY <1>3 DEF BatchInOrder, AcknowledgedDelivered
<1>7. \A q \in Relays : BatchInOrder(q)' /\ AcknowledgedDelivered(q)'
  BY <1>3, <1>5, <1>6, RelayStands DEF OutboxInv
<1> QED
  BY <1>2, <1>4, <1>5, <1>7 DEF OutboxInv, TopicInOrder

LEMMA OutboxStarts ==
  ASSUME OutboxInit PROVE OutboxInv
<1>1. OutboxTypeOK
  BY OutboxAssumption DEF OutboxInit, OutboxTypeOK, RowIds
<1> QED
  BY <1>1 DEF OutboxInit, OutboxInv, BatchInOrder, AcknowledgedDelivered, TopicInOrder

LEMMA OutboxMoves ==
  ASSUME OutboxInv, OutboxNext
  PROVE  OutboxInv'
BY RecordStep, SelectStep, SendStep, MarkStep, GiveUpStep DEF OutboxNext, RelayStep

LEMMA OutboxStands ==
  ASSUME OutboxInv, UNCHANGED <<events, rows, published, batch, sent, topic>>,
         faults' \in 0 .. MaxFaults
  PROVE  OutboxInv'
BY DEF OutboxInv, OutboxTypeOK, RowIds, BatchInOrder, AcknowledgedDelivered,
       TopicInOrder, Delivered

LEMMA OutboxInvariant == OutboxSpec => []OutboxInv
<1>1. OutboxInit => OutboxInv
  BY OutboxStarts
<1>2. OutboxInv /\ [OutboxNext]_outboxVars => OutboxInv'
  <2> SUFFICES ASSUME OutboxInv, [OutboxNext]_outboxVars PROVE OutboxInv'
    OBVIOUS
  <2>1. CASE UNCHANGED outboxVars
    BY <2>1, OutboxStands DEF outboxVars, OutboxInv, OutboxTypeOK
  <2> QED
    BY <2>1, OutboxMoves
<1> QED
  BY <1>1, <1>2, PTL DEF OutboxSpec

-----------------------------------------------------------------------------
(* A row is marked published only when it is in the topic: relays never    *)
(* lose an event, however many there are and whatever fails.               *)
THEOREM NothingPublishedIsLost == OutboxSpec => []PublishedIsInTopic
<1>1. OutboxInv => PublishedIsInTopic
  BY DEF OutboxInv, OutboxTypeOK, PublishedIsInTopic, InTopic, Contains, Delivered
<1> QED
  BY <1>1, OutboxInvariant, PTL

(* The topic first shows the events of a payment in their order, for any   *)
(* number of relays, batch size and failures.                              *)
THEOREM FirstDeliveriesStayInOrder == OutboxSpec => []FirstDeliveriesInOrder
<1>1. OutboxInv => FirstDeliveriesInOrder
  <2> SUFFICES ASSUME OutboxInv,
                      NEW i \in RowIds, NEW j \in RowIds, NEW k \in DOMAIN topic,
                      i < j, topic[k] = j
               PROVE  \E l \in 1 .. k - 1 : topic[l] = i
    BY DEF FirstDeliveriesInOrder
  <2>1. OutboxTypeOK /\ topic \in Seq(RowIds) BY DEF OutboxInv, OutboxTypeOK
  <2>2. i \in 1 .. Len(rows) /\ j \in 1 .. Len(rows) /\ k \in 1 .. Len(topic)
        /\ Len(rows) \in Nat
    BY <2>1, RowsAre
  <2>3. i \in 1 .. topic[k] - 1
    BY <2>2
  <2> QED
    BY <2>2, <2>3 DEF OutboxInv, TopicInOrder
<1> QED
  BY <1>1, OutboxInvariant, PTL

-----------------------------------------------------------------------------
Passed(k) == Told(topic[k]) \/ topic[k] \in failed

(* What a worker has been handed since it got the partition is passed, but *)
(* for the message it is handling.                                         *)
HandedPassed(w) ==
  assigned = w =>
    \A k \in 1 .. position[w] : Passed(k) \/ (stage[w] = "handling" /\ k = hand[w])

HasMessage(w) == stage[w] \in {"handling", "handled"} => hand[w] \in 1 .. Len(topic)

NotificationsInv ==
  /\ NotificationsTypeOK
  /\ OutboxInv
  /\ OnlyFailuresArePassedOver
  /\ \A w \in Workers : HandedPassed(w) /\ HasMessage(w)

LEMMA NotificationsStart ==
  ASSUME NotificationsInit PROVE NotificationsInv
<1>1. OutboxInit /\ OutboxInv
  BY OutboxStarts DEF NotificationsInit
<1>2. NotificationsTypeOK
  BY <1>1 DEF NotificationsInit, NotificationsTypeOK, OutboxInit, OutboxInv
<1> QED
  BY <1>1, <1>2 DEF NotificationsInit, NotificationsInv, OnlyFailuresArePassedOver,
                    HandedPassed, HasMessage

(* A step of the outbox: the topic and the table only grow.                *)
LEMMA OutboxGrows ==
  ASSUME OutboxTypeOK, OutboxNext
  PROVE  /\ Len(rows) \in Nat /\ Len(topic) \in Nat
         /\ Len(rows') \in Nat /\ Len(topic') \in Nat
         /\ Len(rows) <= Len(rows') /\ Len(topic) <= Len(topic')
         /\ \A i \in 1 .. Len(rows) : rows'[i] = rows[i]
         /\ \A k \in 1 .. Len(topic) : topic'[k] = topic[k]
<1>1. rows \in Seq([payment : PaymentIds, type : STRING]) /\ topic \in Seq(RowIds)
  BY DEF OutboxTypeOK
<1>2. ASSUME NEW p \in PaymentIds, RecordEvent(p)
      PROVE  \E e : rows' = Append(rows, e) /\ topic' = topic
  BY <1>2 DEF RecordEvent
<1>3. ASSUME NEW r \in Relays, RelayStep(r) \/ Resend(r) \/ GiveUp(r)
      PROVE  rows' = rows /\ (topic' = topic \/ \E e : topic' = Append(topic, e))
  BY <1>3 DEF RelayStep, Select, Send, MarkPublished, Resend, GiveUp, Publishing, Deliver
<1>4. rows' = rows \/ \E e : rows' = Append(rows, e)
  BY <1>2, <1>3 DEF OutboxNext
<1>5. topic' = topic \/ \E e : topic' = Append(topic, e)
  BY <1>2, <1>3 DEF OutboxNext
<1>6. ASSUME NEW s, NEW S, s \in Seq(S), NEW t, t = s \/ \E e : t = Append(s, e)
      PROVE  /\ Len(s) \in Nat /\ Len(t) \in Nat /\ Len(s) <= Len(t)
             /\ \A i \in 1 .. Len(s) : t[i] = s[i]
  BY <1>6
<1> QED
  BY <1>1, <1>4, <1>5, <1>6

LEMMA OutboxStepKeeps ==
  ASSUME NotificationsInv, OutboxStep
  PROVE  NotificationsInv'
<1>1. /\ NotificationsTypeOK /\ OutboxTypeOK /\ OutboxInv
      /\ UNCHANGED <<stage, hand, position, assigned, committed, failed>>
  BY DEF NotificationsInv, OutboxStep, groupVars, NotificationsTypeOK
<1>2. OutboxInv' /\ OutboxTypeOK'
  BY <1>1, OutboxMoves DEF OutboxStep, OutboxInv
<1>3. /\ Len(rows) \in Nat /\ Len(topic) \in Nat
      /\ Len(rows') \in Nat /\ Len(topic') \in Nat
      /\ Len(rows) <= Len(rows') /\ Len(topic) <= Len(topic')
      /\ \A i \in 1 .. Len(rows) : rows'[i] = rows[i]
      /\ \A k \in 1 .. Len(topic) : topic'[k] = topic[k]
  BY <1>1, OutboxGrows DEF OutboxStep
<1>4. RowIds = 1 .. Len(rows) /\ RowIds' = 1 .. Len(rows')
  BY <1>1, <1>2, RowsAre DEF OutboxTypeOK, RowIds
<1>5. /\ notified' \in [1 .. Len(rows') -> Nat]
      /\ \A i \in RowIds : notified'[i] = notified[i]
  BY <1>1, <1>3, <1>4 DEF OutboxStep, NotificationsTypeOK, RowIds
<1>6. failed \subseteq RowIds'
  BY <1>1, <1>3, <1>4 DEF NotificationsTypeOK
<1>7. NotificationsTypeOK'
  BY <1>1, <1>2, <1>3, <1>5, <1>6 DEF NotificationsTypeOK
<1>8. ASSUME NEW k \in 1 .. Len(topic), Passed(k) PROVE Passed(k)'
  <2>1. topic[k] \in RowIds
    BY <1>1 DEF OutboxTypeOK
  <2>2. topic'[k] = topic[k] /\ rows'[topic[k]] = rows[topic[k]]
        /\ notified'[topic[k]] = notified[topic[k]]
    BY <1>3, <1>4, <1>5, <2>1
  <2> QED
    BY <1>1, <1>8, <2>2 DEF Passed, Told, Terminal
<1>9. OnlyFailuresArePassedOver'
  <2>1. \A k \in 1 .. committed : k \in 1 .. Len(topic) /\ Passed(k)
    BY <1>1, <1>3 DEF NotificationsInv, OnlyFailuresArePassedOver, Passed, NotificationsTypeOK
  <2> QED
    BY <1>1, <1>8, <2>1 DEF OnlyFailuresArePassedOver, Passed
<1>10. ASSUME NEW w \in Workers PROVE HandedPassed(w)' /\ HasMessage(w)'
  <2>1. position[w] \in 0 .. Len(topic)
    BY <1>1 DEF NotificationsTypeOK
  <2>2. \A k \in 1 .. position[w] : k \in 1 .. Len(topic)
    BY <1>3, <2>1
  <2> QED
    BY <1>1, <1>3, <1>8, <2>2 DEF NotificationsInv, HandedPassed, HasMessage
<1> QED
  BY <1>2, <1>7, <1>9, <1>10 DEF NotificationsInv

(* A step of a worker or the group leaves the outbox alone.                *)
LEMMA OutboxIsLeft ==
  ASSUME NotificationsInv, UNCHANGED <<events, rows, published, batch, sent, topic>>,
         Fault \/ UNCHANGED faults
  PROVE  /\ OutboxInv' /\ OutboxTypeOK'
         /\ Len(topic) \in Nat /\ Len(topic') = Len(topic)
         /\ RowIds' = RowIds /\ RowIds = 1 .. Len(rows)
         /\ \A k \in 1 .. Len(topic) : topic[k] \in RowIds
<1>1. OutboxInv /\ OutboxTypeOK
  BY DEF NotificationsInv, NotificationsTypeOK
<1>2. faults' \in 0 .. MaxFaults
  BY <1>1, OutboxAssumption DEF OutboxTypeOK, Fault
<1> QED
  BY <1>1, <1>2, OutboxStands, RowsAre DEF OutboxInv, OutboxTypeOK, RowIds

(* What is told or has failed stays so.                                    *)
LEMMA PassedStays ==
  ASSUME NotificationsInv, UNCHANGED <<rows, topic>>,
         \A i \in RowIds : notified'[i] >= notified[i],
         notified' \in [1 .. Len(rows) -> Nat], failed \subseteq failed',
         NEW k \in 1 .. Len(topic), Passed(k)
  PROVE  Passed(k)'
<1>1. topic[k] \in RowIds /\ RowIds = 1 .. Len(rows)
  BY RowsAre DEF NotificationsInv, NotificationsTypeOK, OutboxTypeOK
<1>2. notified[topic[k]] \in Nat /\ notified'[topic[k]] \in Nat
      /\ notified'[topic[k]] >= notified[topic[k]]
  BY <1>1 DEF NotificationsInv, NotificationsTypeOK
<1> QED
  BY <1>2 DEF Passed, Told, Terminal

(* The workers a step does not touch: nothing they rely on goes away.      *)
LEMMA WorkersStand ==
  ASSUME NotificationsInv, UNCHANGED <<rows, topic>>,
         \A i \in RowIds : notified'[i] >= notified[i],
         notified' \in [1 .. Len(rows) -> Nat], failed \subseteq failed',
         NEW w \in Workers,
         stage'[w] = stage[w], hand'[w] = hand[w], position'[w] = position[w],
         assigned' = w => assigned = w
  PROVE  HandedPassed(w)' /\ HasMessage(w)'
<1>1. Len(topic) \in Nat /\ position[w] \in 0 .. Len(topic)
  BY DEF NotificationsInv, NotificationsTypeOK, OutboxTypeOK
<1>2. \A k \in 1 .. position[w] : k \in 1 .. Len(topic)
  BY <1>1
<1> QED
  BY <1>2, PassedStays DEF NotificationsInv, HandedPassed, HasMessage

LEMMA CommittedStands ==
  ASSUME NotificationsInv, UNCHANGED <<rows, topic, committed>>,
         \A i \in RowIds : notified'[i] >= notified[i],
         notified' \in [1 .. Len(rows) -> Nat], failed \subseteq failed'
  PROVE  OnlyFailuresArePassedOver'
<1>1. Len(topic) \in Nat /\ committed \in 0 .. Len(topic)
  BY DEF NotificationsInv, NotificationsTypeOK, OutboxTypeOK
<1>2. \A k \in 1 .. committed : k \in 1 .. Len(topic) /\ Passed(k)
  BY <1>1 DEF NotificationsInv, OnlyFailuresArePassedOver, Passed
<1> QED
  BY <1>2, PassedStays DEF OnlyFailuresArePassedOver, Passed

(* One step of a worker: it goes to another stage and may fetch, tell,     *)
(* fail, commit or leave; the rest of the invariant stands.                *)
LEMMA WorkerMoves ==
  ASSUME NotificationsInv, NEW w \in Workers,
         UNCHANGED <<events, rows, published, batch, sent, topic>>,
         Fault \/ UNCHANGED faults,
         NEW to \in {"down", "waiting", "handling", "handled"},
         stage' = [stage EXCEPT ![w] = to],
         NEW h \in 0 .. Len(topic), hand' = [hand EXCEPT ![w] = h],
         NEW n \in 0 .. Len(topic), position' = [position EXCEPT ![w] = n],
         assigned' = assigned \/ assigned' = NoWorker,
         committed' \in 0 .. Len(topic),
         \A i \in RowIds : notified'[i] >= notified[i],
         notified' \in [1 .. Len(rows) -> Nat],
         failed \subseteq failed', failed' \subseteq RowIds,
         HandedPassed(w)', HasMessage(w)',
         OnlyFailuresArePassedOver'
  PROVE  NotificationsInv'
<1>1. NotificationsTypeOK
  BY DEF NotificationsInv
<1>2. /\ OutboxInv' /\ OutboxTypeOK'
      /\ RowIds' = RowIds /\ Len(topic') = Len(topic)
  BY OutboxIsLeft
<1>3. NotificationsTypeOK'
  BY <1>1, <1>2 DEF NotificationsTypeOK
<1>4. ASSUME NEW v \in Workers \ {w} PROVE HandedPassed(v)' /\ HasMessage(v)'
  <2>1. stage'[v] = stage[v] /\ hand'[v] = hand[v] /\ position'[v] = position[v]
    BY <1>1 DEF NotificationsTypeOK
  <2>2. assigned' = v => assigned = v
    BY NotificationsAssumption
  <2> QED
    BY <2>1, <2>2, WorkersStand
<1> QED
  BY <1>2, <1>3, <1>4 DEF NotificationsInv

LEMMA TypesOf ==
  ASSUME NotificationsInv, NEW w \in Workers
  PROVE  /\ NotificationsTypeOK
         /\ Len(topic) \in Nat /\ position[w] \in 0 .. Len(topic)
         /\ hand[w] \in 0 .. Len(topic) /\ committed \in 0 .. Len(topic)
         /\ notified \in [1 .. Len(rows) -> Nat] /\ failed \subseteq RowIds
         /\ RowIds = 1 .. Len(rows)
         /\ \A i \in RowIds : notified[i] >= notified[i]
         /\ hand = [hand EXCEPT ![w] = hand[w]]
         /\ position = [position EXCEPT ![w] = position[w]]
<1>1. NotificationsTypeOK /\ OutboxTypeOK
  BY DEF NotificationsInv, NotificationsTypeOK
<1>2. RowIds = 1 .. Len(rows)
  BY <1>1, RowsAre
<1>3. \A i \in RowIds : notified[i] >= notified[i]
  BY <1>1, <1>2 DEF NotificationsTypeOK
<1>4. /\ hand = [hand EXCEPT ![w] = hand[w]]
      /\ position = [position EXCEPT ![w] = position[w]]
  BY <1>1 DEF NotificationsTypeOK
<1>5. Len(topic) \in Nat
  BY <1>1 DEF OutboxTypeOK
<1> QED
  BY <1>1, <1>2, <1>3, <1>4, <1>5 DEF NotificationsTypeOK

LEMMA StartKeeps ==
  ASSUME NotificationsInv, NEW w \in Workers, Start(w)
  PROVE  NotificationsInv'
<1>1. /\ UNCHANGED <<events, rows, published, batch, sent, topic>>
      /\ UNCHANGED <<hand, position, assigned, committed, notified, failed, faults>>
      /\ stage[w] = "down" /\ stage' = [stage EXCEPT ![w] = "waiting"]
  BY DEF Start, Goto, groupVars
<1>2. stage'[w] = "waiting"
  BY <1>1, TypesOf DEF NotificationsTypeOK
<1>3. HandedPassed(w)' /\ HasMessage(w)' /\ OnlyFailuresArePassedOver'
  BY <1>1, <1>2 DEF NotificationsInv, HandedPassed, HasMessage, Passed, Told, Terminal,
                    OnlyFailuresArePassedOver
<1> QED
  BY <1>1, <1>3, TypesOf, WorkerMoves

LEMMA FetchKeeps ==
  ASSUME NotificationsInv, NEW w \in Workers, Fetch(w)
  PROVE  NotificationsInv'
<1>1. /\ UNCHANGED <<events, rows, published, batch, sent, topic>>
      /\ UNCHANGED <<assigned, committed, notified, failed, faults>>
      /\ assigned = w /\ position[w] < Len(topic)
      /\ stage[w] = "waiting" /\ stage' = [stage EXCEPT ![w] = "handling"]
      /\ position' = [position EXCEPT ![w] = position[w] + 1]
      /\ hand' = [hand EXCEPT ![w] = position[w] + 1]
  BY DEF Fetch, Goto
<1>2. position[w] + 1 \in 1 .. Len(topic)
  BY <1>1, TypesOf
<1>3. /\ stage'[w] = "handling"
      /\ position'[w] = position[w] + 1 /\ hand'[w] = position[w] + 1
  BY <1>1, TypesOf DEF NotificationsTypeOK
<1>4. HandedPassed(w)'
  <2>1. \A k \in 1 .. position[w] : Passed(k)
    BY <1>1 DEF NotificationsInv, HandedPassed
  <2>2. \A k \in 1 .. position[w] + 1 : k \in 1 .. position[w] \/ k = position[w] + 1
    BY TypesOf
  <2> QED
    BY <1>1, <1>3, <2>1, <2>2 DEF HandedPassed, Passed, Told, Terminal
<1>5. HasMessage(w)' /\ OnlyFailuresArePassedOver'
  BY <1>1, <1>2, <1>3 DEF NotificationsInv, HasMessage, Told, Terminal,
                          OnlyFailuresArePassedOver
<1>6. position[w] + 1 \in 0 .. Len(topic)
  BY <1>2
<1> QED
  BY <1>1, <1>4, <1>5, <1>6, TypesOf, WorkerMoves

LEMMA HandleKeeps ==
  ASSUME NotificationsInv, NEW w \in Workers, Handle(w)
  PROVE  NotificationsInv'
<1>1. /\ UNCHANGED <<events, rows, published, batch, sent, topic>>
      /\ UNCHANGED <<hand, position, assigned, committed, failed, faults>>
      /\ stage[w] = "handling" /\ stage' = [stage EXCEPT ![w] = "handled"]
      /\ notified' = IF rows[Row(w)].type \in Terminal
                     THEN [notified EXCEPT ![Row(w)] = @ + 1] ELSE notified
  BY DEF Handle, Goto, groupVars
<1>2. hand[w] \in 1 .. Len(topic) /\ Row(w) \in RowIds
  BY <1>1 DEF NotificationsInv, HasMessage, NotificationsTypeOK, OutboxTypeOK, Row
<1>3. /\ notified' \in [1 .. Len(rows) -> Nat]
      /\ \A i \in RowIds : notified'[i] >= notified[i]
      /\ Told(Row(w))'
  <2>1. CASE rows[Row(w)].type \in Terminal
    <3>1. notified' = [notified EXCEPT ![Row(w)] = notified[Row(w)] + 1]
      BY <1>1, <2>1
    <3>2. notified[Row(w)] \in Nat /\ notified \in [RowIds -> Nat]
      BY <1>2, TypesOf
    <3>3. notified'[Row(w)] = notified[Row(w)] + 1
      BY <1>2, <3>1, <3>2
    <3>4. \A i \in RowIds : notified'[i] >= notified[i]
      BY <3>1, <3>2
    <3>5. Told(Row(w))'
      <4>1. Row(w)' = Row(w)
        BY <1>1 DEF Row
      <4> QED
        BY <3>2, <3>3, <4>1 DEF Told
    <3>6. notified' \in [1 .. Len(rows) -> Nat]
      <4>1. notified' \in [RowIds -> Nat]
        <5>1. notified[Row(w)] + 1 \in Nat
          BY <3>2
        <5>2. ASSUME NEW n \in Nat PROVE [notified EXCEPT ![Row(w)] = n] \in [RowIds -> Nat]
          BY <3>2
        <5> QED
          BY <3>1, <5>1, <5>2
      <4>2. RowIds = 1 .. Len(rows)
        BY TypesOf
      <4> QED
        BY <4>1, <4>2
    <3> QED
      BY <3>4, <3>5, <3>6
  <2>2. CASE rows[Row(w)].type \notin Terminal
    <3>1. notified' = notified /\ Told(Row(w))'
      BY <1>1, <2>2 DEF Told, Row, Terminal
    <3> QED
      BY <3>1, TypesOf
  <2> QED
    BY <2>1, <2>2
<1>4. stage'[w] = "handled"
  BY <1>1, TypesOf DEF NotificationsTypeOK
<1>5. HandedPassed(w)'
  <2>1. ASSUME assigned = w, NEW k \in 1 .. position[w] PROVE Passed(k)'
    <3>1. CASE k = hand[w]
      BY <1>1, <1>3, <3>1 DEF Passed, Row
    <3>2. CASE k # hand[w]
      <4>1. Passed(k) /\ k \in 1 .. Len(topic)
        BY <2>1, <3>2, TypesOf DEF NotificationsInv, HandedPassed
      <4> QED
        BY <1>1, <1>3, <4>1, PassedStays
    <3> QED
      BY <3>1, <3>2
  <2> QED
    BY <1>1, <2>1 DEF HandedPassed
<1>6. HasMessage(w)' /\ OnlyFailuresArePassedOver'
  BY <1>1, <1>2, <1>3, CommittedStands DEF HasMessage
<1> QED
  BY <1>1, <1>3, <1>5, <1>6, TypesOf, WorkerMoves

LEMMA HandleFailsKeeps ==
  ASSUME NotificationsInv, NEW w \in Workers, HandleFails(w)
  PROVE  NotificationsInv'
<1>1. /\ UNCHANGED <<events, rows, published, batch, sent, topic>>
      /\ UNCHANGED <<hand, position, assigned, committed, notified>>
      /\ Fault /\ failed' = failed \cup {Row(w)}
      /\ stage[w] = "handling" /\ stage' = [stage EXCEPT ![w] = "waiting"]
  BY DEF HandleFails, Goto, groupVars
<1>2. hand[w] \in 1 .. Len(topic) /\ Row(w) \in RowIds
  BY <1>1 DEF NotificationsInv, HasMessage, NotificationsTypeOK, OutboxTypeOK, Row
<1>3. stage'[w] = "waiting"
  BY <1>1, TypesOf DEF NotificationsTypeOK
<1>4. HandedPassed(w)'
  <2>1. ASSUME assigned = w, NEW k \in 1 .. position[w] PROVE Passed(k)'
    <3>1. CASE k = hand[w]
      BY <1>1, <3>1 DEF Passed, Row
    <3>2. CASE k # hand[w]
      <4>1. Passed(k) /\ k \in 1 .. Len(topic)
        BY <2>1, <3>2, TypesOf DEF NotificationsInv, HandedPassed
      <4> QED
        BY <1>1, <4>1, TypesOf, PassedStays
    <3> QED
      BY <3>1, <3>2
  <2> QED
    BY <1>1, <2>1 DEF HandedPassed
<1>5. HasMessage(w)' /\ OnlyFailuresArePassedOver'
  BY <1>1, <1>3, TypesOf, CommittedStands DEF HasMessage
<1>6. failed' \subseteq RowIds
  BY <1>1, <1>2, TypesOf
<1> QED
  BY <1>1, <1>4, <1>5, <1>6, TypesOf, WorkerMoves

LEMMA CommitKeeps ==
  ASSUME NotificationsInv, NEW w \in Workers, CommitOffset(w)
  PROVE  NotificationsInv'
<1>1. /\ UNCHANGED <<events, rows, published, batch, sent, topic>>
      /\ UNCHANGED <<hand, position, assigned, notified, failed, faults>>
      /\ assigned = w /\ committed' = position[w]
      /\ stage[w] = "handled" /\ stage' = [stage EXCEPT ![w] = "waiting"]
  BY DEF CommitOffset, Goto
<1>2. stage'[w] = "waiting"
  BY <1>1, TypesOf DEF NotificationsTypeOK
<1>3. \A k \in 1 .. position[w] : Passed(k)
  BY <1>1 DEF NotificationsInv, HandedPassed
<1>4. HandedPassed(w)' /\ HasMessage(w)' /\ OnlyFailuresArePassedOver'
  BY <1>1, <1>2, <1>3 DEF HandedPassed, HasMessage, OnlyFailuresArePassedOver, Passed,
                          Told, Terminal
<1> QED
  BY <1>1, <1>4, TypesOf, WorkerMoves

LEMMA LeaveKeeps ==
  ASSUME NotificationsInv, NEW w \in Workers, CommitRefused(w) \/ Lose(w)
  PROVE  NotificationsInv'
<1>1. PICK to \in {"down", "waiting"} :
        /\ UNCHANGED <<events, rows, published, batch, sent, topic>>
        /\ UNCHANGED <<hand, position, committed, notified, failed>>
        /\ Fault \/ UNCHANGED faults
        /\ assigned' = assigned \/ assigned' = NoWorker
        /\ assigned' # w
        /\ stage' = [stage EXCEPT ![w] = to]
  BY NotificationsAssumption DEF CommitRefused, Lose, Goto, Stop, groupVars
<1>2. stage'[w] = to
  BY <1>1, TypesOf DEF NotificationsTypeOK
<1>3. HandedPassed(w)' /\ HasMessage(w)' /\ OnlyFailuresArePassedOver'
  BY <1>1, <1>2, TypesOf, CommittedStands DEF HandedPassed, HasMessage
<1> QED
  BY <1>1, <1>3, TypesOf, WorkerMoves

(* The group gives the partition to a worker, whatever it holds.           *)
LEMMA GiveKeeps ==
  ASSUME NotificationsInv, NEW w \in Workers, GiveTo(w), Fault \/ UNCHANGED faults
  PROVE  NotificationsInv'
<1>1. /\ UNCHANGED <<events, rows, published, batch, sent, topic>>
      /\ UNCHANGED <<stage, hand, committed, notified, failed>>
      /\ assigned' = w
      /\ position' = [position EXCEPT ![w] = committed]
  BY DEF GiveTo
<1>2. /\ OutboxInv' /\ OutboxTypeOK'
      /\ RowIds' = RowIds /\ Len(topic') = Len(topic)
  BY <1>1, OutboxIsLeft
<1>3. NotificationsTypeOK'
  BY <1>1, <1>2, TypesOf DEF NotificationsTypeOK
<1>4. OnlyFailuresArePassedOver'
  BY <1>1, TypesOf, CommittedStands
<1>5. position'[w] = committed
  BY <1>1, TypesOf DEF NotificationsTypeOK
<1>6. ASSUME NEW v \in Workers PROVE HandedPassed(v)' /\ HasMessage(v)'
  BY <1>1, <1>4, <1>5 DEF NotificationsInv, HandedPassed, HasMessage,
                          OnlyFailuresArePassedOver, Passed
<1> QED
  BY <1>2, <1>3, <1>4, <1>6 DEF NotificationsInv

LEMMA NotificationsInvariant == NotificationsSpec => []NotificationsInv
<1>1. NotificationsInit => NotificationsInv
  BY NotificationsStart
<1>2. NotificationsInv /\ [NotificationsNext]_allVars => NotificationsInv'
  <2> SUFFICES ASSUME NotificationsInv, [NotificationsNext]_allVars
               PROVE  NotificationsInv'
    OBVIOUS
  <2>1. CASE OutboxStep
    BY <2>1, OutboxStepKeeps
  <2>2. ASSUME NEW w \in Workers, WorkerStep(w) \/ HandleFails(w) \/ Lose(w)
        PROVE  NotificationsInv'
    BY <2>2, StartKeeps, FetchKeeps, HandleKeeps, HandleFailsKeeps, CommitKeeps,
       LeaveKeeps DEF WorkerStep
  <2>3. CASE Assign \/ Rebalance
    BY <2>3, GiveKeeps DEF Assign, Rebalance
  <2>4. CASE UNCHANGED allVars
    BY <2>4 DEF allVars, outboxVars, workerVars, groupVars, NotificationsInv,
       NotificationsTypeOK, OutboxInv, OutboxTypeOK, RowIds, BatchInOrder,
       AcknowledgedDelivered, TopicInOrder, Delivered, OnlyFailuresArePassedOver,
       HandedPassed, HasMessage, Passed, Told, Terminal
  <2> QED
    BY <2>1, <2>2, <2>3, <2>4 DEF NotificationsNext
<1> QED
  BY <1>1, <1>2, PTL DEF NotificationsSpec

-----------------------------------------------------------------------------
(* Every reachable state of relays, workers and group is well typed.       *)
THEOREM NotificationsTypeCorrect == NotificationsSpec => []NotificationsTypeOK
<1>1. NotificationsInv => NotificationsTypeOK
  BY DEF NotificationsInv
<1> QED
  BY <1>1, NotificationsInvariant, PTL

(* The committed offset never passes a terminal event that was not told    *)
(* and whose handling did not raise, whatever crashes, rebalances and      *)
(* refused commits there are.                                              *)
THEOREM NothingElseIsPassedOver == NotificationsSpec => []OnlyFailuresArePassedOver
<1>1. NotificationsInv => OnlyFailuresArePassedOver
  BY DEF NotificationsInv
<1> QED
  BY <1>1, NotificationsInvariant, PTL
=============================================================================
