------------------------------- MODULE Outbox -------------------------------
(***************************************************************************)
(* The transactional outbox: the rows of payment_events, the relays of     *)
(* app/workers/outbox_publisher.py and the Kafka topic they write.         *)
(*                                                                         *)
(* The API process always runs a relay (main.py, lifespan) and another may *)
(* run standalone, so there may be several.  The topic is one partition:   *)
(* messages carry their payment's id as key, so all of a payment's go to   *)
(* the same one.  A row is named by its place in the table: created_at,    *)
(* in whole seconds, is set under SQLite's write lock, so it never falls   *)
(* as the rows commit, and the index on it keeps equal ones in the order   *)
(* of their rowids, which grow as well.                                    *)
(***************************************************************************)
EXTENDS Integers, Sequences, SequencesExt

CONSTANTS
  PaymentIds,
  Courses,      \* the sequences of event types a payment may commit
  Relays,       \* the outbox publishers
  BatchSize,    \* BATCH_SIZE
  MaxFaults     \* bound: how many times something goes wrong

ASSUME OutboxAssumption ==
  /\ \A c \in Courses : c \in Seq(STRING)
  /\ BatchSize \in Nat \ {0}
  /\ MaxFaults \in Nat

VARIABLES
  events,     \* payment -> the types of its rows, in commit order
  rows,       \* payment_events in commit order: [payment, type]
  published,  \* the rows whose published_at is set
  batch,      \* relay -> the rows it selected and has not done with
  sent,       \* relay -> the first of them is acknowledged by Kafka
  topic,      \* the rows in the topic, in its order
  faults      \* how many things went wrong so far

outboxVars == <<events, rows, published, batch, sent, topic, faults>>

RowIds == DOMAIN rows

RowsOf(p) == {i \in RowIds : rows[i].payment = p}

OutboxTypeOK ==
  /\ events \in [PaymentIds -> Seq(STRING)]
  /\ rows \in Seq([payment : PaymentIds, type : STRING])
  /\ published \subseteq RowIds
  /\ batch \in [Relays -> Seq(RowIds)]
  /\ sent \in [Relays -> BOOLEAN]
  /\ topic \in Seq(RowIds)
  /\ faults \in 0 .. MaxFaults

OutboxInit ==
  /\ events = [p \in PaymentIds |-> <<>>]
  /\ rows = <<>>
  /\ published = {}
  /\ batch = [r \in Relays |-> <<>>]
  /\ sent = [r \in Relays |-> FALSE]
  /\ topic = <<>>
  /\ faults = 0

Fault == faults < MaxFaults /\ faults' = faults + 1

-----------------------------------------------------------------------------
(* A commit of _process_payment that records the next event of a payment.  *)
RecordEvent(p) ==
  /\ \E c \in Courses :
       LET n == Len(events[p]) IN
       /\ n < Len(c) /\ events[p] = SubSeq(c, 1, n)
       /\ events' = [events EXCEPT ![p] = Append(@, c[n + 1])]
       /\ rows' = Append(rows, [payment |-> p, type |-> c[n + 1]])
  /\ UNCHANGED <<published, batch, sent, topic, faults>>

(***************************************************************************)
(* publish_pending: select the oldest unpublished rows, then send each,    *)
(* set its published_at and commit.                                        *)
(***************************************************************************)
Unpublished == RowIds \ published

(* s is what ORDER BY created_at LIMIT BATCH_SIZE makes of them.           *)
OldestFirst(s) ==
  /\ \A k, l \in DOMAIN s : k < l => s[k] < s[l]
  /\ \A i \in Unpublished :
       \/ \E k \in DOMAIN s : s[k] = i
       \/ Len(s) = BatchSize /\ \A k \in DOMAIN s : s[k] < i

Select(r) ==
  /\ batch[r] = <<>>
  /\ \E s \in UNION {[1 .. n -> Unpublished] : n \in 0 .. BatchSize} :
       OldestFirst(s) /\ batch' = [batch EXCEPT ![r] = s]
  /\ UNCHANGED <<events, rows, published, sent, topic, faults>>

Publishing(r) == batch[r] # <<>> /\ UNCHANGED <<events, rows>>

Deliver(r) == topic' = Append(topic, Head(batch[r]))

Send(r) ==
  /\ Publishing(r)
  /\ ~sent[r]
  /\ Deliver(r)
  /\ sent' = [sent EXCEPT ![r] = TRUE]
  /\ UNCHANGED <<published, batch, faults>>

(* mutant: published_at is committed before the message is sent            *)
MarkPublishedFirst(r) ==
  /\ Publishing(r)
  /\ published' = published \cup {Head(batch[r])}
  /\ batch' = IF sent[r] THEN [batch EXCEPT ![r] = Tail(@)] ELSE batch
  /\ sent' = [sent EXCEPT ![r] = FALSE]
  /\ UNCHANGED <<topic, faults>>

MarkPublished(r) ==
  /\ Publishing(r)
  /\ sent[r]
  /\ published' = published \cup {Head(batch[r])}
  /\ batch' = [batch EXCEPT ![r] = Tail(@)]
  /\ sent' = [sent EXCEPT ![r] = FALSE]
  /\ UNCHANGED <<topic, faults>>

(* The broker has the message and its acknowledgement is lost: the         *)
(* producer, which is not idempotent, sends it again.                      *)
Resend(r) ==
  /\ Publishing(r)
  /\ ~sent[r]
  /\ Fault
  /\ Deliver(r)
  /\ UNCHANGED <<published, batch, sent>>

(* mutant: a row that cannot be sent is skipped and the next one tried     *)
SkipRow(r) ==
  /\ Publishing(r)
  /\ Fault
  /\ batch' = [batch EXCEPT ![r] = Tail(@)]
  /\ sent' = [sent EXCEPT ![r] = FALSE]
  /\ UNCHANGED <<published, topic>>

(* send_and_wait or the commit raises, or the relay's process dies: what   *)
(* is left of the batch is forgotten, and selected again after the pause.  *)
GiveUp(r) ==
  /\ Publishing(r)
  /\ Fault
  /\ batch' = [batch EXCEPT ![r] = <<>>]
  /\ sent' = [sent EXCEPT ![r] = FALSE]
  /\ UNCHANGED <<published, topic>>

RelayStep(r) == Select(r) \/ Send(r) \/ MarkPublished(r)

OutboxNext ==
  \/ \E p \in PaymentIds : RecordEvent(p)
  \/ \E r \in Relays : RelayStep(r) \/ Resend(r) \/ GiveUp(r)

OutboxSpec == OutboxInit /\ [][OutboxNext]_outboxVars

-----------------------------------------------------------------------------
(***************************************************************************)
(* Properties.                                                             *)
(***************************************************************************)
InTopic(i) == Contains(topic, i)

(* A row with a published_at is in the topic, whatever failed on the way   *)
(* and whichever relay set it: "the event is never lost" (docstring of     *)
(* outbox_publisher).                                                      *)
PublishedIsInTopic == \A i \in published : InTopic(i)

(* A consumer meets the events of a payment in the order of its            *)
(* transitions: when one is first in the topic, the earlier ones of the    *)
(* same payment are there before it, although relays resend, start over    *)
(* and overtake each other.                                                *)
FirstDeliveriesInOrder ==
  \A i, j \in RowIds, k \in DOMAIN topic :
    i < j /\ rows[i].payment = rows[j].payment /\ topic[k] = j
      => \E l \in 1 .. k - 1 : topic[l] = i
=============================================================================
