---------------------------- MODULE Notifications ----------------------------
(***************************************************************************)
(* app/workers/notification_worker.py at the other end of the topic of     *)
(* Outbox: workers of one Kafka consumer group turn SUCCESS and FAILED     *)
(* events into rows of notifications.  The group and its committed offset  *)
(* are Kafka's.  The API process always runs a worker and another may run  *)
(* standalone; the only partition is given to one of them at a time.       *)
(***************************************************************************)
EXTENDS Outbox

CONSTANTS
  Workers,      \* the notification workers
  NoWorker      \* the partition is nobody's

ASSUME NotificationsAssumption == NoWorker \notin Workers

VARIABLES
  stage,       \* worker -> where its loop is
  hand,        \* worker -> the offset after the message it was handed last
  position,    \* worker -> the offset its consumer fetches next
  assigned,    \* the worker the group gave the partition to
  committed,   \* the group's committed offset
  notified,    \* row -> times the notifications of its event were written
  failed       \* the rows whose handle_event raised

groupVars == <<hand, position, assigned, committed>>
workerVars == <<stage, groupVars, notified, failed>>
allVars == <<outboxVars, workerVars>>

Terminal == {"SUCCESS", "FAILED"}

NotificationsTypeOK ==
  /\ OutboxTypeOK
  /\ stage \in [Workers -> {"down", "waiting", "handling", "handled"}]
  /\ hand \in [Workers -> 0 .. Len(topic)]
  /\ position \in [Workers -> 0 .. Len(topic)]
  /\ assigned \in Workers \cup {NoWorker}
  /\ committed \in 0 .. Len(topic)
  /\ notified \in [1 .. Len(rows) -> Nat]
  /\ failed \subseteq RowIds

NotificationsInit ==
  /\ OutboxInit
  /\ stage = [w \in Workers |-> "down"]
  /\ hand = [w \in Workers |-> 0]
  /\ position = [w \in Workers |-> 0]
  /\ assigned = NoWorker
  /\ committed = 0
  /\ notified = <<>>
  /\ failed = {}

Goto(w, from, to) ==
  /\ stage[w] = from
  /\ stage' = [stage EXCEPT ![w] = to]
  /\ UNCHANGED <<events, rows, published, batch, sent, topic>>

(* The message in the worker's hands.                                      *)
Row(w) == topic[hand[w]]

-----------------------------------------------------------------------------
(* consumer.start() joins the group, which gives the partition to somebody *)
(* who has joined; the consumer then fetches from the committed offset     *)
(* (auto_offset_reset="earliest").                                         *)
Start(w) ==
  /\ Goto(w, "down", "waiting")
  /\ UNCHANGED <<groupVars, notified, failed, faults>>

GiveTo(w) ==
  /\ stage[w] # "down"
  /\ assigned' = w
  /\ position' = [position EXCEPT ![w] = committed]
  /\ UNCHANGED <<events, rows, published, batch, sent, topic,
                 stage, hand, committed, notified, failed>>

Assign ==
  /\ assigned = NoWorker
  /\ \E w \in Workers : GiveTo(w)
  /\ UNCHANGED faults

Rebalance ==
  /\ assigned # NoWorker
  /\ \E w \in Workers \ {assigned} : GiveTo(w)
  /\ Fault

(* mutant: the offset is committed before the event is handled             *)
FetchCommitting(w) ==
  /\ assigned = w
  /\ position[w] < Len(topic)
  /\ Goto(w, "waiting", "handling")
  /\ position' = [position EXCEPT ![w] = @ + 1]
  /\ hand' = [hand EXCEPT ![w] = position[w] + 1]
  /\ committed' = position[w] + 1
  /\ UNCHANGED <<assigned, notified, failed, faults>>

(* The consumer's position moves on as the message is handed out.          *)
Fetch(w) ==
  /\ assigned = w
  /\ position[w] < Len(topic)
  /\ Goto(w, "waiting", "handling")
  /\ position' = [position EXCEPT ![w] = @ + 1]
  /\ hand' = [hand EXCEPT ![w] = position[w] + 1]
  /\ UNCHANGED <<assigned, committed, notified, failed, faults>>

(* handle_event returns: an audit-only event, or the notifications of a    *)
(* terminal one written in one commit.                                     *)
Handle(w) ==
  /\ Goto(w, "handling", "handled")
  /\ notified' = IF rows[Row(w)].type \in Terminal
                 THEN [notified EXCEPT ![Row(w)] = @ + 1] ELSE notified
  /\ UNCHANGED <<groupVars, failed, faults>>

(* handle_event raises: it is logged, and the loop goes on to the next     *)
(* message without a commit.                                               *)
HandleFails(w) ==
  /\ Fault
  /\ Goto(w, "handling", "waiting")
  /\ failed' = failed \cup {Row(w)}
  /\ UNCHANGED <<groupVars, notified>>

(* mutant: one is added to a position that is past the message already     *)
CommitOffsetNext(w) ==
  /\ assigned = w
  /\ Goto(w, "handled", "waiting")
  /\ committed' = position[w] + 1
  /\ UNCHANGED <<hand, position, assigned, notified, failed, faults>>

(* consumer.commit(): where the consumer stands.                           *)
CommitOffset(w) ==
  /\ assigned = w
  /\ Goto(w, "handled", "waiting")
  /\ committed' = position[w]
  /\ UNCHANGED <<hand, position, assigned, notified, failed, faults>>

Stop(w) == assigned' = IF assigned = w THEN NoWorker ELSE assigned

(* The partition went to another worker: the commit raises, or the         *)
(* consumer has nothing to commit and the loop goes on.                    *)
CommitRefused(w) ==
  /\ assigned # w
  /\ \E to \in {"down", "waiting"} : Goto(w, "handled", to)
  /\ UNCHANGED <<groupVars, notified, failed, faults>>

(* mutant: a worker that stops commits how far it has fetched              *)
LoseCommitting(w) ==
  /\ stage[w] # "down"
  /\ Fault
  /\ Goto(w, stage[w], "down")
  /\ Stop(w)
  /\ committed' = IF assigned = w THEN position[w] ELSE committed
  /\ UNCHANGED <<hand, position, notified, failed>>

(* The connection is lost or the process dies; run_forever, or whoever     *)
(* restarts the process, starts over.                                      *)
Lose(w) ==
  /\ stage[w] # "down"
  /\ Fault
  /\ Goto(w, stage[w], "down")
  /\ Stop(w)
  /\ UNCHANGED <<hand, position, committed, notified, failed>>

(* A row begins its life without notifications.                            *)
OutboxStep ==
  /\ OutboxNext
  /\ notified' = [i \in DOMAIN rows' |-> IF i \in DOMAIN notified THEN notified[i] ELSE 0]
  /\ UNCHANGED <<stage, groupVars, failed>>

WorkerStep(w) ==
  Start(w) \/ Fetch(w) \/ Handle(w) \/ CommitOffset(w) \/ CommitRefused(w)

NotificationsNext ==
  \/ OutboxStep
  \/ \E w \in Workers : WorkerStep(w) \/ HandleFails(w) \/ Lose(w)
  \/ Assign \/ Rebalance

NotificationsSpec == NotificationsInit /\ [][NotificationsNext]_allVars

NotificationsFairSpec ==
  /\ NotificationsSpec
  /\ \A r \in Relays : WF_allVars(RelayStep(r) /\ OutboxStep)
  /\ \A w \in Workers : WF_allVars(WorkerStep(w))
  /\ WF_allVars(Assign)

-----------------------------------------------------------------------------
(***************************************************************************)
(* Properties.                                                             *)
(***************************************************************************)
Told(i) == rows[i].type \notin Terminal \/ notified[i] > 0

(* "The Kafka offset is only committed after the notification is durably   *)
(* written, so a crash mid-processing replays the event on restart rather  *)
(* than losing it" (docstring of notification_worker): the group's offset  *)
(* never passes a terminal event whose notifications are not there, except *)
(* one whose handling raised - whatever crashes and rebalances do.         *)
OnlyFailuresArePassedOver ==
  \A k \in 1 .. committed : Told(topic[k]) \/ topic[k] \in failed

(* The same docstring without the exception.  The code does not keep it:   *)
(* the commit after the next message covers the one that failed.           *)
NoNotificationLost == \A k \in 1 .. committed : Told(topic[k])

(* The event of a row is in the topic, and if it is an outcome its users   *)
(* are told, unless handling it raised.                                    *)
Arrived(i) == InTopic(i) /\ (Told(i) \/ i \in failed)

(* Every committed event of a payment arrives, at worst late or twice: no  *)
(* crash, lost acknowledgement, overtaking relay or rebalance leaves a     *)
(* user without an answer.  (The rows of a payment are finitely many and   *)
(* what has arrived stays so: that again and again all of them have is     *)
(* that each of them does.)                                                *)
EveryEventArrives ==
  \A p \in PaymentIds : []<>(\A i \in RowsOf(p) : Arrived(i))
=============================================================================
