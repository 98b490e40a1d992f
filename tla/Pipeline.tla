------------------------------ MODULE Pipeline -------------------------------
(***************************************************************************)
(* From a payment to the notification of its outcome: the rows that the    *)
(* commits of Payments add to payment_events, the relays that publish them *)
(* and the workers that tell the users (Outbox, Notifications).  What      *)
(* Outbox leaves to RecordEvent is here what payments do.                  *)
(*                                                                         *)
(* The server that serves payments runs a relay and a worker of its own    *)
(* (main.py, lifespan): they die with it, as GiveUp and Lose have it, each *)
(* in a step of its own.                                                   *)
(***************************************************************************)
EXTENDS Payments, SequencesExt

CONSTANTS Relays, BatchSize, MaxFaults, Workers, NoWorker     \* as in Notifications

VARIABLES rows, published, batch, sent, topic, faults,        \* as in Outbox
          stage, hand, position, assigned, committed, notified, failed

News == INSTANCE Notifications WITH PaymentIds <- Payers

pipelineVars == <<payVars, rows, published, batch, sent, topic, faults,
                  stage, hand, position, assigned, committed, notified, failed>>

PipelineInit == PaymentsInit /\ News!NotificationsInit

-----------------------------------------------------------------------------
(* An event is a row of the same transaction.                              *)
NewRow(r) == [payment |-> r, type |-> Last(events'[r])]

PaymentsGoOn ==
  /\ PaymentsNext
  /\ \/ UNCHANGED <<events, rows, notified>>
     \/ \E r \in Payers :
          /\ events'[r] # events[r]
          /\ rows' = Append(rows, NewRow(r))
          /\ notified' = Append(notified, 0)
  /\ UNCHANGED <<published, batch, sent, topic, faults,
                 stage, hand, position, assigned, committed, failed>>

(* Relays and workers only read what payments have committed.              *)
NewsTravels == News!NotificationsNext /\ UNCHANGED payVars

PipelineNext == PaymentsGoOn \/ NewsTravels

PipelineSpec == PipelineInit /\ [][PipelineNext]_pipelineVars

-----------------------------------------------------------------------------
(***************************************************************************)
(* Properties.                                                             *)
(***************************************************************************)
(* Users are told what happened to their money, and it stays so.  Where    *)
(* somebody was told "You paid" and "You received", the money went from    *)
(* one to the other; where "FAILED - the receiver never got anything"      *)
(* (notification_worker.py:95), the sender has all of it - across the      *)
(* commits of the payment, an outbox that sends twice and a worker that is *)
(* handed messages again.                                                  *)
WhatIsToldIsSo ==
  \A i \in DOMAIN rows :
    notified[i] > 0 =>
      LET leg == legs[rows[i].payment] IN
      \/ /\ rows[i].type = "SUCCESS"
         /\ leg.debit = 1 /\ leg.credit = 1 /\ leg.refund = 0
      \/ /\ rows[i].type = "FAILED"
         /\ leg.credit = 0 /\ leg.refund = leg.debit

(* What payments commit is what Outbox and Notifications take for granted. *)
PaymentsFeedOutbox == News!NotificationsSpec
=============================================================================
