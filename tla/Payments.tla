------------------------------ MODULE Payments ------------------------------
(***************************************************************************)
(* Order creation and the payment provider's notifications                 *)
(* (services/orders.py, services/payments.py).  A notification may come    *)
(* before its order exists, twice, or out of order; its row in             *)
(* payment_events is written in the transaction that applies it.           *)
(***************************************************************************)
EXTENDS Store

\* A mutation: the amount is not compared with the order's.
DecisionAnyAmount(e, status) ==
  IF status = "created" THEN "applied" ELSE "ignored"

\* What _apply_to_order decides for notification e against a row in `status`.
Decision(e, status) ==
  IF e.status = "paid" /\ ~e.exact THEN "rejected"
  ELSE IF status = "created" THEN "applied"
  ELSE "ignored"

\* The rest of _apply_to_order for the one notification that moves the order
\* out of 'created': status, posting, history and the outbox job commit together.
Apply(e) ==
  LET o == e.order IN
  IF e.status = "paid"
  THEN /\ orderStatus' = [orderStatus EXCEPT ![o] = "paid"]
       /\ paidAt' = [paidAt EXCEPT ![o] = TRUE]
       /\ ledger' = Post("payment_captured", o)
       /\ toldOrder' = [toldOrder EXCEPT ![o] = "paid"]
  ELSE /\ orderStatus' = [orderStatus EXCEPT ![o] = "payment_failed"]
       /\ toldOrder' = [toldOrder EXCEPT ![o] = "payment_failed"]
       /\ UNCHANGED <<paidAt, ledger>>

\* A mutation: the delivery job is written whatever the notification says.
ApplyJobsAlways(e) == {Deliver(e.order)}

\* The outbox row Apply writes.
ApplyJobs(e) == IF e.status = "paid" THEN {Deliver(e.order)} ELSE {}

----------------------------------------------------------------------------
\* POST /orders: the order and its items, and a job for notifications that
\* came before.  A repeat with the same basket returns the existing order.
CreateOrder(o) ==
  /\ orderStatus[o] = "absent"
  /\ orderStatus' = [orderStatus EXCEPT ![o] = "created"]
  /\ toldOrder' = [toldOrder EXCEPT ![o] = "created"]
  /\ job' = Enqueued(IF \E e \in Events : e.order = o /\ eventState[e] = "orphan"
                     THEN {Orphans(o)} ELSE {})
  /\ UNCHANGED <<paidAt, itemVars, moneyVars, eventState, tries>>

\* POST /webhooks/payment for an order that exists: the row lock serialises
\* it with every other notification of the order.  A second delivery of the
\* same event conflicts on event_id and changes nothing.
Webhook(e) ==
  LET decision == Decision(e, orderStatus[e.order]) IN
  /\ eventState[e] = "unseen"
  /\ orderStatus[e.order] # "absent"
  /\ eventState' = [eventState EXCEPT ![e] = decision]
  /\ IF decision = "applied"
     THEN Apply(e) /\ job' = Enqueued(ApplyJobs(e))
     ELSE UNCHANGED <<orderVars, ledger, job>>
  /\ UNCHANGED <<itemVars, issued, tries>>

\* The same handler finds no order ...
WebhookFindsNoOrder(e) ==
  /\ eventState[e] = "unseen"
  /\ orderStatus[e.order] = "absent"
  /\ eventState' = [eventState EXCEPT ![e] = "no order yet"]
  /\ UNCHANGED <<orderVars, itemVars, moneyVars, queueVars>>

\* ... and commits the orphan, which POST /orders may not have seen.
WebhookKeepsOrphan(e) ==
  /\ eventState[e] = "no order yet"
  /\ eventState' = [eventState EXCEPT ![e] = "orphan"]
  /\ job' = Enqueued({Orphans(e.order)})
  /\ UNCHANGED <<orderVars, itemVars, moneyVars, tries>>

----------------------------------------------------------------------------
OrphanEvents(o) == {e \in Events : e.order = o /\ eventState[e] = "orphan"}

\* A mutation: the batch is not sorted by the provider's clock.
MoversUnsorted(o) == {e \in OrphanEvents(o) : Decision(e, orderStatus[o]) = "applied"}

\* The notifications that may be the first of the batch to move the order:
\* ORDER BY event_created_at, ties broken by arrival (any of them here).
Movers(o) ==
  LET able == {e \in OrphanEvents(o) : Decision(e, orderStatus[o]) = "applied"}
  IN  {e \in able : \A f \in able : e.at <= f.at}

\* apply_orphan_events: at most one notification applies, and each of the
\* others is decided against the status that one leaves.
ApplyOrphanEvents(o) ==
  \/ /\ Movers(o) = {}
     /\ eventState' = [e \in Events |->
          IF e \in OrphanEvents(o) THEN Decision(e, orderStatus[o]) ELSE eventState[e]]
     /\ UNCHANGED <<orderVars, ledger, job>>
  \/ \E first \in Movers(o) :
     /\ Apply(first)
     /\ job' = Enqueued(ApplyJobs(first))
     /\ eventState' = [e \in Events |->
          IF e = first THEN "applied"
          ELSE IF e \in OrphanEvents(o) THEN Decision(e, orderStatus'[o])
          ELSE eventState[e]]
=============================================================================
