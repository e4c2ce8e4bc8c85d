-------------------------------- MODULE Shop --------------------------------
(***************************************************************************)
(* The whole shop: API calls, the worker that claims and runs jobs         *)
(* (worker.py), the sweeper, and the admin's endpoints (api/admin.py),     *)
(* interleaved step by step.                                               *)
(***************************************************************************)
EXTENDS Payments, Delivery

CONSTANT Faults   \* {"raise", "crash"}: what may befall a running handler

ASSUME FaultsAssumption == Faults \subseteq {"raise", "crash"}

vars == <<orderStatus, paidAt, itemStatus, attempts, issued, ledger, toldOrder,
          toldItem, eventState, job, tries, pc, todo, result, queued>>

storeVars == <<orderVars, itemVars, moneyVars, eventState>>

Init ==
  /\ StoreInit
  /\ pc = [p \in Processes |-> "idle"]
  /\ todo = [p \in Processes |-> {}]
  /\ result = [p \in Processes |-> "none"]
  /\ queued = [p \in Processes |-> {}]

----------------------------------------------------------------------------
(* The queue and the worker.                                                *)

\* jobs.claim and the entry of the job's handler.
ClaimDelivery(o) ==
  LET k == Deliver(o) IN
  /\ job[k] = "pending" /\ pc[k] = "idle"
  /\ job' = WithJob(k, "running")
  /\ tries' = [tries EXCEPT ![o] = IF @ = MaxAttempts THEN @ ELSE @ + 1]
  /\ Goto(k, "start")
  /\ UNCHANGED <<storeVars, todo, result, queued>>

ClaimRefund(i) ==
  LET k == Refund(i) IN
  /\ job[k] = "pending" /\ pc[k] = "idle"
  /\ job' = WithJob(k, "running")
  /\ todo' = [todo EXCEPT ![k] = {i}]
  /\ Goto(k, "refund")
  /\ UNCHANGED <<storeVars, tries, result, queued>>

ClaimOrphans(o) ==
  LET k == Orphans(o) IN
  /\ job[k] = "pending" /\ pc[k] = "idle"
  /\ job' = WithJob(k, "running")
  /\ Goto(k, "orphans")
  /\ UNCHANGED <<storeVars, tries, todo, result, queued>>

\* handle_orphans: retry while there is no order, else apply the batch.
HandleOrphans(o) ==
  LET k == Orphans(o) IN
  /\ pc[k] = "orphans"
  /\ Goto(k, "end")
  /\ \/ /\ orderStatus[o] = "absent"
        /\ result' = [result EXCEPT ![k] = "retry"]
        /\ UNCHANGED <<orderVars, ledger, eventState, job>>
     \/ /\ orderStatus[o] # "absent"
        /\ result' = [result EXCEPT ![k] = "done"]
        /\ ApplyOrphanEvents(o)
  /\ UNCHANGED <<itemVars, issued, tries, todo, queued>>

\* A mutation: only a throttled job goes back to the queue.
AfterOutcomeDropsRetries(outcome) == IF outcome = "throttle" THEN "pending" ELSE "none"

\* The transaction in which _run_job writes the handler's outcome to the job:
\* finish, reschedule, requeue_without_penalty or retry_later.  The attempts
\* of a row nobody will look at again are forgotten.
AfterOutcome(outcome) == IF outcome \in {"retry", "throttle"} THEN "pending" ELSE "none"

JobEnd(k) ==
  /\ pc[k] = "end"
  /\ Goto(k, "idle")
  /\ job' = WithJob(k, AfterOutcome(result[k]))
  /\ result' = [result EXCEPT ![k] = "none"]
  /\ tries' = [o \in Orders |->
       IF k # Deliver(o) \/ result[k] = "retry" THEN tries[o]
       ELSE IF result[k] = "throttle" /\ tries[o] > 0 THEN tries[o] - 1
       ELSE 0]
  /\ UNCHANGED <<storeVars, todo, queued>>

\* An exception rolls the open transaction back and _run_job retries the job.
Raise(k) ==
  /\ "raise" \in Faults
  /\ pc[k] \notin {"idle", "end"}
  /\ Goto(k, "end")
  /\ todo' = [todo EXCEPT ![k] = {}]
  /\ queued' = [queued EXCEPT ![k] = {}]
  /\ result' = [result EXCEPT ![k] = "retry"]
  /\ UNCHANGED <<storeVars, queueVars>>

\* The process running p dies: the open transaction is rolled back, and the
\* row of a job stays 'running' with nobody to run it.  Nobody retries the
\* admin's request: an exception in it ends it in the same way, and counts
\* as "crash" too.
Crash(p) ==
  /\ "crash" \in Faults
  /\ pc[p] # "idle"
  /\ Goto(p, "idle")
  /\ todo' = [todo EXCEPT ![p] = {}]
  /\ queued' = [queued EXCEPT ![p] = {}]
  /\ result' = [result EXCEPT ![p] = "none"]
  /\ UNCHANGED <<storeVars, queueVars>>

----------------------------------------------------------------------------
(* The sweeper and the admin.                                               *)

\* sweeper_loop: the time since updated_at is not modelled, so any paid order
\* that is not final may be found stuck.
SweepStuck(o) ==
  /\ orderStatus[o] \notin NotDeliverable /\ paidAt[o]
  /\ job[Deliver(o)] = "none"
  /\ job' = Enqueued({Deliver(o)})
  /\ UNCHANGED <<storeVars, tries, procVars>>

\* A mutation: the sweeper looks for orphans of unpaid orders only.
SweepOrphansUnpaid(o) ==
  /\ orderStatus[o] = "created" /\ OrphanEvents(o) # {}
  /\ job[Orphans(o)] = "none"
  /\ job' = Enqueued({Orphans(o)})
  /\ UNCHANGED <<storeVars, tries, procVars>>

SweepOrphans(o) ==
  /\ orderStatus[o] # "absent" /\ OrphanEvents(o) # {}
  /\ job[Orphans(o)] = "none"
  /\ job' = Enqueued({Orphans(o)})
  /\ UNCHANGED <<storeVars, tries, procVars>>

\* POST /admin/orders/{id}/redeliver
Redeliver(o) ==
  /\ paidAt[o] /\ orderStatus[o] # "delivered"
  /\ job[Deliver(o)] = "none"
  /\ job' = Enqueued({Deliver(o)})
  /\ UNCHANGED <<storeVars, tries, procVars>>

\* POST /admin/orders/{id}/refund: the checks and the list of open items; then
\* refund_item for each and finalize_order, as in a refund job.
AdminRefund(o) ==
  LET p == Admin(o) IN
  /\ pc[p] = "idle"
  /\ paidAt[o] /\ orderStatus[o] # "delivered"
  /\ todo' = [todo EXCEPT ![p] = OpenItems(o)]
  /\ Goto(p, IF OpenItems(o) = {} THEN AfterRefunds ELSE "refund")
  /\ UNCHANGED <<storeVars, queueVars, result, queued>>

SettlementStep(p, o) == RefundItem(p) \/ CloseRead(p, o) \/ CloseWrite(p, o)

----------------------------------------------------------------------------
ApiStep == \/ \E o \in Orders : CreateOrder(o) /\ UNCHANGED procVars
           \/ \E e \in Events :
                /\ Webhook(e) \/ WebhookFindsNoOrder(e) \/ WebhookKeepsOrphan(e)
                /\ UNCHANGED procVars

Next ==
  \/ ApiStep
  \/ \E o \in Orders :
       \/ ClaimDelivery(o) \/ DeliveryStep(o)
       \/ ClaimOrphans(o) \/ HandleOrphans(o)
       \/ SweepStuck(o) \/ SweepOrphans(o)
       \/ Redeliver(o) \/ AdminRefund(o) \/ SettlementStep(Admin(o), o)
  \/ \E i \in Items : ClaimRefund(i) \/ SettlementStep(Refund(i), OrderOf[i])
  \/ \E k \in Jobs : JobEnd(k) \/ Raise(k)
  \/ \E p \in Processes : Crash(p)

Spec == Init /\ [][Next]_vars

----------------------------------------------------------------------------
(* Safety.                                                                  *)

\* Every row and every handler's local state has a value of its type.
TypeOK ==
  /\ StoreTypeOK
  /\ pc \in [Processes -> PcValues]
  /\ todo \in [Processes -> SUBSET Items]
  /\ result \in [Processes -> Results]
  /\ queued \in [Processes -> SUBSET RefundJobs]

\* An item is 'delivered' exactly when a code is bound to it and the delivery
\* is posted, whichever of deliver_item, refund_item and a retry came last;
\* one that is 'refunded' has the refund posted, and a posted refund leaves
\* the item refunded or, if a code came after all, delivered.
BooksMatchItems ==
  \A i \in Items :
    /\ itemStatus[i] = "delivered" <=> issued[i] # NoCode
    /\ itemStatus[i] = "delivered" <=> Posted("delivery_settled", i)
    /\ itemStatus[i] = "refunded" => Posted("refund", i)
    /\ Posted("refund", i) => Closed(i)

\* No item of an unpaid order is worked on, delivered or refunded, and the
\* payment is posted exactly for the orders with a payment date.
NothingBeforePayment ==
  /\ \A o \in Orders : paidAt[o] <=> Posted("payment_captured", o)
  /\ \A i \in Items : itemStatus[i] # "pending" => paidAt[OrderOf[i]]
  /\ \A o \in Orders : job[Deliver(o)] # "none" => paidAt[o]

\* Two items never hold the same code, even when suppliers hand one out twice.
NoCodeTwice ==
  \A i, j \in Items : i # j /\ issued[i] # NoCode => issued[i] # issued[j]

\* A final order has no open item: nothing a customer paid for is forgotten by
\* an order that reports itself finished.
FinalOrderIsClosed ==
  \A o \in Orders : orderStatus[o] \in FinalOrder => OpenItems(o) = {}

\* A delivered item is never touched again; a refunded one only ever becomes
\* delivered (a code that was in flight), never open again.
ClosedItemStays ==
  [][\A i \in Items :
       /\ itemStatus[i] = "delivered" => UNCHANGED <<itemStatus[i], issued[i]>>
       /\ itemStatus[i] = "refunded" => itemStatus'[i] \in TerminalItem]_vars

\* Once an item is refunded and the supplier is not being asked about it, no
\* later delivery, retry or redelivery hands a code over for it: phase 1 of
\* deliver_item reads the status the row has now.
InFlight(i) ==
  LET p == Deliver(OrderOf[i]) IN pc[p] = "network" /\ IsFirst(i, todo[p])

RefundSticks ==
  [][\A i \in Items :
       itemStatus[i] = "refunded" /\ ~InFlight(i)
         => itemStatus'[i] = "refunded" /\ ~InFlight(i)']_vars

\* docs/API.md, "Из финальных статусов система не выходит": a final order stays
\* final and a failed payment stays failed, whatever retries and late handlers do.
FinalOrderStays ==
  [][\A o \in Orders :
       /\ orderStatus[o] \in FinalOrder => orderStatus'[o] \in FinalOrder
       /\ orderStatus[o] = "payment_failed" => orderStatus'[o] = "payment_failed"]_vars

\* The history of an item folds to the status in its row, except that a
\* throttled attempt puts the row back to 'pending' without an event.
HistoryOfItems ==
  \A i \in Items :
    \/ toldItem[i] = itemStatus[i]
    \/ itemStatus[i] = "pending" /\ toldItem[i] = "delivering"

\* The history of an order follows its row until the row is final.  The row
\* becomes 'delivering' without an event (deliver_order); and a delivery that
\* ends after the order became final tells the history of a status the row
\* never has, in spite of README.md, but it leaves the row alone.
HistoryOfOrders ==
  \A o \in Orders :
    \/ toldOrder[o] = orderStatus[o]
    \/ orderStatus[o] \in FinalOrder \cup {"delivering"}

\* The outbox loses no payment: an order that is still 'paid' has an active
\* delivery job (models.py, Job).
PaidIsQueued ==
  \A o \in Orders : orderStatus[o] = "paid" => job[Deliver(o)] # "none"

\* Once no delivery of the order is queued or running, every item nobody sells
\* and every failed item without attempts left has its refund job.
DueRefundIsScheduled ==
  \A i \in Items :
    RefundDue(i) /\ job[Deliver(OrderOf[i])] = "none" => job[Refund(i)] # "none"

\* No job of the order is active and the admin is not refunding it.
Quiet(o) ==
  /\ job[Deliver(o)] = "none" /\ pc[Admin(o)] = "idle"
  /\ \A i \in ItemsOf(o) : job[Refund(i)] = "none"

\* While no process dies: when all items of a paid order are closed and nothing
\* works on it any more, the order has a final status.  The last of several
\* concurrent handlers to close an item always sees the others' items.
ClosedOrderIsFinal ==
  \A o \in Orders :
    paidAt[o] /\ AllClosed(o) /\ Quiet(o) => orderStatus[o] \in FinalOrder

\* At most one notification moves an order out of 'created', and the order is
\* paid exactly when that one said "paid" with the right amount - duplicates,
\* orphans, late and wrong notifications included.
PaymentMatchesEvents ==
  \A o \in Orders :
    LET applied == {e \in Events : e.order = o /\ eventState[e] = "applied"} IN
    /\ Cardinality(applied) <= 1
    /\ paidAt[o] <=> \E e \in applied : e.status = "paid" /\ e.exact
    /\ orderStatus[o] = "payment_failed" <=> \E e \in applied : e.status = "failed"

\* Orphans are applied in the order of the provider's clock, not of arrival:
\* when one moves the order, an older one was refused for its amount.
OrphansInProviderOrder ==
  [][\A e \in Events : \A f \in Events :
       ( /\ f.order = e.order /\ f.at < e.at
         /\ eventState[e] = "orphan" /\ eventState[f] = "orphan"
         /\ eventState'[e] = "applied" )
       => eventState'[f] = "rejected"]_vars

----------------------------------------------------------------------------
(* Refinement: the tables implement the promise.                            *)

Kept == INSTANCE Promise WITH
  paid     <- {o \in Orders : Posted("payment_captured", o)},
  holds    <- issued,
  paidBack <- {i \in Items : Posted("refund", i)},
  finished <- {o \in Orders : orderStatus[o] \in FinalOrder}

\* Every step of the shop is a step of the promise or changes nothing of it.
PromiseKept == Kept!Spec

----------------------------------------------------------------------------
(* What the documentation says and the code does not do.                    *)

\* settlement.py: "Позиция закрывается ровно одним способом" - an item is not
\* both delivered and refunded.
ClosedOneWay ==
  \A i \in Items : ~(Posted("delivery_settled", i) /\ Posted("refund", i))

\* docs/API.md: when the attempts are used up, what was not delivered is
\* refunded - the item has its refund job once its delivery job has ended.
SpentBudgetIsRefunded ==
  \A i \in Items :
    ~Closed(i) /\ Exhausted(i) /\ job[Deliver(OrderOf[i])] = "none"
      => job[Refund(i)] # "none"

\* README.md: 'delivered' is all delivered, 'refunded' is nothing delivered -
\* of the items as they are when nothing works on the order any more.
FinalStatusMatchesItems ==
  \A o \in Orders :
    orderStatus[o] \in FinalOrder /\ Quiet(o) => orderStatus[o] = ClosingStatus(o)

----------------------------------------------------------------------------
(* Liveness.                                                                *)

\* The supplier says something other than "wait" or nothing about item i.
Answered(o, i) ==
  \/ \E c \in Codes : HandOver(o, i, c) \/ CodeCollision(o, i, c)
  \/ \E kind \in (Outcomes \cap DOMAIN StatusOnFailure) \ {"unknown"} :
        NotHandedOver(o, i, kind)

\* The worker polls, its handlers run on, open transactions commit and the
\* sweeper ticks; now and then a supplier may be asked and its answer is known.
\* No customer, provider or admin is obliged to do anything.
Fairness ==
  /\ \A o \in Orders :
       /\ WF_vars(ClaimDelivery(o)) /\ WF_vars(DeliveryStep(o))
       /\ WF_vars(ClaimOrphans(o)) /\ WF_vars(HandleOrphans(o))
       /\ WF_vars(SweepStuck(o)) /\ WF_vars(SweepOrphans(o))
       /\ \A i \in ItemsOf(o) : SF_vars(Answered(o, i))
  /\ \A i \in Items : WF_vars(ClaimRefund(i)) /\ WF_vars(SettlementStep(Refund(i), OrderOf[i]))
  /\ \A k \in Jobs : WF_vars(JobEnd(k))
  /\ \A e \in Events : WF_vars(WebhookKeepsOrphan(e) /\ UNCHANGED procVars)

FairSpec == Spec /\ Fairness

\* sweeper_loop: it brings every order that hangs to its final status.
PaidOrderFinishes ==
  \A o \in Orders : paidAt[o] ~> orderStatus[o] \in FinalOrder

\* The worker that ran job k has died.
Abandoned(k) == job[k] = "running" /\ pc[k] = "idle"

\* A paid order reaches a final status by itself, whatever suppliers answer,
\* wherever workers die; only a job that died while it ran can keep it from it.
PaidOrderFinishesOrJobDied ==
  \A o \in Orders :
    paidAt[o] ~> \/ orderStatus[o] \in FinalOrder
                 \/ Abandoned(Deliver(o)) \/ \E i \in ItemsOf(o) : Abandoned(Refund(i))

\* A notification that came before its order is decided once the order exists,
\* though POST /orders and the webhook may both have missed the other.
OrphansAreDecided ==
  \A e \in Events :
    eventState[e] \in {"no order yet", "orphan"} /\ orderStatus[e.order] # "absent"
      ~> \/ eventState[e] \in {"applied", "ignored", "rejected"}
         \/ Abandoned(Orphans(e.order))
=============================================================================
