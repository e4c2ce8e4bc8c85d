---------------------------- MODULE OrderProofs -----------------------------
(***************************************************************************)
(* Proofs about payments and orders: nothing happens before the payment, a *)
(* final order is closed and stays final, the shop implements Promise, and *)
(* a payment is what one notification decided.                             *)
(***************************************************************************)
EXTENDS ItemProofs, FiniteSetTheorems, WellFoundedInduction

\* Process p works for order o.
Serves(p, o) == p \in {Deliver(o), Admin(o)} \/ \E i \in ItemsOf(o) : p = Refund(i)

\* Whoever is about to write a final status has seen all items closed.
ClosersSawAll ==
  \A o \in Orders : \A p \in Processes : Serves(p, o) /\ pc[p] = "close_write" => AllClosed(o)

PaidInv ==
  /\ NothingBeforePayment
  /\ \A o \in Orders : /\ pc[Deliver(o)] # "idle" => paidAt[o]
                       /\ paidAt[o] => orderStatus[o] \notin NotYetPaid

----------------------------------------------------------------------------
(* What a step may do to the orders and their payments.                     *)

PaymentsSame ==
  \A o \in Orders : Posted("payment_captured", o)' <=> Posted("payment_captured", o)

OrdersSame == UNCHANGED <<orderStatus, paidAt>> /\ PaymentsSame

OrderCreated(o) ==
  /\ orderStatus[o] = "absent"
  /\ orderStatus' = [orderStatus EXCEPT ![o] = "created"]
  /\ UNCHANGED <<paidAt, itemStatus, issued, ledger>>

OrderDecided(e) ==
  /\ orderStatus[e.order] = "created"
  /\ Apply(e)
  /\ UNCHANGED <<itemStatus, issued>>

OrderWorked(o) ==
  /\ orderStatus[o] \notin NotDeliverable /\ pc[Deliver(o)] # "idle"
  /\ \E st \in WriteStatus : orderStatus' = [orderStatus EXCEPT ![o] = st]
  /\ UNCHANGED <<paidAt, itemStatus, issued, ledger>>

OrderClosed(o) ==
  /\ \E p \in Processes : Serves(p, o) /\ pc[p] = "close_write"
  /\ \E st \in FinalOrder : orderStatus' = [orderStatus EXCEPT ![o] = st]
  /\ UNCHANGED <<paidAt, itemStatus, issued, ledger>>

OrderEffect ==
  \/ OrdersSame
  \/ \E o \in Orders : OrderCreated(o) \/ OrderWorked(o) \/ OrderClosed(o)
  \/ \E e \in Events : OrderDecided(e)

\* A step that leaves the orders alone is an order effect.
LEMMA SameOrders ==
  ASSUME UNCHANGED <<orderStatus, paidAt, ledger>>
  PROVE  OrderEffect
BY DEF OrderEffect, OrdersSame, PaymentsSame, Posted

\* Postings about items are not postings about payments.
LEMMA ItemsApart ==
  ASSUME UNCHANGED <<orderStatus, paidAt>>, NEW i,
         \/ ledger' = Post("refund", i)
         \/ ledger' = ledger \cup {<<"delivery_settled", i>>, <<"delivery_cost", i>>}
  PROVE  OrderEffect
BY DEF OrderEffect, OrdersSame, PaymentsSame, Posted, Post

\* Applying a notification is an order effect.
LEMMA DecidedEffect ==
  ASSUME NEW e \in Events, Decision(e, orderStatus[e.order]) = "applied", Apply(e),
         UNCHANGED <<itemStatus, issued>>
  PROVE  OrderEffect
BY DEF OrderEffect, OrderDecided, Decision

\* Every step of the shop has one of the order effects.
LEMMA OrderSteps ==
  ASSUME TypeInv, [Next]_vars
  PROVE  OrderEffect
<1> USE SameOrders DEF TypeInv, TypeOK, StoreTypeOK
<1>1. CASE UNCHANGED vars
  BY <1>1 DEF vars
<1>2. CASE ApiStep
  <2>1. ASSUME NEW o \in Orders, CreateOrder(o) PROVE OrderEffect
    BY <2>1 DEF CreateOrder, itemVars, moneyVars, OrderEffect, OrderCreated
  <2>2. ASSUME NEW e \in Events, Webhook(e) PROVE OrderEffect
    BY <2>2, DecidedEffect DEF Webhook, itemVars, orderVars
  <2>3. ASSUME NEW e \in Events, WebhookFindsNoOrder(e) \/ WebhookKeepsOrphan(e) PROVE OrderEffect
    BY <2>3 DEF WebhookFindsNoOrder, WebhookKeepsOrphan, orderVars, moneyVars
  <2> QED
    BY <1>2, <2>1, <2>2, <2>3 DEF ApiStep
<1>3. ASSUME NEW p \in Processes, NEW o \in Orders, Serves(p, o), SettlementStep(p, o) \/ SettleOrder(p, o)
      PROVE  OrderEffect
  <2>1. CASE RefundItem(p)
    BY <2>1, ItemsApart DEF RefundItem, orderVars
  <2>2. CASE CloseWrite(p, o)
    <3>1. result[p] \in FinalOrder
      BY <2>2 DEF CloseWrite, ResultFits
    <3> QED
      BY <1>3, <2>2, <3>1 DEF CloseWrite, itemVars, moneyVars, OrderEffect, OrderClosed
  <2>3. CASE CloseRead(p, o) \/ SettleOrder(p, o)
    BY <2>3 DEF CloseRead, SettleOrder, orderVars, moneyVars
  <2> QED
    BY <1>3, <2>1, <2>2, <2>3 DEF SettlementStep
<1>4. ASSUME NEW o \in Orders, DeliveryStep(o) PROVE OrderEffect
  <2>1. CASE StartDelivery(o)
    <3>1. CASE orderStatus' = orderStatus
      BY <2>1, <3>1 DEF StartDelivery, moneyVars
    <3>2. CASE orderStatus' # orderStatus
      <4>1. /\ orderStatus[o] \notin NotDeliverable /\ pc[Deliver(o)] # "idle"
            /\ orderStatus' = [orderStatus EXCEPT ![o] = "delivering"]
            /\ UNCHANGED <<paidAt, itemStatus, issued, ledger>>
        BY <2>1, <3>2 DEF StartDelivery, itemVars, moneyVars
      <4> QED
        BY <4>1 DEF OrderEffect, OrderWorked, WriteStatus
    <3> QED
      BY <3>1, <3>2
  <2>2. CASE WriteOrder(o)
    <3>1. CASE ~StillOpen(o)
      BY <2>2, <3>1 DEF WriteOrder, moneyVars
    <3>2. CASE StillOpen(o)
      <4>1. result[Deliver(o)] \in WriteStatus
        BY <2>2, Keys DEF WriteOrder, ResultFits
      <4> QED
        BY <2>2, <3>2, <4>1
           DEF WriteOrder, StillOpen, itemVars, moneyVars, OrderEffect, OrderWorked
    <3> QED
      BY <3>1, <3>2
  <2>3. CASE CaptureItem(o) \/ ReduceOrder(o)
    BY <2>3 DEF CaptureItem, ReduceOrder, orderVars, moneyVars
  <2>4. ASSUME NEW i, NEW c, HandOver(o, i, c) PROVE OrderEffect
    BY <2>4, ItemsApart DEF HandOver, NextItem, orderVars
  <2>5. ASSUME NEW i, NEW x, CodeCollision(o, i, x) \/ NotHandedOver(o, i, x) \/ Throttled(o, i)
        PROVE  OrderEffect
    BY <2>5 DEF CodeCollision, NotHandedOver, Throttled, NextItem, orderVars, moneyVars
  <2>6. Serves(Deliver(o), o)
    BY DEF Serves
  <2> QED
    BY <1>3, <1>4, <2>1, <2>2, <2>3, <2>4, <2>5, <2>6, Keys DEF DeliveryStep, SettlementStep
<1>5. ASSUME NEW o \in Orders, HandleOrphans(o) PROVE OrderEffect
  <2>1. CASE UNCHANGED <<orderVars, ledger>>
    BY <2>1 DEF orderVars
  <2>2. ASSUME NEW e \in Movers(o), Apply(e) PROVE OrderEffect
    <3>1. e \in Events /\ Decision(e, orderStatus[e.order]) = "applied"
      BY DEF Movers, OrphanEvents
    <3> QED
      BY <1>5, <2>2, <3>1, DecidedEffect DEF HandleOrphans, itemVars
  <2> QED
    BY <1>5, <2>1, <2>2 DEF HandleOrphans, ApplyOrphanEvents
<1>6. CASE UNCHANGED storeVars
  BY <1>6 DEF storeVars, orderVars, moneyVars
<1>7. ASSUME NEW o \in Orders,
             \/ ClaimDelivery(o) \/ ClaimOrphans(o) \/ SweepStuck(o) \/ SweepOrphans(o)
             \/ Redeliver(o) \/ AdminRefund(o)
      PROVE  OrderEffect
  BY <1>6, <1>7 DEF ClaimDelivery, ClaimOrphans, SweepStuck, SweepOrphans, Redeliver, AdminRefund
<1>8. ASSUME NEW p, ClaimRefund(p) \/ JobEnd(p) \/ Raise(p) \/ Crash(p) PROVE OrderEffect
  BY <1>6, <1>8 DEF ClaimRefund, JobEnd, Raise, Crash
<1>9. /\ \A o \in Orders : Serves(Admin(o), o)
      /\ \A i \in Items : OrderOf[i] \in Orders /\ Serves(Refund(i), OrderOf[i])
  BY StoreAssumption DEF Serves, ItemsOf
<1> QED
  BY <1>1, <1>2, <1>3, <1>4, <1>5, <1>7, <1>8, <1>9, Keys DEF Next

----------------------------------------------------------------------------
(* What a step may do to the deliveries and to those who close orders.      *)

\* A delivery starts only from its job, and the job only for a paid order.
QueueEffect ==
  \A o \in Orders :
    /\ job'[Deliver(o)] # "none" =>
         job[Deliver(o)] # "none" \/ pc[Deliver(o)] # "idle" \/ paidAt'[o]
    /\ pc'[Deliver(o)] # "idle" => pc[Deliver(o)] # "idle" \/ job[Deliver(o)] # "none"

\* A handler gets to its last write by seeing all items closed.
CloseEffect ==
  \A p \in Processes, o \in Orders :
    Serves(p, o) /\ pc'[p] = "close_write" =>
      pc[p] = "close_write" \/ (AllClosed(o) /\ UNCHANGED itemStatus)

\* Enqueueing refunds and orphans starts no delivery.
LEMMA EnqueuedOther ==
  ASSUME NEW keys, keys \subseteq RefundJobs \cup OrphanJobs, NEW o \in Orders
  PROVE  Enqueued(keys)[Deliver(o)] = job[Deliver(o)]
BY Keys, KeysApart DEF Enqueued

\* An orphan job is neither a delivery nor a refund.
LEMMA OrphanKeys == \A o \in Orders : {Orphans(o)} \subseteq OrphanJobs
BY DEF Orphans, OrphanJobs

\* settle_order names refund jobs only.
LEMMA SettleKeys == \A o \in Orders : RefundsToSettle(o) \subseteq RefundJobs
BY Keys DEF RefundsToSettle, OpenItems, ItemsOf

\* A notification enqueues the delivery of the order it pays for.
LEMMA ApplyQueues ==
  ASSUME TypeInv, NEW e \in Events, Apply(e), job' = Enqueued(ApplyJobs(e)), NEW o \in Orders
  PROVE  job'[Deliver(o)] # "none" => job[Deliver(o)] # "none" \/ paidAt'[o]
<1>1. CASE o = e.order
  BY <1>1, Keys DEF Apply, ApplyJobs, Enqueued, TypeInv, TypeOK, StoreTypeOK
<1>2. CASE o # e.order
  BY <1>2, Keys, KeysApart, StoreAssumption DEF ApplyJobs, Enqueued
<1> QED
  BY <1>1, <1>2

\* Every step of the shop has one of the queue effects.
LEMMA QueueSteps ==
  ASSUME TypeInv, [Next]_vars
  PROVE  QueueEffect
<1> USE Keys, KeysApart, EnqueuedOther DEF TypeInv, TypeOK, StoreTypeOK, Goto
<1> SUFFICES ASSUME NEW q \in Orders
             PROVE  /\ job'[Deliver(q)] # "none" => \/ job[Deliver(q)] # "none"
                                                     \/ pc[Deliver(q)] # "idle" \/ paidAt'[q]
                    /\ pc'[Deliver(q)] # "idle" => pc[Deliver(q)] # "idle"
                                                     \/ job[Deliver(q)] # "none"
  BY DEF QueueEffect
<1> DEFINE Goal == /\ job'[Deliver(q)] # "none" => \/ job[Deliver(q)] # "none"
                                                     \/ pc[Deliver(q)] # "idle" \/ paidAt'[q]
                   /\ pc'[Deliver(q)] # "idle" => pc[Deliver(q)] # "idle"
                                                    \/ job[Deliver(q)] # "none"
<1>1. CASE UNCHANGED vars
  BY <1>1 DEF vars
<1>2. CASE ApiStep
  <2>1. ASSUME NEW o \in Orders, CreateOrder(o), UNCHANGED procVars PROVE Goal
    BY <2>1, OrphanKeys DEF CreateOrder, procVars
  <2>2. ASSUME NEW e \in Events, Webhook(e), UNCHANGED procVars PROVE Goal
    <3>1. CASE Apply(e) /\ job' = Enqueued(ApplyJobs(e))
      BY <2>2, <3>1, ApplyQueues DEF procVars
    <3>2. CASE UNCHANGED job
      BY <2>2, <3>2 DEF procVars
    <3> QED
      BY <2>2, <3>1, <3>2 DEF Webhook
  <2>3. ASSUME NEW e \in Events, WebhookFindsNoOrder(e) \/ WebhookKeepsOrphan(e),
               UNCHANGED procVars
        PROVE  Goal
    <3>1. CASE WebhookFindsNoOrder(e)
      BY <2>3, <3>1 DEF WebhookFindsNoOrder, procVars, queueVars
    <3>2. CASE WebhookKeepsOrphan(e)
      <4>1. {Orphans(e.order)} \subseteq OrphanJobs
        BY OrphanKeys, StoreAssumption
      <4> QED
        BY <2>3, <3>2, <4>1 DEF WebhookKeepsOrphan, procVars
    <3> QED
      BY <2>3, <3>1, <3>2
  <2> QED
    BY <1>2, <2>1, <2>2, <2>3 DEF ApiStep
<1>3. ASSUME NEW p \in Processes, NEW o \in Orders, SettlementStep(p, o) \/ SettleOrder(p, o)
      PROVE  Goal
  <2>1. CASE RefundItem(p)
    BY <2>1 DEF RefundItem, queueVars
  <2>2. CASE CloseRead(p, o) \/ CloseWrite(p, o)
    <3>1. pc'[Deliver(q)] # "idle" => pc[Deliver(q)] # "idle"
      BY <2>2 DEF CloseRead, CloseWrite
    <3>2. queued[p] \subseteq RefundJobs
      OBVIOUS
    <3>3. UNCHANGED job \/ job' = Enqueued(queued[p])
      BY <2>2 DEF CloseRead, CloseWrite
    <3> QED
      BY <3>1, <3>2, <3>3
  <2>3. CASE SettleOrder(p, o)
    BY <2>3, SettleKeys DEF SettleOrder
  <2> QED
    BY <1>3, <2>1, <2>2, <2>3 DEF SettlementStep
<1>4. ASSUME NEW o \in Orders, DeliveryStep(o) PROVE Goal
  <2>1. CASE StartDelivery(o) \/ CaptureItem(o)
    BY <2>1 DEF StartDelivery, CaptureItem, queueVars
  <2>2. CASE ReduceOrder(o)
    <3>1. {k \in RefundsToSchedule(o) : job[k] = "none"} \subseteq RefundJobs
      BY RefundKeys
    <3> QED
      BY <2>2, <3>1 DEF ReduceOrder
  <2>3. CASE WriteOrder(o)
    BY <2>3 DEF WriteOrder
  <2>4. ASSUME NEW i, NextItem(Deliver(o), i), pc[Deliver(o)] # "idle" PROVE Goal
    BY <2>4 DEF NextItem, queueVars
  <2> QED
    BY <1>3, <1>4, <2>1, <2>2, <2>3, <2>4
       DEF DeliveryStep, SettlementStep, HandOver, CodeCollision, NotHandedOver, Throttled, Asked
<1>5. ASSUME NEW o \in Orders, HandleOrphans(o) PROVE Goal
  <2>1. CASE UNCHANGED job
    BY <1>5, <2>1 DEF HandleOrphans
  <2>2. ASSUME NEW e \in Movers(o), Apply(e), job' = Enqueued(ApplyJobs(e)) PROVE Goal
    BY <1>5, <2>2, ApplyQueues DEF HandleOrphans, Movers, OrphanEvents
  <2> QED
    BY <1>5, <2>1, <2>2 DEF HandleOrphans, ApplyOrphanEvents
<1>6. ASSUME NEW o \in Orders, ClaimDelivery(o) \/ ClaimOrphans(o) \/ AdminRefund(o) PROVE Goal
  <2>1. CASE ClaimDelivery(o)
    BY <2>1 DEF ClaimDelivery, WithJob
  <2>2. CASE ClaimOrphans(o)
    BY <2>2 DEF ClaimOrphans, WithJob
  <2>3. CASE AdminRefund(o)
    BY <2>3 DEF AdminRefund, queueVars
  <2> QED
    BY <1>6, <2>1, <2>2, <2>3
<1>7. ASSUME NEW o \in Orders, SweepStuck(o) \/ Redeliver(o) PROVE Goal
  BY <1>7 DEF SweepStuck, Redeliver, Enqueued, storeVars, orderVars, procVars
<1>8. ASSUME NEW o \in Orders, SweepOrphans(o) PROVE Goal
  BY <1>8, OrphanKeys DEF SweepOrphans, procVars
<1>9. ASSUME NEW i \in Items, ClaimRefund(i) PROVE Goal
  BY <1>9 DEF ClaimRefund, WithJob
<1>10. ASSUME NEW k \in Jobs, JobEnd(k) \/ Raise(k) PROVE Goal
  <2>1. CASE JobEnd(k)
    BY <2>1 DEF JobEnd, WithJob
  <2>2. CASE Raise(k)
    BY <2>2 DEF Raise, queueVars
  <2> QED
    BY <1>10, <2>1, <2>2
<1>11. ASSUME NEW p \in Processes, Crash(p) PROVE Goal
  BY <1>11 DEF Crash, queueVars
<1> QED
  BY <1>1, <1>2, <1>3, <1>4, <1>5, <1>6, <1>7, <1>8, <1>9, <1>10, <1>11, StoreAssumption DEF Next

\* Every order a process may serve is the one it was started for.
LEMMA ServesOne ==
  /\ \A p, o, q : o \in Orders /\ q \in Orders /\ Serves(p, o) /\ Serves(p, q) => o = q
  /\ \A o \in Orders : Serves(Deliver(o), o) /\ Serves(Admin(o), o)
  /\ \A i \in Items : Serves(Refund(i), OrderOf[i])
  /\ \A o, q \in Orders : ~Serves(Orphans(o), q)
BY DEF Serves, Deliver, Admin, Refund, Orphans, ItemsOf

\* Every step of the shop has one of the closing effects.
LEMMA CloseSteps ==
  ASSUME TypeInv, [Next]_vars
  PROVE  CloseEffect
<1> USE Keys DEF TypeInv, TypeOK, StoreTypeOK, Goto
<1> SUFFICES ASSUME NEW r \in Processes, NEW q \in Orders, Serves(r, q),
                    pc'[r] = "close_write", pc[r] # "close_write"
             PROVE  AllClosed(q) /\ UNCHANGED itemStatus
  BY DEF CloseEffect
<1>1. ASSUME NEW p \in Processes, NEW s, pc' = [pc EXCEPT ![p] = s], s # "close_write"
      PROVE  FALSE
  BY <1>1
<1>2. ASSUME UNCHANGED pc PROVE FALSE
  BY <1>2
<1>3. CASE UNCHANGED vars \/ ApiStep
  BY <1>2, <1>3 DEF vars, ApiStep, procVars
<1>4. ASSUME NEW p \in Processes, NEW o \in Orders, Serves(p, o),
             SettlementStep(p, o) \/ SettleOrder(p, o)
      PROVE  AllClosed(q) /\ UNCHANGED itemStatus
  <2>1. CASE RefundItem(p)
    <3>1. \E s : s # "close_write" /\ pc' = [pc EXCEPT ![p] = s]
      BY <2>1 DEF RefundItem, AfterRefunds
    <3> QED
      BY <3>1, <1>1
  <2>2. CASE CloseRead(p, o)
    <3>1. CASE AllClosed(o) /\ Goto(p, "close_write")
      <4>1. r = p
        BY <3>1
      <4>2. q = o
        BY <1>4, <4>1, ServesOne
      <4> QED
        BY <2>2, <3>1, <4>2 DEF CloseRead, itemVars
    <3>2. CASE Goto(p, AfterClose(p))
      BY <1>1, <3>2 DEF AfterClose
    <3> QED
      BY <2>2, <3>1, <3>2 DEF CloseRead
  <2>3. CASE CloseWrite(p, o) \/ SettleOrder(p, o)
    BY <1>1, <2>3 DEF CloseWrite, SettleOrder, AfterClose
  <2> QED
    BY <1>4, <2>1, <2>2, <2>3 DEF SettlementStep
<1>5. ASSUME NEW o \in Orders, DeliveryStep(o) PROVE AllClosed(q) /\ UNCHANGED itemStatus
  <2>1. CASE StartDelivery(o) \/ CaptureItem(o)
    BY <1>1, <1>2, <2>1 DEF StartDelivery, CaptureItem
  <2>2. CASE ReduceOrder(o) \/ WriteOrder(o)
    BY <1>1, <2>2 DEF ReduceOrder, WriteOrder
  <2>3. ASSUME NEW i, NextItem(Deliver(o), i) PROVE FALSE
    BY <1>1, <2>3 DEF NextItem
  <2> QED
    BY <1>4, <1>5, <2>1, <2>2, <2>3, ServesOne
       DEF DeliveryStep, SettlementStep, HandOver, CodeCollision, NotHandedOver, Throttled
<1>6. ASSUME NEW o \in Orders,
             \/ ClaimDelivery(o) \/ ClaimOrphans(o) \/ HandleOrphans(o)
             \/ SweepStuck(o) \/ SweepOrphans(o) \/ Redeliver(o)
      PROVE  FALSE
  BY <1>1, <1>2, <1>6 DEF ClaimDelivery, ClaimOrphans, HandleOrphans, SweepStuck, SweepOrphans,
                          Redeliver, procVars
<1>7. ASSUME NEW o \in Orders, AdminRefund(o) PROVE FALSE
  BY <1>1, <1>7 DEF AdminRefund, AfterRefunds
<1>8. ASSUME NEW i \in Items, ClaimRefund(i) PROVE FALSE
  BY <1>1, <1>8 DEF ClaimRefund
<1>9. ASSUME NEW p \in Processes, JobEnd(p) \/ Raise(p) \/ Crash(p) PROVE FALSE
  BY <1>1, <1>9 DEF JobEnd, Raise, Crash
<1> QED
  BY <1>3, <1>4, <1>5, <1>6, <1>7, <1>8, <1>9, ServesOne, StoreAssumption DEF Next

----------------------------------------------------------------------------
(* Nothing happens before the payment.                                      *)

\* A payment date is never taken back, and comes only with the posting.
LEMMA PaidStays ==
  ASSUME TypeInv, OrderEffect, NEW o \in Orders, paidAt[o]
  PROVE  paidAt'[o]
BY StoreAssumption
   DEF OrderEffect, OrdersSame, OrderCreated, OrderWorked, OrderClosed, OrderDecided, Apply,
       TypeInv, TypeOK, StoreTypeOK

\* Nothing is paid, queued or worked on at first.
LEMMA InitPaid == Init => PaidInv /\ ClosersSawAll /\ FinalOrderIsClosed
BY Keys, StoreAssumption
   DEF Init, StoreInit, PaidInv, NothingBeforePayment, Posted, ClosersSawAll, FinalOrderIsClosed,
       FinalOrder

\* A step that works on an item changes its status only after the payment.
LEMMA ItemsAfterPayment ==
  ASSUME TypeInv, PaidInv, ItemEffect, OrderEffect, NEW i \in Items, itemStatus'[i] # "pending"
  PROVE  paidAt'[OrderOf[i]]
<1> OrderOf[i] \in Orders
  BY StoreAssumption
<1>1. CASE itemStatus'[i] = itemStatus[i]
  BY <1>1, PaidStays DEF PaidInv, NothingBeforePayment
<1>2. CASE itemStatus'[i] # itemStatus[i]
  <2>1. pc[Deliver(OrderOf[i])] # "idle" \/ paidAt[OrderOf[i]]
    BY <1>2 DEF ItemEffect, ItemsSame, ItemMoves, ItemHandedOver, ItemRefunded, Refundable,
                TypeInv, TypeOK, StoreTypeOK
  <2> QED
    BY <2>1, PaidStays DEF PaidInv
<1> QED
  BY <1>1, <1>2

\* The payment posting and the payment date come together.
LEMMA PaymentPosted ==
  ASSUME TypeInv, PaidInv, OrderEffect, NEW o \in Orders
  PROVE  paidAt'[o] <=> Posted("payment_captured", o)'
<1> USE DEF TypeInv, TypeOK, StoreTypeOK, PaidInv, NothingBeforePayment, Posted
<1>1. CASE OrdersSame
  BY <1>1 DEF OrdersSame, PaymentsSame
<1>2. CASE UNCHANGED <<paidAt, ledger>>
  BY <1>2
<1>3. ASSUME NEW e \in Events, Apply(e) PROVE paidAt'[o] <=> Posted("payment_captured", o)'
  BY <1>3, <1>2, StoreAssumption DEF Apply, Post
<1> QED
  BY <1>1, <1>2, <1>3 DEF OrderEffect, OrderCreated, OrderWorked, OrderClosed, OrderDecided

\* A paid order has left the statuses before and without payment for good.
LEMMA PaidMoved ==
  ASSUME TypeInv, PaidInv, OrderEffect, NEW o \in Orders, paidAt'[o]
  PROVE  orderStatus'[o] \notin NotYetPaid
<1> USE DEF TypeInv, TypeOK, StoreTypeOK, PaidInv, NotYetPaid
<1>1. CASE OrdersSame
  BY <1>1 DEF OrdersSame
<1>2. ASSUME NEW q \in Orders, OrderCreated(q) PROVE orderStatus'[o] \notin NotYetPaid
  BY <1>2 DEF OrderCreated
<1>3. ASSUME NEW q \in Orders, OrderWorked(q) \/ OrderClosed(q)
      PROVE  orderStatus'[o] \notin NotYetPaid
  BY <1>3 DEF OrderWorked, OrderClosed, WriteStatus, FinalOrder
<1>4. ASSUME NEW e \in Events, OrderDecided(e) PROVE orderStatus'[o] \notin NotYetPaid
  BY <1>4, StoreAssumption DEF OrderDecided, Apply
<1> QED
  BY <1>1, <1>2, <1>3, <1>4 DEF OrderEffect

\* The effects let nothing happen before the payment.
LEMMA PaidKept ==
  ASSUME TypeInv, PaidInv, ItemEffect, OrderEffect, QueueEffect
  PROVE  PaidInv'
<1>1. \A o \in Orders : paidAt'[o] <=> Posted("payment_captured", o)'
  BY PaymentPosted
<1>2. \A i \in Items : itemStatus'[i] # "pending" => paidAt'[OrderOf[i]]
  BY ItemsAfterPayment
<1>3. \A o \in Orders : job'[Deliver(o)] # "none" => paidAt'[o]
  BY PaidStays DEF QueueEffect, PaidInv, NothingBeforePayment
<1>4. \A o \in Orders : pc'[Deliver(o)] # "idle" => paidAt'[o]
  BY PaidStays DEF QueueEffect, PaidInv, NothingBeforePayment
<1>5. \A o \in Orders : paidAt'[o] => orderStatus'[o] \notin NotYetPaid
  BY PaidMoved
<1> QED
  BY <1>1, <1>2, <1>3, <1>4, <1>5 DEF PaidInv, NothingBeforePayment, Deliver

----------------------------------------------------------------------------
(* Final orders are closed.                                                 *)

\* A closed item stays closed.
LEMMA ClosedStays ==
  ASSUME TypeInv, ItemEffect, NEW i \in Items, Closed(i)
  PROVE  Closed(i)'
BY DEF ItemEffect, ItemsSame, ItemMoves, ItemHandedOver, ItemRefunded, Closed, TerminalItem,
       TypeInv, TypeOK, StoreTypeOK

\* An order whose items are all closed keeps them closed.
LEMMA AllClosedStays ==
  ASSUME TypeInv, ItemEffect, NEW o \in Orders, AllClosed(o)
  PROVE  AllClosed(o)'
BY ClosedStays DEF AllClosed, ItemsOf

\* A handler that is about to write a final status still has every item closed.
LEMMA ClosersKept ==
  ASSUME TypeInv, ClosersSawAll, ItemEffect, CloseEffect
  PROVE  ClosersSawAll'
<1> SUFFICES ASSUME NEW o \in Orders, NEW p \in Processes, Serves(p, o), pc'[p] = "close_write"
             PROVE  AllClosed(o)'
  BY DEF ClosersSawAll, Serves, Deliver, Admin, Refund, ItemsOf
<1>1. CASE pc[p] = "close_write"
  BY <1>1, AllClosedStays DEF ClosersSawAll
<1>2. CASE pc[p] # "close_write"
  BY <1>2, AllClosedStays DEF CloseEffect
<1> QED
  BY <1>1, <1>2

\* A final order keeps every item closed.
LEMMA FinalClosedKept ==
  ASSUME TypeInv, ClosersSawAll, FinalOrderIsClosed, ItemEffect, OrderEffect
  PROVE  FinalOrderIsClosed'
<1> SUFFICES ASSUME NEW o \in Orders, orderStatus'[o] \in FinalOrder PROVE AllClosed(o)'
  BY DEF FinalOrderIsClosed, AllClosed, OpenItems, ItemsOf
<1>1. CASE orderStatus[o] \in FinalOrder
  BY <1>1, AllClosedStays DEF FinalOrderIsClosed, AllClosed, OpenItems
<1>2. CASE orderStatus[o] \notin FinalOrder
  <2>1. OrderClosed(o)
    BY <1>2, StoreAssumption
       DEF OrderEffect, OrdersSame, OrderCreated, OrderWorked, OrderClosed, OrderDecided, Apply,
           FinalOrder, WriteStatus, TypeInv, TypeOK, StoreTypeOK
  <2> QED
    BY <2>1, AllClosedStays DEF OrderClosed, ClosersSawAll
<1> QED
  BY <1>1, <1>2

ShopInv == ItemInv /\ PaidInv /\ ClosersSawAll /\ FinalOrderIsClosed

\* Every step keeps the inductive invariant.
LEMMA ShopInvKept ==
  ASSUME ShopInv, [Next]_vars
  PROVE  ShopInv' /\ ItemEffect /\ OrderEffect
<1>1. ItemEffect /\ OrderEffect /\ QueueEffect /\ CloseEffect
  BY ItemSteps, OrderSteps, QueueSteps, CloseSteps DEF ShopInv, ItemInv
<1> QED
  BY <1>1, NextType, OwnItemsKept, BooksKept, CodesKept, PaidKept, ClosersKept, FinalClosedKept
     DEF ShopInv, ItemInv

\* The inductive invariant holds in every reachable state.
LEMMA ShopInvHolds == Spec => []ShopInv
<1>1. Init => ShopInv
  BY InitType, InitOwnItems, InitBooks, InitPaid DEF ShopInv, ItemInv
<1>2. ShopInv /\ [Next]_vars => ShopInv'
  BY ShopInvKept
<1> QED
  BY <1>1, <1>2, PTL DEF Spec

\* No item of an unpaid order is worked on, and a payment date comes with its
\* posting, whichever notifications arrive and in whatever order.
THEOREM ShopNothingBeforePayment == Spec => []NothingBeforePayment
BY ShopInvHolds, PTL DEF ShopInv, PaidInv

\* An order that reports itself finished has no open item, whoever wrote the
\* status and however old the reading it was derived from.
THEOREM ShopFinalOrderIsClosed == Spec => []FinalOrderIsClosed
BY ShopInvHolds, PTL DEF ShopInv

----------------------------------------------------------------------------
(* What a step may never do.                                                *)

\* An item effect leaves closed items closed.
LEMMA ItemStaysStep ==
  ASSUME ShopInv, ItemEffect, NEW i \in Items
  PROVE  /\ itemStatus[i] = "delivered" => UNCHANGED <<itemStatus[i], issued[i]>>
         /\ itemStatus[i] = "refunded" => itemStatus'[i] \in TerminalItem
<1>1. itemStatus[i] = "refunded" => itemStatus'[i] \in TerminalItem
  BY ClosedStays DEF ShopInv, ItemInv, Closed, TerminalItem
<1>2. ASSUME itemStatus[i] = "delivered" PROVE UNCHANGED <<itemStatus[i], issued[i]>>
  <2>1. issued[i] # NoCode /\ Closed(i)
    BY <1>2 DEF ShopInv, ItemInv, BooksMatchItems, Closed, TerminalItem
  <2> QED
    BY <1>2, <2>1 DEF ItemEffect, ItemsSame, ItemMoves, ItemHandedOver, ItemRefunded, Refundable,
                      ShopInv, ItemInv, TypeInv, TypeOK, StoreTypeOK
<1> QED
  BY <1>1, <1>2

\* A delivered item is never touched again, a refunded one never reopened.
THEOREM ShopClosedItemStays == Spec => ClosedItemStays
<1>1. ASSUME ShopInv, [Next]_vars
      PROVE  [\A i \in Items :
                /\ itemStatus[i] = "delivered" => UNCHANGED <<itemStatus[i], issued[i]>>
                /\ itemStatus[i] = "refunded" => itemStatus'[i] \in TerminalItem]_vars
  BY <1>1, ShopInvKept, ItemStaysStep
<1> QED
  BY <1>1, ShopInvHolds, PTL DEF Spec, ClosedItemStays

\* An order whose items are all closed has been paid.
LEMMA ClosedIsPaid ==
  ASSUME ShopInv, NEW o \in Orders, AllClosed(o)
  PROVE  paidAt[o]
<1>1. PICK i \in Items : OrderOf[i] = o
  BY StoreAssumption
<1> QED
  BY <1>1 DEF AllClosed, ItemsOf, Closed, TerminalItem, ShopInv, PaidInv, NothingBeforePayment

\* An order effect leaves final orders final.
LEMMA OrderStaysStep ==
  ASSUME ShopInv, OrderEffect, NEW o \in Orders
  PROVE  /\ orderStatus[o] \in FinalOrder => orderStatus'[o] \in FinalOrder
         /\ orderStatus[o] = "payment_failed" => orderStatus'[o] = "payment_failed"
<1> USE DEF ShopInv, ItemInv, TypeInv, TypeOK, StoreTypeOK
<1>1. CASE OrdersSame
  BY <1>1 DEF OrdersSame
<1>2. ASSUME NEW q \in Orders, OrderCreated(q) \/ OrderWorked(q)
      PROVE  orderStatus[o] \in NotDeliverable => orderStatus'[o] = orderStatus[o]
  BY <1>2 DEF OrderCreated, OrderWorked, NotDeliverable, FinalOrder
<1>3. ASSUME NEW e \in Events, OrderDecided(e)
      PROVE  orderStatus[o] \in NotDeliverable => orderStatus'[o] = orderStatus[o]
  BY <1>3, StoreAssumption DEF OrderDecided, Apply, NotDeliverable, FinalOrder
<1>4. ASSUME NEW q \in Orders, OrderClosed(q)
      PROVE  /\ orderStatus[o] \in FinalOrder => orderStatus'[o] \in FinalOrder
             /\ orderStatus[o] = "payment_failed" => orderStatus'[o] = "payment_failed"
  <2>1. orderStatus[q] # "payment_failed"
    BY <1>4, ClosedIsPaid DEF OrderClosed, ClosersSawAll, PaidInv, NotYetPaid
  <2> QED
    BY <1>4, <2>1 DEF OrderClosed, FinalOrder
<1> QED
  BY <1>1, <1>2, <1>3, <1>4 DEF OrderEffect, NotDeliverable

\* A final order stays final and a failed payment stays failed, whatever stale
\* handlers, late notifications and retries write.
THEOREM ShopFinalOrderStays == Spec => FinalOrderStays
<1>1. ASSUME ShopInv, [Next]_vars
      PROVE  [\A o \in Orders :
                /\ orderStatus[o] \in FinalOrder => orderStatus'[o] \in FinalOrder
                /\ orderStatus[o] = "payment_failed" => orderStatus'[o] = "payment_failed"]_vars
  BY <1>1, ShopInvKept, OrderStaysStep
<1> QED
  BY <1>1, ShopInvHolds, PTL DEF Spec, FinalOrderStays

----------------------------------------------------------------------------
(* The shop implements Promise.                                             *)

Paid     == {o \in Orders : Posted("payment_captured", o)}
PaidBack == {i \in Items : Posted("refund", i)}
Finished == {o \in Orders : orderStatus[o] \in FinalOrder}

\* The empty tables are the initial state of the promise.
LEMMA PromiseInit == Init => Kept!Init
BY DEF Init, StoreInit, Kept!Init, Posted, FinalOrder

\* A step about items, as the promise sees it.
LEMMA ItemPromised ==
  ASSUME ShopInv, NEW i \in Items, ItemMoves(i) \/ ItemHandedOver(i) \/ ItemRefunded(i),
         UNCHANGED orderStatus
  PROVE  [Kept!Next]_Kept!vars
<1> USE DEF ShopInv, ItemInv, TypeInv, TypeOK, StoreTypeOK
<1>1. UNCHANGED <<Paid, Finished>>
  BY DEF Paid, Finished, ItemMoves, ItemHandedOver, ItemRefunded, Posted, Post
<1>2. OrderOf[i] \in Paid
  BY StoreAssumption
     DEF Paid, ItemMoves, ItemHandedOver, ItemRefunded, Refundable, PaidInv, NothingBeforePayment
<1>3. CASE UNCHANGED issued /\ ~ItemRefunded(i)
  <2>1. UNCHANGED PaidBack
    BY <1>3 DEF PaidBack, ItemMoves, ItemHandedOver, Posted
  <2> QED
    BY <1>1, <1>3, <2>1 DEF Kept!vars, Paid, PaidBack, Finished
<1>4. CASE ItemRefunded(i)
  <2>1. issued[i] = NoCode /\ i \notin PaidBack
    BY <1>4 DEF ItemRefunded, Refundable, BooksMatchItems, PaidBack, Closed, TerminalItem
  <2>2. PaidBack' = PaidBack \cup {i} /\ UNCHANGED issued
    BY <1>4 DEF ItemRefunded, PaidBack, Posted, Post
  <2> QED
    BY <1>1, <1>2, <2>1, <2>2 DEF Kept!Next, Kept!PayBack, Paid, PaidBack, Finished
<1>5. CASE ~ UNCHANGED issued
  <2>1. PICK c \in Codes : ~CodeTaken(c) /\ issued[i] = NoCode /\ issued' = [issued EXCEPT ![i] = c]
    BY <1>5 DEF ItemMoves, ItemHandedOver, ItemRefunded
  <2>2. UNCHANGED PaidBack
    BY <1>5 DEF PaidBack, ItemMoves, ItemHandedOver, ItemRefunded, Posted
  <2> QED
    BY <1>1, <1>2, <2>1, <2>2 DEF Kept!Next, Kept!HandOver, CodeTaken, Paid, PaidBack, Finished
<1> QED
  BY <1>3, <1>4, <1>5

\* A step about orders, as the promise sees it.
LEMMA OrderPromised ==
  ASSUME ShopInv, OrderEffect, UNCHANGED <<itemStatus, issued>>, UNCHANGED PaidBack
  PROVE  [Kept!Next]_Kept!vars
<1> USE DEF ShopInv, ItemInv, TypeInv, TypeOK, StoreTypeOK
<1>1. ASSUME UNCHANGED <<Paid, Finished>> PROVE [Kept!Next]_Kept!vars
  BY <1>1 DEF Kept!vars, Paid, PaidBack, Finished
<1>2. CASE OrdersSame
  BY <1>1, <1>2 DEF OrdersSame, PaymentsSame, Paid, Finished
<1>3. ASSUME NEW o \in Orders, OrderCreated(o) \/ OrderWorked(o) PROVE [Kept!Next]_Kept!vars
  BY <1>1, <1>3 DEF OrderCreated, OrderWorked, Paid, Finished, Posted, FinalOrder, NotDeliverable,
                    WriteStatus
<1>4. ASSUME NEW e \in Events, OrderDecided(e) PROVE [Kept!Next]_Kept!vars
  <2>1. e.order \in Orders /\ UNCHANGED Finished
    BY <1>4, StoreAssumption DEF OrderDecided, Apply, Finished, FinalOrder
  <2>2. Paid' = Paid \/ Paid' = Paid \cup {e.order}
    BY <1>4, <2>1 DEF OrderDecided, Apply, Paid, Posted, Post
  <2> QED
    BY <1>1, <2>1, <2>2 DEF Kept!Next, Kept!Pay, Paid, PaidBack, Finished
<1>5. ASSUME NEW o \in Orders, OrderClosed(o) PROVE [Kept!Next]_Kept!vars
  <2>1. AllClosed(o)
    BY <1>5 DEF OrderClosed, ClosersSawAll
  <2>2. o \in Paid
    BY <2>1, ClosedIsPaid DEF Paid, PaidInv, NothingBeforePayment
  <2>3. \A i \in Items : OrderOf[i] = o => issued[i] # NoCode \/ i \in PaidBack
    BY <2>1 DEF AllClosed, ItemsOf, Closed, TerminalItem, BooksMatchItems, PaidBack
  <2>4. Finished' = Finished \cup {o} /\ UNCHANGED Paid
    BY <1>5 DEF OrderClosed, Finished, Paid, Posted
  <2> QED
    BY <2>2, <2>3, <2>4 DEF Kept!Next, Kept!Finish, Paid, PaidBack, Finished
<1> QED
  BY <1>2, <1>3, <1>4, <1>5 DEF OrderEffect

\* Item steps and order steps do not coincide.
LEMMA OneAtATime ==
  ASSUME ShopInv, ItemEffect, OrderEffect
  PROVE  \/ UNCHANGED <<itemStatus, issued>> /\ UNCHANGED PaidBack
         \/ /\ UNCHANGED orderStatus
            /\ \E i \in Items : ItemMoves(i) \/ ItemHandedOver(i) \/ ItemRefunded(i)
<1>1. CASE ItemsSame
  BY <1>1 DEF ItemsSame, PaidBack
<1>2. CASE OrdersSame /\ ~ItemsSame
  BY <1>2 DEF OrdersSame, ItemEffect
<1>3. CASE UNCHANGED <<itemStatus, issued, ledger>>
  BY <1>3 DEF PaidBack, Posted
<1>4. ASSUME NEW e \in Events, OrderDecided(e) PROVE UNCHANGED <<itemStatus, issued>> /\ UNCHANGED PaidBack
  BY <1>4 DEF OrderDecided, Apply, PaidBack, Posted, Post
<1> QED
  BY <1>1, <1>2, <1>3, <1>4 DEF OrderEffect, OrderCreated, OrderWorked, OrderClosed

\* Every behaviour of the shop keeps the promise: codes, refunds and finished
\* orders follow payments, each at most once, for any number of orders.
THEOREM ShopKeepsPromise == Spec => PromiseKept
<1>1. ASSUME ShopInv, [Next]_vars PROVE [Kept!Next]_Kept!vars
  <2>1. ItemEffect /\ OrderEffect
    BY <1>1, ShopInvKept
  <2> QED
    BY <1>1, <2>1, OneAtATime, ItemPromised, OrderPromised
<1> QED
  BY <1>1, PromiseInit, ShopInvHolds, PTL DEF Spec, PromiseKept, Kept!Spec

----------------------------------------------------------------------------
(* Notifications: what a step may do to them and to the payments.           *)

Earlier == {pair \in Nat \X Nat : pair[1] < pair[2]}

\* A nonempty set of numbers has a least one.
LEMMA LeastNumber ==
  ASSUME NEW S \in SUBSET Nat, S # {}
  PROVE  \E n \in S : \A m \in S : n <= m
<1>1. IsWellFoundedOn(Earlier, Nat)
  BY NatLessThanWellFounded DEF OpToRel, Earlier
<1>2. PICK n \in S : \A m \in S : <<m, n>> \notin Earlier
  BY <1>1, WFMin
<1>3. \A m \in S : ~(m < n)
  BY <1>2 DEF Earlier
<1> QED
  BY <1>3

\* A batch with a notification that can move the order has a first one.
LEMMA MoverExists ==
  ASSUME NEW o, NEW e \in OrphanEvents(o), Decision(e, orderStatus[o]) = "applied"
  PROVE  Movers(o) # {}
<1> DEFINE able == {f \in OrphanEvents(o) : Decision(f, orderStatus[o]) = "applied"}
           times == {f.at : f \in able}
<1>1. able \subseteq Events
  BY DEF OrphanEvents
<1>2. times \in SUBSET Nat /\ times # {}
  BY <1>1, StoreAssumption
<1>3. PICK n \in times : \A m \in times : n <= m
  BY <1>2, LeastNumber
<1>4. PICK f \in able : f.at = n
  OBVIOUS
<1>5. f \in Movers(o)
  BY <1>3, <1>4 DEF Movers
<1> QED
  BY <1>5

\* Notifications and payments stay, and no order leaves or enters a status
\* before or without payment.
PaymentsQuiet ==
  /\ UNCHANGED <<eventState, paidAt>>
  /\ \A o \in Orders : \/ orderStatus'[o] = orderStatus[o]
                       \/ orderStatus[o] \notin NotYetPaid /\ orderStatus'[o] \notin NotYetPaid
                       \/ orderStatus[o] = "absent" /\ orderStatus'[o] = "created"

\* Notifications are kept, ignored or rejected.
EventsKept ==
  /\ UNCHANGED <<orderStatus, paidAt>>
  /\ \A e \in Events : eventState'[e] = "applied" <=> eventState[e] = "applied"

\* One notification moves its order out of 'created'.
EventApplied(e) ==
  /\ orderStatus[e.order] = "created"
  /\ Decision(e, "created") = "applied"
  /\ Apply(e)
  /\ \A f \in Events : eventState'[f] = "applied" <=> f = e \/ eventState[f] = "applied"

EventEffect == PaymentsQuiet \/ EventsKept \/ \E e \in Events : EventApplied(e)

\* A notification is applied to a 'created' order only.
LEMMA AppliedToCreated ==
  ASSUME NEW e, NEW st, Decision(e, st) = "applied"
  PROVE  st = "created" /\ Decision(e, "created") = "applied"
BY DEF Decision

\* Whatever a notification that is applied says, its order leaves 'created'.
LEMMA AppliedMoves ==
  ASSUME TypeInv, NEW e \in Events, Apply(e)
  PROVE  orderStatus'[e.order] \in {"paid", "payment_failed"}
BY StoreAssumption DEF Apply, TypeInv, TypeOK, StoreTypeOK

\* A batch of orphans applies one notification or none.
LEMMA BatchEffect ==
  ASSUME TypeInv, NEW o \in Orders, ApplyOrphanEvents(o)
  PROVE  EventEffect
<1> USE DEF TypeInv, TypeOK, StoreTypeOK
<1>1. CASE /\ Movers(o) = {} /\ UNCHANGED <<orderVars, ledger, job>>
           /\ eventState' = [e \in Events |->
                IF e \in OrphanEvents(o) THEN Decision(e, orderStatus[o]) ELSE eventState[e]]
  <2>1. ASSUME NEW e \in Events PROVE eventState'[e] = "applied" <=> eventState[e] = "applied"
    <3>1. CASE e \in OrphanEvents(o)
      BY <1>1, <3>1, MoverExists DEF OrphanEvents
    <3>2. CASE e \notin OrphanEvents(o)
      BY <1>1, <3>2
    <3> QED
      BY <3>1, <3>2
  <2> QED
    BY <1>1, <2>1 DEF EventEffect, EventsKept, orderVars
<1>2. ASSUME NEW first \in Movers(o), Apply(first),
             eventState' = [e \in Events |->
               IF e = first THEN "applied"
               ELSE IF e \in OrphanEvents(o) THEN Decision(e, orderStatus'[o])
               ELSE eventState[e]]
      PROVE  EventEffect
  <2>1. first \in Events /\ first.order = o /\ Decision(first, orderStatus[o]) = "applied"
    BY DEF Movers, OrphanEvents
  <2>2. orderStatus[o] = "created" /\ orderStatus'[o] # "created"
    BY <1>2, <2>1, AppliedToCreated, AppliedMoves
  <2>3. ASSUME NEW f \in Events
        PROVE  eventState'[f] = "applied" <=> f = first \/ eventState[f] = "applied"
    BY <1>2, <2>2, AppliedToCreated DEF OrphanEvents
  <2> QED
    BY <1>2, <2>1, <2>2, <2>3, AppliedToCreated DEF EventEffect, EventApplied
<1> QED
  BY <1>1, <1>2 DEF ApplyOrphanEvents

\* The webhook applies its notification, or keeps or refuses it.
LEMMA WebhookEffect ==
  ASSUME TypeInv, NEW e \in Events, Webhook(e) \/ WebhookFindsNoOrder(e) \/ WebhookKeepsOrphan(e)
  PROVE  EventEffect
<1> USE DEF TypeInv, TypeOK, StoreTypeOK
<1>1. CASE Webhook(e)
  <2> DEFINE decision == Decision(e, orderStatus[e.order])
  <2>1. CASE decision = "applied"
    BY <1>1, <2>1, AppliedToCreated DEF Webhook, EventEffect, EventApplied
  <2>2. CASE decision # "applied"
    BY <1>1, <2>2 DEF Webhook, EventEffect, EventsKept, orderVars
  <2> QED
    BY <2>1, <2>2
<1>2. CASE WebhookFindsNoOrder(e) \/ WebhookKeepsOrphan(e)
  BY <1>2 DEF WebhookFindsNoOrder, WebhookKeepsOrphan, EventEffect, EventsKept, orderVars
<1> QED
  BY <1>1, <1>2

\* Every step does one of these things to notifications and payments.
LEMMA EventSteps ==
  ASSUME ShopInv, [Next]_vars
  PROVE  EventEffect
<1> USE Keys DEF ShopInv, ItemInv, TypeInv, TypeOK, StoreTypeOK
<1>1. CASE UNCHANGED <<orderStatus, paidAt, eventState>>
  BY <1>1 DEF EventEffect, PaymentsQuiet
<1>2. ASSUME NEW o \in Orders, UNCHANGED <<paidAt, eventState>>, orderStatus[o] \notin NotYetPaid,
             NEW st \in OrderStatus \ NotYetPaid, orderStatus' = [orderStatus EXCEPT ![o] = st]
      PROVE  EventEffect
  BY <1>2 DEF EventEffect, PaymentsQuiet
<1>3. CASE UNCHANGED vars
  BY <1>1, <1>3 DEF vars
<1>4. CASE ApiStep
  <2>1. ASSUME NEW o \in Orders, CreateOrder(o) PROVE EventEffect
    BY <2>1 DEF CreateOrder, EventEffect, PaymentsQuiet
  <2> QED
    BY <1>4, <2>1, WebhookEffect DEF ApiStep
<1>5. ASSUME NEW o \in Orders, HandleOrphans(o) PROVE EventEffect
  BY <1>1, <1>5, BatchEffect DEF HandleOrphans, orderVars
<1>6. ASSUME NEW p \in Processes, NEW o \in Orders, Serves(p, o),
             SettlementStep(p, o) \/ SettleOrder(p, o)
      PROVE  EventEffect
  <2>1. CASE CloseWrite(p, o)
    <3>1. orderStatus[o] \notin NotYetPaid
      BY <1>6, <2>1, ClosedIsPaid DEF CloseWrite, ClosersSawAll, PaidInv
    <3>2. result[p] \in OrderStatus \ NotYetPaid
      BY <2>1 DEF CloseWrite, ResultFits, FinalOrder, NotYetPaid, OrderStatus, NotDeliverable
    <3> QED
      BY <1>2, <2>1, <3>1, <3>2 DEF CloseWrite
  <2>2. CASE RefundItem(p) \/ CloseRead(p, o) \/ SettleOrder(p, o)
    BY <1>1, <2>2 DEF RefundItem, CloseRead, SettleOrder, orderVars
  <2> QED
    BY <1>6, <2>1, <2>2 DEF SettlementStep
<1>7. ASSUME NEW o \in Orders, DeliveryStep(o) PROVE EventEffect
  <2>1. ASSUME pc[Deliver(o)] # "idle" PROVE orderStatus[o] \notin NotYetPaid
    BY <2>1 DEF PaidInv
  <2>2. CASE StartDelivery(o)
    <3>1. orderStatus[o] \notin NotYetPaid
      BY <2>1, <2>2 DEF StartDelivery
    <3>2. orderStatus' = orderStatus \/ orderStatus' = [orderStatus EXCEPT ![o] = "delivering"]
      BY <2>2 DEF StartDelivery
    <3> QED
      BY <1>1, <1>2, <2>2, <3>1, <3>2 DEF StartDelivery, OrderStatus, NotYetPaid
  <2>3. CASE WriteOrder(o)
    <3>1. orderStatus[o] \notin NotYetPaid
      BY <2>1, <2>3 DEF WriteOrder
    <3>2. result[Deliver(o)] \in OrderStatus \ NotYetPaid
      BY <2>3 DEF WriteOrder, ResultFits, WriteStatus, NotYetPaid, OrderStatus, NotDeliverable
    <3>3. orderStatus' = orderStatus \/ orderStatus' = [orderStatus EXCEPT ![o] = result[Deliver(o)]]
      BY <2>3 DEF WriteOrder
    <3> QED
      BY <1>1, <1>2, <2>3, <3>1, <3>2, <3>3 DEF WriteOrder
  <2>4. CASE CaptureItem(o) \/ ReduceOrder(o)
    BY <1>1, <2>4 DEF CaptureItem, ReduceOrder, orderVars
  <2>5. ASSUME NEW i, NextItem(Deliver(o), i) PROVE EventEffect
    BY <1>1, <2>5 DEF NextItem, orderVars
  <2> QED
    BY <1>6, <1>7, <2>2, <2>3, <2>4, <2>5, ServesOne
       DEF DeliveryStep, SettlementStep, HandOver, CodeCollision, NotHandedOver, Throttled
<1>8. CASE UNCHANGED storeVars
  BY <1>1, <1>8 DEF storeVars, orderVars
<1>9. ASSUME NEW o \in Orders,
             \/ ClaimDelivery(o) \/ ClaimOrphans(o) \/ SweepStuck(o) \/ SweepOrphans(o)
             \/ Redeliver(o) \/ AdminRefund(o)
      PROVE  UNCHANGED storeVars
  BY <1>9 DEF ClaimDelivery, ClaimOrphans, SweepStuck, SweepOrphans, Redeliver, AdminRefund
<1>10. ASSUME NEW p, ClaimRefund(p) \/ JobEnd(p) \/ Raise(p) \/ Crash(p)
       PROVE  UNCHANGED storeVars
  BY <1>10 DEF ClaimRefund, JobEnd, Raise, Crash
<1> QED
  BY <1>3, <1>4, <1>5, <1>6, <1>7, <1>8, <1>9, <1>10, ServesOne, StoreAssumption DEF Next

----------------------------------------------------------------------------
(* Payments match notifications.                                            *)

AppliedTo(o) == {e \in Events : e.order = o /\ eventState[e] = "applied"}

\* No notification was applied before an order left 'created', and at most one
\* ever is; the payment and its failure are what that one says.
EventsDecide(o) ==
  /\ \A e, f \in AppliedTo(o) : e = f
  /\ orderStatus[o] \in {"absent", "created"} => AppliedTo(o) = {}
  /\ paidAt[o] <=> \E e \in AppliedTo(o) : e.status = "paid" /\ e.exact
  /\ orderStatus[o] = "payment_failed" <=> \E e \in AppliedTo(o) : e.status = "failed"

\* A step keeps every order's payment in agreement with its notifications.
LEMMA EventsDecideKept ==
  ASSUME TypeInv, EventEffect, NEW o \in Orders, EventsDecide(o)
  PROVE  EventsDecide(o)'
<1> USE DEF TypeInv, TypeOK, StoreTypeOK
<1>1. CASE PaymentsQuiet
  <2>1. AppliedTo(o)' = AppliedTo(o) /\ paidAt'[o] = paidAt[o]
    BY <1>1 DEF PaymentsQuiet, AppliedTo
  <2>2. /\ orderStatus'[o] = "payment_failed" <=> orderStatus[o] = "payment_failed"
        /\ orderStatus'[o] \in {"absent", "created"} => orderStatus[o] \in {"absent", "created"}
    BY <1>1 DEF PaymentsQuiet, NotYetPaid
  <2> QED
    BY <2>1, <2>2 DEF EventsDecide
<1>2. CASE EventsKept
  <2>1. AppliedTo(o)' = AppliedTo(o) /\ paidAt'[o] = paidAt[o] /\ orderStatus'[o] = orderStatus[o]
    BY <1>2 DEF EventsKept, AppliedTo
  <2> QED
    BY <2>1 DEF EventsDecide
<1>3. ASSUME NEW e \in Events, EventApplied(e) PROVE EventsDecide(o)'
  <2>1. CASE e.order # o
    <3>1. AppliedTo(o)' = AppliedTo(o)
      BY <1>3, <2>1 DEF EventApplied, AppliedTo
    <3>2. paidAt'[o] = paidAt[o] /\ orderStatus'[o] = orderStatus[o]
      BY <1>3, <2>1, StoreAssumption DEF EventApplied, Apply
    <3> QED
      BY <3>1, <3>2 DEF EventsDecide
  <2>2. CASE e.order = o
    <3>1. AppliedTo(o) = {} /\ ~paidAt[o]
      BY <1>3, <2>2 DEF EventApplied, EventsDecide
    <3>2. AppliedTo(o)' = {e}
      BY <1>3, <2>2, <3>1 DEF EventApplied, AppliedTo
    <3>3. CASE e.status = "paid"
      <4>1. e.exact /\ paidAt'[o] /\ orderStatus'[o] = "paid"
        BY <1>3, <2>2, <3>3 DEF EventApplied, Apply, Decision
      <4> QED
        BY <3>2, <3>3, <4>1 DEF EventsDecide
    <3>4. CASE e.status = "failed"
      <4>1. ~paidAt'[o] /\ orderStatus'[o] = "payment_failed"
        BY <1>3, <2>2, <3>1, <3>4 DEF EventApplied, Apply
      <4> QED
        BY <3>2, <3>4, <4>1 DEF EventsDecide
    <3> QED
      BY <3>3, <3>4, StoreAssumption
  <2> QED
    BY <2>1, <2>2
<1> QED
  BY <1>1, <1>2, <1>3 DEF EventEffect

\* Every reachable payment is what its notifications decided.
LEMMA EventsDecideHolds == Spec => [](\A o \in Orders : EventsDecide(o))
<1>1. Init => \A o \in Orders : EventsDecide(o)
  BY DEF Init, StoreInit, EventsDecide, AppliedTo
<1>2. ShopInv /\ (\A o \in Orders : EventsDecide(o)) /\ [Next]_vars
        => (\A o \in Orders : EventsDecide(o))'
  <2> SUFFICES ASSUME ShopInv, \A o \in Orders : EventsDecide(o), [Next]_vars
               PROVE  \A o \in Orders : EventsDecide(o)'
    OBVIOUS
  <2> QED
    BY EventSteps, EventsDecideKept DEF ShopInv, ItemInv
<1> QED
  BY <1>1, <1>2, ShopInvHolds, PTL DEF Spec

\* At most one notification moves an order, and the order is paid exactly when
\* that one said so with the right amount: duplicates, orphans, late and wrong
\* notifications change nothing.
THEOREM ShopPaymentMatchesEvents == Spec => []PaymentMatchesEvents
<1>1. ASSUME \A o \in Orders : EventsDecide(o) PROVE PaymentMatchesEvents
  <2> SUFFICES ASSUME NEW o \in Orders PROVE Cardinality(AppliedTo(o)) <= 1
    BY <1>1 DEF PaymentMatchesEvents, EventsDecide, AppliedTo
  <2>1. CASE AppliedTo(o) = {}
    BY <2>1, FS_EmptySet
  <2>2. ASSUME NEW e \in AppliedTo(o) PROVE Cardinality(AppliedTo(o)) <= 1
    <3>1. AppliedTo(o) = {e}
      BY <1>1, <2>2 DEF EventsDecide
    <3> QED
      BY <3>1, FS_Singleton
  <2> QED
    BY <2>1, <2>2
<1> QED
  BY <1>1, EventsDecideHolds, PTL

\* A notification among orphans that is applied leaves an older one of its
\* order rejected.
LEMMA ProviderOrderStep ==
  ASSUME TypeInv, [Next]_vars, NEW e \in Events, NEW f \in Events,
         f.order = e.order, f.at < e.at,
         eventState[e] = "orphan", eventState[f] = "orphan", eventState'[e] = "applied"
  PROVE  eventState'[f] = "rejected"
<1> USE DEF TypeInv, TypeOK, StoreTypeOK
<1>1. ASSUME UNCHANGED eventState PROVE FALSE
  BY <1>1
<1>2. ASSUME ApiStep PROVE FALSE
  BY <1>2 DEF ApiStep, CreateOrder, Webhook, WebhookFindsNoOrder, WebhookKeepsOrphan
<1>3. ASSUME NEW o \in Orders, ApplyOrphanEvents(o) PROVE eventState'[f] = "rejected"
  <2>1. CASE e.order # o
    BY <1>3, <2>1 DEF ApplyOrphanEvents, OrphanEvents, Movers
  <2>2. CASE e.order = o
    <3>1. e \in OrphanEvents(o) /\ f \in OrphanEvents(o)
      BY <2>2 DEF OrphanEvents
    <3>2. CASE /\ Movers(o) = {}
               /\ eventState' = [g \in Events |->
                    IF g \in OrphanEvents(o) THEN Decision(g, orderStatus[o]) ELSE eventState[g]]
      BY <3>1, <3>2, MoverExists
    <3>3. ASSUME NEW first \in Movers(o), Apply(first),
                 eventState' = [g \in Events |->
                   IF g = first THEN "applied"
                   ELSE IF g \in OrphanEvents(o) THEN Decision(g, orderStatus'[o])
                   ELSE eventState[g]]
          PROVE  eventState'[f] = "rejected"
      <4>1. first \in Events /\ first.order = o /\ Decision(first, orderStatus[o]) = "applied"
        BY DEF Movers, OrphanEvents
      <4>2. orderStatus[o] = "created" /\ orderStatus'[o] # "created"
        BY <3>3, <4>1, AppliedToCreated, AppliedMoves
      <4>3. e = first
        BY <3>1, <3>3, <4>2, AppliedToCreated
      <4>4. Decision(f, orderStatus[o]) # "applied"
        BY <3>1, <4>3, StoreAssumption DEF Movers
      <4>5. f.status = "paid" /\ ~f.exact
        BY <4>2, <4>4 DEF Decision
      <4>6. f # first
        BY <4>3, StoreAssumption
      <4>7. \A st : Decision(f, st) = "rejected"
        BY <4>5 DEF Decision
      <4> QED
        BY <3>1, <3>3, <4>6, <4>7
    <3> QED
      BY <1>3, <3>2, <3>3 DEF ApplyOrphanEvents
  <2> QED
    BY <2>1, <2>2
<1>4. ASSUME NEW o \in Orders, HandleOrphans(o) PROVE eventState'[f] = "rejected"
  BY <1>1, <1>3, <1>4 DEF HandleOrphans
<1>5. ASSUME NEW p, NEW o, SettlementStep(p, o) \/ SettleOrder(p, o) PROVE UNCHANGED eventState
  BY <1>5 DEF SettlementStep, SettleOrder, RefundItem, CloseRead, CloseWrite
<1>6. ASSUME NEW o, DeliveryStep(o) PROVE UNCHANGED eventState
  <2>1. CASE StartDelivery(o) \/ CaptureItem(o) \/ ReduceOrder(o) \/ WriteOrder(o)
    BY <2>1 DEF StartDelivery, CaptureItem, ReduceOrder, WriteOrder
  <2> QED
    BY <1>5, <1>6, <2>1
       DEF DeliveryStep, SettlementStep, HandOver, CodeCollision, NotHandedOver, Throttled, NextItem
<1>7. CASE UNCHANGED vars
  BY <1>1, <1>7 DEF vars
<1>8. CASE UNCHANGED storeVars
  BY <1>1, <1>8 DEF storeVars
<1>9. ASSUME NEW o \in Orders,
             \/ ClaimDelivery(o) \/ ClaimOrphans(o) \/ SweepStuck(o) \/ SweepOrphans(o)
             \/ Redeliver(o) \/ AdminRefund(o)
      PROVE  UNCHANGED storeVars
  BY <1>9 DEF ClaimDelivery, ClaimOrphans, SweepStuck, SweepOrphans, Redeliver, AdminRefund
<1>10. ASSUME NEW p, ClaimRefund(p) \/ JobEnd(p) \/ Raise(p) \/ Crash(p)
       PROVE  UNCHANGED storeVars
  BY <1>10 DEF ClaimRefund, JobEnd, Raise, Crash
<1> QED
  BY <1>1, <1>2, <1>4, <1>5, <1>6, <1>7, <1>8, <1>9, <1>10 DEF Next

\* Orphans are applied in the order of the provider's clock, whenever and in
\* whatever order they arrived.
THEOREM ShopOrphansInProviderOrder == Spec => OrphansInProviderOrder
<1>1. ASSUME TypeInv, [Next]_vars
      PROVE  [\A e \in Events : \A f \in Events :
                ( /\ f.order = e.order /\ f.at < e.at
                  /\ eventState[e] = "orphan" /\ eventState[f] = "orphan"
                  /\ eventState'[e] = "applied" )
                => eventState'[f] = "rejected"]_vars
  BY <1>1, ProviderOrderStep
<1>2. Spec => []TypeInv
  BY InitType, NextType, PTL DEF Spec
<1> QED
  BY <1>1, <1>2, PTL DEF Spec, OrphansInProviderOrder
=============================================================================
