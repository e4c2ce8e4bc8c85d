---------------------------- MODULE QueueProofs -----------------------------
(***************************************************************************)
(* Proofs about jobs, the handlers that run them and the histories they    *)
(* write.  OneAtWork says that a step moves the handler of one job or      *)
(* request and leaves the others where they are; each proof then looks at  *)
(* the few actions of the handler it is about.                             *)
(***************************************************************************)
EXTENDS OrderProofs

----------------------------------------------------------------------------
(* A step moves one handler.                                                *)

\* Process r stays where it is; its job may be queued by somebody else.
Untouched(r) ==
  /\ pc'[r] = pc[r] /\ todo'[r] = todo[r] /\ result'[r] = result[r] /\ queued'[r] = queued[r]
  /\ r \in Jobs => job'[r] = job[r] \/ (job[r] = "none" /\ job'[r] = "pending")

\* The actions of each kind of process.
DeliveryActs(o) == ClaimDelivery(o) \/ DeliveryStep(o)
OrphansActs(o)  == ClaimOrphans(o) \/ HandleOrphans(o)
AdminActs(o)    == AdminRefund(o) \/ SettlementStep(Admin(o), o)
RefundActs(i)   == ClaimRefund(i) \/ SettlementStep(Refund(i), OrderOf[i])

Acts(p) ==
  \/ \E o \in Orders : \/ p = Deliver(o) /\ DeliveryActs(o)
                       \/ p = Orphans(o) /\ OrphansActs(o)
                       \/ p = Admin(o) /\ AdminActs(o)
  \/ \E i \in Items : p = Refund(i) /\ RefundActs(i)
  \/ p \in Jobs /\ (JobEnd(p) \/ Raise(p))
  \/ Crash(p)

OthersUntouched(p) == \A r \in Processes \ {p} : Untouched(r)

\* Enqueueing disturbs no handler.
LEMMA EnqueuedUntouched ==
  ASSUME NEW keys, job' = Enqueued(keys), NEW k \in Jobs
  PROVE  job'[k] = job[k] \/ (job[k] = "none" /\ job'[k] = "pending")
BY DEF Enqueued

\* Neither does a step that leaves the local states alone and only enqueues.
LEMMA ProcKept ==
  ASSUME UNCHANGED procVars, UNCHANGED job \/ \E keys : job' = Enqueued(keys)
  PROVE  \A r \in Processes : Untouched(r)
BY EnqueuedUntouched DEF procVars, Untouched

\* A step that changes the local state of p alone, and its job or enqueues.
LEMMA OneMoved ==
  ASSUME TypeInv, NEW p \in Processes,
         UNCHANGED pc \/ \E x : pc' = [pc EXCEPT ![p] = x],
         UNCHANGED todo \/ \E x : todo' = [todo EXCEPT ![p] = x],
         UNCHANGED result \/ \E x : result' = [result EXCEPT ![p] = x],
         UNCHANGED queued \/ \E x : queued' = [queued EXCEPT ![p] = x],
         \/ UNCHANGED job \/ \E keys : job' = Enqueued(keys)
         \/ \E x : job' = [job EXCEPT ![p] = x]
  PROVE  OthersUntouched(p)
<1> SUFFICES ASSUME NEW r \in Processes \ {p} PROVE Untouched(r)
  BY DEF OthersUntouched
<1> USE DEF TypeInv, TypeOK, StoreTypeOK
<1>1. pc'[r] = pc[r] /\ todo'[r] = todo[r]
  OBVIOUS
<1>2. result'[r] = result[r] /\ queued'[r] = queued[r]
  OBVIOUS
<1>3. r \in Jobs => job'[r] = job[r] \/ (job[r] = "none" /\ job'[r] = "pending")
  BY EnqueuedUntouched
<1> QED
  BY <1>1, <1>2, <1>3 DEF Untouched

\* Refunding and closing are the work of the process that runs them.
LEMMA SettlementMoves ==
  ASSUME TypeInv, NEW p \in Processes, NEW o, SettlementStep(p, o) \/ SettleOrder(p, o)
  PROVE  OthersUntouched(p)
<1>1. CASE RefundItem(p)
  BY <1>1, OneMoved DEF RefundItem, queueVars
<1>2. CASE CloseRead(p, o)
  BY <1>2, OneMoved DEF CloseRead, Goto
<1>3. CASE CloseWrite(p, o)
  BY <1>3, OneMoved DEF CloseWrite, Goto
<1>4. CASE SettleOrder(p, o)
  BY <1>4, OneMoved DEF SettleOrder, Goto
<1> QED
  BY <1>1, <1>2, <1>3, <1>4 DEF SettlementStep

\* A delivery's steps are its own.
LEMMA DeliveryMoves ==
  ASSUME TypeInv, NEW o \in Orders, DeliveryStep(o)
  PROVE  OthersUntouched(Deliver(o))
<1> DEFINE p == Deliver(o)
<1> p \in Processes
  BY Keys
<1>1. CASE StartDelivery(o)
  BY <1>1, OneMoved DEF StartDelivery, Goto, queueVars
<1>2. CASE CaptureItem(o)
  BY <1>2, OneMoved DEF CaptureItem, Goto, queueVars
<1>3. ASSUME NEW i, NextItem(p, i), UNCHANGED result \/ result' = [result EXCEPT ![p] = "throttle"]
      PROVE  OthersUntouched(p)
  BY <1>3, OneMoved DEF NextItem, Goto, queueVars
<1>4. CASE ReduceOrder(o)
  BY <1>4, OneMoved DEF ReduceOrder, Goto
<1>5. CASE WriteOrder(o)
  BY <1>5, OneMoved DEF WriteOrder, Goto
<1>6. ASSUME NEW i, NEW x, HandOver(o, i, x) \/ CodeCollision(o, i, x) \/ NotHandedOver(o, i, x)
                           \/ Throttled(o, i)
      PROVE  OthersUntouched(p)
  BY <1>3, <1>6 DEF HandOver, CodeCollision, NotHandedOver, Throttled
<1>7. CASE CloseRead(p, o) \/ CloseWrite(p, o) \/ SettleOrder(p, o)
  BY <1>7, SettlementMoves DEF SettlementStep
<1> QED
  BY <1>1, <1>2, <1>4, <1>5, <1>6, <1>7 DEF DeliveryStep

\* Every step is the work of one process, or of none.
LEMMA OneAtWork ==
  ASSUME TypeInv, [Next]_vars
  PROVE  \/ \A r \in Processes : Untouched(r)
         \/ \E p \in Processes : Acts(p) /\ OthersUntouched(p)
<1> DEFINE Nobody == \A r \in Processes : Untouched(r)
           Somebody == \E p \in Processes : Acts(p) /\ OthersUntouched(p)
<1> USE Keys
<1>1. CASE UNCHANGED vars
  BY <1>1, ProcKept DEF vars, procVars
<1>2. CASE ApiStep
  <2>1. UNCHANGED procVars
    BY <1>2 DEF ApiStep
  <2>2. UNCHANGED job \/ \E keys : job' = Enqueued(keys)
    BY <1>2 DEF ApiStep, CreateOrder, Webhook, WebhookFindsNoOrder, WebhookKeepsOrphan, queueVars
  <2> QED
    BY <2>1, <2>2, ProcKept
<1>3. ASSUME NEW o \in Orders, ClaimDelivery(o) PROVE OthersUntouched(Deliver(o))
  BY <1>3, OneMoved DEF ClaimDelivery, WithJob, Goto
<1>4. ASSUME NEW o \in Orders, ClaimOrphans(o) \/ HandleOrphans(o) PROVE OthersUntouched(Orphans(o))
  <2>1. CASE ClaimOrphans(o)
    BY <2>1, OneMoved DEF ClaimOrphans, WithJob, Goto
  <2>2. CASE HandleOrphans(o)
    <3>1. UNCHANGED job \/ \E keys : job' = Enqueued(keys)
      BY <2>2 DEF HandleOrphans, ApplyOrphanEvents
    <3> QED
      BY <2>2, <3>1, OneMoved DEF HandleOrphans, Goto
  <2> QED
    BY <1>4, <2>1, <2>2
<1>5. ASSUME NEW o \in Orders, SweepStuck(o) \/ SweepOrphans(o) \/ Redeliver(o) PROVE Nobody
  BY <1>5, ProcKept DEF SweepStuck, SweepOrphans, Redeliver
<1>6. ASSUME NEW o \in Orders, AdminRefund(o) PROVE OthersUntouched(Admin(o))
  BY <1>6, OneMoved DEF AdminRefund, Goto, queueVars
<1>7. ASSUME NEW i \in Items, ClaimRefund(i) PROVE OthersUntouched(Refund(i))
  BY <1>7, OneMoved DEF ClaimRefund, WithJob, Goto
<1>8. ASSUME NEW k \in Jobs, JobEnd(k) \/ Raise(k) PROVE OthersUntouched(k)
  <2>1. CASE JobEnd(k)
    BY <2>1, OneMoved DEF JobEnd, WithJob, Goto
  <2>2. CASE Raise(k)
    BY <2>2, OneMoved DEF Raise, Goto, queueVars
  <2> QED
    BY <1>8, <2>1, <2>2
<1>9. ASSUME NEW p \in Processes, Crash(p) PROVE OthersUntouched(p)
  BY <1>9, OneMoved DEF Crash, Goto, queueVars
<1>10. ASSUME NEW o \in Orders, DeliveryActs(o) \/ OrphansActs(o) \/ AdminActs(o) PROVE Somebody
  BY <1>3, <1>4, <1>6, <1>10, DeliveryMoves, SettlementMoves
     DEF Acts, DeliveryActs, OrphansActs, AdminActs
<1>11. ASSUME NEW i \in Items, RefundActs(i) PROVE Somebody
  BY <1>7, <1>11, SettlementMoves DEF Acts, RefundActs
<1>12. ASSUME NEW k \in Jobs, JobEnd(k) \/ Raise(k) PROVE Somebody
  BY <1>8, <1>12 DEF Acts
<1>13. ASSUME NEW p \in Processes, Crash(p) PROVE Somebody
  BY <1>9, <1>13 DEF Acts
<1> QED
  BY <1>1, <1>2, <1>5, <1>10, <1>11, <1>12, <1>13
     DEF Next, DeliveryActs, OrphansActs, AdminActs, RefundActs

----------------------------------------------------------------------------
(* The invariant of the handlers.                                           *)

\* A handler runs only while its job says so.
ActiveRuns == \A k \in Jobs : pc[k] # "idle" => job[k] = "running"

\* A refund job works on its own item, and has closed it when it goes on.
RefundRuns ==
  \A i \in Items :
    LET k == Refund(i) IN
    /\ pc[k] \in {"idle", "refund", "close", "close_write", "end"}
    /\ pc[k] = "refund" => todo[k] = {i}
    /\ pc[k] \in {"close", "close_write"} => Closed(i)
    /\ pc[k] = "end" => result[k] = "retry" \/ Closed(i)

\* The refund job of item i is active if one is due.
DueIsQueued(i) == RefundDue(i) => job[Refund(i)] # "none"

\* A delivery that has summed up its items holds or has written the refund
\* jobs that are due, and its order has left the status 'paid'.
EndsForGood(p) == pc[p] = "give_up" \/ (pc[p] = "end" /\ result[p] \notin {"retry", "throttle"})

DeliveryRunsOf(o) ==
  LET p == Deliver(o) IN
  /\ pc[p] \notin {"refund", "orphans"}
  /\ orderStatus[o] = "paid" =>
       pc[p] \in {"idle", "start"} \/ (pc[p] = "end" /\ result[p] = "retry")
  /\ pc[p] \in {"write", "close", "close_write"} =>
       \A i \in ItemsOf(o) : DueIsQueued(i) \/ Refund(i) \in queued[p]
  /\ EndsForGood(p) => \A i \in ItemsOf(o) : DueIsQueued(i)

DeliveryRuns == \A o \in Orders : DeliveryRunsOf(o)

\* The history knows that the item the supplier is asked about is delivering.
AskedIsTold ==
  \A o \in Orders : \A i \in Items :
    Asked(Deliver(o), i) => Closed(i) \/ toldItem[i] = "delivering"

\* Process p will look at the items of order o once more, or has seen them closed.
WillClose(p, o) ==
  \/ p = Admin(o) /\ pc[p] \in {"refund", "close", "close_write"}
  \/ /\ p = Deliver(o) /\ job[p] # "none"
     /\ pc[p] \notin {"write", "give_up"} /\ ~EndsForGood(p)
  \/ \E i \in ItemsOf(o) : /\ p = Refund(i) /\ job[p] # "none"
                           /\ pc[p] = "end" => result[p] = "retry"

\* Somebody will write the final status of an order whose items are closed.
CloserExists ==
  \A o \in Orders : paidAt[o] /\ AllClosed(o) /\ orderStatus[o] \notin FinalOrder =>
    \E p \in Processes : WillClose(p, o)

----------------------------------------------------------------------------
(* What a step may do to one item and to what the history says of it.       *)

\* A refund, or phase 1 or 3 of a delivery that has come to this item.
ItemTouched(i) ==
  LET p == Deliver(OrderOf[i]) IN
  \/ UNCHANGED <<itemStatus[i], toldItem[i], attempts[i]>>
  \/ /\ itemStatus'[i] = "refunded" /\ toldItem'[i] = "refunded" /\ UNCHANGED attempts[i]
     /\ \E q \in AdminCalls \cup RefundJobs :
          pc[q] = "refund" /\ i \in todo[q] /\ pc'[q] \in {"refund", "close"}
  \/ /\ pc[p] \in {"items", "network"} /\ pc'[p] \in {"items", "network"} /\ IsFirst(i, todo[p])
     /\ pc[p] = "items" => issued[i] # NoCode \/ ~Closed(i)
     /\ pc'[p] = "network" => toldItem'[i] = "delivering"
     /\ \/ toldItem'[i] = itemStatus'[i]
        \/ /\ pc[p] = "network" /\ ~Closed(i)
           /\ itemStatus'[i] = "pending" /\ UNCHANGED toldItem[i]

\* _fail_item tells the history what it writes, or does nothing.
LEMMA FailItemTouched ==
  ASSUME TypeInv, NEW i \in Items, NEW st, FailItem(i, st), UNCHANGED attempts, NEW j \in Items
  PROVE  \/ UNCHANGED <<itemStatus[j], toldItem[j], attempts[j]>>
         \/ j = i /\ toldItem'[i] = itemStatus'[i]
BY DEF FailItem, SetItem, TypeInv, TypeOK, StoreTypeOK

\* Every step touches an item in one of these ways.
LEMMA ItemTouches ==
  ASSUME TypeInv, OwnItems, [Next]_vars, NEW j \in Items
  PROVE  ItemTouched(j)
<1> USE DEF TypeInv, TypeOK, StoreTypeOK
<1>1. ASSUME UNCHANGED itemVars PROVE ItemTouched(j)
  BY <1>1 DEF itemVars, ItemTouched
<1>2. CASE UNCHANGED vars \/ ApiStep
  BY <1>1, <1>2 DEF vars, itemVars, ApiStep, CreateOrder, Webhook, WebhookFindsNoOrder,
                    WebhookKeepsOrphan
<1>3. ASSUME NEW p, NEW o, CloseRead(p, o) \/ CloseWrite(p, o) \/ SettleOrder(p, o)
      PROVE  ItemTouched(j)
  BY <1>1, <1>3 DEF CloseRead, CloseWrite, SettleOrder
<1>4. ASSUME NEW p \in AdminCalls \cup RefundJobs, NEW o, SettlementStep(p, o)
      PROVE  ItemTouched(j)
  <2>1. p \in Processes
    BY Keys DEF Processes
  <2>2. CASE RefundItem(p)
    <3>1. PICK i \in todo[p] :
            /\ pc' = [pc EXCEPT ![p] = IF todo[p] = {i} THEN AfterRefunds ELSE "refund"]
            /\ \/ /\ itemStatus' = [itemStatus EXCEPT ![i] = "refunded"]
                  /\ toldItem' = [toldItem EXCEPT ![i] = "refunded"]
               \/ UNCHANGED <<itemStatus, toldItem>>
      BY <2>2 DEF RefundItem
    <3>2. pc[p] = "refund" /\ UNCHANGED attempts /\ pc'[p] \in {"refund", "close"}
      BY <2>1, <2>2, <3>1 DEF RefundItem, AfterRefunds
    <3> QED
      BY <3>1, <3>2 DEF ItemTouched
  <2> QED
    BY <1>3, <1>4, <2>2 DEF SettlementStep
<1>5. ASSUME NEW o \in Orders, DeliveryStep(o) PROVE ItemTouched(j)
  <2> DEFINE p == Deliver(o)
  <2>1. CASE StartDelivery(o) \/ ReduceOrder(o) \/ WriteOrder(o)
    BY <1>1, <2>1 DEF StartDelivery, ReduceOrder, WriteOrder
  <2>2. CASE CaptureItem(o)
    <3>1. PICK i \in todo[p] :
            /\ IsFirst(i, todo[p])
            /\ \/ issued[i] # NoCode /\ SetItem(i, "delivered") /\ UNCHANGED pc
               \/ UNCHANGED itemVars
               \/ ~Closed(i) /\ SetItem(i, "delivering")
            /\ \A x \in Items \ {i} : attempts'[x] = attempts[x]
            /\ pc'[p] \in {"items", "network"}
      BY <2>2, Keys DEF CaptureItem, itemVars, Goto
    <3>2. pc[p] = "items" /\ OrderOf[i] = o /\ i \in Items
      BY <2>2, Keys DEF CaptureItem, OwnItems, ItemsOf
    <3>3. CASE UNCHANGED itemVars
      BY <1>1, <3>3
    <3>4. ASSUME NEW st, SetItem(i, st), issued[i] # NoCode \/ ~Closed(i),
                 pc'[p] = "network" => st = "delivering"
          PROVE  ItemTouched(j)
      <4>1. CASE j = i
        BY <3>1, <3>2, <3>4, <4>1 DEF SetItem, ItemTouched
      <4>2. CASE j # i
        BY <3>1, <3>4, <4>2 DEF SetItem, ItemTouched
      <4> QED
        BY <4>1, <4>2
    <3> QED
      BY <3>1, <3>2, <3>3, <3>4
  <2>3. ASSUME NEW i, Asked(p, i), NextItem(p, i)
        PROVE  /\ pc[p] = "network" /\ pc'[p] = "items" /\ IsFirst(i, todo[p])
               /\ OrderOf[i] = o /\ i \in Items
    BY <2>3, AskedOwn, Keys DEF Asked, NextItem, Goto
  <2>4. ASSUME NEW i, NEW c, HandOver(o, i, c) PROVE ItemTouched(j)
    BY <2>3, <2>4 DEF HandOver, SetItem, ItemTouched
  <2>5. ASSUME NEW i, NEW x, CodeCollision(o, i, x) \/ NotHandedOver(o, i, x) PROVE ItemTouched(j)
    <3>1. Asked(p, i) /\ NextItem(p, i) /\ UNCHANGED attempts /\ \E st : FailItem(i, st)
      BY <2>5 DEF CodeCollision, NotHandedOver
    <3> QED
      BY <2>3, <3>1, FailItemTouched DEF ItemTouched
  <2>6. ASSUME NEW i, Throttled(o, i) PROVE ItemTouched(j)
    <3>1. CASE Closed(i)
      BY <2>6, <3>1 DEF Throttled, ItemTouched
    <3>2. CASE ~Closed(i)
      BY <2>3, <2>6, <3>2 DEF Throttled, ItemTouched
    <3> QED
      BY <3>1, <3>2
  <2> QED
    BY <1>3, <1>5, <2>1, <2>2, <2>4, <2>5, <2>6, Keys DEF DeliveryStep
<1>6. ASSUME NEW o \in Orders, HandleOrphans(o) PROVE ItemTouched(j)
  BY <1>1, <1>6 DEF HandleOrphans
<1>7. CASE UNCHANGED storeVars
  BY <1>1, <1>7 DEF storeVars
<1>8. ASSUME NEW o \in Orders,
             \/ ClaimDelivery(o) \/ ClaimOrphans(o) \/ SweepStuck(o) \/ SweepOrphans(o)
             \/ Redeliver(o) \/ AdminRefund(o)
      PROVE  ItemTouched(j)
  BY <1>7, <1>8 DEF ClaimDelivery, ClaimOrphans, SweepStuck, SweepOrphans, Redeliver, AdminRefund
<1>9. ASSUME NEW p, ClaimRefund(p) \/ JobEnd(p) \/ Raise(p) \/ Crash(p) PROVE ItemTouched(j)
  BY <1>7, <1>9 DEF ClaimRefund, JobEnd, Raise, Crash
<1>10. (\A o \in Orders : Admin(o) \in AdminCalls) /\ \A i \in Items : Refund(i) \in RefundJobs
  BY Keys DEF Admin, AdminCalls
<1> QED
  BY <1>2, <1>5, <1>6, <1>8, <1>9, <1>4, <1>10 DEF Next

----------------------------------------------------------------------------
(* Handlers and their jobs.                                                 *)

\* The job of each process tells which actions are its own.
LEMMA OwnActs ==
  /\ \A i \in Items : Acts(Refund(i)) =>
       RefundActs(i) \/ JobEnd(Refund(i)) \/ Raise(Refund(i)) \/ Crash(Refund(i))
  /\ \A o \in Orders : Acts(Deliver(o)) =>
       DeliveryActs(o) \/ JobEnd(Deliver(o)) \/ Raise(Deliver(o)) \/ Crash(Deliver(o))
  /\ \A o \in Orders : Acts(Admin(o)) => AdminActs(o) \/ Crash(Admin(o))
BY DEF Acts, Deliver, Orphans, Admin, Refund, Jobs, DeliverJobs, OrphanJobs, RefundJobs

\* A running handler only adds to the queue.
LEMMA SettlementQueues ==
  ASSUME NEW p, NEW o, SettlementStep(p, o) \/ SettleOrder(p, o)
  PROVE  pc[p] # "idle" /\ (UNCHANGED job \/ \E keys : job' = Enqueued(keys))
BY DEF SettlementStep, SettleOrder, RefundItem, CloseRead, CloseWrite, queueVars

\* So does a delivery.
LEMMA DeliveryQueues ==
  ASSUME NEW o, DeliveryStep(o)
  PROVE  pc[Deliver(o)] # "idle" /\ (UNCHANGED job \/ \E keys : job' = Enqueued(keys))
<1> DEFINE Goal == pc[Deliver(o)] # "idle" /\ (UNCHANGED job \/ \E keys : job' = Enqueued(keys))
<1>1. CASE StartDelivery(o) \/ CaptureItem(o)
  BY <1>1 DEF StartDelivery, CaptureItem, queueVars
<1>2. CASE ReduceOrder(o) \/ WriteOrder(o)
  BY <1>2 DEF ReduceOrder, WriteOrder
<1>3. ASSUME NEW i, NEW x, HandOver(o, i, x) \/ CodeCollision(o, i, x) \/ NotHandedOver(o, i, x)
                           \/ Throttled(o, i)
      PROVE  Goal
  BY <1>3 DEF HandOver, CodeCollision, NotHandedOver, Throttled, Asked, NextItem, queueVars
<1> QED
  BY <1>1, <1>2, <1>3, SettlementQueues DEF DeliveryStep, SettlementStep

\* Every step leaves the running handlers with a running job.
LEMMA ActiveKept ==
  ASSUME TypeInv, ActiveRuns, [Next]_vars
  PROVE  ActiveRuns'
<1> SUFFICES ASSUME NEW k \in Jobs, pc'[k] # "idle" PROVE job'[k] = "running"
  BY DEF ActiveRuns
<1> USE Keys DEF TypeInv, TypeOK, StoreTypeOK, Goto
<1>1. CASE Untouched(k)
  BY <1>1 DEF Untouched, ActiveRuns
<1>2. CASE Acts(k)
  <2>1. ASSUME pc[k] # "idle", UNCHANGED job \/ \E keys : job' = Enqueued(keys)
        PROVE  job'[k] = "running"
    BY <2>1 DEF ActiveRuns, Enqueued
  <2>2. ASSUME NEW o \in Orders, k = Deliver(o), DeliveryActs(o) PROVE job'[k] = "running"
    BY <2>1, <2>2, DeliveryQueues DEF DeliveryActs, ClaimDelivery, WithJob
  <2>3. ASSUME NEW o \in Orders, k = Orphans(o), OrphansActs(o) PROVE job'[k] = "running"
    BY <2>1, <2>3 DEF OrphansActs, ClaimOrphans, WithJob, HandleOrphans, ApplyOrphanEvents
  <2>4. ASSUME NEW i \in Items, k = Refund(i), RefundActs(i) PROVE job'[k] = "running"
    BY <2>1, <2>4, SettlementQueues DEF RefundActs, ClaimRefund, WithJob, SettlementStep
  <2>5. ASSUME NEW o \in Orders, k = Admin(o) PROVE FALSE
    BY <2>5 DEF Admin, Jobs, DeliverJobs, OrphanJobs, RefundJobs
  <2>6. CASE JobEnd(k) \/ Crash(k)
    BY <2>6 DEF JobEnd, Crash
  <2>7. CASE Raise(k)
    BY <2>1, <2>7 DEF Raise, queueVars
  <2> QED
    BY <1>2, <2>2, <2>3, <2>4, <2>5, <2>6, <2>7 DEF Acts
<1> QED
  BY <1>1, <1>2, OneAtWork DEF OthersUntouched

----------------------------------------------------------------------------
(* Refund jobs belong to paid orders.                                       *)

\* A refund job, active or about to be written, has a paid order.
RefundsArePaid ==
  \A i \in Items :
    job[Refund(i)] # "none" \/ (\E p \in Processes : Refund(i) \in queued[p])
      => paidAt[OrderOf[i]]

\* What a step may do to the refund jobs: queue those of a paid order, or those
\* an open transaction holds.
RefundsQueued ==
  \A i \in Items :
    /\ job'[Refund(i)] # "none" =>
         \/ job[Refund(i)] # "none" \/ paidAt[OrderOf[i]]
         \/ \E p \in Processes : Refund(i) \in queued[p]
    /\ \A p \in Processes :
         Refund(i) \in queued'[p] => Refund(i) \in queued[p] \/ paidAt[OrderOf[i]]

\* Scheduled and settled refunds are those of the items of a paid order.
LEMMA RefundKeysPaid ==
  ASSUME NEW o, NEW i, Refund(i) \in RefundsToSchedule(o) \cup RefundsToSettle(o)
  PROVE  OrderOf[i] = o /\ i \in Items /\ paidAt[o]
BY DEF RefundsToSchedule, RefundsToSettle, OpenItems, ItemsOf, Refund

\* Every step queues refunds of paid orders only.
LEMMA RefundsAreQueued ==
  ASSUME TypeInv, ActiveRuns, [Next]_vars
  PROVE  RefundsQueued
<1> USE Keys, KeysApart DEF TypeInv, TypeOK, StoreTypeOK, Goto
<1>1. ASSUME UNCHANGED queued,
             \/ UNCHANGED job
             \/ \E keys : job' = Enqueued(keys) /\ keys \cap RefundJobs = {}
             \/ \E k : job[k] # "none" /\ \E x : job' = [job EXCEPT ![k] = x]
      PROVE  RefundsQueued
  BY <1>1 DEF RefundsQueued, Enqueued
<1>2. CASE UNCHANGED vars
  BY <1>1, <1>2 DEF vars
<1>3. CASE ApiStep
  <2>1. \A o \in Orders : {Orphans(o)} \cap RefundJobs = {} /\ {Deliver(o)} \cap RefundJobs = {}
    BY DEF Orphans, Deliver, RefundJobs
  <2>2. \A e \in Events : ApplyJobs(e) \cap RefundJobs = {}
    BY <2>1, StoreAssumption DEF ApplyJobs
  <2>3. ASSUME NEW o \in Orders, CreateOrder(o)
        PROVE  \E keys : job' = Enqueued(keys) /\ keys \cap RefundJobs = {}
    <3>1. (IF \E e \in Events : e.order = o /\ eventState[e] = "orphan"
           THEN {Orphans(o)} ELSE {}) \cap RefundJobs = {}
      BY <2>1
    <3> QED
      BY <2>3, <3>1 DEF CreateOrder
  <2>4. ASSUME NEW e \in Events, Webhook(e) \/ WebhookFindsNoOrder(e) \/ WebhookKeepsOrphan(e)
        PROVE  UNCHANGED job \/ \E keys : job' = Enqueued(keys) /\ keys \cap RefundJobs = {}
    BY <2>1, <2>2, <2>4, StoreAssumption
       DEF Webhook, WebhookFindsNoOrder, WebhookKeepsOrphan, queueVars
  <2> QED
    BY <1>1, <1>3, <2>3, <2>4 DEF ApiStep, procVars
<1>4. ASSUME NEW p \in Processes, NEW o, SettlementStep(p, o) \/ SettleOrder(p, o)
      PROVE  RefundsQueued
  <2>1. CASE RefundItem(p)
    BY <1>1, <2>1 DEF RefundItem, queueVars
  <2>2. CASE SettleOrder(p, o)
    BY <2>2, RefundKeysPaid DEF SettleOrder, RefundsQueued, Enqueued
  <2>3. CASE CloseRead(p, o) \/ CloseWrite(p, o)
    BY <2>3 DEF CloseRead, CloseWrite, RefundsQueued, Enqueued
  <2> QED
    BY <1>4, <2>1, <2>2, <2>3 DEF SettlementStep
<1>5. ASSUME NEW o \in Orders, DeliveryStep(o) PROVE RefundsQueued
  <2>1. CASE StartDelivery(o) \/ CaptureItem(o)
    BY <1>1, <2>1 DEF StartDelivery, CaptureItem, queueVars
  <2>2. ASSUME NEW i, NextItem(Deliver(o), i) PROVE RefundsQueued
    BY <1>1, <2>2 DEF NextItem, queueVars
  <2>3. CASE ReduceOrder(o)
    BY <2>3, RefundKeysPaid DEF ReduceOrder, RefundsQueued, Enqueued
  <2>4. CASE WriteOrder(o)
    BY <2>4 DEF WriteOrder, RefundsQueued, Enqueued
  <2> QED
    BY <1>4, <1>5, <2>1, <2>2, <2>3, <2>4
       DEF DeliveryStep, SettlementStep, HandOver, CodeCollision, NotHandedOver, Throttled
<1>6. ASSUME NEW o \in Orders, ClaimDelivery(o) \/ ClaimOrphans(o) PROVE RefundsQueued
  BY <1>1, <1>6 DEF ClaimDelivery, ClaimOrphans, WithJob
<1>7. ASSUME NEW o \in Orders,
             \/ HandleOrphans(o) \/ SweepStuck(o) \/ SweepOrphans(o)
             \/ Redeliver(o) \/ AdminRefund(o)
      PROVE  RefundsQueued
  <2>1. \A q \in Orders : {Orphans(q)} \cap RefundJobs = {} /\ {Deliver(q)} \cap RefundJobs = {}
    BY DEF Orphans, Deliver, RefundJobs
  <2>2. \A e \in Movers(o) : ApplyJobs(e) \cap RefundJobs = {}
    BY <2>1, StoreAssumption DEF ApplyJobs, Movers, OrphanEvents
  <2>3. UNCHANGED job \/ \E keys : job' = Enqueued(keys) /\ keys \cap RefundJobs = {}
    BY <1>7, <2>1, <2>2
       DEF HandleOrphans, ApplyOrphanEvents, SweepStuck, SweepOrphans, Redeliver, AdminRefund,
           queueVars
  <2>4. UNCHANGED queued
    BY <1>7 DEF HandleOrphans, SweepStuck, SweepOrphans, Redeliver, AdminRefund, procVars
  <2> QED
    BY <1>1, <2>3, <2>4
<1>8. ASSUME NEW i \in Items, ClaimRefund(i) PROVE RefundsQueued
  BY <1>1, <1>8 DEF ClaimRefund, WithJob
<1>9. ASSUME NEW k \in Jobs, JobEnd(k) PROVE RefundsQueued
  <2>1. job[k] = "running"
    BY <1>9 DEF JobEnd, ActiveRuns
  <2> QED
    BY <1>1, <1>9, <2>1 DEF JobEnd, WithJob
<1>10. ASSUME NEW p \in Processes, Raise(p) \/ Crash(p) PROVE RefundsQueued
  <2>1. UNCHANGED job /\ queued' = [queued EXCEPT ![p] = {}]
    BY <1>10 DEF Raise, Crash, queueVars
  <2> QED
    BY <2>1 DEF RefundsQueued
<1> QED
  BY <1>2, <1>3, <1>4, <1>5, <1>6, <1>7, <1>8, <1>9, <1>10, Keys DEF Next

\* A refund job keeps belonging to a paid order.
LEMMA RefundsPaidKept ==
  ASSUME TypeInv, RefundsArePaid, RefundsQueued, OrderEffect
  PROVE  RefundsArePaid'
<1> SUFFICES ASSUME NEW i \in Items,
                    job'[Refund(i)] # "none" \/ \E p \in Processes : Refund(i) \in queued'[p]
             PROVE  paidAt'[OrderOf[i]]
  BY DEF RefundsArePaid, Refund
<1>1. paidAt[OrderOf[i]]
  BY DEF RefundsArePaid, RefundsQueued
<1> QED
  BY <1>1, PaidStays, StoreAssumption

----------------------------------------------------------------------------
(* A refund job ends for good only once its item is closed.                 *)

\* A refund job goes on once it has closed its own item.
LEMMA RefundRunsKept ==
  ASSUME TypeInv, ActiveRuns, RefundsArePaid, RefundRuns, ItemEffect, [Next]_vars
  PROVE  RefundRuns'
<1> SUFFICES ASSUME NEW i \in Items
             PROVE  /\ pc'[Refund(i)] \in {"idle", "refund", "close", "close_write", "end"}
                    /\ pc'[Refund(i)] = "refund" => todo'[Refund(i)] = {i}
                    /\ pc'[Refund(i)] \in {"close", "close_write"} => Closed(i)'
                    /\ pc'[Refund(i)] = "end" => result'[Refund(i)] = "retry" \/ Closed(i)'
  BY DEF RefundRuns, Refund, Closed
<1> DEFINE k == Refund(i)
           Goal == /\ pc'[k] \in {"idle", "refund", "close", "close_write", "end"}
                   /\ pc'[k] = "refund" => todo'[k] = {i}
                   /\ pc'[k] \in {"close", "close_write"} => Closed(i)'
                   /\ pc'[k] = "end" => result'[k] = "retry" \/ Closed(i)'
<1> USE Keys DEF TypeInv, TypeOK, StoreTypeOK, Goto
<1>1. Closed(i) => Closed(i)'
  BY ClosedStays
<1>2. CASE Untouched(k)
  BY <1>1, <1>2 DEF Untouched, RefundRuns
<1>3. CASE ClaimRefund(i)
  BY <1>3 DEF ClaimRefund
<1>4. CASE RefundItem(k)
  <2>1. pc[k] = "refund" /\ todo[k] = {i} /\ job[k] = "running"
    BY <1>4 DEF RefundItem, RefundRuns, ActiveRuns
  <2>2. paidAt[OrderOf[i]]
    BY <2>1 DEF RefundsArePaid
  <2>3. pc'[k] = "close" /\ \/ Refundable(i) /\ itemStatus' = [itemStatus EXCEPT ![i] = "refunded"]
                            \/ ~Refundable(i)
    BY <1>4, <2>1 DEF RefundItem, AfterRefunds
  <2>4. Closed(i)'
    BY <1>1, <2>2, <2>3 DEF Refundable, Closed, TerminalItem
  <2> QED
    BY <2>3, <2>4
<1>5. CASE CloseRead(k, OrderOf[i]) \/ CloseWrite(k, OrderOf[i])
  <2>1. pc[k] \in {"close", "close_write"} /\ pc'[k] \in {"close_write", "end"}
    BY <1>5 DEF CloseRead, CloseWrite, AfterClose
  <2> QED
    BY <1>1, <2>1 DEF RefundRuns
<1>6. CASE JobEnd(k) \/ Raise(k) \/ Crash(k)
  BY <1>6 DEF JobEnd, Raise, Crash
<1> QED
  BY <1>2, <1>3, <1>4, <1>5, <1>6, OneAtWork, OwnActs DEF OthersUntouched, RefundActs, SettlementStep

\* A refund job stays active until its item is closed.
LEMMA RefundJobStays ==
  ASSUME TypeInv, RefundRuns, ItemEffect, [Next]_vars,
         NEW i \in Items, job[Refund(i)] # "none", ~Closed(i)'
  PROVE  job'[Refund(i)] # "none"
<1> DEFINE k == Refund(i)
<1> USE Keys DEF TypeInv, TypeOK, StoreTypeOK, Goto
<1>1. CASE UNCHANGED job \/ \E keys : job' = Enqueued(keys)
  BY <1>1 DEF Enqueued
<1>2. CASE Untouched(k)
  BY <1>2 DEF Untouched
<1>3. CASE ClaimRefund(i)
  BY <1>3 DEF ClaimRefund, WithJob
<1>4. CASE SettlementStep(k, OrderOf[i])
  BY <1>1, <1>4, SettlementQueues
<1>5. CASE JobEnd(k)
  <2>1. result[k] = "retry"
    BY <1>5, ClosedStays DEF JobEnd, RefundRuns
  <2> QED
    BY <1>5, <2>1 DEF JobEnd, AfterOutcome, WithJob
<1>6. CASE Raise(k) \/ Crash(k)
  BY <1>1, <1>6 DEF Raise, Crash, queueVars
<1> QED
  BY <1>2, <1>3, <1>4, <1>5, <1>6, OneAtWork, OwnActs DEF OthersUntouched, RefundActs

\* Only a delivery that works on an item makes its refund due.
LEMMA DueKept ==
  ASSUME TypeInv, OwnItems, RefundRuns, ItemEffect, [Next]_vars, NEW i \in Items,
         pc[Deliver(OrderOf[i])] \notin {"items", "network"}, DueIsQueued(i)
  PROVE  DueIsQueued(i)'
<1> SUFFICES ASSUME RefundDue(i)' PROVE job'[Refund(i)] # "none"
  BY DEF DueIsQueued, Refund
<1>1. itemStatus'[i] \notin TerminalItem
  BY DEF RefundDue, TerminalItem
<1>2. UNCHANGED <<itemStatus[i], attempts[i]>>
  BY <1>1, ItemTouches DEF ItemTouched, TerminalItem
<1>3. RefundDue(i)
  BY <1>2 DEF RefundDue, Exhausted
<1> QED
  BY <1>1, <1>3, RefundJobStays DEF DueIsQueued, Closed

----------------------------------------------------------------------------
(* A delivery ends for good only once the refunds that are due are queued.  *)

\* The notification that pays for an order brings its delivery job.
LEMMA PaymentQueues ==
  ASSUME TypeInv, [Next]_vars, NEW o \in Orders, ~paidAt[o], paidAt'[o]
  PROVE  job'[Deliver(o)] # "none"
<1> USE Keys DEF TypeInv, TypeOK, StoreTypeOK
<1>1. ASSUME NEW e \in Events, Apply(e), job' = Enqueued(ApplyJobs(e))
      PROVE  job'[Deliver(o)] # "none"
  <2>1. e.status = "paid" /\ e.order = o
    BY <1>1, StoreAssumption DEF Apply
  <2> QED
    BY <1>1, <2>1 DEF ApplyJobs, Enqueued
<1>2. CASE UNCHANGED paidAt
  BY <1>2
<1>3. CASE UNCHANGED vars \/ ApiStep
  BY <1>1, <1>2, <1>3
     DEF vars, ApiStep, CreateOrder, Webhook, WebhookFindsNoOrder, WebhookKeepsOrphan, orderVars
<1>4. ASSUME NEW q \in Orders, HandleOrphans(q) PROVE job'[Deliver(o)] # "none"
  BY <1>1, <1>2, <1>4 DEF HandleOrphans, ApplyOrphanEvents, Movers, OrphanEvents, orderVars
<1>5. ASSUME NEW p, NEW q, SettlementStep(p, q) \/ SettleOrder(p, q) PROVE UNCHANGED paidAt
  BY <1>5 DEF SettlementStep, SettleOrder, RefundItem, CloseRead, CloseWrite, orderVars
<1>6. ASSUME NEW q, DeliveryStep(q) PROVE UNCHANGED paidAt
  <2>1. CASE StartDelivery(q) \/ CaptureItem(q) \/ ReduceOrder(q) \/ WriteOrder(q)
    BY <2>1 DEF StartDelivery, CaptureItem, ReduceOrder, WriteOrder, orderVars
  <2> QED
    BY <1>5, <1>6, <2>1
       DEF DeliveryStep, SettlementStep, HandOver, CodeCollision, NotHandedOver, Throttled,
           NextItem, orderVars
<1>7. CASE UNCHANGED storeVars
  BY <1>2, <1>7 DEF storeVars, orderVars
<1>8. ASSUME NEW q \in Orders,
             \/ ClaimDelivery(q) \/ ClaimOrphans(q) \/ SweepStuck(q) \/ SweepOrphans(q)
             \/ Redeliver(q) \/ AdminRefund(q)
      PROVE  UNCHANGED storeVars
  BY <1>8 DEF ClaimDelivery, ClaimOrphans, SweepStuck, SweepOrphans, Redeliver, AdminRefund
<1>9. ASSUME NEW p, ClaimRefund(p) \/ JobEnd(p) \/ Raise(p) \/ Crash(p)
      PROVE  UNCHANGED storeVars
  BY <1>9 DEF ClaimRefund, JobEnd, Raise, Crash
<1> QED
  BY <1>2, <1>3, <1>4, <1>5, <1>6, <1>7, <1>8, <1>9 DEF Next

\* A paid order never becomes 'paid' again, and an order that does has no
\* delivery running yet.
LEMMA BecomesPaid ==
  ASSUME ShopInv, OrderEffect, NEW o \in Orders, orderStatus'[o] = "paid"
  PROVE  \/ orderStatus[o] = "paid"
         \/ ~paidAt[o] /\ paidAt'[o] /\ pc[Deliver(o)] = "idle"
<1> USE DEF ShopInv, ItemInv, TypeInv, TypeOK, StoreTypeOK
<1>1. CASE OrdersSame
  BY <1>1 DEF OrdersSame
<1>2. ASSUME NEW q \in Orders, OrderCreated(q) \/ OrderWorked(q) \/ OrderClosed(q)
      PROVE  orderStatus[o] = "paid"
  BY <1>2 DEF OrderCreated, OrderWorked, OrderClosed, WriteStatus, FinalOrder
<1>3. ASSUME NEW e \in Events, OrderDecided(e), orderStatus[o] # "paid"
      PROVE  ~paidAt[o] /\ paidAt'[o] /\ pc[Deliver(o)] = "idle"
  <2>1. e.order = o /\ e.status = "paid"
    BY <1>3, StoreAssumption DEF OrderDecided, Apply
  <2>2. ~paidAt[o]
    BY <1>3, <2>1 DEF OrderDecided, PaidInv, NotYetPaid
  <2> QED
    BY <1>3, <2>1, <2>2 DEF OrderDecided, Apply, PaidInv
<1> QED
  BY <1>1, <1>2, <1>3 DEF OrderEffect

\* A step of somebody else leaves a delivery's promise as it is.
LEMMA OthersLeaveDelivery ==
  ASSUME ShopInv, ShopInv', RefundRuns, ItemEffect, OrderEffect, [Next]_vars,
         NEW o \in Orders, DeliveryRunsOf(o), Untouched(Deliver(o))
  PROVE  DeliveryRunsOf(o)'
<1> DEFINE p == Deliver(o)
<1>1. p' = p /\ pc'[p] = pc[p] /\ result'[p] = result[p] /\ queued'[p] = queued[p]
  BY DEF Untouched, Deliver
<1>2. orderStatus'[o] = "paid" =>
        pc'[p] \in {"idle", "start"} \/ (pc'[p] = "end" /\ result'[p] = "retry")
  BY <1>1, BecomesPaid DEF DeliveryRunsOf
<1>3. ASSUME pc[p] \notin {"items", "network"}, NEW i \in ItemsOf(o), DueIsQueued(i)
      PROVE  DueIsQueued(i)'
  BY <1>3, DueKept DEF ShopInv, ItemInv, ItemsOf
<1>4. \A i : Refund(i)' = Refund(i)
  BY DEF Refund
<1> QED
  BY <1>1, <1>2, <1>3, <1>4 DEF DeliveryRunsOf, EndsForGood, ItemsOf

\* A delivery's own steps keep it: the reading that finds a refund due also
\* puts its job into the transaction, and the job ends after that commits.
LEMMA DeliveryRunsStep ==
  ASSUME ShopInv, ShopInv', RefundRuns, ItemEffect, OrderEffect, [Next]_vars,
         NEW o \in Orders, DeliveryRunsOf(o),
         DeliveryActs(o) \/ JobEnd(Deliver(o)) \/ Raise(Deliver(o)) \/ Crash(Deliver(o))
  PROVE  DeliveryRunsOf(o)'
<1> DEFINE p == Deliver(o)
           NotPaidNow == orderStatus'[o] # "paid"
<1> USE Keys DEF Goto
<1>t. pc \in [Processes -> PcValues] /\ result \in [Processes -> Results]
      /\ queued \in [Processes -> SUBSET RefundJobs]
      /\ job \in [Jobs -> {"none", "pending", "running"}]
      /\ orderStatus \in [Orders -> OrderStatus]
  BY DEF ShopInv, ItemInv, TypeInv, TypeOK, StoreTypeOK
<1>k. p' = p /\ (\A i : Refund(i)' = Refund(i)) /\ ItemsOf(o)' = ItemsOf(o)
  BY DEF Deliver, Refund, ItemsOf
<1>1. ASSUME pc[p] \notin {"idle", "start"}, ~(pc[p] = "end" /\ result[p] = "retry")
      PROVE  NotPaidNow
  BY <1>1, BecomesPaid DEF DeliveryRunsOf
<1>2. ASSUME pc[p] \notin {"items", "network"}, NEW i \in ItemsOf(o), DueIsQueued(i)
      PROVE  DueIsQueued(i)'
  BY <1>2, DueKept DEF ShopInv, ItemInv, ItemsOf
<1>3. CASE ClaimDelivery(o) \/ JobEnd(p) \/ Raise(p) \/ Crash(p)
  <2>1. \/ pc'[p] \in {"idle", "start"}
        \/ pc'[p] = "end" /\ result'[p] = "retry"
    BY <1>3, <1>t DEF ClaimDelivery, JobEnd, Raise, Crash
  <2> QED
    BY <1>k, <2>1 DEF DeliveryRunsOf, EndsForGood
<1>4. CASE StartDelivery(o)
  <2>1. orderStatus[o] \notin NotYetPaid
    BY <1>4 DEF StartDelivery, ShopInv, PaidInv
  <2>2. pc'[p] = "items" /\ NotPaidNow
    BY <1>4, <1>t, <2>1 DEF StartDelivery, NotDeliverable, FinalOrder
  <2> QED
    BY <1>k, <2>2 DEF DeliveryRunsOf, EndsForGood
<1>5. ASSUME pc[p] \in {"items", "network"}, pc'[p] \in {"items", "network"}
      PROVE  DeliveryRunsOf(o)'
  BY <1>k, <1>1, <1>5 DEF DeliveryRunsOf, EndsForGood
<1>6. CASE CaptureItem(o)
  BY <1>5, <1>6, <1>t DEF CaptureItem
<1>7. ASSUME NEW i, pc[p] = "network", NextItem(p, i) PROVE DeliveryRunsOf(o)'
  BY <1>5, <1>7, <1>t DEF NextItem
<1>8. CASE ReduceOrder(o)
  <2>1. pc[p] = "items" /\ NotPaidNow
    BY <1>1, <1>8 DEF ReduceOrder
  <2>2. CASE pc'[p] = "end" /\ result[p] = "throttle" /\ UNCHANGED result
    BY <1>k, <2>1, <2>2 DEF DeliveryRunsOf, EndsForGood
  <2>3. CASE /\ pc'[p] \in {"close", "write"} /\ UNCHANGED job
             /\ queued'[p] = {k \in RefundsToSchedule(o) : job[k] = "none"}
    <3> SUFFICES ASSUME NEW i \in ItemsOf(o), RefundDue(i)', job'[Refund(i)] = "none"
                 PROVE  Refund(i) \in queued'[p]
      BY <1>k, <2>1, <2>3 DEF DeliveryRunsOf, EndsForGood, DueIsQueued
    <3>1. RefundDue(i) /\ paidAt[o]
      BY <1>8, <2>1 DEF ReduceOrder, itemVars, RefundDue, Exhausted, ShopInv, PaidInv
    <3> QED
      BY <2>3, <3>1 DEF RefundsToSchedule
  <2> QED
    BY <1>8, <1>t, <2>2, <2>3 DEF ReduceOrder
<1>9. ASSUME pc[p] \in {"write", "close", "close_write"}, UNCHANGED <<itemStatus, attempts>>,
             job' = Enqueued(queued[p]), pc'[p] \in {"end", "give_up"}
      PROVE  DeliveryRunsOf(o)'
  <2>1. ASSUME NEW i \in ItemsOf(o), RefundDue(i)' PROVE job'[Refund(i)] # "none"
    <3>1. RefundDue(i) /\ Refund(i) \in Jobs
      BY <1>9, <2>1 DEF RefundDue, Exhausted, ItemsOf
    <3>2. job[Refund(i)] # "none" \/ Refund(i) \in queued[p]
      BY <1>9, <3>1 DEF DeliveryRunsOf, DueIsQueued
    <3> QED
      BY <1>9, <3>1, <3>2 DEF Enqueued
  <2> QED
    BY <1>1, <1>9, <1>k, <2>1 DEF DeliveryRunsOf, DueIsQueued
<1>10. CASE WriteOrder(o) \/ CloseWrite(p, o)
  BY <1>9, <1>10, <1>t DEF WriteOrder, CloseWrite, itemVars, AfterClose
<1>11. CASE CloseRead(p, o)
  <2>1. CASE AllClosed(o)
    <3>1. pc[p] = "close" /\ pc'[p] = "close_write" /\ UNCHANGED queued
      BY <1>11, <1>t, <2>1 DEF CloseRead
    <3> QED
      BY <1>1, <1>2, <1>k, <3>1 DEF DeliveryRunsOf, EndsForGood
  <2>2. CASE ~AllClosed(o)
    BY <1>9, <1>11, <1>t, <2>2 DEF CloseRead, itemVars, AfterClose
  <2> QED
    BY <2>1, <2>2
<1>12. CASE SettleOrder(p, o)
  <2>1. pc[p] = "give_up" /\ pc'[p] = "end"
    BY <1>12, <1>t DEF SettleOrder
  <2> QED
    BY <1>1, <1>2, <1>k, <2>1 DEF DeliveryRunsOf, EndsForGood
<1>13. CASE RefundItem(p)
  BY <1>13 DEF RefundItem, DeliveryRunsOf
<1> QED
  BY <1>3, <1>4, <1>6, <1>7, <1>8, <1>10, <1>11, <1>12
     DEF DeliveryActs, DeliveryStep, HandOver, CodeCollision, NotHandedOver, Throttled, Asked

----------------------------------------------------------------------------
(* No payment and no due refund is forgotten.                               *)

\* A job ends only where its handler has.
LEMMA DeliveryJobEnds ==
  ASSUME TypeInv, ActiveRuns, [Next]_vars, NEW o \in Orders,
         job[Deliver(o)] # "none", job'[Deliver(o)] = "none"
  PROVE  pc[Deliver(o)] = "end" /\ result[Deliver(o)] \notin {"retry", "throttle"}
         /\ UNCHANGED <<itemStatus, attempts, orderStatus>>
<1> DEFINE p == Deliver(o)
<1> USE Keys DEF TypeInv, TypeOK, StoreTypeOK
<1>1. ASSUME UNCHANGED job \/ \E keys : job' = Enqueued(keys) PROVE FALSE
  BY <1>1 DEF Enqueued
<1>2. CASE Untouched(p)
  BY <1>2 DEF Untouched
<1>3. CASE DeliveryActs(o)
  BY <1>1, <1>3, DeliveryQueues DEF DeliveryActs, ClaimDelivery, WithJob
<1>4. CASE JobEnd(p)
  BY <1>4 DEF JobEnd, WithJob, AfterOutcome, storeVars, orderVars, itemVars
<1>5. CASE Raise(p) \/ Crash(p)
  BY <1>1, <1>5 DEF Raise, Crash, queueVars
<1> QED
  BY <1>2, <1>3, <1>4, <1>5, OneAtWork, OwnActs DEF OthersUntouched

\* The job of a paid order stays until its delivery has begun.
LEMMA PaidQueuedKept ==
  ASSUME ShopInv, ActiveRuns, DeliveryRuns, PaidIsQueued, OrderEffect, [Next]_vars
  PROVE  PaidIsQueued'
<1> SUFFICES ASSUME NEW o \in Orders, orderStatus'[o] = "paid", job'[Deliver(o)] = "none"
             PROVE  FALSE
  BY DEF PaidIsQueued, Deliver
<1> TypeInv
  BY DEF ShopInv, ItemInv
<1>1. CASE orderStatus[o] = "paid"
  <2>1. pc[Deliver(o)] = "end" /\ result[Deliver(o)] \notin {"retry", "throttle"}
    BY <1>1, DeliveryJobEnds DEF PaidIsQueued
  <2> QED
    BY <1>1, <2>1 DEF DeliveryRuns, DeliveryRunsOf
<1>2. CASE orderStatus[o] # "paid"
  BY <1>2, BecomesPaid, PaymentQueues
<1> QED
  BY <1>1, <1>2

\* Every refund that is due has its job once the delivery's job is gone.
LEMMA DueScheduledKept ==
  ASSUME ShopInv, ActiveRuns, RefundRuns, DeliveryRuns, DueRefundIsScheduled,
         ItemEffect, [Next]_vars
  PROVE  DueRefundIsScheduled'
<1> SUFFICES ASSUME NEW i \in Items, job'[Deliver(OrderOf[i])] = "none" PROVE DueIsQueued(i)'
  BY DEF DueRefundIsScheduled, DueIsQueued, Deliver
<1> DEFINE p == Deliver(OrderOf[i])
<1> OrderOf[i] \in Orders /\ i \in ItemsOf(OrderOf[i]) /\ p \in Jobs
  BY StoreAssumption, Keys DEF ItemsOf
<1>1. DueIsQueued(i) /\ pc[p] \notin {"items", "network"}
  <2>1. CASE job[p] = "none"
    BY <2>1 DEF DueRefundIsScheduled, DueIsQueued, ActiveRuns
  <2>2. CASE job[p] # "none"
    <3>1. pc[p] = "end" /\ result[p] \notin {"retry", "throttle"}
      BY <2>2, DeliveryJobEnds DEF ShopInv, ItemInv
    <3> QED
      BY <3>1 DEF DeliveryRuns, DeliveryRunsOf, EndsForGood
  <2> QED
    BY <2>1, <2>2
<1> QED
  BY <1>1, DueKept DEF ShopInv, ItemInv

HandlerInv ==
  ActiveRuns /\ RefundsArePaid /\ RefundRuns /\ DeliveryRuns /\ PaidIsQueued /\ DueRefundIsScheduled

\* No handler runs and no job is queued at first.
LEMMA InitHandlers == Init => HandlerInv
<1> SUFFICES ASSUME Init PROVE HandlerInv
  OBVIOUS
<1> USE Keys DEF Init, StoreInit
<1>1. ActiveRuns /\ RefundsArePaid /\ RefundRuns
  BY DEF ActiveRuns, RefundsArePaid, RefundRuns
<1>2. DeliveryRuns /\ PaidIsQueued
  BY DEF DeliveryRuns, DeliveryRunsOf, EndsForGood, PaidIsQueued
<1>3. DueRefundIsScheduled
  BY DEF DueRefundIsScheduled, RefundDue
<1> QED
  BY <1>1, <1>2, <1>3 DEF HandlerInv

\* The promise of every delivery is kept.
LEMMA DeliveriesKept ==
  ASSUME ShopInv, ShopInv', RefundRuns, DeliveryRuns, ItemEffect, OrderEffect, [Next]_vars
  PROVE  DeliveryRuns'
<1> SUFFICES ASSUME NEW o \in Orders PROVE DeliveryRunsOf(o)'
  BY DEF DeliveryRuns
<1>1. DeliveryRunsOf(o) /\ Deliver(o) \in Processes
  BY Keys DEF DeliveryRuns
<1>2. CASE Untouched(Deliver(o))
  BY <1>1, <1>2, OthersLeaveDelivery
<1>3. CASE Acts(Deliver(o))
  BY <1>1, <1>3, OwnActs, DeliveryRunsStep
<1> QED
  BY <1>1, <1>2, <1>3, OneAtWork DEF OthersUntouched, ShopInv, ItemInv

\* The invariant of the handlers holds in every reachable state.
LEMMA HandlerInvHolds == Spec => []HandlerInv
<1>1. ShopInv /\ HandlerInv /\ [Next]_vars => HandlerInv'
  <2> SUFFICES ASSUME ShopInv, HandlerInv, [Next]_vars PROVE HandlerInv'
    OBVIOUS
  <2>1. ShopInv' /\ ItemEffect /\ OrderEffect
    BY ShopInvKept
  <2>2. TypeInv
    BY DEF ShopInv, ItemInv
  <2>3. ActiveRuns' /\ RefundsArePaid' /\ RefundRuns'
    BY <2>1, <2>2, ActiveKept, RefundsAreQueued, RefundsPaidKept, RefundRunsKept DEF HandlerInv
  <2>4. DeliveryRuns' /\ PaidIsQueued' /\ DueRefundIsScheduled'
    BY <2>1, DeliveriesKept, PaidQueuedKept, DueScheduledKept DEF HandlerInv
  <2> QED
    BY <2>3, <2>4 DEF HandlerInv
<1> QED
  BY <1>1, InitHandlers, ShopInvHolds, PTL DEF Spec

\* The outbox loses no payment: wherever handlers raise or die, an order that
\* is still 'paid' has an active delivery job.
THEOREM ShopPaidIsQueued == Spec => []PaidIsQueued
BY HandlerInvHolds, PTL DEF HandlerInv

\* Once an order's delivery job is gone, every refund that is due has its own.
THEOREM ShopDueRefundIsScheduled == Spec => []DueRefundIsScheduled
BY HandlerInvHolds, PTL DEF HandlerInv

----------------------------------------------------------------------------
(* The history follows the rows.                                            *)

\* The supplier is asked about an item only by phase 1, which tells the history.
LEMMA AskedNow ==
  ASSUME TypeInv, [Next]_vars, NEW o \in Orders, NEW i \in Items,
         Asked(Deliver(o), i)', ~Asked(Deliver(o), i)
  PROVE  ~Closed(i) /\ toldItem'[i] = "delivering"
<1> DEFINE p == Deliver(o)
<1> USE Keys DEF TypeInv, TypeOK, StoreTypeOK, Goto
<1>1. pc'[p] = "network" /\ IsFirst(i, todo'[p]) /\ ~(pc[p] = "network" /\ IsFirst(i, todo[p]))
  BY DEF Asked, IsFirst, Deliver
<1>2. CASE Untouched(p)
  BY <1>1, <1>2 DEF Untouched
<1>3. CASE CaptureItem(o)
  <2>1. PICK j \in todo[p] :
          /\ IsFirst(j, todo[p])
          /\ \/ UNCHANGED pc
             \/ ~Closed(j) /\ SetItem(j, "delivering") /\ UNCHANGED todo
    BY <1>3 DEF CaptureItem
  <2>2. pc[p] = "items"
    BY <1>3 DEF CaptureItem
  <2>3. ~Closed(j) /\ SetItem(j, "delivering") /\ UNCHANGED todo
    BY <1>1, <2>1, <2>2
  <2>4. i \in todo[p] /\ i <= j /\ j <= i /\ i \in Nat /\ j \in Nat
    BY <1>1, <2>1, <2>3, StoreAssumption DEF IsFirst
  <2>5. i = j
    BY <2>4
  <2> QED
    BY <2>3, <2>5 DEF SetItem
<1>4. ASSUME NEW s, s # "network", pc' = [pc EXCEPT ![p] = s] PROVE FALSE
  BY <1>1, <1>4
<1>5. CASE ClaimDelivery(o) \/ StartDelivery(o) \/ ReduceOrder(o) \/ WriteOrder(o)
  BY <1>4, <1>5 DEF ClaimDelivery, StartDelivery, ReduceOrder, WriteOrder
<1>6. ASSUME NEW j, NextItem(p, j) PROVE FALSE
  BY <1>4, <1>6 DEF NextItem
<1>7. CASE CloseRead(p, o) \/ CloseWrite(p, o) \/ SettleOrder(p, o)
  BY <1>4, <1>7 DEF CloseRead, CloseWrite, SettleOrder, AfterClose
<1>8. CASE JobEnd(p) \/ Raise(p) \/ Crash(p)
  BY <1>4, <1>8 DEF JobEnd, Raise, Crash
<1> QED
  BY <1>2, <1>3, <1>5, <1>6, <1>7, <1>8, OneAtWork, OwnActs
     DEF OthersUntouched, DeliveryActs, DeliveryStep, HandOver, CodeCollision, NotHandedOver,
         Throttled

\* While the supplier is asked about an open item the history says so.
LEMMA AskedKept ==
  ASSUME TypeInv, OwnItems, OwnItems', AskedIsTold, ItemEffect, [Next]_vars
  PROVE  AskedIsTold'
<1> SUFFICES ASSUME NEW o \in Orders, NEW i \in Items, Asked(Deliver(o), i)'
             PROVE  Closed(i)' \/ toldItem'[i] = "delivering"
  BY DEF AskedIsTold
<1>1. CASE ~Asked(Deliver(o), i)
  BY <1>1, AskedNow
<1>2. CASE Asked(Deliver(o), i)
  <2>1. Closed(i) \/ toldItem[i] = "delivering"
    BY <1>2 DEF AskedIsTold
  <2>2. Closed(i) => Closed(i)'
    BY ClosedStays
  <2>3. OrderOf[i] = o /\ pc'[Deliver(o)] = "network"
    BY <1>2, AskedOwn DEF Asked, Deliver
  <2> QED
    BY <2>1, <2>2, <2>3, ItemTouches DEF ItemTouched, Closed, TerminalItem
<1> QED
  BY <1>1, <1>2

\* The history of an item follows its row.
LEMMA ItemHistoryKept ==
  ASSUME TypeInv, OwnItems, AskedIsTold, HistoryOfItems, [Next]_vars
  PROVE  HistoryOfItems'
<1> SUFFICES ASSUME NEW i \in Items
             PROVE  \/ toldItem'[i] = itemStatus'[i]
                    \/ itemStatus'[i] = "pending" /\ toldItem'[i] = "delivering"
  BY DEF HistoryOfItems
<1> DEFINE p == Deliver(OrderOf[i])
<1>1. OrderOf[i] \in Orders
  BY StoreAssumption
<1>2. ASSUME pc[p] = "network", IsFirst(i, todo[p]), ~Closed(i) PROVE toldItem[i] = "delivering"
  BY <1>1, <1>2 DEF AskedIsTold, Asked, IsFirst
<1> QED
  BY <1>2, ItemTouches DEF ItemTouched, HistoryOfItems

\* A step tells the history of an order what it writes to the row, unless the
\* row is final or becomes 'delivering'.
LEMMA OrderTold ==
  ASSUME ShopInv, [Next]_vars, NEW o \in Orders
  PROVE  \/ UNCHANGED <<orderStatus[o], toldOrder[o]>>
         \/ toldOrder'[o] = orderStatus'[o]
         \/ orderStatus'[o] \in FinalOrder \cup {"delivering"}
<1> DEFINE Goal == \/ UNCHANGED <<orderStatus[o], toldOrder[o]>>
                   \/ toldOrder'[o] = orderStatus'[o]
                   \/ orderStatus'[o] \in FinalOrder \cup {"delivering"}
<1> USE Keys DEF ShopInv, ItemInv, TypeInv, TypeOK, StoreTypeOK
<1>1. CASE UNCHANGED orderVars
  BY <1>1 DEF orderVars
<1>2. ASSUME NEW e \in Events, Apply(e) PROVE Goal
  BY <1>2, StoreAssumption DEF Apply
<1>3. CASE UNCHANGED vars
  BY <1>1, <1>3 DEF vars, orderVars
<1>4. CASE ApiStep
  <2>1. ASSUME NEW q \in Orders, CreateOrder(q) PROVE Goal
    BY <2>1 DEF CreateOrder
  <2>2. ASSUME NEW e \in Events, Webhook(e) \/ WebhookFindsNoOrder(e) \/ WebhookKeepsOrphan(e)
        PROVE  Goal
    BY <1>1, <1>2, <2>2 DEF Webhook, WebhookFindsNoOrder, WebhookKeepsOrphan
  <2> QED
    BY <1>4, <2>1, <2>2 DEF ApiStep
<1>5. ASSUME NEW q \in Orders, HandleOrphans(q) PROVE Goal
  BY <1>1, <1>2, <1>5 DEF HandleOrphans, ApplyOrphanEvents, Movers, OrphanEvents
<1>6. ASSUME NEW p \in Processes, NEW q \in Orders, SettlementStep(p, q) \/ SettleOrder(p, q)
      PROVE  Goal
  <2>1. CASE CloseWrite(p, q)
    BY <2>1 DEF CloseWrite
  <2> QED
    BY <1>1, <1>6, <2>1 DEF SettlementStep, SettleOrder, RefundItem, CloseRead
<1>7. ASSUME NEW q \in Orders, DeliveryStep(q) PROVE Goal
  <2>1. CASE StartDelivery(q)
    <3>1. orderStatus' = orderStatus \/ orderStatus' = [orderStatus EXCEPT ![q] = "delivering"]
      BY <2>1 DEF StartDelivery
    <3> QED
      BY <2>1, <3>1 DEF StartDelivery
  <2>2. CASE WriteOrder(q)
    <3>1. orderStatus[q] \notin NotYetPaid
      BY <2>2 DEF WriteOrder, PaidInv
    <3>2. CASE StillOpen(q)
      BY <2>2, <3>2 DEF WriteOrder
    <3>3. CASE ~StillOpen(q)
      BY <2>2, <3>1, <3>3 DEF WriteOrder, StillOpen, NotDeliverable, NotYetPaid
    <3> QED
      BY <3>2, <3>3
  <2>3. CASE CaptureItem(q) \/ ReduceOrder(q)
    BY <1>1, <2>3 DEF CaptureItem, ReduceOrder
  <2> QED
    BY <1>1, <1>6, <1>7, <2>1, <2>2, <2>3
       DEF DeliveryStep, SettlementStep, HandOver, CodeCollision, NotHandedOver, Throttled, NextItem
<1>8. CASE UNCHANGED storeVars
  BY <1>1, <1>8 DEF storeVars
<1>9. ASSUME NEW q \in Orders,
             \/ ClaimDelivery(q) \/ ClaimOrphans(q) \/ SweepStuck(q) \/ SweepOrphans(q)
             \/ Redeliver(q) \/ AdminRefund(q)
      PROVE  UNCHANGED storeVars
  BY <1>9 DEF ClaimDelivery, ClaimOrphans, SweepStuck, SweepOrphans, Redeliver, AdminRefund
<1>10. ASSUME NEW p, ClaimRefund(p) \/ JobEnd(p) \/ Raise(p) \/ Crash(p)
       PROVE  UNCHANGED storeVars
  BY <1>10 DEF ClaimRefund, JobEnd, Raise, Crash
<1> QED
  BY <1>3, <1>4, <1>5, <1>6, <1>7, <1>8, <1>9, <1>10, StoreAssumption DEF Next

\* The history of an order follows its row until the row is final.
LEMMA OrderHistoryKept ==
  ASSUME ShopInv, OrderEffect, HistoryOfOrders, [Next]_vars
  PROVE  HistoryOfOrders'
BY OrderTold DEF HistoryOfOrders

HistoryInv == AskedIsTold /\ HistoryOfItems /\ HistoryOfOrders

\* The histories agree with the rows in every reachable state.
LEMMA HistoryInvHolds == Spec => []HistoryInv
<1>1. Init => HistoryInv
  BY Keys DEF Init, StoreInit, HistoryInv, AskedIsTold, Asked, HistoryOfItems, HistoryOfOrders
<1>2. ShopInv /\ HistoryInv /\ [Next]_vars => HistoryInv'
  <2> SUFFICES ASSUME ShopInv, HistoryInv, [Next]_vars PROVE HistoryInv'
    OBVIOUS
  <2>1. ShopInv' /\ ItemEffect /\ OrderEffect
    BY ShopInvKept
  <2> QED
    BY <2>1, AskedKept, ItemHistoryKept, OrderHistoryKept DEF HistoryInv, ShopInv, ItemInv
<1> QED
  BY <1>1, <1>2, ShopInvHolds, PTL DEF Spec

\* The history of an item folds to its row, or to the attempt a throttled
\* supplier gave back.
THEOREM ShopHistoryOfItems == Spec => []HistoryOfItems
BY HistoryInvHolds, PTL DEF HistoryInv

\* The history of an order folds to its row until the row is final.
THEOREM ShopHistoryOfOrders == Spec => []HistoryOfOrders
BY HistoryInvHolds, PTL DEF HistoryInv

----------------------------------------------------------------------------
(* A refund sticks.                                                         *)

\* A refunded item nobody is asked about stays refunded and is not asked about.
LEMMA RefundSticksStep ==
  ASSUME ShopInv, [Next]_vars, NEW i \in Items, itemStatus[i] = "refunded", ~InFlight(i)
  PROVE  itemStatus'[i] = "refunded" /\ ~InFlight(i)'
<1> DEFINE p == Deliver(OrderOf[i])
<1>1. OrderOf[i] \in Orders /\ Closed(i) /\ issued[i] = NoCode
  BY StoreAssumption DEF Closed, TerminalItem, ShopInv, ItemInv, BooksMatchItems
<1>2. itemStatus'[i] = "refunded"
  BY <1>1, ItemTouches DEF ItemTouched, InFlight, ShopInv, ItemInv
<1>3. ~InFlight(i)'
  BY <1>1, AskedNow DEF InFlight, Asked, IsFirst, ShopInv, ItemInv
<1> QED
  BY <1>2, <1>3

\* No delivery, retry or redelivery hands over a code for a refunded item,
\* unless the supplier was being asked when the refund was made.
THEOREM ShopRefundSticks == Spec => RefundSticks
<1>1. ASSUME ShopInv, [Next]_vars
      PROVE  [\A i \in Items :
                itemStatus[i] = "refunded" /\ ~InFlight(i)
                  => itemStatus'[i] = "refunded" /\ ~InFlight(i)']_vars
  BY <1>1, RefundSticksStep
<1> QED
  BY <1>1, ShopInvHolds, PTL DEF Spec, RefundSticks

----------------------------------------------------------------------------
(* Somebody closes the order.                                               *)

\* An admin's request refunds items of its own order.
AdminOwns == \A o \in Orders : todo[Admin(o)] \subseteq ItemsOf(o)

\* Every step leaves it with those.
LEMMA AdminOwnsKept ==
  ASSUME TypeInv, AdminOwns, [Next]_vars
  PROVE  AdminOwns'
<1> SUFFICES ASSUME NEW o \in Orders PROVE todo'[Admin(o)] \subseteq ItemsOf(o)
  BY DEF AdminOwns, Admin, ItemsOf
<1> USE Keys DEF AdminOwns, TypeInv, TypeOK
<1>1. CASE Untouched(Admin(o))
  BY <1>1 DEF Untouched
<1>2. CASE AdminRefund(o)
  BY <1>2 DEF AdminRefund, OpenItems
<1>3. CASE SettlementStep(Admin(o), o)
  BY <1>3 DEF SettlementStep, RefundItem, CloseRead, CloseWrite
<1>4. CASE Crash(Admin(o))
  BY <1>4 DEF Crash
<1> QED
  BY <1>1, <1>2, <1>3, <1>4, OneAtWork, OwnActs DEF OthersUntouched, AdminActs

\* Whoever closes an item will look at its order afterwards.
LEMMA CloserStays ==
  ASSUME ShopInv, HandlerInv, HandlerInv', AdminOwns, [Next]_vars,
         NEW i \in Items, ~Closed(i), Closed(i)'
  PROVE  \E p \in Processes : WillClose(p, OrderOf[i])'
<1> DEFINE o == OrderOf[i]
<1>1. o \in Orders /\ i \in ItemsOf(o)
  BY StoreAssumption DEF ItemsOf
<1>2. CASE pc'[Deliver(o)] \in {"items", "network"}
  <2>1. job'[Deliver(o)] # "none" /\ Deliver(o) \in Processes
    BY <1>1, <1>2, Keys DEF HandlerInv, ActiveRuns
  <2> QED
    BY <1>2, <2>1 DEF WillClose, EndsForGood, Deliver
<1>3. ASSUME NEW q \in AdminCalls, pc'[q] \in {"refund", "close"}, i \in todo[q]
      PROVE  \E p \in Processes : WillClose(p, o)'
  <2>1. PICK a \in Orders : q = Admin(a)
    BY DEF Admin, AdminCalls
  <2>2. a = o /\ Admin(o) \in Processes
    BY <1>3, <2>1, Keys DEF AdminOwns, ItemsOf
  <2> QED
    BY <1>3, <2>1, <2>2 DEF WillClose, Admin
<1>4. ASSUME NEW q \in RefundJobs, pc[q] = "refund", pc'[q] \in {"refund", "close"}, i \in todo[q]
      PROVE  \E p \in Processes : WillClose(p, o)'
  <2>1. PICK j \in Items : q = Refund(j)
    BY DEF Refund, RefundJobs
  <2>2. j = i /\ q \in Processes /\ q \in Jobs
    BY <1>4, <2>1, Keys DEF HandlerInv, RefundRuns
  <2>3. job'[q] # "none"
    BY <1>4, <2>2 DEF HandlerInv, ActiveRuns
  <2> QED
    BY <1>1, <1>4, <2>1, <2>2, <2>3 DEF WillClose, Refund, ItemsOf
<1>5. ~(UNCHANGED itemStatus[i])
  BY DEF Closed
<1> QED
  BY <1>2, <1>3, <1>4, <1>5, ItemTouches DEF ItemTouched, ShopInv, ItemInv

\* A process that is not the one at work will still look at the order.
LEMMA WillCloseUntouched ==
  ASSUME NEW o \in Orders, NEW p \in Processes, WillClose(p, o), Untouched(p)
  PROVE  WillClose(p, o)'
<1>1. CASE p = Admin(o)
  BY <1>1 DEF WillClose, Untouched, EndsForGood, Admin, Deliver, Refund
<1>2. CASE p = Deliver(o) /\ job[p] # "none"
  BY <1>2, Keys DEF WillClose, Untouched, EndsForGood, Admin, Deliver, Refund
<1>3. ASSUME NEW i \in ItemsOf(o), p = Refund(i), job[p] # "none",
             pc[p] = "end" => result[p] = "retry"
      PROVE  WillClose(p, o)'
  BY <1>3, Keys DEF WillClose, Untouched, ItemsOf, Refund
<1> QED
  BY <1>1, <1>2, <1>3 DEF WillClose

\* The last write of whoever closes an order gives it a final status.
LEMMA CloseWriteFinal ==
  ASSUME TypeInv, NEW p \in Processes, NEW o \in Orders, CloseWrite(p, o)
  PROVE  orderStatus'[o] \in FinalOrder
BY DEF CloseWrite, TypeInv, TypeOK, StoreTypeOK, ResultFits

\* While no process dies, the admin's request goes on until it has closed the
\* order ...
LEMMA AdminCloses ==
  ASSUME ShopInv, "crash" \notin Faults, NEW o \in Orders, AllClosed(o),
         orderStatus'[o] \notin FinalOrder, WillClose(Admin(o), o), Acts(Admin(o))
  PROVE  WillClose(Admin(o), o)'
<1> DEFINE p == Admin(o)
<1> USE Keys DEF ShopInv, ItemInv, TypeInv, TypeOK, StoreTypeOK, Goto
<1>1. pc[p] \in {"refund", "close", "close_write"}
  BY DEF WillClose, Admin, Deliver, Refund
<1>2. SettlementStep(p, o)
  BY <1>1, OwnActs DEF AdminActs, AdminRefund, Crash
<1>3. ~CloseWrite(p, o)
  BY CloseWriteFinal
<1>4. pc'[p] \in {"refund", "close", "close_write"}
  BY <1>2, <1>3 DEF SettlementStep, RefundItem, AfterRefunds, CloseRead
<1> QED
  BY <1>4 DEF WillClose, Admin

\* ... so does a refund job ...
LEMMA RefundJobCloses ==
  ASSUME ShopInv, HandlerInv, HandlerInv', "crash" \notin Faults, NEW o \in Orders,
         NEW i \in ItemsOf(o), AllClosed(o), orderStatus'[o] \notin FinalOrder,
         WillClose(Refund(i), o), Acts(Refund(i))
  PROVE  WillClose(Refund(i), o)'
<1> DEFINE k == Refund(i)
<1> USE Keys DEF ShopInv, ItemInv, TypeInv, TypeOK, StoreTypeOK, Goto
<1>1. i \in Items /\ OrderOf[i] = o /\ (pc[k] = "end" => result[k] = "retry")
  BY DEF WillClose, Admin, Deliver, Refund, ItemsOf
<1>2. ~CloseWrite(k, o)
  BY <1>1, CloseWriteFinal
<1>3. CASE ClaimRefund(i) \/ RefundItem(k) \/ CloseRead(k, o) \/ Raise(k)
  <2>1. pc'[k] # "idle" /\ (pc'[k] = "end" => result'[k] = "retry")
    BY <1>1, <1>3 DEF ClaimRefund, RefundItem, AfterRefunds, CloseRead, Raise
  <2>2. job'[k] = "running"
    BY <1>1, <2>1 DEF HandlerInv, ActiveRuns, Refund
  <2> QED
    BY <2>1, <2>2 DEF WillClose, Refund, ItemsOf
<1>4. CASE JobEnd(k)
  <2>1. pc'[k] = "idle" /\ job'[k] # "none"
    BY <1>1, <1>4 DEF JobEnd, AfterOutcome, WithJob
  <2> QED
    BY <2>1 DEF WillClose, Refund, ItemsOf
<1> QED
  BY <1>1, <1>2, <1>3, <1>4, OwnActs DEF RefundActs, SettlementStep, Crash

\* ... and a delivery, which has nothing left to wait for.
LEMMA DeliveryCloses ==
  ASSUME ShopInv, HandlerInv, HandlerInv', "crash" \notin Faults, NEW o \in Orders, AllClosed(o),
         orderStatus'[o] \notin FinalOrder, WillClose(Deliver(o), o), Acts(Deliver(o))
  PROVE  WillClose(Deliver(o), o)'
<1> DEFINE p == Deliver(o)
<1> USE Keys DEF Goto
<1>t. pc \in [Processes -> PcValues] /\ result \in [Processes -> Results]
      /\ job \in [Jobs -> {"none", "pending", "running"}]
  BY DEF ShopInv, ItemInv, TypeInv, TypeOK, StoreTypeOK
<1>1. pc[p] \notin {"write", "give_up", "refund"} /\ ~EndsForGood(p)
  BY DEF WillClose, Admin, Deliver, Refund, HandlerInv, DeliveryRuns, DeliveryRunsOf
<1>2. ~CloseWrite(p, o)
  BY CloseWriteFinal DEF ShopInv, ItemInv
<1>3. ASSUME pc'[p] \notin {"idle", "write", "give_up"},
             pc'[p] = "end" => result'[p] \in {"retry", "throttle"}
      PROVE  WillClose(p, o)'
  <2>1. job'[p] = "running"
    BY <1>3 DEF HandlerInv, ActiveRuns, Deliver
  <2> QED
    BY <1>3, <2>1 DEF WillClose, EndsForGood, Deliver
<1>4. CASE ClaimDelivery(o) \/ CaptureItem(o) \/ Raise(p)
  BY <1>3, <1>4, <1>t DEF ClaimDelivery, CaptureItem, Raise
<1>5. CASE StartDelivery(o)
  <2>1. orderStatus[o] \notin NotYetPaid
    BY <1>5 DEF StartDelivery, ShopInv, PaidInv
  <2> QED
    BY <1>3, <1>5, <1>t, <2>1 DEF StartDelivery
<1>6. ASSUME NEW i, NextItem(p, i) PROVE WillClose(p, o)'
  BY <1>3, <1>6, <1>t DEF NextItem
<1>7. CASE ReduceOrder(o)
  <2>1. Awaiting(o) = {}
    BY DEF AllClosed, Closed, TerminalItem, Awaiting
  <2> QED
    BY <1>3, <1>7, <1>t, <2>1 DEF ReduceOrder
<1>8. CASE CloseRead(p, o)
  BY <1>3, <1>8, <1>t DEF CloseRead
<1>9. CASE JobEnd(p)
  <2>1. pc'[p] = "idle" /\ job'[p] # "none"
    BY <1>1, <1>9, <1>t DEF JobEnd, AfterOutcome, WithJob, EndsForGood
  <2> QED
    BY <2>1 DEF WillClose, EndsForGood, Deliver
<1>10. CASE WriteOrder(o) \/ SettleOrder(p, o)
  BY <1>1, <1>10 DEF WriteOrder, SettleOrder
<1> QED
  BY <1>2, <1>4, <1>5, <1>6, <1>7, <1>8, <1>9, <1>10, OwnActs
     DEF DeliveryActs, DeliveryStep, HandOver, CodeCollision, NotHandedOver, Throttled, Crash

\* Somebody goes on being there to close the order.
LEMMA CloserKept ==
  ASSUME ShopInv, HandlerInv, HandlerInv', AdminOwns, CloserExists, "crash" \notin Faults,
         ItemEffect, OrderEffect, [Next]_vars
  PROVE  CloserExists'
<1> SUFFICES ASSUME NEW o \in Orders, AllClosed(o)', orderStatus'[o] \notin FinalOrder
             PROVE  \E p \in Processes : WillClose(p, o)'
  BY DEF CloserExists
<1>1. CASE ~AllClosed(o)
  <2>1. PICK i \in Items : OrderOf[i] = o /\ ~Closed(i) /\ Closed(i)'
    BY <1>1 DEF AllClosed, ItemsOf
  <2> QED
    BY <2>1, CloserStays
<1>2. CASE AllClosed(o)
  <2>1. orderStatus[o] \notin FinalOrder /\ paidAt[o]
    BY <1>2, OrderStaysStep, ClosedIsPaid
  <2>2. PICK p \in Processes : WillClose(p, o)
    BY <1>2, <2>1 DEF CloserExists
  <2>3. CASE Untouched(p)
    BY <2>2, <2>3, WillCloseUntouched
  <2>4. CASE Acts(p)
    <3>1. CASE p = Admin(o)
      BY <1>2, <2>2, <2>4, <3>1, AdminCloses
    <3>2. CASE p = Deliver(o)
      BY <1>2, <2>2, <2>4, <3>2, DeliveryCloses
    <3>3. ASSUME NEW i \in ItemsOf(o), p = Refund(i)
          PROVE  \E q \in Processes : WillClose(q, o)'
      BY <1>2, <2>2, <2>4, <3>3, RefundJobCloses
    <3> QED
      BY <2>2, <3>1, <3>2, <3>3 DEF WillClose
  <2> QED
    BY <2>3, <2>4, OneAtWork DEF OthersUntouched, ShopInv, ItemInv
<1> QED
  BY <1>1, <1>2

\* While no process dies, an order whose items are closed and on which nothing
\* works any more is final: the last of several concurrent handlers to close
\* an item always sees the others' items.
THEOREM ShopClosedOrderIsFinal ==
  ASSUME "crash" \notin Faults
  PROVE  Spec => []ClosedOrderIsFinal
<1>1. Init => AdminOwns /\ CloserExists
  BY Keys DEF Init, StoreInit, AdminOwns, CloserExists
<1>2. ShopInv /\ HandlerInv /\ HandlerInv' /\ (AdminOwns /\ CloserExists) /\ [Next]_vars
        => (AdminOwns /\ CloserExists)'
  <2> SUFFICES ASSUME ShopInv, HandlerInv, HandlerInv', AdminOwns, CloserExists, [Next]_vars
               PROVE  AdminOwns' /\ CloserExists'
    OBVIOUS
  <2> QED
    BY ShopInvKept, AdminOwnsKept, CloserKept DEF ShopInv, ItemInv
<1>3. CloserExists => ClosedOrderIsFinal
  <2> SUFFICES ASSUME CloserExists, NEW o \in Orders, paidAt[o], AllClosed(o), Quiet(o)
               PROVE  orderStatus[o] \in FinalOrder
    BY DEF ClosedOrderIsFinal
  <2>1. \A p \in Processes : ~WillClose(p, o)
    BY DEF Quiet, WillClose
  <2> QED
    BY <2>1 DEF CloserExists
<1> QED
  BY <1>1, <1>2, <1>3, ShopInvHolds, HandlerInvHolds, PTL DEF Spec
=============================================================================
