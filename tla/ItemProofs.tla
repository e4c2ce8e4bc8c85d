----------------------------- MODULE ItemProofs -----------------------------
(***************************************************************************)
(* Type correctness of the shop, and proofs about items, codes and         *)
(* postings, for every number of orders, items, codes, notifications,      *)
(* attempts and faults.  ItemSteps says what a step may do to the items;   *)
(* the invariants follow from it without looking at the actions again.     *)
(***************************************************************************)
EXTENDS Shop, TLAPS

WriteStatus == {"delivering", "out_of_stock", "delivery_failed"}

\* What a handler is about to write to the order is an order status.
ResultFits ==
  \A p \in Processes :
    /\ pc[p] = "write" => result[p] \in WriteStatus
    /\ pc[p] = "close_write" => result[p] \in FinalOrder

TypeInv == TypeOK /\ ResultFits

----------------------------------------------------------------------------
(* Keys of jobs and processes.                                              *)

\* Every key names a job or a request of the process set.
LEMMA Keys ==
  /\ \A o \in Orders : /\ Deliver(o) \in Jobs /\ Orphans(o) \in Jobs
                       /\ Deliver(o) \in Processes /\ Orphans(o) \in Processes
                       /\ Admin(o) \in Processes
  /\ \A i \in Items : Refund(i) \in Jobs /\ Refund(i) \in Processes /\ Refund(i) \in RefundJobs
  /\ RefundJobs \subseteq Jobs /\ Jobs \subseteq Processes
BY DEF Deliver, Orphans, Admin, Refund, Jobs, Processes, DeliverJobs, OrphanJobs,
       RefundJobs, AdminCalls

\* Enqueueing keeps the queue well-typed.
LEMMA EnqueuedType ==
  ASSUME NEW keys, job \in [Jobs -> {"none", "pending", "running"}]
  PROVE  Enqueued(keys) \in [Jobs -> {"none", "pending", "running"}]
BY DEF Enqueued

----------------------------------------------------------------------------
(* Type correctness.                                                        *)

\* The initial tables and idle handlers are well-typed.
LEMMA InitType == Init => TypeInv
BY StoreAssumption
   DEF Init, StoreInit, TypeInv, TypeOK, StoreTypeOK, ResultFits, OrderStatus, NotDeliverable,
       ItemStatus, EventState, PcValues, Results

\* Applying a notification keeps the tables well-typed.
LEMMA ApplyType ==
  ASSUME TypeInv, NEW e \in Events, Apply(e)
  PROVE  /\ orderStatus' \in [Orders -> OrderStatus]
         /\ paidAt' \in [Orders -> BOOLEAN]
         /\ toldOrder' \in [Orders -> OrderStatus]
         /\ ledger' \subseteq Postings
<1>1. e.order \in Orders
  BY StoreAssumption
<1>2. {"paid", "payment_failed"} \subseteq OrderStatus
  BY DEF OrderStatus, NotDeliverable
<1>3. <<"payment_captured", e.order>> \in Postings
  BY <1>1 DEF Postings
<1> QED
  BY <1>1, <1>2, <1>3 DEF Apply, Post, TypeInv, TypeOK, StoreTypeOK

\* _apply_to_order always answers with a processing state.
LEMMA DecisionType ==
  \A e \in Events : \A status : Decision(e, status) \in EventState
BY DEF Decision, EventState

\* POST /orders and the payment webhook keep the types.
LEMMA ApiType == TypeInv /\ ApiStep => TypeInv'
<1> SUFFICES ASSUME TypeInv, ApiStep PROVE TypeInv'
  OBVIOUS
<1> USE EnqueuedType DEF TypeInv, TypeOK, StoreTypeOK
<1>1. ASSUME NEW o \in Orders, CreateOrder(o), UNCHANGED procVars PROVE TypeInv'
  BY <1>1 DEF CreateOrder, procVars, itemVars, moneyVars, ResultFits, OrderStatus
<1>2. ASSUME NEW e \in Events, Webhook(e), UNCHANGED procVars PROVE TypeInv'
  <2>1. /\ orderStatus' \in [Orders -> OrderStatus] /\ paidAt' \in [Orders -> BOOLEAN]
        /\ toldOrder' \in [Orders -> OrderStatus] /\ ledger' \subseteq Postings
        /\ job' \in [Jobs -> {"none", "pending", "running"}]
    BY <1>2, ApplyType DEF Webhook, orderVars
  <2>2. eventState' \in [Events -> EventState]
    BY <1>2, DecisionType DEF Webhook
  <2> QED
    BY <1>2, <2>1, <2>2 DEF Webhook, procVars, itemVars, ResultFits
<1>3. ASSUME NEW e \in Events, WebhookFindsNoOrder(e), UNCHANGED procVars PROVE TypeInv'
  BY <1>3 DEF WebhookFindsNoOrder, procVars, orderVars, itemVars, moneyVars, queueVars,
              ResultFits, EventState
<1>4. ASSUME NEW e \in Events, WebhookKeepsOrphan(e), UNCHANGED procVars PROVE TypeInv'
  BY <1>4 DEF WebhookKeepsOrphan, procVars, orderVars, itemVars, moneyVars, ResultFits, EventState
<1> QED
  BY <1>1, <1>2, <1>3, <1>4 DEF ApiStep

\* finalize_order_in derives a final status.
LEMMA ClosingType == \A o \in Orders : ClosingStatus(o) \in FinalOrder
BY DEF ClosingStatus, FinalOrder

\* Refunding an item and closing an order keep the types.
LEMMA SettlementType ==
  ASSUME TypeInv, NEW p \in Processes, NEW o \in Orders,
         SettlementStep(p, o) \/ SettleOrder(p, o)
  PROVE  TypeInv'
<1> USE EnqueuedType DEF TypeInv, TypeOK, StoreTypeOK, Goto
<1>1. CASE RefundItem(p)
  <2>1. PICK i \in todo[p] :
          /\ todo' = [todo EXCEPT ![p] = @ \ {i}]
          /\ pc' = [pc EXCEPT ![p] = IF todo[p] = {i} THEN AfterRefunds ELSE "refund"]
          /\ IF Refundable(i)
             THEN /\ itemStatus' = [itemStatus EXCEPT ![i] = "refunded"]
                  /\ toldItem' = [toldItem EXCEPT ![i] = "refunded"]
                  /\ ledger' = Post("refund", i)
             ELSE UNCHANGED <<itemStatus, toldItem, ledger>>
    BY <1>1 DEF RefundItem
  <2>2. i \in Items /\ <<"refund", i>> \in Postings
    BY DEF Postings
  <2>3. /\ itemStatus' \in [Items -> ItemStatus] /\ toldItem' \in [Items -> ItemStatus]
        /\ ledger' \subseteq Postings
    BY <2>1, <2>2 DEF Post, ItemStatus, TerminalItem
  <2>4. /\ pc' \in [Processes -> PcValues] /\ todo' \in [Processes -> SUBSET Items]
    BY <2>1, <2>2 DEF PcValues, AfterRefunds
  <2>5. ResultFits'
    BY <1>1, <2>1 DEF RefundItem, ResultFits, AfterRefunds
  <2> QED
    BY <1>1, <2>3, <2>4, <2>5 DEF RefundItem, orderVars, queueVars
<1>2. CASE CloseRead(p, o)
  <2>1. result' \in [Processes -> Results] /\ pc' \in [Processes -> PcValues]
    BY <1>2, ClosingType
       DEF CloseRead, Results, OrderStatus, NotDeliverable, Answer, PcValues, AfterClose
  <2>2. ResultFits'
    BY <1>2, ClosingType DEF CloseRead, ResultFits, AfterClose
  <2> QED
    BY <1>2, <2>1, <2>2 DEF CloseRead, orderVars, itemVars, moneyVars
<1>3. CASE CloseWrite(p, o)
  <2>1. result[p] \in OrderStatus
    BY <1>3 DEF CloseWrite, ResultFits, OrderStatus, NotDeliverable
  <2>2. result' \in [Processes -> Results] /\ pc' \in [Processes -> PcValues]
    BY <1>3 DEF CloseWrite, Results, Answer, PcValues, AfterClose
  <2>3. ResultFits'
    BY <1>3 DEF CloseWrite, ResultFits, AfterClose
  <2> QED
    BY <1>3, <2>1, <2>2, <2>3 DEF CloseWrite, itemVars, moneyVars
<1>4. CASE SettleOrder(p, o)
  BY <1>4 DEF SettleOrder, orderVars, itemVars, moneyVars, ResultFits, PcValues, Results
<1> QED
  BY <1>1, <1>2, <1>3, <1>4 DEF SettlementStep

\* What phase 3 leaves alone, and what it does to the local state.
LEMMA NextItemType ==
  ASSUME TypeInv, NEW o \in Orders, NEW i \in Items, NextItem(Deliver(o), i),
         itemStatus' \in [Items -> ItemStatus], toldItem' \in [Items -> ItemStatus],
         attempts' \in [Items -> 0 .. MaxAttempts + 1],
         issued' \in [Items -> Codes \cup {NoCode}], ledger' \subseteq Postings,
         result' \in [Processes -> Results],
         UNCHANGED result \/ result' = [result EXCEPT ![Deliver(o)] = "throttle"]
  PROVE  TypeInv'
<1>1. Deliver(o) \in Processes
  BY Keys
<1>2. ResultFits'
  BY <1>1 DEF NextItem, Goto, ResultFits, TypeInv, TypeOK
<1>3. pc' \in [Processes -> PcValues] /\ todo' \in [Processes -> SUBSET Items]
  BY <1>1 DEF NextItem, Goto, TypeInv, TypeOK, PcValues
<1> QED
  BY <1>2, <1>3 DEF NextItem, orderVars, queueVars, TypeInv, TypeOK, StoreTypeOK

\* _fail_item writes an item status.
LEMMA FailItemType ==
  ASSUME TypeInv, NEW i \in Items, NEW st \in ItemStatus, FailItem(i, st)
  PROVE  itemStatus' \in [Items -> ItemStatus] /\ toldItem' \in [Items -> ItemStatus]
BY DEF FailItem, SetItem, TypeInv, TypeOK, StoreTypeOK

\* _finalize_order writes one of its three open statuses.
LEMMA WorstType == \A o \in Orders : WorstStatus(o) \in WriteStatus
BY DEF WorstStatus, WriteStatus

\* schedule_refunds names refund jobs only.
LEMMA RefundKeys == \A o \in Orders : RefundsToSchedule(o) \subseteq RefundJobs
BY Keys DEF RefundsToSchedule, ItemsOf

\* The attempts limit is a positive number.
LEMMA AttemptsType == MaxAttempts \in Nat /\ MaxAttempts > 0
BY StoreAssumption

\* Every step of deliver_order keeps the types.
LEMMA DeliveryType ==
  ASSUME TypeInv, NEW o \in Orders, DeliveryStep(o)
  PROVE  TypeInv'
<1> DEFINE p == Deliver(o)
<1>p. p \in Processes /\ p \in Jobs
  BY Keys
<1> USE <1>p, AttemptsType, EnqueuedType
<1>1. CASE StartDelivery(o)
  <2>1. /\ orderStatus' \in [Orders -> OrderStatus]
        /\ pc' \in [Processes -> PcValues]
        /\ result' \in [Processes -> Results]
        /\ todo' \in [Processes -> SUBSET Items]
    BY <1>1 DEF StartDelivery, Goto, TypeInv, TypeOK, StoreTypeOK, OrderStatus, PcValues,
                Results, OpenItems, ItemsOf
  <2>2. ResultFits'
    BY <1>1 DEF StartDelivery, Goto, TypeInv, TypeOK, ResultFits
  <2> QED
    BY <1>1, <2>1, <2>2
       DEF StartDelivery, TypeInv, TypeOK, StoreTypeOK, itemVars, moneyVars, queueVars
<1>2. CASE CaptureItem(o)
  <2>1. PICK i \in todo[p] :
          IF issued[i] # NoCode
          THEN SetItem(i, "delivered") /\ UNCHANGED attempts
               /\ todo' = [todo EXCEPT ![p] = @ \ {i}] /\ UNCHANGED pc
          ELSE IF Closed(i) \/ orderStatus[o] \in NotYetPaid
          THEN UNCHANGED <<itemVars, pc>> /\ todo' = [todo EXCEPT ![p] = @ \ {i}]
          ELSE /\ SetItem(i, "delivering")
               /\ attempts' = [attempts EXCEPT ![i] =
                    IF @ = MaxAttempts + 1 THEN @ ELSE @ + 1]
               /\ Goto(p, "network")
               /\ UNCHANGED todo
    BY <1>2 DEF CaptureItem
  <2>2. i \in Items
    BY DEF TypeInv, TypeOK
  <2>3. /\ itemStatus' \in [Items -> ItemStatus] /\ toldItem' \in [Items -> ItemStatus]
        /\ attempts' \in [Items -> 0 .. MaxAttempts + 1]
    BY <2>1, <2>2 DEF SetItem, TypeInv, TypeOK, StoreTypeOK, ItemStatus, TerminalItem, itemVars
  <2>4. /\ pc' \in [Processes -> PcValues] /\ todo' \in [Processes -> SUBSET Items]
        /\ ResultFits'
    BY <1>2, <2>1 DEF CaptureItem, Goto, TypeInv, TypeOK, PcValues, ResultFits
  <2> QED
    BY <1>2, <2>3, <2>4 DEF CaptureItem, TypeInv, TypeOK, StoreTypeOK, orderVars, moneyVars,
                            queueVars
<1>3. ASSUME NEW i \in ItemsOf(o), NEW c \in Codes, HandOver(o, i, c) PROVE TypeInv'
  <2>1. i \in Items
    BY DEF ItemsOf
  <2>2. /\ itemStatus' \in [Items -> ItemStatus] /\ toldItem' \in [Items -> ItemStatus]
        /\ issued' \in [Items -> Codes \cup {NoCode}] /\ ledger' \subseteq Postings
    BY <1>3, <2>1 DEF HandOver, SetItem, TypeInv, TypeOK, StoreTypeOK, ItemStatus, TerminalItem,
                      Postings
  <2> QED
    BY <1>3, <2>1, <2>2, NextItemType DEF HandOver, TypeInv, TypeOK, StoreTypeOK
<1>4. ASSUME NEW i \in ItemsOf(o), NEW c \in Codes, CodeCollision(o, i, c) PROVE TypeInv'
  <2>1. i \in Items /\ "delivery_failed" \in ItemStatus
    BY DEF ItemsOf, ItemStatus
  <2> QED
    BY <1>4, <2>1, FailItemType, NextItemType
       DEF CodeCollision, TypeInv, TypeOK, StoreTypeOK, moneyVars
<1>5. ASSUME NEW i \in ItemsOf(o), NEW kind \in Outcomes \cap DOMAIN StatusOnFailure,
             NotHandedOver(o, i, kind)
      PROVE  TypeInv'
  <2>1. i \in Items /\ StatusOnFailure[kind] \in ItemStatus
    BY DEF ItemsOf, ItemStatus, StatusOnFailure
  <2> QED
    BY <1>5, <2>1, FailItemType, NextItemType
       DEF NotHandedOver, TypeInv, TypeOK, StoreTypeOK, moneyVars
<1>6. ASSUME NEW i \in ItemsOf(o), Throttled(o, i) PROVE TypeInv'
  <2>1. i \in Items
    BY DEF ItemsOf
  <2>2. /\ itemStatus' \in [Items -> ItemStatus]
        /\ attempts' \in [Items -> 0 .. MaxAttempts + 1]
        /\ result' \in [Processes -> Results]
        /\ UNCHANGED <<toldItem, issued, ledger>>
    BY <1>6, <2>1 DEF Throttled, TypeInv, TypeOK, StoreTypeOK, ItemStatus, Results, moneyVars
  <2> QED
    BY <1>6, <2>1, <2>2, NextItemType DEF Throttled, TypeInv, TypeOK, StoreTypeOK
<1>7. CASE ReduceOrder(o)
  <2>1. /\ pc' \in [Processes -> PcValues] /\ result' \in [Processes -> Results]
    BY <1>7, WorstType DEF ReduceOrder, Goto, TypeInv, TypeOK, PcValues, Results, WriteStatus,
                           OrderStatus
  <2>2. queued' \in [Processes -> SUBSET RefundJobs]
    BY <1>7, RefundKeys DEF ReduceOrder, TypeInv, TypeOK
  <2>3. ResultFits'
    BY <1>7, WorstType DEF ReduceOrder, Goto, TypeInv, TypeOK, ResultFits
  <2> QED
    BY <1>7, <2>1, <2>2, <2>3 DEF ReduceOrder, TypeInv, TypeOK, StoreTypeOK, orderVars, itemVars,
                                  moneyVars
<1>8. CASE WriteOrder(o)
  <2>1. orderStatus' \in [Orders -> OrderStatus] /\ toldOrder' \in [Orders -> OrderStatus]
    BY <1>8 DEF WriteOrder, TypeInv, TypeOK, StoreTypeOK, ResultFits, WriteStatus, OrderStatus
  <2>2. /\ pc' \in [Processes -> PcValues] /\ result' \in [Processes -> Results]
        /\ queued' \in [Processes -> SUBSET RefundJobs]
    BY <1>8 DEF WriteOrder, Goto, TypeInv, TypeOK, PcValues, Results
  <2>3. ResultFits'
    BY <1>8 DEF WriteOrder, Goto, TypeInv, TypeOK, ResultFits
  <2> QED
    BY <1>8, <2>1, <2>2, <2>3 DEF WriteOrder, TypeInv, TypeOK, StoreTypeOK, itemVars, moneyVars
<1>9. CASE CloseRead(p, o) \/ CloseWrite(p, o) \/ SettleOrder(p, o)
  BY <1>9, SettlementType DEF SettlementStep
<1> QED
  BY <1>1, <1>2, <1>3, <1>4, <1>5, <1>6, <1>7, <1>8, <1>9 DEF DeliveryStep

\* Applying a batch of orphans keeps the tables well-typed.
LEMMA OrphanType ==
  ASSUME TypeInv, NEW o \in Orders, ApplyOrphanEvents(o)
  PROVE  /\ orderStatus' \in [Orders -> OrderStatus] /\ paidAt' \in [Orders -> BOOLEAN]
         /\ toldOrder' \in [Orders -> OrderStatus] /\ ledger' \subseteq Postings
         /\ eventState' \in [Events -> EventState]
         /\ job' \in [Jobs -> {"none", "pending", "running"}]
<1>1. CASE Movers(o) = {} /\ UNCHANGED <<orderVars, ledger, job>>
           /\ eventState' = [e \in Events |->
                IF e \in OrphanEvents(o) THEN Decision(e, orderStatus[o]) ELSE eventState[e]]
  BY <1>1, DecisionType DEF orderVars, TypeInv, TypeOK, StoreTypeOK
<1>2. ASSUME NEW first \in Movers(o), Apply(first), job' = Enqueued(ApplyJobs(first)),
             eventState' = [e \in Events |->
               IF e = first THEN "applied"
               ELSE IF e \in OrphanEvents(o) THEN Decision(e, orderStatus'[o])
               ELSE eventState[e]]
      PROVE  /\ orderStatus' \in [Orders -> OrderStatus] /\ paidAt' \in [Orders -> BOOLEAN]
             /\ toldOrder' \in [Orders -> OrderStatus] /\ ledger' \subseteq Postings
             /\ eventState' \in [Events -> EventState]
             /\ job' \in [Jobs -> {"none", "pending", "running"}]
  <2>1. first \in Events
    BY DEF Movers, OrphanEvents
  <2>2. eventState' \in [Events -> EventState]
    BY <1>2, DecisionType DEF TypeInv, TypeOK, StoreTypeOK, EventState
  <2> QED
    BY <1>2, <2>1, <2>2, ApplyType, EnqueuedType DEF TypeInv, TypeOK, StoreTypeOK
<1> QED
  BY <1>1, <1>2 DEF ApplyOrphanEvents

\* Counting a claim keeps the counter within its bound.
LEMMA CountedClaim ==
  ASSUME NEW o \in Orders, tries \in [Orders -> 0 .. MaxAttempts]
  PROVE  [tries EXCEPT ![o] = IF @ = MaxAttempts THEN @ ELSE @ + 1]
           \in [Orders -> 0 .. MaxAttempts]
<1>1. tries[o] \in 0 .. MaxAttempts
  OBVIOUS
<1>2. (IF tries[o] = MaxAttempts THEN tries[o] ELSE tries[o] + 1) \in 0 .. MaxAttempts
  BY <1>1, AttemptsType
<1> QED
  BY <1>2

\* Claims, the orphan handler, the sweeper and the admin keep the types.
LEMMA WorkerType ==
  ASSUME TypeInv, NEW o \in Orders,
         \/ ClaimDelivery(o) \/ ClaimOrphans(o) \/ HandleOrphans(o)
         \/ SweepStuck(o) \/ SweepOrphans(o) \/ Redeliver(o) \/ AdminRefund(o)
  PROVE  TypeInv'
<1> USE Keys, AttemptsType, EnqueuedType
    DEF TypeInv, TypeOK, StoreTypeOK, Goto, storeVars, orderVars, itemVars, moneyVars, queueVars,
        procVars
<1>1. CASE ClaimDelivery(o)
  <2>1. tries' \in [Orders -> 0 .. MaxAttempts]
    BY <1>1, CountedClaim DEF ClaimDelivery
  <2>2. pc' \in [Processes -> PcValues] /\ job' \in [Jobs -> {"none", "pending", "running"}]
    BY <1>1 DEF ClaimDelivery, WithJob, PcValues
  <2> QED
    BY <1>1, <2>1, <2>2 DEF ClaimDelivery, ResultFits
<1>2. CASE ClaimOrphans(o)
  BY <1>2 DEF ClaimOrphans, WithJob, PcValues, ResultFits
<1>3. CASE HandleOrphans(o)
  <2>1. /\ pc' \in [Processes -> PcValues] /\ result' \in [Processes -> Results] /\ ResultFits'
    BY <1>3 DEF HandleOrphans, PcValues, Results, ResultFits
  <2> QED
    BY <1>3, <2>1, OrphanType DEF HandleOrphans
<1>4. CASE SweepStuck(o) \/ SweepOrphans(o) \/ Redeliver(o)
  BY <1>4 DEF SweepStuck, SweepOrphans, Redeliver, ResultFits
<1>5. CASE AdminRefund(o)
  BY <1>5 DEF AdminRefund, AfterRefunds, PcValues, ResultFits, OpenItems, ItemsOf
<1> QED
  BY <1>1, <1>2, <1>3, <1>4, <1>5

\* Ending or retrying a job keeps the types.
LEMMA JobType ==
  ASSUME TypeInv, NEW k \in Jobs, JobEnd(k) \/ Raise(k)
  PROVE  TypeInv'
<1> USE Keys, AttemptsType
    DEF TypeInv, TypeOK, StoreTypeOK, Goto, storeVars, orderVars, itemVars, moneyVars, queueVars
<1>1. CASE JobEnd(k)
  <2>1. tries' \in [Orders -> 0 .. MaxAttempts]
    BY <1>1 DEF JobEnd
  <2>2. job' \in [Jobs -> {"none", "pending", "running"}]
    BY <1>1 DEF JobEnd, WithJob, AfterOutcome
  <2> QED
    BY <1>1, <2>1, <2>2 DEF JobEnd, PcValues, Results, ResultFits
<1>2. CASE Raise(k)
  BY <1>2 DEF Raise, PcValues, Results, ResultFits
<1> QED
  BY <1>1, <1>2

\* The death of a process keeps the types.
LEMMA CrashType ==
  ASSUME TypeInv, NEW p \in Processes, Crash(p)
  PROVE  TypeInv'
BY DEF Crash, PcValues, Results, ResultFits, TypeInv, TypeOK, StoreTypeOK, Goto, storeVars,
       orderVars, itemVars, moneyVars, queueVars

\* Claiming a refund job keeps the types.
LEMMA ClaimRefundType ==
  ASSUME TypeInv, NEW i \in Items, ClaimRefund(i)
  PROVE  TypeInv'
BY Keys DEF ClaimRefund, WithJob, PcValues, ResultFits, TypeInv, TypeOK, StoreTypeOK, Goto,
            storeVars, orderVars, itemVars, moneyVars

\* Every step keeps the types.
LEMMA NextType == TypeInv /\ [Next]_vars => TypeInv'
<1> SUFFICES ASSUME TypeInv, [Next]_vars PROVE TypeInv'
  OBVIOUS
<1>1. CASE UNCHANGED vars
  BY <1>1 DEF vars, TypeInv, TypeOK, StoreTypeOK, ResultFits
<1>2. CASE ApiStep
  BY <1>2, ApiType
<1>3. ASSUME NEW o \in Orders, DeliveryStep(o) PROVE TypeInv'
  BY <1>3, DeliveryType
<1>4. ASSUME NEW o \in Orders,
             \/ ClaimDelivery(o) \/ ClaimOrphans(o) \/ HandleOrphans(o)
             \/ SweepStuck(o) \/ SweepOrphans(o) \/ Redeliver(o) \/ AdminRefund(o)
      PROVE  TypeInv'
  BY <1>4, WorkerType
<1>5. ASSUME NEW o \in Orders, SettlementStep(Admin(o), o) PROVE TypeInv'
  BY <1>5, Keys, SettlementType
<1>6. ASSUME NEW i \in Items, SettlementStep(Refund(i), OrderOf[i]) PROVE TypeInv'
  BY <1>6, Keys, SettlementType, StoreAssumption
<1>7. ASSUME NEW i \in Items, ClaimRefund(i) PROVE TypeInv'
  BY <1>7, ClaimRefundType
<1>8. ASSUME NEW k \in Jobs, JobEnd(k) \/ Raise(k) PROVE TypeInv'
  BY <1>8, JobType
<1>9. ASSUME NEW p \in Processes, Crash(p) PROVE TypeInv'
  BY <1>9, CrashType
<1> QED
  BY <1>1, <1>2, <1>3, <1>4, <1>5, <1>6, <1>7, <1>8, <1>9 DEF Next

\* Type correctness: every row and every handler's state keeps its type.
THEOREM ShopTypeOK == Spec => []TypeOK
<1>1. Spec => []TypeInv
  BY InitType, NextType, PTL DEF Spec
<1> QED
  BY <1>1, PTL DEF TypeInv

----------------------------------------------------------------------------
(* Items, codes and postings.                                               *)

\* A delivery works on items of its own order.
OwnItems == \A o \in Orders : todo[Deliver(o)] \subseteq ItemsOf(o)

\* Different orders, items and handlers have different keys.
LEMMA KeysApart ==
  /\ \A o, q \in Orders : Deliver(o) = Deliver(q) => o = q
  /\ \A o, q \in Orders : Deliver(o) # Orphans(q) /\ Deliver(o) # Admin(q)
  /\ \A o \in Orders, i \in Items : Deliver(o) # Refund(i)
  /\ \A o \in Orders : Deliver(o) \notin RefundJobs /\ Deliver(o) \notin OrphanJobs
BY DEF Deliver, Orphans, Admin, Refund, RefundJobs, OrphanJobs

----------------------------------------------------------------------------
(* The list of items a delivery has still to work through.                  *)

\* Every step leaves a delivery with items of its own order.
LEMMA OwnItemsKept ==
  ASSUME TypeInv, OwnItems, [Next]_vars
  PROVE  OwnItems'
<1> USE Keys, KeysApart DEF OwnItems, TypeInv, TypeOK
<1> SUFFICES ASSUME NEW q \in Orders PROVE todo'[Deliver(q)] \subseteq ItemsOf(q)
  BY DEF ItemsOf
<1>1. ASSUME NEW p \in Processes, NEW S, todo' = [todo EXCEPT ![p] = @ \ S]
      PROVE  todo'[Deliver(q)] \subseteq ItemsOf(q)
  BY <1>1
<1>2. ASSUME UNCHANGED todo PROVE todo'[Deliver(q)] \subseteq ItemsOf(q)
  BY <1>2
<1>3. CASE UNCHANGED vars \/ ApiStep
  BY <1>2, <1>3 DEF vars, ApiStep, procVars
<1>4. ASSUME NEW p \in Processes, NEW o \in Orders, SettlementStep(p, o) \/ SettleOrder(p, o)
      PROVE  todo'[Deliver(q)] \subseteq ItemsOf(q)
  BY <1>1, <1>2, <1>4 DEF SettlementStep, SettleOrder, RefundItem, CloseRead, CloseWrite
<1>5. ASSUME NEW o \in Orders, DeliveryStep(o)
      PROVE  todo'[Deliver(q)] \subseteq ItemsOf(q)
  <2>1. CASE StartDelivery(o)
    BY <2>1 DEF StartDelivery, OpenItems
  <2>2. CASE CaptureItem(o)
    BY <1>1, <1>2, <2>2 DEF CaptureItem
  <2>3. ASSUME NEW i, NextItem(Deliver(o), i) PROVE todo'[Deliver(q)] \subseteq ItemsOf(q)
    BY <1>1, <2>3 DEF NextItem
  <2>4. CASE ReduceOrder(o) \/ WriteOrder(o)
    BY <1>2, <2>4 DEF ReduceOrder, WriteOrder
  <2> QED
    BY <1>4, <1>5, <2>1, <2>2, <2>3, <2>4
       DEF DeliveryStep, SettlementStep, HandOver, CodeCollision, NotHandedOver, Throttled
<1>6. ASSUME NEW o \in Orders,
             \/ ClaimDelivery(o) \/ ClaimOrphans(o) \/ HandleOrphans(o)
             \/ SweepStuck(o) \/ SweepOrphans(o) \/ Redeliver(o)
      PROVE  todo'[Deliver(q)] \subseteq ItemsOf(q)
  BY <1>2, <1>6 DEF ClaimDelivery, ClaimOrphans, HandleOrphans, SweepStuck, SweepOrphans,
                    Redeliver, procVars
<1>7. ASSUME NEW o \in Orders, AdminRefund(o) PROVE todo'[Deliver(q)] \subseteq ItemsOf(q)
  BY <1>7 DEF AdminRefund
<1>8. ASSUME NEW i \in Items, ClaimRefund(i) PROVE todo'[Deliver(q)] \subseteq ItemsOf(q)
  BY <1>8 DEF ClaimRefund
<1>9. ASSUME NEW p \in Processes, JobEnd(p) \/ Raise(p) \/ Crash(p)
      PROVE  todo'[Deliver(q)] \subseteq ItemsOf(q)
  BY <1>2, <1>9 DEF JobEnd, Raise, Crash
<1> QED
  BY <1>3, <1>4, <1>5, <1>6, <1>7, <1>8, <1>9, StoreAssumption DEF Next

\* No delivery has anything to do at first.
LEMMA InitOwnItems == Init => OwnItems
BY Keys DEF Init, OwnItems
----------------------------------------------------------------------------
(* What a step may do to the items and their postings.                      *)

\* Neither a status, nor a code, nor a posting about an item changes.
ItemsSame ==
  /\ UNCHANGED <<itemStatus, issued>>
  /\ \A i \in Items : /\ Posted("delivery_settled", i)' <=> Posted("delivery_settled", i)
                      /\ Posted("refund", i)' <=> Posted("refund", i)

\* A delivery or a failure moves an open item, or confirms one that has a code.
ItemMoves(i) ==
  /\ pc[Deliver(OrderOf[i])] # "idle"
  /\ UNCHANGED <<issued, ledger>>
  /\ \/ issued[i] # NoCode /\ itemStatus' = [itemStatus EXCEPT ![i] = "delivered"]
     \/ /\ ~Closed(i)
        /\ \E st \in ItemStatus \ TerminalItem : itemStatus' = [itemStatus EXCEPT ![i] = st]

ItemHandedOver(i) ==
  /\ pc[Deliver(OrderOf[i])] # "idle"
  /\ itemStatus' = [itemStatus EXCEPT ![i] = "delivered"]
  /\ ledger' = ledger \cup {<<"delivery_settled", i>>, <<"delivery_cost", i>>}
  /\ \/ issued[i] # NoCode /\ UNCHANGED issued
     \/ \E c \in Codes : ~CodeTaken(c) /\ issued[i] = NoCode /\ issued' = [issued EXCEPT ![i] = c]

ItemRefunded(i) ==
  /\ Refundable(i)
  /\ itemStatus' = [itemStatus EXCEPT ![i] = "refunded"]
  /\ ledger' = Post("refund", i)
  /\ UNCHANGED issued

ItemEffect ==
  ItemsSame \/ \E i \in Items : ItemMoves(i) \/ ItemHandedOver(i) \/ ItemRefunded(i)

\* Postings about payments are not postings about items.
LEMMA PaymentsApart ==
  ASSUME NEW o, ledger' = Post("payment_captured", o), UNCHANGED <<itemStatus, issued>>
  PROVE  ItemsSame
BY DEF ItemsSame, Post, Posted

\* A step that leaves items, codes and postings alone is an item effect.
LEMMA SameItems ==
  ASSUME UNCHANGED <<itemStatus, issued, ledger>>
  PROVE  ItemEffect
BY DEF ItemEffect, ItemsSame, Posted

\* Phase 3 is about an item of the order that is being delivered.
LEMMA AskedOwn ==
  ASSUME TypeInv, OwnItems, NEW o \in Orders, NEW i, Asked(Deliver(o), i)
  PROVE  i \in Items /\ OrderOf[i] = o /\ pc[Deliver(OrderOf[i])] # "idle"
BY DEF Asked, OwnItems, ItemsOf

\* _fail_item never reopens a closed item.
LEMMA FailItemEffect ==
  ASSUME TypeInv, OwnItems, NEW i \in Items, pc[Deliver(OrderOf[i])] # "idle",
         NEW st \in ItemStatus \ TerminalItem, FailItem(i, st), UNCHANGED <<issued, ledger>>
  PROVE  ItemEffect
<1>1. CASE Closed(i)
  BY <1>1, SameItems DEF FailItem
<1>2. CASE ~Closed(i)
  BY <1>2 DEF FailItem, SetItem, ItemEffect, ItemMoves
<1> QED
  BY <1>1, <1>2

\* Every step of the shop has one of the item effects.
LEMMA ItemSteps ==
  ASSUME TypeInv, OwnItems, [Next]_vars
  PROVE  ItemEffect
<1> USE SameItems DEF TypeInv, TypeOK, StoreTypeOK
<1>1. CASE UNCHANGED vars
  BY <1>1 DEF vars
<1>2. ASSUME NEW e \in Events, Apply(e), UNCHANGED <<itemStatus, issued>> PROVE ItemEffect
  BY <1>2, PaymentsApart DEF Apply, ItemEffect
<1>3. CASE ApiStep
  BY <1>2, <1>3 DEF ApiStep, CreateOrder, Webhook, WebhookFindsNoOrder, WebhookKeepsOrphan,
                    itemVars, moneyVars
<1>4. ASSUME NEW p \in Processes, NEW o \in Orders, SettlementStep(p, o) \/ SettleOrder(p, o)
      PROVE  ItemEffect
  <2>1. CASE RefundItem(p)
    <3>1. PICK i \in todo[p] :
            IF Refundable(i)
            THEN /\ itemStatus' = [itemStatus EXCEPT ![i] = "refunded"]
                 /\ ledger' = Post("refund", i)
            ELSE UNCHANGED <<itemStatus, ledger>>
      BY <2>1 DEF RefundItem
    <3>2. i \in Items /\ UNCHANGED issued
      BY <2>1 DEF RefundItem
    <3> QED
      BY <3>1, <3>2 DEF ItemEffect, ItemRefunded
  <2>2. CASE CloseRead(p, o) \/ CloseWrite(p, o) \/ SettleOrder(p, o)
    BY <2>2 DEF CloseRead, CloseWrite, SettleOrder, itemVars, moneyVars
  <2> QED
    BY <1>4, <2>1, <2>2 DEF SettlementStep
<1>5. ASSUME NEW o \in Orders, DeliveryStep(o) PROVE ItemEffect
  <2> DEFINE p == Deliver(o)
  <2>1. CASE StartDelivery(o) \/ ReduceOrder(o) \/ WriteOrder(o)
    BY <2>1 DEF StartDelivery, ReduceOrder, WriteOrder, itemVars, moneyVars
  <2>2. CASE CaptureItem(o)
    <3>1. PICK i \in todo[p] :
            IF issued[i] # NoCode THEN SetItem(i, "delivered")
            ELSE IF Closed(i) \/ orderStatus[o] \in NotYetPaid THEN UNCHANGED itemStatus
            ELSE SetItem(i, "delivering")
      BY <2>2 DEF CaptureItem, itemVars
    <3>2. /\ i \in Items /\ OrderOf[i] = o /\ pc[p] # "idle"
          /\ UNCHANGED <<issued, ledger>>
      BY <2>2, Keys DEF CaptureItem, moneyVars, OwnItems, ItemsOf
    <3> QED
      BY <3>1, <3>2 DEF SetItem, ItemEffect, ItemMoves, ItemStatus, TerminalItem
  <2>3. ASSUME NEW i \in ItemsOf(o), NEW c \in Codes, HandOver(o, i, c) PROVE ItemEffect
    <3>1. i \in Items /\ pc[Deliver(OrderOf[i])] # "idle"
      BY <2>3, AskedOwn DEF HandOver
    <3> QED
      BY <2>3, <3>1 DEF HandOver, SetItem, ItemEffect, ItemHandedOver
  <2>4. ASSUME NEW i \in ItemsOf(o), NEW c \in Codes, CodeCollision(o, i, c) PROVE ItemEffect
    <3>1. i \in Items /\ pc[Deliver(OrderOf[i])] # "idle"
      BY <2>4, AskedOwn DEF CodeCollision
    <3>2. "delivery_failed" \in ItemStatus \ TerminalItem
      BY DEF ItemStatus, TerminalItem
    <3> QED
      BY <2>4, <3>1, <3>2, FailItemEffect DEF CodeCollision, moneyVars
  <2>5. ASSUME NEW i \in ItemsOf(o), NEW kind \in Outcomes \cap DOMAIN StatusOnFailure,
               NotHandedOver(o, i, kind)
        PROVE  ItemEffect
    <3>1. i \in Items /\ pc[Deliver(OrderOf[i])] # "idle"
      BY <2>5, AskedOwn DEF NotHandedOver
    <3>2. StatusOnFailure[kind] \in ItemStatus \ TerminalItem
      BY DEF ItemStatus, TerminalItem, StatusOnFailure
    <3> QED
      BY <2>5, <3>1, <3>2, FailItemEffect DEF NotHandedOver, moneyVars
  <2>6. ASSUME NEW i \in ItemsOf(o), Throttled(o, i) PROVE ItemEffect
    <3>1. i \in Items /\ pc[Deliver(OrderOf[i])] # "idle"
      BY <2>6, AskedOwn DEF Throttled
    <3>2. "pending" \in ItemStatus \ TerminalItem
      BY DEF ItemStatus, TerminalItem
    <3> QED
      BY <2>6, <3>1, <3>2 DEF Throttled, ItemEffect, ItemMoves, moneyVars
  <2> QED
    BY <1>4, <1>5, <2>1, <2>2, <2>3, <2>4, <2>5, <2>6, Keys DEF DeliveryStep, SettlementStep
<1>6. ASSUME NEW o \in Orders, HandleOrphans(o) PROVE ItemEffect
  <2>1. ASSUME ApplyOrphanEvents(o), UNCHANGED <<itemStatus, issued>> PROVE ItemEffect
    BY <1>2, <2>1 DEF ApplyOrphanEvents, Movers, OrphanEvents
  <2> QED
    BY <1>6, <2>1 DEF HandleOrphans, itemVars
<1>7. CASE UNCHANGED storeVars
  BY <1>7 DEF storeVars, itemVars, moneyVars
<1>8. ASSUME NEW o \in Orders,
             \/ ClaimDelivery(o) \/ ClaimOrphans(o) \/ SweepStuck(o) \/ SweepOrphans(o)
             \/ Redeliver(o) \/ AdminRefund(o)
      PROVE  ItemEffect
  BY <1>7, <1>8 DEF ClaimDelivery, ClaimOrphans, SweepStuck, SweepOrphans, Redeliver, AdminRefund
<1>9. ASSUME NEW p, ClaimRefund(p) \/ JobEnd(p) \/ Raise(p) \/ Crash(p) PROVE ItemEffect
  BY <1>7, <1>9 DEF ClaimRefund, JobEnd, Raise, Crash
<1> QED
  BY <1>1, <1>3, <1>4, <1>5, <1>6, <1>8, <1>9, Keys, StoreAssumption DEF Next

----------------------------------------------------------------------------
(* Items, codes and postings agree.                                         *)

\* The item effects keep items, codes and postings in step.
LEMMA BooksKept ==
  ASSUME TypeInv, BooksMatchItems, ItemEffect
  PROVE  BooksMatchItems'
<1> USE DEF TypeInv, TypeOK, StoreTypeOK, Posted, Closed, TerminalItem
<1>1. CASE ItemsSame
  BY <1>1 DEF BooksMatchItems, ItemsSame
<1>2. ASSUME NEW i \in Items, ItemMoves(i) PROVE BooksMatchItems'
  <2>1. issued' = issued /\ ledger' = ledger /\ itemStatus' \in [Items -> ItemStatus \cup {"delivered"}]
    BY <1>2 DEF ItemMoves
  <2>2. \A j \in Items : itemStatus'[j] = itemStatus[j] \/ j = i
    BY <1>2 DEF ItemMoves
  <2>3. \/ issued[i] # NoCode /\ itemStatus'[i] = "delivered"
        \/ itemStatus[i] \notin TerminalItem /\ itemStatus'[i] \notin TerminalItem
    BY <1>2 DEF ItemMoves
  <2> QED
    BY <2>1, <2>2, <2>3 DEF BooksMatchItems
<1>3. ASSUME NEW i \in Items, ItemHandedOver(i) PROVE BooksMatchItems'
  <2> SUFFICES ASSUME NEW j \in Items
               PROVE  /\ itemStatus'[j] = "delivered" <=> issued'[j] # NoCode
                      /\ itemStatus'[j] = "delivered" <=> <<"delivery_settled", j>> \in ledger'
                      /\ itemStatus'[j] = "refunded" => <<"refund", j>> \in ledger'
                      /\ <<"refund", j>> \in ledger' => itemStatus'[j] \in TerminalItem
    BY DEF BooksMatchItems
  <2>1. <<"refund", j>> \in ledger' <=> <<"refund", j>> \in ledger
    BY <1>3 DEF ItemHandedOver
  <2>2. CASE j = i
    <3>1. issued'[j] # NoCode /\ itemStatus'[j] = "delivered" /\ <<"delivery_settled", j>> \in ledger'
      BY <1>3, <2>2, StoreAssumption DEF ItemHandedOver
    <3> QED
      BY <3>1
  <2>3. CASE j # i
    <3>1. /\ itemStatus'[j] = itemStatus[j] /\ issued'[j] = issued[j]
          /\ <<"delivery_settled", j>> \in ledger' <=> <<"delivery_settled", j>> \in ledger
      BY <1>3, <2>3 DEF ItemHandedOver
    <3> QED
      BY <2>1, <3>1 DEF BooksMatchItems
  <2> QED
    BY <2>2, <2>3
<1>4. ASSUME NEW i \in Items, ItemRefunded(i) PROVE BooksMatchItems'
  BY <1>4 DEF BooksMatchItems, ItemRefunded, Refundable, Post
<1> QED
  BY <1>1, <1>2, <1>3, <1>4 DEF ItemEffect

\* The item effects never bind a code twice.
LEMMA CodesKept ==
  ASSUME TypeInv, NoCodeTwice, ItemEffect
  PROVE  NoCodeTwice'
<1> USE DEF TypeInv, TypeOK, StoreTypeOK
<1>1. CASE UNCHANGED issued
  BY <1>1 DEF NoCodeTwice
<1>2. ASSUME NEW i \in Items, NEW c \in Codes, ~CodeTaken(c), issued' = [issued EXCEPT ![i] = c]
      PROVE  NoCodeTwice'
  BY <1>2 DEF NoCodeTwice, CodeTaken
<1> QED
  BY <1>1, <1>2 DEF ItemEffect, ItemsSame, ItemMoves, ItemHandedOver, ItemRefunded

\* The empty tables are in step.
LEMMA InitBooks == Init => BooksMatchItems /\ NoCodeTwice
BY DEF Init, StoreInit, BooksMatchItems, NoCodeTwice, Posted, Closed, TerminalItem

ItemInv == TypeInv /\ OwnItems /\ BooksMatchItems /\ NoCodeTwice

\* The invariant of the items holds in every reachable state.
LEMMA ItemInvHolds == Spec => []ItemInv
<1>1. Init => ItemInv
  BY InitType, InitOwnItems, InitBooks DEF ItemInv
<1>2. ItemInv /\ [Next]_vars => ItemInv'
  BY NextType, OwnItemsKept, ItemSteps, BooksKept, CodesKept DEF ItemInv
<1> QED
  BY <1>1, <1>2, PTL DEF Spec

\* However many deliveries, refunds, retries and crashes interleave, an item's
\* status, its code and its postings agree.
THEOREM ShopBooksMatchItems == Spec => []BooksMatchItems
BY ItemInvHolds, PTL DEF ItemInv

\* No code reaches two items, whatever the suppliers hand out.
THEOREM ShopNoCodeTwice == Spec => []NoCodeTwice
BY ItemInvHolds, PTL DEF ItemInv
=============================================================================
