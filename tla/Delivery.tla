------------------------------ MODULE Delivery ------------------------------
(***************************************************************************)
(* services/delivery.py: deliver_order walks the open items of an order,   *)
(* each in three phases - capture (a transaction), the supplier (no        *)
(* transaction), commit (a transaction) - and _finalize_order then sums    *)
(* them up.  What the supplier client answers is any member of Outcomes    *)
(* and, for "ok", any code: services/supplier_client.py is not modelled    *)
(* here.                                                                   *)
(***************************************************************************)
EXTENDS Settlement

CONSTANT Outcomes   \* kinds of Outcome acquire_code may return

ASSUME OutcomesAssumption ==
  Outcomes \subseteq {"ok", "throttled", "unknown", "unavailable", "out_of_stock", "failed"}

\* The statuses the two early returns of deliver_order and deliver_item test.
NotYetPaid == {"absent", "created", "payment_failed"}

\* deliver_order's transaction: skip, or list the open items and mark the order.
StartDelivery(o) ==
  LET p == Deliver(o) IN
  /\ pc[p] = "start"
  /\ IF orderStatus[o] \in NotYetPaid
     THEN /\ Goto(p, "end")
          /\ result' = [result EXCEPT ![p] = "done"]
          /\ UNCHANGED <<orderStatus, todo>>
     ELSE /\ Goto(p, "items")
          /\ todo' = [todo EXCEPT ![p] = OpenItems(o)]
          /\ orderStatus' = [orderStatus EXCEPT ![o] =
               IF @ \in NotDeliverable THEN @ ELSE "delivering"]
          /\ UNCHANGED result
  /\ UNCHANGED <<paidAt, toldOrder, itemVars, moneyVars, eventState, queueVars, queued>>

\* Item i becomes st, and the history is told.
SetItem(i, st) ==
  /\ itemStatus' = [itemStatus EXCEPT ![i] = st]
  /\ toldItem' = [toldItem EXCEPT ![i] = st]

\* A mutation: phase 1 does not look at the status the row has now.
CaptureItemStale(o) ==
  LET p == Deliver(o) IN
  /\ pc[p] = "items"
  /\ \E i \in todo[p] :
     /\ IsFirst(i, todo[p])
     /\ SetItem(i, "delivering")
     /\ attempts' = [attempts EXCEPT ![i] = IF @ = MaxAttempts + 1 THEN @ ELSE @ + 1]
     /\ Goto(p, "network")
  /\ UNCHANGED <<orderVars, moneyVars, eventState, queueVars, result, todo, queued>>

\* deliver_item, phase 1, under the item's row lock.
CaptureItem(o) ==
  LET p == Deliver(o) IN
  /\ pc[p] = "items"
  /\ \E i \in todo[p] :
     /\ IsFirst(i, todo[p])
     /\ IF issued[i] # NoCode
        THEN SetItem(i, "delivered") /\ UNCHANGED attempts
             /\ todo' = [todo EXCEPT ![p] = @ \ {i}] /\ UNCHANGED pc
        ELSE IF Closed(i) \/ orderStatus[o] \in NotYetPaid
        THEN UNCHANGED <<itemVars, pc>> /\ todo' = [todo EXCEPT ![p] = @ \ {i}]
        ELSE /\ SetItem(i, "delivering")
             /\ attempts' = [attempts EXCEPT ![i] =
                  IF @ = MaxAttempts + 1 THEN @ ELSE @ + 1]
             /\ Goto(p, "network")
             /\ UNCHANGED todo
  /\ UNCHANGED <<orderVars, moneyVars, eventState, queueVars, result, queued>>

----------------------------------------------------------------------------
(* Phase 3: one transaction per kind of outcome.  The item the supplier was *)
(* asked about is still the first of todo.                                  *)

Asked(p, i) == pc[p] = "network" /\ i \in todo[p] /\ IsFirst(i, todo[p])

\* Back to deliver_order's loop over the items.
NextItem(p, i) ==
  /\ todo' = [todo EXCEPT ![p] = @ \ {i}]
  /\ Goto(p, "items")
  /\ UNCHANGED <<orderVars, eventState, queueVars, queued>>

\* A mutation: nothing in the database keeps codes apart.
CodeTakenNever(c) == FALSE

CodeTaken(c) == \E j \in Items : issued[j] = c

\* A mutation: the delivery is not posted.
HandOverUnposted(o, i, c) ==
  LET p == Deliver(o) IN
  /\ Asked(p, i)
  /\ "ok" \in Outcomes
  /\ issued[i] # NoCode \/ ~CodeTaken(c)
  /\ issued' = [issued EXCEPT ![i] = IF @ = NoCode THEN c ELSE @]
  /\ SetItem(i, "delivered")
  /\ NextItem(p, i)
  /\ UNCHANGED <<attempts, result, ledger>>

\* "ok": the insert into issuances goes through.  _finalize_item's UPDATE asks
\* only that the item is not delivered yet.
HandOver(o, i, c) ==
  LET p == Deliver(o) IN
  /\ Asked(p, i)
  /\ "ok" \in Outcomes
  /\ issued[i] # NoCode \/ ~CodeTaken(c)
  /\ issued' = [issued EXCEPT ![i] = IF @ = NoCode THEN c ELSE @]
  /\ SetItem(i, "delivered")
  /\ ledger' = ledger \cup {<<"delivery_settled", i>>, <<"delivery_cost", i>>}
  /\ NextItem(p, i)
  /\ UNCHANGED <<attempts, result>>

\* Mutations: the WHERE clause is missing; the event is unconditional.
FailItemUnguarded(i, st) == SetItem(i, st)
FailItemTellsAlways(i, st) ==
  /\ itemStatus' = [itemStatus EXCEPT ![i] = IF Closed(i) THEN @ ELSE st]
  /\ toldItem' = [toldItem EXCEPT ![i] = st]

\* _fail_item: the status is written, and the history told, only while the
\* item is still open.
FailItem(i, st) == IF Closed(i) THEN UNCHANGED <<itemStatus, toldItem>> ELSE SetItem(i, st)

\* "ok", but the code is in issuances under another item.
CodeCollision(o, i, c) ==
  LET p == Deliver(o) IN
  /\ Asked(p, i)
  /\ "ok" \in Outcomes
  /\ issued[i] = NoCode /\ CodeTaken(c)
  /\ FailItem(i, "delivery_failed")
  /\ NextItem(p, i)
  /\ UNCHANGED <<attempts, moneyVars, result>>

\* A mutation: the outcome's kind is written as the status, unmapped.
KindAsStatus ==
  [kind \in {"unavailable", "out_of_stock", "unknown", "failed"} |-> kind]

\* The status deliver_item gives an item for each kind of failure.
StatusOnFailure ==
  [unavailable |-> "unavailable", out_of_stock |-> "out_of_stock",
   unknown |-> "delivering", failed |-> "delivery_failed"]

NotHandedOver(o, i, kind) ==
  LET p == Deliver(o) IN
  /\ Asked(p, i)
  /\ FailItem(i, StatusOnFailure[kind])
  /\ NextItem(p, i)
  /\ UNCHANGED <<attempts, moneyVars, result>>

\* "throttled": the attempt is given back, and no event is written.
Throttled(o, i) ==
  LET p == Deliver(o) IN
  /\ Asked(p, i)
  /\ "throttled" \in Outcomes
  /\ IF Closed(i) THEN UNCHANGED <<itemStatus, attempts>>
     ELSE /\ itemStatus' = [itemStatus EXCEPT ![i] = "pending"]
          /\ attempts' = [attempts EXCEPT ![i] = IF @ = 0 THEN 0 ELSE @ - 1]
  /\ result' = [result EXCEPT ![p] = "throttle"]
  /\ NextItem(p, i)
  /\ UNCHANGED <<toldItem, moneyVars>>

----------------------------------------------------------------------------
\* Items _finalize_order still sees a point in asking about.
Awaiting(o) == {i \in ItemsOf(o) : itemStatus[i] \notin {"delivered", "refunded", "unavailable"}
                                   /\ ~Exhausted(i)}

\* The status the order inherits from the worst item it is waiting for.
WorstStatus(o) ==
  LET statuses == {itemStatus[i] : i \in Awaiting(o)} IN
  IF "delivery_failed" \in statuses THEN "delivery_failed"
  ELSE IF "out_of_stock" \in statuses THEN "out_of_stock"
  ELSE "delivering"

\* _finalize_order, up to its last read: refunds are inserted, the rows read,
\* and the branch chosen.  Only the throttled branch commits here.
ReduceOrder(o) ==
  LET p == Deliver(o)
      allDelivered == \A i \in ItemsOf(o) : itemStatus[i] = "delivered"
      refunds == {k \in RefundsToSchedule(o) : job[k] = "none"}
  IN
  /\ pc[p] = "items" /\ todo[p] = {}
  /\ \/ /\ allDelivered \/ (result[p] # "throttle" /\ Awaiting(o) = {})
        /\ Goto(p, "close")
        /\ queued' = [queued EXCEPT ![p] = refunds]
        /\ UNCHANGED <<job, result>>
     \/ /\ ~allDelivered /\ result[p] = "throttle"
        /\ Goto(p, "end")
        /\ job' = Enqueued(refunds)
        /\ UNCHANGED <<result, queued>>
     \/ /\ ~allDelivered /\ result[p] # "throttle" /\ Awaiting(o) # {}
        /\ Goto(p, "write")
        /\ result' = [result EXCEPT ![p] = WorstStatus(o)]
        /\ queued' = [queued EXCEPT ![p] = refunds]
        /\ UNCHANGED job
  /\ UNCHANGED <<orderVars, itemVars, moneyVars, eventState, tries, todo>>

\* A mutation: that guard forgets partially delivered orders.
StillOpenNotPartial(o) == orderStatus[o] \notin {"delivered", "refunded", "payment_failed"}

\* The order is not written over once it is final.
StillOpen(o) == orderStatus[o] \notin NotDeliverable

\* A mutation: the event of the order is forgotten.
WriteOrderUntold(o) ==
  LET p == Deliver(o) IN
  /\ pc[p] = "write"
  /\ orderStatus' = [orderStatus EXCEPT ![o] = IF StillOpen(o) THEN result[p] ELSE @]
  /\ job' = Enqueued(queued[p])
  /\ queued' = [queued EXCEPT ![p] = {}]
  /\ IF tries[o] >= MaxAttempts
     THEN Goto(p, "give_up") /\ result' = [result EXCEPT ![p] = "none"]
     ELSE Goto(p, "end") /\ result' = [result EXCEPT ![p] = "retry"]
  /\ UNCHANGED <<paidAt, toldOrder, itemVars, moneyVars, eventState, tries, todo>>

\* The write that ends _finalize_order (the event is unconditional), and the
\* test handle_deliver makes of the job's attempts.
WriteOrder(o) ==
  LET p == Deliver(o) IN
  /\ pc[p] = "write"
  /\ orderStatus' = [orderStatus EXCEPT ![o] = IF StillOpen(o) THEN result[p] ELSE @]
  /\ toldOrder' = [toldOrder EXCEPT ![o] = result[p]]
  /\ job' = Enqueued(queued[p])
  /\ queued' = [queued EXCEPT ![p] = {}]
  /\ IF tries[o] >= MaxAttempts
     THEN Goto(p, "give_up") /\ result' = [result EXCEPT ![p] = "none"]
     ELSE Goto(p, "end") /\ result' = [result EXCEPT ![p] = "retry"]
  /\ UNCHANGED <<paidAt, itemVars, moneyVars, eventState, tries, todo>>

DeliveryStep(o) ==
  \/ StartDelivery(o)
  \/ CaptureItem(o)
  \/ \E i \in ItemsOf(o), c \in Codes : HandOver(o, i, c) \/ CodeCollision(o, i, c)
  \/ \E i \in ItemsOf(o), kind \in Outcomes \cap DOMAIN StatusOnFailure :
        NotHandedOver(o, i, kind)
  \/ \E i \in ItemsOf(o) : Throttled(o, i)
  \/ ReduceOrder(o)
  \/ WriteOrder(o)
  \/ CloseRead(Deliver(o), o)
  \/ CloseWrite(Deliver(o), o)
  \/ SettleOrder(Deliver(o), o)
=============================================================================
