----------------------------- MODULE Settlement -----------------------------
(***************************************************************************)
(* services/settlement.py: closing items with money and deriving the final *)
(* status of an order.  The same code runs in refund jobs, in the admin's  *)
(* refund endpoint and at the end of a delivery, so the steps are          *)
(* parameterised by the process p that runs them.                          *)
(***************************************************************************)
EXTENDS Store

Admin(o) == <<"admin_refund", o>>
AdminCalls == {"admin_refund"} \X Orders
Processes  == Jobs \cup AdminCalls

VARIABLES
  pc,       \* where the handler or request is; "idle" when there is none
  todo,     \* items it has still to work through, in order of position
  result,   \* the value its last step computed
  queued    \* refund jobs inserted by its open transaction

procVars == <<pc, todo, result, queued>>

PcValues == {"idle", "start", "items", "network", "reduce", "write", "give_up",
             "orphans", "refund", "close", "close_write", "end"}
Results  == OrderStatus \cup {"none", "done", "retry", "throttle", "failed"}

\* Process p moves to step s.
Goto(p, s) == pc' = [pc EXCEPT ![p] = s]

\* The item of S with the lowest position.
IsFirst(i, S) == i \in S /\ \A j \in S : i <= j

----------------------------------------------------------------------------
\* schedule_refunds: items nobody sells, or whose attempts are used up.
Exhausted(i) == attempts[i] >= MaxAttempts
RefundDue(i) ==
  \/ itemStatus[i] = "unavailable"
  \/ itemStatus[i] \in {"out_of_stock", "delivery_failed"} /\ Exhausted(i)

\* A mutation: a used-up budget is no reason to refund.
RefundsForUnsellable(o) ==
  {Refund(i) : i \in {j \in ItemsOf(o) : paidAt[o] /\ itemStatus[j] = "unavailable"}}

RefundsToSchedule(o) == {Refund(i) : i \in {j \in ItemsOf(o) : paidAt[o] /\ RefundDue(j)}}

\* settle_order: every open item of a paid order.
RefundsToSettle(o) == {Refund(i) : i \in {j \in OpenItems(o) : paidAt[o]}}

\* A mutation: the check that the code is not with the customer is missing.
RefundableDelivered(i) == itemStatus[i] # "refunded" /\ paidAt[OrderOf[i]]

\* refund_item's early returns.
Refundable(i) == ~Closed(i) /\ paidAt[OrderOf[i]]

\* Where process p goes once finalize_order_in has returned: a job ends as
\* done, an admin's request is answered.
AfterClose(p) == IF p \in Jobs THEN "end" ELSE "idle"
Answer(p)     == IF p \in Jobs THEN "done" ELSE "none"

\* A mutation: handle_refund_item forgets to call finalize_order.
AfterRefundsForgotten == "end"

\* What follows the last refund_item of a job or of an admin's request.
AfterRefunds == "close"

\* refund_item: one transaction under the item's row lock.
RefundItem(p) ==
  /\ pc[p] = "refund"
  /\ \E i \in todo[p] :
     /\ IsFirst(i, todo[p])
     /\ todo' = [todo EXCEPT ![p] = @ \ {i}]
     /\ pc' = [pc EXCEPT ![p] = IF todo[p] = {i} THEN AfterRefunds ELSE "refund"]
     /\ IF Refundable(i)
        THEN /\ itemStatus' = [itemStatus EXCEPT ![i] = "refunded"]
             /\ toldItem' = [toldItem EXCEPT ![i] = "refunded"]
             /\ ledger' = Post("refund", i)
        ELSE UNCHANGED <<itemStatus, toldItem, ledger>>
  /\ UNCHANGED <<orderVars, attempts, issued, eventState, queueVars, result, queued>>

----------------------------------------------------------------------------
\* A mutation: one closed item is enough to close the order.
SomeClosed(o) == \E i \in ItemsOf(o) : Closed(i)

\* The status finalize_order_in derives from the items' statuses.
AllClosed(o) == \A i \in ItemsOf(o) : Closed(i)
ClosingStatus(o) ==
  LET of(st) == {i \in ItemsOf(o) : itemStatus[i] = st} IN
  IF of("refunded") = {} THEN "delivered"
  ELSE IF of("delivered") = {} THEN "refunded"
  ELSE "partially_delivered"

\* finalize_order_in reads the items.  Refund jobs that the surrounding
\* transaction inserted become visible when it commits here.
CloseRead(p, o) ==
  /\ pc[p] = "close"
  /\ IF AllClosed(o)
     THEN /\ Goto(p, "close_write")
          /\ result' = [result EXCEPT ![p] = ClosingStatus(o)]
          /\ UNCHANGED <<job, queued>>
     ELSE /\ Goto(p, AfterClose(p))
          /\ result' = [result EXCEPT ![p] = Answer(p)]
          /\ job' = Enqueued(queued[p])
          /\ queued' = [queued EXCEPT ![p] = {}]
  /\ UNCHANGED <<orderVars, itemVars, moneyVars, eventState, tries, todo>>

\* finalize_order_in writes what it derived; its event is unconditional.
CloseWrite(p, o) ==
  /\ pc[p] = "close_write"
  /\ orderStatus' = [orderStatus EXCEPT ![o] = result[p]]
  /\ toldOrder' = [toldOrder EXCEPT ![o] = result[p]]
  /\ Goto(p, AfterClose(p))
  /\ result' = [result EXCEPT ![p] = Answer(p)]
  /\ job' = Enqueued(queued[p])
  /\ queued' = [queued EXCEPT ![p] = {}]
  /\ UNCHANGED <<paidAt, itemVars, moneyVars, eventState, tries, todo>>

\* settle_order, run when the delivery job has used up its own attempts.
SettleOrder(p, o) ==
  /\ pc[p] = "give_up"
  /\ job' = Enqueued(RefundsToSettle(o))
  /\ Goto(p, "end")
  /\ result' = [result EXCEPT ![p] = "failed"]
  /\ UNCHANGED <<orderVars, itemVars, moneyVars, eventState, tries, todo, queued>>
=============================================================================
