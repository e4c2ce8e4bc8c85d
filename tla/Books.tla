-------------------------------- MODULE Books --------------------------------
(***************************************************************************)
(* The amounts of the ledger (services/ledger.py) and what the             *)
(* reconciliation reports of them (services/reconciliation.py), as         *)
(* operators over the tables of the shop.  The report is the one an admin  *)
(* gets when every grace period has passed.  Postings of the supplier's    *)
(* cost move no money of the customer's and are left out, and so are the   *)
(* supplier's discrepancies.                                               *)
(***************************************************************************)
EXTENDS Shop, Integers, FiniteSetsExt

CONSTANT Price   \* order_items.amount_minor

ASSUME PriceAssumption ==
  /\ Price \in [Items -> Nat \ {0}]
  /\ IsFiniteSet(Items) /\ IsFiniteSet(Orders)

PriceOf(S) == MapThenSumSet(LAMBDA i : Price[i], S)

\* A mutation: a refund is booked against the revenue.
LegsRefundOfRevenue ==
  [payment_captured |-> [debit |-> "customer",  credit |-> "revenue"],
   delivery_settled |-> [debit |-> "delivered", credit |-> "customer"],
   refund           |-> [debit |-> "refund",    credit |-> "revenue"]]

\* The two legs of a posting.
Legs ==
  [payment_captured |-> [debit |-> "customer",  credit |-> "revenue"],
   delivery_settled |-> [debit |-> "delivered", credit |-> "customer"],
   refund           |-> [debit |-> "refund",    credit |-> "customer"]]

\* What order o has on an account: a payment is posted for the whole order,
\* the others for an item.
PostedOn(o, side, account) ==
  LET hits(kind) == Legs[kind][side] = account
      items(kind) == {i \in ItemsOf(o) : hits(kind) /\ Posted(kind, i)}
  IN  (IF hits("payment_captured") /\ Posted("payment_captured", o)
       THEN PriceOf(ItemsOf(o)) ELSE 0)
      + PriceOf(items("delivery_settled")) + PriceOf(items("refund"))

Balance(o, account) == PostedOn(o, "debit", account) - PostedOn(o, "credit", account)

Total(account) == MapThenSumSet(LAMBDA o : Balance(o, account), Orders)

----------------------------------------------------------------------------
(* GET /admin/reconciliation.                                               *)

PaidNotDelivered ==
  {o \in Orders : paidAt[o] /\ orderStatus[o] \notin FinalOrder /\ OpenItems(o) # {}}

DeliveredNotPaid == {i \in Items : issued[i] # NoCode /\ ~paidAt[OrderOf[i]]}

\* A mutation: only what the shop still owes is a mismatch.
MoneyMismatchOwed ==
  {o \in Orders : orderStatus[o] \in FinalOrder /\ Balance(o, "customer") > 0}

MoneyMismatch ==
  {o \in Orders : orderStatus[o] \in FinalOrder /\ Balance(o, "customer") # 0}

PaidMinor ==
  MapThenSumSet(LAMBDA o : PriceOf(ItemsOf(o)),
                {o \in Orders : Posted("payment_captured", o)})

\* The sum over all accounts is zero anyway: post refuses any other posting.
MoneyBalanced ==
  /\ PaidMinor = Total("delivered") + Total("refund") + Total("customer")
  /\ MoneyMismatch = {}

Healthy == PaidNotDelivered = {} /\ DeliveredNotPaid = {} /\ MoneyBalanced

----------------------------------------------------------------------------
(* Properties.                                                              *)

\* ledger.py: the customer's balance of a paid order is what neither a code nor
\* a refund has answered for; an item closed both ways counts against the shop.
DebtMatchesItems ==
  \A o \in Orders :
    LET twice == {i \in ItemsOf(o) : Posted("delivery_settled", i) /\ Posted("refund", i)} IN
    Balance(o, "customer") = IF paidAt[o] THEN PriceOf(OpenItems(o)) - PriceOf(twice) ELSE 0

\* Every paid item was answered for exactly once.
ClosedOnce(o) ==
  \A i \in ItemsOf(o) : Posted("delivery_settled", i) # Posted("refund", i)

\* The report tells the truth: when nothing works on the orders any more, it is
\* healthy exactly if each paid item was closed in one way.  An item that a
\* race closed twice, and one nobody closed, is always found; and no race makes
\* a settled order look wrong.
ReportTellsTheTruth ==
  (\A o \in Orders : Quiet(o)) => (Healthy <=> \A o \in Orders : paidAt[o] => ClosedOnce(o))
=============================================================================
