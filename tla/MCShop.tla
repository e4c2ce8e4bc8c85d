------------------------------- MODULE MCShop -------------------------------
(* Small instances of the shop for TLC. *)
EXTENDS Shop

CONSTANT o1

OneOrder == [i \in Items |-> o1]     \* a basket of items

Notification(o, st, exact, at) ==
  [order |-> o, status |-> st, exact |-> exact, at |-> at]

PaidOnce  == {Notification(o1, "paid", TRUE, 1)}
PaidAndFailed == {Notification(o1, "paid", TRUE, 1), Notification(o1, "failed", TRUE, 2)}

\* A wrong amount, a failure and the payment.
ManyNotifications ==
  {Notification(o1, "paid", FALSE, 1), Notification(o1, "failed", TRUE, 2),
   Notification(o1, "paid", TRUE, 3)}
=============================================================================
