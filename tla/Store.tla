------------------------------- MODULE Store -------------------------------
(***************************************************************************)
(* The PostgreSQL tables the shop shares between its API processes and its *)
(* workers, and the statements every service writes them with: `enqueue`   *)
(* (partial unique index over active jobs), `ledger.post` (UNIQUE per      *)
(* order, item, kind) and the fold of the append-only history.             *)
(*                                                                         *)
(* An action of the modules that extend this one is one database           *)
(* transaction, or one statement of a transaction whose later statements   *)
(* can see rows another transaction has committed in between.              *)
(***************************************************************************)
EXTENDS Naturals, FiniteSets

CONSTANTS
  Orders,       \* order ids a customer may create
  Items,        \* order items, numbered so that `position` orders them
  OrderOf,      \* the order each item belongs to
  Codes,        \* codes suppliers may hand out
  NoCode,       \* "no row in issuances"
  Events,       \* payment notifications the provider may send
  MaxAttempts   \* settings.delivery_max_attempts

ASSUME StoreAssumption ==
  /\ Items \subseteq Nat
  /\ OrderOf \in [Items -> Orders]
  /\ \A o \in Orders : \E i \in Items : OrderOf[i] = o   \* no empty orders
  /\ NoCode \notin Codes
  /\ MaxAttempts \in Nat \ {0}
  /\ \A e \in Events : /\ e.order \in Orders
                       /\ e.status \in {"paid", "failed"}
                       /\ e.exact \in BOOLEAN   \* amount and currency match
                       /\ e.at \in Nat          \* event_created_at

VARIABLES
  orderStatus,  \* orders.status; "absent" before the row exists
  paidAt,       \* orders.paid_at IS NOT NULL
  itemStatus,   \* order_items.status
  attempts,     \* order_items.delivery_attempts, saturating at MaxAttempts + 1
  issued,       \* issuances: the code bound to an item
  ledger,       \* postings made: <<kind, order or item>>
  toldOrder,    \* order status the append-only history folds to
  toldItem,     \* item status the append-only history folds to
  eventState,   \* payment_events.processing_state
  job,          \* active row of jobs per <<kind, dedupe_key>>
  tries         \* jobs.attempts of a deliver_order job, saturating at MaxAttempts

moneyVars == <<issued, ledger>>
orderVars == <<orderStatus, paidAt, toldOrder>>
itemVars  == <<itemStatus, attempts, toldItem>>
queueVars == <<job, tries>>

Deliver(o) == <<"deliver_order", o>>
Orphans(o) == <<"apply_orphan_events", o>>
Refund(i)  == <<"refund_item", i>>

DeliverJobs == {"deliver_order"} \X Orders
OrphanJobs  == {"apply_orphan_events"} \X Orders
RefundJobs  == {"refund_item"} \X Items
Jobs        == DeliverJobs \cup OrphanJobs \cup RefundJobs

ItemsOf(o) == {i \in Items : OrderOf[i] = o}

FinalOrder   == {"delivered", "partially_delivered", "refunded"}
NotDeliverable == FinalOrder \cup {"payment_failed"}
OrderStatus  == NotDeliverable \cup
  {"absent", "created", "paid", "delivering", "out_of_stock", "delivery_failed"}

TerminalItem == {"delivered", "refunded"}
ItemStatus   == TerminalItem \cup
  {"pending", "delivering", "out_of_stock", "delivery_failed", "unavailable"}

Closed(i)    == itemStatus[i] \in TerminalItem
OpenItems(o) == {i \in ItemsOf(o) : ~Closed(i)}

Postings == ({"payment_captured"} \X Orders)
              \cup ({"delivery_settled", "delivery_cost", "refund"} \X Items)

EventState == {"unseen", "no order yet", "orphan", "applied", "ignored", "rejected"}

----------------------------------------------------------------------------
\* jobs.enqueue: an active row with the same key makes the insert a no-op.
Enqueued(keys) ==
  [k \in Jobs |-> IF k \in keys /\ job[k] = "none" THEN "pending" ELSE job[k]]

\* The worker's UPDATE that takes a job out of the queue or back into it.
WithJob(k, state) == [job EXCEPT ![k] = state]

\* ledger.post: a posting is made once; a repeat conflicts and does nothing.
Post(kind, key) == ledger \cup {<<kind, key>>}

Posted(kind, key) == <<kind, key>> \in ledger

StoreInit ==
  /\ orderStatus = [o \in Orders |-> "absent"]
  /\ paidAt = [o \in Orders |-> FALSE]
  /\ itemStatus = [i \in Items |-> "pending"]
  /\ attempts = [i \in Items |-> 0]
  /\ issued = [i \in Items |-> NoCode]
  /\ ledger = {}
  /\ toldOrder = [o \in Orders |-> "absent"]
  /\ toldItem = [i \in Items |-> "pending"]
  /\ eventState = [e \in Events |-> "unseen"]
  /\ job = [k \in Jobs |-> "none"]
  /\ tries = [o \in Orders |-> 0]

StoreTypeOK ==
  /\ orderStatus \in [Orders -> OrderStatus]
  /\ paidAt \in [Orders -> BOOLEAN]
  /\ itemStatus \in [Items -> ItemStatus]
  /\ attempts \in [Items -> 0 .. MaxAttempts + 1]
  /\ issued \in [Items -> Codes \cup {NoCode}]
  /\ ledger \subseteq Postings
  /\ toldOrder \in [Orders -> OrderStatus]
  /\ toldItem \in [Items -> ItemStatus]
  /\ eventState \in [Events -> EventState]
  /\ job \in [Jobs -> {"none", "pending", "running"}]
  /\ tries \in [Orders -> 0 .. MaxAttempts]
=============================================================================
