------------------------------- MODULE History -------------------------------
(***************************************************************************)
(* services/history.py: what was, as a fold of the two append-only         *)
(* journals - the events of an order (services/events.py) and the postings *)
(* of the ledger - up to a moment.  now() is the start of a transaction,   *)
(* so a row is stamped with another moment than the one it becomes visible *)
(* at, and ids and stamps need not agree.  The transactions that write     *)
(* the journals are those of modules Delivery and Settlement, seen from    *)
(* one order that exists since moment 0; here they take time.  An id is    *)
(* given when the transaction commits.  Attempts have no limit here.       *)
(***************************************************************************)
EXTENDS Naturals, Sequences

CONSTANTS
  Items,       \* the positions of the order
  Closers,     \* refund jobs and admins that close items with money
  MaxClock,    \* bound: moments of the run
  MaxPasses    \* bound: runs of the delivery job

ASSUME HistoryAssumption ==
  /\ Items \subseteq Nat \ {0}
  /\ MaxClock \in Nat /\ MaxPasses \in Nat

VARIABLES
  clock,
  orderStatus,  \* the order's row
  itemStatus,   \* the items' rows
  journal,      \* order_events about the order and about each item, by id
  booked,       \* ledger_entries, one record for both legs
  open,         \* handlers with an open transaction
  since,        \* when it began; 0 if there is none
  found,        \* the order status it derived from the rows it read
  todo,         \* items the delivery job has still to visit
  phase,        \* "idle", "items", or "network": the supplier is being asked
                \* about the first of them
  passes        \* runs of the delivery job so far

rowVars == <<orderStatus, itemStatus>>
jobVars == <<todo, phase, passes>>
vars == <<clock, rowVars, journal, booked, open, since, found, jobVars>>

Handlers == {"webhook", "delivery"} \cup Closers

TheOrder == 0   \* order_events.item_id is empty
Final    == {"delivered", "partially_delivered", "refunded"}
Closed(i) == itemStatus[i] \in {"delivered", "refunded"}
AllClosed == \A i \in Items : Closed(i)
Paid      == \E p \in booked : p.kind = "payment_captured"
First     == CHOOSE i \in todo : \A j \in todo : i <= j

Init ==
  /\ clock = 0
  /\ orderStatus = "created"
  /\ itemStatus = [i \in Items |-> "pending"]
  /\ journal = [x \in Items \cup {TheOrder} |-> <<>>]
  /\ booked = {}
  /\ open = {}
  /\ since = [h \in Handlers |-> 0]
  /\ found = [h \in Handlers |-> "none"]
  /\ todo = {} /\ phase = "idle" /\ passes = 0

----------------------------------------------------------------------------
(* Transactions.                                                            *)

Tick ==
  /\ clock < MaxClock
  /\ clock' = clock + 1
  /\ UNCHANGED <<rowVars, journal, booked, open, since, found, jobVars>>

HasWork(h) ==
  CASE h = "webhook" -> orderStatus = "created"
    [] h = "delivery" -> Paid /\ (phase # "idle" \/ passes < MaxPasses)
    [] OTHER -> Paid /\ orderStatus \notin Final

Begin(h) ==
  /\ h \notin open /\ HasWork(h)
  /\ open' = open \cup {h}
  /\ since' = [since EXCEPT ![h] = clock]
  /\ UNCHANGED <<clock, rowVars, journal, booked, found, jobVars>>

Commit(h) ==
  /\ open' = open \ {h}
  /\ since' = [since EXCEPT ![h] = 0]
  /\ found' = [found EXCEPT ![h] = "none"]
  /\ UNCHANGED clock

\* An early return, or an exception: nothing is written, and the delivery job
\* starts again from its beginning.
Leave(h) ==
  /\ h \in open /\ Commit(h)
  /\ IF h = "delivery" THEN phase' = "idle" /\ todo' = {} ELSE UNCHANGED <<phase, todo>>
  /\ UNCHANGED <<rowVars, journal, booked, passes>>

\* A mutation: without the trigger, the last event of the row is rewritten.
TellOver(h, x, status) ==
  LET entry == [status |-> status, at |-> since[h]] IN
  journal' = [journal EXCEPT ![x] =
    IF @ = <<>> THEN <<entry>> ELSE [@ EXCEPT ![Len(@)].status = status]]

\* events.emit; occurred_at is the server's now().
Tell(h, x, status) ==
  journal' = [journal EXCEPT ![x] = Append(@, [status |-> status, at |-> since[h]])]

\* ledger.post
Post(h, kind, x) ==
  booked' = IF \E p \in booked : p.kind = kind /\ p.of = x THEN booked
            ELSE booked \cup {[kind |-> kind, of |-> x, at |-> since[h]]}

SetItem(h, i, status) ==
  /\ itemStatus' = [itemStatus EXCEPT ![i] = status]
  /\ Tell(h, i, status)
  /\ Commit(h)

----------------------------------------------------------------------------
(* The payment.                                                             *)

Pay(h) ==
  /\ h = "webhook" /\ h \in open
  /\ orderStatus = "created"
  /\ orderStatus' = "paid"
  /\ Post(h, "payment_captured", TheOrder)
  /\ Tell(h, TheOrder, "paid")
  /\ Commit(h)
  /\ UNCHANGED <<itemStatus, jobVars>>

PaymentFails(h) ==
  /\ h = "webhook" /\ h \in open
  /\ orderStatus = "created"
  /\ orderStatus' = "payment_failed"
  /\ Tell(h, TheOrder, "payment_failed")
  /\ Commit(h)
  /\ UNCHANGED <<itemStatus, booked, jobVars>>

----------------------------------------------------------------------------
(* The delivery job.                                                        *)

Delivering(h, at) == h = "delivery" /\ h \in open /\ phase = at

\* deliver_order's own transaction writes no event.
StartDelivery(h) ==
  /\ Delivering(h, "idle") /\ passes < MaxPasses
  /\ passes' = passes + 1
  /\ phase' = "items"
  /\ todo' = {i \in Items : ~Closed(i)}
  /\ orderStatus' = IF orderStatus \in Final THEN orderStatus ELSE "delivering"
  /\ Commit(h)
  /\ UNCHANGED <<itemStatus, journal, booked>>

\* Phase 1 of deliver_item.
CaptureItem(h) ==
  /\ Delivering(h, "items") /\ todo # {}
  /\ IF Closed(First)
     THEN /\ todo' = todo \ {First}
          /\ Commit(h)
          /\ UNCHANGED <<itemStatus, journal, phase>>
     ELSE /\ SetItem(h, First, "delivering")
          /\ phase' = "network"
          /\ UNCHANGED todo
  /\ UNCHANGED <<orderStatus, booked, passes>>

Visited ==
  /\ phase' = "items"
  /\ todo' = todo \ {First}
  /\ UNCHANGED <<orderStatus, passes>>

\* Phase 3, a code: _finalize_item asks only that the item is not delivered.
HandOver(h) ==
  /\ Delivering(h, "network") /\ Visited
  /\ SetItem(h, First, "delivered")
  /\ Post(h, "delivery_settled", First)

\* Phase 3, no code: the item stays open, unless it has been closed meanwhile.
NotHandedOver(h) ==
  /\ Delivering(h, "network") /\ Visited
  /\ IF Closed(First) THEN Commit(h) /\ UNCHANGED <<itemStatus, journal>>
     ELSE SetItem(h, First, "out_of_stock")
  /\ UNCHANGED booked

\* Phase 3, throttled: the row goes back without an event.
Throttled(h) ==
  /\ Delivering(h, "network") /\ Visited
  /\ itemStatus' = [itemStatus EXCEPT ![First] = IF Closed(First) THEN @ ELSE "pending"]
  /\ Commit(h)
  /\ UNCHANGED <<journal, booked>>

\* The items' statuses that decide the order's, the worst first.
Open == {itemStatus[i] : i \in {j \in Items : ~Closed(j)}}

\* A mutation: the order takes the status of an open item as it is.
WorstAsItIs == CHOOSE status \in Open : TRUE

Worst == IF "out_of_stock" \in Open THEN "out_of_stock" ELSE "delivering"

\* _finalize_order; the write is guarded, its event is not.
ReadOrder(h) ==
  /\ Delivering(h, "items") /\ todo = {} /\ found[h] = "none" /\ ~AllClosed
  /\ found' = [found EXCEPT ![h] = Worst]
  /\ UNCHANGED <<clock, rowVars, journal, booked, open, since, jobVars>>

WriteOrder(h) ==
  /\ found[h] \notin Final \cup {"none"}
  /\ orderStatus' = IF orderStatus \in Final THEN orderStatus ELSE found[h]
  /\ Tell(h, TheOrder, found[h])
  /\ Commit(h)
  /\ phase' = IF h = "delivery" THEN "idle" ELSE phase
  /\ UNCHANGED <<itemStatus, booked, todo, passes>>

----------------------------------------------------------------------------
(* Closing items with money, and the order.                                 *)

RefundItem(h, i) ==
  /\ h \in Closers \cap open /\ found[h] = "none"
  /\ ~Closed(i)
  /\ SetItem(h, i, "refunded")
  /\ Post(h, "refund", i)
  /\ UNCHANGED <<orderStatus, jobVars>>

ClosingStatus ==
  IF \A i \in Items : itemStatus[i] = "delivered" THEN "delivered"
  ELSE IF \A i \in Items : itemStatus[i] = "refunded" THEN "refunded"
  ELSE "partially_delivered"

\* finalize_order_in, at the end of refunds or of a delivery.
CloseRead(h) ==
  /\ h \in open /\ h # "webhook" /\ found[h] = "none" /\ AllClosed
  /\ h = "delivery" => phase = "items" /\ todo = {}
  /\ found' = [found EXCEPT ![h] = ClosingStatus]
  /\ UNCHANGED <<clock, rowVars, journal, booked, open, since, jobVars>>

CloseWrite(h) ==
  /\ found[h] \in Final
  /\ orderStatus' = found[h]
  /\ Tell(h, TheOrder, found[h])
  /\ Commit(h)
  /\ phase' = IF h = "delivery" THEN "idle" ELSE phase
  /\ UNCHANGED <<itemStatus, booked, todo, passes>>

----------------------------------------------------------------------------
Next ==
  \/ Tick
  \/ \E h \in Handlers :
       \/ Begin(h) \/ Leave(h) \/ Pay(h) \/ PaymentFails(h)
       \/ StartDelivery(h) \/ CaptureItem(h)
       \/ HandOver(h) \/ NotHandedOver(h) \/ Throttled(h)
       \/ ReadOrder(h) \/ WriteOrder(h)
       \/ CloseRead(h) \/ CloseWrite(h)
       \/ \E i \in Items : RefundItem(h, i)

Spec == Init /\ [][Next]_vars

----------------------------------------------------------------------------
(* order_as_of.                                                             *)

\* A mutation: the moment itself is not part of the slice.
UpToBefore(ts, entry) == entry.at < ts

UpTo(ts, entry) == entry.at <= ts

\* The ids of the events about x in the slice.
EventsUntil(x, ts) == {n \in DOMAIN journal[x] : UpTo(ts, journal[x][n])}

\* A mutation: the events are folded in the order of their stamps.
ToldByTime(x, ts, initially) ==
  LET ids == EventsUntil(x, ts)
      Earlier(m, n) == \/ journal[x][m].at < journal[x][n].at
                       \/ journal[x][m].at = journal[x][n].at /\ m <= n
  IN  IF ids = {} THEN initially
      ELSE journal[x][CHOOSE n \in ids : \A m \in ids : Earlier(m, n)].status

\* What the events about x say it was: the one with the highest id decides.
Told(x, ts, initially) ==
  LET ids == EventsUntil(x, ts) IN
  IF ids = {} THEN initially
  ELSE journal[x][CHOOSE n \in ids : \A m \in ids : m <= n].status

Slice(ts) ==
  [order |-> Told(TheOrder, ts, "created"),
   items |-> [i \in Items |-> Told(i, ts, "pending")],
   booked |-> {<<p.kind, p.of>> : p \in {q \in booked : UpTo(ts, q)}}]

----------------------------------------------------------------------------
(* Properties.                                                              *)

TypeOK ==
  LET OrderStatus == Final \cup {"created", "paid", "payment_failed", "delivering", "out_of_stock"}
      ItemStatus == {"pending", "delivering", "delivered", "refunded", "out_of_stock"} IN
  /\ clock \in 0 .. MaxClock
  /\ orderStatus \in OrderStatus
  /\ itemStatus \in [Items -> ItemStatus]
  /\ \A x \in DOMAIN journal : \A n \in DOMAIN journal[x] :
       LET e == journal[x][n] IN
       e.at \in 0 .. clock /\ e.status \in IF x = TheOrder THEN OrderStatus ELSE ItemStatus
  /\ \A p \in booked : p.of \in Items \cup {TheOrder} /\ p.at \in 0 .. clock
  /\ open \subseteq Handlers
  /\ since \in [Handlers -> 0 .. MaxClock]
  /\ found \in [Handlers -> OrderStatus \cup {"none"}]
  /\ todo \subseteq Items /\ phase \in {"idle", "items", "network"} /\ passes \in 0 .. MaxPasses

\* The two journals tell one story at every moment, past or present, though
\* one is folded by id and the other summed by stamp: an item is delivered in
\* a slice exactly if its delivery is among the slice's postings, and refunded
\* exactly if its refund is and no delivery.  So the code a slice shows is the
\* one its money accounts for.
SliceAgrees ==
  \A ts \in 0 .. clock, i \in Items :
    LET told == Slice(ts).items[i]
        posted(kind) == <<kind, i>> \in Slice(ts).booked
    IN  /\ told = "delivered" <=> posted("delivery_settled")
        /\ told = "refunded" <=> posted("refund") /\ ~posted("delivery_settled")

\* While no transaction is open, the slice at the present moment is what the
\* rows are - apart from the changes no event is written for (deliver_order
\* marks the order, a throttled item goes back to 'pending') and the event that
\* is written for no change (WriteOrder on a final order).
PresentIsExact ==
  LET slice == Slice(clock) IN
  open = {} =>
    /\ slice.booked = {<<p.kind, p.of>> : p \in booked}
    /\ slice.order = orderStatus \/ orderStatus \in Final \cup {"delivering"}
    /\ \A i \in Items : \/ slice.items[i] = itemStatus[i]
                        \/ itemStatus[i] = "pending" /\ slice.items[i] = "delivering"

\* The past has one answer: once every transaction begun at or before a past
\* moment has ended, the slice at it never changes again.  With PresentIsExact:
\* the slice at a moment nothing was open at is for ever what was then.
PastIsFixed ==
  [][\A ts \in 0 .. clock - 1 :
       (\A h \in open : since[h] > ts) => Slice(ts)' = Slice(ts)]_vars
=============================================================================
