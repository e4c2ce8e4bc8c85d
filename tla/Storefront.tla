------------------------------ MODULE Storefront ------------------------------
(***************************************************************************)
(* The storefront's snapshot of stock (sku_stock) next to the suppliers'   *)
(* pools: the sync_stock job that copies the counts supplier by supplier,  *)
(* the sweeper that queues it, and the deliveries that count down between. *)
(* One SKU.  A worker that dies in the job is left out: the job would then *)
(* stay 'running', as the delivery jobs of module Shop do, and no later    *)
(* one be queued.                                                          *)
(***************************************************************************)
EXTENDS Pool

VARIABLES
  shelf,      \* sku_stock.available
  delivered,  \* requests whose key the shop has handed over
  sync,       \* the sync_stock job: "none", "pending", "ask" or "write"
  left,       \* suppliers it has still to ask
  total       \* what the others reported

shopVars == <<shelf, delivered, sync, left, total>>
vars == <<poolVars, shopVars>>

Init ==
  /\ PoolInit
  /\ shelf = 0
  /\ delivered = {}
  /\ sync = "none" /\ left = {} /\ total = 0

\* A mutation: nothing keeps the count from falling below zero.
OneLessUnclamped(n) == n - 1

\* GREATEST(available - 1, 0)
OneLess(n) == IF n > 0 THEN n - 1 ELSE 0

\* The end of deliver_item, with a code that was issued to its request.
Deliver(r) ==
  /\ r \notin delivered
  /\ \E c \in Calls : IdOf[c] = r /\ reply[c] \in Keys /\ keyOwner[reply[c]] = r
  /\ delivered' = delivered \cup {r}
  /\ shelf' = OneLess(shelf)
  /\ UNCHANGED <<poolVars, sync, left, total>>

\* Every sixth tick of the sweeper; enqueue keeps one active job.
SweepStock ==
  /\ sync = "none"
  /\ sync' = "pending"
  /\ UNCHANGED <<poolVars, shelf, delivered, left, total>>

StartSync ==
  /\ sync = "pending"
  /\ sync' = "ask"
  /\ left' = Suppliers
  /\ total' = 0
  /\ UNCHANGED <<poolVars, shelf, delivered>>

Turn(s) == sync = "ask" /\ s \in left /\ \A t \in left : s <= t

\* GET /{s}/stock, or the supplier that cannot be reached is left out.
Ask(s, count) ==
  /\ Turn(s)
  /\ total' = total + count
  /\ left' = left \ {s}
  /\ sync' = IF left = {s} THEN "write" ELSE "ask"
  /\ UNCHANGED <<poolVars, shelf, delivered>>

AskStock(s)    == Ask(s, Cardinality(Free(s)))
Unreachable(s) == Ask(s, 0)

\* A mutation: the snapshot is never raised, so that it keeps the count-downs.
SnapshotNeverUp(n) == IF n < shelf THEN n ELSE shelf

\* A supplier does not list a SKU it has no key of, so nobody writes a zero.
Snapshot(n) == IF n > 0 THEN n ELSE shelf

\* Without anything to write - of no SKU at all - the job is retried.
WriteShelf ==
  /\ sync = "write"
  /\ shelf' = Snapshot(total)
  /\ sync' \in IF total = 0 THEN {"none", "pending"} ELSE {"none"}
  /\ total' = 0
  /\ UNCHANGED <<poolVars, delivered, left>>

Next ==
  \/ PoolNext /\ UNCHANGED shopVars
  \/ \E r \in Requests : Deliver(r)
  \/ SweepStock \/ StartSync \/ WriteShelf
  \/ \E s \in Suppliers : AskStock(s) \/ Unreachable(s)

Spec == Init /\ [][Next]_vars

\* Database transactions end, the worker and the sweeper run on, and no supplier
\* is unreachable whenever it is asked.
Fairness ==
  /\ \A c \in Calls : WF_vars(ServeCall(c) /\ UNCHANGED shopVars)
  /\ WF_vars(SweepStock) /\ WF_vars(StartSync) /\ WF_vars(WriteShelf)
  /\ \A s \in Suppliers : WF_vars(AskStock(s) \/ Unreachable(s)) /\ SF_vars(AskStock(s))

FairSpec == Spec /\ Fairness

----------------------------------------------------------------------------
(* Properties.                                                              *)

TypeOK ==
  /\ PoolTypeOK
  /\ shelf \in 0 .. Cardinality(Keys)
  /\ delivered \subseteq Requests
  /\ sync \in {"none", "pending", "ask", "write"}
  /\ left \subseteq Suppliers
  /\ total \in 0 .. Cardinality(Keys)

\* No request waits for ever: equal requests wait for one another's insert, and
\* each may hold a key the other would take.  (A call is made once: while one
\* waits for ever there is no moment at which none is being served.)
CallsEnd == []<>(\A c \in Calls : pc[c] \in {"idle", "done"})

\* docs/API.md, "витринное «есть/нет»": a SKU that some supplier keeps having a
\* key of gets onto the shelf, though deliveries count down a snapshot that is
\* newer or older than their sale and a supplier may not be reachable.
GoodsReachTheShelf ==
  LET some == \E s \in Suppliers : Free(s) # {} IN some ~> shelf > 0 \/ ~some
=============================================================================
