---------------------------- MODULE HistoryProofs ----------------------------
(***************************************************************************)
(* Proofs about the two journals, for orders of any number of items, any   *)
(* number of handlers that close items, and clocks and deliveries without  *)
(* bound.  Ids and stamps of events need not agree; what makes a slice     *)
(* agree with the postings nevertheless is that few events can follow the  *)
(* one that closes an item.                                                *)
(***************************************************************************)
EXTENDS History, WellFoundedInduction, TLAPS

Subjects    == Items \cup {TheOrder}
OrderStatus == Final \cup {"created", "paid", "payment_failed", "delivering", "out_of_stock"}
ItemStatus  == {"pending", "delivering", "delivered", "refunded", "out_of_stock"}
Statuses(x) == IF x = TheOrder THEN OrderStatus ELSE ItemStatus
Entry       == [status : OrderStatus \cup ItemStatus, at : Nat]
Postings    == [kind : {"payment_captured", "delivery_settled", "refund"}, of : Subjects, at : Nat]

-----------------------------------------------------------------------------
(* Sequences and numbers.                                                  *)

\* What an append does to a journal.
LEMMA Appended ==
  ASSUME NEW S, NEW s \in Seq(S), NEW e \in S
  PROVE  /\ Append(s, e) \in Seq(S)
         /\ DOMAIN s = 1 .. Len(s) /\ Len(s) \in Nat
         /\ DOMAIN Append(s, e) = 1 .. Len(s) + 1 /\ Len(Append(s, e)) = Len(s) + 1
         /\ Append(s, e)[Len(s) + 1] = e
         /\ \A n \in 1 .. Len(s) : Append(s, e)[n] = s[n]
OBVIOUS

\* Every entry of a journal is one.
LEMMA Element ==
  ASSUME NEW S, NEW s \in Seq(S), NEW n \in DOMAIN s PROVE s[n] \in S
OBVIOUS

Before == {pair \in Nat \X Nat : pair[1] < pair[2]}

\* A nonempty set of numbers has a least one.
LEMMA LeastNumber ==
  ASSUME NEW S \in SUBSET Nat, S # {}
  PROVE  \E n \in S : \A m \in S : n <= m
<1>1. IsWellFoundedOn(Before, Nat)
  BY NatLessThanWellFounded DEF OpToRel, Before
<1>2. PICK n \in S : \A m \in S : <<m, n>> \notin Before
  BY <1>1, WFMin
<1>3. \A m \in S : ~(m < n)
  BY <1>2 DEF Before
<1> QED
  BY <1>3

\* A nonempty set of ids has a greatest one.
LEMMA GreatestId ==
  ASSUME NEW n \in Nat, NEW S \in SUBSET (1 .. n), S # {}
  PROVE  \E l \in S : \A m \in S : m <= l
<1> DEFINE T == {k \in 0 .. n : n - k \in S}
<1>1. T \in SUBSET Nat /\ T # {}
  <2>1. PICK m \in S : TRUE
    OBVIOUS
  <2>2. n - m \in T
    BY <2>1
  <2>3. T \in SUBSET Nat
    OBVIOUS
  <2> QED BY <2>2, <2>3
<1>2. PICK k \in T : \A j \in T : k <= j
  <2> HIDE DEF T
  <2> QED BY <1>1, LeastNumber
<1>3. ASSUME NEW m \in S PROVE m <= n - k
  <2>1. n - m \in T
    OBVIOUS
  <2>2. k <= n - m
    BY <1>2, <2>1
  <2> QED BY <1>2, <2>2
<1> QED BY <1>2, <1>3

-----------------------------------------------------------------------------
(* Types, and who writes.                                                  *)

TypeInv ==
  /\ clock \in 0 .. MaxClock
  /\ orderStatus \in OrderStatus /\ itemStatus \in [Items -> ItemStatus]
  /\ journal \in [Subjects -> Seq(Entry)]
  /\ \A x \in Subjects : \A n \in DOMAIN journal[x] :
       journal[x][n].at <= clock /\ journal[x][n].status \in Statuses(x)
  /\ booked \subseteq Postings /\ \A p \in booked : p.at <= clock
  /\ open \subseteq Handlers
  /\ since \in [Handlers -> Nat] /\ \A h \in Handlers : since[h] <= clock
  /\ found \in [Handlers -> OrderStatus \cup {"none"}]
  /\ todo \subseteq Items /\ phase \in {"idle", "items", "network"} /\ passes \in 0 .. MaxPasses
  /\ \A h \in Handlers : found[h] # "none" => h \in open
  /\ phase = "network" => todo # {}

LEMMA FirstIsThere ==
  ASSUME TypeInv, HistoryAssumption, todo # {} PROVE First \in todo /\ First \in Items
<1>1. todo \in SUBSET Nat
  BY DEF TypeInv, HistoryAssumption
<1>2. \E i \in todo : \A j \in todo : i <= j
  BY <1>1, LeastNumber
<1> QED BY <1>2 DEF First, TypeInv

\* Handler h adds an event to one journal, and a posting to the other.
Tells(h) ==
  \/ UNCHANGED journal
  \/ \E x \in Subjects : \E status \in Statuses(x) : Tell(h, x, status)

Posts(h) ==
  \/ UNCHANGED booked
  \/ \E kind \in {"payment_captured", "delivery_settled", "refund"}, x \in Subjects :
       booked' = booked \cup {[kind |-> kind, of |-> x, at |-> since[h]]}

\* The journals are written by open transactions only.
LEMMA Writers ==
  ASSUME TypeInv, HistoryAssumption, [Next]_vars
  PROVE  UNCHANGED <<journal, booked>> \/ \E h \in open : Tells(h) /\ Posts(h)
<1> USE DEF Tells, Posts
<1>1. CASE Tick \/ UNCHANGED vars
  BY <1>1 DEF Tick, vars
<1> SUFFICES ASSUME NEW h \in Handlers,
                    \/ Begin(h) \/ Leave(h) \/ Pay(h) \/ PaymentFails(h)
                    \/ StartDelivery(h) \/ CaptureItem(h)
                    \/ HandOver(h) \/ NotHandedOver(h) \/ Throttled(h)
                    \/ ReadOrder(h) \/ WriteOrder(h)
                    \/ CloseRead(h) \/ CloseWrite(h)
                    \/ \E i \in Items : RefundItem(h, i)
             PROVE  UNCHANGED <<journal, booked>> \/ (h \in open /\ Tells(h) /\ Posts(h))
  BY <1>1 DEF Next
<1>2. CASE Begin(h) \/ Leave(h) \/ StartDelivery(h) \/ Throttled(h) \/ ReadOrder(h) \/ CloseRead(h)
  BY <1>2 DEF Begin, Leave, StartDelivery, Throttled, ReadOrder, CloseRead
<1>3. ASSUME NEW kind \in {"payment_captured", "delivery_settled", "refund"}, NEW x \in Subjects,
             Post(h, kind, x)
      PROVE  Posts(h)
  BY <1>3 DEF Post
<1>4. CASE Pay(h) \/ PaymentFails(h)
  BY <1>3, <1>4 DEF Pay, PaymentFails, Subjects, Statuses, OrderStatus
<1>5. CASE CaptureItem(h)
  <2>1. CASE UNCHANGED journal
    BY <1>5, <2>1 DEF CaptureItem
  <2>2. CASE SetItem(h, First, "delivering")
    <3>1. First \in Items
      BY <1>5, FirstIsThere DEF CaptureItem
    <3>2. Tell(h, First, "delivering") /\ "delivering" \in Statuses(First) /\ First \in Subjects
      BY <2>2, <3>1 DEF SetItem, Statuses, ItemStatus, Subjects, HistoryAssumption, TheOrder
    <3> QED BY <1>5, <3>2 DEF CaptureItem, Delivering
  <2> QED BY <1>5, <2>1, <2>2 DEF CaptureItem
<1>6. CASE HandOver(h) \/ NotHandedOver(h)
  <2>1. First \in Items
    BY <1>6, FirstIsThere DEF HandOver, NotHandedOver, Delivering, TypeInv
  <2>2. First \in Subjects /\ {"delivered", "out_of_stock"} \subseteq Statuses(First)
    BY <2>1 DEF Statuses, ItemStatus, Subjects, HistoryAssumption, TheOrder
  <2> QED BY <1>3, <1>6, <2>2 DEF HandOver, NotHandedOver, Delivering, SetItem
<1>7. CASE WriteOrder(h) \/ CloseWrite(h)
  <2>1. found[h] \in OrderStatus /\ h \in open
    BY <1>7 DEF WriteOrder, CloseWrite, TypeInv, Final
  <2>2. found[h] \in Statuses(TheOrder) /\ TheOrder \in Subjects
    BY <2>1 DEF Statuses, Subjects
  <2> QED BY <1>7, <2>1, <2>2 DEF WriteOrder, CloseWrite
<1>8. ASSUME NEW i \in Items, RefundItem(h, i) PROVE h \in open /\ Tells(h) /\ Posts(h)
  <2>1. i \in Subjects /\ "refunded" \in Statuses(i)
    BY DEF Statuses, ItemStatus, Subjects, HistoryAssumption, TheOrder
  <2> QED BY <1>3, <1>8, <2>1 DEF RefundItem, SetItem
<1> QED BY <1>2, <1>4, <1>5, <1>6, <1>7, <1>8

\* What telling an event does to the journals, entry by entry.
LEMMA TellAppends ==
  ASSUME TypeInv, NEW h \in Handlers, NEW x \in Subjects, NEW status \in Statuses(x),
         Tell(h, x, status)
  PROVE  /\ journal' \in [Subjects -> Seq(Entry)]
         /\ \A y \in Subjects : y # x => journal'[y] = journal[y]
         /\ Len(journal[x]) \in Nat /\ DOMAIN journal[x] = 1 .. Len(journal[x])
         /\ Len(journal'[x]) = Len(journal[x]) + 1
         /\ DOMAIN journal'[x] = 1 .. Len(journal[x]) + 1
         /\ journal'[x][Len(journal[x]) + 1] = [status |-> status, at |-> since[h]]
         /\ \A n \in 1 .. Len(journal[x]) : journal'[x][n] = journal[x][n]
<1> DEFINE e == [status |-> status, at |-> since[h]]
<1>1. e \in Entry
  <2>1. since[h] \in Nat
    BY DEF TypeInv
  <2> QED BY <2>1 DEF Statuses, Entry
<1>2. journal[x] \in Seq(Entry) /\ journal \in [Subjects -> Seq(Entry)]
  BY DEF TypeInv
<1>3. journal' = [journal EXCEPT ![x] = Append(journal[x], e)]
  BY DEF Tell
<1> HIDE DEF e
<1>4. /\ Append(journal[x], e) \in Seq(Entry)
      /\ DOMAIN journal[x] = 1 .. Len(journal[x]) /\ Len(journal[x]) \in Nat
      /\ DOMAIN Append(journal[x], e) = 1 .. Len(journal[x]) + 1
      /\ Len(Append(journal[x], e)) = Len(journal[x]) + 1
      /\ Append(journal[x], e)[Len(journal[x]) + 1] = e
      /\ \A n \in 1 .. Len(journal[x]) : Append(journal[x], e)[n] = journal[x][n]
  BY <1>1, <1>2, Appended
<1>5. journal' \in [Subjects -> Seq(Entry)] /\ journal'[x] = Append(journal[x], e)
  BY <1>2, <1>3, <1>4
<1>6. \A y \in Subjects : y # x => journal'[y] = journal[y]
  BY <1>2, <1>3
<1> QED BY <1>4, <1>5, <1>6 DEF e

LEMMA JournalTypes ==
  ASSUME TypeInv, HistoryAssumption, [Next]_vars
  PROVE  /\ journal' \in [Subjects -> Seq(Entry)]
         /\ \A x \in Subjects : \A n \in DOMAIN journal'[x] :
              journal'[x][n].at <= clock' /\ journal'[x][n].status \in Statuses(x)
         /\ booked' \subseteq Postings /\ \A p \in booked' : p.at <= clock'
<1>1. clock' \in Nat /\ clock \in Nat /\ clock <= clock'
  <2>1. clock' = clock \/ clock' = clock + 1
    BY DEF Next, vars, Tick, Begin, Leave, Pay, PaymentFails, StartDelivery, CaptureItem, HandOver,
       NotHandedOver, Throttled, ReadOrder, WriteOrder, RefundItem, CloseRead, CloseWrite,
       Commit, SetItem
  <2> QED BY <2>1 DEF TypeInv, HistoryAssumption
<1>2. ASSUME NEW x \in Subjects, NEW n \in DOMAIN journal[x]
      PROVE  journal[x][n].at <= clock' /\ journal[x][n].status \in Statuses(x)
  <2>1. journal[x][n].at <= clock /\ journal[x][n].status \in Statuses(x)
    BY DEF TypeInv
  <2>2. journal[x] \in Seq(Entry)
    BY DEF TypeInv
  <2>3. journal[x][n] \in Entry
    BY <2>2, Element
  <2>4. journal[x][n].at \in Nat
    BY <2>3 DEF Entry
  <2> QED BY <1>1, <2>1, <2>4
<1>3. CASE UNCHANGED <<journal, booked>>
  <2>1. \A p \in booked : p.at \in Nat /\ p.at <= clock
    BY DEF TypeInv, Postings
  <2>2. \A p \in booked' : p.at <= clock'
    BY <1>1, <1>3, <2>1
  <2>3. \A x \in Subjects : \A n \in DOMAIN journal'[x] :
          journal'[x][n].at <= clock' /\ journal'[x][n].status \in Statuses(x)
    BY <1>3, <1>2
  <2> QED BY <1>3, <2>2, <2>3 DEF TypeInv
<1>4. ASSUME NEW h \in open, Tells(h), Posts(h)
      PROVE  /\ journal' \in [Subjects -> Seq(Entry)]
             /\ \A x \in Subjects : \A n \in DOMAIN journal'[x] :
                  journal'[x][n].at <= clock' /\ journal'[x][n].status \in Statuses(x)
             /\ booked' \subseteq Postings /\ \A p \in booked' : p.at <= clock'
  <2>1. since[h] \in Nat /\ since[h] <= clock'
    BY <1>1 DEF TypeInv
  <2>2. booked' \subseteq Postings /\ \A p \in booked' : p.at <= clock'
    <3>1. \A p \in booked : p.at <= clock'
      BY <1>1 DEF TypeInv, Postings
    <3> QED BY <1>4, <2>1, <3>1 DEF Posts, TypeInv, Postings
  <2>4. CASE UNCHANGED journal
    BY <1>2, <2>2, <2>4 DEF TypeInv
  <2>5. ASSUME NEW x \in Subjects, NEW status \in Statuses(x), Tell(h, x, status)
        PROVE  /\ journal' \in [Subjects -> Seq(Entry)]
               /\ \A y \in Subjects : \A n \in DOMAIN journal'[y] :
                    journal'[y][n].at <= clock' /\ journal'[y][n].status \in Statuses(y)
    <3>1. /\ journal' \in [Subjects -> Seq(Entry)]
          /\ \A y \in Subjects : y # x => journal'[y] = journal[y]
          /\ Len(journal[x]) \in Nat /\ DOMAIN journal[x] = 1 .. Len(journal[x])
          /\ DOMAIN journal'[x] = 1 .. Len(journal[x]) + 1
          /\ journal'[x][Len(journal[x]) + 1] = [status |-> status, at |-> since[h]]
          /\ \A n \in 1 .. Len(journal[x]) : journal'[x][n] = journal[x][n]
      BY <2>5, TellAppends DEF TypeInv
    <3>2. ASSUME NEW y \in Subjects, NEW n \in DOMAIN journal'[y]
          PROVE  journal'[y][n].at <= clock' /\ journal'[y][n].status \in Statuses(y)
      <4>1. CASE y # x
        BY <1>2, <3>1, <3>2, <4>1
      <4>2. CASE y = x /\ n \in 1 .. Len(journal[x])
        <5>1. journal'[y][n] = journal[y][n] /\ n \in DOMAIN journal[y]
          BY <3>1, <4>2
        <5> QED BY <1>2, <5>1
      <4>3. CASE y = x /\ n = Len(journal[x]) + 1
        BY <2>1, <2>5, <3>1, <4>3
      <4> QED BY <3>1, <3>2, <4>1, <4>2, <4>3
    <3> QED BY <3>1, <3>2
  <2> QED BY <1>4, <2>2, <2>4, <2>5 DEF Tells
<1> QED BY <1>3, <1>4, Writers


LEMMA RowTypes ==
  ASSUME TypeInv, HistoryAssumption, NEW h \in Handlers,
         \/ Begin(h) \/ Leave(h) \/ Pay(h) \/ PaymentFails(h)
         \/ StartDelivery(h) \/ CaptureItem(h)
         \/ HandOver(h) \/ NotHandedOver(h) \/ Throttled(h)
         \/ ReadOrder(h) \/ WriteOrder(h)
         \/ CloseRead(h) \/ CloseWrite(h)
         \/ \E i \in Items : RefundItem(h, i)
  PROVE  /\ clock' = clock
         /\ orderStatus' \in OrderStatus /\ itemStatus' \in [Items -> ItemStatus]
         /\ open' \subseteq Handlers
         /\ since' \in [Handlers -> Nat] /\ \A k \in Handlers : since'[k] <= clock
         /\ found' \in [Handlers -> OrderStatus \cup {"none"}]
         /\ \A k \in Handlers : found'[k] # "none" => k \in open'
         /\ todo' \subseteq Items /\ phase' \in {"idle", "items", "network"} /\ passes' \in 0 .. MaxPasses
         /\ phase' = "network" => todo' # {}
<1>1. clock \in Nat /\ MaxPasses \in Nat
  BY DEF TypeInv, HistoryAssumption
<1>2. clock' = clock
  BY DEF Begin, Leave, Pay, PaymentFails, StartDelivery, CaptureItem, HandOver, NotHandedOver,
     Throttled, ReadOrder, WriteOrder, CloseRead, CloseWrite, RefundItem, Commit, SetItem
<1>3. \/ UNCHANGED <<open, since, found>>
      \/ Commit(h)
      \/ open' = open \cup {h} /\ since' = [since EXCEPT ![h] = clock] /\ UNCHANGED found
      \/ \E status \in OrderStatus :
           h \in open /\ found' = [found EXCEPT ![h] = status] /\ UNCHANGED <<open, since>>
  <2>1. CASE ReadOrder(h)
    <3>1. h \in open
      BY <2>1, <1>1 DEF ReadOrder, Delivering
    <3> QED BY <2>1, <3>1 DEF ReadOrder, Worst, OrderStatus
  <2>2. CASE CloseRead(h)
    BY <2>2 DEF CloseRead, ClosingStatus, OrderStatus, Final
  <2> QED BY <2>1, <2>2
      DEF Begin, Leave, Pay, PaymentFails, StartDelivery, CaptureItem, HandOver, NotHandedOver,
          Throttled, WriteOrder, CloseWrite, RefundItem, SetItem
<1>4. /\ open' \subseteq Handlers
      /\ since' \in [Handlers -> Nat] /\ \A k \in Handlers : since'[k] <= clock
      /\ found' \in [Handlers -> OrderStatus \cup {"none"}]
      /\ \A k \in Handlers : found'[k] # "none" => k \in open'
  <2>1. \A k \in Handlers : 0 <= clock /\ clock <= clock
    BY <1>1
  <2>2. CASE UNCHANGED <<open, since, found>>
    BY <2>2 DEF TypeInv
  <2>3. CASE Commit(h)
    BY <2>1, <2>3 DEF TypeInv, Commit
  <2>4. CASE open' = open \cup {h} /\ since' = [since EXCEPT ![h] = clock] /\ UNCHANGED found
    BY <1>1, <2>1, <2>4 DEF TypeInv
  <2>5. CASE \E status \in OrderStatus :
               h \in open /\ found' = [found EXCEPT ![h] = status] /\ UNCHANGED <<open, since>>
    BY <2>5 DEF TypeInv
  <2> QED BY <1>3, <2>2, <2>3, <2>4, <2>5
<1>5. orderStatus' \in OrderStatus
  <2>1. found[h] \in OrderStatus \cup {"none"}
    BY DEF TypeInv
  <2>2. orderStatus' \in {orderStatus, "paid", "payment_failed", "delivering"}
        \/ (found[h] # "none" /\ orderStatus' = found[h])
    <3>1. CASE WriteOrder(h)
      BY <3>1 DEF WriteOrder
    <3>2. CASE CloseWrite(h)
      BY <3>2 DEF CloseWrite, Final
    <3>3. CASE StartDelivery(h)
      BY <3>3 DEF StartDelivery
    <3>4. CASE HandOver(h) \/ NotHandedOver(h) \/ Throttled(h)
      BY <3>4 DEF HandOver, NotHandedOver, Throttled, Visited
    <3> QED BY <3>1, <3>2, <3>3, <3>4
            DEF Begin, Leave, Pay, PaymentFails, CaptureItem, ReadOrder, CloseRead, RefundItem, rowVars
  <2> QED BY <2>1, <2>2 DEF TypeInv, OrderStatus
<1>6. itemStatus' \in [Items -> ItemStatus]
  <2>1. UNCHANGED itemStatus \/ \E i \in Items, status \in ItemStatus :
                                  itemStatus' = [itemStatus EXCEPT ![i] = status]
    <3>1. CASE CaptureItem(h)
      BY <3>1, FirstIsThere DEF CaptureItem, SetItem, ItemStatus
    <3>2. CASE HandOver(h) \/ NotHandedOver(h) \/ Throttled(h)
      <4>1. First \in Items /\ itemStatus[First] \in ItemStatus
        BY <3>2, FirstIsThere DEF HandOver, NotHandedOver, Throttled, Delivering, TypeInv
      <4> QED BY <3>2, <4>1 DEF HandOver, NotHandedOver, Throttled, SetItem, ItemStatus
    <3> QED BY <3>1, <3>2 DEF Begin, Leave, Pay, PaymentFails, StartDelivery, ReadOrder, WriteOrder,
               CloseRead, CloseWrite, RefundItem, SetItem, ItemStatus, rowVars
  <2> QED BY <2>1 DEF TypeInv
<1>7. todo' \subseteq Items /\ phase' \in {"idle", "items", "network"} /\ (phase' = "network" => todo' # {})
  BY DEF TypeInv, Begin, Leave, Pay, PaymentFails, StartDelivery, CaptureItem, HandOver,
     NotHandedOver, Throttled, ReadOrder, WriteOrder, CloseRead, CloseWrite, RefundItem, Visited,
     Delivering, jobVars
<1>8. passes' \in 0 .. MaxPasses
  BY <1>1 DEF TypeInv, Begin, Leave, Pay, PaymentFails, StartDelivery, CaptureItem, HandOver,
     NotHandedOver, Throttled, ReadOrder, WriteOrder, CloseRead, CloseWrite, RefundItem, Visited,
     jobVars
<1> QED BY <1>2, <1>4, <1>5, <1>6, <1>7, <1>8

LEMMA TypesInit == ASSUME Init, HistoryAssumption PROVE TypeInv
<1>1. <<>> \in Seq(Entry) /\ DOMAIN <<>> = {}
  OBVIOUS
<1>2. journal \in [Subjects -> Seq(Entry)] /\ \A x \in Subjects : DOMAIN journal[x] = {}
  BY <1>1 DEF Init, Subjects
<1> QED BY <1>2 DEF Init, TypeInv, HistoryAssumption, OrderStatus, ItemStatus, Postings

LEMMA TypesKept == ASSUME TypeInv, HistoryAssumption, [Next]_vars PROVE TypeInv'
<1>1. /\ journal' \in [Subjects -> Seq(Entry)]
      /\ \A x \in Subjects : \A n \in DOMAIN journal'[x] :
           journal'[x][n].at <= clock' /\ journal'[x][n].status \in Statuses(x)
      /\ booked' \subseteq Postings /\ \A p \in booked' : p.at <= clock'
  BY JournalTypes
<1>2. CASE UNCHANGED vars
  BY <1>1, <1>2 DEF vars, rowVars, jobVars, TypeInv
<1>3. CASE Tick
  <2>1. clock' \in 0 .. MaxClock /\ clock \in Nat /\ clock <= clock'
    BY <1>3 DEF Tick, TypeInv, HistoryAssumption
  <2>2. \A h \in Handlers : since'[h] <= clock'
    BY <1>3, <2>1 DEF Tick, TypeInv
  <2> QED BY <1>1, <1>3, <2>1, <2>2 DEF Tick, rowVars, jobVars, TypeInv
<1>4. ASSUME NEW h \in Handlers,
             \/ Begin(h) \/ Leave(h) \/ Pay(h) \/ PaymentFails(h)
             \/ StartDelivery(h) \/ CaptureItem(h)
             \/ HandOver(h) \/ NotHandedOver(h) \/ Throttled(h)
             \/ ReadOrder(h) \/ WriteOrder(h)
             \/ CloseRead(h) \/ CloseWrite(h)
             \/ \E i \in Items : RefundItem(h, i)
      PROVE  TypeInv'
  <2>1. /\ clock' = clock
        /\ orderStatus' \in OrderStatus /\ itemStatus' \in [Items -> ItemStatus]
        /\ open' \subseteq Handlers
        /\ since' \in [Handlers -> Nat] /\ \A k \in Handlers : since'[k] <= clock
        /\ found' \in [Handlers -> OrderStatus \cup {"none"}]
        /\ \A k \in Handlers : found'[k] # "none" => k \in open'
        /\ todo' \subseteq Items /\ phase' \in {"idle", "items", "network"} /\ passes' \in 0 .. MaxPasses
        /\ phase' = "network" => todo' # {}
    BY <1>4, RowTypes
  <2> QED BY <1>1, <2>1 DEF TypeInv
<1> QED BY <1>2, <1>3, <1>4 DEF Next

LEMMA TypesAlways == Spec => []TypeInv
<1>1. Init => TypeInv
  BY TypesInit, HistoryAssumption
<1>2. TypeInv /\ [Next]_vars => TypeInv'
  BY TypesKept, HistoryAssumption
<1> QED BY <1>1, <1>2, PTL DEF Spec

\* Every variable has its type; an event or a posting is stamped with a past
\* moment, and an event with a status of the row it is about.
THEOREM HistoryTypeOK == Spec => []TypeOK
<1>1. ASSUME TypeInv PROVE TypeOK
  <2>1. clock \in Nat /\ clock <= MaxClock /\ MaxClock \in Nat
    BY <1>1, HistoryAssumption DEF TypeInv, HistoryAssumption
  <2>2. ASSUME NEW x \in Subjects, NEW n \in DOMAIN journal[x]
        PROVE  journal[x][n].at \in 0 .. clock /\ journal[x][n].status \in Statuses(x)
    <3>1. journal[x] \in Seq(Entry)
      BY <1>1 DEF TypeInv
    <3>2. journal[x][n] \in Entry
      BY <3>1, Element
    <3>3. journal[x][n].at \in Nat
      BY <3>2 DEF Entry
    <3>4. journal[x][n].at <= clock /\ journal[x][n].status \in Statuses(x)
      BY <1>1 DEF TypeInv
    <3> QED BY <2>1, <3>3, <3>4
  <2>3. \A p \in booked : p.of \in Subjects /\ p.at \in 0 .. clock
    BY <1>1, <2>1 DEF TypeInv, Postings
  <2>4. since \in [Handlers -> 0 .. MaxClock]
    <3>1. \A h \in Handlers : since[h] \in 0 .. MaxClock
      BY <1>1, <2>1 DEF TypeInv
    <3> QED BY <1>1, <3>1 DEF TypeInv
  <2>5. DOMAIN journal = Subjects
    BY <1>1 DEF TypeInv
  <2> QED BY <1>1, <2>2, <2>3, <2>4, <2>5
      DEF TypeInv, TypeOK, Subjects, Statuses, OrderStatus, ItemStatus
<1> QED BY <1>1, TypesAlways, PTL

-----------------------------------------------------------------------------
(* The past.                                                               *)

\* An append stamped later than a moment leaves the slice at it as it was.
LEMMA ToldStays ==
  ASSUME TypeInv, NEW h \in Handlers, NEW x \in Subjects, NEW status \in Statuses(x),
         Tell(h, x, status), NEW ts \in Nat, since[h] > ts, NEW y \in Subjects, NEW initially
  PROVE  Told(y, ts, initially)' = Told(y, ts, initially)
<1>1. /\ \A z \in Subjects : z # x => journal'[z] = journal[z]
      /\ Len(journal[x]) \in Nat /\ DOMAIN journal[x] = 1 .. Len(journal[x])
      /\ DOMAIN journal'[x] = 1 .. Len(journal[x]) + 1
      /\ journal'[x][Len(journal[x]) + 1] = [status |-> status, at |-> since[h]]
      /\ \A n \in 1 .. Len(journal[x]) : journal'[x][n] = journal[x][n]
  BY TellAppends
<1>2. CASE y # x
  <2>1. journal'[y] = journal[y]
    BY <1>1, <1>2
  <2> QED BY <2>1 DEF Told, EventsUntil, UpTo
<1>3. CASE y = x
  <2>1. EventsUntil(y, ts)' = EventsUntil(y, ts)
    <3>1. since[h] \in Nat
      BY DEF TypeInv
    <3>2. ASSUME NEW n \in DOMAIN journal'[x], journal'[x][n].at <= ts
          PROVE  n \in DOMAIN journal[x] /\ journal[x][n].at <= ts
      <4>1. n # Len(journal[x]) + 1
        BY <1>1, <3>1, <3>2
      <4>2. n \in 1 .. Len(journal[x])
        BY <1>1, <3>2, <4>1
      <4> QED BY <1>1, <3>2, <4>2
    <3>3. ASSUME NEW n \in DOMAIN journal[x], journal[x][n].at <= ts
          PROVE  n \in DOMAIN journal'[x] /\ journal'[x][n].at <= ts
      <4>1. n \in 1 .. Len(journal[x]) /\ n \in 1 .. Len(journal[x]) + 1
        BY <1>1, <3>3
      <4> QED BY <1>1, <3>3, <4>1
    <3> QED BY <1>3, <3>2, <3>3 DEF EventsUntil, UpTo
  <2>2. \A n \in EventsUntil(y, ts) : journal'[y][n] = journal[y][n]
    BY <1>1, <1>3 DEF EventsUntil
  <2>3. CASE EventsUntil(y, ts) = {}
    BY <2>1, <2>3 DEF Told
  <2>4. CASE EventsUntil(y, ts) # {}
    <3> DEFINE last == CHOOSE n \in EventsUntil(y, ts) : \A m \in EventsUntil(y, ts) : m <= n
    <3>1. last \in EventsUntil(y, ts)
      <4>1. EventsUntil(y, ts) \in SUBSET (1 .. Len(journal[x]))
        BY <1>1, <1>3 DEF EventsUntil
      <4>2. \E n \in EventsUntil(y, ts) : \A m \in EventsUntil(y, ts) : m <= n
        BY <1>1, <2>4, <4>1, GreatestId
      <4> QED BY <4>2
    <3>2. Told(y, ts, initially) = journal[y][last].status
      BY <2>4 DEF Told
    <3>3. Told(y, ts, initially)' = journal'[y][last].status
      BY <2>1, <2>4 DEF Told
    <3> QED BY <2>2, <3>1, <3>2, <3>3
  <2> QED BY <2>3, <2>4
<1> QED BY <1>2, <1>3

\* Once every transaction begun at or before a past moment has ended, the
\* slice at that moment never changes.
THEOREM HistoryPastIsFixed == Spec => PastIsFixed
<1>1. ASSUME TypeInv, [Next]_vars
      PROVE  [\A ts \in 0 .. clock - 1 :
                (\A h \in open : since[h] > ts) => Slice(ts)' = Slice(ts)]_vars
  <2> SUFFICES ASSUME NEW ts \in 0 .. clock - 1, \A h \in open : since[h] > ts
               PROVE  Slice(ts)' = Slice(ts)
    OBVIOUS
  <2>1. ts \in Nat
    BY <1>1 DEF TypeInv
  <2>2. CASE UNCHANGED <<journal, booked>>
    <3>1. \A x, initially : Told(x, ts, initially)' = Told(x, ts, initially)
      BY <2>2 DEF Told, EventsUntil, UpTo
    <3>2. {q \in booked' : UpTo(ts, q)} = {q \in booked : UpTo(ts, q)}
      BY <2>2 DEF UpTo
    <3> QED BY <3>1, <3>2 DEF Slice
  <2>3. ASSUME NEW h \in open, Tells(h), Posts(h)
        PROVE  Slice(ts)' = Slice(ts)
    <3>1. h \in Handlers /\ since[h] > ts /\ since[h] \in Nat
      BY <1>1 DEF TypeInv
    <3>2. \A y \in Subjects : \A initially \in {"created", "pending"} :
            Told(y, ts, initially)' = Told(y, ts, initially)
      <4>1. CASE UNCHANGED journal
        BY <4>1 DEF Told, EventsUntil
      <4>2. CASE \E x \in Subjects : \E status \in Statuses(x) : Tell(h, x, status)
        BY <1>1, <2>1, <3>1, <4>2, ToldStays
      <4> QED BY <2>3, <4>1, <4>2 DEF Tells
    <3>3. {q \in booked' : UpTo(ts, q)} = {q \in booked : UpTo(ts, q)}
      BY <2>1, <2>3, <3>1 DEF Posts, UpTo
    <3>4. /\ Told(TheOrder, ts, "created")' = Told(TheOrder, ts, "created")
          /\ \A i \in Items : Told(i, ts, "pending")' = Told(i, ts, "pending")
      BY <3>2 DEF Subjects
    <3> QED BY <3>3, <3>4 DEF Slice
  <2> QED BY <1>1, <2>2, <2>3, Writers, HistoryAssumption
<1> QED BY <1>1, TypesAlways, PTL DEF Spec, PastIsFixed

-----------------------------------------------------------------------------
(* The end of an item's story.                                             *)

\* What the events about x say it is now.
LastTold(x, initially) ==
  IF journal[x] = <<>> THEN initially ELSE journal[x][Len(journal[x])].status

\* Nothing is told about an item after its delivery, and after its refund at
\* most its delivery: the supplier's answer came too late.
ShortEnd(i) ==
  \A n \in DOMAIN journal[i] :
    /\ journal[i][n].status = "delivered" => n = Len(journal[i])
    /\ journal[i][n].status = "refunded" =>
         \/ n = Len(journal[i])
         \/ n + 1 = Len(journal[i]) /\ journal[i][n + 1].status = "delivered"

\* The row is what was last told, but for the throttled item.
RowIsTold(i) ==
  \/ itemStatus[i] = LastTold(i, "pending")
  \/ itemStatus[i] = "pending" /\ LastTold(i, "pending") = "delivering"

\* A posting about an item and the event of its closing have the same stamp.
Accounted(i, kind, status) ==
  \A t \in Nat : [kind |-> kind, of |-> i, at |-> t] \in booked
                 <=> \E n \in DOMAIN journal[i] : journal[i][n] = [status |-> status, at |-> t]

ItemInv(i) ==
  /\ ShortEnd(i)
  /\ RowIsTold(i)
  /\ Accounted(i, "delivery_settled", "delivered")
  /\ Accounted(i, "refund", "refunded")

\* While the supplier is asked about an item, the only thing that can happen
\* to it is a refund.
Asking == phase = "network" => itemStatus[First] \in {"delivering", "refunded"}

OrderIsTold ==
  LastTold(TheOrder, "created") = orderStatus \/ orderStatus \in Final \cup {"delivering"}

StoryInv == (\A i \in Items : ItemInv(i)) /\ Asking /\ OrderIsTold

\* The postings about item i, but for one more made with the event of a closing.
SameMoney(i) ==
  \A kind \in {"delivery_settled", "refund"}, t \in Nat :
    [kind |-> kind, of |-> i, at |-> t] \in booked' <=> [kind |-> kind, of |-> i, at |-> t] \in booked

MoneyFor(h, i, status) ==
  /\ \A t \in Nat : [kind |-> "delivery_settled", of |-> i, at |-> t] \in booked'
       <=> [kind |-> "delivery_settled", of |-> i, at |-> t] \in booked
           \/ (status = "delivered" /\ t = since[h])
  /\ \A t \in Nat : [kind |-> "refund", of |-> i, at |-> t] \in booked'
       <=> [kind |-> "refund", of |-> i, at |-> t] \in booked
           \/ (status = "refunded" /\ t = since[h])

\* A step leaves an item's story as it is, or a handler tells what it makes of
\* an item that is not delivered: its delivery, or anything if it is open.
Untold(i) ==
  /\ journal'[i] = journal[i] /\ SameMoney(i)
  /\ itemStatus'[i] = itemStatus[i] \/ (itemStatus[i] = "delivering" /\ itemStatus'[i] = "pending")

Retold(h, i, status) ==
  /\ Tell(h, i, status) /\ itemStatus'[i] = status
  /\ itemStatus[i] # "delivered" /\ (itemStatus[i] = "refunded" => status = "delivered")
  /\ MoneyFor(h, i, status)

NewStatuses == {"delivering", "out_of_stock", "delivered", "refunded"}

LEMMA EmptyJournal ==
  ASSUME TypeInv, NEW x \in Subjects
  PROVE  /\ journal[x] \in Seq(Entry)
         /\ DOMAIN journal[x] = 1 .. Len(journal[x]) /\ Len(journal[x]) \in Nat
         /\ journal[x] = <<>> <=> Len(journal[x]) = 0
<1>1. journal[x] \in Seq(Entry)
  BY DEF TypeInv
<1> QED BY <1>1

\* An item that is not delivered has no event of a delivery, and one of a
\* refund only at the end and only if it is refunded.
LEMMA OpenStory ==
  ASSUME TypeInv, NEW i \in Items, ItemInv(i), itemStatus[i] # "delivered",
         NEW n \in DOMAIN journal[i]
  PROVE  /\ journal[i][n].status # "delivered"
         /\ journal[i][n].status = "refunded" => n = Len(journal[i]) /\ itemStatus[i] = "refunded"
<1>1. /\ DOMAIN journal[i] = 1 .. Len(journal[i]) /\ Len(journal[i]) \in Nat
      /\ journal[i] = <<>> <=> Len(journal[i]) = 0
  BY EmptyJournal DEF Subjects
<1>2. LastTold(i, "pending") = journal[i][Len(journal[i])].status
  BY <1>1 DEF LastTold
<1>3. /\ itemStatus[i] = journal[i][Len(journal[i])].status
      \/ journal[i][Len(journal[i])].status = "delivering"
  BY <1>2 DEF ItemInv, RowIsTold
<1>4. /\ journal[i][n].status = "delivered" => n = Len(journal[i])
      /\ journal[i][n].status = "refunded" =>
           \/ n = Len(journal[i])
           \/ n + 1 = Len(journal[i]) /\ journal[i][n + 1].status = "delivered"
  BY DEF ItemInv, ShortEnd
<1> QED BY <1>3, <1>4

LEMMA UntoldKeeps ==
  ASSUME NEW i \in Items, ItemInv(i), Untold(i) PROVE ItemInv(i)'
<1>1. ShortEnd(i)'
  BY DEF ItemInv, ShortEnd, Untold
<1>2. RowIsTold(i)'
  <2>1. LastTold(i, "pending")' = LastTold(i, "pending")
    BY DEF Untold, LastTold
  <2> QED BY <2>1 DEF ItemInv, RowIsTold, Untold
<1>3. Accounted(i, "delivery_settled", "delivered")' /\ Accounted(i, "refund", "refunded")'
  BY DEF ItemInv, Accounted, Untold, SameMoney
<1> QED BY <1>1, <1>2, <1>3 DEF ItemInv

LEMMA RetoldKeeps ==
  ASSUME TypeInv, HistoryAssumption, NEW h \in Handlers, NEW i \in Items, NEW status \in NewStatuses,
         ItemInv(i), Retold(h, i, status)
  PROVE  ItemInv(i)'
<1> DEFINE len == Len(journal[i])
<1>1. i \in Subjects /\ status \in Statuses(i)
  BY DEF Subjects, Statuses, HistoryAssumption, TheOrder, NewStatuses, ItemStatus
<1>2. /\ journal' \in [Subjects -> Seq(Entry)]
      /\ len \in Nat /\ DOMAIN journal[i] = 1 .. len
      /\ Len(journal'[i]) = len + 1 /\ DOMAIN journal'[i] = 1 .. len + 1
      /\ journal'[i][len + 1] = [status |-> status, at |-> since[h]]
      /\ \A n \in 1 .. len : journal'[i][n] = journal[i][n]
  BY <1>1, TellAppends DEF Retold
<1>3. \A n \in 1 .. len :
        /\ journal[i][n].status # "delivered"
        /\ journal[i][n].status = "refunded" => n = len /\ itemStatus[i] = "refunded"
  BY <1>2, OpenStory DEF Retold
<1> HIDE DEF len
<1>4. ShortEnd(i)'
  <2> SUFFICES ASSUME NEW n \in 1 .. len + 1
               PROVE  /\ journal'[i][n].status = "delivered" => n = len + 1
                      /\ journal'[i][n].status = "refunded" =>
                           \/ n = len + 1
                           \/ n + 1 = len + 1 /\ journal'[i][n + 1].status = "delivered"
    BY <1>2 DEF ShortEnd
  <2>1. CASE n = len + 1
    BY <2>1
  <2>2. CASE n \in 1 .. len
    <3>1. journal'[i][n] = journal[i][n]
      BY <1>2, <2>2
    <3>2. journal[i][n].status # "delivered"
      BY <1>3, <2>2
    <3>3. ASSUME journal[i][n].status = "refunded"
          PROVE  n = len /\ status = "delivered"
      BY <1>3, <2>2, <3>3 DEF Retold
    <3>4. ASSUME n = len, status = "delivered"
          PROVE  n + 1 = len + 1 /\ journal'[i][n + 1].status = "delivered"
      BY <1>2, <3>4
    <3> QED BY <3>1, <3>2, <3>3, <3>4
  <2>3. n = len + 1 \/ n \in 1 .. len
    BY <1>2
  <2> QED BY <2>1, <2>2, <2>3
<1>5. RowIsTold(i)'
  <2>1. journal'[i] # <<>>
    <3>1. Len(journal'[i]) # 0
      BY <1>2
    <3> QED BY <3>1
  <2>2. LastTold(i, "pending")' = status
    BY <1>2, <2>1 DEF LastTold
  <2> QED BY <2>2 DEF RowIsTold, Retold
<1>6. ASSUME NEW s, NEW t \in Nat
      PROVE  (\E n \in DOMAIN journal'[i] : journal'[i][n] = [status |-> s, at |-> t])
             <=> (\E n \in DOMAIN journal[i] : journal[i][n] = [status |-> s, at |-> t])
                 \/ (status = s /\ t = since[h])
  <2>1. [status |-> status, at |-> since[h]] = [status |-> s, at |-> t]
        <=> (status = s /\ t = since[h])
    <3> DEFINE a == [status |-> status, at |-> since[h]]  b == [status |-> s, at |-> t]
    <3>1. a = b => (a.status = b.status /\ a.at = b.at)
      OBVIOUS
    <3> QED BY <3>1
  <2>2. \A n \in 1 .. len + 1 : n \in 1 .. len \/ n = len + 1
    BY <1>2
  <2>3. (1 .. len) \subseteq (1 .. len + 1) /\ len + 1 \in 1 .. len + 1
    BY <1>2
  <2> QED BY <1>2, <2>1, <2>2, <2>3
<1>7. Accounted(i, "delivery_settled", "delivered")' /\ Accounted(i, "refund", "refunded")'
  BY <1>6 DEF ItemInv, Accounted, Retold, MoneyFor
<1> QED BY <1>4, <1>5, <1>7 DEF ItemInv

-----------------------------------------------------------------------------
(* Every step tells one of these stories.                                  *)

\* A posting is new if nothing of its kind is told about the item yet.
LEMMA ClosingPosts ==
  ASSUME TypeInv, NEW h \in Handlers, NEW i \in Items, ItemInv(i), itemStatus[i] # "delivered"
  PROVE  /\ Post(h, "delivery_settled", i) => MoneyFor(h, i, "delivered")
         /\ Post(h, "refund", i) /\ itemStatus[i] # "refunded" => MoneyFor(h, i, "refunded")
<1>1. \A n \in DOMAIN journal[i] :
        /\ journal[i][n].status # "delivered"
        /\ journal[i][n].status = "refunded" => itemStatus[i] = "refunded"
  BY OpenStory
<1>2. ASSUME NEW p \in booked, p.of = i
      PROVE  p = [kind |-> p.kind, of |-> i, at |-> p.at] /\ p.at \in Nat
  BY <1>2 DEF TypeInv, Postings
<1>3. ASSUME NEW p \in booked, p.of = i PROVE p.kind # "delivery_settled"
  <2> SUFFICES ASSUME p.kind = "delivery_settled" PROVE FALSE
    OBVIOUS
  <2>1. [kind |-> "delivery_settled", of |-> i, at |-> p.at] \in booked /\ p.at \in Nat
    BY <1>2, <1>3
  <2>2. \E n \in DOMAIN journal[i] : journal[i][n] = [status |-> "delivered", at |-> p.at]
    BY <2>1 DEF ItemInv, Accounted
  <2> QED BY <1>1, <2>2
<1>4. ASSUME NEW p \in booked, p.of = i, itemStatus[i] # "refunded" PROVE p.kind # "refund"
  <2> SUFFICES ASSUME p.kind = "refund" PROVE FALSE
    OBVIOUS
  <2>1. [kind |-> "refund", of |-> i, at |-> p.at] \in booked /\ p.at \in Nat
    BY <1>2, <1>4
  <2>2. \E n \in DOMAIN journal[i] : journal[i][n] = [status |-> "refunded", at |-> p.at]
    BY <2>1 DEF ItemInv, Accounted
  <2> QED BY <1>1, <1>4, <2>2
<1>7. ASSUME NEW a, NEW b, NEW t, NEW u
      PROVE  [kind |-> a, of |-> i, at |-> t] = [kind |-> b, of |-> i, at |-> u] <=> (a = b /\ t = u)
  <2> DEFINE p == [kind |-> a, of |-> i, at |-> t]  q == [kind |-> b, of |-> i, at |-> u]
  <2>1. p = q => (p.kind = q.kind /\ p.at = q.at)
    OBVIOUS
  <2> QED BY <2>1
<1>5. ASSUME Post(h, "delivery_settled", i) PROVE MoneyFor(h, i, "delivered")
  <2>1. booked' = booked \cup {[kind |-> "delivery_settled", of |-> i, at |-> since[h]]}
    BY <1>3, <1>5 DEF Post
  <2>2. ASSUME NEW k, NEW t \in Nat
        PROVE  [kind |-> k, of |-> i, at |-> t] \in booked'
               <=> [kind |-> k, of |-> i, at |-> t] \in booked \/ (k = "delivery_settled" /\ t = since[h])
    BY <1>7, <2>1
  <2> QED BY <2>2 DEF MoneyFor
<1>6. ASSUME Post(h, "refund", i), itemStatus[i] # "refunded" PROVE MoneyFor(h, i, "refunded")
  <2>1. booked' = booked \cup {[kind |-> "refund", of |-> i, at |-> since[h]]}
    BY <1>4, <1>6 DEF Post
  <2>2. ASSUME NEW k, NEW t \in Nat
        PROVE  [kind |-> k, of |-> i, at |-> t] \in booked'
               <=> [kind |-> k, of |-> i, at |-> t] \in booked \/ (k = "refund" /\ t = since[h])
    BY <1>7, <2>1
  <2> QED BY <2>2 DEF MoneyFor
<1> QED BY <1>5, <1>6

LEMMA OtherMoney ==
  ASSUME NEW h \in Handlers, NEW i \in Items, NEW kind, NEW x, Post(h, kind, x),
         x # i \/ kind \notin {"delivery_settled", "refund"}
  PROVE  SameMoney(i)
<1> SUFFICES ASSUME NEW k \in {"delivery_settled", "refund"}, NEW t \in Nat
             PROVE  [kind |-> k, of |-> i, at |-> t] \in booked'
                    <=> [kind |-> k, of |-> i, at |-> t] \in booked
  BY DEF SameMoney
<1> DEFINE new == [kind |-> kind, of |-> x, at |-> since[h]]
           old == [kind |-> k, of |-> i, at |-> t]
<1>1. new # old
  <2>1. new = old => (new.kind = old.kind /\ new.of = old.of)
    OBVIOUS
  <2> QED BY <2>1
<1> QED BY <1>1 DEF Post

\* What is told about an item changes the story of no other.
LEMMA OtherStory ==
  ASSUME TypeInv, NEW h \in Handlers, NEW x \in Subjects, NEW status \in Statuses(x),
         Tell(h, x, status), NEW i \in Items, i # x
  PROVE  journal'[i] = journal[i]
BY TellAppends DEF Subjects

LEMMA Stories ==
  ASSUME TypeInv, StoryInv, HistoryAssumption, [Next]_vars, NEW i \in Items
  PROVE  Untold(i) \/ \E h \in Handlers : \E status \in NewStatuses : Retold(h, i, status)
<1>1. ASSUME UNCHANGED <<itemStatus, journal, booked>> PROVE Untold(i)
  BY <1>1 DEF Untold, SameMoney
<1>2. CASE UNCHANGED vars \/ Tick
  BY <1>1, <1>2 DEF vars, Tick, rowVars
<1>3. ItemInv(i) /\ i # TheOrder /\ i \in Subjects
  BY DEF StoryInv, HistoryAssumption, TheOrder, Subjects
<1> SUFFICES ASSUME NEW h \in Handlers,
                    \/ Begin(h) \/ Leave(h) \/ Pay(h) \/ PaymentFails(h)
                    \/ StartDelivery(h) \/ CaptureItem(h)
                    \/ HandOver(h) \/ NotHandedOver(h) \/ Throttled(h)
                    \/ ReadOrder(h) \/ WriteOrder(h)
                    \/ CloseRead(h) \/ CloseWrite(h)
                    \/ \E j \in Items : RefundItem(h, j)
             PROVE  Untold(i) \/ \E status \in NewStatuses : Retold(h, i, status)
  BY <1>2 DEF Next
<1>4. CASE Begin(h) \/ Leave(h) \/ StartDelivery(h) \/ ReadOrder(h) \/ CloseRead(h)
  <2>1. UNCHANGED <<itemStatus, journal, booked>>
    BY <1>4 DEF Begin, Leave, StartDelivery, ReadOrder, CloseRead, rowVars
  <2> QED BY <1>1, <2>1
<1>5. CASE Pay(h) \/ PaymentFails(h) \/ WriteOrder(h) \/ CloseWrite(h)
  <2>1. SameMoney(i)
    <3>1. CASE booked' = booked
      BY <3>1 DEF SameMoney
    <3> QED BY <1>5, <3>1, OtherMoney DEF Pay, PaymentFails, WriteOrder, CloseWrite
  <2>2. journal'[i] = journal[i]
    <3>1. TheOrder \in Subjects /\ {"paid", "payment_failed"} \subseteq Statuses(TheOrder)
      BY DEF Subjects, Statuses, OrderStatus
    <3>2. WriteOrder(h) \/ CloseWrite(h) => found[h] \in Statuses(TheOrder)
      BY DEF WriteOrder, CloseWrite, TypeInv, Statuses, Final
    <3> QED BY <1>3, <1>5, <3>1, <3>2, OtherStory DEF Pay, PaymentFails, WriteOrder, CloseWrite
  <2> QED BY <1>5, <2>1, <2>2 DEF Untold, Pay, PaymentFails, WriteOrder, CloseWrite
<1>6. ASSUME NEW j \in Items, NEW status \in NewStatuses, SetItem(h, j, status), i # j
      PROVE  journal'[i] = journal[i] /\ itemStatus'[i] = itemStatus[i]
  <2>1. j \in Subjects /\ status \in Statuses(j)
    BY DEF Subjects, Statuses, HistoryAssumption, TheOrder, NewStatuses, ItemStatus
  <2> QED BY <1>6, <2>1, OtherStory DEF SetItem, TypeInv
<1>7. ASSUME NEW status \in NewStatuses, SetItem(h, i, status)
      PROVE  Tell(h, i, status) /\ itemStatus'[i] = status
  BY <1>7 DEF SetItem, TypeInv
<1>8. ASSUME NEW status \in {"delivering", "out_of_stock"}, SetItem(h, i, status), UNCHANGED booked, ~Closed(i)
      PROVE  Retold(h, i, status)
  <2>1. MoneyFor(h, i, status)
    BY <1>8 DEF MoneyFor
  <2> QED BY <1>7, <1>8, <2>1 DEF Retold, Closed, NewStatuses
<1>9. CASE CaptureItem(h)
  <2>1. CASE UNCHANGED <<itemStatus, journal>>
    <3>1. UNCHANGED booked
      BY <1>9 DEF CaptureItem
    <3> QED BY <1>1, <2>1, <3>1
  <2>2. CASE ~Closed(First) /\ SetItem(h, First, "delivering") /\ i = First
    BY <1>8, <1>9, <2>2 DEF CaptureItem, NewStatuses
  <2>3. CASE SetItem(h, First, "delivering") /\ i # First
    <3>1. First \in Items
      BY <1>9, FirstIsThere DEF CaptureItem
    <3>2. journal'[i] = journal[i] /\ itemStatus'[i] = itemStatus[i]
      BY <1>6, <2>3, <3>1 DEF NewStatuses
    <3> QED BY <1>9, <3>2 DEF CaptureItem, Untold, SameMoney
  <2> QED BY <1>9, <2>1, <2>2, <2>3 DEF CaptureItem
<1>10. CASE HandOver(h) \/ NotHandedOver(h) \/ Throttled(h)
  <2>1. First \in Items /\ itemStatus[First] \in {"delivering", "refunded"}
    BY <1>10, FirstIsThere DEF HandOver, NotHandedOver, Throttled, Delivering, TypeInv, StoryInv, Asking
  <2>2. CASE HandOver(h) /\ i = First
    <3>1. SetItem(h, i, "delivered") /\ Post(h, "delivery_settled", i)
      BY <2>2 DEF HandOver
    <3>2. MoneyFor(h, i, "delivered")
      <4>1. itemStatus[i] # "delivered"
        BY <2>1, <2>2
      <4> QED BY <1>3, <3>1, <4>1, ClosingPosts
    <3> QED BY <1>7, <2>1, <2>2, <3>1, <3>2 DEF Retold, NewStatuses
  <2>3. CASE HandOver(h) /\ i # First
    <3>1. SetItem(h, First, "delivered") /\ Post(h, "delivery_settled", First)
      BY <2>3 DEF HandOver
    <3>2. journal'[i] = journal[i] /\ itemStatus'[i] = itemStatus[i]
      BY <1>6, <2>1, <2>3, <3>1 DEF NewStatuses
    <3> QED BY <2>3, <3>1, <3>2, OtherMoney DEF Untold
  <2>4. CASE NotHandedOver(h)
    <3>1. CASE UNCHANGED <<itemStatus, journal>>
      <4>1. UNCHANGED booked
        BY <2>4 DEF NotHandedOver
      <4> QED BY <1>1, <3>1, <4>1
    <3>2. CASE ~Closed(First) /\ SetItem(h, First, "out_of_stock") /\ i = First
      BY <1>8, <2>4, <3>2 DEF NotHandedOver, NewStatuses
    <3>3. CASE SetItem(h, First, "out_of_stock") /\ i # First
      <4>1. journal'[i] = journal[i] /\ itemStatus'[i] = itemStatus[i]
        BY <1>6, <2>1, <3>3 DEF NewStatuses
      <4> QED BY <2>4, <4>1 DEF NotHandedOver, Untold, SameMoney
    <3> QED BY <2>4, <3>1, <3>2, <3>3 DEF NotHandedOver
  <2>5. CASE Throttled(h)
    BY <2>1, <2>5 DEF Throttled, Untold, SameMoney, Closed, TypeInv
  <2> QED BY <1>10, <2>2, <2>3, <2>4, <2>5
<1>11. ASSUME NEW j \in Items, RefundItem(h, j)
       PROVE  Untold(i) \/ Retold(h, i, "refunded")
  <2>1. SetItem(h, j, "refunded") /\ Post(h, "refund", j) /\ ~Closed(j)
    BY <1>11 DEF RefundItem
  <2>2. CASE i # j
    <3>1. journal'[i] = journal[i] /\ itemStatus'[i] = itemStatus[i]
      BY <1>6, <2>1, <2>2 DEF NewStatuses
    <3> QED BY <2>1, <2>2, <3>1, OtherMoney DEF Untold
  <2>3. CASE i = j
    <3>1. itemStatus[i] # "delivered" /\ itemStatus[i] # "refunded"
      BY <2>1, <2>3 DEF Closed
    <3>2. MoneyFor(h, i, "refunded")
      BY <1>3, <2>1, <2>3, <3>1, ClosingPosts
    <3> QED BY <1>7, <2>1, <2>3, <3>1, <3>2 DEF Retold, NewStatuses
  <2> QED BY <2>2, <2>3
<1> QED BY <1>4, <1>5, <1>9, <1>10, <1>11 DEF NewStatuses

LEMMA AskingKept ==
  ASSUME TypeInv, StoryInv, HistoryAssumption, [Next]_vars PROVE Asking'
<1>1. ASSUME UNCHANGED <<itemStatus, todo, phase>> PROVE Asking'
  BY <1>1 DEF StoryInv, Asking, First
<1>2. ASSUME phase' # "network" PROVE Asking'
  BY <1>2 DEF Asking
<1>3. CASE UNCHANGED vars \/ Tick
  BY <1>1, <1>3 DEF vars, Tick, rowVars, jobVars
<1> SUFFICES ASSUME NEW h \in Handlers,
                    \/ Begin(h) \/ Leave(h) \/ Pay(h) \/ PaymentFails(h)
                    \/ StartDelivery(h) \/ CaptureItem(h)
                    \/ HandOver(h) \/ NotHandedOver(h) \/ Throttled(h)
                    \/ ReadOrder(h) \/ WriteOrder(h)
                    \/ CloseRead(h) \/ CloseWrite(h)
                    \/ \E i \in Items : RefundItem(h, i)
             PROVE  Asking'
  BY <1>3 DEF Next
<1>4. CASE Begin(h) \/ Pay(h) \/ PaymentFails(h) \/ ReadOrder(h) \/ CloseRead(h)
  <2>1. UNCHANGED <<itemStatus, todo, phase>>
    BY <1>4 DEF Begin, Pay, PaymentFails, ReadOrder, CloseRead, rowVars, jobVars
  <2> QED BY <1>1, <2>1
<1>5. CASE Leave(h) \/ WriteOrder(h) \/ CloseWrite(h)
  <2>1. phase' = "idle" \/ UNCHANGED <<itemStatus, todo, phase>>
    BY <1>5 DEF Leave, WriteOrder, CloseWrite, rowVars
  <2> QED BY <1>1, <1>2, <2>1
<1>6. CASE StartDelivery(h) \/ HandOver(h) \/ NotHandedOver(h) \/ Throttled(h)
  <2>1. phase' = "items"
    BY <1>6 DEF StartDelivery, HandOver, NotHandedOver, Throttled, Visited
  <2> QED BY <1>2, <2>1
<1>7. CASE CaptureItem(h)
  <2>1. CASE phase' = phase
    BY <1>2, <1>7, <2>1 DEF CaptureItem, Delivering
  <2>2. CASE SetItem(h, First, "delivering") /\ UNCHANGED todo
    <3>1. First' = First /\ First \in Items
      BY <1>7, <2>2, FirstIsThere DEF First, CaptureItem
    <3>2. itemStatus'[First] = "delivering"
      BY <2>2, <3>1 DEF SetItem, TypeInv
    <3> QED BY <3>1, <3>2 DEF Asking
  <2> QED BY <1>7, <2>1, <2>2 DEF CaptureItem
<1>8. ASSUME NEW i \in Items, RefundItem(h, i) PROVE Asking'
  <2> SUFFICES ASSUME phase' = "network"
               PROVE  itemStatus'[First'] \in {"delivering", "refunded"}
    BY DEF Asking
  <2>1. itemStatus' = [itemStatus EXCEPT ![i] = "refunded"] /\ First' = First /\ phase = "network"
    BY <1>8 DEF RefundItem, SetItem, First, jobVars
  <2>2. First \in Items /\ itemStatus[First] \in {"delivering", "refunded"}
    BY <2>1, FirstIsThere DEF TypeInv, StoryInv, Asking
  <2> QED BY <2>1, <2>2 DEF TypeInv
<1> QED BY <1>4, <1>5, <1>6, <1>7, <1>8

LEMMA OrderStoryKept ==
  ASSUME TypeInv, StoryInv, HistoryAssumption, [Next]_vars PROVE OrderIsTold'
<1>1. TheOrder \in Subjects
  BY DEF Subjects
<1>2. ASSUME journal'[TheOrder] = journal[TheOrder],
             orderStatus' = orderStatus \/ orderStatus' \in Final \cup {"delivering"}
      PROVE  OrderIsTold'
  <2>1. LastTold(TheOrder, "created")' = LastTold(TheOrder, "created")
    BY <1>2 DEF LastTold
  <2> QED BY <1>2, <2>1 DEF StoryInv, OrderIsTold
<1>3. ASSUME NEW h \in Handlers, NEW status \in Statuses(TheOrder), Tell(h, TheOrder, status)
      PROVE  LastTold(TheOrder, "created")' = status
  <2>1. /\ Len(journal[TheOrder]) \in Nat
        /\ Len(journal'[TheOrder]) = Len(journal[TheOrder]) + 1
        /\ journal'[TheOrder][Len(journal[TheOrder]) + 1] = [status |-> status, at |-> since[h]]
        /\ journal' \in [Subjects -> Seq(Entry)]
    BY <1>1, <1>3, TellAppends
  <2>2. journal'[TheOrder] # <<>>
    <3>1. Len(journal'[TheOrder]) # 0
      BY <2>1
    <3> QED BY <3>1
  <2> QED BY <2>1, <2>2 DEF LastTold
<1>4. ASSUME NEW h \in Handlers, NEW x \in Items, NEW status \in NewStatuses, Tell(h, x, status)
      PROVE  journal'[TheOrder] = journal[TheOrder]
  <2>1. x \in Subjects /\ status \in Statuses(x) /\ x # TheOrder
    BY DEF Subjects, Statuses, HistoryAssumption, TheOrder, NewStatuses, ItemStatus
  <2> QED BY <1>1, <1>4, <2>1, TellAppends
<1>5. CASE UNCHANGED vars \/ Tick
  BY <1>2, <1>5 DEF vars, Tick, rowVars
<1> SUFFICES ASSUME NEW h \in Handlers,
                    \/ Begin(h) \/ Leave(h) \/ Pay(h) \/ PaymentFails(h)
                    \/ StartDelivery(h) \/ CaptureItem(h)
                    \/ HandOver(h) \/ NotHandedOver(h) \/ Throttled(h)
                    \/ ReadOrder(h) \/ WriteOrder(h)
                    \/ CloseRead(h) \/ CloseWrite(h)
                    \/ \E i \in Items : RefundItem(h, i)
             PROVE  OrderIsTold'
  BY <1>5 DEF Next
<1>6. CASE Begin(h) \/ Leave(h) \/ ReadOrder(h) \/ CloseRead(h) \/ Throttled(h)
  <2>1. journal' = journal /\ orderStatus' = orderStatus
    BY <1>6 DEF Begin, Leave, ReadOrder, CloseRead, Throttled, Visited, rowVars
  <2> QED BY <1>2, <2>1
<1>7. CASE StartDelivery(h)
  BY <1>2, <1>7 DEF StartDelivery
<1>8. CASE Pay(h) \/ PaymentFails(h)
  BY <1>3, <1>8 DEF Pay, PaymentFails, OrderIsTold, Statuses, OrderStatus
<1>9. CASE WriteOrder(h) \/ CloseWrite(h)
  <2>1. found[h] \in Statuses(TheOrder) /\ Tell(h, TheOrder, found[h])
    BY <1>9 DEF WriteOrder, CloseWrite, TypeInv, Statuses, Final
  <2>2. orderStatus' \in Final \/ orderStatus' = found[h]
    BY <1>9 DEF WriteOrder, CloseWrite
  <2> QED BY <1>3, <2>1, <2>2 DEF OrderIsTold
<1>10. CASE CaptureItem(h) \/ HandOver(h) \/ NotHandedOver(h)
  <2>1. First \in Items
    BY <1>10, FirstIsThere DEF CaptureItem, HandOver, NotHandedOver, Delivering, TypeInv
  <2>2. journal'[TheOrder] = journal[TheOrder]
    BY <1>4, <1>10, <2>1 DEF CaptureItem, HandOver, NotHandedOver, SetItem, NewStatuses
  <2>3. orderStatus' = orderStatus
    BY <1>10 DEF CaptureItem, HandOver, NotHandedOver, Visited
  <2> QED BY <1>2, <2>2, <2>3
<1>11. ASSUME NEW i \in Items, RefundItem(h, i) PROVE OrderIsTold'
  BY <1>2, <1>4, <1>11 DEF RefundItem, SetItem, NewStatuses
<1> QED BY <1>6, <1>7, <1>8, <1>9, <1>10, <1>11

LEMMA StoryInit == ASSUME Init, HistoryAssumption PROVE StoryInv
<1>1. ASSUME NEW i \in Items PROVE ItemInv(i)
  <2>1. journal[i] = <<>> /\ DOMAIN journal[i] = {} /\ booked = {} /\ itemStatus[i] = "pending"
    BY DEF Init
  <2> QED BY <2>1 DEF ItemInv, ShortEnd, RowIsTold, LastTold, Accounted
<1>2. OrderIsTold
  BY DEF Init, OrderIsTold, LastTold
<1> QED BY <1>1, <1>2 DEF StoryInv, Asking, Init

LEMMA StoryKept ==
  ASSUME TypeInv, StoryInv, HistoryAssumption, [Next]_vars PROVE StoryInv'
<1>1. ASSUME NEW i \in Items PROVE ItemInv(i)'
  <2>1. ItemInv(i)
    BY DEF StoryInv
  <2>2. CASE Untold(i)
    BY <2>1, <2>2, UntoldKeeps
  <2>3. CASE \E h \in Handlers : \E status \in NewStatuses : Retold(h, i, status)
    BY <2>1, <2>3, RetoldKeeps
  <2> QED BY <2>2, <2>3, Stories
<1> QED BY <1>1, AskingKept, OrderStoryKept DEF StoryInv

LEMMA StoryAlways == Spec => [](TypeInv /\ StoryInv)
<1>1. Init => TypeInv /\ StoryInv
  BY TypesInit, StoryInit, HistoryAssumption
<1>2. TypeInv /\ StoryInv /\ [Next]_vars => (TypeInv /\ StoryInv)'
  BY TypesKept, StoryKept, HistoryAssumption
<1> QED BY <1>1, <1>2, PTL DEF Spec

-----------------------------------------------------------------------------
(* What the slices say.                                                    *)

\* The event with the highest id of the slice decides.
LEMMA ToldIsLast ==
  ASSUME TypeInv, NEW x \in Subjects, NEW ts \in Nat, NEW initially, NEW n \in EventsUntil(x, ts),
         \A m \in EventsUntil(x, ts) : m <= n
  PROVE  Told(x, ts, initially) = journal[x][n].status
<1>1. EventsUntil(x, ts) \subseteq Nat
  BY EmptyJournal DEF EventsUntil
<1> DEFINE l == CHOOSE k \in EventsUntil(x, ts) : \A m \in EventsUntil(x, ts) : m <= k
<1>2. l \in EventsUntil(x, ts) /\ \A m \in EventsUntil(x, ts) : m <= l
  OBVIOUS
<1>3. l = n
  <2>1. l <= n /\ n <= l
    BY <1>2
  <2> HIDE DEF l
  <2> QED BY <1>1, <1>2, <2>1
<1>4. EventsUntil(x, ts) # {}
  OBVIOUS
<1> QED BY <1>3, <1>4 DEF Told

LEMMA ToldByOne ==
  ASSUME TypeInv, NEW x \in Subjects, NEW ts \in Nat, NEW initially
  PROVE  \/ EventsUntil(x, ts) = {} /\ Told(x, ts, initially) = initially
         \/ \E n \in EventsUntil(x, ts) :
              /\ \A m \in EventsUntil(x, ts) : m <= n
              /\ Told(x, ts, initially) = journal[x][n].status
<1>1. CASE EventsUntil(x, ts) = {}
  BY <1>1 DEF Told
<1>2. CASE EventsUntil(x, ts) # {}
  <2>1. EventsUntil(x, ts) \in SUBSET (1 .. Len(journal[x])) /\ Len(journal[x]) \in Nat
    BY EmptyJournal DEF EventsUntil
  <2>2. PICK n \in EventsUntil(x, ts) : \A m \in EventsUntil(x, ts) : m <= n
    BY <1>2, <2>1, GreatestId
  <2> QED BY <2>2, ToldIsLast
<1> QED BY <1>1, <1>2

\* A kind of posting is in a slice exactly if the event of it is.
LEMMA PostedIsTold ==
  ASSUME TypeInv, NEW i \in Items, NEW ts \in Nat, NEW kind, NEW status, Accounted(i, kind, status)
  PROVE  <<kind, i>> \in Slice(ts).booked
         <=> \E n \in EventsUntil(i, ts) : journal[i][n].status = status
<1>1. <<kind, i>> \in Slice(ts).booked <=> \E p \in booked : p.kind = kind /\ p.of = i /\ p.at <= ts
  BY DEF Slice, UpTo
<1>2. ASSUME NEW p \in booked, p.kind = kind, p.of = i, p.at <= ts
      PROVE  \E n \in EventsUntil(i, ts) : journal[i][n].status = status
  <2>1. p = [kind |-> kind, of |-> i, at |-> p.at] /\ p.at \in Nat
    BY <1>2 DEF TypeInv, Postings
  <2>2. PICK n \in DOMAIN journal[i] : journal[i][n] = [status |-> status, at |-> p.at]
    BY <2>1 DEF Accounted
  <2> QED BY <1>2, <2>2 DEF EventsUntil, UpTo
<1>3. ASSUME NEW n \in EventsUntil(i, ts), journal[i][n].status = status
      PROVE  \E p \in booked : p.kind = kind /\ p.of = i /\ p.at <= ts
  <2>1. n \in DOMAIN journal[i] /\ journal[i][n].at <= ts
    BY DEF EventsUntil, UpTo
  <2>2. journal[i][n] \in Entry
    <3>1. journal[i] \in Seq(Entry)
      BY EmptyJournal DEF Subjects
    <3> QED BY <2>1, <3>1, Element
  <2>3. journal[i][n] = [status |-> status, at |-> journal[i][n].at] /\ journal[i][n].at \in Nat
    BY <1>3, <2>2 DEF Entry
  <2>4. [kind |-> kind, of |-> i, at |-> journal[i][n].at] \in booked
    BY <2>1, <2>3 DEF Accounted
  <2> QED BY <2>1, <2>4
<1> QED BY <1>1, <1>2, <1>3

LEMMA StoryAgrees ==
  ASSUME TypeInv, StoryInv, HistoryAssumption PROVE SliceAgrees
<1> SUFFICES ASSUME NEW ts \in 0 .. clock, NEW i \in Items
             PROVE  LET told == Slice(ts).items[i]
                        posted(kind) == <<kind, i>> \in Slice(ts).booked
                    IN  /\ told = "delivered" <=> posted("delivery_settled")
                        /\ told = "refunded" <=> posted("refund") /\ ~posted("delivery_settled")
  BY DEF SliceAgrees
<1> DEFINE told == Told(i, ts, "pending")
           last == Len(journal[i])
           Is(n, status) == n \in EventsUntil(i, ts) /\ journal[i][n].status = status
<1>1. ts \in Nat /\ i \in Subjects
  BY DEF TypeInv, HistoryAssumption, Subjects
<1>2. Slice(ts).items[i] = told
  BY DEF Slice
<1>3. /\ <<"delivery_settled", i>> \in Slice(ts).booked <=> \E n \in EventsUntil(i, ts) : Is(n, "delivered")
      /\ <<"refund", i>> \in Slice(ts).booked <=> \E n \in EventsUntil(i, ts) : Is(n, "refunded")
  <2>1. Accounted(i, "delivery_settled", "delivered") /\ Accounted(i, "refund", "refunded")
    BY DEF StoryInv, ItemInv
  <2>2. <<"delivery_settled", i>> \in Slice(ts).booked
        <=> \E n \in EventsUntil(i, ts) : journal[i][n].status = "delivered"
    BY <1>1, <2>1, PostedIsTold
  <2>3. <<"refund", i>> \in Slice(ts).booked
        <=> \E n \in EventsUntil(i, ts) : journal[i][n].status = "refunded"
    BY <1>1, <2>1, PostedIsTold
  <2> QED BY <2>2, <2>3
<1>4. EventsUntil(i, ts) \subseteq 1 .. last /\ last \in Nat
  BY <1>1, EmptyJournal DEF EventsUntil
<1>5. ASSUME NEW n \in EventsUntil(i, ts)
      PROVE  /\ Is(n, "delivered") => n = last
             /\ Is(n, "refunded") => n = last \/ (n + 1 = last /\ journal[i][last].status = "delivered")
  <2>1. n \in DOMAIN journal[i]
    BY DEF EventsUntil
  <2> QED BY <2>1 DEF StoryInv, ItemInv, ShortEnd
<1>6. told = "pending" \/ \E n \in EventsUntil(i, ts) : Is(n, told) /\ \A m \in EventsUntil(i, ts) : m <= n
  BY <1>1, ToldByOne
<1>7. ASSUME NEW n \in EventsUntil(i, ts), NEW status, Is(n, status), \A m \in EventsUntil(i, ts) : m <= n
      PROVE  told = status
  BY <1>1, <1>7, ToldIsLast
<1> HIDE DEF told
<1>8. ASSUME NEW n \in EventsUntil(i, ts), Is(n, "delivered") PROVE told = "delivered"
  <2>1. \A m \in EventsUntil(i, ts) : m <= n
    BY <1>4, <1>5, <1>8
  <2> QED BY <1>7, <1>8, <2>1
<1>9. ASSUME NEW n \in EventsUntil(i, ts), Is(n, "refunded"),
             ~ \E m \in EventsUntil(i, ts) : Is(m, "delivered")
      PROVE  told = "refunded"
  <2>1. \A m \in EventsUntil(i, ts) : m <= n
    BY <1>4, <1>5, <1>9
  <2> QED BY <1>7, <1>9, <2>1
<1>10. told = "delivered" <=> \E n \in EventsUntil(i, ts) : Is(n, "delivered")
  BY <1>6, <1>8
<1>11. told = "refunded" <=> /\ \E n \in EventsUntil(i, ts) : Is(n, "refunded")
                             /\ ~ \E n \in EventsUntil(i, ts) : Is(n, "delivered")
  BY <1>6, <1>9, <1>10
<1> QED BY <1>2, <1>3, <1>10, <1>11

\* The two journals agree at every moment: a slice shows an item as delivered
\* or refunded exactly if the slice's postings account for it so.
THEOREM HistorySliceAgrees == Spec => []SliceAgrees
<1>1. TypeInv /\ StoryInv => SliceAgrees
  BY StoryAgrees, HistoryAssumption
<1> QED BY <1>1, StoryAlways, PTL

LEMMA PresentIsLast ==
  ASSUME TypeInv, HistoryAssumption, NEW x \in Subjects, NEW initially
  PROVE  Told(x, clock, initially) = LastTold(x, initially)
<1>1. clock \in Nat
  BY DEF TypeInv, HistoryAssumption
<1>2. EventsUntil(x, clock) = 1 .. Len(journal[x]) /\ Len(journal[x]) \in Nat
      /\ (journal[x] = <<>> <=> Len(journal[x]) = 0)
  BY EmptyJournal DEF EventsUntil, UpTo, TypeInv
<1>3. CASE Len(journal[x]) = 0
  <2>1. EventsUntil(x, clock) = {}
    BY <1>2, <1>3
  <2> QED BY <1>2, <1>3, <2>1 DEF Told, LastTold
<1>4. CASE Len(journal[x]) # 0
  <2>1. Len(journal[x]) \in EventsUntil(x, clock) /\ \A m \in EventsUntil(x, clock) : m <= Len(journal[x])
    BY <1>2, <1>4
  <2> QED BY <1>1, <1>2, <1>4, <2>1, ToldIsLast DEF LastTold
<1> QED BY <1>3, <1>4

\* While no transaction is open, the slice at the present moment is what the
\* rows are, but for the changes no event is written for.
THEOREM HistoryPresentIsExact == Spec => []PresentIsExact
<1>1. ASSUME TypeInv, StoryInv PROVE PresentIsExact
  <2>1. Slice(clock).booked = {<<p.kind, p.of>> : p \in booked}
    <3>1. \A q \in booked : UpTo(clock, q)
      BY <1>1 DEF TypeInv, UpTo
    <3> QED BY <3>1 DEF Slice
  <2>2. Slice(clock).order = orderStatus \/ orderStatus \in Final \cup {"delivering"}
    BY <1>1, PresentIsLast, HistoryAssumption DEF Slice, StoryInv, OrderIsTold, Subjects
  <2>3. ASSUME NEW i \in Items
        PROVE  \/ Slice(clock).items[i] = itemStatus[i]
               \/ itemStatus[i] = "pending" /\ Slice(clock).items[i] = "delivering"
    <3>1. Slice(clock).items[i] = LastTold(i, "pending")
      BY <1>1, PresentIsLast, HistoryAssumption DEF Slice, Subjects
    <3>2. RowIsTold(i)
      BY <1>1 DEF StoryInv, ItemInv
    <3> QED BY <3>1, <3>2 DEF RowIsTold
  <2> QED BY <2>1, <2>2, <2>3 DEF PresentIsExact
<1> QED BY <1>1, StoryAlways, PTL
=============================================================================
