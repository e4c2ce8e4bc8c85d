------------------------------ MODULE Promise ------------------------------
(***************************************************************************)
(* What the shop promises, without tables, jobs or suppliers: after a      *)
(* payment each item may be handed a code nobody else holds, and may be    *)
(* paid back while it has none, each at most once and for good; an order   *)
(* is reported finished only when each of its items was closed.            *)
(*                                                                         *)
(* The documentation promises more - that an item is never both paid back  *)
(* and handed over.  The code does not keep that (see ClosedOneWay in      *)
(* Shop), so HandOver does not ask for it.                                 *)
(***************************************************************************)
CONSTANTS Orders, Items, OrderOf, Codes, NoCode

VARIABLES
  paid,      \* orders whose payment was captured
  holds,     \* the code each item was handed
  paidBack,  \* items whose price was returned
  finished   \* orders reported finished

vars == <<paid, holds, paidBack, finished>>

Init ==
  /\ paid = {}
  /\ holds = [i \in Items |-> NoCode]
  /\ paidBack = {}
  /\ finished = {}

Pay(o) ==
  /\ paid' = paid \cup {o}
  /\ UNCHANGED <<holds, paidBack, finished>>

HandOver(i, c) ==
  /\ OrderOf[i] \in paid
  /\ holds[i] = NoCode
  /\ \A j \in Items : holds[j] # c
  /\ holds' = [holds EXCEPT ![i] = c]
  /\ UNCHANGED <<paid, paidBack, finished>>

PayBack(i) ==
  /\ OrderOf[i] \in paid
  /\ holds[i] = NoCode /\ i \notin paidBack
  /\ paidBack' = paidBack \cup {i}
  /\ UNCHANGED <<paid, holds, finished>>

Finish(o) ==
  /\ o \in paid
  /\ \A i \in Items : OrderOf[i] = o => holds[i] # NoCode \/ i \in paidBack
  /\ finished' = finished \cup {o}
  /\ UNCHANGED <<paid, holds, paidBack>>

Next ==
  \/ \E o \in Orders : Pay(o) \/ Finish(o)
  \/ \E i \in Items : PayBack(i) \/ \E c \in Codes : HandOver(i, c)

Spec == Init /\ [][Next]_vars
=============================================================================
