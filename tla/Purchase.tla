------------------------------- MODULE Purchase -------------------------------
(***************************************************************************)
(* What the shop wants of its suppliers for one order item, without        *)
(* requests, attempts or probes.  While the item is open the shop talks to *)
(* them, again and again; a talk buys at most one code in all and ends     *)
(* with a code to hand over, with a refusal, or broken off.  A refusal     *)
(* means that nothing was bought.  The item may be given up at any moment, *)
(* and a talk under way goes on then: its code is still handed over.       *)
(* Under faults the client does not cope with (`careful` is FALSE) more    *)
(* may be bought, and a refusal may be wrong; but nothing is delivered     *)
(* that was not bought, and nothing bought outside a talk.                 *)
(***************************************************************************)
CONSTANT Codes

VARIABLES
  careful,   \* the client can cope with what may go wrong
  bought,    \* codes the suppliers have charged for the item
  talk,      \* "off", "on", or how the last one ended: "sold", "refused"
  item       \* "open", "refunded" or "delivered"

vars == <<careful, bought, talk, item>>

Init == careful \in BOOLEAN /\ bought = {} /\ talk = "off" /\ item = "open"

Ask ==
  /\ item = "open" /\ talk \in {"off", "refused"}
  /\ talk' = "on"
  /\ UNCHANGED <<careful, bought, item>>

Buy(c) ==
  /\ talk = "on" /\ item # "delivered"
  /\ careful => bought = {}
  /\ bought' = bought \cup {c}
  /\ UNCHANGED <<careful, talk, item>>

Agree ==
  /\ talk = "on" /\ bought # {}
  /\ talk' = "sold"
  /\ UNCHANGED <<careful, bought, item>>

Refuse ==
  /\ talk = "on"
  /\ careful => bought = {}
  /\ talk' = "refused"
  /\ UNCHANGED <<careful, bought, item>>

\* The outcome is unknown, or the shop stops before the code is handed over.
BreakOff ==
  /\ talk \in {"on", "sold"} /\ item # "delivered"
  /\ talk' = "off"
  /\ UNCHANGED <<careful, bought, item>>

Deliver ==
  /\ talk = "sold" /\ item # "delivered"
  /\ item' = "delivered"
  /\ UNCHANGED <<careful, bought, talk>>

GiveUp ==
  /\ item = "open"
  /\ item' = "refunded"
  /\ UNCHANGED <<careful, bought, talk>>

Next ==
  \/ Ask \/ Agree \/ Refuse \/ BreakOff \/ Deliver \/ GiveUp
  \/ \E c \in Codes : Buy(c)

Spec == Init /\ [][Next]_vars
=============================================================================
