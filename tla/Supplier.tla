------------------------------ MODULE Supplier ------------------------------
(***************************************************************************)
(* How the shop gets a code for ONE order item: services/supplier_client.py *)
(* talking to the two suppliers of suppliers/main.py.  A conversation is   *)
(* one acquire_code: it first settles the requests whose fate is unknown,  *)
(* then tries supplier a and, if a certainly did not sell, supplier b.     *)
(* The item's deliveries exclude each other, so conversations follow one   *)
(* another; a handler may stop between any two steps and a later           *)
(* conversation starts from the tables alone.                              *)
(*                                                                         *)
(* Assumed: a supplier has dealt with a request, or never will, once the   *)
(* client stops waiting for it (two requests of one id at the same time    *)
(* are the matter of module Pool).                                         *)
(***************************************************************************)
EXTENDS Naturals, FiniteSets

CONSTANTS
  Codes,          \* the suppliers' pools of keys
  SoldBy,         \* SoldBy[c]: the supplier of code c
  RightSku,       \* the codes of the item's sku
  MaxCalls,       \* settings.supplier_max_attempts
  Worlds,         \* the sets of faults to be considered
  MaxTalks        \* bound: conversations about the item

Suppliers == {"a", "b"}                  \* SUPPLIER_ORDER: first a, then b
MaxGeneration == 1 + 3 * MaxTalks        \* bound: generations of a request
Requests == Suppliers \X (1..MaxGeneration)   \* request_id_for
Free == <<>>                             \* a key in state 'available'
Others == <<"others">>                   \* request_ids of other items
Faults == {"stop", "throttle", "lost", "phantom", "lies", "no probe",
           "no probe after error", "no owner", "no owner when settling", "fickle"}

ASSUME SupplierAssumption ==
  /\ SoldBy \in [Codes -> Suppliers]
  /\ RightSku \subseteq Codes
  /\ {"none", "error"} \cap Codes = {}
  /\ MaxCalls \in Nat \ {0}
  /\ MaxTalks \in Nat \ {0}
  /\ Worlds \subseteq SUBSET Faults

VARIABLES
  world,          \* the faults that may happen in this behaviour
  sells,          \* sells[s]: does s sell the sku ("out": its stock flag)
  keyOf,          \* supplier_keys: the request a code was issued to
  answer,         \* supplier_requests: the recorded answer to a request
  attempt,        \* supplier_attempts: the request of the attempt under way
  doubtful,       \* supplier_attempts: requests with an attempt that is
                  \*   'unknown', 'ok', or 'in_flight' with nobody to end it
  discrepancies,  \* supplier_discrepancies: <<request, kind>>
  pc, req, call, reply, todo,   \* the handler: where it is, its locals
  barren,         \* permanent_everywhere
  result,         \* the DeliveryOutcome of the last conversation
  talks,
  item            \* order_items.status: "open", "refunded" or "delivered"

supplierVars == <<keyOf, answer>>
journalVars == <<attempt, doubtful, discrepancies>>
handlerVars == <<pc, req, call, reply, todo, barren, result, talks>>
vars == <<item, world, sells, supplierVars, journalVars, handlerVars>>

Pcs == {"idle", "settling", "checking known", "trying", "asked", "answered",
        "probing", "marking", "checking"}
Replies == {"code", "lost", "refused", "limited", "out_of_stock", "never"}
Kinds == {"phantom_error", "unknown_code", "duplicate_code", "foreign_code"}
NotSold == {"out_of_stock", "unavailable", "failed"}

-----------------------------------------------------------------------------
(* The suppliers. *)

Own == {c \in Codes : keyOf[c] \in Requests}     \* issued for this item

\* POST /{s}/issue as it changes the tables.  An answer, once recorded, is
\* the answer for ever.
Replay(r) == answer[r] # "none" /\ UNCHANGED supplierVars

\* A free key of the sku, or the answer that none is left.
Claim(r) ==
  LET free == {c \in RightSku : SoldBy[c] = r[1] /\ keyOf[c] = Free} IN
  /\ answer[r] = "none"
  /\ \/ \E c \in free : /\ keyOf' = [keyOf EXCEPT ![c] = r]
                        /\ answer' = [answer EXCEPT ![r] = c]
     \/ /\ free = {}
        /\ answer' = [answer EXCEPT ![r] = "error"]
        /\ UNCHANGED keyOf

\* A key the supplier has no right to give: one issued before, or one of
\* another sku.  The pool is not touched.
Lie(r) ==
  /\ "lies" \in world /\ answer[r] = "none"
  /\ \E c \in Codes : /\ SoldBy[c] = r[1]
                      /\ keyOf[c] # Free \/ c \notin RightSku
                      /\ answer' = [answer EXCEPT ![r] = c]
  /\ UNCHANGED keyOf

\* What the client sees of it.
Told(r)    == reply' = IF answer'[r] = "error" THEN "out_of_stock" ELSE "code"
NotTold    == "lost" \in world /\ reply' = "lost"
Phantom(r) == "phantom" \in world /\ answer'[r] \in Codes /\ reply' = "refused"

Serve(r) ==
  /\ sells[r[1]] = "yes"
  /\ \/ (Replay(r) \/ Claim(r)) /\ (Told(r) \/ NotTold \/ Phantom(r))
     \/ Lie(r) /\ (Told(r) \/ NotTold)

\* No connection, an error or a hang before anything is issued, too many
\* requests, or a sku the supplier does not (now, or ever) sell.
TurnDown(r) ==
  /\ \/ reply' = "refused"
     \/ NotTold
     \/ "throttle" \in world /\ reply' = "limited"
     \/ sells[r[1]] = "out" /\ reply' = "out_of_stock"
     \/ sells[r[1]] = "never" /\ reply' = "never"
  /\ UNCHANGED supplierVars

\* Customers of other items buy too.
OthersBuy(c) ==
  /\ keyOf[c] = Free
  /\ keyOf' = [keyOf EXCEPT ![c] = Others]
  /\ UNCHANGED <<item, world, sells, answer, journalVars, handlerVars>>

\* A supplier changes what it sells.  The flags are looked at before the
\* recorded answer, so it may then refuse what it has sold already.
ChangeItsMind(s) ==
  /\ "fickle" \in world
  /\ \E flag \in {"yes", "out", "never"} : sells' = [sells EXCEPT ![s] = flag]
  /\ UNCHANGED <<item, world, supplierVars, journalVars, handlerVars>>

-----------------------------------------------------------------------------
(* The client's journal. *)

\* request_id_for(item, s, _generation(s)), given the discrepancies.
NextRequest(found, s) ==
  <<s, 1 + Cardinality({d \in found : d[1][1] = s})>>

\* Requests with an attempt 'in_flight', 'unknown' or 'ok'.  A 'failed' one
\* is not asked about again.
Suspects == attempt \cup doubtful

\* _record_attempt_start, and _record_attempt_end for what the supplier said.
StartUnwritten == UNCHANGED <<attempt, doubtful>>   \* mutant: no intent
Start == attempt' = {req} /\ UNCHANGED doubtful
FinishTimeoutFails ==         \* mutant: a timeout taken for a refusal
  attempt' = {} /\ doubtful' = IF reply = "code" THEN doubtful \cup {req} ELSE doubtful
FinishForgotten == UNCHANGED <<attempt, doubtful>>  \* mutant: no end written
Finish ==
  /\ attempt' = {}
  /\ doubtful' = IF reply \in {"code", "lost"} THEN doubtful \cup {req} ELSE doubtful
MarkOk == doubtful' = doubtful \cup {req} /\ UNCHANGED attempt

RecordDiscrepancy(kind) == discrepancies' = discrepancies \cup {<<req, kind>>}

ObjectionsToSku(r) ==         \* mutant: whose the code is is not asked
  IF answer[r] \notin RightSku THEN {"foreign_code"} ELSE {}

\* What the supplier's record of a code says against it (_accept).
Objections(r) ==
  LET c == answer[r] IN
  IF SoldBy[c] # r[1] THEN {"unknown_code"}
  ELSE IF keyOf[c] \notin {r, Free} THEN {"duplicate_code"}
  ELSE IF c \notin RightSku THEN {"foreign_code"} ELSE {}

-----------------------------------------------------------------------------
(* The handler's moves. *)

Move(to) == pc' = to /\ UNCHANGED <<req, call, reply, todo, barren, result, talks>>

\* The conversation is over.  Of the locals only the request of an accepted
\* code outlives it.
End(kind) ==
  /\ pc' = "idle" /\ result' = kind /\ UNCHANGED talks
  /\ req' = IF kind = "ok" THEN req ELSE <<"a", 1>>
  /\ call' = 0 /\ reply' = "refused" /\ todo' = {} /\ barren' = FALSE

\* _try_supplier begins: the generation is counted.
Try(s, found) ==
  /\ pc' = "trying" /\ req' = NextRequest(found, s) /\ call' = 0 /\ reply' = "refused"

\* A definite failure: to the next supplier, or to the end.
GiveUpSupplier(why, found) ==
  IF req[1] = "a"
  THEN /\ Try("b", found)
       /\ barren' = (why = "never")
       /\ UNCHANGED <<todo, result, talks>>
  ELSE End(CASE why = "out_of_stock" -> "out_of_stock"
             [] why = "never" /\ barren -> "unavailable"
             [] OTHER -> "failed")

\* deliver_item does not ask for an item that is closed.
Skipped == item # "open"

\* acquire_code: the requests that may have brought a code are read.
Begin ==
  /\ ~Skipped
  /\ pc = "idle" /\ result # "ok" /\ talks < MaxTalks
  /\ pc' = "settling" /\ todo' = Suspects /\ talks' = talks + 1 /\ result' = "none"
  /\ UNCHANGED <<item, world, sells, supplierVars, journalVars, req, call, reply, barren>>

\* _settle_known probes one request: no answer, no code, or a code.
SettleOne(r) ==
  /\ pc = "settling" /\ r \in todo
  /\ \/ "no probe" \in world /\ End("unknown")
     \/ /\ answer[r] \notin Codes
        /\ todo' = todo \ {r}
        /\ UNCHANGED <<pc, req, call, reply, barren, result, talks>>
     \/ /\ answer[r] \in Codes
        /\ pc' = "checking known" /\ req' = r /\ todo' = todo \ {r}
        /\ UNCHANGED <<call, reply, barren, result, talks>>
  /\ UNCHANGED <<item, world, sells, supplierVars, journalVars>>

Settled ==
  /\ pc = "settling" /\ todo = {}
  /\ Try("a", discrepancies)
  /\ UNCHANGED <<item, world, sells, supplierVars, journalVars, todo, barren, result, talks>>

\* The settled code is taken only if it is ours, and its attempt marked.
CheckKnown ==
  /\ pc = "checking known"
  /\ \/ "no owner when settling" \in world /\ Move("settling") /\ UNCHANGED journalVars
     \/ \E kind \in Objections(req) :
          RecordDiscrepancy(kind) /\ Move("settling") /\ UNCHANGED <<attempt, doubtful>>
     \/ /\ Objections(req) = {}
        /\ MarkOk
        /\ End("ok") /\ UNCHANGED discrepancies
  /\ UNCHANGED <<item, world, sells, supplierVars>>

\* _call_issue: the limiter, then the attempt is written before the request.
Call ==
  /\ pc = "trying"
  /\ \/ "throttle" \in world /\ End("throttled") /\ UNCHANGED <<attempt, doubtful>>
     \/ Start /\ Move("asked")
  /\ UNCHANGED <<item, world, sells, supplierVars, discrepancies>>

SupplierAnswers ==
  /\ pc = "asked"
  /\ Serve(req) \/ TurnDown(req)
  /\ pc' = "answered"
  /\ UNCHANGED <<item, world, sells, journalVars, req, call, todo, barren, result, talks>>

\* The attempt's end is written, and the answer decides where to go.
Answered ==
  /\ pc = "answered"
  /\ Finish
  /\ \/ reply = "code" /\ Move("checking")
     \/ reply = "limited" /\ End("throttled")
     \/ reply \in {"out_of_stock", "never"} /\ GiveUpSupplier(reply, discrepancies)
     \/ /\ reply \in {"refused", "lost"} /\ call + 1 < MaxCalls
        /\ pc' = "trying" /\ call' = call + 1 /\ reply' = "refused"
        /\ UNCHANGED <<req, todo, barren, result, talks>>
     \/ reply \in {"refused", "lost"} /\ call + 1 = MaxCalls /\ Move("probing")
  /\ UNCHANGED <<item, world, sells, supplierVars, discrepancies>>

ProbeSkipped ==               \* mutant: fallback without asking
  /\ pc = "probing" /\ GiveUpSupplier("refused", discrepancies)
  /\ UNCHANGED <<item, world, sells, supplierVars, attempt, doubtful, discrepancies>>

\* After the last attempt the supplier is asked whether it issued anything.
\* An error record answers 200 as well, without a code.
Probe ==
  /\ pc = "probing"
  /\ \/ /\ "no probe" \in world /\ reply = "lost" /\ End("unknown")
        /\ UNCHANGED discrepancies
     \/ /\ "no probe after error" \in world /\ reply = "refused"
        /\ GiveUpSupplier("refused", discrepancies) /\ UNCHANGED discrepancies
     \/ /\ answer[req] = "none"
        /\ GiveUpSupplier("refused", discrepancies) /\ UNCHANGED discrepancies
     \/ /\ answer[req] # "none" /\ Move("marking")
        /\ IF reply = "refused" THEN RecordDiscrepancy("phantom_error")
                                ELSE UNCHANGED discrepancies
  /\ UNCHANGED <<item, world, sells, supplierVars, attempt, doubtful>>

\* The last attempt is marked as resolved; an empty code is a failure.
Mark ==
  /\ pc = "marking"
  /\ MarkOk
  /\ IF answer[req] \in Codes THEN Move("checking")
                              ELSE GiveUpSupplier("refused", discrepancies)
  /\ UNCHANGED <<item, world, sells, supplierVars, discrepancies>>

\* _accept: taken, rejected for good, or not verifiable now.
Check ==
  /\ pc = "checking"
  /\ \/ "no owner" \in world /\ End("unknown") /\ UNCHANGED discrepancies
     \/ \E kind \in Objections(req) :
          RecordDiscrepancy(kind) /\ GiveUpSupplier("refused", discrepancies')
     \/ Objections(req) = {} /\ End("ok") /\ UNCHANGED discrepancies
  /\ UNCHANGED <<item, world, sells, supplierVars, attempt, doubtful>>

\* The handler stops, its memory lost; what it wrote stays.
Stop ==
  /\ "stop" \in world
  /\ pc # "idle" \/ (result = "ok" /\ item # "delivered")
  /\ End("stopped")
  /\ doubtful' = Suspects /\ attempt' = {}
  /\ UNCHANGED <<item, world, sells, supplierVars, discrepancies>>

\* deliver_item hands the code over.  It asks only that the item is not yet
\* delivered: one refunded during the conversation gets its code all the same.
Deliver ==
  /\ pc = "idle" /\ result = "ok" /\ item # "delivered" /\ item' = "delivered"
  /\ UNCHANGED <<world, sells, supplierVars, journalVars, handlerVars>>

\* refund_item gives an open item up, at any moment: the job comes from
\* schedule_refunds after a refusal, or from settle_order after any outcome
\* when the delivery job's attempts are spent, and runs when a worker has
\* time; the admin's request waits for nothing.  deliver_item holds no lock
\* during the conversation, which goes on.
Refund ==
  /\ item = "open" /\ item' = "refunded"
  /\ UNCHANGED <<world, sells, supplierVars, journalVars, handlerVars>>

\* The item is closed, or the bound on conversations is reached.
Rest == /\ pc = "idle" /\ (item # "open" \/ talks = MaxTalks)
        /\ UNCHANGED vars

Init ==
  /\ world \in Worlds
  /\ sells \in [Suppliers -> {"yes", "out", "never"}]
  /\ keyOf = [c \in Codes |-> Free]
  /\ answer = [r \in Requests |-> "none"]
  /\ attempt = {} /\ doubtful = {} /\ discrepancies = {}
  /\ pc = "idle" /\ req = <<"a", 1>> /\ call = 0 /\ reply = "refused"
  /\ todo = {} /\ barren = FALSE /\ result = "none" /\ talks = 0
  /\ item = "open"

Next ==
  \/ Begin \/ (\E r \in Requests : SettleOne(r)) \/ Settled \/ CheckKnown
  \/ Call \/ SupplierAnswers \/ Answered \/ Probe \/ Mark \/ Check
  \/ Stop \/ Deliver \/ Refund \/ (\E c \in Codes : OthersBuy(c))
  \/ (\E s \in Suppliers : ChangeItsMind(s)) \/ Rest

Spec == Init /\ [][Next]_vars

-----------------------------------------------------------------------------
(* Properties. *)

\* The tables and the handler stay within their values; an in-flight attempt
\* is the one the handler waits for, and a conversation that is idle holds
\* nothing.
TypeOK ==
  /\ world \in Worlds /\ sells \in [Suppliers -> {"yes", "out", "never"}]
  /\ \A c \in Codes : keyOf[c] \in {Free, Others} \cup Requests
  /\ \A r \in Requests : answer[r] \in {"none", "error"} \cup Codes
  /\ doubtful \subseteq Requests
  /\ discrepancies \subseteq Requests \X Kinds
  /\ pc \in Pcs /\ req \in Requests /\ reply \in Replies /\ call \in 0..(MaxCalls - 1)
  /\ todo \subseteq Requests /\ barren \in BOOLEAN /\ talks \in 0..MaxTalks
  /\ result \in NotSold \cup {"none", "ok", "unknown", "throttled", "stopped"}
  /\ attempt = IF pc \in {"asked", "answered"} THEN {req} ELSE {}
  /\ item \in {"open", "refunded", "delivered"}

\* The faults the client copes with: supplier and network may do what they
\* like, the handler may stop and be throttled anywhere, as long as no
\* explicit error hides a code; or errors hide codes, and then nothing keeps
\* the client from asking for them before it leaves the supplier.  A supplier
\* may change its mind about what it sells as long as no answer is lost or
\* hidden: a flag that refuses a repeated request is taken for the truth.
Tolerable ==
  /\ world \cap {"no probe after error", "no owner when settling"} = {}
  /\ "phantom" \in world => world \cap {"stop", "throttle"} = {}
  /\ "fickle" \in world => world \cap {"lost", "phantom"} = {}

\* One item costs one code: whatever answers are lost, repeated or false, no
\* second code is issued for the item at either supplier ("ровно один код",
\* acquire_code), within the faults the client copes with.
OneCodePerItem == Tolerable => Cardinality(Own) <= 1

\* The same for every fault: what the comment at the probe says must not be.
NeverASecondCode == Cardinality(Own) <= 1

\* Only a code of the item's sku, issued to the request that brought it, is
\* accepted, whatever the supplier answers and whenever the answer is found
\* (_accept: a code that fails the check does not reach the customer).
AcceptedIsOurs ==
  result = "ok" => answer[req] \in RightSku /\ keyOf[answer[req]] = req

\* A code issued for the item can still be found: its request is among those
\* a new conversation settles first, or the handler is still at it.  Without
\* it a restart asks another supplier (_settle_known's query and the journal
\* written before the request).
CodesCanBeFound ==
  Tolerable => \A c \in Own :
    keyOf[c] \in Suspects \/ (keyOf[c] = req /\ pc \notin {"idle", "settling"})

\* Refinement: the conversations implement the purchase, with the item given
\* up at any moment by whoever refunds it.  A conversation ends in a refusal -
\* what schedule_refunds takes for a reason to refund - only while no supplier
\* has charged a code for the item; a code is bought only by a conversation
\* that began while the item was open, also when the item has been given up
\* meanwhile, and never once it is delivered; what is delivered was bought.
Bought == INSTANCE Purchase WITH
  careful <- Tolerable,
  bought  <- Own,
  talk    <- IF pc # "idle" THEN "on"
             ELSE IF result = "ok" THEN "sold"
             ELSE IF result \in NotSold THEN "refused" ELSE "off"

PurchaseKept == Bought!Spec
=============================================================================
