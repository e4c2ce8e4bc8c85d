---------------------------- MODULE SupplierProofs ----------------------------
(***************************************************************************)
(* Proofs about the conversations with the suppliers, for any number of    *)
(* codes, calls and conversations and any faults.  The invariant says      *)
(* where, at every point of the handler, a code issued for the item can be *)
(* found: under the request at hand, among those still to be settled, or   *)
(* in the journal.                                                         *)
(***************************************************************************)
EXTENDS Supplier, FiniteSetTheorems, TLAPS

\* One of the two suppliers is being tried.
Trying == {"trying", "asked", "answered", "probing", "marking", "checking"}

RowsOK ==
  /\ keyOf \in [Codes -> {Free, Others} \cup Requests]
  /\ answer \in [Requests -> {"none", "error"} \cup Codes]

\* A code issued for the item is the answer to its request and fits it.
OwnAnswered ==
  \A c \in Own : answer[keyOf[c]] = c /\ c \in RightSku /\ SoldBy[c] = keyOf[c][1]

\* An answer that nothing speaks against but its key's being free is of
\* another sku.
LiesShow ==
  \A r \in Requests : answer[r] \in Codes =>
    /\ SoldBy[answer[r]] = r[1]
    /\ keyOf[answer[r]] = Free => answer[r] \notin RightSku

TablesOK == RowsOK /\ OwnAnswered /\ LiesShow

-----------------------------------------------------------------------------
(* The suppliers' tables.                                                  *)

LEMMA RequestForms ==
  ASSUME NEW r \in Requests
  PROVE  /\ r = <<r[1], r[2]>> /\ r[1] \in {"a", "b"} /\ r[2] \in 1..MaxGeneration
         /\ r # Free /\ r # Others
<1>1. PICK s \in {"a", "b"}, g \in 1..MaxGeneration : r = <<s, g>>
  BY DEF Requests, Suppliers
<1>2. <<s, g>> # <<>>
  OBVIOUS
<1>3. <<s, g>> # <<"others">>
  OBVIOUS
<1> QED BY <1>1, <1>2, <1>3 DEF Free, Others

LEMMA FreeIsNotOthers == Free # Others
BY DEF Free, Others

\* The supplier decides on the request the handler waits for.
Decides ==
  /\ pc = "asked" /\ pc' = "answered"
  /\ UNCHANGED <<world, sells, journalVars, req, call, todo, barren, result, talks>>
  /\ sells[req[1]] = "yes" /\ (Claim(req) \/ Lie(req))
  /\ Told(req) \/ NotTold \/ Phantom(req)

\* Nobody else writes the tables, except other customers.
LEMMA TableSteps ==
  ASSUME Next
  PROVE  UNCHANGED supplierVars \/ (\E c \in Codes : OthersBuy(c)) \/ Decides
<1>1. CASE SupplierAnswers
  <2>1. CASE Serve(req)
    BY <1>1, <2>1 DEF SupplierAnswers, Serve, Replay, Decides
  <2>2. CASE TurnDown(req)
    BY <2>2 DEF TurnDown
  <2> QED BY <1>1, <2>1, <2>2 DEF SupplierAnswers
<1>2. CASE Begin \/ (\E r \in Requests : SettleOne(r)) \/ Settled \/ CheckKnown
  BY <1>2 DEF Begin, SettleOne, Settled, CheckKnown
<1>3. CASE Call \/ Answered \/ Probe \/ Mark \/ Check
  BY <1>3 DEF Call, Answered, Probe, Mark, Check
<1>4. CASE Stop \/ Deliver \/ Refund \/ (\E s \in Suppliers : ChangeItsMind(s)) \/ Rest
  BY <1>4 DEF Stop, Deliver, Refund, ChangeItsMind, Rest, vars
<1> QED BY <1>1, <1>2, <1>3, <1>4 DEF Next

\* A claim gives a free code of the right sku to the request.
LEMMA ClaimKeepsTables ==
  ASSUME TablesOK, NEW r \in Requests, Claim(r), SupplierAssumption
  PROVE  TablesOK'
<1> USE FreeIsNotOthers DEF TablesOK, SupplierAssumption
<1> r \notin {Free, Others}
  BY RequestForms
<1> DEFINE free == {c \in RightSku : SoldBy[c] = r[1] /\ keyOf[c] = Free}
<1>1. CASE \E c \in free : /\ keyOf' = [keyOf EXCEPT ![c] = r]
                           /\ answer' = [answer EXCEPT ![r] = c]
  <2>1. PICK c \in free : /\ keyOf' = [keyOf EXCEPT ![c] = r]
                          /\ answer' = [answer EXCEPT ![r] = c]
    BY <1>1
  <2>2. c \in Codes /\ c \in RightSku /\ SoldBy[c] = r[1] /\ keyOf[c] = Free /\ answer[r] = "none"
    BY <2>1 DEF Claim
  <2>3. /\ \A d \in Codes : keyOf'[d] = IF d = c THEN r ELSE keyOf[d]
        /\ \A q \in Requests : answer'[q] = IF q = r THEN c ELSE answer[q]
    BY <2>1 DEF RowsOK
  <2>4. RowsOK'
    BY <2>1, <2>2 DEF RowsOK
  <2>5. OwnAnswered'
    <3> SUFFICES ASSUME NEW d \in Own'
                 PROVE  answer'[keyOf'[d]] = d /\ d \in RightSku /\ SoldBy[d] = keyOf'[d][1]
      BY DEF OwnAnswered
    <3>1. CASE d = c
      BY <2>2, <2>3, <3>1
    <3>2. CASE d # c
      <4>1. d \in Own /\ d \in Codes /\ keyOf'[d] = keyOf[d] /\ keyOf[d] \in Requests
        BY <2>3, <3>2 DEF Own
      <4>2. answer[keyOf[d]] = d
        BY <4>1 DEF OwnAnswered
      <4>3. keyOf[d] # r
        BY <2>2, <4>1, <4>2
      <4> QED BY <2>3, <4>1, <4>3 DEF OwnAnswered
    <3> QED BY <3>1, <3>2
  <2>6. LiesShow'
    BY <2>2, <2>3 DEF LiesShow
  <2> QED BY <2>4, <2>5, <2>6
<1>2. CASE answer' = [answer EXCEPT ![r] = "error"] /\ UNCHANGED keyOf
  <2>1. answer[r] = "none" /\ \A q \in Requests : answer'[q] = IF q = r THEN "error" ELSE answer[q]
    BY <1>2 DEF RowsOK, Claim
  <2>2. RowsOK'
    BY <1>2 DEF RowsOK
  <2>3. OwnAnswered'
    <3> SUFFICES ASSUME NEW d \in Own'
                 PROVE  answer'[keyOf[d]] = d /\ d \in RightSku /\ SoldBy[d] = keyOf[d][1]
      BY <1>2 DEF OwnAnswered
    <3>1. d \in Own /\ d \in Codes /\ keyOf[d] \in Requests
      BY <1>2 DEF Own
    <3> QED BY <2>1, <3>1 DEF OwnAnswered
  <2>4. LiesShow'
    BY <1>2, <2>1 DEF LiesShow
  <2> QED BY <2>2, <2>3, <2>4
<1> QED BY <1>1, <1>2 DEF Claim

\* A lie names a code that is taken or of another sku.
LEMMA LieKeepsTables ==
  ASSUME TablesOK, NEW r \in Requests, Lie(r), SupplierAssumption
  PROVE  TablesOK'
<1> USE DEF TablesOK, SupplierAssumption
<1>1. PICK c \in Codes : /\ SoldBy[c] = r[1] /\ (keyOf[c] # Free \/ c \notin RightSku)
                         /\ answer' = [answer EXCEPT ![r] = c]
  BY DEF Lie
<1>2. /\ keyOf' = keyOf /\ answer[r] = "none"
      /\ \A q \in Requests : answer'[q] = IF q = r THEN c ELSE answer[q]
  BY <1>1 DEF RowsOK, Lie
<1>3. RowsOK'
  BY <1>1, <1>2 DEF RowsOK
<1>4. OwnAnswered'
  <2> SUFFICES ASSUME NEW d \in Own'
               PROVE  answer'[keyOf[d]] = d /\ d \in RightSku /\ SoldBy[d] = keyOf[d][1]
    BY <1>2 DEF OwnAnswered
  <2>1. d \in Own /\ d \in Codes /\ keyOf[d] \in Requests
    BY <1>2 DEF Own
  <2> QED BY <1>2, <2>1 DEF OwnAnswered
<1>5. LiesShow'
  BY <1>1, <1>2 DEF LiesShow
<1> QED BY <1>3, <1>4, <1>5

LEMMA OthersBuyKeepsTables ==
  ASSUME TablesOK, NEW c \in Codes, OthersBuy(c)
  PROVE  TablesOK' /\ Own' = Own /\ \A d \in Own : keyOf'[d] = keyOf[d]
<1> USE FreeIsNotOthers DEF TablesOK
<1> Free \notin Requests /\ Others \notin Requests
  BY RequestForms
<1>1. /\ keyOf[c] = Free /\ answer' = answer
      /\ \A d \in Codes : keyOf'[d] = IF d = c THEN Others ELSE keyOf[d]
  BY DEF OthersBuy, RowsOK
<1>2. Own' = Own /\ \A d \in Own : keyOf'[d] = keyOf[d]
  BY <1>1 DEF Own
<1>3. RowsOK'
  BY <1>1 DEF OthersBuy, RowsOK
<1>4. OwnAnswered'
  BY <1>1, <1>2 DEF OwnAnswered
<1>5. LiesShow'
  BY <1>1 DEF LiesShow, RowsOK
<1> QED BY <1>2, <1>3, <1>4, <1>5

LEMMA TablesKept ==
  ASSUME TablesOK, req \in Requests, [Next]_vars, SupplierAssumption
  PROVE  TablesOK'
<1>1. CASE UNCHANGED supplierVars
  BY <1>1 DEF supplierVars, TablesOK, RowsOK, OwnAnswered, LiesShow, Own
<1>2. CASE Decides
  BY <1>2, ClaimKeepsTables, LieKeepsTables DEF Decides
<1>3. CASE \E c \in Codes : OthersBuy(c)
  BY <1>3, OthersBuyKeepsTables
<1> QED BY <1>1, <1>2, <1>3, TableSteps DEF vars

-----------------------------------------------------------------------------
(* The generations of a request.  A discrepancy makes the next request to  *)
(* its supplier a new one; a request has at most three, and a conversation *)
(* makes at most one request to each supplier.                             *)

\* Requests to supplier s some answer is recorded for.
Used(s) == {r \in Requests : r[1] = s /\ answer[r] # "none"}

\* The conversation has not come to supplier s yet.
Settling == {"settling", "checking known"}
Untried(s) == pc \in Settling \/ (pc \in Trying /\ req[1] = "a" /\ s = "b")

FewUsed ==
  \A s \in Suppliers :
    /\ Cardinality(Used(s)) <= talks
    /\ Untried(s) => Cardinality(Used(s)) < talks
    /\ pc \in Trying /\ req[1] = s => Cardinality(Used(s) \ {req}) < talks

\* Discrepancies that can be recorded, about requests that were answered.
Proven == {"phantom_error", "duplicate_code", "foreign_code"}

Recorded(found) ==
  /\ found \subseteq Requests \X Proven
  /\ \A d \in found : answer[d[1]] # "none"

LEMMA ThreeProven == IsFiniteSet(Proven) /\ Cardinality(Proven) = 3
<1> DEFINE one == {"phantom_error"}
           two == one \cup {"duplicate_code"}
           three == two \cup {"foreign_code"}
<1>1. IsFiniteSet(one) /\ Cardinality(one) = 1
  BY FS_Singleton
<1>2. "duplicate_code" \notin one /\ "foreign_code" \notin two
  OBVIOUS
<1>3. IsFiniteSet(two) /\ Cardinality(two) = 2
  <2> HIDE DEF one
  <2> QED BY <1>1, <1>2, FS_AddElement
<1>4. IsFiniteSet(three) /\ Cardinality(three) = 3
  <2> HIDE DEF two
  <2> QED BY <1>2, <1>3, FS_AddElement
<1>5. Proven = three
  BY DEF Proven
<1> HIDE DEF three
<1> QED BY <1>4, <1>5

LEMMA UsedIsFinite ==
  ASSUME SupplierAssumption, NEW s \in Suppliers
  PROVE  IsFiniteSet(Used(s)) /\ Cardinality(Used(s)) \in Nat
<1>1. 1 \in Int /\ MaxGeneration \in Int
  BY DEF SupplierAssumption, MaxGeneration
<1>2. IsFiniteSet(1..MaxGeneration)
  BY <1>1, FS_Interval
<1>3. IsFiniteSet({s})
  BY FS_Singleton
<1>4. IsFiniteSet({s} \X (1..MaxGeneration))
  BY <1>2, <1>3, FS_Product
<1>5. Used(s) \in SUBSET ({s} \X (1..MaxGeneration))
  BY RequestForms DEF Used
<1>6. IsFiniteSet(Used(s))
  BY <1>4, <1>5, FS_Subset
<1> QED BY <1>6, FS_CardinalityType

\* The generation counted from the discrepancies stays within the bound.
LEMMA NextRequestExists ==
  ASSUME SupplierAssumption, NEW s \in Suppliers, NEW found, Recorded(found),
         talks \in 0..MaxTalks, Cardinality(Used(s)) < talks
  PROVE  NextRequest(found, s) \in Requests /\ NextRequest(found, s)[1] = s
<1> DEFINE about == {d \in found : d[1][1] = s}
           pairs == Used(s) \X Proven
<1>1. about \in SUBSET pairs
  BY DEF Recorded, Used
<1>2. IsFiniteSet(pairs) /\ Cardinality(pairs) = Cardinality(Used(s)) * 3
  BY UsedIsFinite, ThreeProven, FS_Product
<1>3. Cardinality(about) <= Cardinality(pairs) /\ IsFiniteSet(about)
  BY <1>1, <1>2, FS_Subset
<1>4. Cardinality(about) \in Nat
  BY <1>3, FS_CardinalityType
<1> DEFINE n == Cardinality(Used(s))
           m == Cardinality(about)
<1>5. m \in Nat /\ n \in Nat /\ m <= n * 3 /\ n < talks
  BY <1>2, <1>3, <1>4, UsedIsFinite
<1> HIDE DEF n, m
<1>6. 1 + m \in 1..MaxGeneration
  BY <1>5 DEF SupplierAssumption, MaxGeneration
<1>7. NextRequest(found, s) = <<s, 1 + m>>
  BY DEF NextRequest, m
<1> QED BY <1>6, <1>7 DEF Requests

-----------------------------------------------------------------------------
(* Where a conversation is.                                                *)

LocalsOK ==
  /\ pc \in Pcs /\ req \in Requests /\ reply \in Replies /\ call \in 0..(MaxCalls - 1)
  /\ todo \subseteq Requests /\ barren \in BOOLEAN /\ talks \in 0..MaxTalks
  /\ result \in NotSold \cup {"none", "ok", "unknown", "throttled", "stopped"}

\* A definite failure leads to the second supplier or to the end.
GivenUp ==
  \/ /\ req[1] = "a" /\ pc' = "trying" /\ req' \in Requests /\ req'[1] = "b"
     /\ call' = 0 /\ reply' = "refused" /\ barren' \in BOOLEAN
     /\ UNCHANGED <<todo, result, talks>>
  \/ \E kind \in NotSold : End(kind)

LEMMA GiveUpEffect ==
  ASSUME SupplierAssumption, LocalsOK, FewUsed, pc \in Trying,
         NEW why, NEW found, Recorded(found), GiveUpSupplier(why, found)
  PROVE  GivenUp
<1>1. CASE req[1] = "a"
  <2>1. Cardinality(Used("b")) < talks
    BY <1>1 DEF FewUsed, Untried, Suppliers
  <2>2. NextRequest(found, "b") \in Requests /\ NextRequest(found, "b")[1] = "b"
    BY <2>1, NextRequestExists DEF LocalsOK, Suppliers
  <2> QED BY <1>1, <2>2 DEF GiveUpSupplier, Try, GivenUp
<1>2. CASE req[1] # "a"
  <2>1. PICK kind \in NotSold : End(kind)
    BY <1>2 DEF GiveUpSupplier, NotSold
  <2> QED BY <2>1 DEF GivenUp
<1> QED BY <1>1, <1>2

\* The kinds of discrepancy that an answer can be met with.
LEMMA ObjectionsAreProven ==
  ASSUME TablesOK, req \in Requests, answer[req] \in Codes, NEW kind \in Objections(req),
         Recorded(discrepancies), RecordDiscrepancy(kind), UNCHANGED answer,
         {"none", "error"} \cap Codes = {}
  PROVE  Recorded(discrepancies') /\ Recorded(discrepancies)'
<1>1. kind \in Proven
  BY DEF TablesOK, LiesShow, Objections, Proven
<1>2. discrepancies' = discrepancies \cup {<<req, kind>>} /\ answer[req] # "none"
  BY DEF RecordDiscrepancy
<1> QED BY <1>1, <1>2 DEF Recorded

\* What a handler holds at each point of a conversation.
StageOK ==
  /\ pc # "idle" => result = "none"
  /\ pc \in Settling => todo \subseteq doubtful
  /\ pc \in {"checking", "checking known"} => answer[req] \in Codes /\ req \in doubtful
  /\ pc = "answered" /\ reply = "code" => answer[req] \in Codes
  /\ pc = "marking" => answer[req] # "none"
  /\ pc = "probing" /\ reply = "lost" => req \in doubtful

JournalOK ==
  /\ doubtful \subseteq Requests
  /\ Recorded(discrepancies)
  /\ attempt = IF pc \in {"asked", "answered"} THEN {req} ELSE {}

TalkInv == TablesOK /\ FewUsed /\ LocalsOK /\ JournalOK /\ StageOK

\* An end of a conversation, and a definite failure, leave well-formed locals.
LEMMA EndTypes ==
  ASSUME SupplierAssumption, LocalsOK,
         NEW kind \in NotSold \cup {"ok", "unknown", "throttled", "stopped"}, End(kind)
  PROVE  LocalsOK'
<1>1. <<"a", 1>> \in Requests
  BY DEF SupplierAssumption, Requests, Suppliers, MaxGeneration
<1>2. 0 \in 0..(MaxCalls - 1)
  BY DEF SupplierAssumption
<1> QED BY <1>1, <1>2 DEF End, LocalsOK, Pcs, Replies, NotSold

LEMMA GivenUpTypes ==
  ASSUME SupplierAssumption, LocalsOK, GivenUp
  PROVE  LocalsOK'
<1>1. CASE \E kind \in NotSold : End(kind)
  BY <1>1, EndTypes
<1>2. CASE ~\E kind \in NotSold : End(kind)
  <2>1. 0 \in 0..(MaxCalls - 1)
    BY DEF SupplierAssumption
  <2> QED BY <1>2, <2>1 DEF GivenUp, LocalsOK, Pcs, Replies
<1> QED BY <1>1, <1>2

LEMMA LocalsKept ==
  ASSUME SupplierAssumption, TalkInv, [Next]_vars
  PROVE  LocalsOK'
<1> USE DEF TalkInv, LocalsOK
<1>0. <<"a", 1>> \in Requests /\ 0 \in 0..(MaxCalls - 1)
  BY DEF SupplierAssumption, Requests, Suppliers, MaxGeneration
<1>1. CASE Begin
  BY <1>1 DEF Begin, Pcs, Suspects, JournalOK
<1>2. CASE \E r \in Requests : SettleOne(r)
  <2>1. CASE End("unknown")
    BY <2>1, EndTypes
  <2>2. CASE ~End("unknown")
    BY <1>2, <2>2 DEF SettleOne, Pcs
  <2> QED BY <2>1, <2>2
<1>3. CASE Settled
  <2>1. NextRequest(discrepancies, "a") \in Requests
    BY <1>3, NextRequestExists DEF Settled, FewUsed, Untried, Settling, Suppliers, JournalOK
  <2> QED BY <1>0, <1>3, <2>1 DEF Settled, Try, Pcs, Replies
<1>4. CASE CheckKnown
  <2>1. CASE End("ok")
    BY <2>1, EndTypes
  <2>2. CASE ~End("ok")
    BY <1>4, <2>2 DEF CheckKnown, Move, Pcs
  <2> QED BY <2>1, <2>2
<1>5. CASE Call
  <2>1. CASE End("throttled")
    BY <2>1, EndTypes
  <2>2. CASE ~End("throttled")
    BY <1>5, <2>2 DEF Call, Move, Pcs
  <2> QED BY <2>1, <2>2
<1>6. CASE SupplierAnswers
  <2>1. reply' \in Replies
    BY <1>6 DEF SupplierAnswers, Serve, TurnDown, Told, NotTold, Phantom, Replies
  <2> QED BY <1>6, <2>1 DEF SupplierAnswers, Pcs
<1>7. CASE Answered
  <2>1. CASE End("throttled")
    BY <2>1, EndTypes
  <2>2. CASE \E why : GiveUpSupplier(why, discrepancies)
    BY <1>7, <2>2, GiveUpEffect, GivenUpTypes DEF Answered, Trying, JournalOK
  <2>3. CASE pc' = "trying" /\ call + 1 < MaxCalls /\ call' = call + 1 /\ reply' = "refused"
             /\ UNCHANGED <<req, todo, barren, result, talks>>
    <3>1. call + 1 \in 0..(MaxCalls - 1)
      BY <2>3 DEF SupplierAssumption
    <3> QED BY <2>3, <3>1 DEF Pcs, Replies
  <2>4. CASE Move("checking") \/ Move("probing")
    BY <2>4 DEF Move, Pcs
  <2> QED BY <1>7, <2>1, <2>2, <2>3, <2>4 DEF Answered
<1>8. CASE Probe
  <2>1. CASE End("unknown")
    BY <2>1, EndTypes
  <2>2. CASE GiveUpSupplier("refused", discrepancies)
    BY <1>8, <2>2, GiveUpEffect, GivenUpTypes DEF Probe, Trying, JournalOK
  <2>3. CASE Move("marking")
    BY <2>3 DEF Move, Pcs
  <2> QED BY <1>8, <2>1, <2>2, <2>3 DEF Probe
<1>9. CASE Mark
  <2>1. CASE GiveUpSupplier("refused", discrepancies)
    BY <1>9, <2>1, GiveUpEffect, GivenUpTypes DEF Mark, Trying, JournalOK
  <2>2. CASE Move("checking")
    BY <2>2 DEF Move, Pcs
  <2> QED BY <1>9, <2>1, <2>2 DEF Mark
<1>10. CASE Check
  <2>1. CASE End("unknown") \/ End("ok")
    BY <2>1, EndTypes
  <2>2. ASSUME NEW kind \in Objections(req), RecordDiscrepancy(kind),
               GiveUpSupplier("refused", discrepancies')
        PROVE  LocalsOK'
    <3>1. Recorded(discrepancies')
      BY <1>10, <2>2, ObjectionsAreProven DEF Check, supplierVars, StageOK, JournalOK,
         SupplierAssumption
    <3> QED BY <1>10, <2>2, <3>1, GiveUpEffect, GivenUpTypes DEF Check, Trying
  <2> QED BY <1>10, <2>1, <2>2 DEF Check
<1>11. CASE Stop
  BY <1>11, EndTypes DEF Stop
<1>12. CASE Deliver \/ Refund
  BY <1>12 DEF Deliver, Refund, handlerVars
<1>13. CASE (\E c \in Codes : OthersBuy(c)) \/ (\E s \in Suppliers : ChangeItsMind(s))
            \/ UNCHANGED vars
  BY <1>13 DEF OthersBuy, ChangeItsMind, vars, handlerVars
<1> QED BY <1>1, <1>2, <1>3, <1>4, <1>5, <1>6, <1>7, <1>8, <1>9, <1>10, <1>11, <1>12,
     <1>13 DEF Next, Rest

-----------------------------------------------------------------------------
(* The course of a conversation, and how few requests it leaves.           *)

Over == {"idle"}

\* Where a step leads: to the end, to a new conversation, on with the
\* settling, to the first supplier, on with a supplier, to the second one.
Course ==
  \/ UNCHANGED <<pc, req, talks>>
  \/ pc' \in Over /\ UNCHANGED talks
  \/ pc \in Over /\ pc' = "settling" /\ talks' = talks + 1
  \/ pc \in Settling /\ pc' \in Settling /\ UNCHANGED talks
  \/ pc \in Settling /\ pc' = "trying" /\ req'[1] = "a" /\ UNCHANGED talks
  \/ pc \in Trying /\ pc' \in Trying /\ UNCHANGED <<req, talks>>
  \/ pc \in Trying /\ pc' = "trying" /\ req[1] = "a" /\ req'[1] = "b" /\ UNCHANGED talks

LEMMA StepsAlongCourse ==
  ASSUME [Next]_vars
  PROVE  Course
<1> USE DEF Course
<1>1. ASSUME NEW kind, End(kind) PROVE Course
  BY <1>1 DEF End, Over
<1>2. ASSUME NEW why, NEW found, GiveUpSupplier(why, found), pc \in Trying PROVE Course
  <2>1. CASE req[1] = "a"
    BY <1>2, <2>1 DEF GiveUpSupplier, Try, NextRequest
  <2>2. CASE req[1] # "a"
    BY <1>2, <2>2, <1>1 DEF GiveUpSupplier
  <2> QED BY <2>1, <2>2
<1>3. CASE Begin
  BY <1>3 DEF Begin, Over
<1>4. CASE Settled
  BY <1>4 DEF Settled, Try, NextRequest, Settling
<1>5. CASE (\E r \in Requests : SettleOne(r)) \/ CheckKnown
  <2>1. CASE \E kind : End(kind)
    BY <1>1, <2>1
  <2>2. CASE ~\E kind : End(kind)
    <3>1. pc \in Settling /\ pc' \in Settling /\ UNCHANGED talks
      BY <1>5, <2>2 DEF SettleOne, CheckKnown, Move, Settling
    <3> QED BY <3>1
  <2> QED BY <2>1, <2>2
<1>6. CASE Call \/ SupplierAnswers
  BY <1>1, <1>6 DEF Call, SupplierAnswers, Move, Trying
<1>7. CASE Answered
  BY <1>1, <1>2, <1>7 DEF Answered, Move, Trying
<1>8. CASE Probe \/ Mark \/ Check
  BY <1>1, <1>2, <1>8 DEF Probe, Mark, Check, Move, Trying
<1>9. CASE Stop
  BY <1>1, <1>9 DEF Stop
<1>10. CASE Deliver \/ Refund
  BY <1>10 DEF Deliver, Refund, handlerVars
<1>11. CASE (\E c \in Codes : OthersBuy(c)) \/ (\E s \in Suppliers : ChangeItsMind(s))
           \/ UNCHANGED vars
  BY <1>11 DEF OthersBuy, ChangeItsMind, vars, handlerVars
<1> QED BY <1>3, <1>4, <1>5, <1>6, <1>7, <1>8, <1>9, <1>10, <1>11 DEF Next, Rest

\* Only the request at hand is answered.
LEMMA UsedByStep ==
  ASSUME TablesOK, req \in Requests, [Next]_vars
  PROVE  \/ \A s \in Suppliers : Used(s)' = Used(s)
         \/ /\ pc \in Trying /\ pc' \in Trying /\ UNCHANGED <<req, talks>>
            /\ \A s \in Suppliers : IF s = req[1] THEN Used(s)' \subseteq Used(s) \cup {req}
                                                  ELSE Used(s)' = Used(s)
<1>1. CASE UNCHANGED answer
  BY <1>1 DEF Used
<1>2. CASE Decides
  <2>1. \A r \in Requests \ {req} : answer'[r] = answer[r]
    BY <1>2 DEF Decides, Claim, Lie, TablesOK, RowsOK
  <2> QED BY <1>2, <2>1 DEF Used, Decides, Trying
<1> QED BY <1>1, <1>2, TableSteps DEF OthersBuy, supplierVars, vars

LEMMA FewUsedKept ==
  ASSUME SupplierAssumption, TalkInv, [Next]_vars
  PROVE  FewUsed'
<1> SUFFICES ASSUME NEW s \in Suppliers
             PROVE  /\ Cardinality(Used(s)') <= talks'
                    /\ Untried(s)' => Cardinality(Used(s)') < talks'
                    /\ pc' \in Trying /\ req'[1] = s => Cardinality(Used(s)' \ {req'}) < talks'
  BY DEF FewUsed
<1> DEFINE n == Cardinality(Used(s))
<1>1. talks \in Nat /\ req \in Requests /\ TablesOK
  BY DEF TalkInv, LocalsOK, SupplierAssumption
<1>2. n \in Nat /\ IsFiniteSet(Used(s))
  BY UsedIsFinite
<1>3. n <= talks /\ (Untried(s) => n < talks)
      /\ (pc \in Trying /\ req[1] = s => Cardinality(Used(s) \ {req}) < talks)
  BY DEF TalkInv, FewUsed
<1>4. CASE Used(s)' = Used(s)
  <2> DEFINE rest == Used(s) \ {req'}
             m == Cardinality(rest)
  <2>1. m \in Nat /\ m <= n
    <3>1. IsFiniteSet(rest) /\ m <= n
      BY <1>2, FS_Subset
    <3> QED BY <3>1, FS_CardinalityType
  <2>2. pc \in Trying /\ UNCHANGED req /\ req'[1] = s => m < talks
    BY <1>3
  <2> HIDE DEF n, m
  <2>3. /\ n <= talks /\ n <= talks + 1 /\ n < talks + 1 /\ m < talks + 1
        /\ n < talks => m < talks
    BY <1>1, <1>2, <1>3, <2>1
  <2>4. /\ n <= talks'
        /\ Untried(s)' => n < talks'
        /\ pc' \in Trying /\ req'[1] = s => m < talks'
    <3> USE <1>3, <2>2, <2>3 DEF Untried, Over, Settling, Trying, Suppliers
    <3>1. CASE UNCHANGED <<pc, req, talks>>
      BY <3>1
    <3>2. CASE pc' \in Over /\ UNCHANGED talks
      BY <3>2
    <3>3. CASE pc' = "settling" /\ talks' = talks + 1
      BY <3>3
    <3>4. CASE pc \in Settling /\ UNCHANGED talks
      BY <3>4
    <3>5. CASE pc \in Trying /\ pc' \in Trying /\ UNCHANGED <<req, talks>>
      BY <3>5
    <3>6. CASE pc \in Trying /\ pc' = "trying" /\ req[1] = "a" /\ req'[1] = "b" /\ UNCHANGED talks
      BY <3>6
    <3> QED BY <3>1, <3>2, <3>3, <3>4, <3>5, <3>6, StepsAlongCourse DEF Course
  <2> QED BY <1>4, <2>4 DEF n, m
<1>5. CASE /\ pc \in Trying /\ pc' \in Trying /\ UNCHANGED <<req, talks>> /\ s = req[1]
           /\ Used(s)' \subseteq Used(s) \cup {req}
  <2> DEFINE rest == Used(s) \ {req}
             new  == Used(s)'
  <2>1. IsFiniteSet(rest) /\ Cardinality(rest) \in Nat /\ Cardinality(rest) < talks
    BY <1>2, <1>3, <1>5, FS_RemoveElement, FS_CardinalityType
  <2>2. /\ IsFiniteSet(rest \cup {req})
        /\ Cardinality(rest \cup {req}) = Cardinality(rest) + 1
    BY <2>1, FS_AddElement
  <2>3. new \in SUBSET (rest \cup {req}) /\ new \ {req} \in SUBSET rest
    BY <1>5
  <2> HIDE DEF rest, new
  <2>4. IsFiniteSet(new) /\ Cardinality(new) <= Cardinality(rest) + 1
    BY <2>2, <2>3, FS_Subset
  <2>5. Cardinality(new \ {req}) <= Cardinality(rest) /\ Cardinality(new \ {req}) \in Nat
    BY <2>1, <2>3, FS_Subset, FS_CardinalityType
  <2>6. Cardinality(new) \in Nat
    BY <2>4, FS_CardinalityType
  <2>7. Cardinality(new) <= talks /\ Cardinality(new \ {req}) < talks
    BY <1>1, <2>1, <2>4, <2>5, <2>6
  <2>8. ~Untried(s)'
    BY <1>5 DEF Untried, Settling, Trying
  <2> QED BY <1>5, <2>7, <2>8 DEF new
<1> QED BY <1>1, <1>4, <1>5, UsedByStep

-----------------------------------------------------------------------------
(* The journal, and what a handler holds.                                  *)

LEMMA JournalKept ==
  ASSUME SupplierAssumption, TalkInv, [Next]_vars
  PROVE  JournalOK'
<1> USE DEF TalkInv
<1>1. CASE UNCHANGED <<answer, doubtful, discrepancies, attempt>> /\ UNCHANGED <<pc, req>>
  BY <1>1 DEF JournalOK, Recorded
<1>2. CASE UNCHANGED <<journalVars, supplierVars>> /\ {pc, pc'} \cap {"asked", "answered"} = {}
  BY <1>2 DEF JournalOK, Recorded, journalVars, supplierVars
<1>3. ASSUME NEW kind, End(kind) PROVE pc' \notin {"asked", "answered"}
  BY <1>3 DEF End
<1>4. ASSUME NEW why, NEW found, GiveUpSupplier(why, found) PROVE pc' \notin {"asked", "answered"}
  BY <1>3, <1>4 DEF GiveUpSupplier, Try
<1>5. CASE Begin \/ (\E r \in Requests : SettleOne(r)) \/ Settled
  BY <1>2, <1>3, <1>5 DEF Begin, SettleOne, Settled, Try
<1>6. CASE CheckKnown
  <2>1. Recorded(discrepancies)'
    <3>1. CASE UNCHANGED discrepancies
      BY <1>6, <3>1 DEF CheckKnown, JournalOK, Recorded, supplierVars
    <3>2. CASE \E kind \in Objections(req) : RecordDiscrepancy(kind)
      BY <1>6, <3>2, ObjectionsAreProven DEF CheckKnown, supplierVars, StageOK, JournalOK,
         LocalsOK, SupplierAssumption
    <3> QED BY <1>6, <3>1, <3>2 DEF CheckKnown, journalVars
  <2>2. doubtful' \subseteq Requests /\ attempt' = attempt
    BY <1>6 DEF CheckKnown, journalVars, MarkOk, JournalOK, LocalsOK
  <2>3. pc' \notin {"asked", "answered"}
    BY <1>3, <1>6 DEF CheckKnown, Move
  <2> QED BY <1>6, <2>1, <2>2, <2>3 DEF CheckKnown, JournalOK
<1>7. CASE Call
  <2>1. CASE End("throttled") /\ UNCHANGED <<attempt, doubtful>>
    BY <1>2, <1>3, <1>7, <2>1 DEF Call, journalVars
  <2>2. CASE Start /\ Move("asked")
    BY <1>7, <2>2 DEF Call, Start, Move, JournalOK, Recorded, supplierVars
  <2> QED BY <1>7, <2>1, <2>2 DEF Call
<1>8. CASE SupplierAnswers
  <2>1. \A r \in Requests : answer[r] # "none" => answer'[r] # "none"
    <3>1. CASE UNCHANGED answer
      BY <3>1
    <3>2. CASE Decides
      <4>1. \A r \in Requests \ {req} : answer'[r] = answer[r]
        BY <3>2 DEF Decides, Claim, Lie, TablesOK, RowsOK
      <4>2. answer[req] = "none"
        BY <3>2 DEF Decides, Claim, Lie
      <4> QED BY <4>1, <4>2
    <3> QED BY <1>8, <3>1, <3>2 DEF SupplierAnswers, Serve, TurnDown, Replay, Decides,
         supplierVars
  <2>2. Recorded(discrepancies)'
    BY <1>8, <2>1 DEF SupplierAnswers, JournalOK, Recorded, journalVars
  <2> QED BY <1>8, <2>2 DEF SupplierAnswers, JournalOK, journalVars
<1>9. CASE Answered
  <2>1. pc' \notin {"asked", "answered"}
    BY <1>3, <1>4, <1>9 DEF Answered, Move
  <2> QED BY <1>9, <2>1 DEF Answered, Finish, JournalOK, Recorded, LocalsOK, supplierVars
<1>10. CASE Probe
  <2>1. pc' \notin {"asked", "answered"} /\ pc \notin {"asked", "answered"}
    BY <1>3, <1>4, <1>10 DEF Probe, Move
  <2>2. Recorded(discrepancies)'
    <3>1. CASE UNCHANGED discrepancies
      BY <1>10, <3>1 DEF Probe, JournalOK, Recorded, supplierVars
    <3>2. CASE answer[req] # "none" /\ RecordDiscrepancy("phantom_error")
      <4>1. discrepancies' = discrepancies \cup {<<req, "phantom_error">>} /\ answer' = answer
        BY <1>10, <3>2 DEF Probe, RecordDiscrepancy, supplierVars
      <4>2. <<req, "phantom_error">> \in Requests \X Proven
        BY DEF LocalsOK, Proven
      <4> QED BY <3>2, <4>1, <4>2 DEF JournalOK, Recorded
    <3> QED BY <1>10, <3>1, <3>2 DEF Probe
  <2> QED BY <1>10, <2>1, <2>2 DEF Probe, JournalOK
<1>11. CASE Mark
  <2>1. pc' \notin {"asked", "answered"} /\ pc \notin {"asked", "answered"}
    BY <1>3, <1>4, <1>11 DEF Mark, Move
  <2> QED BY <1>11, <2>1 DEF Mark, MarkOk, JournalOK, Recorded, LocalsOK, supplierVars
<1>12. CASE Check
  <2>1. pc' \notin {"asked", "answered"} /\ pc \notin {"asked", "answered"}
    BY <1>3, <1>4, <1>12 DEF Check
  <2>2. Recorded(discrepancies)'
    <3>1. CASE UNCHANGED discrepancies
      BY <1>12, <3>1 DEF Check, JournalOK, Recorded, supplierVars
    <3>2. CASE \E kind \in Objections(req) : RecordDiscrepancy(kind)
      BY <1>12, <3>2, ObjectionsAreProven DEF Check, supplierVars, StageOK, JournalOK,
         LocalsOK, SupplierAssumption
    <3> QED BY <1>12, <3>1, <3>2 DEF Check
  <2> QED BY <1>12, <2>1, <2>2 DEF Check, JournalOK
<1>13. CASE Stop
  <2>1. pc' \notin {"asked", "answered"}
    BY <1>3, <1>13 DEF Stop
  <2>2. Suspects \subseteq Requests
    BY DEF Suspects, JournalOK, LocalsOK
  <2> QED BY <1>13, <2>1, <2>2 DEF Stop, JournalOK, Recorded, supplierVars
<1>14. CASE Deliver \/ Refund
  BY <1>1, <1>14 DEF Deliver, Refund, handlerVars, journalVars, supplierVars
<1>15. CASE (\E c \in Codes : OthersBuy(c)) \/ (\E s \in Suppliers : ChangeItsMind(s))
            \/ UNCHANGED vars
  BY <1>1, <1>15 DEF OthersBuy, ChangeItsMind, vars, handlerVars, journalVars, supplierVars
<1> QED BY <1>5, <1>6, <1>7, <1>8, <1>9, <1>10, <1>11, <1>12, <1>13, <1>14, <1>15
     DEF Next, Rest

LEMMA StageKept ==
  ASSUME SupplierAssumption, TalkInv, [Next]_vars
  PROVE  StageOK'
<1> USE DEF TalkInv
<1>1. ASSUME NEW kind, End(kind) PROVE StageOK'
  BY <1>1 DEF End, StageOK, Settling
<1>2. ASSUME pc \in Trying, GivenUp PROVE StageOK'
  BY <1>1, <1>2 DEF GivenUp, StageOK, Settling, Trying
<1>3. CASE Begin
  BY <1>3 DEF Begin, StageOK, Settling, Suspects, JournalOK, journalVars
<1>4. ASSUME NEW r \in Requests, SettleOne(r) PROVE StageOK'
  <2>1. CASE End("unknown")
    BY <1>1, <2>1
  <2>2. CASE ~End("unknown")
    BY <1>4, <2>2 DEF SettleOne, StageOK, Settling, supplierVars, journalVars
  <2> QED BY <2>1, <2>2
<1>5. CASE Settled
  BY <1>5 DEF Settled, Try, StageOK, Settling
<1>6. CASE CheckKnown
  <2>1. CASE End("ok")
    BY <1>1, <2>1
  <2>2. CASE ~End("ok")
    BY <1>6, <2>2 DEF CheckKnown, Move, StageOK, Settling, journalVars
  <2> QED BY <2>1, <2>2
<1>7. CASE Call
  <2>1. CASE End("throttled")
    BY <1>1, <2>1
  <2>2. CASE ~End("throttled")
    BY <1>7, <2>2 DEF Call, Move, StageOK, Settling
  <2> QED BY <2>1, <2>2
<1>8. CASE SupplierAnswers
  <2>1. reply' = "code" => answer'[req] \in Codes
    <3>1. CASE UNCHANGED answer
      BY <1>8, <3>1 DEF SupplierAnswers, Serve, TurnDown, Told, NotTold, Phantom, Replay, Claim,
         Lie, TablesOK, RowsOK, LocalsOK
    <3>2. CASE Decides
      <4>1. answer'[req] \in Codes \cup {"error"}
        BY <3>2 DEF Decides, Claim, Lie, TablesOK, RowsOK, LocalsOK, SupplierAssumption
      <4> QED BY <1>8, <4>1 DEF SupplierAnswers, Serve, TurnDown, Told, NotTold, Phantom
    <3> QED BY <1>8, <3>1, <3>2 DEF SupplierAnswers, Serve, TurnDown, Replay, Decides,
         supplierVars
  <2> QED BY <1>8, <2>1 DEF SupplierAnswers, StageOK, Settling
<1>9. CASE Answered
  <2>1. CASE End("throttled")
    BY <1>1, <2>1
  <2>2. CASE \E why : GiveUpSupplier(why, discrepancies)
    BY <1>2, <1>9, <2>2, GiveUpEffect DEF Answered, Trying, JournalOK
  <2>3. CASE reply = "code" /\ Move("checking")
    BY <1>9, <2>3 DEF Answered, Finish, Move, StageOK, Settling, supplierVars
  <2>4. CASE reply \in {"refused", "lost"} /\ Move("probing")
    BY <1>9, <2>4 DEF Answered, Finish, Move, StageOK, Settling
  <2>5. CASE pc' = "trying" /\ UNCHANGED result
    BY <1>9, <2>5 DEF Answered, StageOK, Settling
  <2> QED BY <1>9, <2>1, <2>2, <2>3, <2>4, <2>5 DEF Answered
<1>10. CASE Probe
  <2>1. CASE End("unknown")
    BY <1>1, <2>1
  <2>2. CASE GiveUpSupplier("refused", discrepancies)
    BY <1>2, <1>10, <2>2, GiveUpEffect DEF Probe, Trying, JournalOK
  <2>3. CASE answer[req] # "none" /\ Move("marking")
    BY <1>10, <2>3 DEF Probe, Move, StageOK, Settling, supplierVars
  <2> QED BY <1>10, <2>1, <2>2, <2>3 DEF Probe
<1>11. CASE Mark
  <2>1. CASE GiveUpSupplier("refused", discrepancies)
    BY <1>2, <1>11, <2>1, GiveUpEffect DEF Mark, Trying, JournalOK
  <2>2. CASE answer[req] \in Codes /\ Move("checking")
    BY <1>11, <2>2 DEF Mark, MarkOk, Move, StageOK, Settling, supplierVars
  <2> QED BY <1>11, <2>1, <2>2 DEF Mark
<1>12. CASE Check
  <2>1. CASE End("unknown") \/ End("ok")
    BY <1>1, <2>1
  <2>2. ASSUME NEW kind \in Objections(req), RecordDiscrepancy(kind),
               GiveUpSupplier("refused", discrepancies')
        PROVE  StageOK'
    <3>1. Recorded(discrepancies')
      BY <1>12, <2>2, ObjectionsAreProven DEF Check, supplierVars, StageOK, JournalOK,
         LocalsOK, SupplierAssumption
    <3> QED BY <1>2, <1>12, <2>2, <3>1, GiveUpEffect DEF Check, Trying
  <2> QED BY <1>12, <2>1, <2>2 DEF Check
<1>13. CASE Stop
  BY <1>1, <1>13 DEF Stop
<1>14. CASE Deliver \/ Refund
  BY <1>14 DEF Deliver, Refund, handlerVars, journalVars, supplierVars, StageOK
<1>15. CASE (\E c \in Codes : OthersBuy(c)) \/ (\E s \in Suppliers : ChangeItsMind(s))
            \/ UNCHANGED vars
  BY <1>15 DEF OthersBuy, ChangeItsMind, vars, handlerVars, journalVars, supplierVars,
     StageOK
<1> QED BY <1>3, <1>4, <1>5, <1>6, <1>7, <1>8, <1>9, <1>10, <1>11, <1>12, <1>13, <1>14, <1>15
     DEF Next, Rest

LEMMA TalkInvInit == ASSUME SupplierAssumption, Init PROVE TalkInv
<1> USE DEF Init
<1>1. TablesOK
  <2>1. Own = {}
    BY RequestForms DEF Own
  <2> QED BY <2>1 DEF TablesOK, RowsOK, OwnAnswered, LiesShow, SupplierAssumption
<1>2. FewUsed
  <2>1. \A s \in Suppliers : Used(s) = {}
    BY DEF Used
  <2>2. Cardinality({}) = 0 /\ talks = 0 /\ pc = "idle"
    BY FS_EmptySet
  <2>3. \A s \in Suppliers : Cardinality(Used(s)) = 0
    BY <2>1, <2>2
  <2>4. pc \notin Trying /\ pc \notin Settling
    BY <2>2 DEF Trying, Settling
  <2> HIDE DEF Init
  <2> QED BY <2>2, <2>3, <2>4 DEF FewUsed, Untried
<1>3. LocalsOK
  <2>1. req \in Requests
    BY DEF Requests, Suppliers, MaxGeneration, SupplierAssumption
  <2>2. call \in 0..(MaxCalls - 1) /\ talks \in 0..MaxTalks
    BY DEF SupplierAssumption
  <2> QED BY <2>1, <2>2 DEF LocalsOK, Pcs, Replies
<1>4. JournalOK /\ StageOK
  BY DEF JournalOK, StageOK, Recorded, Settling
<1> QED BY <1>1, <1>2, <1>3, <1>4 DEF TalkInv

LEMMA TalkInvStep == ASSUME SupplierAssumption, TalkInv, [Next]_vars PROVE TalkInv'
BY TablesKept, FewUsedKept, LocalsKept, JournalKept, StageKept DEF TalkInv, LocalsOK

LEMMA TalkInvariant == Spec => []TalkInv
BY SupplierAssumption, TalkInvInit, TalkInvStep, PTL DEF Spec

LEMMA WorldFixed == ASSUME [Next]_vars PROVE UNCHANGED world
BY DEF Next, vars, Begin, SettleOne, Settled, CheckKnown, Call, SupplierAnswers, Answered,
   Probe, Mark, Check, Stop, Deliver, Refund, OthersBuy, ChangeItsMind, Rest

LEMMA SuppliersSell ==
  ASSUME [Next]_vars
  PROVE  UNCHANGED sells \/ (\E s \in Suppliers : ChangeItsMind(s))
BY DEF Next, vars, Begin, SettleOne, Settled, CheckKnown, Call, SupplierAnswers, Answered,
   Probe, Mark, Check, Stop, Deliver, Refund, OthersBuy, Rest

LEMMA ItemSteps == ASSUME [Next]_vars PROVE UNCHANGED item \/ Deliver \/ Refund
BY DEF Next, vars, Begin, SettleOne, Settled, CheckKnown, Call, SupplierAnswers, Answered,
   Probe, Mark, Check, Stop, OthersBuy, ChangeItsMind, Rest

\* All but these steps are those of a conversation under way.
LEMMA TalkSteps ==
  ASSUME [Next]_vars
  PROVE  UNCHANGED <<pc, result>> \/ Begin \/ Stop \/ pc # "idle"
BY DEF Next, vars, handlerVars, SettleOne, Settled, CheckKnown, Call, SupplierAnswers, Answered,
   Probe, Mark, Check, Deliver, Refund, OthersBuy, ChangeItsMind, Rest

\* Once the code is handed over the item is not talked about.
ItemOK ==
  /\ item \in {"open", "refunded", "delivered"}
  /\ item = "delivered" => pc = "idle" /\ result = "ok"

LEMMA ItemKept == ASSUME ItemOK, [Next]_vars PROVE ItemOK'
<1>1. CASE Deliver \/ Refund
  BY <1>1 DEF Deliver, Refund, handlerVars, ItemOK
<1>2. CASE UNCHANGED item
  BY <1>2, TalkSteps DEF Begin, Skipped, Stop, ItemOK
<1> QED BY <1>1, <1>2, ItemSteps

LEMMA ItemInvariant == Spec => []ItemOK
<1>1. Init => ItemOK
  BY DEF Init, ItemOK
<1> QED BY <1>1, ItemKept, PTL DEF Spec

\* The tables and the handler stay within their values, however long the talks
\* are: the generations of a request stay within the bound.
THEOREM SupplierTypeOK == Spec => []TypeOK
<1> DEFINE WorldOK == world \in Worlds /\ sells \in [Suppliers -> {"yes", "out", "never"}]
<1>1. Init => WorldOK
  BY DEF Init
<1>2. WorldOK /\ [Next]_vars => WorldOK'
  BY WorldFixed, SuppliersSell DEF ChangeItsMind
<1>3. TalkInv /\ WorldOK /\ ItemOK => TypeOK
  BY DEF ItemOK, TalkInv, TablesOK, RowsOK, LocalsOK, JournalOK, Recorded, Proven, Kinds, TypeOK
<1> QED BY <1>1, <1>2, <1>3, TalkInvariant, ItemInvariant, PTL DEF Spec

-----------------------------------------------------------------------------
(* What is accepted.                                                       *)

\* A code is accepted by a check that finds nothing against it.
LEMMA Accepting ==
  ASSUME TalkInv, [Next]_vars, result' = "ok"
  PROVE  \/ result = "ok" /\ UNCHANGED req
         \/ /\ pc \in {"checking", "checking known"} /\ Objections(req) = {}
            /\ UNCHANGED <<req, supplierVars>>
<1>1. ASSUME NEW kind, End(kind) PROVE kind = "ok" /\ UNCHANGED req
  BY <1>1 DEF End
<1>2. pc \notin Over => result = "none"
  BY DEF TalkInv, StageOK, Over
<1>3. ASSUME NEW why, NEW found, GiveUpSupplier(why, found), pc \notin Over PROVE FALSE
  <2>1. CASE req[1] = "a"
    BY <1>2, <1>3, <2>1 DEF GiveUpSupplier
  <2>2. CASE req[1] # "a"
    <3>1. PICK kind \in NotSold : End(kind)
      BY <1>3, <2>2 DEF GiveUpSupplier, NotSold
    <3> QED BY <1>1, <3>1 DEF NotSold
  <2> QED BY <2>1, <2>2
<1> USE DEF Over
<1>4. CASE Begin \/ Settled \/ SupplierAnswers
  BY <1>2, <1>4 DEF Begin, Settled, SupplierAnswers
<1>5. CASE (\E r \in Requests : SettleOne(r)) \/ CheckKnown
  BY <1>1, <1>2, <1>5 DEF SettleOne, CheckKnown, Move
<1>6. CASE Call \/ Answered
  BY <1>1, <1>2, <1>3, <1>6 DEF Call, Answered, Move
<1>7. CASE Probe \/ Mark
  BY <1>1, <1>2, <1>3, <1>7 DEF Probe, Mark, Move
<1>8. CASE Check
  BY <1>1, <1>2, <1>3, <1>8 DEF Check, Move
<1>9. CASE Stop
  BY <1>1, <1>9 DEF Stop
<1>10. CASE Deliver \/ Refund \/ (\E c \in Codes : OthersBuy(c))
            \/ (\E s \in Suppliers : ChangeItsMind(s)) \/ UNCHANGED vars
  BY <1>10 DEF Deliver, Refund, OthersBuy, ChangeItsMind, vars, handlerVars
<1> QED BY <1>4, <1>5, <1>6, <1>7, <1>8, <1>9, <1>10 DEF Next, Rest

LEMMA AcceptedKept ==
  ASSUME SupplierAssumption, TalkInv, AcceptedIsOurs, [Next]_vars
  PROVE  AcceptedIsOurs'
<1> SUFFICES ASSUME result' = "ok" PROVE answer'[req'] \in RightSku /\ keyOf'[answer'[req']] = req'
  BY DEF AcceptedIsOurs
<1> USE DEF TalkInv, TablesOK
<1>1. CASE result = "ok" /\ UNCHANGED req
  <2>1. answer[req] \in RightSku /\ keyOf[answer[req]] = req /\ req \in Requests
    BY <1>1 DEF AcceptedIsOurs, LocalsOK
  <2>2. answer[req] \in Own
    BY <2>1 DEF Own, SupplierAssumption
  <2>3. CASE UNCHANGED supplierVars
    BY <1>1, <2>1, <2>3 DEF supplierVars
  <2>4. CASE \E c \in Codes : OthersBuy(c)
    BY <1>1, <2>1, <2>2, <2>4, OthersBuyKeepsTables DEF OthersBuy
  <2>5. pc # "asked"
    BY <1>1 DEF StageOK
  <2> QED BY <2>3, <2>4, <2>5, TableSteps DEF vars, Decides
<1>2. CASE /\ pc \in {"checking", "checking known"} /\ Objections(req) = {}
           /\ UNCHANGED <<req, supplierVars>>
  <2>1. answer[req] \in Codes /\ req \in Requests
    BY <1>2 DEF StageOK, LocalsOK
  <2>2. keyOf[answer[req]] \in {req, Free} /\ answer[req] \in RightSku
    BY <1>2 DEF Objections
  <2>3. keyOf[answer[req]] # Free
    BY <2>1, <2>2 DEF LiesShow
  <2> QED BY <1>2, <2>2, <2>3 DEF supplierVars
<1> QED BY <1>1, <1>2, Accepting

\* Only a code of the item's sku that was issued to the very request is
\* accepted, whatever the suppliers answer and whenever it is found.
THEOREM SupplierAcceptedIsOurs == Spec => []AcceptedIsOurs
<1>1. Init => AcceptedIsOurs
  BY DEF Init, AcceptedIsOurs
<1>2. TalkInv /\ AcceptedIsOurs /\ [Next]_vars => AcceptedIsOurs'
  BY SupplierAssumption, AcceptedKept
<1> QED BY <1>1, <1>2, TalkInvariant, PTL DEF Spec

-----------------------------------------------------------------------------
(* Where a code issued for the item is found.                              *)

\* An own code can be found: its request is the one at hand, or among those to
\* be settled, or in the journal; no conversation has ended in a refusal, and
\* the supplier cannot claim that it sells nothing.
FoundAt(c) ==
  LET r == keyOf[c] IN
  /\ pc \in Over => r \in doubtful /\ result \notin NotSold
  /\ pc = "settling" => r \in todo
  /\ pc = "checking known" => r \in todo \cup {req}
  /\ pc \in Trying =>
       /\ r = req
       /\ \/ req \in doubtful \/ "phantom" \in world
          \/ pc = "answered" /\ reply \in {"code", "lost"}
  /\ pc = "answered" => reply \notin {"out_of_stock", "never"}
  /\ pc = "answered" /\ reply = "limited" => "phantom" \notin world
  /\ IF "fickle" \in world
     THEN /\ pc \notin {"trying", "asked", "probing", "marking"}
          /\ pc = "answered" => reply = "code"
     ELSE sells[SoldBy[c]] = "yes"

AllFound == \A c \in Own : FoundAt(c)
OneOwn   == \A c, d \in Own : c = d

\* Nothing speaks against an own code.
LEMMA OwnPasses ==
  ASSUME TablesOK, NEW c \in Own, keyOf[c] = req
  PROVE  answer[req] = c /\ c \in Codes /\ req \in Requests /\ Objections(req) = {}
<1>1. c \in Codes /\ req \in Requests
  BY DEF Own
<1>2. answer[req] = c /\ c \in RightSku /\ SoldBy[c] = req[1]
  BY DEF TablesOK, OwnAnswered
<1> QED BY <1>1, <1>2 DEF Objections



\* A step leaves a code found that was, wherever it leads.
LEMMA StaysFound ==
  ASSUME SupplierAssumption, TalkInv, Tolerable, [Next]_vars,
         NEW c \in Own, FoundAt(c), keyOf'[c] = keyOf[c]
  PROVE  FoundAt(c)'
<1> DEFINE r == keyOf[c]
<1> USE WorldFixed DEF TalkInv
<1>1. /\ "phantom" \in world => "stop" \notin world /\ "throttle" \notin world
      /\ "no probe after error" \notin world /\ "no owner when settling" \notin world
  BY DEF Tolerable
<1>2. /\ answer[r] = c /\ c \in Codes /\ SoldBy[c] = r[1] /\ r \in Requests
      /\ c # "none" /\ c # "error"
  BY DEF TablesOK, OwnAnswered, Own, SupplierAssumption
<1>3. r = req => Objections(req) = {}
  BY OwnPasses
<1>4. pc \in Trying => r = req
  BY DEF FoundAt
<1>5. ASSUME NEW kind \in {"ok", "unknown", "throttled", "stopped"}, End(kind),
             r \in doubtful', UNCHANGED sells
      PROVE  FoundAt(c)'
  BY <1>5 DEF End, FoundAt, NotSold, Over, Trying
<1>6. CASE Begin
  BY <1>6 DEF Begin, FoundAt, Over, Trying, Suspects
<1>7. ASSUME NEW q \in Requests, SettleOne(q) PROVE FoundAt(c)'
  <2>1. pc = "settling" /\ r \in todo /\ r \in doubtful
    BY <1>7 DEF SettleOne, FoundAt, StageOK, Settling
  <2>2. CASE End("unknown")
    BY <1>5, <1>7, <2>1, <2>2 DEF SettleOne, journalVars
  <2>3. CASE ~End("unknown")
    BY <1>2, <1>7, <2>1, <2>3 DEF SettleOne, FoundAt, Over, Trying
  <2> QED BY <2>2, <2>3
<1>8. CASE Settled
  BY <1>8 DEF Settled, FoundAt
<1>9. CASE CheckKnown
  <2>1. r \in todo \cup {req} /\ r \in doubtful'
    BY <1>9 DEF CheckKnown, FoundAt, StageOK, Settling, MarkOk, journalVars
  <2>2. CASE End("ok")
    BY <1>5, <1>9, <2>1, <2>2 DEF CheckKnown
  <2>3. CASE \E kind \in Objections(req) : Move("settling")
    BY <1>3, <1>9, <2>1, <2>3 DEF CheckKnown, Move, FoundAt, Over, Trying
  <2> QED BY <1>1, <1>9, <2>2, <2>3 DEF CheckKnown
<1>10. CASE Call
  <2>1. r = req /\ (req \in doubtful \/ "phantom" \in world) /\ "fickle" \notin world
    BY <1>10 DEF Call, FoundAt, Trying
  <2>2. CASE "throttle" \in world /\ End("throttled") /\ UNCHANGED doubtful
    BY <1>1, <1>5, <1>10, <2>1, <2>2 DEF Call
  <2>3. CASE Start /\ Move("asked")
    BY <1>10, <2>1, <2>3 DEF Call, Start, Move, FoundAt, Over, Trying
  <2> QED BY <1>10, <2>2, <2>3 DEF Call
<1>11. CASE SupplierAnswers
  <2>1. r = req /\ (req \in doubtful \/ "phantom" \in world)
        /\ "fickle" \notin world /\ sells[req[1]] = "yes"
    BY <1>2, <1>11 DEF SupplierAnswers, FoundAt, Trying
  <2>2. UNCHANGED supplierVars
    BY <1>2, <1>11, <2>1 DEF SupplierAnswers, Serve, Claim, Lie, Replay, TurnDown
  <2>3. reply' \notin {"out_of_stock", "never"} /\ (reply' = "limited" => "phantom" \notin world)
    BY <1>1, <1>2, <1>11, <2>1, <2>2
       DEF SupplierAnswers, Serve, TurnDown, Told, NotTold, Phantom, supplierVars
  <2> QED BY <1>2, <1>11, <2>1, <2>3 DEF SupplierAnswers, FoundAt, Over, Trying, journalVars
<1>12. CASE Answered
  <2>1. /\ r = req /\ reply \notin {"out_of_stock", "never"}
        /\ "fickle" \in world => reply = "code"
        /\ "fickle" \notin world => sells[SoldBy[c]] = "yes"
        /\ reply \in {"limited", "refused"} => req \in doubtful \/ "phantom" \in world
        /\ reply = "limited" => "phantom" \notin world
    BY <1>12 DEF Answered, FoundAt, Trying
  <2>2. doubtful \subseteq doubtful' /\ (reply \in {"code", "lost"} => req \in doubtful')
    BY <1>12 DEF Answered, Finish
  <2>3. CASE reply = "limited" /\ End("throttled")
    BY <1>5, <1>12, <2>1, <2>2, <2>3 DEF Answered
  <2>4. CASE reply = "code" /\ Move("checking")
    BY <1>12, <2>1, <2>2, <2>4 DEF Answered, Move, FoundAt, Over, Trying
  <2>5. CASE reply \in {"refused", "lost"} /\ pc' \in {"trying", "probing"} /\ UNCHANGED req
    BY <1>12, <2>1, <2>2, <2>5 DEF Answered, FoundAt, Over, Trying
  <2> QED BY <1>12, <2>1, <2>3, <2>4, <2>5 DEF Answered, Move
<1>13. CASE Probe
  <2>1. /\ r = req /\ (req \in doubtful \/ "phantom" \in world) /\ "fickle" \notin world
        /\ sells[SoldBy[c]] = "yes" /\ answer[req] # "none"
    BY <1>2, <1>13 DEF Probe, FoundAt, Trying
  <2>2. CASE reply = "lost" /\ End("unknown")
    BY <1>5, <1>13, <2>1, <2>2 DEF Probe, StageOK
  <2>3. CASE Move("marking")
    BY <1>13, <2>1, <2>3 DEF Probe, Move, FoundAt, Over, Trying
  <2> QED BY <1>1, <1>13, <2>1, <2>2, <2>3 DEF Probe
<1>14. CASE Mark
  <2>1. r = req /\ answer[req] \in Codes /\ (pc = "marking" => "fickle" \notin world)
        /\ sells[SoldBy[c]] = "yes"
    BY <1>2, <1>14 DEF Mark, FoundAt, Trying
  <2> QED BY <1>14, <2>1 DEF Mark, MarkOk, Move, FoundAt, Over, Trying
<1>15. CASE Check
  <2>1. r = req /\ req \in doubtful
    BY <1>15 DEF Check, FoundAt, Trying, StageOK
  <2>2. CASE End("unknown") \/ End("ok")
    BY <1>5, <1>15, <2>1, <2>2 DEF Check
  <2> QED BY <1>3, <1>15, <2>1, <2>2 DEF Check
<1>16. CASE Stop
  <2>1. r \in doubtful'
    BY <1>1, <1>16 DEF Stop, FoundAt, Suspects, StageOK, JournalOK, LocalsOK, Pcs, Over, Trying,
       Settling
  <2> QED BY <1>5, <1>16, <2>1 DEF Stop
<1>17. CASE Deliver \/ Refund
  BY <1>17 DEF Deliver, Refund, handlerVars, journalVars, FoundAt
<1>18. CASE (\E d \in Codes : OthersBuy(d)) \/ UNCHANGED vars
  BY <1>18 DEF OthersBuy, vars, handlerVars, journalVars, FoundAt
<1>19. CASE \E s \in Suppliers : ChangeItsMind(s)
  BY <1>19 DEF ChangeItsMind, handlerVars, journalVars, FoundAt
<1> QED BY <1>6, <1>7, <1>8, <1>9, <1>10, <1>11, <1>12, <1>13, <1>14, <1>15, <1>16, <1>17,
     <1>18, <1>19 DEF Next, Rest

\* A new code is issued only while there is none.
LEMMA FoundKept ==
  ASSUME SupplierAssumption, TalkInv, Tolerable, AllFound, OneOwn, [Next]_vars
  PROVE  AllFound' /\ OneOwn'
<1> USE DEF TalkInv
<1>1. CASE UNCHANGED supplierVars \/ (\E c \in Codes : OthersBuy(c))
  <2>1. Own' = Own /\ \A c \in Own : keyOf'[c] = keyOf[c]
    BY <1>1, OthersBuyKeepsTables DEF supplierVars, Own
  <2> QED BY <2>1, StaysFound DEF AllFound, OneOwn
<1>2. CASE Decides /\ Lie(req)
  <2>1. Own' = Own /\ keyOf' = keyOf
    BY <1>2 DEF Lie, Own
  <2> QED BY <2>1, StaysFound DEF AllFound, OneOwn
<1>3. CASE Decides /\ Claim(req)
  <2>1. answer[req] = "none" /\ pc = "asked" /\ pc' = "answered" /\ req \in Requests
    BY <1>3 DEF Decides, Claim, LocalsOK
  <2>2. Own = {}
    <3> SUFFICES ASSUME NEW c \in Own PROVE FALSE
      OBVIOUS
    <3>1. keyOf[c] = req
      BY <2>1 DEF AllFound, FoundAt, Trying
    <3> QED BY <2>1, <3>1, OwnPasses DEF SupplierAssumption
  <2>3. CASE UNCHANGED keyOf
    BY <2>2, <2>3 DEF AllFound, OneOwn, Own
  <2>4. ASSUME NEW c \in Codes, SoldBy[c] = req[1], keyOf' = [keyOf EXCEPT ![c] = req],
               answer' = [answer EXCEPT ![req] = c]
        PROVE  AllFound' /\ OneOwn'
    <3>1. Own' = {c} /\ keyOf'[c] = req
      BY <2>1, <2>2, <2>4 DEF Own, TablesOK, RowsOK
    <3>2. FoundAt(c)'
      <4>1. answer'[req] = c /\ c # "none" /\ c # "error" /\ UNCHANGED <<req, world, sells>>
        BY <1>3, <2>1, <2>4 DEF Decides, TablesOK, RowsOK, SupplierAssumption
      <4>2. /\ sells[req[1]] = "yes"
            /\ \/ reply' = "code" \/ ("lost" \in world /\ reply' = "lost")
               \/ ("phantom" \in world /\ reply' = "refused")
        BY <1>3, <4>1 DEF Decides, Told, NotTold, Phantom
      <4>3. "fickle" \in world => "lost" \notin world /\ "phantom" \notin world
        BY DEF Tolerable
      <4> QED BY <2>1, <2>4, <3>1, <4>1, <4>2, <4>3 DEF FoundAt, Over, Trying
    <3> QED BY <3>1, <3>2 DEF AllFound, OneOwn
  <2> QED BY <1>3, <2>3, <2>4 DEF Claim, SupplierAssumption
<1> QED BY <1>1, <1>2, <1>3, TableSteps DEF Decides, vars

SupplierInv == TalkInv /\ AcceptedIsOurs /\ (Tolerable => AllFound /\ OneOwn)

LEMMA OwnAtMostOne == ASSUME OneOwn PROVE Cardinality(Own) <= 1
<1>1. CASE Own = {}
  BY <1>1, FS_EmptySet
<1>2. ASSUME NEW c \in Own PROVE Cardinality(Own) <= 1
  <2>1. Own = {c}
    BY DEF OneOwn
  <2>2. Cardinality({c}) = 1
    BY FS_Singleton
  <2> QED BY <2>1, <2>2
<1> QED BY <1>1, <1>2

LEMMA SupplierInvInit == ASSUME SupplierAssumption, Init PROVE SupplierInv
<1>1. Own = {}
  BY RequestForms DEF Own, Init
<1>2. AcceptedIsOurs
  BY DEF Init, AcceptedIsOurs
<1> QED BY <1>1, <1>2, TalkInvInit DEF SupplierInv, AllFound, OneOwn

LEMMA SupplierInvStep ==
  ASSUME SupplierAssumption, SupplierInv, [Next]_vars PROVE SupplierInv'
<1>1. Tolerable' <=> Tolerable
  BY WorldFixed DEF Tolerable
<1> QED BY <1>1, TalkInvStep, AcceptedKept, FoundKept DEF SupplierInv

LEMMA SupplierInvariant == Spec => []SupplierInv
BY SupplierAssumption, SupplierInvInit, SupplierInvStep, PTL DEF Spec

\* One item costs one code: whatever answers are lost, repeated or false and
\* wherever the handler stops, within the faults the client copes with.
THEOREM SupplierOneCodePerItem == Spec => []OneCodePerItem
<1>1. SupplierInv => OneCodePerItem
  BY OwnAtMostOne DEF SupplierInv, OneCodePerItem
<1> QED BY <1>1, SupplierInvariant, PTL

\* A code that was issued for the item is never forgotten.
THEOREM SupplierCodesCanBeFound == Spec => []CodesCanBeFound
<1>1. ASSUME SupplierInv, Tolerable, NEW c \in Own
      PROVE  keyOf[c] \in Suspects \/ (keyOf[c] = req /\ pc \notin {"idle", "settling"})
  <2>1. FoundAt(c) /\ pc \in Over \cup Settling \cup Trying
    BY <1>1 DEF SupplierInv, AllFound, TalkInv, LocalsOK, Pcs, Over, Settling, Trying
  <2>2. pc \in Settling => todo \subseteq Suspects
    BY <1>1 DEF SupplierInv, TalkInv, StageOK, Suspects
  <2>3. CASE pc \in Over
    BY <2>1, <2>3 DEF FoundAt, Suspects
  <2>4. CASE pc \in Settling
    BY <2>1, <2>2, <2>4 DEF FoundAt, Settling
  <2>5. CASE pc \in Trying
    BY <2>1, <2>5 DEF FoundAt, Trying
  <2> QED BY <2>1, <2>3, <2>4, <2>5
<1>2. SupplierInv => CodesCanBeFound
  BY <1>1 DEF CodesCanBeFound
<1> QED BY <1>2, SupplierInvariant, PTL

-----------------------------------------------------------------------------
(* The conversations implement the purchase.                               *)

\* What Purchase sees of the conversation.
Talk == IF pc # "idle" THEN "on"
        ELSE IF result = "ok" THEN "sold"
        ELSE IF result \in NotSold THEN "refused" ELSE "off"

LEMMA PurchaseBegins == ASSUME Init PROVE Bought!Init
<1>1. Own = {} /\ Talk = "off"
  BY RequestForms DEF Own, Init, Talk, NotSold
<1>2. Tolerable \in BOOLEAN
  BY DEF Tolerable
<1> QED BY <1>1, <1>2 DEF Bought!Init, Init, Talk

\* A step buys at most one code, in the middle of a conversation, and only if
\* there was none.
LEMMA OwnByStep ==
  ASSUME SupplierAssumption, SupplierInv, [Next]_vars
  PROVE  \/ Own' = Own
         \/ /\ pc # "idle" /\ pc' # "idle" /\ UNCHANGED item /\ (Tolerable => Own = {})
            /\ \E c \in Codes : Own' = Own \cup {c}
<1> USE DEF SupplierInv, TalkInv
<1>1. CASE UNCHANGED supplierVars \/ (\E c \in Codes : OthersBuy(c))
  BY <1>1, OthersBuyKeepsTables DEF supplierVars, Own
<1>2. CASE Decides
  <2>1. /\ pc = "asked" /\ pc' = "answered" /\ req \in Requests /\ answer[req] = "none"
        /\ Claim(req) \/ Lie(req)
    BY <1>2 DEF Decides, Claim, Lie, LocalsOK
  <2>2. Tolerable => Own = {}
    <3> SUFFICES ASSUME Tolerable, NEW c \in Own PROVE FALSE
      OBVIOUS
    <3>1. keyOf[c] = req
      BY <2>1 DEF AllFound, FoundAt, Trying
    <3> QED BY <2>1, <3>1, OwnPasses DEF SupplierAssumption
  <2>3. CASE UNCHANGED keyOf
    BY <2>3 DEF Own
  <2>4. ASSUME NEW c \in Codes, keyOf' = [keyOf EXCEPT ![c] = req] PROVE Own' = Own \cup {c}
    BY <2>1, <2>4 DEF Own, TablesOK, RowsOK
  <2>5. UNCHANGED item
    BY <2>1, ItemSteps DEF Deliver, Refund, handlerVars
  <2> QED BY <2>1, <2>2, <2>3, <2>4, <2>5 DEF Claim, Lie, SupplierAssumption
<1> QED BY <1>1, <1>2, TableSteps DEF vars

\* How a step of a conversation looks to Purchase.
LEMMA TalkByStep ==
  ASSUME [Next]_vars, ItemOK
  PROVE  \/ UNCHANGED <<Talk, item>>
         \/ Deliver \/ Refund
         \/ Begin
         \/ /\ Talk \in {"on", "sold"} /\ Talk' = "off"
            /\ item # "delivered" /\ UNCHANGED item
         \/ Talk = "on" /\ Talk' \in {"sold", "refused"} /\ UNCHANGED item
<1> SUFFICES ASSUME ~Deliver, ~Refund, ~Begin, UNCHANGED item
             PROVE  \/ UNCHANGED Talk
                    \/ /\ Talk \in {"on", "sold"} /\ Talk' = "off"
                       /\ item # "delivered"
                    \/ Talk = "on" /\ Talk' \in {"sold", "refused"}
  BY ItemSteps
<1>1. CASE UNCHANGED <<pc, result>>
  BY <1>1 DEF Talk
<1>2. CASE Stop
  BY <1>2 DEF Stop, End, Talk, NotSold, ItemOK
<1>3. CASE pc # "idle"
  BY <1>3 DEF Talk, ItemOK
<1> QED BY <1>1, <1>2, <1>3, TalkSteps

LEMMA PurchaseStep ==
  ASSUME SupplierAssumption, SupplierInv, ItemOK, [Next]_vars
  PROVE  [Bought!Next]_(Bought!vars)
<1>1. Tolerable' <=> Tolerable
  BY WorldFixed DEF Tolerable
<1>2. Tolerable \in BOOLEAN /\ Tolerable' \in BOOLEAN
  BY DEF Tolerable
<1>3. SupplierInv'
  BY SupplierInvStep
\* A conversation ends with a code that was bought, or in a refusal while none
\* was.
<1>4. /\ Talk' = "sold" => Own' # {}
      /\ Talk' = "refused" /\ Tolerable' => Own' = {}
  <2> USE <1>3 DEF SupplierInv, TalkInv
  <2>1. result' = "ok" => answer'[req'] \in Own'
    BY DEF AcceptedIsOurs, Own, LocalsOK, SupplierAssumption
  <2>2. pc' = "idle" /\ result' \in NotSold /\ Tolerable' => Own' = {}
    BY DEF AllFound, FoundAt, Over
  <2> QED BY <2>1, <2>2 DEF Talk
<1>5. CASE Own' # Own
  <2>1. Talk = "on" /\ Talk' = "on" /\ item # "delivered"
    BY <1>5, OwnByStep DEF Talk, ItemOK
  <2>2. PICK c \in Codes : Own' = Own \cup {c}
    BY <1>5, OwnByStep
  <2>3. Bought!Buy(c)
    BY <1>1, <1>2, <1>5, <2>1, <2>2, OwnByStep DEF Bought!Buy, Talk
  <2> QED BY <2>3 DEF Bought!Next
<1>6. CASE Own' = Own
  <2>1. CASE UNCHANGED <<Talk, item>>
    BY <1>1, <1>2, <1>6, <2>1 DEF Bought!vars, Talk
  <2>2. CASE Deliver
    <3>1. Talk = "sold" /\ Talk' = Talk
      BY <2>2 DEF Deliver, handlerVars, Talk
    <3>2. Bought!Deliver
      BY <1>1, <1>2, <1>6, <2>2, <3>1 DEF Bought!Deliver, Deliver, Talk
    <3> QED BY <3>2 DEF Bought!Next
  <2>3. CASE Refund
    <3>1. Talk' = Talk
      BY <2>3 DEF Refund, handlerVars, Talk
    <3>2. Bought!GiveUp
      BY <1>1, <1>2, <1>6, <2>3, <3>1 DEF Bought!GiveUp, Refund, Talk
    <3> QED BY <3>2 DEF Bought!Next
  <2>4. CASE Begin
    <3>1. Talk \in {"off", "refused"} /\ Talk' = "on"
      BY <2>4 DEF Begin, Talk
    <3>2. Bought!Ask
      BY <1>1, <1>2, <1>6, <2>4, <3>1 DEF Bought!Ask, Begin, Skipped, Talk
    <3> QED BY <3>2 DEF Bought!Next
  <2>5. CASE /\ Talk \in {"on", "sold"} /\ Talk' = "off"
             /\ item # "delivered" /\ UNCHANGED item
    <3>1. Bought!BreakOff
      BY <1>1, <1>2, <1>6, <2>5 DEF Bought!BreakOff, Talk
    <3> QED BY <3>1 DEF Bought!Next
  <2>6. CASE Talk = "on" /\ Talk' = "sold" /\ UNCHANGED item
    <3>1. Bought!Agree
      BY <1>1, <1>2, <1>4, <1>6, <2>6 DEF Bought!Agree, Talk
    <3> QED BY <3>1 DEF Bought!Next
  <2>7. CASE Talk = "on" /\ Talk' = "refused" /\ UNCHANGED item
    <3>1. Bought!Refuse
      BY <1>1, <1>2, <1>4, <1>6, <2>7 DEF Bought!Refuse, Talk
    <3> QED BY <3>1 DEF Bought!Next
  <2> QED BY <2>1, <2>2, <2>3, <2>4, <2>5, <2>6, <2>7, TalkByStep
<1> QED BY <1>5, <1>6

\* The conversations implement Purchase, though the item may be refunded at any
\* moment: a conversation ends in a refusal only while no code was bought, a code
\* is bought only by a conversation that began while the item was open, and what
\* is delivered was bought.
THEOREM SupplierKeepsPurchase == Spec => PurchaseKept
<1>1. Init => Bought!Init
  BY PurchaseBegins
<1>2. SupplierInv /\ ItemOK /\ [Next]_vars => [Bought!Next]_(Bought!vars)
  BY SupplierAssumption, PurchaseStep
<1> QED BY <1>1, <1>2, SupplierInvariant, ItemInvariant, PTL DEF Spec, PurchaseKept, Bought!Spec
=============================================================================
