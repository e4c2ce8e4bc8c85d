--------------------------------- MODULE Pool ---------------------------------
(***************************************************************************)
(* The suppliers' own database (src/suppliers): the pool of keys of one    *)
(* SKU and the answers recorded per request id, with requests that run at  *)
(* the same time - also two of one id, which a shop sends when a worker    *)
(* stops in mid-request and another goes on.  A transaction reads, takes a *)
(* key, inserts its answer and commits; others run in between.  What an    *)
(* HTTP mode does to the reply afterwards is in module Supplier.           *)
(***************************************************************************)
EXTENDS Integers, FiniteSets

CONSTANTS
  Suppliers,   \* numbered in the order the shop asks them
  Keys,        \* numbered by supplier_keys.id
  KeyAt,       \* the supplier each key belongs to
  Requests,    \* request ids
  RequestAt,   \* the supplier each id is sent to
  Calls,       \* HTTP requests
  IdOf,        \* the request id each carries
  Stocked      \* keys there are at the beginning

None       == 0
OutOfStock == -1
Conflict   == -2   \* 503, "conflict"
Broken     == -3   \* 500: the transaction failed elsewhere than at the flush

ASSUME PoolAssumption ==
  /\ Suppliers \subseteq Nat /\ Keys \subseteq Nat \ {0} /\ Stocked \subseteq Keys
  /\ IsFiniteSet(Keys)
  /\ KeyAt \in [Keys -> Suppliers]
  /\ RequestAt \in [Requests -> Suppliers] /\ None \notin Requests
  /\ IdOf \in [Calls -> Requests]

VARIABLES
  keyState,   \* supplier_keys.state; "absent" before a restock
  keyOwner,   \* supplier_keys.request_id
  answer,     \* supplier_requests: the key or OutOfStock
  lied,       \* answers _dishonest_code chose
  pc,         \* where each call is
  found,      \* what its open transaction is about to answer
  reply       \* what it answered

poolVars == <<keyState, keyOwner, answer, lied, pc, found, reply>>

Answered(r) == answer[r] # None

\* The row locks of open transactions.
Locked == {found[c] : c \in {d \in Calls : pc[d] \in {"insert", "commit"}}}

PoolInit ==
  /\ keyState = [k \in Keys |-> IF k \in Stocked THEN "available" ELSE "absent"]
  /\ keyOwner = [k \in Keys |-> None]
  /\ answer = [r \in Requests |-> None]
  /\ lied = {}
  /\ pc = [c \in Calls |-> "idle"]
  /\ found = [c \in Calls |-> None]
  /\ reply = [c \in Calls |-> None]

Goto(c, step) == pc' = [pc EXCEPT ![c] = step]

\* The call ends with an answer, its transaction with nothing to undo.
Reply(c, what) ==
  /\ Goto(c, "done")
  /\ reply' = [reply EXCEPT ![c] = what]
  /\ found' = [found EXCEPT ![c] = None]

----------------------------------------------------------------------------
\* The request id is looked up first.
Receive(c) ==
  /\ pc[c] = "idle"
  /\ IF Answered(IdOf[c]) THEN Reply(c, answer[IdOf[c]])
     ELSE Goto(c, "claim") /\ UNCHANGED <<found, reply>>
  /\ UNCHANGED <<keyState, keyOwner, answer, lied>>

Free(s) == {k \in Keys : KeyAt[k] = s /\ keyState[k] = "available"}

\* A mutation: FOR UPDATE SKIP LOCKED is missing and the row is read unlocked.
ClaimableLocked(s) == Free(s)

\* FOR UPDATE SKIP LOCKED
Claimable(s) == Free(s) \ Locked

\* The UPDATE of the key with the lowest id; seen by nobody yet.
Claim(c) ==
  LET keys == Claimable(RequestAt[IdOf[c]]) IN
  /\ pc[c] = "claim"
  /\ \/ keys = {} /\ found' = [found EXCEPT ![c] = OutOfStock]
     \/ \E k \in keys : (\A j \in keys : k <= j) /\ found' = [found EXCEPT ![c] = k]
  /\ Goto(c, "insert")
  /\ UNCHANGED <<keyState, keyOwner, answer, lied, reply>>

\* A mode in which the supplier lies: a key it has already given away.
Lie(c) ==
  LET s == RequestAt[IdOf[c]] IN
  /\ pc[c] = "claim"
  /\ \E k \in Keys : /\ KeyAt[k] = s /\ keyState[k] = "issued"
                     /\ found' = [found EXCEPT ![c] = k]
  /\ Goto(c, "lie")
  /\ UNCHANGED <<keyState, keyOwner, answer, lied, reply>>

\* A mutation: equal requests wait for one another before they insert.
InsertingElsewhereSoon(c) == \E d \in Calls \ {c} : IdOf[d] = IdOf[c] /\ found[d] # None

\* The primary key makes an insert wait for one that is not committed.
InsertingElsewhere(c) ==
  \E d \in Calls \ {c} : IdOf[d] = IdOf[c] /\ pc[d] \in {"commit", "lie commit"}

\* A mutation: ON CONFLICT DO UPDATE.
ConflictsNever(c) == FALSE

Conflicts(c) == Answered(IdOf[c])

\* A mutation: an insert that meets another one fails without waiting.
InsertNoWait(c) ==
  /\ pc[c] = "insert"
  /\ IF Conflicts(c) \/ InsertingElsewhere(c)
     THEN Goto(c, "poll") /\ found' = [found EXCEPT ![c] = None]
     ELSE Goto(c, "commit") /\ UNCHANGED found
  /\ UNCHANGED <<keyState, keyOwner, answer, lied, reply>>

\* session.flush() of the new answer; a conflict rolls the key back.
Insert(c) ==
  /\ pc[c] = "insert" /\ ~InsertingElsewhere(c)
  /\ IF Conflicts(c)
     THEN Goto(c, "poll") /\ found' = [found EXCEPT ![c] = None]
     ELSE Goto(c, "commit") /\ UNCHANGED found
  /\ UNCHANGED <<keyState, keyOwner, answer, lied, reply>>

Commit(c) ==
  LET key == found[c] IN
  /\ pc[c] = "commit"
  /\ answer' = [answer EXCEPT ![IdOf[c]] = key]
  /\ keyState' = [k \in Keys |-> IF k = key THEN "issued" ELSE keyState[k]]
  /\ keyOwner' = [k \in Keys |-> IF k = key THEN IdOf[c] ELSE keyOwner[k]]
  /\ Reply(c, key)
  /\ UNCHANGED lied

\* The lie's insert has nobody to catch its conflict.
InsertLie(c) ==
  /\ pc[c] = "lie" /\ ~InsertingElsewhere(c)
  /\ IF Conflicts(c) THEN Reply(c, Broken)
     ELSE Goto(c, "lie commit") /\ UNCHANGED <<found, reply>>
  /\ UNCHANGED <<keyState, keyOwner, answer, lied>>

CommitLie(c) ==
  /\ pc[c] = "lie commit"
  /\ answer' = [answer EXCEPT ![IdOf[c]] = found[c]]
  /\ lied' = lied \cup {IdOf[c]}
  /\ Reply(c, found[c])
  /\ UNCHANGED <<keyState, keyOwner>>

\* The connection is lost at the flush: rolled back, and caught as a conflict is.
FlushFails(c) ==
  /\ pc[c] = "insert"
  /\ Goto(c, "cut off") /\ found' = [found EXCEPT ![c] = None]
  /\ UNCHANGED <<keyState, keyOwner, answer, lied, reply>>

\* A call whose flush failed, whatever the reason, looks for the answer of
\* another call, for a second, in sessions of their own.
Poll(c) ==
  /\ pc[c] \in {"poll", "cut off"}
  /\ Reply(c, IF Answered(IdOf[c]) THEN answer[IdOf[c]] ELSE Conflict)
  /\ UNCHANGED <<keyState, keyOwner, answer, lied>>

\* The connection is lost anywhere else: the open transaction is rolled back.
Abort(c) ==
  /\ pc[c] \in {"claim", "commit", "lie", "lie commit", "poll", "cut off"}
  /\ Reply(c, Broken)
  /\ UNCHANGED <<keyState, keyOwner, answer, lied>>

\* POST /_restock
Restock(k) ==
  /\ keyState[k] = "absent"
  /\ keyState' = [keyState EXCEPT ![k] = "available"]
  /\ UNCHANGED <<keyOwner, answer, lied, pc, found, reply>>

ServeCall(c) ==
  Claim(c) \/ Insert(c) \/ Commit(c) \/ InsertLie(c) \/ CommitLie(c) \/ Poll(c)

PoolNext ==
  \/ \E c \in Calls : Receive(c) \/ ServeCall(c) \/ Lie(c) \/ FlushFails(c) \/ Abort(c)
  \/ \E k \in Keys : Restock(k)

----------------------------------------------------------------------------
(* Properties.                                                              *)

PoolTypeOK ==
  LET Answers == Keys \cup {None, OutOfStock} IN
  /\ keyState \in [Keys -> {"absent", "available", "issued"}]
  /\ keyOwner \in [Keys -> Requests \cup {None}]
  /\ answer \in [Requests -> Answers]
  /\ lied \subseteq Requests
  /\ pc \in [Calls -> {"idle", "claim", "insert", "commit", "lie", "lie commit",
                      "poll", "cut off", "done"}]
  /\ found \in [Calls -> Answers]
  /\ reply \in [Calls -> Answers \cup {Conflict, Broken}]

\* No key is lost and none is given twice, whichever of two equal requests wins
\* and wherever one is rolled back: a key is issued exactly when the one answer
\* of its owner names it, and a request the supplier did not lie about owns the
\* key it is answered with.
KeysMatchAnswers ==
  /\ \A k \in Keys : keyState[k] = "issued" <=> keyOwner[k] # None
  /\ \A k \in Keys : keyOwner[k] # None => answer[keyOwner[k]] = k
  /\ \A r \in Requests \ lied : answer[r] \in Keys => keyOwner[answer[r]] = r

\* Requests with one id that are answered at all are answered the same.
RepliesAgree ==
  \A c \in Calls : reply[c] \notin {None, Broken, Conflict} => reply[c] = answer[IdOf[c]]

\* The loser of a race has its winner's answer to find as soon as it looks:
\* the insert that lost had waited for the other to be committed.  503
\* "conflict" is left to a call whose flush was cut off.
LoserFindsTheAnswer == \A c \in Calls : pc[c] = "poll" => Answered(IdOf[c])

\* models.py: "один request_id, один ответ навсегда".  Out of stock too: a
\* restock does not change what a recorded request is told.
AnswerForEver ==
  [][\A r \in Requests : Answered(r) => UNCHANGED answer[r]]_poolVars
=============================================================================
