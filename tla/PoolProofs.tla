------------------------------ MODULE PoolProofs ------------------------------
(***************************************************************************)
(* Proofs about the suppliers' pool, for any number of keys, requests and  *)
(* simultaneous calls.  The invariant says what the row locks and the      *)
(* primary key buy: open transactions hold different available keys, and   *)
(* at most one of them has inserted an answer for a request, which has     *)
(* none yet.                                                               *)
(***************************************************************************)
EXTENDS Storefront, FiniteSetTheorems, TLAPS

Working   == {"insert", "commit"}
Inserted  == {"commit", "lie commit"}

\* What each step of a call has at hand.
FoundOK ==
  \A c \in Calls :
    /\ pc[c] \in Working => found[c] \in Keys \cup {OutOfStock}
    /\ pc[c] \in {"lie", "lie commit"} => found[c] \in Keys

\* A key under an open transaction is available, and under no other.
LocksOK ==
  \A c \in Calls :
    pc[c] \in Working /\ found[c] \in Keys =>
      /\ keyState[found[c]] = "available"
      /\ \A d \in Calls : pc[d] \in Working /\ found[d] = found[c] => d = c

\* An uncommitted answer is the only one of its request.
InsertsOK ==
  \A c \in Calls :
    pc[c] \in Inserted =>
      /\ ~Answered(IdOf[c])
      /\ \A d \in Calls : pc[d] \in Inserted /\ IdOf[d] = IdOf[c] => d = c

PoolInv ==
  /\ PoolTypeOK /\ FoundOK /\ LocksOK /\ InsertsOK
  /\ KeysMatchAnswers /\ RepliesAgree /\ LoserFindsTheAnswer

\* The answers that are no keys: all a step needs to know of their numbers.
LEMMA Values ==
  /\ {None, OutOfStock, Conflict, Broken} \cap Keys = {}
  /\ None \notin {OutOfStock, Conflict, Broken}
  /\ OutOfStock \notin {Conflict, Broken} /\ Conflict # Broken
  /\ None \notin Requests
BY PoolAssumption DEF PoolAssumption, None, OutOfStock, Conflict, Broken

LEMMA PoolInvInit == ASSUME Init PROVE PoolInv
<1> USE PoolAssumption, Values DEF PoolAssumption, Init, PoolInit
<1>1. PoolTypeOK
  BY DEF PoolTypeOK
<1>2. FoundOK /\ LocksOK /\ InsertsOK
  BY DEF FoundOK, LocksOK, InsertsOK, Working, Inserted
<1>3. KeysMatchAnswers /\ RepliesAgree /\ LoserFindsTheAnswer
  BY DEF KeysMatchAnswers, RepliesAgree, LoserFindsTheAnswer
<1> QED BY <1>1, <1>2, <1>3 DEF PoolInv

----------------------------------------------------------------------------
(* Steps of one call that leave the tables alone.                          *)

\* Call c moves to step s with f found and p replied, and nothing else changes.
Moves(c, s, f, p) ==
  /\ pc' = [pc EXCEPT ![c] = s]
  /\ found' = [found EXCEPT ![c] = f]
  /\ reply' = [reply EXCEPT ![c] = p]
  /\ UNCHANGED <<keyState, keyOwner, answer, lied>>

\* What such a move must respect.
MayLock(c, s, f) ==
  /\ s \in Working => f \in Keys \cup {OutOfStock}
  /\ s \in {"lie", "lie commit"} => f \in Keys
  /\ s \in Working /\ f \in Keys =>
       /\ keyState[f] = "available"
       /\ \A d \in Calls \ {c} : pc[d] \in Working => found[d] # f

MayInsert(c, s) ==
  s \in Inserted =>
    /\ ~Answered(IdOf[c])
    /\ \A d \in Calls \ {c} : pc[d] \in Inserted => IdOf[d] # IdOf[c]

LEMMA MoveKeeps ==
  ASSUME PoolInv, NEW c \in Calls, NEW s, NEW f, NEW p, Moves(c, s, f, p),
         s \in {"claim", "insert", "commit", "lie", "lie commit", "poll", "cut off", "done"},
         f \in Keys \cup {None, OutOfStock},
         MayLock(c, s, f), MayInsert(c, s),
         s = "poll" => Answered(IdOf[c]),
         \/ p = reply[c] \/ p \in {Broken, Conflict}
         \/ Answered(IdOf[c]) /\ p = answer[IdOf[c]]
  PROVE  PoolInv'
<1> USE PoolAssumption, Values DEF PoolAssumption, PoolInv, Moves
<1>1. PoolTypeOK'
  BY DEF PoolTypeOK
<1>2. FoundOK' /\ LocksOK'
  <2>1. \A d \in Calls : /\ pc'[d] = IF d = c THEN s ELSE pc[d]
                         /\ found'[d] = IF d = c THEN f ELSE found[d]
    BY DEF PoolTypeOK
  <2>2. FoundOK'
    <3>1. ASSUME NEW x \in Calls
          PROVE  /\ pc'[x] \in Working => found'[x] \in Keys \cup {OutOfStock}
                 /\ pc'[x] \in {"lie", "lie commit"} => found'[x] \in Keys
      <4>1. CASE x = c
        BY <2>1, <4>1 DEF MayLock
      <4>2. CASE x # c
        BY <2>1, <4>2 DEF FoundOK
      <4> QED BY <4>1, <4>2
    <3> QED BY <3>1 DEF FoundOK
  <2>3. LocksOK'
    <3> SUFFICES ASSUME NEW x \in Calls, pc'[x] \in Working, found'[x] \in Keys
                 PROVE  /\ keyState[found'[x]] = "available"
                        /\ \A d \in Calls :
                             pc'[d] \in Working /\ found'[d] = found'[x] => d = x
      BY DEF LocksOK
    <3>1. CASE x = c
      BY <2>1, <3>1 DEF MayLock
    <3>2. CASE x # c
      <4>1. /\ keyState[found[x]] = "available"
            /\ \A d \in Calls : pc[d] \in Working /\ found[d] = found[x] => d = x
        BY <2>1, <3>2 DEF LocksOK
      <4>2. pc'[c] \in Working /\ found[x] \in Keys => found'[c] # found[x]
        BY <2>1, <3>2 DEF MayLock
      <4> QED BY <2>1, <3>2, <4>1, <4>2
    <3> QED BY <3>1, <3>2
  <2> QED BY <2>2, <2>3
<1>3. InsertsOK'
  <2>1. \A d \in Calls : pc'[d] = IF d = c THEN s ELSE pc[d]
    BY DEF PoolTypeOK
  <2>2. \A q : Answered(q)' <=> Answered(q)
    BY DEF Answered
  <2> SUFFICES ASSUME NEW x \in Calls, pc'[x] \in Inserted
               PROVE  /\ ~Answered(IdOf[x])
                      /\ \A d \in Calls : pc'[d] \in Inserted /\ IdOf[d] = IdOf[x] => d = x
    BY <2>2 DEF InsertsOK
  <2>3. CASE x = c
    BY <2>1, <2>3 DEF MayInsert
  <2>4. CASE x # c
    BY <2>1, <2>4 DEF InsertsOK, MayInsert
  <2> QED BY <2>3, <2>4
<1>4. LoserFindsTheAnswer'
  BY DEF PoolTypeOK, LoserFindsTheAnswer, Answered
<1>5. RepliesAgree'
  BY DEF PoolTypeOK, RepliesAgree
<1>6. KeysMatchAnswers'
  BY DEF KeysMatchAnswers
<1> QED BY <1>1, <1>2, <1>3, <1>4, <1>5, <1>6

\* A call that ends without writing: with the recorded answer, or with none.
LEMMA ReplyKeeps ==
  ASSUME PoolInv, NEW c \in Calls, NEW p, Reply(c, p), UNCHANGED <<keyState, keyOwner, answer, lied>>,
         p \in {Broken, Conflict} \/ (Answered(IdOf[c]) /\ p = answer[IdOf[c]])
  PROVE  PoolInv'
<1>1. Moves(c, "done", None, p)
  BY DEF Moves, Reply, Goto
<1>2. MayLock(c, "done", None) /\ MayInsert(c, "done")
  BY DEF MayLock, MayInsert, Working, Inserted
<1> QED BY <1>1, <1>2, MoveKeeps

LEMMA ReceiveKeeps ==
  ASSUME PoolInv, NEW c \in Calls, Receive(c) PROVE PoolInv'
<1>1. CASE Answered(IdOf[c])
  BY <1>1, ReplyKeeps DEF Receive
<1>2. CASE ~Answered(IdOf[c])
  <2>1. Moves(c, "claim", found[c], reply[c]) /\ found[c] \in Keys \cup {None, OutOfStock}
    BY <1>2 DEF Receive, Goto, Moves, PoolInv, PoolTypeOK
  <2>2. MayLock(c, "claim", found[c]) /\ MayInsert(c, "claim")
    BY DEF MayLock, MayInsert, Working, Inserted
  <2> QED BY <2>1, <2>2, MoveKeeps
<1> QED BY <1>1, <1>2

LEMMA ClaimKeeps ==
  ASSUME PoolInv, NEW c \in Calls, Claim(c) PROVE PoolInv'
<1>1. PICK f : /\ f = OutOfStock \/ f \in Claimable(RequestAt[IdOf[c]])
               /\ found' = [found EXCEPT ![c] = f]
  BY DEF Claim
<1>2. Moves(c, "insert", f, reply[c])
  BY <1>1 DEF Claim, Goto, Moves, PoolInv, PoolTypeOK
<1>3. f = OutOfStock \/ (f \in Keys /\ keyState[f] = "available" /\ f \notin Locked)
  BY <1>1 DEF Claimable, Free
<1>4. MayLock(c, "insert", f) /\ MayInsert(c, "insert")
  BY <1>3, Values DEF MayLock, MayInsert, Working, Inserted, Locked
<1> QED BY <1>2, <1>3, <1>4, MoveKeeps

LEMMA LieKeeps ==
  ASSUME PoolInv, NEW c \in Calls, Lie(c) PROVE PoolInv'
<1>1. PICK f \in Keys : found' = [found EXCEPT ![c] = f]
  BY DEF Lie
<1>2. Moves(c, "lie", f, reply[c])
  BY <1>1 DEF Lie, Goto, Moves, PoolInv, PoolTypeOK
<1>3. MayLock(c, "lie", f) /\ MayInsert(c, "lie")
  BY DEF MayLock, MayInsert, Working, Inserted
<1> QED BY <1>2, <1>3, MoveKeeps

LEMMA InsertKeeps ==
  ASSUME PoolInv, NEW c \in Calls, Insert(c) PROVE PoolInv'
<1>1. CASE Conflicts(c)
  <2>1. Moves(c, "poll", None, reply[c])
    BY <1>1 DEF Insert, Goto, Moves, PoolInv, PoolTypeOK
  <2>2. MayLock(c, "poll", None) /\ MayInsert(c, "poll")
    BY DEF MayLock, MayInsert, Working, Inserted
  <2> QED BY <1>1, <2>1, <2>2, MoveKeeps DEF Conflicts
<1>2. CASE ~Conflicts(c)
  <2>1. Moves(c, "commit", found[c], reply[c]) /\ found[c] \in Keys \cup {OutOfStock}
    BY <1>2 DEF Insert, Goto, Moves, PoolInv, PoolTypeOK, FoundOK, Working
  <2>2. MayLock(c, "commit", found[c])
    BY <2>1 DEF Insert, MayLock, PoolInv, LocksOK, Working
  <2>3. MayInsert(c, "commit")
    BY <1>2 DEF Insert, MayInsert, Inserted, InsertingElsewhere, Conflicts
  <2> QED BY <2>1, <2>2, <2>3, MoveKeeps
<1> QED BY <1>1, <1>2

LEMMA InsertLieKeeps ==
  ASSUME PoolInv, NEW c \in Calls, InsertLie(c) PROVE PoolInv'
<1>1. CASE Conflicts(c)
  BY <1>1, ReplyKeeps DEF InsertLie
<1>2. CASE ~Conflicts(c)
  <2>1. Moves(c, "lie commit", found[c], reply[c]) /\ found[c] \in Keys
    BY <1>2 DEF InsertLie, Goto, Moves, PoolInv, PoolTypeOK, FoundOK
  <2>2. MayLock(c, "lie commit", found[c])
    BY <2>1 DEF MayLock, Working
  <2>3. MayInsert(c, "lie commit")
    BY <1>2 DEF InsertLie, MayInsert, Inserted, InsertingElsewhere, Conflicts
  <2> QED BY <2>1, <2>2, <2>3, MoveKeeps
<1> QED BY <1>1, <1>2

LEMMA PollKeeps ==
  ASSUME PoolInv, NEW c \in Calls, Poll(c) PROVE PoolInv'
BY ReplyKeeps DEF Poll

LEMMA FlushFailsKeeps ==
  ASSUME PoolInv, NEW c \in Calls, FlushFails(c) PROVE PoolInv'
<1>1. Moves(c, "cut off", None, reply[c])
  BY DEF FlushFails, Goto, Moves, PoolInv, PoolTypeOK
<1>2. MayLock(c, "cut off", None) /\ MayInsert(c, "cut off")
  BY DEF MayLock, MayInsert, Working, Inserted
<1> QED BY <1>1, <1>2, MoveKeeps

LEMMA AbortKeeps ==
  ASSUME PoolInv, NEW c \in Calls, Abort(c) PROVE PoolInv'
BY ReplyKeeps DEF Abort

----------------------------------------------------------------------------
(* Steps that write the tables.                                            *)

LEMMA CommitKeeps ==
  ASSUME PoolInv, NEW c \in Calls, Commit(c) PROVE PoolInv'
<1> DEFINE r == IdOf[c]
           key == found[c]
<1> USE PoolAssumption, Values DEF PoolAssumption, PoolInv
<1>1. /\ pc[c] = "commit" /\ pc' = [pc EXCEPT ![c] = "done"]
      /\ reply' = [reply EXCEPT ![c] = key] /\ found' = [found EXCEPT ![c] = None]
      /\ answer' = [answer EXCEPT ![r] = key] /\ lied' = lied
      /\ keyState' = [k \in Keys |-> IF k = key THEN "issued" ELSE keyState[k]]
      /\ keyOwner' = [k \in Keys |-> IF k = key THEN r ELSE keyOwner[k]]
  BY DEF Commit, Reply, Goto
<1>2. /\ r \in Requests /\ answer[r] = None /\ key \in Keys \cup {OutOfStock}
      /\ key \in Keys => keyState[key] = "available"
      /\ \A d \in Calls \ {c} :
           /\ pc[d] \in Working => key = OutOfStock \/ found[d] # key
           /\ pc[d] \in Inserted => IdOf[d] # r
  BY <1>1 DEF PoolTypeOK, FoundOK, LocksOK, InsertsOK, Working, Inserted, Answered
<1>3. \A q \in Requests : Answered(q) => answer'[q] = answer[q]
  BY <1>1, <1>2 DEF PoolTypeOK, Answered
<1>4. Answered(r)' /\ answer'[r] = key
  BY <1>1, <1>2 DEF PoolTypeOK, Answered
<1> HIDE DEF r, key
<1>5. PoolTypeOK'
  BY <1>1, <1>2 DEF PoolTypeOK
<1>6. FoundOK' /\ LocksOK'
  BY <1>1, <1>2 DEF PoolTypeOK, FoundOK, LocksOK, Working
<1>7. InsertsOK'
  BY <1>1, <1>2 DEF PoolTypeOK, InsertsOK, Inserted, Answered
<1>8. LoserFindsTheAnswer'
  <2>1. \A d \in Calls : pc'[d] = "poll" => pc[d] = "poll"
    BY <1>1 DEF PoolTypeOK
  <2>2. \A d \in Calls : IdOf[d] \in Requests
    OBVIOUS
  <2>3. \A q \in Requests : Answered(q) => Answered(q)'
    BY <1>3 DEF Answered
  <2> QED BY <2>1, <2>2, <2>3 DEF LoserFindsTheAnswer
<1>9. KeysMatchAnswers'
  <2>1. /\ \A k \in Keys : keyState'[k] = (IF k = key THEN "issued" ELSE keyState[k])
        /\ \A k \in Keys : keyOwner'[k] = (IF k = key THEN r ELSE keyOwner[k])
        /\ \A q \in Requests : answer'[q] = (IF q = r THEN key ELSE answer[q])
    BY <1>1, <1>2 DEF PoolTypeOK
  <2>2. \A k \in Keys : keyState'[k] = "issued" <=> keyOwner'[k] # None
    BY <1>2, <2>1 DEF KeysMatchAnswers
  <2>3. ASSUME NEW k \in Keys, keyOwner'[k] # None PROVE answer'[keyOwner'[k]] = k
    <3>1. keyOwner[k] \in Requests \cup {None}
      BY DEF PoolTypeOK
    <3>2. CASE k = key
      BY <1>2, <2>1, <3>2
    <3>3. CASE k # key
      BY <1>2, <2>1, <2>3, <3>1, <3>3 DEF KeysMatchAnswers
    <3> QED BY <3>2, <3>3
  <2>4. ASSUME NEW q \in Requests \ lied, answer'[q] \in Keys PROVE keyOwner'[answer'[q]] = q
    <3>1. CASE q = r
      BY <1>2, <2>1, <2>4, <3>1
    <3>2. CASE q # r
      <4>1. answer'[q] = answer[q] /\ keyOwner[answer[q]] = q
        BY <2>1, <2>4, <3>2 DEF KeysMatchAnswers
      <4>2. keyState[answer[q]] = "issued"
        BY <2>4, <4>1 DEF KeysMatchAnswers
      <4> QED BY <1>2, <2>1, <2>4, <4>1, <4>2
    <3> QED BY <3>1, <3>2
  <2> QED BY <1>1, <2>2, <2>3, <2>4 DEF KeysMatchAnswers
<1>10. RepliesAgree'
  <2> SUFFICES ASSUME NEW d \in Calls, reply'[d] \notin {None, Broken, Conflict}
               PROVE  reply'[d] = answer'[IdOf[d]]
    BY DEF RepliesAgree
  <2>1. CASE d = c
    BY <1>1, <1>4, <2>1 DEF PoolTypeOK, r
  <2>2. CASE d # c
    <3>1. reply'[d] = reply[d] /\ reply[d] = answer[IdOf[d]] /\ IdOf[d] \in Requests
      BY <1>1, <2>2 DEF PoolTypeOK, RepliesAgree
    <3> QED BY <1>3, <3>1 DEF Answered
  <2> QED BY <2>1, <2>2
<1> QED BY <1>5, <1>6, <1>7, <1>8, <1>9, <1>10

LEMMA CommitLieKeeps ==
  ASSUME PoolInv, NEW c \in Calls, CommitLie(c) PROVE PoolInv'
<1> DEFINE r == IdOf[c]
           key == found[c]
<1> USE PoolAssumption, Values DEF PoolAssumption, PoolInv
<1>1. /\ pc[c] = "lie commit" /\ pc' = [pc EXCEPT ![c] = "done"]
      /\ reply' = [reply EXCEPT ![c] = key] /\ found' = [found EXCEPT ![c] = None]
      /\ answer' = [answer EXCEPT ![r] = key] /\ lied' = lied \cup {r}
      /\ UNCHANGED <<keyState, keyOwner>>
  BY DEF CommitLie, Reply, Goto
<1>2. /\ r \in Requests /\ answer[r] = None /\ key \in Keys
      /\ \A d \in Calls \ {c} : pc[d] \in Inserted => IdOf[d] # r
  BY <1>1 DEF PoolTypeOK, FoundOK, InsertsOK, Inserted, Answered
<1>3. \A q \in Requests : Answered(q) => answer'[q] = answer[q]
  BY <1>1, <1>2 DEF PoolTypeOK, Answered
<1>4. Answered(r)' /\ answer'[r] = key
  BY <1>1, <1>2 DEF PoolTypeOK, Answered
<1> HIDE DEF r, key
<1>5. PoolTypeOK'
  BY <1>1, <1>2 DEF PoolTypeOK
<1>6. FoundOK' /\ LocksOK'
  BY <1>1, <1>2 DEF PoolTypeOK, FoundOK, LocksOK, Working
<1>7. InsertsOK'
  BY <1>1, <1>2 DEF PoolTypeOK, InsertsOK, Inserted, Answered
<1>8. LoserFindsTheAnswer'
  <2>1. \A d \in Calls : pc'[d] = "poll" => pc[d] = "poll"
    BY <1>1 DEF PoolTypeOK
  <2>2. \A d \in Calls : IdOf[d] \in Requests
    OBVIOUS
  <2>3. \A q \in Requests : Answered(q) => Answered(q)'
    BY <1>3 DEF Answered
  <2> QED BY <2>1, <2>2, <2>3 DEF LoserFindsTheAnswer
<1>9. KeysMatchAnswers'
  <2>1. \A q \in Requests : answer'[q] = (IF q = r THEN key ELSE answer[q])
    BY <1>1, <1>2 DEF PoolTypeOK
  <2>2. ASSUME NEW k \in Keys, keyOwner[k] # None PROVE answer'[keyOwner[k]] = k
    <3>1. keyOwner[k] \in Requests /\ answer[keyOwner[k]] = k
      BY <2>2 DEF PoolTypeOK, KeysMatchAnswers
    <3> QED BY <1>2, <2>1, <3>1
  <2>3. ASSUME NEW q \in Requests \ lied', answer'[q] \in Keys PROVE keyOwner[answer'[q]] = q
    BY <1>1, <2>1, <2>3 DEF KeysMatchAnswers
  <2> QED BY <1>1, <2>2, <2>3 DEF KeysMatchAnswers
<1>10. RepliesAgree'
  <2> SUFFICES ASSUME NEW d \in Calls, reply'[d] \notin {None, Broken, Conflict}
               PROVE  reply'[d] = answer'[IdOf[d]]
    BY DEF RepliesAgree
  <2>1. CASE d = c
    BY <1>1, <1>4, <2>1 DEF PoolTypeOK, r
  <2>2. CASE d # c
    <3>1. reply'[d] = reply[d] /\ reply[d] = answer[IdOf[d]] /\ IdOf[d] \in Requests
      BY <1>1, <2>2 DEF PoolTypeOK, RepliesAgree
    <3> QED BY <1>3, <3>1 DEF Answered
  <2> QED BY <2>1, <2>2
<1> QED BY <1>5, <1>6, <1>7, <1>8, <1>9, <1>10

LEMMA RestockKeeps ==
  ASSUME PoolInv, NEW k \in Keys, Restock(k) PROVE PoolInv'
<1> USE PoolAssumption, Values DEF PoolAssumption, PoolInv, Restock
<1>1. PoolTypeOK' /\ FoundOK' /\ InsertsOK' /\ LoserFindsTheAnswer'
  BY DEF PoolTypeOK, FoundOK, InsertsOK, LoserFindsTheAnswer, Answered
<1>2. LocksOK'
  BY DEF PoolTypeOK, LocksOK
<1>3. KeysMatchAnswers' /\ RepliesAgree'
  BY DEF PoolTypeOK, KeysMatchAnswers, RepliesAgree
<1> QED BY <1>1, <1>2, <1>3

----------------------------------------------------------------------------
LEMMA PoolInvStep == ASSUME PoolInv, [Next]_vars PROVE PoolInv'
<1>1. CASE UNCHANGED poolVars
  BY <1>1 DEF poolVars, PoolInv, PoolTypeOK, FoundOK, LocksOK, InsertsOK,
     KeysMatchAnswers, RepliesAgree, LoserFindsTheAnswer, Answered
<1>2. CASE PoolNext
  BY <1>2, ReceiveKeeps, ClaimKeeps, LieKeeps, InsertKeeps, CommitKeeps, InsertLieKeeps,
     CommitLieKeeps, PollKeeps, FlushFailsKeeps, AbortKeeps, RestockKeeps DEF PoolNext, ServeCall
<1> QED BY <1>1, <1>2 DEF Next, vars, Deliver, SweepStock, StartSync, WriteShelf,
     AskStock, Unreachable, Ask

\* What row locks and the primary key of the answers buy is inductive.
THEOREM PoolInvariant == Spec => []PoolInv
<1>1. Init => PoolInv BY PoolInvInit
<1>2. PoolInv /\ [Next]_vars => PoolInv' BY PoolInvStep
<1> QED BY <1>1, <1>2, PTL DEF Spec

\* Whichever of several equal requests wins and wherever one is rolled back, no
\* key is lost and none given to two requests.
THEOREM PoolKeysMatchAnswers == Spec => []KeysMatchAnswers
<1>1. PoolInv => KeysMatchAnswers BY DEF PoolInv
<1> QED BY <1>1, PoolInvariant, PTL

\* Requests with one id are answered the same.
THEOREM PoolRepliesAgree == Spec => []RepliesAgree
<1>1. PoolInv => RepliesAgree BY DEF PoolInv
<1> QED BY <1>1, PoolInvariant, PTL

\* The loser of a race always has its winner's answer to find, wherever other
\* calls are cut off; only a call whose own flush was cut off may find none.
THEOREM PoolLoserFindsTheAnswer == Spec => []LoserFindsTheAnswer
<1>1. PoolInv => LoserFindsTheAnswer BY DEF PoolInv
<1> QED BY <1>1, PoolInvariant, PTL

\* A recorded answer is the answer for ever.
THEOREM PoolAnswerForEver == Spec => AnswerForEver
<1>1. ASSUME PoolInv, PoolNext PROVE \A r \in Requests : Answered(r) => UNCHANGED answer[r]
  <2>1. ASSUME NEW c \in Calls, pc[c] \in Inserted,
               answer' = [answer EXCEPT ![IdOf[c]] = found[c]]
        PROVE  \A r \in Requests : Answered(r) => UNCHANGED answer[r]
    BY <1>1, <2>1 DEF PoolInv, InsertsOK, PoolTypeOK
  <2>2. CASE \E c \in Calls : Commit(c) \/ CommitLie(c)
    BY <2>1, <2>2 DEF Commit, CommitLie, Inserted
  <2>3. CASE UNCHANGED answer
    BY <2>3
  <2> QED BY <1>1, <2>2, <2>3 DEF PoolNext, ServeCall, Receive, Claim, Lie, Insert,
       InsertLie, Poll, FlushFails, Abort, Restock
<1>2. ASSUME PoolInv, [Next]_vars
      PROVE [\A r \in Requests : Answered(r) => UNCHANGED answer[r]]_poolVars
  BY <1>1, <1>2 DEF Next, vars, Deliver, SweepStock, StartSync, WriteShelf, AskStock,
     Unreachable, Ask
<1> QED BY <1>2, PoolInvariant, PTL DEF Spec, AnswerForEver

----------------------------------------------------------------------------
(* The storefront's snapshot.                                              *)

\* The keys of the suppliers that have been asked, and the other keys.
Asked   == {k \in Keys : KeyAt[k] \notin left}
KeysOf(s) == {k \in Keys : KeyAt[k] = s}

\* The sum that is being formed counts no key twice, though keys are issued and
\* restocked between two requests.
ShelfInv ==
  /\ shelf \in 0 .. Cardinality(Keys)
  /\ delivered \subseteq Requests
  /\ sync \in {"none", "pending", "ask", "write"}
  /\ left \subseteq Suppliers
  /\ total \in Nat
  /\ IF sync \in {"ask", "write"} THEN total <= Cardinality(Asked) ELSE total = 0

LEMMA KeySets ==
  ASSUME NEW S \in SUBSET Keys
  PROVE  IsFiniteSet(S) /\ Cardinality(S) \in Nat /\ Cardinality(S) <= Cardinality(Keys)
<1>1. IsFiniteSet(S) /\ Cardinality(S) <= Cardinality(Keys)
  BY PoolAssumption, FS_Subset DEF PoolAssumption
<1> QED BY <1>1, FS_CardinalityType

\* Asking one supplier more counts its keys, which none of the others has.
LEMMA AskKeepsShelf ==
  ASSUME ShelfInv, NEW s \in left, sync = "ask", NEW S \in SUBSET KeysOf(s),
         left' = left \ {s}, total' = total + Cardinality(S),
         sync' \in {"ask", "write"}, UNCHANGED <<shelf, delivered>>
  PROVE  ShelfInv'
<1>1. Asked' = Asked \cup KeysOf(s) /\ Asked \cap KeysOf(s) = {}
  BY DEF Asked, KeysOf, ShelfInv
<1>2. Asked \in SUBSET Keys /\ KeysOf(s) \in SUBSET Keys
  BY DEF Asked, KeysOf
<1>3. /\ IsFiniteSet(Asked) /\ IsFiniteSet(KeysOf(s))
      /\ Cardinality(Asked) \in Nat /\ Cardinality(KeysOf(s)) \in Nat
  BY <1>2, KeySets
<1>4. Cardinality(Asked \cup KeysOf(s)) = Cardinality(Asked) + Cardinality(KeysOf(s))
  <2>1. Cardinality(Asked \cap KeysOf(s)) = 0
    BY <1>1, FS_EmptySet
  <2>2. Cardinality(Asked \cup KeysOf(s))
          = Cardinality(Asked) + Cardinality(KeysOf(s)) - Cardinality(Asked \cap KeysOf(s))
    BY <1>3, FS_Union
  <2> QED BY <1>3, <2>1, <2>2
<1>5. Cardinality(S) <= Cardinality(KeysOf(s)) /\ IsFiniteSet(S)
  BY <1>3, FS_Subset
<1>6. Cardinality(S) \in Nat
  BY <1>5, FS_CardinalityType
<1>7. total' \in Nat /\ total' <= Cardinality(Asked')
  <2> DEFINE a == Cardinality(Asked)
             b == Cardinality(KeysOf(s))
             m == Cardinality(S)
  <2>1. a \in Nat /\ b \in Nat /\ m \in Nat /\ m <= b /\ total <= a /\ total \in Nat
    BY <1>3, <1>5, <1>6 DEF ShelfInv
  <2>2. total' = total + m /\ Cardinality(Asked') = a + b
    BY <1>1, <1>4
  <2> HIDE DEF a, b, m
  <2> QED BY <2>1, <2>2
<1> QED BY <1>7 DEF ShelfInv, Asked

LEMMA ShelfStep == ASSUME PoolTypeOK, ShelfInv, [Next]_vars PROVE ShelfInv'
<1> USE DEF ShelfInv
<1>1. Cardinality(Keys) \in Nat /\ Cardinality({}) = 0
  BY KeySets, FS_EmptySet
<1>2. CASE UNCHANGED shopVars
  BY <1>2 DEF shopVars, Asked
<1>3. CASE \E r \in Requests : Deliver(r)
  <2>1. OneLess(shelf) \in 0 .. Cardinality(Keys)
    BY <1>1 DEF OneLess
  <2> QED BY <1>3, <2>1 DEF Deliver, Asked
<1>4. CASE SweepStock
  BY <1>4 DEF SweepStock
<1>5. CASE StartSync
  <2>1. Asked' \in SUBSET Keys
    BY DEF Asked
  <2>2. Cardinality(Asked') \in Nat
    BY <2>1, KeySets
  <2>3. 0 <= Cardinality(Asked')
    BY <2>2
  <2> QED BY <1>5, <2>3 DEF StartSync, Asked
<1>6. CASE WriteShelf
  <2>1. total \in 0 .. Cardinality(Keys)
    <3>1. Asked \in SUBSET Keys
      BY DEF Asked
    <3>2. Cardinality(Asked) <= Cardinality(Keys) /\ Cardinality(Asked) \in Nat
      BY <3>1, KeySets
    <3>3. total <= Cardinality(Asked)
      BY <1>6 DEF WriteShelf
    <3> QED BY <1>1, <3>2, <3>3
  <2>2. Snapshot(total) \in 0 .. Cardinality(Keys)
    BY <2>1 DEF Snapshot
  <2> QED BY <1>6, <2>2 DEF WriteShelf
<1>7. ASSUME NEW s \in Suppliers, AskStock(s) PROVE ShelfInv'
  <2>1. Free(s) \in SUBSET KeysOf(s)
    BY DEF Free, KeysOf
  <2> QED BY <1>7, <2>1, AskKeepsShelf DEF AskStock, Ask, Turn
<1>8. ASSUME NEW s \in Suppliers, Unreachable(s) PROVE ShelfInv'
  <2>1. {} \in SUBSET KeysOf(s) /\ total' = total + Cardinality({})
    BY <1>1, <1>8 DEF Unreachable, Ask
  <2> QED BY <1>8, <2>1, AskKeepsShelf DEF Unreachable, Ask, Turn
<1> QED BY <1>2, <1>3, <1>4, <1>5, <1>6, <1>7, <1>8 DEF Next, vars

\* The snapshot never shows more than there are keys, whatever happens to the
\* pools while the suppliers are asked one after the other.
THEOREM StorefrontTypeOK == Spec => []TypeOK
<1>1. Init => ShelfInv
  BY KeySets, PoolAssumption DEF Init, ShelfInv, PoolAssumption
<1>2. PoolInv /\ ShelfInv /\ [Next]_vars => ShelfInv'
  BY ShelfStep DEF PoolInv
<1>3. PoolInv /\ ShelfInv => TypeOK
  <2>1. ASSUME ShelfInv PROVE total \in 0 .. Cardinality(Keys)
    <3>1. Asked \in SUBSET Keys /\ Keys \in SUBSET Keys
      BY DEF Asked
    <3>2. Cardinality(Asked) <= Cardinality(Keys) /\ Cardinality(Asked) \in Nat
          /\ Cardinality(Keys) \in Nat
      BY <3>1, KeySets
    <3> QED BY <2>1, <3>2 DEF ShelfInv
  <2> QED BY <2>1 DEF PoolInv, ShelfInv, TypeOK
<1> QED BY <1>1, <1>2, <1>3, PoolInvariant, PTL DEF Spec
=============================================================================
