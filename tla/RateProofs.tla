----------------------------- MODULE RateProofs -----------------------------
(***************************************************************************)
(* The token bucket keeps its promise for every rate, burst and period,    *)
(* every number of workers and every delay between the start of a          *)
(* transaction and the moment it gets the row; and it keeps the supplier's *)
(* limit if the limit leaves room for the burst and the delay.             *)
(***************************************************************************)
EXTENDS RateLimit, FiniteSetTheorems, SequenceTheorems, WellFoundedInduction, TLAPS

\* Tokens taken since a moment and those still in the row never add up to
\* more than the burst and the refill since: an updated_at that is set back
\* costs the bucket exactly the refill of the time it is set back by.
Fits(n, moment) ==
  n > 0 => n * Token + tokens <= Capacity + (updatedAt - moment) * Refill

SinceFits == during <= since /\ Fits(since, from)

RateInv == RateTypeOK /\ SinceFits /\ TakesFitTheBucket

\* The full bucket satisfies the invariant.
LEMMA InitRate == Init => RateInv
BY RateAssumption DEF Init, RateInv, RateTypeOK, SinceFits, Fits, TakesFitTheBucket

\* What a transaction that gets a token does to the row: the refill is linear
\* in the time since updated_at, whether that time is positive or negative.
LEMMA TakenRow ==
  ASSUME RateTypeOK, NEW now \in 0 .. MaxClock, Enough(now),
         tokens' = Available(now) - Token
  PROVE  /\ tokens' \in 0 .. Capacity
         /\ tokens' + Token <= Capacity
         /\ tokens' + Token <= tokens + (now - updatedAt) * Refill
<1> USE RateAssumption DEF RateTypeOK
<1>1. (now - updatedAt) * Refill \in Int
  OBVIOUS
<1> DEFINE gained == (now - updatedAt) * Refill
<1> HIDE DEF gained
<1>2. gained \in Int
  BY <1>1 DEF gained
<1>3. Available(now) = IF tokens + gained < Capacity THEN tokens + gained ELSE Capacity
  BY DEF Available, gained
<1>4. tokens' \in 0 .. Capacity /\ tokens' + Token <= Capacity /\ tokens' + Token <= tokens + gained
  BY <1>2, <1>3 DEF Enough
<1> QED
  BY <1>4 DEF gained

\* The refill up to two moments differs by the refill between them.
LEMMA RefillAdds ==
  ASSUME NEW a \in Int, NEW b \in Int, NEW c \in Int
  PROVE  (a - b) * Refill + (b - c) * Refill = (a - c) * Refill
BY RateAssumption

\* A longer time refills at least as much.
LEMMA RefillGrows ==
  ASSUME NEW a \in Int, NEW b \in Int, a <= b
  PROVE  a * Refill <= b * Refill
<1>1. (b - a) * Refill >= 0
  BY RateAssumption
<1> QED
  BY <1>1, RateAssumption

\* More tokens have at least as many parts.
LEMMA ProductGrows ==
  ASSUME NEW m \in Nat, NEW n \in Nat, NEW k \in Nat, m <= n
  PROVE  m * k <= n * k
<1>1. (n - m) * k >= 0
  OBVIOUS
<1>2. (n - m) * k = n * k - m * k
  OBVIOUS
<1> QED
  BY <1>1, <1>2

\* One more token costs one token's parts.
LEMMA OneMore == ASSUME NEW n \in Nat PROVE (n + 1) * Token = n * Token + Token
BY RateAssumption

\* A part of a bounded sum is bounded.
LEMMA Bounded ==
  ASSUME NEW n \in Int, NEW s \in Int, NEW rest \in Nat, NEW c \in Int, NEW a \in Int,
         NEW b \in Int, s + rest <= c + a, a <= b, n <= s
  PROVE  n <= c + b
OBVIOUS

\* What Take does when the bucket holds a token.
LEMMA TakeEffect ==
  ASSUME RateTypeOK, NEW w \in Workers, Take(w), Enough(startedAt[w])
  PROVE  /\ startedAt[w] \in 0 .. MaxClock
         /\ tokens' = Available(startedAt[w]) - Token
         /\ updatedAt' = startedAt[w] /\ from' = from /\ to' = to
         /\ since' = since + (IF startedAt[w] >= from THEN 1 ELSE 0)
         /\ during' = during + (IF startedAt[w] \in from .. to THEN 1 ELSE 0)
         /\ tokens' \in 0 .. Capacity /\ tokens' + Token <= Capacity
         /\ tokens' + Token <= tokens + (startedAt[w] - updatedAt) * Refill
<1>1. startedAt[w] \in 0 .. MaxClock
  BY DEF RateTypeOK
<1>2. tokens' = Available(startedAt[w]) - Token
  BY DEF Take
<1> QED
  BY <1>1, <1>2, TakenRow DEF Take

\* Taking a token as of a moment counts for every period that has begun then.
LEMMA TakeFits ==
  ASSUME RateTypeOK, NEW w \in Workers, Take(w), Enough(startedAt[w]),
         NEW n \in Nat, NEW moment \in Int, Fits(n, moment)
  PROVE  LET m == n + (IF startedAt[w] >= moment THEN 1 ELSE 0)
         IN  m > 0 => m * Token + tokens' <= Capacity + (updatedAt' - moment) * Refill
<1> DEFINE now == startedAt[w]
           x == (now - updatedAt) * Refill
           y == (updatedAt - moment) * Refill
           z == (now - moment) * Refill
           rest == tokens'
           s == n * Token
<1>1. /\ now \in Int /\ updatedAt \in Int /\ tokens \in Int
      /\ Capacity \in Nat /\ Token \in Nat /\ Refill \in Nat
  BY RateAssumption DEF RateTypeOK
<1>2. x \in Int /\ y \in Int /\ z \in Int /\ s \in Int /\ x + y = z
  BY <1>1, RefillAdds
<1>3. n > 0 => s + tokens <= Capacity + y
  BY DEF Fits
<1>4. updatedAt' = now /\ rest \in Int /\ rest + Token <= Capacity /\ rest + Token <= tokens + x
  BY <1>1, TakeEffect
<1>5. now >= moment => z \in Nat
  BY <1>1
<1>6. (n + 1) * Token = s + Token
  BY OneMore
<1>7. CASE now >= moment
  <2>1. n = 0 => s = 0
    BY <1>1
  <2>2. (s + Token) + rest <= Capacity + z
    <3> HIDE DEF now, x, y, z, rest, s
    <3> QED BY <2>1, <1>1, <1>2, <1>3, <1>4, <1>5, <1>7
  <2> QED BY <1>4, <1>6, <1>7, <2>2
<1>8. CASE ~(now >= moment)
  <2>1. n > 0 => s + rest <= Capacity + z
    <3> HIDE DEF now, x, y, z, rest, s
    <3> QED BY <1>1, <1>2, <1>3, <1>4
  <2> QED BY <1>4, <1>8, <2>1
<1> QED BY <1>7, <1>8

\* Taking a token keeps the invariant of the period's start.
LEMMA TakeSince ==
  ASSUME RateTypeOK, SinceFits, NEW w \in Workers, Take(w), Enough(startedAt[w])
  PROVE  SinceFits'
<1>1. startedAt[w] \in Int /\ from \in Int /\ to \in Int /\ since \in Nat /\ during \in Nat
  BY RateAssumption DEF RateTypeOK
<1>2. LET m == since + (IF startedAt[w] >= from THEN 1 ELSE 0)
      IN  m > 0 => m * Token + tokens' <= Capacity + (updatedAt' - from) * Refill
  BY <1>1, TakeFits DEF SinceFits
<1>3. /\ from' = from
      /\ since' = since + (IF startedAt[w] >= from THEN 1 ELSE 0)
      /\ during' = during + (IF startedAt[w] \in from .. to THEN 1 ELSE 0)
  BY TakeEffect
<1>4. during' <= since'
  BY <1>1, <1>3 DEF SinceFits
<1>5. Fits(since, from)'
  BY <1>2, <1>3 DEF Fits
<1> QED BY <1>4, <1>5 DEF SinceFits

\* Taking a token keeps the bound of the period.
LEMMA TakeDuring ==
  ASSUME RateTypeOK, SinceFits, TakesFitTheBucket,
         NEW w \in Workers, Take(w), Enough(startedAt[w])
  PROVE  TakesFitTheBucket'
<1> DEFINE now == startedAt[w]
           a == (now - from) * Refill
           b == (to - from) * Refill
<1>1. /\ now \in Int /\ from \in Int /\ to \in Int /\ since \in Nat /\ during \in Nat
      /\ Capacity \in Int /\ Token \in Nat /\ Refill \in Nat
  BY RateAssumption DEF RateTypeOK
<1>2. /\ updatedAt' = now /\ from' = from /\ to' = to /\ tokens' \in Nat
      /\ since' = since + (IF now >= from THEN 1 ELSE 0)
      /\ during' = during + (IF now \in from .. to THEN 1 ELSE 0)
  BY <1>1, TakeEffect
<1>3. /\ during' <= since'
      /\ since' > 0 => since' * Token + tokens' <= Capacity + a
  BY <1>2, TakeSince DEF SinceFits, Fits
<1>4. since' \in Nat /\ during' \in Nat
  BY <1>1, <1>2
<1>5. CASE now \in from .. to
  <2>1. since' * Token + tokens' <= Capacity + a
    BY <1>1, <1>2, <1>3, <1>5
  <2>2. a <= b
    BY <1>1, <1>5, RefillGrows
  <2>3. during' * Token <= since' * Token
    BY <1>1, <1>3, <1>4, ProductGrows
  <2>4. a \in Int /\ b \in Int /\ during' * Token \in Int /\ since' * Token \in Int
    BY <1>1, <1>4
  <2> HIDE DEF now, a, b
  <2>5. during' * Token <= Capacity + b
    BY <1>1, <1>2, <2>1, <2>2, <2>3, <2>4, Bounded
  <2> QED
    BY <2>5, <1>2 DEF TakesFitTheBucket, b
<1>6. CASE now \notin from .. to
  <2>1. during' = during
    BY <1>1, <1>2, <1>6
  <2> QED
    BY <2>1, <1>2 DEF TakesFitTheBucket
<1> QED
  BY <1>5, <1>6

\* Every step keeps the invariant.
LEMMA RateKept == RateInv /\ [Next]_vars => RateInv'
<1> SUFFICES ASSUME RateInv, [Next]_vars PROVE RateInv'
  OBVIOUS
<1> USE RateAssumption DEF RateInv
<1>1. ASSUME NEW w \in Workers, Take(w) PROVE RateInv'
  <2>1. CASE Enough(startedAt[w])
    <3>1. SinceFits' /\ TakesFitTheBucket' /\ tokens' \in 0 .. Capacity
      BY <1>1, <2>1, TakeSince, TakeDuring, TakeEffect
    <3>2. RateTypeOK'
      BY <1>1, <2>1, <3>1 DEF Take, RateTypeOK
    <3> QED
      BY <3>1, <3>2
  <2>2. CASE ~Enough(startedAt[w])
    BY <1>1, <2>2 DEF Take, RateTypeOK, SinceFits, Fits, TakesFitTheBucket
  <2> QED
    BY <2>1, <2>2
<1>2. ASSUME NEW w \in Workers, Begin(w) PROVE RateInv'
  BY <1>2 DEF Begin, countVars, RateTypeOK, SinceFits, Fits, TakesFitTheBucket
<1>3. ASSUME NEW w \in Workers, Register(w) PROVE RateInv'
  BY <1>3 DEF Register, countVars, RateTypeOK, SinceFits, Fits, TakesFitTheBucket
<1>4. CASE Tick
  BY <1>4 DEF Tick, countVars, RateTypeOK, SinceFits, Fits, TakesFitTheBucket
<1>5. CASE UNCHANGED vars
  BY <1>5 DEF vars, RateTypeOK, SinceFits, Fits, TakesFitTheBucket
<1> QED
  BY <1>1, <1>2, <1>3, <1>4, <1>5 DEF Next

\* The invariant holds in every reachable state.
LEMMA RateInvHolds == Spec => []RateInv
BY InitRate, RateKept, PTL DEF Spec

\* Type correctness: the row never holds less than nothing or more than the burst.
THEOREM BucketTypeOK == Spec => []RateTypeOK
BY RateInvHolds, PTL DEF RateInv

\* No period of time sees more tokens taken than the burst and its refill,
\* whatever the order in which transactions begin and reach the row.
THEOREM BucketNeverOverspent == Spec => []TakesFitTheBucket
BY RateInvHolds, PTL DEF RateInv

-----------------------------------------------------------------------------
(* The supplier's window.                                                  *)

\* The supplier's limit leaves room for the burst and for what is refilled in
\* its window and in the time a request may be on its way.
Roomy == Capacity + (Span - 1 + Delay) * Refill < (Limit + 1) * Token

\* No request is on its way longer than the delay; the log is in order of time.
TimeInv ==
  /\ updatedAt <= clock
  /\ \A w \in Workers : /\ startedAt[w] <= clock
                        /\ pc[w] # "idle" => clock - startedAt[w] <= Delay
  /\ log \in Seq(Nat)
  /\ \A n \in DOMAIN log : log[n] <= clock /\ \A m \in DOMAIN log : m <= n => log[m] <= log[n]

Sending(moment) == {w \in Workers : pc[w] = "sending" /\ startedAt[w] >= moment}

\* Tokens taken at a moment or later: their requests are among those on their
\* way and, if the k first arrived too early to be, those that arrived after.
TakenSince(k, moment) == Len(log) - k + Cardinality(Sending(moment))

ArrivedAfter(k, moment) == \A n \in DOMAIN log : n > k => log[n] >= moment + Delay

WindowInv ==
  \A moment \in Int, k \in 0 .. Len(log) :
    ArrivedAfter(k, moment) => Fits(TakenSince(k, moment), moment)

Before == {pair \in Nat \X Nat : pair[1] < pair[2]}

\* A nonempty set of numbers has a least one.
LEMMA LeastNumber ==
  ASSUME NEW S \in SUBSET Nat, S # {}
  PROVE  \E n \in S : \A m \in S : n <= m
<1>1. IsWellFoundedOn(Before, Nat)
  BY NatLessThanWellFounded DEF OpToRel, Before
<1>2. PICK n \in S : \A m \in S : <<m, n>> \notin Before
  BY <1>1, WFMin
<1>3. \A m \in S : ~(m < n)
  BY <1>2 DEF Before
<1> QED
  BY <1>3

\* The window is the end of the log.
LEMMA WindowIsEnd ==
  ASSUME RateTypeOK, TimeInv
  PROVE  /\ Len(log) \in Nat /\ DOMAIN log = 1 .. Len(log)
         /\ \E gone \in 0 .. Len(log) :
              /\ Recent \in Seq(Nat) /\ Len(Recent) = Len(log) - gone
              /\ DOMAIN Recent = 1 .. Len(log) - gone
              /\ \A n \in 1 .. Len(log) - gone : Recent[n] = log[gone + n]
              /\ \A n \in DOMAIN log : n > gone <=> log[n] > clock - Span
<1> DEFINE In(n) == log[n] > clock - Span
           Start(n) == \A m \in DOMAIN log : m >= n <=> In(m)
<1>1. log \in Seq(Nat) /\ Len(log) \in Nat /\ DOMAIN log = 1 .. Len(log)
  BY DEF TimeInv
<1>2. clock \in Int /\ Span \in Int /\ \A n \in DOMAIN log : log[n] \in Int
  BY <1>1, RateAssumption DEF RateTypeOK
<1>3. \E n \in 1 .. Len(log) + 1 : Start(n)
  <2> DEFINE S == {n \in 1 .. Len(log) : In(n)}
  <2>1. CASE S = {}
    <3>1. Start(Len(log) + 1)
      BY <1>1, <2>1
    <3> QED BY <1>1, <3>1
  <2>2. CASE S # {}
    <3>1. S \in SUBSET Nat
      OBVIOUS
    <3>2. PICK n \in S : \A m \in S : n <= m
      <4> HIDE DEF S
      <4> QED BY <2>2, <3>1, LeastNumber
    <3>3. ASSUME NEW m \in DOMAIN log, m >= n PROVE In(m)
      <4>1. log[n] <= log[m] /\ n \in DOMAIN log
        BY <1>1, <3>2, <3>3 DEF TimeInv
      <4> QED BY <1>2, <3>2, <4>1
    <3>4. Start(n)
      BY <1>1, <3>2, <3>3
    <3> QED BY <1>1, <3>2, <3>4
  <2> QED BY <2>1, <2>2
<1> DEFINE first == CHOOSE n \in 1 .. Len(log) + 1 : Start(n)
<1>4. first \in 1 .. Len(log) + 1 /\ Start(first)
  BY <1>3
<1>5. Recent = SubSeq(log, first, Len(log))
  BY DEF Recent
<1> HIDE DEF first
<1>6. PICK gone \in 0 .. Len(log) : first = gone + 1
  BY <1>1, <1>4
<1>7. /\ Recent \in Seq(Nat) /\ Len(Recent) = Len(log) - gone
      /\ DOMAIN Recent = 1 .. Len(log) - gone
      /\ \A n \in 1 .. Len(log) - gone : Recent[n] = log[gone + n]
  <2>1. /\ SubSeq(log, first, Len(log)) \in Seq(Nat)
        /\ Len(SubSeq(log, first, Len(log))) = IF first <= Len(log) THEN Len(log) - first + 1 ELSE 0
        /\ \A n \in 1 .. Len(log) - first + 1 : SubSeq(log, first, Len(log))[n] = log[first + n - 1]
    <3>1. first \in Int /\ Len(log) \in Int /\ \A n \in first .. Len(log) : log[n] \in Nat
      BY <1>1, <1>4
    <3> QED BY <3>1, SubSeqProperties
  <2>2. Len(log) - first + 1 = Len(log) - gone
    BY <1>1, <1>6
  <2>3. Recent \in Seq(Nat) /\ Len(Recent) = Len(log) - gone
    <3>1. (IF first <= Len(log) THEN Len(log) - first + 1 ELSE 0) = Len(log) - gone
      <4> DEFINE l == Len(log)
      <4>1. l \in Int /\ gone \in Int /\ gone <= l /\ first = gone + 1
        BY <1>1, <1>6
      <4> HIDE DEF l
      <4>2. (IF first <= l THEN l - first + 1 ELSE 0) = l - gone
        BY <4>1
      <4> QED BY <4>2 DEF l
    <3> QED BY <1>5, <2>1, <3>1
  <2>4. ASSUME NEW n \in 1 .. Len(log) - gone PROVE Recent[n] = log[gone + n]
    <3>1. first + n - 1 = gone + n
      BY <1>6
    <3>2. n \in 1 .. Len(log) - first + 1
      BY <2>2
    <3> QED BY <1>5, <2>1, <3>1, <3>2
  <2>5. DOMAIN Recent = 1 .. Len(Recent)
    BY <2>3
  <2> QED BY <2>3, <2>4, <2>5
<1>8. \A n \in DOMAIN log : n > gone <=> In(n)
  BY <1>1, <1>4, <1>6
<1> QED BY <1>1, <1>7, <1>8

LEMMA CountSending ==
  ASSUME NEW moment
  PROVE  IsFiniteSet(Sending(moment)) /\ Cardinality(Sending(moment)) \in Nat
<1>1. Sending(moment) \subseteq Workers /\ IsFiniteSet(Workers)
  BY RateAssumption DEF Sending
<1> QED BY <1>1, FS_Subset, FS_CardinalityType

\* Fewer tokens fit as well.
LEMMA FewerFit ==
  ASSUME RateTypeOK, NEW n \in Nat, NEW m \in Nat, m <= n, NEW moment \in Int, Fits(n, moment)
  PROVE  Fits(m, moment)
<1>1. m * Token <= n * Token /\ m * Token \in Int /\ n * Token \in Int
  BY ProductGrows, RateAssumption
<1> DEFINE a == m * Token  b == n * Token  c == (updatedAt - moment) * Refill
<1>2. c \in Int /\ tokens \in Int /\ Capacity \in Int
  BY RateAssumption DEF RateTypeOK
<1>3. ASSUME m > 0 PROVE a + tokens <= Capacity + c
  <2>1. b + tokens <= Capacity + c
    BY <1>3 DEF Fits
  <2> HIDE DEF a, b, c
  <2>2. a <= b /\ a \in Int /\ b \in Int
    BY <1>1 DEF a, b
  <2> QED BY <1>2, <2>1, <2>2
<1> QED BY <1>3 DEF Fits

LEMMA TimeKept ==
  ASSUME RateTypeOK, TimeInv, [Next]_vars PROVE TimeInv'
<1>1. clock \in Nat /\ Delay \in Nat
  BY RateAssumption DEF RateTypeOK
<1>2. ASSUME NEW w \in Workers, Register(w) PROVE TimeInv'
  <2>1. PICK gone \in 0 .. Len(log) :
          /\ Recent \in Seq(Nat) /\ Len(Recent) = Len(log) - gone
          /\ DOMAIN Recent = 1 .. Len(log) - gone
          /\ \A n \in 1 .. Len(log) - gone : Recent[n] = log[gone + n]
    BY WindowIsEnd
  <2>2. Len(log) \in Nat /\ DOMAIN log = 1 .. Len(log)
    BY WindowIsEnd
  <2>3. \A n \in 1 .. Len(Recent) : Recent[n] <= clock /\ \A m \in 1 .. Len(Recent) : m <= n => Recent[m] <= Recent[n]
    <3> SUFFICES ASSUME NEW n \in 1 .. Len(Recent)
                 PROVE  Recent[n] <= clock /\ \A m \in 1 .. Len(Recent) : m <= n => Recent[m] <= Recent[n]
      OBVIOUS
    <3>1. gone + n \in DOMAIN log /\ Recent[n] = log[gone + n]
      BY <2>1, <2>2
    <3>2. ASSUME NEW m \in 1 .. Len(Recent), m <= n PROVE Recent[m] <= Recent[n]
      <4>1. gone + m \in DOMAIN log /\ Recent[m] = log[gone + m] /\ gone + m <= gone + n
        BY <2>1, <2>2, <3>2
      <4> QED BY <3>1, <4>1 DEF TimeInv
    <3> QED BY <3>1, <3>2 DEF TimeInv
  <2>4. CASE log' = Recent
    <3>1. log' \in Seq(Nat) /\ DOMAIN log' = 1 .. Len(Recent)
      BY <2>1, <2>4
    <3>2. \A n \in DOMAIN log' : log'[n] <= clock /\ \A m \in DOMAIN log' : m <= n => log'[m] <= log'[n]
      BY <2>3, <2>4, <3>1
    <3> QED BY <1>2, <3>1, <3>2 DEF TimeInv, Register
  <2>5. CASE log' = Append(Recent, clock)
    <3>1. /\ log' \in Seq(Nat) /\ Len(Recent) \in Nat /\ DOMAIN log' = 1 .. Len(Recent) + 1
          /\ log'[Len(Recent) + 1] = clock
          /\ \A n \in 1 .. Len(Recent) : log'[n] = Recent[n]
      BY <1>1, <2>1, <2>5
    <3>2. \A n \in DOMAIN log' : log'[n] <= clock /\ \A m \in DOMAIN log' : m <= n => log'[m] <= log'[n]
      <4> SUFFICES ASSUME NEW n \in 1 .. Len(Recent) + 1
                   PROVE  log'[n] <= clock /\ \A m \in 1 .. Len(Recent) + 1 : m <= n => log'[m] <= log'[n]
        BY <3>1
      <4>1. CASE n \in 1 .. Len(Recent)
        <5>1. \A m \in 1 .. Len(Recent) + 1 : m <= n => m \in 1 .. Len(Recent)
          BY <3>1, <4>1
        <5> QED BY <2>3, <3>1, <4>1, <5>1
      <4>2. CASE n = Len(Recent) + 1
        <5>1. \A m \in 1 .. Len(Recent) + 1 : m \in 1 .. Len(Recent) \/ m = Len(Recent) + 1
          BY <3>1
        <5> QED BY <1>1, <2>3, <3>1, <4>2, <5>1
      <4> QED BY <3>1, <4>1, <4>2
    <3> QED BY <1>2, <3>1, <3>2 DEF TimeInv, Register
  <2> QED BY <1>2, <2>4, <2>5 DEF Register
<1>3. ASSUME NEW w \in Workers, Begin(w) PROVE TimeInv'
  BY <1>1, <1>3 DEF Begin, countVars, TimeInv, RateTypeOK
<1>4. ASSUME NEW w \in Workers, Take(w) PROVE TimeInv'
  BY <1>1, <1>4 DEF Take, TimeInv, RateTypeOK
<1>5. CASE Tick
  <2>1. clock' = clock + 1 /\ UNCHANGED <<updatedAt, pc, startedAt, log>>
    BY <1>5 DEF Tick
  <2>2. updatedAt \in Int /\ \A w \in Workers : startedAt[w] \in Int
    BY DEF RateTypeOK
  <2>3. \A w \in Workers : startedAt[w] <= clock' /\ (pc[w] # "idle" => clock' - startedAt[w] <= Delay)
    BY <1>1, <1>5, <2>1, <2>2 DEF Tick, TimeInv
  <2>4. \A n \in DOMAIN log : log[n] <= clock'
    BY <1>1, <2>1 DEF TimeInv
  <2>5. updatedAt <= clock'
    BY <1>1, <2>1, <2>2 DEF TimeInv
  <2> QED BY <2>1, <2>3, <2>4, <2>5 DEF TimeInv
<1>6. CASE UNCHANGED vars
  BY <1>6 DEF vars, TimeInv
<1> QED BY <1>2, <1>3, <1>4, <1>5, <1>6 DEF Next

\* A worker that gets a token is on its way with it.
LEMMA TakeWindow ==
  ASSUME RateTypeOK, TimeInv, WindowInv, NEW w \in Workers, Take(w), Enough(startedAt[w])
  PROVE  WindowInv'
<1> SUFFICES ASSUME NEW moment \in Int, NEW k \in 0 .. Len(log), ArrivedAfter(k, moment)
             PROVE  TakenSince(k, moment)' > 0 =>
                      TakenSince(k, moment)' * Token + tokens' <= Capacity + (updatedAt' - moment) * Refill
  <2>1. log' = log
    BY DEF Take
  <2> QED BY <2>1 DEF WindowInv, ArrivedAfter, Fits
<1>1. Len(log) \in Nat /\ TakenSince(k, moment) \in Nat
  <2>1. Len(log) \in Nat /\ Cardinality(Sending(moment)) \in Nat
    BY CountSending, WindowIsEnd
  <2>2. Len(log) - k \in Nat
    BY <2>1
  <2> QED BY <2>1, <2>2 DEF TakenSince
<1>2. Fits(TakenSince(k, moment), moment)
  BY DEF WindowInv
<1>3. TakenSince(k, moment)' = TakenSince(k, moment) + (IF startedAt[w] >= moment THEN 1 ELSE 0)
  <2>1. w \notin Sending(moment)
    BY DEF Take, Sending
  <2>2. Sending(moment)' = IF startedAt[w] >= moment THEN Sending(moment) \cup {w} ELSE Sending(moment)
    BY DEF Take, Sending, RateTypeOK
  <2>3. Cardinality(Sending(moment) \cup {w}) = Cardinality(Sending(moment)) + 1
    BY <2>1, CountSending, FS_AddElement
  <2>4. log' = log
    BY DEF Take
  <2> QED BY <1>1, <2>2, <2>3, <2>4, CountSending DEF TakenSince
<1> QED BY <1>1, <1>2, <1>3, TakeFits

\* A request that arrives moves from the way to the log, or is refused.
LEMMA RegisterWindow ==
  ASSUME RateTypeOK, TimeInv, WindowInv, NEW w \in Workers, Register(w)
  PROVE  WindowInv'
<1>1. PICK gone \in 0 .. Len(log) :
        /\ Recent \in Seq(Nat) /\ Len(Recent) = Len(log) - gone
        /\ DOMAIN Recent = 1 .. Len(log) - gone
        /\ \A n \in 1 .. Len(log) - gone : Recent[n] = log[gone + n]
  BY WindowIsEnd
<1>2. Len(log) \in Nat /\ DOMAIN log = 1 .. Len(log) /\ clock \in Nat /\ Delay \in Nat
  BY WindowIsEnd, RateAssumption DEF RateTypeOK
<1>3. UNCHANGED <<tokens, updatedAt, startedAt>> /\ (log' = Recent \/ log' = Append(Recent, clock))
  BY DEF Register
<1>4. /\ Len(log') \in Nat /\ DOMAIN log' = 1 .. Len(log')
      /\ \A n \in 1 .. Len(Recent) : n \in DOMAIN log' /\ log'[n] = Recent[n]
      /\ \/ Len(log') = Len(Recent)
         \/ Len(log') = Len(Recent) + 1 /\ log'[Len(log')] = clock
  <2>1. CASE log' = Recent
    BY <1>1, <2>1
  <2>2. CASE log' = Append(Recent, clock)
    <3>1. /\ Len(Recent) \in Nat /\ Len(log') = Len(Recent) + 1 /\ DOMAIN log' = 1 .. Len(Recent) + 1
          /\ log'[Len(Recent) + 1] = clock
          /\ \A n \in 1 .. Len(Recent) : log'[n] = Recent[n]
      BY <1>1, <1>2, <2>2
    <3> QED BY <3>1
  <2> QED BY <1>3, <2>1, <2>2
<1> SUFFICES ASSUME NEW moment \in Int, NEW k \in 0 .. Len(log'),
                    \A n \in DOMAIN log' : n > k => log'[n] >= moment + Delay
             PROVE  Fits(TakenSince(k, moment)', moment)
  BY <1>3 DEF WindowInv, ArrivedAfter, Fits
<1>5. /\ Len(Recent) \in Nat /\ gone \in Nat /\ Len(log) \in Nat /\ Len(log') \in Nat /\ k \in Nat
      /\ Len(log) = gone + Len(Recent) /\ k <= Len(log') /\ Len(log') \in {Len(Recent), Len(Recent) + 1}
  BY <1>1, <1>2, <1>4
<1>6. \E j \in 0 .. Len(log) : ArrivedAfter(j, moment) /\ TakenSince(k, moment)' <= TakenSince(j, moment)
  <2>1. Sending(moment)' = Sending(moment) \ {w}
    BY DEF Register, Sending, RateTypeOK
  <2>2. /\ Cardinality(Sending(moment)') <= Cardinality(Sending(moment))
        /\ w \in Sending(moment) => Cardinality(Sending(moment)') = Cardinality(Sending(moment)) - 1
        /\ Cardinality(Sending(moment)) \in Nat /\ Cardinality(Sending(moment)') \in Nat
    <3>1. IsFiniteSet(Sending(moment)) /\ Cardinality(Sending(moment)) \in Nat
      BY CountSending
    <3>2. IsFiniteSet(Sending(moment) \ {w}) /\ Cardinality(Sending(moment) \ {w}) \in Nat
      BY <3>1, FS_RemoveElement, FS_CardinalityType
    <3>3. Cardinality(Sending(moment) \ {w}) =
            IF w \in Sending(moment) THEN Cardinality(Sending(moment)) - 1 ELSE Cardinality(Sending(moment))
      BY <3>1, FS_RemoveElement
    <3> DEFINE a == Cardinality(Sending(moment))  b == Cardinality(Sending(moment) \ {w})
    <3>4. b <= a /\ (w \in Sending(moment) => b = a - 1) /\ a \in Nat /\ b \in Nat
      <4> HIDE DEF Sending
      <4> QED BY <3>1, <3>2, <3>3
    <3> QED BY <2>1, <3>4
  <2> DEFINE before == Cardinality(Sending(moment))
             after == Cardinality(Sending(moment)')
  <2>3. TakenSince(k, moment)' = Len(log') - k + after /\ \A j : TakenSince(j, moment) = Len(log) - j + before
    BY DEF TakenSince
  <2>4. ASSUME k <= Len(Recent)
        PROVE  gone + k \in 0 .. Len(log) /\ ArrivedAfter(gone + k, moment)
    <3>1. gone + k \in 0 .. Len(log)
      BY <1>5, <2>4
    <3>2. ASSUME NEW n \in DOMAIN log, n > gone + k PROVE log[n] >= moment + Delay
      <4>1. n - gone \in 1 .. Len(Recent) /\ n - gone > k /\ gone + (n - gone) = n
        <5>1. n \in Nat /\ n <= Len(log)
          BY <1>2
        <5> QED BY <1>5, <3>2, <5>1
      <4>2. log'[n - gone] = log[n] /\ n - gone \in DOMAIN log'
        BY <1>1, <1>4, <4>1
      <4> QED BY <4>1, <4>2
    <3> QED BY <3>1, <3>2 DEF ArrivedAfter
  <2>5. CASE k <= Len(Recent) /\ Len(log') = Len(Recent)
    <3>1. Len(log') - k + after <= Len(log) - (gone + k) + before
      <4> HIDE DEF before, after
      <4>1. after <= before /\ after \in Nat /\ before \in Nat
        BY <2>2 DEF before, after
      <4> QED BY <1>5, <2>5, <4>1
    <3> QED BY <2>3, <2>4, <2>5, <3>1
  <2>6. CASE k <= Len(Recent) /\ Len(log') = Len(Recent) + 1
    <3>1. clock >= moment + Delay
      <4>1. Len(log') \in DOMAIN log' /\ Len(log') > k /\ log'[Len(log')] = clock
        BY <1>1, <1>2, <1>4, <2>6
      <4> QED BY <4>1
    <3>2. w \in Sending(moment)
      <4>1. pc[w] = "sending" /\ clock - startedAt[w] <= Delay /\ startedAt[w] \in Int
        BY DEF Register, TimeInv, RateTypeOK
      <4> QED BY <1>2, <3>1, <4>1 DEF Sending
    <3>3. Len(log') - k + after <= Len(log) - (gone + k) + before
      <4> HIDE DEF before, after
      <4>1. after = before - 1 /\ after \in Nat /\ before \in Nat
        BY <2>2, <3>2 DEF before, after
      <4> QED BY <1>5, <2>6, <4>1
    <3> QED BY <2>3, <2>4, <2>6, <3>3
  <2>7. CASE k > Len(Recent)
    <3>1. k = Len(log')
      BY <1>5, <2>7
    <3>2. ArrivedAfter(Len(log), moment) /\ Len(log) \in 0 .. Len(log)
      BY <1>2 DEF ArrivedAfter
    <3>3. Len(log') - k + after <= Len(log) - Len(log) + before
      <4> HIDE DEF before, after
      <4>1. after <= before /\ after \in Nat /\ before \in Nat
        BY <2>2 DEF before, after
      <4> QED BY <1>5, <3>1, <4>1
    <3> QED BY <2>3, <3>2, <3>3
  <2> QED BY <1>5, <2>5, <2>6, <2>7
<1>7. PICK j \in 0 .. Len(log) : ArrivedAfter(j, moment) /\ TakenSince(k, moment)' <= TakenSince(j, moment)
  BY <1>6
<1>8. Fits(TakenSince(j, moment), moment)
  BY <1>7 DEF WindowInv
<1>9. TakenSince(j, moment) \in Nat /\ TakenSince(k, moment)' \in Nat
  <2>1. Sending(moment)' \subseteq Workers
    BY DEF Sending
  <2>2. Cardinality(Sending(moment)') \in Nat
    BY <2>1, RateAssumption, FS_Subset, FS_CardinalityType
  <2>3. Len(log) - j \in Nat /\ Len(log') - k \in Nat
    BY <1>5
  <2>4. Cardinality(Sending(moment)) \in Nat
    BY CountSending
  <2> QED BY <2>2, <2>3, <2>4 DEF TakenSince
<1> QED BY <1>7, <1>8, <1>9, FewerFit

LEMMA WindowKept ==
  ASSUME RateTypeOK, TimeInv, WindowInv, [Next]_vars PROVE WindowInv'
<1>1. ASSUME UNCHANGED <<log, tokens, updatedAt>>, \A moment \in Int : Sending(moment)' = Sending(moment)
      PROVE  WindowInv'
  BY <1>1 DEF WindowInv, ArrivedAfter, Fits, TakenSince
<1>2. CASE UNCHANGED vars \/ Tick
  BY <1>1, <1>2 DEF vars, Tick, Sending
<1>3. ASSUME NEW w \in Workers, Begin(w) PROVE WindowInv'
  BY <1>1, <1>3 DEF Begin, Sending, RateTypeOK
<1>4. ASSUME NEW w \in Workers, Take(w), ~Enough(startedAt[w]) PROVE WindowInv'
  BY <1>1, <1>4 DEF Take, Sending, RateTypeOK
<1> QED BY <1>2, <1>3, <1>4, TakeWindow, RegisterWindow DEF Next

LEMMA WindowAlways == Spec => [](RateInv /\ TimeInv /\ WindowInv)
<1>1. Init => RateInv /\ TimeInv /\ WindowInv
  <2> SUFFICES ASSUME Init PROVE TimeInv /\ WindowInv
    BY InitRate
  <2>1. TimeInv
    BY RateAssumption DEF Init, TimeInv
  <2>2. ASSUME NEW moment \in Int, NEW k \in 0 .. Len(log) PROVE Fits(TakenSince(k, moment), moment)
    <3>1. Sending(moment) = {} /\ Len(log) = 0
      BY DEF Init, Sending
    <3>2. TakenSince(k, moment) = 0
      BY <3>1, FS_EmptySet DEF TakenSince
    <3> QED BY <3>2 DEF Fits
  <2> QED BY <2>1, <2>2 DEF WindowInv
<1>2. RateInv /\ TimeInv /\ WindowInv /\ [Next]_vars => (RateInv /\ TimeInv /\ WindowInv)'
  BY RateKept, TimeKept, WindowKept DEF RateInv
<1> QED BY <1>1, <1>2, PTL DEF Spec

\* A request that has its token finds room in the supplier's window, whatever
\* the order of transactions, waits and arrivals, if the limit leaves room for
\* the burst and for what is refilled in the window and in the longest delay.
THEOREM SupplierAlwaysHasRoom == ASSUME Roomy PROVE Spec => []SupplierHasRoom
<1>1. ASSUME RateTypeOK, TimeInv, WindowInv, Roomy, NEW w \in Workers, pc[w] = "sending"
      PROVE  Len(Recent) < Limit
  <2>1. /\ clock \in Nat /\ Span \in Nat \ {0} /\ Delay \in Nat /\ Limit \in Nat /\ Capacity \in Nat
        /\ tokens \in Nat /\ updatedAt \in Nat /\ updatedAt <= clock /\ Token \in Nat
    BY <1>1, RateAssumption DEF RateTypeOK, TimeInv
  <2> DEFINE moment == clock - (Span - 1 + Delay)
  <2>2. PICK gone \in 0 .. Len(log) :
          /\ Len(Recent) = Len(log) - gone
          /\ \A n \in DOMAIN log : n > gone => log[n] > clock - Span
    BY <1>1, WindowIsEnd
  <2>3. Len(log) \in Nat /\ log \in Seq(Nat) /\ moment \in Int
    BY <1>1, <2>1, WindowIsEnd DEF TimeInv
  <2>4. ArrivedAfter(gone, moment)
    <3>1. \A n \in DOMAIN log : log[n] \in Int
      BY <2>3
    <3> QED BY <2>1, <2>2, <3>1 DEF ArrivedAfter
  <2>5. Len(Recent) + 1 <= TakenSince(gone, moment)
    <3>1. w \in Sending(moment)
      <4>1. clock - startedAt[w] <= Delay /\ startedAt[w] \in Int
        BY <1>1 DEF TimeInv, RateTypeOK
      <4> QED BY <1>1, <2>1, <4>1 DEF Sending
    <3>2. Cardinality(Sending(moment)) >= 1
      BY <3>1, CountSending, FS_EmptySet
    <3> QED BY <2>2, <2>3, <3>2, CountSending DEF TakenSince
  <2>6. Len(Recent) \in Nat /\ TakenSince(gone, moment) \in Nat
    BY <2>2, <2>3, CountSending DEF TakenSince
  <2>7. Fits(Len(Recent) + 1, moment)
    <3>1. Fits(TakenSince(gone, moment), moment)
      BY <1>1, <2>3, <2>4 DEF WindowInv
    <3> QED BY <1>1, <2>3, <2>5, <2>6, <3>1, FewerFit
  <2>8. (Len(Recent) + 1) * Token <= Capacity + (Span - 1 + Delay) * Refill
    <3> DEFINE a == (Len(Recent) + 1) * Token
               b == (updatedAt - moment) * Refill
               c == (Span - 1 + Delay) * Refill
    <3>1. a + tokens <= Capacity + b
      BY <2>6, <2>7 DEF Fits
    <3>2. b <= c
      <4>1. updatedAt - moment <= Span - 1 + Delay /\ updatedAt - moment \in Int /\ Span - 1 + Delay \in Int
        BY <2>1
      <4> QED BY <4>1, RefillGrows
    <3>3. a \in Int /\ b \in Int /\ c \in Int
      BY <2>1, <2>3, <2>6, RateAssumption
    <3> HIDE DEF a, b, c
    <3>4. a <= Capacity + c
      BY <2>1, <3>1, <3>2, <3>3
    <3> QED BY <3>4 DEF a, c
  <2>9. ~(Len(Recent) >= Limit)
    <3> SUFFICES ASSUME Len(Recent) >= Limit PROVE FALSE
      OBVIOUS
    <3>1. Limit + 1 \in Nat /\ Len(Recent) + 1 \in Nat /\ Limit + 1 <= Len(Recent) + 1
      BY <2>1, <2>6
    <3>2. (Limit + 1) * Token <= (Len(Recent) + 1) * Token
      BY <2>1, <3>1, ProductGrows
    <3> DEFINE a == (Len(Recent) + 1) * Token
               b == (Limit + 1) * Token
               c == Capacity + (Span - 1 + Delay) * Refill
    <3>3. a \in Int /\ b \in Int /\ c \in Int
      BY <2>1, <2>6, RateAssumption
    <3>4. b <= a /\ a <= c /\ c < b
      BY <1>1, <2>8, <3>2 DEF Roomy
    <3> HIDE DEF a, b, c
    <3> QED BY <3>3, <3>4
  <2> QED BY <2>1, <2>6, <2>9
<1> SUFFICES ASSUME Roomy PROVE Spec => []SupplierHasRoom
  OBVIOUS
<1>2. RateInv /\ TimeInv /\ WindowInv => SupplierHasRoom
  BY <1>1 DEF RateInv, SupplierHasRoom
<1> QED BY <1>2, WindowAlways, PTL
=============================================================================
