----------------------------- MODULE RateLimit ------------------------------
(***************************************************************************)
(* services/ratelimit.py: the token bucket of one supplier, a row in       *)
(* supplier_budgets that all workers take from, and the sliding window the *)
(* supplier itself counts requests in (suppliers/main.py).                 *)
(*                                                                         *)
(* `now()` is the time the transaction began.  A transaction that waits    *)
(* for the row therefore refills the bucket as of a moment that may lie    *)
(* before the row's updated_at, and may set updated_at back.               *)
(*                                                                         *)
(* Time is counted in ticks and tokens in parts of a token.                *)
(***************************************************************************)
EXTENDS Integers, Sequences, FiniteSets

CONSTANTS
  Workers,    \* workers that call suppliers, in any number of processes
  Token,      \* parts in one token
  Refill,     \* parts gained per tick: supplier_budgets.refill_per_sec
  Capacity,   \* parts the bucket holds: supplier_budgets.capacity
  Limit,      \* requests the supplier accepts ...
  Span,       \* ... in this many ticks
  Delay,      \* ticks from the start of a transaction to the supplier's clock
  MaxClock    \* bound on the time that passes

ASSUME RateAssumption ==
  /\ IsFiniteSet(Workers)
  /\ Token \in Nat \ {0} /\ Refill \in Nat \ {0} /\ Capacity \in Nat
  /\ Capacity >= Token          \* max(1.0, settings.supplier_rate_burst)
  /\ Limit \in Nat /\ Span \in Nat \ {0} /\ Delay \in Nat /\ MaxClock \in Nat

VARIABLES
  clock,      \* the database's clock
  tokens,     \* supplier_budgets.tokens
  updatedAt,  \* supplier_budgets.updated_at
  pc,         \* where a worker is in _call_issue
  startedAt,  \* now() of its transaction
  log,        \* ISSUE_LOG: arrival times the supplier still counts
  from, to,   \* any period of time, to count the tokens taken in it
  since,      \* tokens taken by transactions begun at `from` or later
  during      \* tokens taken by transactions begun in from .. to

vars == <<clock, tokens, updatedAt, pc, startedAt, log, from, to, since, during>>
countVars == <<from, to, since, during>>

Init ==
  /\ clock = 0 /\ tokens = Capacity /\ updatedAt = 0
  /\ pc = [w \in Workers |-> "idle"]
  /\ startedAt = [w \in Workers |-> 0]
  /\ log = <<>>
  /\ from \in 0 .. MaxClock /\ to \in from .. MaxClock
  /\ since = 0 /\ during = 0

----------------------------------------------------------------------------
\* A mutation: what has run up while nobody asked is not cut off.
AvailableUncapped(now) == tokens + (now - updatedAt) * Refill

\* _AVAILABLE: LEAST(capacity, tokens + elapsed * refill_per_sec).
Available(now) ==
  LET refilled == tokens + (now - updatedAt) * Refill
  IN  IF refilled < Capacity THEN refilled ELSE Capacity

\* A mutation: any part of a token will do.
EnoughAtAll(now) == Available(now) > 0

\* The WHERE clause of TAKE_SQL.
Enough(now) == Available(now) >= Token

\* take() opens its transaction.
Begin(w) ==
  /\ pc[w] = "idle"
  /\ pc' = [pc EXCEPT ![w] = "taking"]
  /\ startedAt' = [startedAt EXCEPT ![w] = clock]
  /\ UNCHANGED <<clock, tokens, updatedAt, log, countVars>>

\* TAKE_SQL gets the row: refill and take in one UPDATE, evaluated against the
\* row as the last committed transaction left it.  If the bucket does not hold
\* a token the caller is throttled and comes back later.
Take(w) ==
  LET now == startedAt[w] IN
  /\ pc[w] = "taking"
  /\ IF Enough(now)
     THEN /\ tokens' = Available(now) - Token
          /\ updatedAt' = now
          /\ pc' = [pc EXCEPT ![w] = "sending"]
          /\ since' = since + (IF now >= from THEN 1 ELSE 0)
          /\ during' = during + (IF now \in from .. to THEN 1 ELSE 0)
     ELSE /\ pc' = [pc EXCEPT ![w] = "idle"]
          /\ UNCHANGED <<tokens, updatedAt, since, during>>
  /\ UNCHANGED <<clock, startedAt, log, from, to>>

\* Requests still inside the supplier's window: the log is in the order of
\* time, so they are its end.
Recent ==
  LET first == CHOOSE n \in 1 .. Len(log) + 1 :
                 \A m \in DOMAIN log : m >= n <=> log[m] > clock - Span
  IN  SubSeq(log, first, Len(log))

\* The request reaches the supplier: _register_request drops what has left the
\* window and counts the request, or answers 429.
Register(w) ==
  /\ pc[w] = "sending"
  /\ pc' = [pc EXCEPT ![w] = "idle"]
  /\ log' = IF Len(Recent) >= Limit THEN Recent ELSE Append(Recent, clock)
  /\ UNCHANGED <<clock, tokens, updatedAt, startedAt, countVars>>

\* Time passes.  A transaction, its wait for the row and the journey of its
\* request together take at most Delay ticks.
Tick ==
  /\ clock < MaxClock
  /\ \A w \in Workers : pc[w] # "idle" => clock - startedAt[w] < Delay
  /\ clock' = clock + 1
  /\ UNCHANGED <<tokens, updatedAt, pc, startedAt, log, countVars>>

Next == Tick \/ \E w \in Workers : Begin(w) \/ Take(w) \/ Register(w)

Spec == Init /\ [][Next]_vars

----------------------------------------------------------------------------
\* The row and the workers' local state have values of their types; tokens
\* never go below zero, although a refill may be negative.
RateTypeOK ==
  /\ clock \in 0 .. MaxClock
  /\ tokens \in 0 .. Capacity
  /\ updatedAt \in 0 .. MaxClock
  /\ pc \in [Workers -> {"idle", "taking", "sending"}]
  /\ startedAt \in [Workers -> 0 .. MaxClock]
  /\ from \in 0 .. MaxClock /\ to \in from .. MaxClock
  /\ since \in Nat /\ during \in Nat

\* Whatever the order in which transactions begin and get the row, in no
\* period of time do the workers take more than the burst and the refill of
\* that period: taking as of an earlier moment gives nothing away.
TakesFitTheBucket == during * Token <= Capacity + (to - from) * Refill

\* A request that has its token is never answered with 429: the supplier's
\* window has room for it, in whichever order requests arrive.
SupplierHasRoom ==
  \A w \in Workers : pc[w] = "sending" => Len(Recent) < Limit
=============================================================================
