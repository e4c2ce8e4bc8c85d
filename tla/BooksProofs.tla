---------------------------- MODULE BooksProofs -----------------------------
(***************************************************************************)
(* Proofs about the amounts of the ledger and the reconciliation report,   *)
(* for every number of orders and items and all prices.  The amounts are   *)
(* sums over finite sets: the first half proves what the fold of the       *)
(* community modules returns, the second reads the properties off the      *)
(* shop's invariants.                                                      *)
(***************************************************************************)
EXTENDS Books, QueueProofs

----------------------------------------------------------------------------
(* Induction over the size of a set.  The library's theorems take the       *)
(* induction hypothesis as an operator; here it is a set.                   *)

\* A nonempty family of subsets of a finite set has a smallest member.
LEMMA SmallestSet ==
  ASSUME NEW D, IsFiniteSet(D), NEW Bad \in SUBSET SUBSET D, Bad # {}
  PROVE  \E T \in Bad : \A U \in Bad : Cardinality(T) <= Cardinality(U)
<1> DEFINE Sizes == {Cardinality(T) : T \in Bad}
<1>1. \A T \in Bad : IsFiniteSet(T)
  BY FS_Subset
<1>2. Sizes \in SUBSET Nat /\ Sizes # {}
  BY <1>1, FS_CardinalityType
<1>3. PICK n \in Sizes : \A m \in Sizes : n <= m
  BY <1>2, LeastNumber
<1> QED
  BY <1>3

\* A property of subsets that the empty set has, and that adding one element
\* keeps, holds of all of them.
LEMMA SetInduction ==
  ASSUME NEW D, IsFiniteSet(D), NEW Good \in SUBSET SUBSET D,
         {} \in Good,
         \A T \in Good : \A x \in D \ T : T \cup {x} \in Good
  PROVE  Good = SUBSET D
<1> DEFINE Bad == (SUBSET D) \ Good
<1> SUFFICES ASSUME Bad # {} PROVE FALSE
  OBVIOUS
<1>1. PICK T \in Bad : \A U \in Bad : Cardinality(T) <= Cardinality(U)
  <2>1. Bad \in SUBSET SUBSET D
    OBVIOUS
  <2> HIDE DEF Bad
  <2> QED BY <2>1, SmallestSet
<1>2. T \in SUBSET D /\ T # {} /\ T \notin Good
  BY <1>1
<1>3. PICK x \in T : TRUE
  BY <1>2
<1>4. IsFiniteSet(T) /\ Cardinality(T) \in Nat /\ Cardinality(T \ {x}) = Cardinality(T) - 1
  BY <1>2, <1>3, FS_Subset, FS_CardinalityType, FS_RemoveElement
<1>5. T \ {x} \in Good
  BY <1>1, <1>2, <1>4
<1>6. (T \ {x}) \cup {x} \in Good
  BY <1>2, <1>3, <1>5
<1> QED
  BY <1>2, <1>3, <1>6

----------------------------------------------------------------------------
(* The sum of a function over a finite set.                                 *)

Pick(S) == CHOOSE x \in S : TRUE

\* Function g gives the sum of f over every subset of D.
SumsUp(f, D, g) ==
  g = [T \in SUBSET D |-> IF T = {} THEN 0 ELSE f[Pick(T)] + g[T \ {Pick(T)}]]

SumOf(f, S) == MapThenSumSet(LAMBDA x : f[x], S)

\* The fold is a function of that kind, if there is one.
LEMMA SumIsFold ==
  ASSUME NEW f, NEW S
  PROVE  SumOf(f, S) = (CHOOSE g : SumsUp(f, S, g))[S]
BY DEF SumOf, MapThenSumSet, MapThenFoldSet, SumsUp, Pick

\* Sums over the subsets of at most n elements.
SumsUpTo(f, D, n, g) ==
  LET small == {T \in SUBSET D : Cardinality(T) <= n} IN
  /\ g \in [small -> Int]
  /\ \A T \in small : g[T] = IF T = {} THEN 0 ELSE f[Pick(T)] + g[T \ {Pick(T)}]

\* They can be given for every n, one element more at a time.
LEMMA SumsExist ==
  ASSUME NEW D, IsFiniteSet(D), NEW f \in [D -> Int], NEW n \in Nat
  PROVE  \E g : SumsUpTo(f, D, n, g)
<1> DEFINE Bad == {k \in Nat : ~\E g : SumsUpTo(f, D, k, g)}
<1> SUFFICES ASSUME Bad # {} PROVE FALSE
  OBVIOUS
<1>1. PICK k \in Bad : \A m \in Bad : k <= m
  BY LeastNumber
<1>a. \A T \in SUBSET D : IsFiniteSet(T) /\ Cardinality(T) \in Nat
  BY FS_Subset, FS_CardinalityType
<1>b. \A T \in SUBSET D : Cardinality(T) = 0 <=> T = {}
  BY <1>a, FS_EmptySet
<1>c. \A T \in SUBSET D :
        T # {} => Pick(T) \in T /\ Cardinality(T \ {Pick(T)}) = Cardinality(T) - 1
  BY <1>a, FS_RemoveElement DEF Pick
<1>2. k # 0
  <2> SUFFICES ASSUME k = 0 PROVE FALSE
    OBVIOUS
  <2> DEFINE g == [T \in {U \in SUBSET D : Cardinality(U) <= 0} |-> 0]
  <2>1. ASSUME NEW U \in SUBSET D, Cardinality(U) <= 0 PROVE U = {}
    <3>1. Cardinality(U) = 0
      BY <1>a, <2>1
    <3> QED BY <1>b, <3>1
  <2>2. SumsUpTo(f, D, 0, g)
    BY <2>1 DEF SumsUpTo
  <2> QED
    BY <1>1, <2>2
<1>3. PICK g : SumsUpTo(f, D, k - 1, g)
  BY <1>1, <1>2
<1> DEFINE old == {T \in SUBSET D : Cardinality(T) <= k - 1}
           new == {T \in SUBSET D : Cardinality(T) <= k}
           Next1(T) == IF T = {} THEN 0 ELSE f[Pick(T)] + g[T \ {Pick(T)}]
           h == [T \in new |-> Next1(T)]
<1>4. \A T \in old : T \in new /\ h[T] = g[T]
  BY <1>1, <1>3, <1>a, <1>c DEF SumsUpTo
<1>5. \A T \in new : T # {} => T \ {Pick(T)} \in old /\ f[Pick(T)] \in Int
  BY <1>1, <1>a, <1>c
<1>6. \A T \in new : Next1(T) \in Int
  BY <1>3, <1>5 DEF SumsUpTo
<1>7. \A T \in new : h[T] = IF T = {} THEN 0 ELSE f[Pick(T)] + h[T \ {Pick(T)}]
  BY <1>4, <1>5
<1>8. SumsUpTo(f, D, k, h)
  <2>1. h \in [new -> Int]
    BY <1>6
  <2> HIDE DEF h
  <2> QED
    BY <1>7, <2>1 DEF SumsUpTo
<1> QED
  BY <1>1, <1>8

\* Every finite set has its sums.
LEMMA SumsUpExists ==
  ASSUME NEW D, IsFiniteSet(D), NEW f \in [D -> Int]
  PROVE  \E g \in [SUBSET D -> Int] : SumsUp(f, D, g)
<1>1. Cardinality(D) \in Nat
  BY FS_CardinalityType
<1>2. PICK g : SumsUpTo(f, D, Cardinality(D), g)
  BY <1>1, SumsExist
<1>3. {T \in SUBSET D : Cardinality(T) <= Cardinality(D)} = SUBSET D
  BY FS_Subset
<1>4. g \in [SUBSET D -> Int]
  BY <1>2, <1>3 DEF SumsUpTo
<1>5. \A T \in SUBSET D : g[T] = IF T = {} THEN 0 ELSE f[Pick(T)] + g[T \ {Pick(T)}]
  BY <1>2, <1>3 DEF SumsUpTo
<1>6. SumsUp(f, D, g)
  BY <1>4, <1>5 DEF SumsUp
<1> QED
  BY <1>4, <1>6

\* They agree wherever two such functions are given.
LEMMA SumsUpUnique ==
  ASSUME NEW D, IsFiniteSet(D), NEW f, NEW S \in SUBSET D,
         NEW g, SumsUp(f, D, g), NEW h, SumsUp(f, S, h)
  PROVE  \A T \in SUBSET S : g[T] = h[T]
<1> DEFINE Bad == {T \in SUBSET S : g[T] # h[T]}
<1> SUFFICES ASSUME Bad # {} PROVE FALSE
  OBVIOUS
<1>1. PICK T \in Bad : \A U \in Bad : Cardinality(T) <= Cardinality(U)
  <2>1. Bad \in SUBSET SUBSET D
    OBVIOUS
  <2> HIDE DEF Bad
  <2> QED BY <2>1, SmallestSet
<1>2. g[T] = IF T = {} THEN 0 ELSE f[Pick(T)] + g[T \ {Pick(T)}]
  BY <1>1 DEF SumsUp
<1>3. h[T] = IF T = {} THEN 0 ELSE f[Pick(T)] + h[T \ {Pick(T)}]
  BY <1>1 DEF SumsUp
<1>4. T # {}
  BY <1>1, <1>2, <1>3
<1>5. Pick(T) \in T
  BY <1>4 DEF Pick
<1>6. IsFiniteSet(T)
  BY <1>1, FS_Subset
<1>7. Cardinality(T) \in Nat /\ Cardinality(T \ {Pick(T)}) = Cardinality(T) - 1
  BY <1>5, <1>6, FS_CardinalityType, FS_RemoveElement
<1>8. g[T \ {Pick(T)}] = h[T \ {Pick(T)}]
  <2>1. T \ {Pick(T)} \in SUBSET S
    BY <1>1
  <2>2. T \ {Pick(T)} \notin Bad
    BY <1>1, <1>7
  <2> QED BY <2>1, <2>2
<1> QED
  BY <1>1, <1>2, <1>3, <1>8

\* Function g is the fold on the subsets of D.
IsFold(f, D, g) ==
  /\ g \in [SUBSET D -> Int] /\ SumsUp(f, D, g)
  /\ \A S \in SUBSET D : SumOf(f, S) = g[S]

\* The fold follows the recursion on all subsets of a set at once.
LEMMA SumRecursion ==
  ASSUME NEW D, IsFiniteSet(D), NEW f \in [D -> Int]
  PROVE  \E g : IsFold(f, D, g)
<1>1. PICK g \in [SUBSET D -> Int] : SumsUp(f, D, g)
  BY SumsUpExists
<1>2. ASSUME NEW S \in SUBSET D PROVE SumOf(f, S) = g[S]
  <2> DEFINE h == [T \in SUBSET S |-> g[T]]
             fold == CHOOSE k : SumsUp(f, S, k)
  <2>1. SumsUp(f, S, h)
    <3> SUFFICES ASSUME NEW T \in SUBSET S
                 PROVE  g[T] = IF T = {} THEN 0 ELSE f[Pick(T)] + h[T \ {Pick(T)}]
      BY DEF SumsUp
    <3>1. T \ {Pick(T)} \in SUBSET S
      OBVIOUS
    <3> QED BY <1>1, <3>1 DEF SumsUp
  <2>2. SumsUp(f, S, fold)
    <3> HIDE DEF h
    <3> QED BY <2>1
  <2>3. SumOf(f, S) = fold[S]
    BY SumIsFold
  <2> HIDE DEF fold
  <2> QED BY <1>1, <2>2, <2>3, SumsUpUnique
<1> QED
  BY <1>1, <1>2 DEF IsFold

\* A sum is a number, the empty sum is zero, and one element more adds its value
\* whatever order the fold takes the elements in.
LEMMA SumLaws ==
  ASSUME NEW D, IsFiniteSet(D), NEW f \in [D -> Int]
  PROVE  /\ SumOf(f, {}) = 0
         /\ \A S \in SUBSET D : SumOf(f, S) \in Int
         /\ \A S \in SUBSET D : \A x \in D \ S : SumOf(f, S \cup {x}) = f[x] + SumOf(f, S)
<1>0. PICK g : IsFold(f, D, g)
  BY SumRecursion
<1>1. /\ g \in [SUBSET D -> Int] /\ SumsUp(f, D, g)
      /\ \A S \in SUBSET D : SumOf(f, S) = g[S]
  BY <1>0 DEF IsFold
<1>2. g[{}] = 0
  BY <1>1 DEF SumsUp
<1>3. \A S \in SUBSET D : S # {} => Pick(S) \in S /\ g[S] = f[Pick(S)] + g[S \ {Pick(S)}]
  BY <1>1 DEF SumsUp, Pick
<1> DEFINE Bad == {S \in SUBSET D : \E x \in D \ S : g[S \cup {x}] # f[x] + g[S]}
<1>4. Bad = {}
  <2> SUFFICES ASSUME Bad # {} PROVE FALSE
    OBVIOUS
  <2>1. PICK S \in Bad : \A U \in Bad : Cardinality(S) <= Cardinality(U)
    <3>1. Bad \in SUBSET SUBSET D
      OBVIOUS
    <3> HIDE DEF Bad
    <3> QED BY <3>1, SmallestSet
  <2>2. PICK x \in D \ S : g[S \cup {x}] # f[x] + g[S]
    BY <2>1
  <2> DEFINE p == Pick(S \cup {x})
             rest == S \ {p}
  <2>3. p \in S \cup {x} /\ g[S \cup {x}] = f[p] + g[(S \cup {x}) \ {p}]
    BY <1>3, <2>1
  <2>4. p # x
    <3> SUFFICES ASSUME p = x PROVE FALSE
      OBVIOUS
    <3>1. (S \cup {x}) \ {p} = S
      BY <2>2
    <3> QED BY <2>2, <2>3, <3>1
  <2> HIDE DEF p
  <2>5. p \in S /\ p \in D \ rest /\ x \in D \ rest /\ rest \in SUBSET D
    BY <2>1, <2>2, <2>3, <2>4
  <2>6. rest \notin Bad
    <3>1. IsFiniteSet(S)
      BY <2>1, FS_Subset
    <3>2. Cardinality(S) \in Nat /\ Cardinality(rest) = Cardinality(S) - 1
      BY <2>5, <3>1, FS_CardinalityType, FS_RemoveElement
    <3> HIDE DEF Bad, rest
    <3> QED BY <2>1, <3>2
  <2>7. g[rest \cup {p}] = f[p] + g[rest] /\ g[rest \cup {x}] = f[x] + g[rest]
    <3> HIDE DEF rest
    <3> QED BY <2>5, <2>6
  <2>8. rest \cup {p} = S /\ rest \cup {x} = (S \cup {x}) \ {p}
    BY <2>4, <2>5
  <2>9. f[p] \in Int /\ f[x] \in Int /\ g[rest] \in Int
    BY <1>1, <2>2, <2>5
  <2> HIDE DEF rest
  <2>10. g[S] = f[p] + g[rest] /\ g[S \cup {x}] = f[p] + (f[x] + g[rest])
    BY <2>3, <2>7, <2>8
  <2> QED BY <2>2, <2>9, <2>10
<1>5. SumOf(f, {}) = 0
  BY <1>1, <1>2
<1>6. \A S \in SUBSET D : SumOf(f, S) \in Int
  BY <1>1
<1>7. ASSUME NEW S \in SUBSET D, NEW x \in D \ S
      PROVE  SumOf(f, S \cup {x}) = f[x] + SumOf(f, S)
  <2>1. g[S \cup {x}] = f[x] + g[S]
    BY <1>4
  <2>2. S \cup {x} \in SUBSET D
    OBVIOUS
  <2> QED BY <1>1, <2>1, <2>2
<1> QED
  BY <1>5, <1>6, <1>7

\* The same for a set given as the smaller one and an element.
LEMMA SumStep ==
  ASSUME NEW D, IsFiniteSet(D), NEW f \in [D -> Int],
         NEW S \in SUBSET D, NEW x \in D \ S, NEW U, U = S \cup {x}
  PROVE  SumOf(f, U) = f[x] + SumOf(f, S)
BY SumLaws

\* The sum over two sets with no common element.
LEMMA SumUnion ==
  ASSUME NEW D, IsFiniteSet(D), NEW f \in [D -> Int],
         NEW A \in SUBSET D, NEW B \in SUBSET D, A \cap B = {}
  PROVE  SumOf(f, A \cup B) = SumOf(f, A) + SumOf(f, B)
<1> DEFINE Good == {C \in SUBSET (D \ A) : SumOf(f, A \cup C) = SumOf(f, A) + SumOf(f, C)}
<1>1. IsFiniteSet(D \ A)
  BY FS_Subset
<1>2. {} \in Good
  <2>1. A \cup {} = A
    OBVIOUS
  <2> QED BY <2>1, SumLaws
<1>3. ASSUME NEW C \in Good, NEW x \in (D \ A) \ C PROVE C \cup {x} \in Good
  <2> DEFINE more == C \cup {x}
             both == A \cup C
             all  == A \cup more
  <2>1. C \in SUBSET D /\ x \in D \ C /\ both \in SUBSET D /\ x \in D \ both
    OBVIOUS
  <2>2. all = both \cup {x} /\ more \in SUBSET (D \ A)
    OBVIOUS
  <2>3. SumOf(f, both) = SumOf(f, A) + SumOf(f, C)
    OBVIOUS
  <2>4. SumOf(f, A) \in Int /\ SumOf(f, C) \in Int /\ f[x] \in Int
    BY <2>1, SumLaws
  <2>5. SumOf(f, more) = f[x] + SumOf(f, C)
    BY <2>1, SumStep
  <2>6. SumOf(f, all) = f[x] + SumOf(f, both)
    <3> HIDE DEF both, all
    <3> QED BY <2>1, <2>2, SumStep
  <2>7. SumOf(f, all) = SumOf(f, A) + SumOf(f, more)
    <3> HIDE DEF both, all, more
    <3> QED BY <2>3, <2>4, <2>5, <2>6
  <2>8. more \in SUBSET (D \ A) /\ SumOf(f, A \cup more) = SumOf(f, A) + SumOf(f, more)
    BY <2>2, <2>7
  <2> QED BY <2>8
<1>4. Good \in SUBSET SUBSET (D \ A)
  OBVIOUS
<1>5. Good = SUBSET (D \ A)
  <2> HIDE DEF Good
  <2> QED BY <1>1, <1>2, <1>3, <1>4, SetInduction
<1> QED
  BY <1>5

\* Sums of equal values are equal, and the sum of a sum is the sum of the sums.
LEMMA SumAdd ==
  ASSUME NEW D, IsFiniteSet(D), NEW f \in [D -> Int], NEW g \in [D -> Int],
         NEW h \in [D -> Int], \A x \in D : f[x] = g[x] + h[x]
  PROVE  SumOf(f, D) = SumOf(g, D) + SumOf(h, D)
<1> DEFINE Good == {S \in SUBSET D : SumOf(f, S) = SumOf(g, S) + SumOf(h, S)}
<1>1. {} \in Good
  BY SumLaws
<1>2. ASSUME NEW S \in Good, NEW x \in D \ S PROVE S \cup {x} \in Good
  <2>1. /\ SumOf(f, S \cup {x}) = f[x] + SumOf(f, S)
        /\ SumOf(g, S \cup {x}) = g[x] + SumOf(g, S)
        /\ SumOf(h, S \cup {x}) = h[x] + SumOf(h, S)
    BY SumLaws
  <2>2. SumOf(g, S) \in Int /\ SumOf(h, S) \in Int /\ g[x] \in Int /\ h[x] \in Int
    BY SumLaws
  <2>3. SumOf(f, S) = SumOf(g, S) + SumOf(h, S)
    OBVIOUS
  <2>4. SumOf(f, S \cup {x}) = SumOf(g, S \cup {x}) + SumOf(h, S \cup {x})
    BY <2>1, <2>2, <2>3
  <2> QED BY <2>4
<1>3. Good \in SUBSET SUBSET D
  OBVIOUS
<1>4. Good = SUBSET D
  <2> HIDE DEF Good
  <2> QED BY <1>1, <1>2, <1>3, SetInduction
<1> QED
  BY <1>4

\* The sum over a part is the sum over the whole of what counts only there.
LEMMA SumPart ==
  ASSUME NEW D, IsFiniteSet(D), NEW f \in [D -> Int], NEW g \in [D -> Int], NEW K \in SUBSET D,
         \A x \in D : g[x] = IF x \in K THEN f[x] ELSE 0
  PROVE  SumOf(f, K) = SumOf(g, D)
<1> DEFINE Good == {S \in SUBSET D : SumOf(g, S) = SumOf(f, S \cap K)}
<1>1. {} \in Good
  <2>1. {} \cap K = {}
    OBVIOUS
  <2> QED BY <2>1, SumLaws
<1>2. ASSUME NEW S \in Good, NEW x \in D \ S PROVE S \cup {x} \in Good
  <2>1. SumOf(g, S \cup {x}) = g[x] + SumOf(g, S)
    BY SumLaws
  <2>2. SumOf(g, S) = SumOf(f, S \cap K) /\ SumOf(g, S) \in Int
    BY SumLaws
  <2> DEFINE more == S \cup {x}
             part == S \cap K
             new  == more \cap K
  <2>3. CASE x \in K
    <3>1. new = part \cup {x} /\ part \in SUBSET D /\ x \in D \ part
      BY <2>3
    <3>2. g[x] = f[x]
      BY <2>3
    <3> HIDE DEF part, new
    <3>3. SumOf(f, new) = f[x] + SumOf(f, part)
      BY <3>1, SumStep
    <3>4. SumOf(g, more) = SumOf(f, new)
      BY <2>1, <2>2, <3>2, <3>3 DEF part
    <3> QED BY <3>4 DEF new
  <2>4. CASE x \notin K
    <3>1. new = part
      BY <2>4
    <3>2. g[x] = 0
      BY <2>4
    <3> HIDE DEF new
    <3>3. SumOf(g, more) = SumOf(f, new)
      BY <2>1, <2>2, <3>1, <3>2
    <3> QED BY <3>3 DEF new
  <2> QED BY <2>3, <2>4
<1>3. Good \in SUBSET SUBSET D
  OBVIOUS
<1>4. Good = SUBSET D
  <2> HIDE DEF Good
  <2> QED BY <1>1, <1>2, <1>3, SetInduction
<1>5. D \cap K = K
  OBVIOUS
<1> QED
  BY <1>4, <1>5

\* Only the empty set has a sum of zero when every value is positive.
LEMMA SumPositive ==
  ASSUME NEW D, IsFiniteSet(D), NEW f \in [D -> Nat \ {0}], NEW S \in SUBSET D
  PROVE  SumOf(f, S) \in Nat /\ (SumOf(f, S) = 0 <=> S = {})
<1> DEFINE Good == {T \in SUBSET D : SumOf(f, T) \in Nat /\ (T # {} => SumOf(f, T) > 0)}
<1>0. f \in [D -> Int]
  OBVIOUS
<1>1. {} \in Good
  BY <1>0, SumLaws
<1>2. ASSUME NEW T \in Good, NEW x \in D \ T PROVE T \cup {x} \in Good
  <2>1. SumOf(f, T \cup {x}) = f[x] + SumOf(f, T)
    BY <1>0, SumLaws
  <2>2. f[x] \in Nat \ {0} /\ SumOf(f, T) \in Nat
    OBVIOUS
  <2>3. SumOf(f, T \cup {x}) \in Nat /\ SumOf(f, T \cup {x}) > 0
    BY <2>1, <2>2
  <2> QED BY <2>3
<1>3. Good \in SUBSET SUBSET D
  OBVIOUS
<1>4. Good = SUBSET D
  <2> HIDE DEF Good
  <2> QED BY <1>1, <1>2, <1>3, SetInduction
<1>5. S \in Good
  BY <1>4
<1>6. SumOf(f, {}) = 0
  BY <1>0, SumLaws
<1> QED
  BY <1>5, <1>6

----------------------------------------------------------------------------
(* What an order has on its accounts.                                       *)

DeliveredOf(o) == {i \in ItemsOf(o) : Posted("delivery_settled", i)}
RefundedOf(o)  == {i \in ItemsOf(o) : Posted("refund", i)}
Captured(o)    == IF Posted("payment_captured", o) THEN PriceOf(ItemsOf(o)) ELSE 0

\* The price of some items is a natural number, and zero only for none.
LEMMA PriceFacts ==
  ASSUME NEW S \in SUBSET Items
  PROVE  PriceOf(S) = SumOf(Price, S) /\ PriceOf(S) \in Nat /\ (PriceOf(S) = 0 <=> S = {})
<1>1. PriceOf(S) = SumOf(Price, S)
  BY DEF PriceOf, SumOf
<1> QED
  BY <1>1, PriceAssumption, SumPositive

\* Three kinds of postings, each on the accounts its legs name.
LEMMA PostedOnIs ==
  ASSUME NEW o, NEW side, NEW account
  PROVE  PostedOn(o, side, account) =
           (IF Legs["payment_captured"][side] = account THEN Captured(o) ELSE 0)
           + (IF Legs["delivery_settled"][side] = account THEN PriceOf(DeliveredOf(o)) ELSE 0)
           + (IF Legs["refund"][side] = account THEN PriceOf(RefundedOf(o)) ELSE 0)
<1> DEFINE hits(kind) == Legs[kind][side] = account
           items(kind) == {i \in ItemsOf(o) : hits(kind) /\ Posted(kind, i)}
<1>1. PostedOn(o, side, account) =
        (IF hits("payment_captured") /\ Posted("payment_captured", o)
         THEN PriceOf(ItemsOf(o)) ELSE 0)
        + PriceOf(items("delivery_settled")) + PriceOf(items("refund"))
  BY DEF PostedOn
<1>2. items("delivery_settled") = IF hits("delivery_settled") THEN DeliveredOf(o) ELSE {}
  BY DEF DeliveredOf
<1>3. items("refund") = IF hits("refund") THEN RefundedOf(o) ELSE {}
  BY DEF RefundedOf
<1>4. PriceOf({}) = 0
  BY PriceFacts
<1>5. PriceOf(items("delivery_settled")) =
        IF hits("delivery_settled") THEN PriceOf(DeliveredOf(o)) ELSE 0
  <2> HIDE DEF items, hits
  <2> QED BY <1>2, <1>4
<1>6. PriceOf(items("refund")) = IF hits("refund") THEN PriceOf(RefundedOf(o)) ELSE 0
  <2> HIDE DEF items, hits
  <2> QED BY <1>3, <1>4
<1>7. (IF hits("payment_captured") /\ Posted("payment_captured", o)
       THEN PriceOf(ItemsOf(o)) ELSE 0)
      = IF hits("payment_captured") THEN Captured(o) ELSE 0
  BY DEF Captured
<1> HIDE DEF items
<1> QED
  BY <1>1, <1>5, <1>6, <1>7

\* The three balances of an order.
LEMMA Balances ==
  ASSUME NEW o
  PROVE  /\ Balance(o, "customer") =
              Captured(o) - PriceOf(DeliveredOf(o)) - PriceOf(RefundedOf(o))
         /\ Balance(o, "delivered") = PriceOf(DeliveredOf(o))
         /\ Balance(o, "refund") = PriceOf(RefundedOf(o))
<1>1. /\ DeliveredOf(o) \in SUBSET Items /\ RefundedOf(o) \in SUBSET Items
      /\ ItemsOf(o) \in SUBSET Items
  BY DEF DeliveredOf, RefundedOf, ItemsOf
<1>2. /\ PriceOf(DeliveredOf(o)) \in Int /\ PriceOf(RefundedOf(o)) \in Int
      /\ Captured(o) \in Int
  BY <1>1, PriceFacts DEF Captured
<1>3. /\ PostedOn(o, "debit", "customer") = Captured(o)
      /\ PostedOn(o, "credit", "customer") = PriceOf(DeliveredOf(o)) + PriceOf(RefundedOf(o))
  BY <1>2, PostedOnIs DEF Legs
<1>4. /\ PostedOn(o, "debit", "delivered") = PriceOf(DeliveredOf(o))
      /\ PostedOn(o, "credit", "delivered") = 0
  BY <1>2, PostedOnIs DEF Legs
<1>5. /\ PostedOn(o, "debit", "refund") = PriceOf(RefundedOf(o))
      /\ PostedOn(o, "credit", "refund") = 0
  BY <1>2, PostedOnIs DEF Legs
<1> QED
  BY <1>2, <1>3, <1>4, <1>5 DEF Balance

----------------------------------------------------------------------------
(* The customer's balance.                                                  *)

\* What is owed for some items when some of them were answered for, some twice.
LEMMA OpenAndTwice ==
  ASSUME NEW I \in SUBSET Items, NEW A \in SUBSET I, NEW B \in SUBSET I
  PROVE  PriceOf(I) - PriceOf(A) - PriceOf(B) = PriceOf(I \ (A \cup B)) - PriceOf(A \cap B)
<1> DEFINE onlyB == B \ A
           some  == A \cup onlyB
           none  == I \ some
           both  == A \cap B
<1>1. /\ onlyB \in SUBSET Items /\ some \in SUBSET Items /\ none \in SUBSET Items
      /\ both \in SUBSET Items /\ A \in SUBSET Items
  OBVIOUS
<1>2. A \cap onlyB = {} /\ some \cap none = {} /\ onlyB \cap both = {}
  OBVIOUS
<1>3. I = some \cup none /\ B = onlyB \cup both /\ some = A \cup B
  OBVIOUS
<1>4. Price \in [Items -> Int] /\ IsFiniteSet(Items)
  BY PriceAssumption
<1>5. SumOf(Price, some) = SumOf(Price, A) + SumOf(Price, onlyB)
  <2> HIDE DEF onlyB
  <2> QED BY <1>1, <1>2, <1>4, SumUnion
<1>6. SumOf(Price, I) = SumOf(Price, some) + SumOf(Price, none)
  <2> HIDE DEF some, none
  <2> QED BY <1>1, <1>2, <1>3, <1>4, SumUnion
<1>7. SumOf(Price, B) = SumOf(Price, onlyB) + SumOf(Price, both)
  <2> HIDE DEF onlyB, both
  <2> QED BY <1>1, <1>2, <1>3, <1>4, SumUnion
<1>8. PriceOf(I) - PriceOf(A) - PriceOf(B) = PriceOf(none) - PriceOf(both)
  <2>1. /\ SumOf(Price, A) \in Int /\ SumOf(Price, onlyB) \in Int
        /\ SumOf(Price, none) \in Int /\ SumOf(Price, both) \in Int
    <3> HIDE DEF onlyB, none, both
    <3> QED BY <1>1, <1>4, SumLaws
  <2>2. /\ PriceOf(I) = SumOf(Price, I) /\ PriceOf(A) = SumOf(Price, A)
        /\ PriceOf(B) = SumOf(Price, B) /\ PriceOf(none) = SumOf(Price, none)
        /\ PriceOf(both) = SumOf(Price, both)
    BY DEF PriceOf, SumOf
  <2> HIDE DEF some, none, both, onlyB
  <2> QED BY <1>5, <1>6, <1>7, <2>1, <2>2
<1>9. none = I \ (A \cup B)
  OBVIOUS
<1> HIDE DEF none
<1> QED
  BY <1>8, <1>9

\* The postings of an order's items, said by the items' rows.
LEMMA PostingsByRows ==
  ASSUME BooksMatchItems, NothingBeforePayment, NEW o \in Orders
  PROVE  /\ DeliveredOf(o) \in SUBSET ItemsOf(o) /\ RefundedOf(o) \in SUBSET ItemsOf(o)
         /\ ItemsOf(o) \in SUBSET Items
         /\ OpenItems(o) = ItemsOf(o) \ (DeliveredOf(o) \cup RefundedOf(o))
         /\ ~paidAt[o] => DeliveredOf(o) = {} /\ RefundedOf(o) = {}
<1>1. /\ DeliveredOf(o) \in SUBSET ItemsOf(o) /\ RefundedOf(o) \in SUBSET ItemsOf(o)
      /\ ItemsOf(o) \in SUBSET Items
  BY DEF DeliveredOf, RefundedOf, ItemsOf
<1>2. ASSUME NEW i \in ItemsOf(o)
      PROVE  Closed(i) <=> i \in DeliveredOf(o) \/ i \in RefundedOf(o)
  BY <1>1, <1>2 DEF BooksMatchItems, Closed, TerminalItem, DeliveredOf, RefundedOf
<1>3. ASSUME NEW i \in ItemsOf(o), Closed(i) PROVE paidAt[o]
  <2>1. i \in Items /\ OrderOf[i] = o
    BY <1>3 DEF ItemsOf
  <2> QED BY <1>3, <2>1 DEF NothingBeforePayment, Closed, TerminalItem
<1> QED
  BY <1>1, <1>2, <1>3 DEF OpenItems

\* The customer's balance follows from the books and the payment.
LEMMA DebtFromBooks ==
  ASSUME BooksMatchItems, NothingBeforePayment
  PROVE  DebtMatchesItems
<1> SUFFICES ASSUME NEW o \in Orders
             PROVE  LET twice == {i \in ItemsOf(o) : /\ Posted("delivery_settled", i)
                                                     /\ Posted("refund", i)} IN
                    Balance(o, "customer") =
                      IF paidAt[o] THEN PriceOf(OpenItems(o)) - PriceOf(twice) ELSE 0
  BY DEF DebtMatchesItems
<1> DEFINE twice == {i \in ItemsOf(o) : Posted("delivery_settled", i) /\ Posted("refund", i)}
<1>1. twice = DeliveredOf(o) \cap RefundedOf(o)
  BY DEF DeliveredOf, RefundedOf
<1>2. paidAt[o] <=> Posted("payment_captured", o)
  BY DEF NothingBeforePayment
<1>3. CASE paidAt[o]
  <2>1. Captured(o) = PriceOf(ItemsOf(o))
    BY <1>2, <1>3 DEF Captured
  <2>2. PriceOf(ItemsOf(o)) - PriceOf(DeliveredOf(o)) - PriceOf(RefundedOf(o))
          = PriceOf(ItemsOf(o) \ (DeliveredOf(o) \cup RefundedOf(o)))
            - PriceOf(DeliveredOf(o) \cap RefundedOf(o))
    BY PostingsByRows, OpenAndTwice
  <2> HIDE DEF twice
  <2>3. Balance(o, "customer") = PriceOf(OpenItems(o)) - PriceOf(twice)
    BY <1>1, <2>1, <2>2, Balances, PostingsByRows
  <2> QED BY <1>3, <2>3 DEF twice
<1>4. CASE ~paidAt[o]
  <2>1. Captured(o) = 0 /\ DeliveredOf(o) = {} /\ RefundedOf(o) = {}
    BY <1>2, <1>4, PostingsByRows DEF Captured
  <2>2. PriceOf({}) = 0
    BY PriceFacts
  <2>3. Balance(o, "customer") = 0
    BY <2>1, <2>2, Balances
  <2> QED BY <1>4, <2>3
<1> QED
  BY <1>3, <1>4

\* What the customer's account of an order shows is what the shop still owes,
\* less what it paid twice, for all prices and any number of items.
THEOREM BooksDebtMatchesItems == Spec => []DebtMatchesItems
BY ShopInvHolds, DebtFromBooks, PTL DEF ShopInv, ItemInv, PaidInv

----------------------------------------------------------------------------
(* The report.                                                              *)

\* The report's other sums: over the orders.
LEMMA TotalIsSum ==
  ASSUME NEW account, NEW f \in [Orders -> Int], \A o \in Orders : f[o] = Balance(o, account)
  PROVE  Total(account) = SumOf(f, Orders)
<1>1. PICK g : IsFold(f, Orders, g)
  BY PriceAssumption, SumRecursion
<1>2. SumsUp(f, Orders, g) /\ SumOf(f, Orders) = g[Orders]
  BY <1>1 DEF IsFold
<1> DEFINE IsTotal(h) ==
             h = [T \in SUBSET Orders |->
                    IF T = {} THEN 0 ELSE Balance(Pick(T), account) + h[T \ {Pick(T)}]]
           fold == CHOOSE h : IsTotal(h)
<1>3. Total(account) = fold[Orders]
  BY DEF Total, MapThenSumSet, MapThenFoldSet, Pick
<1>4. \A T \in SUBSET Orders : T # {} => f[Pick(T)] = Balance(Pick(T), account)
  BY DEF Pick
<1>5. IsTotal(g)
  BY <1>2, <1>4 DEF SumsUp
<1>6. IsTotal(fold)
  <2> HIDE DEF IsTotal
  <2> QED BY <1>5
<1> HIDE DEF fold
<1>7. SumsUp(f, Orders, fold)
  BY <1>4, <1>6 DEF SumsUp
<1>8. g[Orders] = fold[Orders]
  BY <1>2, <1>7, SumsUpUnique, PriceAssumption
<1> QED
  BY <1>2, <1>3, <1>8

\* What was paid, summed over the orders that are paid.
LEMMA PaidIsSum ==
  ASSUME NEW f \in [Orders -> Int], \A o \in Orders : f[o] = PriceOf(ItemsOf(o))
  PROVE  PaidMinor = SumOf(f, {o \in Orders : Posted("payment_captured", o)})
<1> DEFINE paid == {o \in Orders : Posted("payment_captured", o)}
<1>0. paid \in SUBSET Orders /\ IsFiniteSet(Orders)
  BY PriceAssumption
<1>1. PICK g : IsFold(f, Orders, g)
  BY <1>0, SumRecursion
<1>2. SumsUp(f, Orders, g) /\ SumOf(f, paid) = g[paid]
  BY <1>0, <1>1 DEF IsFold
<1> DEFINE IsPaid(h) ==
             h = [T \in SUBSET paid |->
                    IF T = {} THEN 0 ELSE PriceOf(ItemsOf(Pick(T))) + h[T \ {Pick(T)}]]
           fold == CHOOSE h : IsPaid(h)
           part == [T \in SUBSET paid |-> g[T]]
<1>3. PaidMinor = fold[paid]
  BY DEF PaidMinor, MapThenSumSet, MapThenFoldSet, Pick
<1> HIDE DEF paid
<1>4. \A T \in SUBSET paid : T # {} => f[Pick(T)] = PriceOf(ItemsOf(Pick(T)))
  BY <1>0 DEF Pick
<1>5. IsPaid(part)
  <2>1. \A T \in SUBSET paid : T \in SUBSET Orders /\ T \ {Pick(T)} \in SUBSET paid
    BY <1>0
  <2> QED BY <1>2, <1>4, <2>1 DEF SumsUp
<1>6. IsPaid(fold)
  <2> HIDE DEF IsPaid, part
  <2> QED BY <1>5
<1> HIDE DEF fold
<1>7. SumsUp(f, paid, fold)
  BY <1>4, <1>6 DEF SumsUp
<1>8. g[paid] = fold[paid]
  BY <1>0, <1>2, <1>7, SumsUpUnique
<1> QED
  BY <1>2, <1>3, <1>8 DEF paid

\* What was paid is what was delivered, refunded and is still open or owed:
\* the sum over the orders balances whatever the ledger holds.
LEMMA PaidBalances ==
  PaidMinor = Total("delivered") + Total("refund") + Total("customer")
<1> DEFINE whole    == [o \in Orders |-> PriceOf(ItemsOf(o))]
           captured == [o \in Orders |-> Captured(o)]
           gave     == [o \in Orders |-> Balance(o, "delivered")]
           returned == [o \in Orders |-> Balance(o, "refund")]
           owes     == [o \in Orders |-> Balance(o, "customer")]
           closed   == [o \in Orders |-> Balance(o, "delivered") + Balance(o, "refund")]
           paid     == {o \in Orders : Posted("payment_captured", o)}
<1>1. ASSUME NEW o \in Orders
      PROVE  /\ PriceOf(ItemsOf(o)) \in Int /\ Captured(o) \in Int
             /\ Balance(o, "delivered") \in Int /\ Balance(o, "refund") \in Int
             /\ Balance(o, "customer") \in Int
             /\ Captured(o) = (Balance(o, "delivered") + Balance(o, "refund"))
                              + Balance(o, "customer")
  <2>1. /\ DeliveredOf(o) \in SUBSET Items /\ RefundedOf(o) \in SUBSET Items
        /\ ItemsOf(o) \in SUBSET Items
    BY DEF DeliveredOf, RefundedOf, ItemsOf
  <2>2. /\ PriceOf(DeliveredOf(o)) \in Int /\ PriceOf(RefundedOf(o)) \in Int
        /\ PriceOf(ItemsOf(o)) \in Int
    BY <2>1, PriceFacts
  <2>3. Captured(o) \in Int
    BY <2>2 DEF Captured
  <2> QED BY <2>2, <2>3, Balances
<1>2. /\ whole \in [Orders -> Int] /\ captured \in [Orders -> Int] /\ gave \in [Orders -> Int]
      /\ returned \in [Orders -> Int] /\ owes \in [Orders -> Int] /\ closed \in [Orders -> Int]
  BY <1>1
<1>3. paid \in SUBSET Orders /\ IsFiniteSet(Orders)
  BY PriceAssumption
<1>4. PaidMinor = SumOf(whole, paid)
  <2>1. \A o \in Orders : whole[o] = PriceOf(ItemsOf(o))
    OBVIOUS
  <2> HIDE DEF whole
  <2> QED BY <1>2, <2>1, PaidIsSum
<1>5. SumOf(whole, paid) = SumOf(captured, Orders)
  <2>1. \A o \in Orders : captured[o] = IF o \in paid THEN whole[o] ELSE 0
    BY DEF Captured
  <2> HIDE DEF whole, captured, paid
  <2> QED BY <1>2, <1>3, <2>1, SumPart
<1>6. SumOf(captured, Orders) = SumOf(closed, Orders) + SumOf(owes, Orders)
  <2>1. \A o \in Orders : captured[o] = closed[o] + owes[o]
    BY <1>1
  <2> HIDE DEF captured, closed, owes
  <2> QED BY <1>2, <1>3, <2>1, SumAdd
<1>7. SumOf(closed, Orders) = SumOf(gave, Orders) + SumOf(returned, Orders)
  <2>1. \A o \in Orders : closed[o] = gave[o] + returned[o]
    OBVIOUS
  <2> HIDE DEF gave, closed, returned
  <2> QED BY <1>2, <1>3, <2>1, SumAdd
<1>8. /\ Total("delivered") = SumOf(gave, Orders) /\ Total("refund") = SumOf(returned, Orders)
      /\ Total("customer") = SumOf(owes, Orders)
  <2>1. /\ \A o \in Orders : gave[o] = Balance(o, "delivered")
        /\ \A o \in Orders : returned[o] = Balance(o, "refund")
        /\ \A o \in Orders : owes[o] = Balance(o, "customer")
    OBVIOUS
  <2> HIDE DEF gave, returned, owes
  <2> QED BY <1>2, <2>1, TotalIsSum
<1> HIDE DEF whole, captured, gave, returned, owes, closed, paid
<1> QED
  BY <1>4, <1>5, <1>6, <1>7, <1>8

\* When the handlers are done, the report is healthy exactly if each paid item
\* was closed in one way.
LEMMA ReportFromBooks ==
  ASSUME ShopInv, ClosedOrderIsFinal
  PROVE  ReportTellsTheTruth
<1>1. BooksMatchItems /\ NothingBeforePayment /\ FinalOrderIsClosed /\ DebtMatchesItems
  BY DebtFromBooks DEF ShopInv, ItemInv, PaidInv
<1>2. DeliveredNotPaid = {}
  BY <1>1, StoreAssumption DEF DeliveredNotPaid, BooksMatchItems, NothingBeforePayment
<1>3. ASSUME NEW o \in Orders, orderStatus[o] \in FinalOrder PROVE paidAt[o]
  <2>1. PICK i \in Items : OrderOf[i] = o
    BY StoreAssumption
  <2>2. Closed(i)
    BY <1>1, <1>3, <2>1 DEF FinalOrderIsClosed, OpenItems, ItemsOf
  <2> QED BY <1>1, <2>1, <2>2 DEF NothingBeforePayment, Closed, TerminalItem
<1> DEFINE Twice(o) == {i \in ItemsOf(o) : /\ Posted("delivery_settled", i)
                                           /\ Posted("refund", i)}
<1>4. ASSUME NEW o \in Orders, paidAt[o], OpenItems(o) = {}
      PROVE  /\ Balance(o, "customer") = 0 <=> Twice(o) = {}
             /\ ClosedOnce(o) <=> Twice(o) = {}
  <2>1. Twice(o) \in SUBSET Items
    BY DEF ItemsOf
  <2>2. Balance(o, "customer") = PriceOf(OpenItems(o)) - PriceOf(Twice(o))
    BY <1>1, <1>4 DEF DebtMatchesItems
  <2>3. PriceOf({}) = 0
    BY PriceFacts
  <2>4. PriceOf(Twice(o)) \in Nat /\ (PriceOf(Twice(o)) = 0 <=> Twice(o) = {})
    BY <2>1, PriceFacts
  <2>5. Balance(o, "customer") = 0 <=> Twice(o) = {}
    <3> HIDE DEF Twice
    <3> QED BY <1>4, <2>2, <2>3, <2>4
  <2>6. \A i \in ItemsOf(o) : Posted("delivery_settled", i) \/ Posted("refund", i)
    BY <1>1, <1>4 DEF BooksMatchItems, OpenItems, Closed, TerminalItem, ItemsOf
  <2>7. ClosedOnce(o) <=> Twice(o) = {}
    BY <2>6 DEF ClosedOnce, Posted
  <2> QED BY <2>5, <2>7
<1>5. ASSUME NEW o \in Orders, paidAt[o], ClosedOnce(o) PROVE OpenItems(o) = {}
  <2>1. ASSUME NEW i \in ItemsOf(o) PROVE Closed(i)
    <3>1. Posted("delivery_settled", i) \/ Posted("refund", i)
      BY <1>5, <2>1 DEF ClosedOnce, Posted
    <3> QED BY <1>1, <2>1, <3>1 DEF ItemsOf, BooksMatchItems, Closed, TerminalItem
  <2> QED BY <2>1 DEF OpenItems
<1>6. Healthy <=> PaidNotDelivered = {} /\ MoneyMismatch = {}
  BY <1>2, PaidBalances DEF Healthy, MoneyBalanced
<1>7. ASSUME \A o \in Orders : paidAt[o] => ClosedOnce(o)
      PROVE  PaidNotDelivered = {} /\ MoneyMismatch = {}
  <2>1. PaidNotDelivered = {}
    BY <1>5, <1>7 DEF PaidNotDelivered
  <2>2. ASSUME NEW o \in Orders, orderStatus[o] \in FinalOrder
        PROVE  Balance(o, "customer") = 0
    BY <1>3, <1>4, <1>5, <1>7, <2>2
  <2> QED BY <2>1, <2>2 DEF MoneyMismatch
<1>8. ASSUME \A o \in Orders : Quiet(o), PaidNotDelivered = {}, MoneyMismatch = {},
             NEW o \in Orders, paidAt[o]
      PROVE  ClosedOnce(o)
  <2>1. OpenItems(o) = {}
    <3>1. CASE orderStatus[o] \in FinalOrder
      BY <1>1, <3>1 DEF FinalOrderIsClosed
    <3>2. CASE orderStatus[o] \notin FinalOrder
      <4>1. o \notin PaidNotDelivered
        BY <1>8
      <4> QED BY <1>8, <3>2, <4>1 DEF PaidNotDelivered
    <3> QED BY <3>1, <3>2
  <2>2. AllClosed(o)
    BY <2>1 DEF OpenItems, AllClosed
  <2>3. orderStatus[o] \in FinalOrder
    BY <1>8, <2>2 DEF ClosedOrderIsFinal
  <2>4. Balance(o, "customer") = 0
    BY <1>8, <2>3 DEF MoneyMismatch
  <2> QED BY <1>4, <1>8, <2>1, <2>4
<1> QED
  BY <1>6, <1>7, <1>8 DEF ReportTellsTheTruth

\* While no process dies, the report tells the truth about every settled shop:
\* no item closed twice or never is overlooked, and nothing else looks wrong.
THEOREM BooksReportTellsTheTruth ==
  ASSUME "crash" \notin Faults
  PROVE  Spec => []ReportTellsTheTruth
<1>1. Spec => []ClosedOrderIsFinal
  BY ShopClosedOrderIsFinal
<1> QED
  BY <1>1, ShopInvHolds, ReportFromBooks, PTL
=============================================================================
