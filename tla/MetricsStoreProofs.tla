-------------------------- MODULE MetricsStoreProofs --------------------------
(***************************************************************************)
(* Theorems about MetricsStore, for any number of requests, any events the  *)
(* callers may record, any cache namespaces and routes, and any length of   *)
(* the list of recent events.                                               *)
(***************************************************************************)
EXTENDS MetricsStore, FunctionTheorems, FiniteSetTheorems, TLAPS

-----------------------------------------------------------------------------
(* A sum over a finite set is a recursion over its subsets that takes any     *)
(* element first.  That it has a value, that the order does not matter and    *)
(* what one element adds is shown by taking a least subset for which it fails.*)

\* The pairs of numbers of which the first is less than the second.
Smaller == {p \in Nat \X Nat : p[1] < p[2]}

\* A set of numbers that is not empty has a least one.
LEMMA LeastNatural ==
    ASSUME NEW T \in SUBSET Nat, T # {}
    PROVE  \E m \in T : \A k \in T : m <= k
<1>1. IsWellFoundedOn(Smaller, Nat)
  BY NatLessThanWellFounded DEF OpToRel, Smaller
<1>2. PICK m \in T : \A k \in T : ~ (<<k, m>> \in Smaller)
  BY <1>1, WFMin
<1>3. ASSUME NEW k \in T, k < m PROVE FALSE
  <2>1. <<k, m>> \in Smaller
    BY <1>3 DEF Smaller
  <2> QED
    BY <1>2, <2>1
<1>4. \A k \in T : m <= k
  BY <1>3
<1> QED
  BY <1>4

\* Of sets of subsets of a finite set, some has no part among them.
LEMMA LeastSubset ==
    ASSUME NEW S, IsFiniteSet(S), NEW C \in SUBSET (SUBSET S), C # {}
    PROVE  \E T \in C : \A U \in SUBSET T : U # T => U \notin C
<1>1. IsWellFoundedOn(StrictSubsetOrdering(S), SUBSET S)
  BY FS_StrictSubsetOrderingWellFounded, FS_FiniteSubsetsOfFinite
<1>2. PICK T \in C : \A U \in C : ~ (<<U, T>> \in StrictSubsetOrdering(S))
  BY <1>1, WFMin
<1>3. ASSUME NEW U \in SUBSET T, U # T, U \in C PROVE FALSE
  <2>1. <<U, T>> \in StrictSubsetOrdering(S)
    BY <1>3 DEF StrictSubsetOrdering
  <2> QED
    BY <1>2, <1>3, <2>1
<1> QED
  BY <1>3

First(s) == CHOOSE x \in s : TRUE
Sums(f, S, g) ==
    g = [s \in SUBSET S |-> IF s = {} THEN 0 ELSE f[First(s)] + g[s \ {First(s)}]]

\* Sum is the value of such a recursion, if there is one.
LEMMA SumIsRecursion ==
    ASSUME NEW f, NEW h, Sums(f, DOMAIN f, h)
    PROVE  \E g : Sums(f, DOMAIN f, g) /\ Sum(f) = g[DOMAIN f]
<1> DEFINE g == CHOOSE k : Sums(f, DOMAIN f, k)
<1>1. Sums(f, DOMAIN f, g)
  OBVIOUS
<1>2. Sum(f) = g[DOMAIN f]
  BY DEF Sum, FoldFunction, FoldFunctionOnSet, MapThenFoldSet, Sums, First
<1> QED
  BY <1>1, <1>2

\* What the recursion says of a subset.
LEMMA SumsAt ==
    ASSUME NEW f, NEW S, NEW g, Sums(f, S, g)
    PROVE  /\ g[{}] = 0
           /\ \A s \in SUBSET S : s # {} =>
                First(s) \in s /\ g[s] = f[First(s)] + g[s \ {First(s)}]
<1>1. \A s \in SUBSET S : g[s] = IF s = {} THEN 0 ELSE f[First(s)] + g[s \ {First(s)}]
  BY DEF Sums
<1>2. \A s : s # {} => First(s) \in s
  BY DEF First
<1> QED
  BY <1>1, <1>2

\* A function that satisfies the recursion for the subsets of at most n elements.
Adds(f, g, s) == g[s] = IF s = {} THEN 0 ELSE f[First(s)] + g[s \ {First(s)}]
SumsUpTo(f, S, n, g) ==
    /\ g = [s \in SUBSET S |-> g[s]]
    /\ \A s \in SUBSET S : Cardinality(s) <= n => Adds(f, g, s)

LEMMA SumsExtend ==
    ASSUME NEW f, NEW S, IsFiniteSet(S), NEW m \in Nat, NEW g, SumsUpTo(f, S, m, g)
    PROVE  \E h : SumsUpTo(f, S, m + 1, h)
<1> DEFINE h == [s \in SUBSET S |->
                    IF Cardinality(s) <= m THEN g[s] ELSE f[First(s)] + g[s \ {First(s)}]]
<1>1. ASSUME NEW s \in SUBSET S
      PROVE  /\ Cardinality(s) \in Nat
             /\ s # {} => Cardinality(s \ {First(s)}) = Cardinality(s) - 1
             /\ s = {} => Cardinality(s) = 0
  <2>1. IsFiniteSet(s) /\ Cardinality(s) \in Nat
    BY FS_Subset, FS_CardinalityType
  <2>2. s # {} => First(s) \in s
    BY DEF First
  <2> QED
    BY <2>1, <2>2, FS_RemoveElement, FS_EmptySet
<1>2. ASSUME NEW s \in SUBSET S, Cardinality(s) <= m + 1
      PROVE  Adds(f, h, s)
  <2>1. CASE s = {}
    <3>1. Cardinality(s) <= m
      BY <1>1, <2>1
    <3>2. h[s] = g[s] /\ Adds(f, g, s)
      BY <3>1 DEF SumsUpTo
    <3> QED
      BY <2>1, <3>2 DEF Adds
  <2>2. CASE s # {}
    <3>1. s \ {First(s)} \in SUBSET S /\ Cardinality(s \ {First(s)}) <= m
      BY <1>1, <1>2, <2>2
    <3>2. h[s \ {First(s)}] = g[s \ {First(s)}]
      BY <3>1
    <3>3. h[s] = f[First(s)] + g[s \ {First(s)}]
      <4>1. CASE Cardinality(s) <= m
        <5>1. h[s] = g[s] /\ Adds(f, g, s)
          BY <4>1 DEF SumsUpTo
        <5> QED
          BY <2>2, <5>1 DEF Adds
      <4>2. CASE ~ (Cardinality(s) <= m)
        BY <4>2
      <4> QED
        BY <4>1, <4>2
    <3> QED
      BY <2>2, <3>2, <3>3 DEF Adds
  <2> QED
    BY <2>1, <2>2
<1>3. h = [s \in SUBSET S |-> h[s]]
  OBVIOUS
<1> HIDE DEF h
<1>4. SumsUpTo(f, S, m + 1, h)
  BY <1>2, <1>3 DEF SumsUpTo
<1> QED
  BY <1>4

\* There is a function that satisfies the recursion.
LEMMA SumsExist ==
    ASSUME NEW f, NEW S, IsFiniteSet(S)
    PROVE  \E g : Sums(f, S, g)
<1> DEFINE Stuck == {m \in Nat : ~ \E g : SumsUpTo(f, S, m, g)}
<1>1. ASSUME Stuck # {} PROVE FALSE
  <2>1. PICK m \in Stuck : \A k \in Stuck : m <= k
    <3>1. Stuck \in SUBSET Nat
      OBVIOUS
    <3> HIDE DEF Stuck
    <3> QED
      BY <1>1, <3>1, LeastNatural
  <2>2. m \in Nat /\ ~ \E g : SumsUpTo(f, S, m, g)
    OBVIOUS
  <2>3. CASE m = 0
    <3> DEFINE g == [s \in SUBSET S |-> 0]
    <3>1. ASSUME NEW s \in SUBSET S, Cardinality(s) <= 0 PROVE Adds(f, g, s)
      <4>1. IsFiniteSet(s) /\ Cardinality(s) \in Nat
        BY FS_Subset, FS_CardinalityType
      <4>2. s = {}
        BY <3>1, <4>1, FS_EmptySet
      <4> QED
        BY <4>2 DEF Adds
    <3>2. g = [s \in SUBSET S |-> g[s]]
      OBVIOUS
    <3> HIDE DEF g
    <3>3. SumsUpTo(f, S, 0, g)
      BY <3>1, <3>2 DEF SumsUpTo
    <3> QED
      BY <2>2, <2>3, <3>3
  <2>4. CASE m # 0
    <3>1. m - 1 \in Nat /\ m - 1 \notin Stuck /\ (m - 1) + 1 = m
      BY <2>1, <2>2, <2>4
    <3>2. PICK g : SumsUpTo(f, S, m - 1, g)
      BY <3>1
    <3> HIDE DEF Stuck
    <3>3. \E h : SumsUpTo(f, S, (m - 1) + 1, h)
      BY <3>1, <3>2, SumsExtend
    <3> QED
      BY <2>2, <3>1, <3>3
  <2> QED
    BY <2>3, <2>4
<1>2. Cardinality(S) \in Nat /\ \A s \in SUBSET S : Cardinality(s) <= Cardinality(S)
  BY FS_CardinalityType, FS_Subset
<1>3. PICK g : SumsUpTo(f, S, Cardinality(S), g)
  BY <1>1, <1>2
<1>4. \A s \in SUBSET S : g[s] = IF s = {} THEN 0 ELSE f[First(s)] + g[s \ {First(s)}]
  BY <1>2, <1>3 DEF SumsUpTo, Adds
<1>5. g = [s \in SUBSET S |-> g[s]]
  BY <1>3 DEF SumsUpTo
<1>6. Sums(f, S, g)
  BY <1>4, <1>5 DEF Sums
<1> QED
  BY <1>6

NatOn(f, S) == \A x \in S : f[x] \in Nat

\* Any element may be taken first.
LEMMA SumsTake ==
    ASSUME NEW S, IsFiniteSet(S), NEW f, NatOn(f, S), NEW g, Sums(f, S, g)
    PROVE  \A s \in SUBSET S : g[s] \in Nat /\ \A x \in s : g[s] = f[x] + g[s \ {x}]
<1> DEFINE Good(s) == g[s] \in Nat /\ \A x \in s : g[s] = f[x] + g[s \ {x}]
           Bad == {s \in SUBSET S : ~ Good(s)}
<1> SUFFICES ASSUME Bad # {} PROVE FALSE
  OBVIOUS
<1>1. PICK s \in Bad : \A U \in SUBSET s : U # s => U \notin Bad
  <2>1. Bad \in SUBSET (SUBSET S)
    OBVIOUS
  <2> HIDE DEF Bad
  <2> QED
    BY <2>1, LeastSubset
<1>2. s \in SUBSET S /\ ~ Good(s)
  OBVIOUS
<1>3. ASSUME NEW U \in SUBSET s, U # s PROVE Good(U)
  BY <1>1, <1>2, <1>3
<1> HIDE DEF Bad, Good
<1>4. CASE s = {}
  <2>1. g[s] = 0
    BY <1>4, SumsAt
  <2> QED
    BY <1>2, <1>4, <2>1 DEF Good
<1>5. CASE s # {}
  <2>1. PICK c \in s : g[s] = f[c] + g[s \ {c}]
    <3>1. First(s) \in s /\ g[s] = f[First(s)] + g[s \ {First(s)}]
      BY <1>2, <1>5, SumsAt
    <3> QED
      BY <3>1
  <2>5. f[c] \in Nat
    BY <1>2, <2>1 DEF NatOn
  <2>2. Good(s \ {c})
    BY <1>3, <2>1
  <2>3. g[s] \in Nat
    BY <2>1, <2>5, <2>2 DEF Good
  <2>4. ASSUME NEW x \in s PROVE g[s] = f[x] + g[s \ {x}]
    <3>1. CASE x = c
      BY <2>1, <3>1
    <3>2. CASE x # c
      <4>1. Good(s \ {x}) /\ (s \ {c}) \ {x} = (s \ {x}) \ {c}
        BY <1>3
      <4>2. /\ g[s \ {c}] = f[x] + g[(s \ {c}) \ {x}]
            /\ g[s \ {x}] = f[c] + g[(s \ {x}) \ {c}]
        BY <2>1, <2>2, <3>2, <4>1 DEF Good
      <4>3. Good((s \ {c}) \ {x}) /\ f[x] \in Nat
        BY <1>2, <1>3, <2>1 DEF NatOn
      <4>4. g[(s \ {c}) \ {x}] \in Nat
        BY <4>3 DEF Good
      <4>5. PICK rest \in Nat : rest = g[(s \ {c}) \ {x}] /\ rest = g[(s \ {x}) \ {c}]
        BY <4>1, <4>4
      <4>6. g[s \ {c}] = f[x] + rest /\ g[s \ {x}] = f[c] + rest
        BY <4>2, <4>5
      <4> QED
        BY <2>1, <2>5, <4>3, <4>6
    <3> QED
      BY <3>1, <3>2
  <2> QED
    BY <1>2, <2>3, <2>4 DEF Good
<1> QED
  BY <1>4, <1>5

\* The value depends on nothing outside the subset.
LEMMA SumsAgree ==
    ASSUME NEW S, IsFiniteSet(S), NEW f, NEW g, Sums(f, S, g),
           NEW T \in SUBSET S, NEW d, NEW h, Sums(d, T, h), \A x \in T : d[x] = f[x]
    PROVE  h[T] = g[T]
<1> DEFINE Bad == {s \in SUBSET T : h[s] # g[s]}
<1> SUFFICES ASSUME Bad # {} PROVE FALSE
  OBVIOUS
<1>1. PICK s \in Bad : \A U \in SUBSET s : U # s => U \notin Bad
  <2>1. Bad \in SUBSET (SUBSET S)
    OBVIOUS
  <2> HIDE DEF Bad
  <2> QED
    BY <2>1, LeastSubset
<1>2. s \in SUBSET T /\ s \in SUBSET S /\ h[s] # g[s]
  OBVIOUS
<1>3. s # {}
  BY <1>2, SumsAt
<1>4. First(s) \in s /\ h[s \ {First(s)}] = g[s \ {First(s)}]
  BY <1>1, <1>2, <1>3, SumsAt
<1>5. h[s] = d[First(s)] + h[s \ {First(s)}] /\ g[s] = f[First(s)] + g[s \ {First(s)}]
  BY <1>2, <1>3, SumsAt
<1>6. d[First(s)] = f[First(s)]
  BY <1>2, <1>4
<1> QED
  BY <1>2, <1>4, <1>5, <1>6

\* A sum of natural numbers is one; that of none is zero.
LEMMA SumType ==
    ASSUME NEW S, IsFiniteSet(S), NEW f \in [S -> Nat]
    PROVE  Sum(f) \in Nat /\ (S = {} => Sum(f) = 0)
<1>1. PICK g : Sums(f, S, g) /\ Sum(f) = g[S]
  <2>1. DOMAIN f = S
    OBVIOUS
  <2> QED
    BY <2>1, SumsExist, SumIsRecursion
<1>2. g[S] \in Nat
  <2>1. NatOn(f, S) /\ S \in SUBSET S
    BY DEF NatOn
  <2> QED
    BY <1>1, <2>1, SumsTake
<1>3. g[{}] = 0
  BY <1>1, SumsAt
<1> QED
  BY <1>1, <1>2, <1>3

\* A further element adds its value.
LEMMA SumGrows ==
    ASSUME NEW S, IsFiniteSet(S), NEW x, x \notin S,
           NEW f, DOMAIN f = S \cup {x}, NatOn(f, S \cup {x}),
           NEW d, DOMAIN d = S, \A y \in S : d[y] = f[y]
    PROVE  Sum(f) = Sum(d) + f[x]
<1> DEFINE T == S \cup {x}
<1>1. IsFiniteSet(T) /\ x \in T /\ T \ {x} = S
  BY FS_AddElement
<1>2. PICK g : Sums(f, T, g) /\ Sum(f) = g[T]
  BY <1>1, SumsExist, SumIsRecursion
<1>3. PICK h : Sums(d, S, h) /\ Sum(d) = h[S]
  BY SumsExist, SumIsRecursion
<1>4. g[T] = f[x] + g[S] /\ g[S] \in Nat
  <2>1. NatOn(f, T) /\ S \in SUBSET T /\ T \in SUBSET T
    OBVIOUS
  <2>2. \A s \in SUBSET T : g[s] \in Nat /\ \A y \in s : g[s] = f[y] + g[s \ {y}]
    BY <1>1, <1>2, <2>1, SumsTake
  <2> QED
    BY <1>1, <2>1, <2>2
<1>5. h[S] = g[S]
  <2>1. S \in SUBSET T
    OBVIOUS
  <2> QED
    BY <1>1, <1>2, <1>3, <2>1, SumsAgree
<1>6. f[x] \in Nat
  BY <1>1 DEF NatOn
<1> QED
  BY <1>2, <1>3, <1>4, <1>5, <1>6

\* One changed element changes the sum by as much.
LEMMA SumChanges ==
    ASSUME NEW S, IsFiniteSet(S), NEW x \in S, NEW f \in [S -> Nat], NEW d \in [S -> Nat],
           \A y \in S : y # x => d[y] = f[y]
    PROVE  Sum(f) + d[x] = Sum(d) + f[x]
<1> DEFINE R == S \ {x}
           e == [y \in R |-> f[y]]
<1>1. IsFiniteSet(R) /\ x \notin R /\ R \cup {x} = S
  BY FS_RemoveElement
<1>2. /\ e \in [R -> Nat] /\ \A y \in R : e[y] = f[y] /\ e[y] = d[y]
      /\ f[x] \in Nat /\ d[x] \in Nat
      /\ NatOn(f, R \cup {x}) /\ NatOn(d, R \cup {x})
      /\ DOMAIN e = R /\ DOMAIN f = R \cup {x} /\ DOMAIN d = R \cup {x}
  BY DEF NatOn
<1> HIDE DEF R, e
<1>3. Sum(f) = Sum(e) + f[x] /\ Sum(d) = Sum(e) + d[x]
  <2>1. Sum(f) = Sum(e) + f[x]
    BY <1>1, <1>2, SumGrows
  <2>2. Sum(d) = Sum(e) + d[x]
    BY <1>1, <1>2, SumGrows
  <2> QED
    BY <2>1, <2>2
<1>4. Sum(e) \in Nat
  BY <1>1, <1>2, SumType
<1> QED
  BY <1>2, <1>3, <1>4

\* Zeros sum to zero.
LEMMA SumOfZeros ==
    ASSUME NEW S, IsFiniteSet(S), NEW f \in [S -> {0}]
    PROVE  Sum(f) = 0
<1>1. PICK g : Sums(f, S, g) /\ Sum(f) = g[S]
  <2>1. DOMAIN f = S
    OBVIOUS
  <2> QED
    BY <2>1, SumsExist, SumIsRecursion
<1> DEFINE Bad == {s \in SUBSET S : g[s] # 0}
<1>2. ASSUME Bad # {} PROVE FALSE
  <2>1. PICK s \in Bad : \A U \in SUBSET s : U # s => U \notin Bad
    <3>1. Bad \in SUBSET (SUBSET S)
      OBVIOUS
    <3> HIDE DEF Bad
    <3> QED
      BY <1>2, <3>1, LeastSubset
  <2>2. s \in SUBSET S /\ g[s] # 0
    OBVIOUS
  <2>3. s # {}
    BY <1>1, <2>2, SumsAt
  <2>4. First(s) \in s /\ g[s] = f[First(s)] + g[s \ {First(s)}]
    BY <1>1, <2>2, <2>3, SumsAt
  <2>5. g[s \ {First(s)}] = 0 /\ f[First(s)] = 0
    BY <2>1, <2>2, <2>4
  <2> QED
    BY <2>2, <2>4, <2>5
<1> QED
  BY <1>1, <1>2

-----------------------------------------------------------------------------
(* What each part of record_event changes of the row, and its type.           *)

\* The fields of an event.
LEMMA EventType ==
    ASSUME NEW e \in Events
    PROVE  /\ e.op \in Operations /\ e.elapsed \in Nat /\ e.refresh \in Nat
           /\ e.saved \in Nat /\ e.deferred \in Nat /\ e.hit \in {"hit", "miss", "none"}
           /\ e.space \in Spaces /\ e.fragments \in [Spaces -> [hits : Nat, misses : Nat]]
           /\ e.route \in Routes \cup {NoRoute} /\ e.trigger \in {"manual", "auto", ""}
BY MetricsAssumption

\* What a pack found in the fragment caches is counted in natural numbers.
LEMMA FragmentType ==
    ASSUME NEW e \in Events
    PROVE  FragmentHits(e) \in Nat /\ FragmentMisses(e) \in Nat
<1>1. e.fragments \in [Spaces -> [hits : Nat, misses : Nat]]
  BY EventType
<1>2. /\ [s \in Spaces |-> e.fragments[s].hits] \in [Spaces -> Nat]
      /\ [s \in Spaces |-> e.fragments[s].misses] \in [Spaces -> Nat]
  BY <1>1
<1> QED
  BY <1>2, FiniteAssumption, SumType DEF FragmentHits, FragmentMisses

\* The statistics of an operation or a route.
LEMMA StatsFields ==
    ASSUME NEW stats \in Stats, NEW e \in Events, NEW x \in Nat
    PROVE  /\ LET new == WithLatency(stats, x) IN
              /\ new \in Stats
              /\ new.n = stats.n + 1 /\ new.total = stats.total + x
              /\ new.least = (IF stats.n = 0 THEN x ELSE Least(stats.least, x))
              /\ new.most = Most(stats.most, x) /\ new.last = x
              /\ new.saved = stats.saved /\ new.deferred = stats.deferred
           /\ LET new == Updated(stats, e) IN
              /\ new \in Stats
              /\ new.n = stats.n + 1 /\ new.total = stats.total + e.elapsed
              /\ new.least = (IF stats.n = 0 THEN e.elapsed ELSE Least(stats.least, e.elapsed))
              /\ new.most = Most(stats.most, e.elapsed) /\ new.last = e.elapsed
<1>1. ASSUME NEW y \in Nat
      PROVE  LET new == WithLatency(stats, y) IN
             /\ new \in Stats
             /\ new.n = stats.n + 1 /\ new.total = stats.total + y
             /\ new.least = (IF stats.n = 0 THEN y ELSE Least(stats.least, y))
             /\ new.most = Most(stats.most, y) /\ new.last = y
             /\ new.saved = stats.saved /\ new.deferred = stats.deferred
  <2>1. Least(stats.least, y) \in Nat /\ Most(stats.most, y) \in Nat
    BY DEF Least, Most, Stats
  <2>2. (IF stats.n = 0 THEN y ELSE Least(stats.least, y)) \in Nat
    BY <2>1
  <2>3. PICK least \in Nat, most \in Nat, n \in Nat, total \in Nat :
          /\ least = (IF stats.n = 0 THEN y ELSE Least(stats.least, y))
          /\ most = Most(stats.most, y) /\ n = stats.n + 1 /\ total = stats.total + y
    BY <2>1, <2>2 DEF Stats
  <2>4. PICK new : new = WithLatency(stats, y)
    OBVIOUS
  <2>5. new = [stats EXCEPT !.n = n, !.total = total, !.least = least, !.most = most,
                            !.last = y]
    BY <2>3, <2>4 DEF WithLatency, Stats
  <2>6. /\ new \in Stats /\ new.n = n /\ new.total = total /\ new.least = least
        /\ new.most = most /\ new.last = y /\ new.saved = stats.saved
        /\ new.deferred = stats.deferred
    BY <2>5 DEF Stats
  <2> QED
    BY <2>3, <2>4, <2>6
<1>2. e.elapsed \in Nat /\ e.saved \in Nat /\ e.deferred \in Nat
  BY EventType
<1> DEFINE mid == WithLatency(stats, e.elapsed)
<1>3. /\ mid \in Stats
      /\ mid.n = stats.n + 1 /\ mid.total = stats.total + e.elapsed
      /\ mid.least = (IF stats.n = 0 THEN e.elapsed ELSE Least(stats.least, e.elapsed))
      /\ mid.most = Most(stats.most, e.elapsed) /\ mid.last = e.elapsed
  BY <1>1, <1>2
<1>4. Updated(stats, e) = [mid EXCEPT !.saved = @ + e.saved, !.deferred = @ + e.deferred]
  BY DEF Updated
<1> HIDE DEF mid
<1>6. PICK a \in Nat, b \in Nat : a = mid.saved + e.saved /\ b = mid.deferred + e.deferred
  BY <1>2, <1>3 DEF Stats
<1>7. Updated(stats, e) = [mid EXCEPT !.saved = a, !.deferred = b]
  BY <1>4, <1>6
<1>5. LET new == Updated(stats, e) IN
      /\ new \in Stats /\ new.n = mid.n /\ new.total = mid.total
      /\ new.least = mid.least /\ new.most = mid.most /\ new.last = mid.last
  BY <1>3, <1>7 DEF Stats
<1> QED
  BY <1>1, <1>3, <1>5

\* The totals of requests, tokens and bytes.
LEMMA TotalsFields ==
    ASSUME NEW row \in Row, NEW e \in Events
    PROVE  LET new == WithTotals(row, e) IN
           /\ new \in Row
           /\ new.requests = row.requests + 1
           /\ new.saved = row.saved + e.saved /\ new.deferred = row.deferred + e.deferred
           /\ new.hits = row.hits /\ new.misses = row.misses /\ new.fragmentHits = row.fragmentHits
           /\ new.fragmentMisses = row.fragmentMisses /\ new.spaces = row.spaces /\ new.triggers = row.triggers
           /\ new.operations = row.operations /\ new.refreshes = row.refreshes /\ new.routes = row.routes
           /\ new.recent = row.recent
<1>1. PICK a \in Nat, b \in Nat, c \in Nat :
        a = row.requests + 1 /\ b = row.saved + e.saved /\ c = row.deferred + e.deferred
  <2>1. row.requests \in Nat /\ row.saved \in Nat /\ row.deferred \in Nat
    BY DEF Row
  <2>2. e.saved \in Nat /\ e.deferred \in Nat
    BY EventType
  <2> QED
    BY <2>1, <2>2
<1>2. PICK new : new = WithTotals(row, e)
  OBVIOUS
<1>3. new = [row EXCEPT !.requests = a, !.saved = b, !.deferred = c]
  BY <1>1, <1>2 DEF WithTotals
<1>4. /\ new \in Row /\ new.requests = a /\ new.saved = b /\ new.deferred = c
      /\ new.hits = row.hits /\ new.misses = row.misses /\ new.fragmentHits = row.fragmentHits
      /\ new.fragmentMisses = row.fragmentMisses /\ new.spaces = row.spaces /\ new.triggers = row.triggers
      /\ new.operations = row.operations /\ new.refreshes = row.refreshes /\ new.routes = row.routes
      /\ new.recent = row.recent
  BY <1>3 DEF Row
<1> QED
  BY <1>1, <1>2, <1>4

\* A hit or a miss of a lookup.
LEMMA LookupFields ==
    ASSUME NEW row \in Row, NEW e \in Events
    PROVE  LET new == WithLookup(row, e) IN
           /\ new \in Row
           /\ \A s \in Spaces :
                /\ new.spaces[s].hits = row.spaces[s].hits
                       + (IF e.hit = "hit" /\ e.space = s THEN 1 ELSE 0)
                /\ new.spaces[s].misses = row.spaces[s].misses
                       + (IF e.hit = "miss" /\ e.space = s THEN 1 ELSE 0)
           /\ new.requests = row.requests /\ new.saved = row.saved /\ new.deferred = row.deferred
           /\ new.fragmentHits = row.fragmentHits /\ new.fragmentMisses = row.fragmentMisses /\ new.triggers = row.triggers
           /\ new.operations = row.operations /\ new.refreshes = row.refreshes /\ new.routes = row.routes
           /\ new.recent = row.recent
<1>1. e.hit \in {"hit", "miss", "none"} /\ e.space \in Spaces
  BY EventType
<1>2. CASE e.hit = "none"
  BY <1>2 DEF WithLookup, Row
<1>3. CASE e.hit = "hit"
  <2>1. row.spaces \in [Spaces -> [hits : Nat, misses : Nat]] /\ row.hits \in Nat
    BY DEF Row
  <2>2. PICK all : all = [row.spaces EXCEPT ![e.space].hits = @ + 1]
    OBVIOUS
  <2>3. /\ all \in [Spaces -> [hits : Nat, misses : Nat]]
        /\ \A s \in Spaces :
             /\ all[s].hits = row.spaces[s].hits + (IF e.space = s THEN 1 ELSE 0)
             /\ all[s].misses = row.spaces[s].misses
    BY <1>1, <2>1, <2>2
  <2>4. PICK new : new = WithLookup(row, e)
    OBVIOUS
  <2>8. PICK a \in Nat : a = row.hits + 1
    BY <2>1
  <2>5. new = [row EXCEPT !.hits = a, !.spaces = all]
    BY <1>3, <2>2, <2>4, <2>8 DEF WithLookup
  <2>6. /\ new \in Row /\ new.spaces = all
        /\ new.requests = row.requests /\ new.saved = row.saved /\ new.deferred = row.deferred
        /\ new.fragmentHits = row.fragmentHits /\ new.fragmentMisses = row.fragmentMisses /\ new.triggers = row.triggers
        /\ new.operations = row.operations /\ new.refreshes = row.refreshes /\ new.routes = row.routes
        /\ new.recent = row.recent
    BY <2>3, <2>5 DEF Row
  <2>7. \A s \in Spaces : row.spaces[s].hits \in Nat /\ row.spaces[s].misses \in Nat
    BY <2>1
  <2> QED
    BY <1>3, <2>3, <2>4, <2>6, <2>7
<1>4. CASE e.hit = "miss"
  <2>1. row.spaces \in [Spaces -> [hits : Nat, misses : Nat]] /\ row.misses \in Nat
    BY DEF Row
  <2>2. PICK all : all = [row.spaces EXCEPT ![e.space].misses = @ + 1]
    OBVIOUS
  <2>3. /\ all \in [Spaces -> [hits : Nat, misses : Nat]]
        /\ \A s \in Spaces :
             /\ all[s].misses = row.spaces[s].misses + (IF e.space = s THEN 1 ELSE 0)
             /\ all[s].hits = row.spaces[s].hits
    BY <1>1, <2>1, <2>2
  <2>4. PICK new : new = WithLookup(row, e)
    OBVIOUS
  <2>8. PICK a \in Nat : a = row.misses + 1
    BY <2>1
  <2>5. new = [row EXCEPT !.misses = a, !.spaces = all]
    BY <1>4, <2>2, <2>4, <2>8 DEF WithLookup
  <2>6. /\ new \in Row /\ new.spaces = all
        /\ new.requests = row.requests /\ new.saved = row.saved /\ new.deferred = row.deferred
        /\ new.fragmentHits = row.fragmentHits /\ new.fragmentMisses = row.fragmentMisses /\ new.triggers = row.triggers
        /\ new.operations = row.operations /\ new.refreshes = row.refreshes /\ new.routes = row.routes
        /\ new.recent = row.recent
    BY <2>3, <2>5 DEF Row
  <2>7. \A s \in Spaces : row.spaces[s].hits \in Nat /\ row.spaces[s].misses \in Nat
    BY <2>1
  <2> QED
    BY <1>4, <2>3, <2>4, <2>6, <2>7
<1> QED
  BY <1>1, <1>2, <1>3, <1>4

\* The fragments of a pack.
LEMMA FragmentFields ==
    ASSUME NEW row \in Row, NEW e \in Events
    PROVE  LET new == WithFragments(row, e) IN
           /\ new \in Row
           /\ new.fragmentHits = row.fragmentHits + (IF e.op = Pack THEN FragmentHits(e) ELSE 0)
           /\ new.fragmentMisses = row.fragmentMisses + (IF e.op = Pack THEN FragmentMisses(e) ELSE 0)
           /\ \A s \in Spaces :
                /\ new.spaces[s].hits = row.spaces[s].hits + e.fragments[s].hits
                /\ new.spaces[s].misses = row.spaces[s].misses + e.fragments[s].misses
           /\ new.requests = row.requests /\ new.saved = row.saved /\ new.deferred = row.deferred
           /\ new.hits = row.hits /\ new.misses = row.misses /\ new.triggers = row.triggers
           /\ new.operations = row.operations /\ new.refreshes = row.refreshes /\ new.routes = row.routes
           /\ new.recent = row.recent
<1>1. e.fragments \in [Spaces -> [hits : Nat, misses : Nat]]
  BY EventType
<1> DEFINE h == IF e.op = Pack THEN FragmentHits(e) ELSE 0
           m == IF e.op = Pack THEN FragmentMisses(e) ELSE 0
           all == [s \in Spaces |-> [hits |-> row.spaces[s].hits + e.fragments[s].hits,
                                     misses |-> row.spaces[s].misses + e.fragments[s].misses]]
<1>2. h \in Nat /\ m \in Nat
  BY FragmentType
<1>3. all \in [Spaces -> [hits : Nat, misses : Nat]]
  <2>1. row.spaces \in [Spaces -> [hits : Nat, misses : Nat]]
    BY DEF Row
  <2>2. ASSUME NEW s \in Spaces
        PROVE  /\ row.spaces[s].hits + e.fragments[s].hits \in Nat
               /\ row.spaces[s].misses + e.fragments[s].misses \in Nat
    <3>1. /\ row.spaces[s] \in [hits : Nat, misses : Nat]
          /\ e.fragments[s] \in [hits : Nat, misses : Nat]
      BY <1>1, <2>1
    <3> QED
      BY <3>1
  <2> QED
    BY <2>2
<1>4. \A s \in Spaces : /\ all[s].hits = row.spaces[s].hits + e.fragments[s].hits
                        /\ all[s].misses = row.spaces[s].misses + e.fragments[s].misses
  OBVIOUS
<1>5. PICK new : new = WithFragments(row, e)
  OBVIOUS
<1>6. PICK a \in Nat, b \in Nat : a = row.fragmentHits + h /\ b = row.fragmentMisses + m
  <2>1. row.fragmentHits \in Nat /\ row.fragmentMisses \in Nat
    BY DEF Row
  <2> HIDE DEF h, m
  <2> QED
    BY <1>2, <2>1
<1>7. new = [row EXCEPT !.fragmentHits = a, !.fragmentMisses = b, !.spaces = all]
  BY <1>5, <1>6 DEF WithFragments, Row
<1> HIDE DEF all, h, m
<1>8. /\ new \in Row /\ new.fragmentHits = a /\ new.fragmentMisses = b /\ new.spaces = all
      /\ new.requests = row.requests /\ new.saved = row.saved /\ new.deferred = row.deferred
      /\ new.hits = row.hits /\ new.misses = row.misses /\ new.triggers = row.triggers
      /\ new.operations = row.operations /\ new.refreshes = row.refreshes /\ new.routes = row.routes
      /\ new.recent = row.recent
  BY <1>3, <1>7 DEF Row
<1> QED
  BY <1>4, <1>5, <1>6, <1>8 DEF h, m

\* The trigger of a warm-up.
LEMMA TriggerFields ==
    ASSUME NEW row \in Row, NEW e \in Events
    PROVE  LET new == WithTrigger(row, e) IN
           /\ new \in Row
           /\ new.triggers.manual + new.triggers.auto =
                row.triggers.manual + row.triggers.auto + (IF e.op = Warmup THEN 1 ELSE 0)
           /\ new.requests = row.requests /\ new.saved = row.saved /\ new.deferred = row.deferred
           /\ new.hits = row.hits /\ new.misses = row.misses /\ new.fragmentHits = row.fragmentHits
           /\ new.fragmentMisses = row.fragmentMisses /\ new.spaces = row.spaces /\ new.operations = row.operations
           /\ new.refreshes = row.refreshes /\ new.routes = row.routes /\ new.recent = row.recent
<1>1. row.triggers \in [manual : Nat, auto : Nat]
  BY DEF Row
<1>2. PICK new : new = WithTrigger(row, e)
  OBVIOUS
<1>3. CASE e.op # Warmup
  BY <1>1, <1>2, <1>3 DEF WithTrigger
<1>4. CASE e.op = Warmup
  <2>1. PICK t \in [manual : Nat, auto : Nat] :
          /\ t.manual + t.auto = row.triggers.manual + row.triggers.auto + 1
          /\ new = [row EXCEPT !.triggers = t]
    <3>1. CASE e.trigger = "auto"
      <4>1. PICK t : t = [row.triggers EXCEPT !.auto = @ + 1]
        OBVIOUS
      <4>2. /\ t \in [manual : Nat, auto : Nat]
            /\ t.manual + t.auto = row.triggers.manual + row.triggers.auto + 1
        BY <1>1, <4>1
      <4>3. new = [row EXCEPT !.triggers = t]
        BY <1>2, <1>4, <3>1, <4>1 DEF WithTrigger
      <4> QED
        BY <4>2, <4>3
    <3>2. CASE e.trigger # "auto"
      <4>1. PICK t : t = [row.triggers EXCEPT !.manual = @ + 1]
        OBVIOUS
      <4>2. /\ t \in [manual : Nat, auto : Nat]
            /\ t.manual + t.auto = row.triggers.manual + row.triggers.auto + 1
        BY <1>1, <4>1
      <4>3. new = [row EXCEPT !.triggers = t]
        BY <1>2, <1>4, <3>2, <4>1 DEF WithTrigger
      <4> QED
        BY <4>2, <4>3
    <3> QED
      BY <3>1, <3>2
  <2>2. /\ new \in Row /\ new.triggers = t
        /\ new.requests = row.requests /\ new.saved = row.saved /\ new.deferred = row.deferred
        /\ new.hits = row.hits /\ new.misses = row.misses /\ new.fragmentHits = row.fragmentHits
        /\ new.fragmentMisses = row.fragmentMisses /\ new.spaces = row.spaces /\ new.operations = row.operations
        /\ new.refreshes = row.refreshes /\ new.routes = row.routes /\ new.recent = row.recent
    BY <2>1 DEF Row
  <2> QED
    BY <1>2, <1>4, <2>1, <2>2
<1> QED
  BY <1>3, <1>4

\* The statistics of the operation.
LEMMA OperationFields ==
    ASSUME NEW row \in Row, NEW e \in Events
    PROVE  LET new == WithOperation(row, e) IN
           /\ new \in Row
           /\ new.operations = [row.operations EXCEPT ![e.op] = Updated(@, e)]
           /\ new.requests = row.requests /\ new.saved = row.saved /\ new.deferred = row.deferred
           /\ new.hits = row.hits /\ new.misses = row.misses /\ new.fragmentHits = row.fragmentHits
           /\ new.fragmentMisses = row.fragmentMisses /\ new.spaces = row.spaces /\ new.triggers = row.triggers
           /\ new.refreshes = row.refreshes /\ new.routes = row.routes /\ new.recent = row.recent
<1>1. e.op \in Operations /\ e.elapsed \in Nat
  BY EventType
<1>2. row.operations \in [Operations -> Stats]
  BY DEF Row
<1>3. Updated(row.operations[e.op], e) \in Stats
  BY <1>1, <1>2, StatsFields
<1>4. [row.operations EXCEPT ![e.op] = Updated(@, e)] \in [Operations -> Stats]
  BY <1>1, <1>2, <1>3
<1>5. WithOperation(row, e) =
        [row EXCEPT !.operations = [row.operations EXCEPT ![e.op] = Updated(@, e)]]
  BY DEF WithOperation, Row
<1> QED
  BY <1>4, <1>5 DEF Row

\* The stages of a pack.
LEMMA StageFields ==
    ASSUME NEW row \in Row, NEW e \in Events
    PROVE  LET new == WithStages(row, e) IN
           /\ new \in Row
           /\ new.refreshes.n = row.refreshes.n + (IF e.op = Pack THEN 1 ELSE 0)
           /\ new.refreshes.total = row.refreshes.total + (IF e.op = Pack THEN e.refresh ELSE 0)
           /\ new.requests = row.requests /\ new.saved = row.saved /\ new.deferred = row.deferred
           /\ new.hits = row.hits /\ new.misses = row.misses /\ new.fragmentHits = row.fragmentHits
           /\ new.fragmentMisses = row.fragmentMisses /\ new.spaces = row.spaces /\ new.triggers = row.triggers
           /\ new.operations = row.operations /\ new.routes = row.routes /\ new.recent = row.recent
<1>1. e.refresh \in Nat /\ row.refreshes \in Stats
  BY EventType DEF Row
<1>2. /\ WithLatency(row.refreshes, e.refresh) \in Stats
      /\ WithLatency(row.refreshes, e.refresh).n = row.refreshes.n + 1
      /\ WithLatency(row.refreshes, e.refresh).total = row.refreshes.total + e.refresh
  BY <1>1, StatsFields
<1>3. CASE e.op = Pack
  <2>1. WithStages(row, e) = [row EXCEPT !.refreshes = WithLatency(row.refreshes, e.refresh)]
    BY <1>3 DEF WithStages, Row
  <2> QED
    BY <1>2, <1>3, <2>1 DEF Row
<1>4. CASE e.op # Pack
  <2>1. WithStages(row, e) = row
    BY <1>4 DEF WithStages
  <2>2. row.refreshes.n \in Nat /\ row.refreshes.total \in Nat
    BY <1>1 DEF Stats
  <2> QED
    BY <1>4, <2>1, <2>2
<1> QED
  BY <1>3, <1>4

\* The statistics of the route.
LEMMA RouteFields ==
    ASSUME NEW row \in Row, NEW e \in Events
    PROVE  LET new == WithRoute(row, e) IN
           /\ new \in Row
           /\ new.routes = (IF e.op = Pack THEN [row.routes EXCEPT ![e.route] = Updated(@, e)]
                            ELSE row.routes)
           /\ new.requests = row.requests /\ new.saved = row.saved /\ new.deferred = row.deferred
           /\ new.hits = row.hits /\ new.misses = row.misses /\ new.fragmentHits = row.fragmentHits
           /\ new.fragmentMisses = row.fragmentMisses /\ new.spaces = row.spaces /\ new.triggers = row.triggers
           /\ new.operations = row.operations /\ new.refreshes = row.refreshes /\ new.recent = row.recent
<1>1. e.op = Pack <=> e.route # NoRoute
  BY CallersAssumption
<1>2. CASE e.op # Pack
  BY <1>1, <1>2 DEF WithRoute
<1>3. CASE e.op = Pack
  <2>1. e.route \in Routes /\ row.routes \in [Routes -> Stats]
    BY <1>1, <1>3, EventType DEF Row
  <2>2. Updated(row.routes[e.route], e) \in Stats
    BY <2>1, StatsFields
  <2>3. [row.routes EXCEPT ![e.route] = Updated(@, e)] \in [Routes -> Stats]
    BY <2>1, <2>2
  <2>4. WithRoute(row, e) = [row EXCEPT !.routes = [row.routes EXCEPT ![e.route] = Updated(@, e)]]
    BY <1>1, <1>3 DEF WithRoute, Row
  <2> QED
    BY <1>3, <2>3, <2>4 DEF Row
<1> QED
  BY <1>2, <1>3

\* The last n of a list of m, by their places in it.
Lasts(s, m, n) == [k \in 1..Least(m, n) |-> s[Most(0, m - n) + k]]

LEMMA LastOfPlaces ==
    ASSUME NEW s \in Seq(Events), NEW n \in Nat \ {0}
    PROVE  /\ LastOf(s, n) \in Seq(Events) /\ Len(LastOf(s, n)) = Least(Len(s), n)
           /\ LastOf(s, n) = Lasts(s, Len(s), n)
<1> DEFINE m == Len(s)
           a == Most(1, m - n + 1)
<1>1. m \in Nat /\ a \in 1 .. m + 1 /\ m - a + 1 = Least(m, n) /\ a - 1 = Most(0, m - n)
  <2>1. m \in Nat
    OBVIOUS
  <2> HIDE DEF m
  <2> QED
    BY <2>1 DEF Most, Least
<1>2. \A k \in 1 .. m : s[k] \in Events
  OBVIOUS
<1> HIDE DEF a
<1>3. SubSeq(s, a, m) = [k \in 1 .. m - a + 1 |-> s[k + a - 1]]
  BY <1>1
<1>4. \A k \in 1 .. m - a + 1 : k + a - 1 \in 1 .. m /\ k + a - 1 = (a - 1) + k
  BY <1>1
<1>5. SubSeq(s, a, m) = [k \in 1 .. m - a + 1 |-> s[(a - 1) + k]]
  BY <1>3, <1>4
<1>6. SubSeq(s, a, m) \in Seq(Events) /\ Len(SubSeq(s, a, m)) = m - a + 1
  <2>1. \A k \in 1 .. m - a + 1 : s[k + a - 1] \in Events
    BY <1>2, <1>4
  <2>2. m - a + 1 \in Nat
    BY <1>1
  <2> QED
    BY <1>3, <2>1, <2>2
<1>7. LastOf(s, n) = SubSeq(s, a, m)
  BY DEF LastOf, a
<1>8. LastOf(s, n) = Lasts(s, Len(s), n)
  BY <1>1, <1>5, <1>7 DEF Lasts
<1> QED
  BY <1>1, <1>6, <1>7, <1>8

\* The list of recent events.
LEMMA RecentFields ==
    ASSUME NEW row \in Row, NEW e \in Events
    PROVE  LET new == WithRecent(row, e) IN
           /\ new \in Row
           /\ new.recent = LastOf(Append(row.recent, e), RecentLimit)
           /\ new.requests = row.requests /\ new.saved = row.saved /\ new.deferred = row.deferred
           /\ new.hits = row.hits /\ new.misses = row.misses /\ new.fragmentHits = row.fragmentHits
           /\ new.fragmentMisses = row.fragmentMisses /\ new.spaces = row.spaces /\ new.triggers = row.triggers
           /\ new.operations = row.operations /\ new.refreshes = row.refreshes /\ new.routes = row.routes
<1>1. row.recent \in Seq(Events) /\ RecentLimit \in Nat \ {0}
  BY MetricsAssumption DEF Row
<1>2. Append(row.recent, e) \in Seq(Events)
  BY <1>1
<1>3. PICK s \in Seq(Events) : s = LastOf(Append(row.recent, e), RecentLimit)
  BY <1>1, <1>2, LastOfPlaces
<1>4. PICK new : new = WithRecent(row, e)
  OBVIOUS
<1>5. new = [row EXCEPT !.recent = s]
  BY <1>3, <1>4 DEF WithRecent
<1>6. /\ new \in Row /\ new.recent = s
      /\ new.requests = row.requests /\ new.saved = row.saved /\ new.deferred = row.deferred
      /\ new.hits = row.hits /\ new.misses = row.misses /\ new.fragmentHits = row.fragmentHits
      /\ new.fragmentMisses = row.fragmentMisses /\ new.spaces = row.spaces /\ new.triggers = row.triggers
      /\ new.operations = row.operations /\ new.refreshes = row.refreshes /\ new.routes = row.routes
  BY <1>5 DEF Row
<1> QED
  BY <1>3, <1>4, <1>6

\* What recording an event makes of the row.
LEMMA RecordedFields ==
    ASSUME NEW row \in Row, NEW e \in Events
    PROVE  LET new == Recorded(row, e) IN
           /\ new \in Row
           /\ new.requests = row.requests + 1
           /\ new.saved = row.saved + e.saved /\ new.deferred = row.deferred + e.deferred
           /\ new.fragmentHits = row.fragmentHits + (IF e.op = Pack THEN FragmentHits(e) ELSE 0)
           /\ new.fragmentMisses =
                row.fragmentMisses + (IF e.op = Pack THEN FragmentMisses(e) ELSE 0)
           /\ \A s \in Spaces :
                /\ new.spaces[s].hits = row.spaces[s].hits + e.fragments[s].hits
                       + (IF e.hit = "hit" /\ e.space = s THEN 1 ELSE 0)
                /\ new.spaces[s].misses = row.spaces[s].misses + e.fragments[s].misses
                       + (IF e.hit = "miss" /\ e.space = s THEN 1 ELSE 0)
           /\ new.triggers.manual + new.triggers.auto =
                row.triggers.manual + row.triggers.auto + (IF e.op = Warmup THEN 1 ELSE 0)
           /\ new.operations = [row.operations EXCEPT ![e.op] = Updated(@, e)]
           /\ new.refreshes.n = row.refreshes.n + (IF e.op = Pack THEN 1 ELSE 0)
           /\ new.refreshes.total =
                row.refreshes.total + (IF e.op = Pack THEN e.refresh ELSE 0)
           /\ new.routes = (IF e.op = Pack THEN [row.routes EXCEPT ![e.route] = Updated(@, e)]
                            ELSE row.routes)
           /\ new.recent = LastOf(Append(row.recent, e), RecentLimit)
<1>1. PICK a \in Row : a = WithTotals(row, e)
  BY TotalsFields
<1>2. PICK b \in Row : b = WithLookup(a, e)
  BY LookupFields
<1>3. PICK c \in Row : c = WithFragments(b, e)
  BY FragmentFields
<1>4. PICK d \in Row : d = WithTrigger(c, e)
  BY TriggerFields
<1>5. PICK f \in Row : f = WithOperation(d, e)
  BY OperationFields
<1>6. PICK g \in Row : g = WithStages(f, e)
  BY StageFields
<1>7. PICK h \in Row : h = WithRoute(g, e)
  BY RouteFields
<1>8. PICK new \in Row : new = WithRecent(h, e)
  BY RecentFields
<1>9. Recorded(row, e) = new
  BY <1>1, <1>2, <1>3, <1>4, <1>5, <1>6, <1>7, <1>8 DEF Recorded
<1>10. /\ new.requests = row.requests + 1
       /\ new.saved = row.saved + e.saved /\ new.deferred = row.deferred + e.deferred
  <2>1. /\ a.requests = row.requests + 1
        /\ a.saved = row.saved + e.saved /\ a.deferred = row.deferred + e.deferred
    BY <1>1, TotalsFields
  <2>2. /\ b.requests = a.requests /\ b.saved = a.saved /\ b.deferred = a.deferred
    BY <1>2, LookupFields
  <2>3. /\ c.requests = b.requests /\ c.saved = b.saved /\ c.deferred = b.deferred
    BY <1>3, FragmentFields
  <2>4. /\ d.requests = c.requests /\ d.saved = c.saved /\ d.deferred = c.deferred
    BY <1>4, TriggerFields
  <2>5. /\ f.requests = d.requests /\ f.saved = d.saved /\ f.deferred = d.deferred
    BY <1>5, OperationFields
  <2>6. /\ g.requests = f.requests /\ g.saved = f.saved /\ g.deferred = f.deferred
    BY <1>6, StageFields
  <2>7. /\ h.requests = g.requests /\ h.saved = g.saved /\ h.deferred = g.deferred
    BY <1>7, RouteFields
  <2>8. /\ new.requests = h.requests /\ new.saved = h.saved /\ new.deferred = h.deferred
    BY <1>8, RecentFields
  <2> QED
    BY <2>1, <2>2, <2>3, <2>4, <2>5, <2>6, <2>7, <2>8
<1>11. /\ new.fragmentHits = c.fragmentHits /\ b.fragmentHits = row.fragmentHits
       /\ new.fragmentMisses = c.fragmentMisses /\ b.fragmentMisses = row.fragmentMisses
       /\ new.spaces = c.spaces /\ a.spaces = row.spaces
  <2>1. a.fragmentHits = row.fragmentHits /\ a.fragmentMisses = row.fragmentMisses /\ a.spaces = row.spaces
    BY <1>1, TotalsFields
  <2>2. b.fragmentHits = a.fragmentHits /\ b.fragmentMisses = a.fragmentMisses
    BY <1>2, LookupFields
  <2>3. TRUE
    OBVIOUS
  <2>4. d.fragmentHits = c.fragmentHits /\ d.fragmentMisses = c.fragmentMisses /\ d.spaces = c.spaces
    BY <1>4, TriggerFields
  <2>5. f.fragmentHits = d.fragmentHits /\ f.fragmentMisses = d.fragmentMisses /\ f.spaces = d.spaces
    BY <1>5, OperationFields
  <2>6. g.fragmentHits = f.fragmentHits /\ g.fragmentMisses = f.fragmentMisses /\ g.spaces = f.spaces
    BY <1>6, StageFields
  <2>7. h.fragmentHits = g.fragmentHits /\ h.fragmentMisses = g.fragmentMisses /\ h.spaces = g.spaces
    BY <1>7, RouteFields
  <2>8. new.fragmentHits = h.fragmentHits /\ new.fragmentMisses = h.fragmentMisses /\ new.spaces = h.spaces
    BY <1>8, RecentFields
  <2> QED
    BY <2>1, <2>2, <2>3, <2>4, <2>5, <2>6, <2>7, <2>8
<1>12. /\ new.triggers = d.triggers /\ c.triggers = row.triggers
       /\ new.operations = f.operations /\ d.operations = row.operations
       /\ new.refreshes = g.refreshes /\ f.refreshes = row.refreshes
       /\ new.routes = h.routes /\ g.routes = row.routes
       /\ h.recent = row.recent
  <2>1. /\ a.triggers = row.triggers /\ a.operations = row.operations /\ a.refreshes = row.refreshes
        /\ a.routes = row.routes /\ a.recent = row.recent
    BY <1>1, TotalsFields
  <2>2. /\ b.triggers = a.triggers /\ b.operations = a.operations /\ b.refreshes = a.refreshes
        /\ b.routes = a.routes /\ b.recent = a.recent
    BY <1>2, LookupFields
  <2>3. /\ c.triggers = b.triggers /\ c.operations = b.operations /\ c.refreshes = b.refreshes
        /\ c.routes = b.routes /\ c.recent = b.recent
    BY <1>3, FragmentFields
  <2>4. /\ d.operations = c.operations /\ d.refreshes = c.refreshes /\ d.routes = c.routes
        /\ d.recent = c.recent
    BY <1>4, TriggerFields
  <2>5. /\ f.triggers = d.triggers /\ f.refreshes = d.refreshes /\ f.routes = d.routes
        /\ f.recent = d.recent
    BY <1>5, OperationFields
  <2>6. /\ g.triggers = f.triggers /\ g.operations = f.operations /\ g.routes = f.routes
        /\ g.recent = f.recent
    BY <1>6, StageFields
  <2>7. /\ h.triggers = g.triggers /\ h.operations = g.operations /\ h.refreshes = g.refreshes
        /\ h.recent = g.recent
    BY <1>7, RouteFields
  <2>8. /\ new.triggers = h.triggers /\ new.operations = h.operations /\ new.refreshes = h.refreshes
        /\ new.routes = h.routes
    BY <1>8, RecentFields
  <2> QED
    BY <2>1, <2>2, <2>3, <2>4, <2>5, <2>6, <2>7, <2>8
<1>13. /\ c.fragmentHits = b.fragmentHits + (IF e.op = Pack THEN FragmentHits(e) ELSE 0)
       /\ c.fragmentMisses = b.fragmentMisses + (IF e.op = Pack THEN FragmentMisses(e) ELSE 0)
  BY <1>3, FragmentFields
<1>14. ASSUME NEW s \in Spaces
       PROVE  /\ new.spaces[s].hits = row.spaces[s].hits + e.fragments[s].hits
                     + (IF e.hit = "hit" /\ e.space = s THEN 1 ELSE 0)
              /\ new.spaces[s].misses = row.spaces[s].misses + e.fragments[s].misses
                     + (IF e.hit = "miss" /\ e.space = s THEN 1 ELSE 0)
  <2>1. /\ c.spaces[s].hits = b.spaces[s].hits + e.fragments[s].hits
        /\ c.spaces[s].misses = b.spaces[s].misses + e.fragments[s].misses
    BY <1>3, FragmentFields
  <2>2. /\ b.spaces[s].hits = a.spaces[s].hits + (IF e.hit = "hit" /\ e.space = s THEN 1 ELSE 0)
        /\ b.spaces[s].misses =
             a.spaces[s].misses + (IF e.hit = "miss" /\ e.space = s THEN 1 ELSE 0)
    BY <1>2, LookupFields
  <2>3. row.spaces[s].hits \in Nat /\ row.spaces[s].misses \in Nat
    BY DEF Row
  <2>4. e.fragments[s].hits \in Nat /\ e.fragments[s].misses \in Nat
    BY EventType
  <2> QED
    BY <1>11, <2>1, <2>2, <2>3, <2>4
<1>15. d.triggers.manual + d.triggers.auto =
         c.triggers.manual + c.triggers.auto + (IF e.op = Warmup THEN 1 ELSE 0)
  BY <1>4, TriggerFields
<1>16. f.operations = [d.operations EXCEPT ![e.op] = Updated(@, e)]
  BY <1>5, OperationFields
<1>17. /\ g.refreshes.n = f.refreshes.n + (IF e.op = Pack THEN 1 ELSE 0)
       /\ g.refreshes.total = f.refreshes.total + (IF e.op = Pack THEN e.refresh ELSE 0)
  BY <1>6, StageFields
<1>18. h.routes = (IF e.op = Pack THEN [g.routes EXCEPT ![e.route] = Updated(@, e)]
                   ELSE g.routes)
  BY <1>7, RouteFields
<1>19. new.recent = LastOf(Append(h.recent, e), RecentLimit)
  BY <1>8, RecentFields
<1> QED
  BY <1>9, <1>10, <1>11, <1>12, <1>13, <1>14, <1>15, <1>16, <1>17, <1>18, <1>19

-----------------------------------------------------------------------------
(* The list of events a row is made of, and what one more event adds to it.   *)

LEMMA ListGrows ==
    ASSUME NEW list \in Seq(Numbered), NEW x \in Numbered
    PROVE  LET new == Append(list, x)  n == Len(list) + 1 IN
           /\ new \in Seq(Numbered) /\ n \in Nat \ {0} /\ Len(new) = n /\ new[n] = x
           /\ DOMAIN new = DOMAIN list \cup {n} /\ DOMAIN list = 1 .. n - 1
           /\ IsFiniteSet(DOMAIN list)
           /\ \A k \in DOMAIN list : new[k] = list[k] /\ k \in Nat /\ k < n
           /\ \A k \in DOMAIN list : list[k] \in Numbered /\ list[k].event \in Events
<1>1. Len(list) \in Nat /\ DOMAIN list = 1 .. Len(list)
  OBVIOUS
<1>2. IsFiniteSet(1 .. Len(list))
  BY <1>1, FS_Interval
<1>3. \A k \in DOMAIN list : list[k] \in Numbered /\ list[k].event \in Events
  <2>1. \A k \in DOMAIN list : list[k] \in Numbered
    OBVIOUS
  <2> QED
    BY <2>1 DEF Numbered
<1>4. /\ Append(list, x) \in Seq(Numbered) /\ Len(Append(list, x)) = Len(list) + 1
      /\ Append(list, x)[Len(list) + 1] = x
      /\ \A k \in 1 .. Len(list) : Append(list, x)[k] = list[k]
  OBVIOUS
<1>5. DOMAIN Append(list, x) = 1 .. Len(list) + 1
  BY <1>4
<1>6. 1 .. Len(list) + 1 = (1 .. Len(list)) \cup {Len(list) + 1}
  BY <1>1
<1> QED
  BY <1>1, <1>2, <1>3, <1>4, <1>5, <1>6

\* An event adds its amount to the total of the places it is one of.
LEMMA TotalGrows ==
    ASSUME NEW list \in Seq(Numbered), NEW x \in Numbered, NEW P \in SUBSET DOMAIN list,
           NEW amount \in [Events -> Nat]
    PROVE  LET new == Append(list, x)  n == Len(list) + 1 IN
           /\ Total(list, P, amount) \in Nat
           /\ Total(new, P, amount) = Total(list, P, amount)
           /\ Total(new, P \cup {n}, amount) = Total(list, P, amount) + amount[x.event]
<1> DEFINE new == Append(list, x)
           n == Len(list) + 1
           d == [k \in P |-> amount[list[k].event]]
           f == [k \in P \cup {n} |-> amount[new[k].event]]
<1>1. /\ \A k \in P : new[k] = list[k] /\ list[k].event \in Events
      /\ n \notin P /\ IsFiniteSet(P) /\ new[n] = x /\ x.event \in Events
  <2>1. IsFiniteSet(DOMAIN list)
    BY ListGrows
  <2>2. IsFiniteSet(P)
    BY <2>1, FS_Subset
  <2>3. x.event \in Events
    BY DEF Numbered
  <2>4. \A k \in P : new[k] = list[k] /\ list[k].event \in Events /\ k < n /\ n \in Nat
    BY ListGrows
  <2>5. new[n] = x
    BY ListGrows
  <2> QED
    BY <2>2, <2>3, <2>4, <2>5
<1> HIDE DEF new, n
<1>2. /\ d \in [P -> Nat] /\ \A k \in P : d[k] = f[k]
      /\ NatOn(f, P \cup {n}) /\ DOMAIN f = P \cup {n} /\ DOMAIN d = P
  BY <1>1 DEF NatOn
<1>3. f[n] = amount[x.event]
  BY <1>1
<1>4. [k \in P |-> amount[new[k].event]] = d
  BY <1>1
<1>5. Total(list, P, amount) = Sum(d) /\ Total(new, P, amount) = Sum(d)
      /\ Total(new, P \cup {n}, amount) = Sum(f)
  BY <1>4 DEF Total
<1> HIDE DEF d, f
<1>6. Sum(d) \in Nat
  BY <1>1, <1>2, SumType
<1>7. Sum(f) = Sum(d) + f[n]
  BY <1>1, <1>2, SumGrows
<1> QED
  BY <1>3, <1>5, <1>6, <1>7 DEF new, n

\* The places of an operation's events, and their number.
LEMMA OfGrows ==
    ASSUME NEW list \in Seq(Numbered), NEW x \in Numbered, NEW o
    PROVE  LET new == Append(list, x)  n == Len(list) + 1 IN
           /\ Of(list, o) \in SUBSET DOMAIN list /\ IsFiniteSet(Of(list, o))
           /\ Cardinality(Of(list, o)) \in Nat /\ (Cardinality(Of(list, o)) = 0 <=> Of(list, o) = {})
           /\ n \notin Of(list, o)
           /\ x.event.op = o => /\ Of(new, o) = Of(list, o) \cup {n}
                                /\ Cardinality(Of(new, o)) = Cardinality(Of(list, o)) + 1
           /\ x.event.op # o => Of(new, o) = Of(list, o)
<1> DEFINE new == Append(list, x)
           n == Len(list) + 1
<1>1. /\ new[n] = x /\ DOMAIN new = DOMAIN list \cup {n} /\ IsFiniteSet(DOMAIN list)
      /\ \A k \in DOMAIN list : new[k] = list[k] /\ k \in Nat /\ k < n
  BY ListGrows
<1>2. n \notin DOMAIN list
  BY <1>1
<1>3. Of(list, o) \in SUBSET DOMAIN list
  BY DEF Of
<1>4. IsFiniteSet(Of(list, o))
  BY <1>1, <1>3, FS_Subset
<1> HIDE DEF new, n
<1>5. x.event.op = o => Of(new, o) = Of(list, o) \cup {n}
  BY <1>1, <1>2 DEF Of
<1>6. x.event.op # o => Of(new, o) = Of(list, o)
  BY <1>1, <1>2 DEF Of
<1>7. Cardinality(Of(list, o)) \in Nat /\ (Cardinality(Of(list, o)) = 0 <=> Of(list, o) = {})
  BY <1>4, FS_CardinalityType, FS_EmptySet
<1>8. Cardinality(Of(list, o) \cup {n}) = Cardinality(Of(list, o)) + 1
  BY <1>2, <1>3, <1>4, FS_AddElement
<1> QED
  BY <1>2, <1>3, <1>4, <1>5, <1>6, <1>7, <1>8 DEF new, n

LEMMA LookupsGrow ==
    ASSUME NEW list \in Seq(Numbered), NEW x \in Numbered, NEW s, NEW hit
    PROVE  LET new == Append(list, x) IN
           /\ Cardinality(Lookups(list, s, hit)) \in Nat
           /\ Cardinality(Lookups(new, s, hit)) = Cardinality(Lookups(list, s, hit))
                + (IF x.event.hit = hit /\ x.event.space = s THEN 1 ELSE 0)
<1> DEFINE new == Append(list, x)
           n == Len(list) + 1
           old == Lookups(list, s, hit)
<1>1. /\ new[n] = x /\ DOMAIN new = DOMAIN list \cup {n} /\ IsFiniteSet(DOMAIN list)
      /\ \A k \in DOMAIN list : new[k] = list[k] /\ k \in Nat /\ k < n
  BY ListGrows
<1>2. n \notin DOMAIN list
  BY <1>1
<1>3. old \in SUBSET DOMAIN list
  BY DEF Lookups
<1>4. IsFiniteSet(old) /\ Cardinality(old) \in Nat
  BY <1>1, <1>3, FS_Subset, FS_CardinalityType
<1> HIDE DEF new, n
<1>5. x.event.hit = hit /\ x.event.space = s => Lookups(new, s, hit) = old \cup {n}
  BY <1>1, <1>2 DEF Lookups
<1>6. ~ (x.event.hit = hit /\ x.event.space = s) => Lookups(new, s, hit) = old
  BY <1>1, <1>2 DEF Lookups
<1>7. Cardinality(old \cup {n}) = Cardinality(old) + 1
  BY <1>2, <1>3, <1>4, FS_AddElement
<1> HIDE DEF old
<1>8. Cardinality(Lookups(new, s, hit)) =
        Cardinality(old) + (IF x.event.hit = hit /\ x.event.space = s THEN 1 ELSE 0)
  <2>1. CASE x.event.hit = hit /\ x.event.space = s
    BY <1>5, <1>7, <2>1
  <2>2. CASE ~ (x.event.hit = hit /\ x.event.space = s)
    BY <1>4, <1>6, <2>2
  <2> QED
    BY <2>1, <2>2
<1> QED
  BY <1>4, <1>8 DEF new, old

\* What an operation's events amount to, and all events.
LEMMA TotalOfGrows ==
    ASSUME NEW list \in Seq(Numbered), NEW x \in Numbered, NEW o, NEW amount \in [Events -> Nat]
    PROVE  LET new == Append(list, x) IN
           /\ Total(list, Of(list, o), amount) \in Nat
           /\ Total(new, Of(new, o), amount) = Total(list, Of(list, o), amount)
                + (IF x.event.op = o THEN amount[x.event] ELSE 0)
           /\ Total(list, DOMAIN list, amount) \in Nat
           /\ Total(new, DOMAIN new, amount) =
                Total(list, DOMAIN list, amount) + amount[x.event]
<1> DEFINE new == Append(list, x)
           n == Len(list) + 1
<1>1. Of(list, o) \in SUBSET DOMAIN list /\ DOMAIN list \in SUBSET DOMAIN list
      /\ DOMAIN new = DOMAIN list \cup {n}
  BY OfGrows, ListGrows
<1>2. /\ Total(list, Of(list, o), amount) \in Nat
      /\ Total(new, Of(list, o), amount) = Total(list, Of(list, o), amount)
      /\ Total(new, Of(list, o) \cup {n}, amount) =
           Total(list, Of(list, o), amount) + amount[x.event]
  BY <1>1, TotalGrows
<1>3. /\ Total(list, DOMAIN list, amount) \in Nat
      /\ Total(new, DOMAIN list \cup {n}, amount) =
           Total(list, DOMAIN list, amount) + amount[x.event]
  BY <1>1, TotalGrows
<1>4. CASE x.event.op = o
  <2>1. Of(new, o) = Of(list, o) \cup {n}
    BY <1>4, OfGrows
  <2> HIDE DEF new, n
  <2> QED
    BY <1>1, <1>2, <1>3, <1>4, <2>1 DEF new
<1>5. CASE x.event.op # o
  <2>1. Of(new, o) = Of(list, o)
    BY <1>5, OfGrows
  <2> HIDE DEF new, n
  <2> QED
    BY <1>1, <1>2, <1>3, <1>5, <2>1 DEF new
<1> QED
  BY <1>4, <1>5

-----------------------------------------------------------------------------
(* The row is the summary of a list of events.                                *)

Recents(list, m) ==
    [k \in 1..Least(m, RecentLimit) |-> list[Most(0, m - RecentLimit) + k].event]
RecentAgrees(row, list) == row.recent = Recents(list, Len(list))

PacksAgree(row, list) ==
    /\ row.saved = Total(list, Of(list, Pack), Saved)
    /\ row.deferred = Total(list, Of(list, Pack), Deferred)
    /\ row.fragmentHits = Total(list, Of(list, Pack), Hits)
    /\ row.fragmentMisses = Total(list, Of(list, Pack), Misses)
    /\ row.refreshes.n = Cardinality(Of(list, Pack))
    /\ row.refreshes.total = Total(list, Of(list, Pack), Refresh)

\* The extremes bound every time and are times; the last one is at the greatest place.
Spans(stats, list, places) ==
    /\ places = {} => stats.most = 0
    /\ \A k \in places :
        stats.least <= list[k].event.elapsed /\ list[k].event.elapsed <= stats.most
    /\ places # {} =>
        /\ \E k \in places : list[k].event.elapsed = stats.least
        /\ \E k \in places : list[k].event.elapsed = stats.most
        /\ \E k \in places :
            list[k].event.elapsed = stats.last /\ \A j \in places : j <= k

OperationAgrees(row, list, o) ==
    /\ row.operations[o].n = Cardinality(Of(list, o))
    /\ row.operations[o].total = Total(list, Of(list, o), Elapsed)
    /\ Spans(row.operations[o], list, Of(list, o))

CountsAgree(row, list) ==
    /\ row.requests = Len(list)
    /\ row.triggers.manual + row.triggers.auto = Cardinality(Of(list, Warmup))
    /\ Sum([r \in Routes |-> row.routes[r].n]) = Cardinality(Of(list, Pack))

SpacesAgree(row, list) ==
    \A s \in Spaces :
        /\ row.spaces[s].hits = Cardinality(Lookups(list, s, "hit"))
               + Total(list, DOMAIN list, HitsOf(s))
        /\ row.spaces[s].misses = Cardinality(Lookups(list, s, "miss"))
               + Total(list, DOMAIN list, MissesOf(s))

Summarises(row, list) ==
    /\ row \in Row /\ list \in Seq(Numbered)
    /\ RecentAgrees(row, list) /\ PacksAgree(row, list)
    /\ \A o \in Operations : OperationAgrees(row, list, o)
    /\ CountsAgree(row, list) /\ SpacesAgree(row, list)

\* The recent events are the last ones of the list.
LEMMA RecentStep ==
    ASSUME NEW row \in Row, NEW list \in Seq(Numbered), NEW x \in Numbered,
           RecentAgrees(row, list)
    PROVE  RecentAgrees(Recorded(row, x.event), Append(list, x))
<1> DEFINE e == x.event
           L == Len(list)
           R == RecentLimit
           old == Append(row.recent, e)
           new == Append(list, x)
           N == Least(L, R)
           M == N + 1      \* with the event, what the row has
           K == L + 1      \* and the list
<1>1. /\ e \in Events /\ L \in Nat /\ R \in Nat \ {0} /\ N \in Nat
      /\ row.recent \in Seq(Events)
  <2>1. L \in Nat /\ R \in Nat \ {0}
    <3>1. R \in Nat \ {0}
      BY MetricsAssumption
    <3> QED
      BY <3>1
  <2>2. N \in Nat
    BY <2>1 DEF Least
  <2>3. e \in Events
    BY DEF Numbered
  <2>4. row.recent \in Seq(Events)
    BY DEF Row
  <2> QED
    BY <2>1, <2>2, <2>3, <2>4
<1>2. /\ Len(new) = L + 1 /\ new[L + 1] = x
      /\ \A k \in 1..L : new[k] = list[k]
  BY ListGrows
<1>3. row.recent = [k \in 1..N |-> list[Most(0, L - R) + k].event]
  BY DEF RecentAgrees, Recents
<1>4. Len(row.recent) = N
  BY <1>1, <1>3
<1>5. /\ old \in Seq(Events) /\ Len(old) = N + 1 /\ old[N + 1] = e
      /\ \A k \in 1..N : old[k] = list[Most(0, L - R) + k].event
  <2>1. /\ old \in Seq(Events) /\ Len(old) = N + 1 /\ old[N + 1] = e
        /\ \A k \in 1..N : old[k] = row.recent[k]
    BY <1>1, <1>4
  <2>2. \A k \in 1..N : row.recent[k] = list[Most(0, L - R) + k].event
    BY <1>3
  <2> QED
    BY <2>1, <2>2
<1>6. Recorded(row, e).recent =
        [k \in 1..Least(M, R) |-> old[Most(0, M - R) + k]]
  <2>1. Recorded(row, e).recent = LastOf(old, R)
    BY <1>1, RecordedFields
  <2> HIDE DEF old, N
  <2>2. LastOf(old, R) = Lasts(old, M, R)
    <3>1. LastOf(old, R) = Lasts(old, Len(old), R)
      BY <1>1, <1>5, LastOfPlaces
    <3>2. Len(old) = M
      BY <1>5
    <3> HIDE DEF M
    <3> QED
      BY <3>1, <3>2
  <2> HIDE DEF M
  <2> QED
    BY <2>1, <2>2 DEF Lasts
<1> HIDE DEF old, new, e, L, R, M, K
<1>7. Least(M, R) = Least(K, R)
  BY <1>1 DEF Least, M, K
<1>8. ASSUME NEW k \in 1..Least(K, R)
      PROVE  old[Most(0, M - R) + k] = new[Most(0, K - R) + k].event
  <2>1. CASE L < R
    <3>1. /\ N = L /\ Most(0, M - R) = 0 /\ Most(0, K - R) = 0 /\ Most(0, L - R) = 0
          /\ k \in 1..K
      BY <1>1, <2>1 DEF Least, Most, M, K
    <3>2. CASE k = K
      BY <1>1, <1>2, <1>5, <3>1, <3>2 DEF e, M, K
    <3>3. CASE k \in 1..L
      BY <1>1, <1>2, <1>5, <3>1, <3>3 DEF M, K
    <3> HIDE DEF N
    <3> QED
      BY <1>1, <3>1, <3>2, <3>3 DEF K
  <2>2. CASE L >= R
    <3>1. /\ N = R /\ Most(0, M - R) = 1 /\ Most(0, K - R) = K - R
          /\ Most(0, L - R) = L - R /\ k \in 1..R
      BY <1>1, <2>2 DEF Least, Most, M, K
    <3> HIDE DEF N
    <3>2. CASE k = R
      <4>1. Most(0, M - R) + k = M /\ Most(0, K - R) + k = K
        BY <1>1, <3>1, <3>2 DEF M, K
      <4> QED
        BY <1>2, <1>5, <4>1 DEF e, M, K
    <3>3. CASE k \in 1..R - 1
      <4>1. /\ Most(0, M - R) + k = k + 1 /\ k + 1 \in 1..N
            /\ Most(0, K - R) + k = (L - R) + (k + 1) /\ (L - R) + (k + 1) \in 1..L
        <5>1. k \in Nat /\ k >= 1 /\ k + 1 <= R
          BY <1>1, <3>3
        <5>2. Most(0, M - R) = 1 /\ Most(0, K - R) = L + 1 - R /\ N = R
          <6>1. Most(0, M - R) = 1 /\ N = R /\ Most(0, K - R) = K - R
            BY <3>1
          <6>2. K = L + 1
            BY DEF K
          <6> QED
            BY <1>1, <6>1, <6>2
        <5>3. Most(0, M - R) + k = k + 1 /\ k + 1 \in 1..N
          BY <1>1, <5>1, <5>2
        <5>4. L + 1 - R + k = (L - R) + (k + 1) /\ (L - R) + (k + 1) \in 1..L
          BY <1>1, <2>2, <5>1
        <5> QED
          BY <5>2, <5>3, <5>4
      <4>2. old[k + 1] = list[(L - R) + (k + 1)].event
        BY <1>5, <3>1, <4>1
      <4>3. new[(L - R) + (k + 1)] = list[(L - R) + (k + 1)]
        BY <1>2, <4>1
      <4> QED
        BY <4>1, <4>2, <4>3
    <3> QED
      BY <1>1, <3>1, <3>2, <3>3 DEF K
  <2> QED
    BY <1>1, <2>1, <2>2
<1>9. Recorded(row, e).recent = [k \in 1..Least(K, R) |-> new[Most(0, K - R) + k].event]
  BY <1>6, <1>7, <1>8
<1>10. RecentAgrees(Recorded(row, e), new)
  <2>1. Recorded(row, e).recent = Recents(new, K)
    BY <1>9 DEF Recents, R
  <2>2. Len(new) = K
    BY <1>2 DEF K
  <2> QED
    BY <2>1, <2>2 DEF RecentAgrees
<1> QED
  BY <1>10 DEF new, e

\* The amounts of events are natural numbers.
LEMMA AmountTypes ==
    /\ Elapsed \in [Events -> Nat] /\ Refresh \in [Events -> Nat] /\ Saved \in [Events -> Nat]
    /\ Deferred \in [Events -> Nat] /\ Hits \in [Events -> Nat] /\ Misses \in [Events -> Nat]
    /\ \A s \in Spaces : HitsOf(s) \in [Events -> Nat] /\ MissesOf(s) \in [Events -> Nat]
<1>1. \A e \in Events : e.elapsed \in Nat /\ e.refresh \in Nat /\ e.saved \in Nat /\ e.deferred \in Nat
  BY EventType
<1>2. \A e \in Events : FragmentHits(e) \in Nat /\ FragmentMisses(e) \in Nat
  BY FragmentType
<1>3. \A e \in Events, s \in Spaces : e.fragments[s].hits \in Nat /\ e.fragments[s].misses \in Nat
  BY EventType
<1> QED
  BY <1>1, <1>2, <1>3 DEF Elapsed, Refresh, Saved, Deferred, Hits, Misses, HitsOf, MissesOf

\* The totals of the packs.
LEMMA PacksStep ==
    ASSUME NEW row \in Row, NEW list \in Seq(Numbered), NEW x \in Numbered,
           PacksAgree(row, list)
    PROVE  PacksAgree(Recorded(row, x.event), Append(list, x))
<1> DEFINE e == x.event
           now == Recorded(row, e)
           new == Append(list, x)
           InTotal(amount) == Total(list, Of(list, Pack), amount)
           NewTotal(amount) == Total(new, Of(new, Pack), amount)
<1>1. e \in Events
  BY DEF Numbered
<1>2. /\ Saved[e] = e.saved /\ Deferred[e] = e.deferred /\ Refresh[e] = e.refresh
      /\ Hits[e] = FragmentHits(e) /\ Misses[e] = FragmentMisses(e)
  BY <1>1 DEF Saved, Deferred, Refresh, Hits, Misses
<1>3. \A amount \in [Events -> Nat] :
        /\ InTotal(amount) \in Nat
        /\ NewTotal(amount) = InTotal(amount) + (IF e.op = Pack THEN amount[e] ELSE 0)
  BY TotalOfGrows
<1>4. Cardinality(Of(new, Pack)) = Cardinality(Of(list, Pack)) + (IF e.op = Pack THEN 1 ELSE 0)
  <2>1. /\ Cardinality(Of(list, Pack)) \in Nat
        /\ e.op = Pack => Cardinality(Of(new, Pack)) = Cardinality(Of(list, Pack)) + 1
        /\ e.op # Pack => Of(new, Pack) = Of(list, Pack)
    BY OfGrows
  <2> HIDE DEF new, e
  <2> QED
    BY <2>1
<1>5. e.op # Pack => e.saved = 0 /\ e.deferred = 0
  BY <1>1, CallersAssumption
<1>6. e.saved \in Nat /\ e.deferred \in Nat
  BY <1>1, EventType
<1>7. /\ now.saved = row.saved + e.saved /\ now.deferred = row.deferred + e.deferred
      /\ now.fragmentHits = row.fragmentHits + (IF e.op = Pack THEN FragmentHits(e) ELSE 0)
      /\ now.fragmentMisses = row.fragmentMisses + (IF e.op = Pack THEN FragmentMisses(e) ELSE 0)
      /\ now.refreshes.n = row.refreshes.n + (IF e.op = Pack THEN 1 ELSE 0)
      /\ now.refreshes.total = row.refreshes.total + (IF e.op = Pack THEN e.refresh ELSE 0)
  <2> HIDE DEF e
  <2> QED
    BY <1>1, RecordedFields
<1>8. /\ row.saved = InTotal(Saved) /\ row.deferred = InTotal(Deferred)
      /\ row.fragmentHits = InTotal(Hits) /\ row.fragmentMisses = InTotal(Misses)
      /\ row.refreshes.n = Cardinality(Of(list, Pack)) /\ row.refreshes.total = InTotal(Refresh)
  BY DEF PacksAgree
<1> HIDE DEF e, now, InTotal, NewTotal, new
<1>9. now.saved = NewTotal(Saved)
  <2>1. NewTotal(Saved) = InTotal(Saved) + (IF e.op = Pack THEN e.saved ELSE 0)
    BY <1>2, <1>3, AmountTypes
  <2> QED
    BY <1>5, <1>7, <1>8, <2>1
<1>10. now.deferred = NewTotal(Deferred)
  <2>1. NewTotal(Deferred) = InTotal(Deferred) + (IF e.op = Pack THEN e.deferred ELSE 0)
    BY <1>2, <1>3, AmountTypes
  <2> QED
    BY <1>5, <1>7, <1>8, <2>1
<1>11. /\ now.fragmentHits = NewTotal(Hits) /\ now.fragmentMisses = NewTotal(Misses)
       /\ now.refreshes.total = NewTotal(Refresh)
  BY <1>2, <1>3, <1>7, <1>8, AmountTypes
<1>12. now.refreshes.n = Cardinality(Of(new, Pack))
  BY <1>4, <1>7, <1>8
<1> QED
  BY <1>9, <1>10, <1>11, <1>12 DEF PacksAgree, new, now, e, NewTotal

\* The extremes and the last value take in one more time.
LEMMA SpansGrow ==
    ASSUME NEW list \in Seq(Numbered), NEW x \in Numbered, NEW P \in SUBSET DOMAIN list,
           NEW stats \in Stats, stats.n = 0 <=> P = {}, Spans(stats, list, P)
    PROVE  /\ Spans(stats, Append(list, x), P)
           /\ Spans(Updated(stats, x.event), Append(list, x), P \cup {Len(list) + 1})
<1> DEFINE new == Append(list, x)
           n == Len(list) + 1
           now == Updated(stats, x.event)
           ms == x.event.elapsed
<1>1. /\ n \in Nat /\ new[n] = x
      /\ \A k \in P : new[k] = list[k] /\ k \in Nat /\ k < n /\ list[k].event \in Events
  BY ListGrows
<1>2. x.event \in Events
  BY DEF Numbered
<1>3. /\ ms \in Nat /\ stats.least \in Nat /\ stats.most \in Nat
      /\ \A k \in P : list[k].event.elapsed \in Nat
  BY <1>1, <1>2, EventType DEF Stats
<1>4. /\ now.least = (IF stats.n = 0 THEN ms ELSE Least(stats.least, ms))
      /\ now.most = Most(stats.most, ms) /\ now.last = ms
  BY <1>2, StatsFields
<1> HIDE DEF new, now, n
<1>5. Spans(stats, new, P)
  BY <1>1 DEF Spans
<1>6. new[n].event.elapsed = ms
  BY <1>1
<1> HIDE DEF ms
<1>7. \A k \in P \cup {n} :
        now.least <= new[k].event.elapsed /\ new[k].event.elapsed <= now.most
  <2>1. CASE P = {}
    BY <1>3, <1>4, <1>6, <2>1 DEF Most
  <2>2. CASE P # {}
    <3>1. stats.n # 0 /\ now.least = Least(stats.least, ms)
      BY <1>4, <2>2
    <3>2. /\ now.least <= ms /\ ms <= now.most
          /\ \A v \in Nat : stats.least <= v /\ v <= stats.most => now.least <= v /\ v <= now.most
      BY <1>3, <1>4, <3>1 DEF Least, Most
    <3>3. \A k \in P : /\ new[k].event.elapsed \in Nat
                       /\ stats.least <= new[k].event.elapsed
                       /\ new[k].event.elapsed <= stats.most
      BY <1>1, <1>3, <1>5 DEF Spans
    <3> QED
      BY <1>6, <3>2, <3>3
  <2> QED
    BY <2>1, <2>2
<1>8. \E k \in P \cup {n} : new[k].event.elapsed = now.least
  <2>1. CASE P = {} \/ now.least = ms
    BY <1>4, <1>6, <2>1
  <2>2. CASE P # {} /\ now.least # ms
    <3>1. now.least = stats.least
      BY <1>4, <2>2 DEF Least
    <3> QED
      BY <1>5, <2>2, <3>1 DEF Spans
  <2> QED
    BY <2>1, <2>2
<1>9. \E k \in P \cup {n} : new[k].event.elapsed = now.most
  <2>1. CASE now.most = ms
    BY <1>6, <2>1
  <2>2. CASE now.most # ms
    <3>1. now.most = stats.most
      BY <1>4, <2>2 DEF Most
    <3>2. P # {}
      <4>1. P = {} => stats.most = 0 /\ now.most = ms
        BY <1>3, <1>4, <1>5 DEF Spans, Most
      <4> QED
        BY <2>2, <4>1
    <3> QED
      BY <1>5, <3>1, <3>2 DEF Spans
  <2> QED
    BY <2>1, <2>2
<1>10. \E k \in P \cup {n} : new[k].event.elapsed = now.last /\ \A j \in P \cup {n} : j <= k
  BY <1>1, <1>4, <1>6
<1>11. Spans(now, new, P \cup {n})
  BY <1>7, <1>8, <1>9, <1>10 DEF Spans
<1> QED
  BY <1>5, <1>11 DEF new, now, n

\* The statistics of every operation.
LEMMA OperationStep ==
    ASSUME NEW row \in Row, NEW list \in Seq(Numbered), NEW x \in Numbered,
           NEW o \in Operations, OperationAgrees(row, list, o)
    PROVE  OperationAgrees(Recorded(row, x.event), Append(list, x), o)
<1> DEFINE new == Append(list, x)
           e == x.event
           P == Of(list, o)
           old == row.operations[o]
           now == Recorded(row, e).operations[o]
<1>1. e \in Events /\ e.op \in Operations
  BY EventType DEF Numbered
<1>2. old \in Stats /\ row.operations \in [Operations -> Stats]
  BY DEF Row
<1>3. now = IF e.op = o THEN Updated(old, e) ELSE old
  <2>1. Recorded(row, e).operations = [row.operations EXCEPT ![e.op] = Updated(@, e)]
    <3> HIDE DEF e
    <3> QED
      BY <1>1, RecordedFields
  <2> HIDE DEF e
  <2> QED
    BY <1>1, <1>2, <2>1
<1>4. /\ P \in SUBSET DOMAIN list /\ Cardinality(P) \in Nat /\ (Cardinality(P) = 0 <=> P = {})
      /\ e.op = o => /\ Of(new, o) = P \cup {Len(list) + 1}
                     /\ Cardinality(Of(new, o)) = Cardinality(P) + 1
      /\ e.op # o => Of(new, o) = P
  BY OfGrows
<1>5. /\ Total(new, Of(new, o), Elapsed) =
           Total(list, P, Elapsed) + (IF e.op = o THEN e.elapsed ELSE 0)
      /\ Total(list, P, Elapsed) \in Nat
  <2>1. Elapsed[e] = e.elapsed
    BY <1>1 DEF Elapsed
  <2>2. Elapsed \in [Events -> Nat]
    BY AmountTypes
  <2>3. /\ Total(new, Of(new, o), Elapsed) =
             Total(list, P, Elapsed) + (IF e.op = o THEN Elapsed[e] ELSE 0)
        /\ Total(list, P, Elapsed) \in Nat
    BY <2>2, TotalOfGrows
  <2> HIDE DEF e, new, P
  <2> QED
    BY <2>1, <2>3
<1>6. old.n = Cardinality(P) /\ old.total = Total(list, P, Elapsed) /\ Spans(old, list, P)
  BY DEF OperationAgrees
<1>7. Spans(old, new, P) /\ Spans(Updated(old, e), new, P \cup {Len(list) + 1})
  <2> HIDE DEF old, P
  <2> QED
    BY <1>2, <1>4, <1>6, SpansGrow
<1>8. Updated(old, e).n = old.n + 1 /\ Updated(old, e).total = old.total + e.elapsed
  BY <1>1, <1>2, StatsFields
<1> HIDE DEF new, e, P, old, now
<1>9. now.n = Cardinality(Of(new, o)) /\ now.total = Total(new, Of(new, o), Elapsed)
      /\ Spans(now, new, Of(new, o))
  <2>1. CASE e.op = o
    BY <1>3, <1>4, <1>5, <1>6, <1>7, <1>8, <2>1
  <2>2. CASE e.op # o
    BY <1>3, <1>4, <1>5, <1>6, <1>7, <2>2
  <2> QED
    BY <2>1, <2>2
<1> QED
  BY <1>9 DEF OperationAgrees, new, e, now

\* The requests, the warm-ups by trigger and the packs by route.
LEMMA CountsStep ==
    ASSUME NEW row \in Row, NEW list \in Seq(Numbered), NEW x \in Numbered,
           CountsAgree(row, list)
    PROVE  CountsAgree(Recorded(row, x.event), Append(list, x))
<1> DEFINE new == Append(list, x)
           e == x.event
           now == Recorded(row, e)
           f == [r \in Routes |-> row.routes[r].n]
           d == [r \in Routes |-> now.routes[r].n]
<1>1. e \in Events /\ row.routes \in [Routes -> Stats]
  BY DEF Numbered, Row
<1>2. \A o : Cardinality(Of(new, o)) = Cardinality(Of(list, o)) + (IF e.op = o THEN 1 ELSE 0)
  <2>1. \A o : /\ Cardinality(Of(list, o)) \in Nat
               /\ e.op = o => Cardinality(Of(new, o)) = Cardinality(Of(list, o)) + 1
               /\ e.op # o => Of(new, o) = Of(list, o)
    BY OfGrows
  <2> HIDE DEF new, e
  <2> QED
    BY <2>1
<1>3. Len(new) = Len(list) + 1
  BY ListGrows
<1>4. /\ now.requests = row.requests + 1
      /\ now.triggers.manual + now.triggers.auto =
           row.triggers.manual + row.triggers.auto + (IF e.op = Warmup THEN 1 ELSE 0)
      /\ now.routes = (IF e.op = Pack THEN [row.routes EXCEPT ![e.route] = Updated(@, e)]
                       ELSE row.routes)
  <2> HIDE DEF e
  <2> QED
    BY <1>1, RecordedFields
<1>5. /\ row.requests = Len(list)
      /\ row.triggers.manual + row.triggers.auto = Cardinality(Of(list, Warmup))
      /\ Sum(f) = Cardinality(Of(list, Pack))
  BY DEF CountsAgree
<1>6. IsFiniteSet(Routes) /\ f \in [Routes -> Nat]
  BY <1>1, FiniteAssumption DEF Stats
<1>7. CASE e.op = Pack
  <2>1. e.route \in Routes
    BY <1>1, <1>7, EventType, CallersAssumption
  <2>2. Updated(row.routes[e.route], e) \in Stats /\ row.routes[e.route] \in Stats
        /\ Updated(row.routes[e.route], e).n = row.routes[e.route].n + 1
    BY <1>1, <2>1, StatsFields
  <2>3. PICK z \in Stats : z = Updated(row.routes[e.route], e)
    BY <2>2
  <2>4. now.routes = [row.routes EXCEPT ![e.route] = z]
    BY <1>4, <1>7, <2>3
  <2> HIDE DEF now, e
  <2>5. d \in [Routes -> Nat] /\ \A r \in Routes : r # e.route => d[r] = f[r]
    BY <1>1, <2>1, <2>4 DEF Stats
  <2>6. d[e.route] = f[e.route] + 1 /\ f[e.route] \in Nat
    BY <1>1, <2>1, <2>2, <2>3, <2>4 DEF Stats
  <2> HIDE DEF d, f
  <2>7. Sum(f) + d[e.route] = Sum(d) + f[e.route]
    BY <1>6, <2>1, <2>5, SumChanges
  <2>8. Sum(f) \in Nat /\ Sum(d) \in Nat
    BY <1>6, <2>5, SumType
  <2>9. Sum(d) = Sum(f) + 1
    BY <2>6, <2>7, <2>8
  <2> HIDE DEF new
  <2> QED
    BY <1>2, <1>3, <1>4, <1>5, <1>7, <2>9 DEF CountsAgree, d, new, e, now
<1>8. CASE e.op # Pack
  <2>1. d = f
    BY <1>4, <1>8
  <2>2. Cardinality(Of(new, Pack)) = Cardinality(Of(list, Pack))
    <3>1. Cardinality(Of(list, Pack)) \in Nat
      BY OfGrows
    <3> HIDE DEF new, e
    <3> QED
      BY <1>2, <1>8, <3>1
  <2> HIDE DEF f, d
  <2>3. Sum(d) = Cardinality(Of(new, Pack))
    BY <1>5, <2>1, <2>2
  <2> HIDE DEF new, e, now
  <2>4. /\ now.requests = Len(new)
        /\ now.triggers.manual + now.triggers.auto = Cardinality(Of(new, Warmup))
    BY <1>2, <1>3, <1>4, <1>5
  <2> QED
    BY <2>3, <2>4 DEF CountsAgree, d, new, e, now
<1> QED
  BY <1>7, <1>8

\* The lookups and the fragments of every cache namespace.
LEMMA SpacesStep ==
    ASSUME NEW row \in Row, NEW list \in Seq(Numbered), NEW x \in Numbered,
           SpacesAgree(row, list)
    PROVE  SpacesAgree(Recorded(row, x.event), Append(list, x))
<1> DEFINE new == Append(list, x)
           e == x.event
           now == Recorded(row, e)
<1>1. e \in Events
  BY DEF Numbered
<1>2. \A s \in Spaces :
        /\ now.spaces[s].hits = row.spaces[s].hits + e.fragments[s].hits
               + (IF e.hit = "hit" /\ e.space = s THEN 1 ELSE 0)
        /\ now.spaces[s].misses = row.spaces[s].misses + e.fragments[s].misses
               + (IF e.hit = "miss" /\ e.space = s THEN 1 ELSE 0)
  <2> HIDE DEF e
  <2> QED
    BY <1>1, RecordedFields
<1>3. \A s \in Spaces : e.fragments[s].hits \in Nat /\ e.fragments[s].misses \in Nat
  BY <1>1, EventType
<1>4. \A s, hit : /\ Cardinality(Lookups(list, s, hit)) \in Nat
                  /\ Cardinality(Lookups(new, s, hit)) = Cardinality(Lookups(list, s, hit))
                       + (IF e.hit = hit /\ e.space = s THEN 1 ELSE 0)
  BY LookupsGrow
<1>5. \A amount \in [Events -> Nat] :
        /\ Total(list, DOMAIN list, amount) \in Nat
        /\ Total(new, DOMAIN new, amount) = Total(list, DOMAIN list, amount) + amount[e]
  BY TotalOfGrows
<1>6. \A s \in Spaces : HitsOf(s)[e] = e.fragments[s].hits /\ MissesOf(s)[e] = e.fragments[s].misses
  BY <1>1 DEF HitsOf, MissesOf
<1> HIDE DEF new, e, now
<1>7. ASSUME NEW s \in Spaces
      PROVE  /\ now.spaces[s].hits = Cardinality(Lookups(new, s, "hit"))
                    + Total(new, DOMAIN new, HitsOf(s))
             /\ now.spaces[s].misses = Cardinality(Lookups(new, s, "miss"))
                    + Total(new, DOMAIN new, MissesOf(s))
  <2>1. /\ row.spaces[s].hits = Cardinality(Lookups(list, s, "hit"))
               + Total(list, DOMAIN list, HitsOf(s))
        /\ row.spaces[s].misses = Cardinality(Lookups(list, s, "miss"))
               + Total(list, DOMAIN list, MissesOf(s))
    BY DEF SpacesAgree
  <2>2. HitsOf(s) \in [Events -> Nat] /\ MissesOf(s) \in [Events -> Nat]
    BY AmountTypes
  <2>3. /\ Total(list, DOMAIN list, HitsOf(s)) \in Nat
        /\ Total(new, DOMAIN new, HitsOf(s)) =
             Total(list, DOMAIN list, HitsOf(s)) + e.fragments[s].hits
        /\ Total(list, DOMAIN list, MissesOf(s)) \in Nat
        /\ Total(new, DOMAIN new, MissesOf(s)) =
             Total(list, DOMAIN list, MissesOf(s)) + e.fragments[s].misses
    BY <1>5, <1>6, <2>2
  <2>4. /\ Cardinality(Lookups(list, s, "hit")) \in Nat
        /\ Cardinality(Lookups(new, s, "hit")) = Cardinality(Lookups(list, s, "hit"))
             + (IF e.hit = "hit" /\ e.space = s THEN 1 ELSE 0)
        /\ Cardinality(Lookups(list, s, "miss")) \in Nat
        /\ Cardinality(Lookups(new, s, "miss")) = Cardinality(Lookups(list, s, "miss"))
             + (IF e.hit = "miss" /\ e.space = s THEN 1 ELSE 0)
    BY <1>4
  <2>5. now.spaces[s].hits = Cardinality(Lookups(new, s, "hit"))
          + Total(new, DOMAIN new, HitsOf(s))
    BY <1>2, <1>3, <2>1, <2>3, <2>4
  <2>6. now.spaces[s].misses = Cardinality(Lookups(new, s, "miss"))
          + Total(new, DOMAIN new, MissesOf(s))
    BY <1>2, <1>3, <2>1, <2>3, <2>4
  <2> QED
    BY <2>5, <2>6
<1> QED
  BY <1>7 DEF SpacesAgree, new, e, now

\* A row that summarises a list summarises it with one more event once it is recorded.
LEMMA SummaryStep ==
    ASSUME NEW row, NEW list, Summarises(row, list), NEW x \in Numbered
    PROVE  Summarises(Recorded(row, x.event), Append(list, x))
<1>1. row \in Row /\ list \in Seq(Numbered) /\ x.event \in Events
  BY DEF Summarises, Numbered
<1>2. Recorded(row, x.event) \in Row /\ Append(list, x) \in Seq(Numbered)
  <2>1. Recorded(row, x.event) \in Row
    BY <1>1, RecordedFields
  <2>2. Append(list, x) \in Seq(Numbered)
    BY <1>1
  <2> QED
    BY <2>1, <2>2
<1>3. RecentAgrees(Recorded(row, x.event), Append(list, x))
  BY <1>1, RecentStep DEF Summarises
<1>4. PacksAgree(Recorded(row, x.event), Append(list, x))
  BY <1>1, PacksStep DEF Summarises
<1>5. \A o \in Operations : OperationAgrees(Recorded(row, x.event), Append(list, x), o)
  BY <1>1, OperationStep DEF Summarises
<1>6. CountsAgree(Recorded(row, x.event), Append(list, x))
  BY <1>1, CountsStep DEF Summarises
<1>7. SpacesAgree(Recorded(row, x.event), Append(list, x))
  BY <1>1, SpacesStep DEF Summarises
<1> QED
  BY <1>2, <1>3, <1>4, <1>5, <1>6, <1>7 DEF Summarises

\* The row of a new project summarises no event.
LEMMA EmptySummary == Summarises(Empty, <<>>)
<1> DEFINE none == <<>>
<1>1. /\ Empty \in Row /\ none \in Seq(Numbered) /\ Len(none) = 0 /\ DOMAIN none = {}
      /\ \A o : Of(none, o) = {}
      /\ \A s, hit : Lookups(none, s, hit) = {}
  BY DEF Empty, Row, NoStats, Stats, Of, Lookups
<1>2. Cardinality({}) = 0
  BY FS_EmptySet
<1>3. \A amount : Total(none, {}, amount) = 0
  <2> SUFFICES ASSUME NEW amount PROVE Total(none, {}, amount) = 0
    OBVIOUS
  <2> DEFINE f == [k \in {} |-> amount[none[k].event]]
  <2>1. f \in [{} -> {0}] /\ IsFiniteSet({})
    BY FS_EmptySet
  <2>2. Total(none, {}, amount) = Sum(f)
    BY DEF Total
  <2> HIDE DEF f
  <2> QED
    BY <2>1, <2>2, SumOfZeros
<1>4. RecentAgrees(Empty, none)
  <2>1. Least(0, RecentLimit) = 0
    <3>1. RecentLimit \in Nat
      BY MetricsAssumption
    <3> QED
      BY <3>1 DEF Least
  <2>2. 1..0 = {}
    OBVIOUS
  <2>3. Recents(none, 0) = <<>>
    BY <2>1, <2>2 DEF Recents
  <2>4. Empty.recent = <<>>
    BY DEF Empty
  <2> QED
    BY <1>1, <2>3, <2>4 DEF RecentAgrees
<1> HIDE DEF none
<1>5. PacksAgree(Empty, none)
  BY <1>1, <1>2, <1>3 DEF PacksAgree, Empty, NoStats
<1>6. \A o \in Operations : OperationAgrees(Empty, none, o)
  BY <1>1, <1>2, <1>3 DEF OperationAgrees, Spans, Empty, NoStats
<1>7. CountsAgree(Empty, none)
  <2> DEFINE f == [r \in Routes |-> Empty.routes[r].n]
  <2>1. f \in [Routes -> {0}]
    BY DEF Empty, NoStats
  <2> HIDE DEF f
  <2>2. Sum(f) = 0
    BY <2>1, FiniteAssumption, SumOfZeros
  <2>3. Empty.requests = 0 /\ Empty.triggers.manual + Empty.triggers.auto = 0
    BY DEF Empty
  <2> QED
    BY <1>1, <1>2, <2>2, <2>3 DEF CountsAgree, f
<1>8. SpacesAgree(Empty, none)
  <2> SUFFICES ASSUME NEW s \in Spaces
               PROVE  /\ Empty.spaces[s].hits = Cardinality(Lookups(none, s, "hit"))
                             + Total(none, DOMAIN none, HitsOf(s))
                      /\ Empty.spaces[s].misses = Cardinality(Lookups(none, s, "miss"))
                             + Total(none, DOMAIN none, MissesOf(s))
    BY DEF SpacesAgree
  <2>1. Empty.spaces[s].hits = 0 /\ Empty.spaces[s].misses = 0
    BY DEF Empty
  <2>2. /\ Cardinality(Lookups(none, s, "hit")) = 0 /\ Cardinality(Lookups(none, s, "miss")) = 0
        /\ Total(none, DOMAIN none, HitsOf(s)) = 0 /\ Total(none, DOMAIN none, MissesOf(s)) = 0
    BY <1>1, <1>2, <1>3
  <2> QED
    BY <2>1, <2>2
<1> QED
  BY <1>1, <1>4, <1>5, <1>6, <1>7, <1>8 DEF Summarises, none

-----------------------------------------------------------------------------
(* The inductive invariant.  The row of the store and the copy of every       *)
(* request at work each summarise their own list of events: the copies are    *)
(* where the overlap is, so the invariant has to speak of them.               *)

Busy == [pc : {"save"}, event : Events, number : 1..MaxEvents, copy : Row,
         from : Seq(Numbered), seen : Nat]

Holds(list, number) == \E k \in DOMAIN list : list[k].number = number
Covers(list, all, n, lost) == \A i \in 1..n : all[i] \in lost \/ Holds(list, all[i])
UpTo(list, n) == \A k \in DOMAIN list : list[k].number <= n
Distinct(list) == \A k, l \in DOMAIN list : list[k].number = list[l].number => k = l

StoreInv ==
    /\ count \in 0..MaxEvents
    /\ saves \in Seq(1..MaxEvents)
    /\ missed \subseteq 1..MaxEvents
    /\ Summarises(metrics, log)
    /\ Distinct(log) /\ UpTo(log, count) /\ Covers(log, saves, Len(saves), missed)

CopyInv(t, n, all, lost) ==
    /\ t.number <= n /\ t.seen <= Len(all)
    /\ Summarises(t.copy, t.from)
    /\ Distinct(t.from) /\ UpTo(t.from, t.number - 1) /\ Covers(t.from, all, t.seen, lost)

TaskInv ==
    /\ task \in [Recorders -> {Idle} \cup Busy]
    /\ \A r \in Recorders : task[r] # Idle => CopyInv(task[r], count, saves, missed)

IInv == StoreInv /\ TaskInv

LEMMA MetricsInit == ASSUME Init PROVE IInv
<1>1. Summarises(metrics, log)
  BY EmptySummary DEF Init
<1>2. MaxEvents \in Nat
  BY MetricsAssumption
<1>3. Len(saves) = 0 /\ saves \in Seq(1..MaxEvents) /\ DOMAIN log = {}
  BY DEF Init
<1>4. StoreInv
  BY <1>1, <1>2, <1>3 DEF Init, StoreInv, Distinct, UpTo, Covers
<1>5. TaskInv
  BY DEF Init, TaskInv
<1> QED
  BY <1>4, <1>5 DEF IInv

\* Loading copies the row with the list it summarises.
LEMMA LoadStep == ASSUME IInv, NEW r \in Recorders, Load(r) PROVE IInv'
<1>1. /\ count \in 0..MaxEvents /\ count < MaxEvents /\ count' = count + 1 /\ MaxEvents \in Nat
      /\ metrics' = metrics /\ log' = log /\ saves' = saves /\ missed' = missed
  BY MetricsAssumption DEF IInv, StoreInv, Load
<1>2. PICK e \in Events :
        task' = [task EXCEPT ![r] = [pc |-> "save", event |-> e, number |-> count + 1,
                                     copy |-> metrics, from |-> log, seen |-> Len(saves)]]
  BY DEF Load, Loaded
<1> DEFINE t == [pc |-> "save", event |-> e, number |-> count + 1,
                 copy |-> metrics, from |-> log, seen |-> Len(saves)]
<1>3. /\ Summarises(metrics, log) /\ Distinct(log) /\ UpTo(log, count) /\ Covers(log, saves, Len(saves), missed)
      /\ saves \in Seq(1..MaxEvents) /\ missed \subseteq 1..MaxEvents
  BY DEF IInv, StoreInv
<1>4. metrics \in Row /\ log \in Seq(Numbered) /\ Len(saves) \in Nat
  BY <1>3 DEF Summarises
<1>5. \A k \in DOMAIN log : log[k].number \in 1..MaxEvents
  <2>1. \A k \in DOMAIN log : log[k] \in Numbered
    BY <1>4
  <2> QED
    BY <2>1 DEF Numbered
<1>6. UpTo(log, count + 1)
  BY <1>1, <1>3, <1>5 DEF UpTo
<1>7. StoreInv'
  BY <1>1, <1>3, <1>6 DEF StoreInv
<1>8. t \in Busy
  BY <1>1, <1>4 DEF Busy
<1>9. task \in [Recorders -> {Idle} \cup Busy] /\ \A q \in Recorders : task[q] # Idle => CopyInv(task[q], count, saves, missed)
  BY DEF IInv, TaskInv
<1>10. task' \in [Recorders -> {Idle} \cup Busy]
  BY <1>2, <1>8, <1>9
<1>11. CopyInv(t, count', saves', missed')
  <2>1. count + 1 - 1 = count
    BY <1>1
  <2> QED
    BY <1>1, <1>3, <1>4, <2>1 DEF CopyInv
<1>12. ASSUME NEW q \in Recorders, task'[q] # Idle PROVE CopyInv(task'[q], count', saves', missed')
  <2>1. CASE q = r
    <3>1. task'[q] = t
      BY <1>2, <1>9, <2>1
    <3> QED
      BY <1>11, <3>1
  <2>2. CASE q # r
    <3>1. task'[q] = task[q] /\ CopyInv(task[q], count, saves, missed) /\ task[q] \in Busy
      BY <1>2, <1>9, <1>12, <2>2
    <3>2. task[q].number \in Nat /\ task[q].number <= count
      BY <3>1 DEF Busy, CopyInv
    <3>3. task[q].number <= count + 1
      BY <1>1, <3>2
    <3> QED
      BY <1>1, <3>1, <3>3 DEF CopyInv
  <2> QED
    BY <2>1, <2>2
<1>13. TaskInv'
  BY <1>10, <1>12 DEF TaskInv
<1> QED
  BY <1>7, <1>13 DEF IInv

\* What a list contains it contains with one more event, which has a number of its own.
LEMMA AppendedList ==
    ASSUME NEW list \in Seq(Numbered), NEW x \in Numbered, Distinct(list),
           UpTo(list, x.number - 1)
    PROVE  /\ Distinct(Append(list, x)) /\ UpTo(Append(list, x), x.number)
           /\ Holds(Append(list, x), x.number)
           /\ \A number : Holds(list, number) => Holds(Append(list, x), number)
<1> DEFINE new == Append(list, x)
           n == Len(list) + 1
<1>1. /\ new[n] = x /\ DOMAIN new = DOMAIN list \cup {n}
      /\ \A k \in DOMAIN list : new[k] = list[k] /\ list[k] \in Numbered
  BY ListGrows
<1>2. x.number \in 1..MaxEvents /\ \A k \in DOMAIN list : list[k].number \in 1..MaxEvents
  BY <1>1 DEF Numbered
<1>3. MaxEvents \in Nat
  BY MetricsAssumption
<1>4. \A k \in DOMAIN list : list[k].number < x.number
  BY <1>2, <1>3 DEF UpTo
<1> HIDE DEF new, n
<1>5. Distinct(new)
  BY <1>1, <1>2, <1>3, <1>4 DEF Distinct
<1>6. UpTo(new, x.number)
  BY <1>1, <1>2, <1>3, <1>4 DEF UpTo
<1>7. Holds(new, x.number) /\ \A number : Holds(list, number) => Holds(new, number)
  BY <1>1 DEF Holds
<1> QED
  BY <1>5, <1>6, <1>7 DEF new

\* Saving puts the list of the copy, with the event, in the place of the store's.
LEMMA SaveStep == ASSUME IInv, NEW r \in Recorders, Save(r) PROVE IInv'
<1> DEFINE t == task[r]
           x == [number |-> t.number, event |-> t.event]
<1>1. /\ t # Idle /\ metrics' = Recorded(t.copy, t.event) /\ log' = Append(t.from, x)
      /\ saves' = Append(saves, t.number) /\ count' = count
      /\ missed' = missed \cup {saves[i] : i \in t.seen + 1 .. Len(saves)}
      /\ task' = [task EXCEPT ![r] = Idle]
  BY DEF Save
<1>2. task \in [Recorders -> {Idle} \cup Busy] /\ \A q \in Recorders : task[q] # Idle => CopyInv(task[q], count, saves, missed)
  BY DEF IInv, TaskInv
<1>3. t \in Busy /\ CopyInv(t, count, saves, missed)
  BY <1>1, <1>2
<1> HIDE DEF t
<1>4. /\ x \in Numbered /\ x.number = t.number /\ x.event = t.event
      /\ t.number \in 1..MaxEvents /\ t.seen \in Nat
  BY <1>3 DEF Busy, Numbered
<1>5. /\ t.number <= count /\ t.seen <= Len(saves) /\ Summarises(t.copy, t.from)
      /\ Distinct(t.from) /\ UpTo(t.from, t.number - 1) /\ Covers(t.from, saves, t.seen, missed)
  BY <1>3 DEF CopyInv
<1> HIDE DEF x
<1>6. count \in 0..MaxEvents /\ saves \in Seq(1..MaxEvents) /\ missed \subseteq 1..MaxEvents
      /\ MaxEvents \in Nat
  BY MetricsAssumption DEF IInv, StoreInv
<1>7. Summarises(metrics', log')
  <2>1. Summarises(Recorded(t.copy, x.event), Append(t.from, x))
    BY <1>4, <1>5, SummaryStep
  <2>2. metrics' = Recorded(t.copy, x.event) /\ log' = Append(t.from, x)
    BY <1>1, <1>4
  <2> QED
    BY <2>1, <2>2
<1>8. t.from \in Seq(Numbered)
  BY <1>5 DEF Summarises
<1>9. /\ Distinct(log') /\ UpTo(log', t.number) /\ Holds(log', t.number)
      /\ \A number : Holds(t.from, number) => Holds(log', number)
  BY <1>1, <1>4, <1>5, <1>8, AppendedList
<1>10. log' \in Seq(Numbered)
  BY <1>7 DEF Summarises
<1>11. UpTo(log', count')
  <2>1. \A k \in DOMAIN log' : log'[k].number \in 1..MaxEvents
    <3>1. \A k \in DOMAIN log' : log'[k] \in Numbered
      BY <1>10
    <3> QED
      BY <3>1 DEF Numbered
  <2> QED
    BY <1>1, <1>4, <1>5, <1>6, <1>9, <2>1 DEF UpTo
<1>12. /\ Len(saves) \in Nat /\ saves' \in Seq(1..MaxEvents) /\ Len(saves') = Len(saves) + 1
       /\ saves'[Len(saves) + 1] = t.number /\ \A i \in 1..Len(saves) : saves'[i] = saves[i]
       /\ \A i \in 1..Len(saves) : saves[i] \in 1..MaxEvents
  BY <1>1, <1>4, <1>6
<1>13. missed' \subseteq 1..MaxEvents /\ missed \subseteq missed'
  <2>1. \A i \in t.seen + 1 .. Len(saves) : i \in 1..Len(saves)
    BY <1>4, <1>12
  <2> QED
    BY <1>1, <1>6, <1>12, <2>1
<1>14. ASSUME NEW i \in 1..Len(saves') PROVE saves'[i] \in missed' \/ Holds(log', saves'[i])
  <2>1. CASE i = Len(saves) + 1
    BY <1>9, <1>12, <2>1
  <2>2. CASE i \in t.seen + 1 .. Len(saves)
    <3>1. i \in 1..Len(saves)
      BY <1>4, <1>12, <2>2
    <3> QED
      BY <1>1, <1>12, <2>2, <3>1
  <2>3. CASE i \in 1 .. t.seen
    <3>1. i \in 1..Len(saves)
      BY <1>4, <1>5, <1>12, <2>3
    <3>2. saves[i] \in missed \/ Holds(t.from, saves[i])
      BY <1>5, <2>3 DEF Covers
    <3> QED
      BY <1>9, <1>12, <1>13, <3>1, <3>2
  <2> QED
    BY <1>4, <1>5, <1>12, <2>1, <2>2, <2>3
<1>15. StoreInv'
  <2>1. Covers(log', saves', Len(saves'), missed')
    BY <1>14 DEF Covers
  <2>2. Distinct(log') /\ UpTo(log', count')
    BY <1>9, <1>11
  <2> QED
    BY <1>1, <1>6, <1>7, <1>12, <1>13, <2>1, <2>2 DEF StoreInv
<1>16. task' \in [Recorders -> {Idle} \cup Busy]
  BY <1>1, <1>2
<1>17. ASSUME NEW q \in Recorders, task'[q] # Idle PROVE CopyInv(task'[q], count', saves', missed')
  <2>1. task'[q] = task[q] /\ CopyInv(task[q], count, saves, missed) /\ task[q] \in Busy
    BY <1>1, <1>2, <1>17
  <2> DEFINE u == task[q]
  <2>2. /\ u.number <= count /\ u.seen <= Len(saves) /\ Summarises(u.copy, u.from)
        /\ Distinct(u.from) /\ UpTo(u.from, u.number - 1) /\ Covers(u.from, saves, u.seen, missed)
        /\ u.seen \in Nat /\ u.number \in Nat
    BY <2>1 DEF CopyInv, Busy
  <2> HIDE DEF u
  <2>3. u.seen <= Len(saves') /\ u.number <= count'
    BY <1>1, <1>12, <2>2
  <2>4. \A i \in 1..u.seen : saves'[i] \in missed' \/ Holds(u.from, saves'[i])
    <3>1. \A i \in 1..u.seen : i \in 1..Len(saves)
      BY <1>12, <2>2
    <3>2. \A i \in 1..u.seen : saves[i] \in missed \/ Holds(u.from, saves[i])
      BY <2>2 DEF Covers
    <3> QED
      BY <1>12, <1>13, <3>1, <3>2
  <2>5. CopyInv(u, count', saves', missed')
    BY <2>2, <2>3, <2>4 DEF CopyInv, Covers
  <2> QED
    BY <2>1, <2>5 DEF u
<1>18. TaskInv'
  BY <1>16, <1>17 DEF TaskInv
<1> QED
  BY <1>15, <1>18 DEF IInv

LEMMA RestStep == ASSUME IInv, Crash \/ UNCHANGED vars PROVE IInv'
<1>1. /\ count' = count /\ metrics' = metrics /\ log' = log /\ saves' = saves /\ missed' = missed
      /\ \/ task' = task
         \/ task' = [r \in Recorders |-> Idle]
  BY DEF Crash, vars
<1>2. StoreInv'
  BY <1>1 DEF IInv, StoreInv
<1>3. TaskInv'
  BY <1>1 DEF IInv, TaskInv
<1> QED
  BY <1>2, <1>3 DEF IInv

LEMMA MetricsInvariant == Spec => []IInv
<1>1. ASSUME IInv, [Next]_vars PROVE IInv'
  BY <1>1, LoadStep, SaveStep, RestStep DEF Next
<1> QED
  BY <1>1, MetricsInit, PTL DEF Spec

-----------------------------------------------------------------------------
(* What follows for the properties that the runs check.                       *)

\* Every variable of the store keeps its type, and the list of recent events its bound.
THEOREM MetricsTypeCorrect == Spec => []TypeOK
<1>1. ASSUME IInv PROVE TypeOK
  <2>1. /\ metrics \in Row /\ log \in Seq(Numbered) /\ RecentAgrees(metrics, log)
        /\ count \in 0..MaxEvents /\ saves \in Seq(1..MaxEvents) /\ missed \subseteq 1..MaxEvents
    BY <1>1 DEF IInv, StoreInv, Summarises
  <2>2. Len(metrics.recent) <= RecentLimit
    <3>1. RecentLimit \in Nat \ {0} /\ Len(log) \in Nat
      <4>1. RecentLimit \in Nat \ {0}
        BY MetricsAssumption
      <4> QED
        BY <2>1, <4>1
    <3>2. Least(Len(log), RecentLimit) \in Nat /\ Least(Len(log), RecentLimit) <= RecentLimit
      BY <3>1 DEF Least
    <3>3. metrics.recent \in Seq(Events) /\ DOMAIN metrics.recent = 1..Least(Len(log), RecentLimit)
      BY <2>1 DEF RecentAgrees, Recents, Row
    <3>4. Len(metrics.recent) = Least(Len(log), RecentLimit)
      BY <3>2, <3>3
    <3> QED
      BY <3>2, <3>4
  <2>3. task \in [Recorders -> {Idle} \cup Busy]
    BY <1>1 DEF IInv, TaskInv
  <2> QED
    BY <2>1, <2>2, <2>3 DEF TypeOK, Busy
<1> QED
  BY <1>1, MetricsInvariant, PTL

\* An event that was recorded is in the list the row is made of, once, unless a
\* request that loaded the row before it was saved later.
THEOREM EventsLostOnlySo == Spec => []EventsLostOnlyToOverlap
<1>1. ASSUME IInv PROVE EventsLostOnlyToOverlap
  <2>1. /\ metrics.requests = Len(log) /\ saves \in Seq(1..MaxEvents)
        /\ Distinct(log) /\ Covers(log, saves, Len(saves), missed)
    BY <1>1 DEF IInv, StoreInv, Summarises, CountsAgree
  <2>2. DOMAIN saves = 1..Len(saves)
    BY <2>1
  <2> QED
    BY <2>1, <2>2 DEF EventsLostOnlyToOverlap, Distinct, Covers, Holds
<1> QED
  BY <1>1, MetricsInvariant, PTL

\* An element that bounds a set of numbers is its least or its greatest one.
LEMMA Extremes ==
    ASSUME NEW T \in SUBSET Int, NEW x \in T
    PROVE  /\ (\A y \in T : x <= y) => Min(T) = x
           /\ (\A y \in T : y <= x) => Max(T) = x
<1>1. ASSUME \A y \in T : x <= y PROVE Min(T) = x
  <2>1. Min(T) \in T /\ \A y \in T : Min(T) <= y
    BY <1>1 DEF Min
  <2>2. x <= Min(T) /\ Min(T) <= x /\ x \in Int /\ Min(T) \in Int
    BY <1>1, <2>1
  <2> QED
    BY <2>2
<1>2. ASSUME \A y \in T : y <= x PROVE Max(T) = x
  <2>1. Max(T) \in T /\ \A y \in T : Max(T) >= y
    BY <1>2 DEF Max
  <2>2. x <= Max(T) /\ Max(T) <= x /\ x \in Int /\ Max(T) \in Int
    BY <1>2, <2>1
  <2> QED
    BY <2>2
<1> QED
  BY <1>1, <1>2

\* The extremes and the last value of the statistics are those of the list's events.
LEMMA SpansAreExtremes ==
    ASSUME NEW list \in Seq(Numbered), NEW P \in SUBSET DOMAIN list, P # {},
           NEW stats \in Stats, Spans(stats, list, P)
    PROVE  /\ stats.least = Min({list[k].event.elapsed : k \in P})
           /\ stats.most = Max({list[k].event.elapsed : k \in P})
           /\ stats.last = list[Max(P)].event.elapsed
<1> DEFINE T == {list[k].event.elapsed : k \in P}
<1>1. \A k \in P : k \in Int /\ list[k].event.elapsed \in Int
  <2>1. DOMAIN list = 1..Len(list) /\ \A k \in DOMAIN list : k \in Int /\ list[k] \in Numbered
    OBVIOUS
  <2>2. \A k \in P : list[k].event \in Events
    BY <2>1 DEF Numbered
  <2>3. \A e \in Events : e.elapsed \in Nat
    BY EventType
  <2> QED
    BY <2>1, <2>2, <2>3
<1>2. T \in SUBSET Int /\ P \in SUBSET Int
  BY <1>1
<1>3. /\ stats.least \in T /\ \A v \in T : stats.least <= v
      /\ stats.most \in T /\ \A v \in T : v <= stats.most
  BY DEF Spans
<1>4. PICK k \in P : list[k].event.elapsed = stats.last /\ \A j \in P : j <= k
  BY DEF Spans
<1> HIDE DEF T
<1>5. stats.least = Min(T) /\ stats.most = Max(T)
  BY <1>2, <1>3, Extremes
<1>6. Max(P) = k
  BY <1>2, <1>4, Extremes
<1> QED
  BY <1>4, <1>5, <1>6 DEF T

\* Whatever the overlap loses, the aggregates that AggregatesAgree names are those of
\* one and the same list of events: the recent ones, the number, sum, extremes and last
\* time of every operation, the sums over the packs, the hits and misses of every space.
THEOREM AggregatesOfOneList == Spec => []AggregatesAgree
<1>1. ASSUME IInv PROVE AggregatesAgree
  <2>1. /\ metrics \in Row /\ log \in Seq(Numbered) /\ RecentAgrees(metrics, log)
        /\ CountsAgree(metrics, log) /\ SpacesAgree(metrics, log)
        /\ \A o \in Operations : OperationAgrees(metrics, log, o)
    BY <1>1 DEF IInv, StoreInv, Summarises
  <2>2. Pack \in Operations /\ Warmup \in Operations
    BY MetricsAssumption
  <2>3. metrics.recent = [k \in 1..Least(Len(log), RecentLimit) |->
                             log[Most(0, Len(log) - RecentLimit) + k].event]
    BY <2>1 DEF RecentAgrees, Recents
  <2>4. ASSUME NEW o \in Operations
        PROVE  LET stats == metrics.operations[o]  places == Of(log, o) IN
               /\ stats.n = Cardinality(places)
               /\ stats.total = Total(log, places, Elapsed)
               /\ places # {} =>
                   /\ stats.least = Min({log[k].event.elapsed : k \in places})
                   /\ stats.most = Max({log[k].event.elapsed : k \in places})
                   /\ stats.last = log[Max(places)].event.elapsed
    <3>1. /\ metrics.operations[o] \in Stats /\ Of(log, o) \in SUBSET DOMAIN log
          /\ OperationAgrees(metrics, log, o)
      BY <2>1 DEF Row, Of
    <3>2. /\ metrics.operations[o].n = Cardinality(Of(log, o))
          /\ metrics.operations[o].total = Total(log, Of(log, o), Elapsed)
          /\ Spans(metrics.operations[o], log, Of(log, o))
      BY <3>1 DEF OperationAgrees
    <3>3. Of(log, o) # {} =>
            /\ metrics.operations[o].least = Min({log[k].event.elapsed : k \in Of(log, o)})
            /\ metrics.operations[o].most = Max({log[k].event.elapsed : k \in Of(log, o)})
            /\ metrics.operations[o].last = log[Max(Of(log, o))].event.elapsed
      BY <2>1, <3>1, <3>2, SpansAreExtremes
    <3> QED
      BY <3>2, <3>3
  <2>5. /\ metrics.triggers.manual + metrics.triggers.auto = metrics.operations[Warmup].n
        /\ Sum([r \in Routes |-> metrics.routes[r].n]) = metrics.operations[Pack].n
    BY <2>1, <2>2 DEF CountsAgree, OperationAgrees
  <2>6. /\ metrics.saved = Total(log, Of(log, Pack), Saved)
        /\ metrics.deferred = Total(log, Of(log, Pack), Deferred)
        /\ metrics.fragmentHits = Total(log, Of(log, Pack), Hits)
        /\ metrics.fragmentMisses = Total(log, Of(log, Pack), Misses)
        /\ metrics.refreshes.total = Total(log, Of(log, Pack), Refresh)
    BY <1>1 DEF IInv, StoreInv, Summarises, PacksAgree
  <2> QED
    BY <2>1, <2>3, <2>4, <2>5, <2>6 DEF AggregatesAgree, SpacesAgree
<1> QED
  BY <1>1, MetricsInvariant, PTL

-----------------------------------------------------------------------------
(* The percentile.  Values in the order of Ahead each have a rank of their    *)
(* own, and every rank is taken: what is above the lower of the two values    *)
(* the percentile lies between has a greater rank, what is below the upper    *)
(* one a smaller.                                                             *)

Rank(values, i) == Cardinality({j \in DOMAIN values : Ahead(values, j, i)})

\* The order of the values is a strict total order of their places.
LEMMA AheadOrders ==
    ASSUME NEW D \in SUBSET Nat, NEW v \in [D -> Nat]
    PROVE  /\ \A i \in D : ~ Ahead(v, i, i)
           /\ \A i, j \in D : i # j => Ahead(v, i, j) \/ Ahead(v, j, i)
           /\ \A i, j \in D : Ahead(v, i, j) => v[i] <= v[j]
           /\ \A i, j \in D : v[i] < v[j] => Ahead(v, i, j)
           /\ \A i, j, k \in D : Ahead(v, i, j) /\ Ahead(v, j, k) => Ahead(v, i, k)
<1>1. \A i \in D : i \in Nat /\ v[i] \in Nat
  OBVIOUS
<1>2. \A i \in D : ~ Ahead(v, i, i)
  BY <1>1 DEF Ahead
<1>3. \A i, j \in D : i # j => Ahead(v, i, j) \/ Ahead(v, j, i)
  BY <1>1 DEF Ahead
<1>4. \A i, j \in D : /\ Ahead(v, i, j) => v[i] <= v[j]
                      /\ v[i] < v[j] => Ahead(v, i, j)
  BY <1>1 DEF Ahead
<1>5. ASSUME NEW i \in D, NEW j \in D, NEW k \in D, Ahead(v, i, j), Ahead(v, j, k)
      PROVE  Ahead(v, i, k)
  BY <1>1, <1>5 DEF Ahead
<1> QED
  BY <1>2, <1>3, <1>4, <1>5

\* Of two places the one ahead of the other has fewer ahead of it.
LEMMA RanksApart ==
    ASSUME NEW D \in SUBSET Nat, IsFiniteSet(D), NEW v \in [D -> Nat]
    PROVE  /\ Cardinality(D) \in Nat
           /\ \A i \in D : Rank(v, i) \in 0 .. Cardinality(D) - 1
           /\ \A i, j \in D : Ahead(v, i, j) => Rank(v, i) < Rank(v, j)
           /\ \A i, j \in D : i # j => Rank(v, i) # Rank(v, j)
<1> DEFINE FrontOf(i) == {j \in D : Ahead(v, j, i)}
<1>1. \A i \in D : Rank(v, i) = Cardinality(FrontOf(i)) /\ FrontOf(i) \in SUBSET D
  BY DEF Rank
<1>2. \A S \in SUBSET D : IsFiniteSet(S) /\ Cardinality(S) \in Nat
  BY FS_Subset, FS_CardinalityType
<1>3. ASSUME NEW S \in SUBSET D, NEW T \in SUBSET S, NEW x \in S, x \notin T
      PROVE  Cardinality(T) < Cardinality(S)
  <2>1. IsFiniteSet(S) /\ Cardinality(S) \in Nat /\ Cardinality(T) \in Nat
    BY <1>2
  <2>2. Cardinality(T) <= Cardinality(S) /\ (Cardinality(S) = Cardinality(T) => S = T)
    BY <2>1, FS_Subset
  <2> QED
    BY <1>3, <2>1, <2>2
<1>4. ASSUME NEW i \in D PROVE Rank(v, i) \in 0 .. Cardinality(D) - 1
  <2>1. i \notin FrontOf(i)
    BY AheadOrders
  <2> HIDE DEF FrontOf
  <2>2. Cardinality(FrontOf(i)) < Cardinality(D) /\ Cardinality(FrontOf(i)) \in Nat
    BY <1>1, <1>2, <1>3, <2>1
  <2> QED
    BY <1>1, <1>2, <2>2
<1>5. ASSUME NEW i \in D, NEW j \in D, Ahead(v, i, j) PROVE Rank(v, i) < Rank(v, j)
  <2>1. FrontOf(i) \in SUBSET FrontOf(j) /\ i \in FrontOf(j) /\ i \notin FrontOf(i)
    BY <1>5, AheadOrders
  <2> HIDE DEF FrontOf
  <2> QED
    BY <1>1, <1>3, <2>1
<1>6. ASSUME NEW i \in D, NEW j \in D, i # j PROVE Rank(v, i) # Rank(v, j)
  <2>1. Ahead(v, i, j) \/ Ahead(v, j, i)
    BY <1>6, AheadOrders
  <2>2. Rank(v, i) \in Int /\ Rank(v, j) \in Int
    BY <1>2, <1>4
  <2> QED
    BY <1>5, <2>1, <2>2
<1>7. Cardinality(D) \in Nat
  BY <1>2
<1> QED
  BY <1>4, <1>5, <1>6, <1>7

\* There are no more places with ranks in an interval than the interval is long.
LEMMA RankedWithin ==
    ASSUME NEW D \in SUBSET Nat, IsFiniteSet(D), NEW v \in [D -> Nat],
           NEW a \in Nat, NEW b \in Int, b >= a - 1,
           NEW S \in SUBSET D, \A i \in S : Rank(v, i) \in a .. b
    PROVE  Cardinality(S) <= b - a + 1
<1> DEFINE place == [i \in S |-> Rank(v, i)]
<1>1. place \in Injection(S, a .. b)
  <2>1. \A i \in S : place[i] \in a .. b
    OBVIOUS
  <2>2. \A i, j \in S : place[i] = place[j] => i = j
    BY RanksApart
  <2>3. place \in [S -> a .. b]
    BY <2>1
  <2> QED
    BY <2>2, <2>3, Fun_IsInj
<1>2. IsFiniteSet(a .. b) /\ Cardinality(a .. b) = b - a + 1
  <2>1. IsFiniteSet(a .. b) /\ Cardinality(a .. b) = IF a > b THEN 0 ELSE b - a + 1
    BY FS_Interval
  <2> QED
    BY <2>1
<1> HIDE DEF place
<1>3. Cardinality(S) <= Cardinality(a .. b)
  BY <1>1, <1>2, FS_Injection
<1> QED
  BY <1>2, <1>3

\* As many ranks as places, and no two places at one rank.
LEMMA EveryRankTaken ==
    ASSUME NEW D \in SUBSET Nat, IsFiniteSet(D), NEW v \in [D -> Nat],
           NEW k \in 0 .. Cardinality(D) - 1
    PROVE  \E i \in D : Rank(v, i) = k
<1> DEFINE n == Cardinality(D)
           place == [i \in D |-> Rank(v, i)]
<1>1. n \in Nat /\ \A i \in D : place[i] \in 0 .. n - 1
  BY RanksApart
<1>2. \A i, j \in D : i # j => place[i] # place[j]
  BY RanksApart
<1>3. IsFiniteSet(0 .. n - 1) /\ Cardinality(0 .. n - 1) = n
  <2>1. n - 1 \in Int /\ 0 \in Int
    BY <1>1
  <2>2. /\ IsFiniteSet(0 .. n - 1)
        /\ Cardinality(0 .. n - 1) = IF 0 > n - 1 THEN 0 ELSE (n - 1) - 0 + 1
    <3> HIDE DEF n
    <3> QED
      BY <2>1, FS_Interval
  <2> QED
    BY <1>1, <2>2
<1>4. place \in Injection(D, 0 .. n - 1)
  BY <1>1, <1>2, Fun_IsInj
<1>5. place \in Surjection(D, 0 .. n - 1)
  BY <1>1, <1>3, <1>4, FS_Injection
<1>6. \E i \in D : place[i] = k
  BY <1>5 DEF Surjection
<1> QED
  BY <1>6

\* The ordered values: the value at a rank is that of the place which has it.
LEMMA OrderedByRank ==
    ASSUME NEW D \in SUBSET Nat, IsFiniteSet(D), NEW v \in [D -> Nat]
    PROVE  /\ Len(Ordered(v)) = Cardinality(D)
           /\ \A k \in 0 .. Cardinality(D) - 1 :
                \E i \in D : Rank(v, i) = k /\ Ordered(v)[k + 1] = v[i]
<1> DEFINE n == Cardinality(D)
           at == [k \in 1 .. n |-> CHOOSE i \in D : Rank(v, i) = k - 1]
<1>1. n \in Nat /\ DOMAIN v = D
  BY RanksApart
<1>2. \A k \in 1 .. n : at[k] \in D /\ Rank(v, at[k]) = k - 1
  <2>1. ASSUME NEW k \in 1 .. n PROVE \E i \in D : Rank(v, i) = k - 1
    <3>1. k - 1 \in 0 .. n - 1
      BY <1>1
    <3> QED
      BY <3>1, EveryRankTaken
  <2> QED
    BY <2>1
<1>3. Ordered(v) = [k \in 1 .. n |-> v[at[k]]]
  BY <1>1 DEF Ordered, Rank
<1> HIDE DEF at, n
<1>4. Len(Ordered(v)) = n
  <2>1. \A k \in 1 .. n : v[at[k]] \in Nat
    BY <1>2
  <2>2. Ordered(v) \in [1 .. n -> Nat]
    BY <1>3, <2>1
  <2>3. Ordered(v) \in Seq(Nat) /\ DOMAIN Ordered(v) = 1 .. n
    BY <1>1, <2>2
  <2> QED
    BY <1>1, <2>3
<1>5. ASSUME NEW k \in 0 .. n - 1
      PROVE  \E i \in D : Rank(v, i) = k /\ Ordered(v)[k + 1] = v[i]
  <2>1. k + 1 \in 1 .. n /\ k + 1 - 1 = k
    BY <1>1
  <2>2. at[k + 1] \in D /\ Rank(v, at[k + 1]) = k /\ Ordered(v)[k + 1] = v[at[k + 1]]
    BY <1>2, <1>3, <2>1
  <2> QED
    BY <2>2
<1> QED
  BY <1>4, <1>5 DEF n

\* A part of a hundred.
LEMMA PartOf ==
    ASSUME NEW a \in Nat, NEW p \in 0..100
    PROVE  a * p \in 0 .. 100 * a /\ (100 - p) * a = 100 * a - a * p /\ p * a = a * p
OBVIOUS

\* The percentile lies between two neighbours in the order, the lower of which has
\* the rank the percentage asks for.
LEMMA PercentileBetween ==
    ASSUME NEW D \in SUBSET Nat, IsFiniteSet(D), D # {}, NEW v \in [D -> Nat],
           NEW percent \in 0..100
    PROVE  LET n == Cardinality(D)  r == (n - 1) * percent  value == Percentile(v, percent) IN
           /\ value \in Nat /\ r \in 0 .. 100 * (n - 1)
           /\ \E i, j \in D :
                /\ 100 * v[i] <= value /\ r < 100 * (Rank(v, i) + 1)
                /\ value <= 100 * v[j] /\ 100 * (Rank(v, j) - 1) < r
<1> DEFINE n == Cardinality(D)
           r == (n - 1) * percent
           lower == r \div 100
           upper == Least(lower + 1, n - 1)
           part == r % 100
           below == Ordered(v)[lower + 1]
           above == Ordered(v)[upper + 1]
           value == Percentile(v, percent)
<1>1. n \in Nat /\ n >= 1
  <2>1. n \in Nat /\ n # 0
    BY RanksApart, FS_EmptySet
  <2> QED
    BY <2>1
<1>2. r \in 0 .. 100 * (n - 1)
  <2>1. n - 1 \in Nat
    BY <1>1
  <2> HIDE DEF n
  <2> QED
    BY <2>1, PartOf
<1>3. Len(Ordered(v)) = n
  BY OrderedByRank
<1>4. value = 100 * below + (above - below) * part
  BY <1>3 DEF Percentile
<1> HIDE DEF n, r, value
<1>5. /\ lower \in Nat /\ part \in 0..99 /\ r = 100 * lower + part
      /\ lower \in 0 .. n - 1 /\ (part # 0 => lower + 1 \in 0 .. n - 1)
  <2>1. r \in Nat
    BY <1>1, <1>2
  <2>2. lower \in Nat /\ part \in 0..99 /\ r = 100 * lower + part
    BY <2>1
  <2> HIDE DEF lower, part
  <2> QED
    BY <1>1, <1>2, <2>2
<1> HIDE DEF lower, part
<1>6. upper \in 0 .. n - 1 /\ upper >= lower /\ (part # 0 => upper = lower + 1)
  BY <1>1, <1>5 DEF Least
<1> HIDE DEF upper
<1>7. PICK i \in D : Rank(v, i) = lower /\ below = v[i]
  BY <1>5, OrderedByRank DEF n
<1>8. PICK j \in D : Rank(v, j) = upper /\ above = v[j]
  BY <1>6, OrderedByRank DEF n
<1>9. v[i] \in Nat /\ v[j] \in Nat /\ v[i] <= v[j]
  <2>1. v[i] \in Nat /\ v[j] \in Nat
    OBVIOUS
  <2>2. CASE i = j
    BY <2>1, <2>2
  <2>3. CASE i # j
    <3>1. ~ (Rank(v, j) < Rank(v, i))
      BY <1>5, <1>6, <1>7, <1>8
    <3>2. ~ Ahead(v, j, i)
      BY <3>1, RanksApart
    <3>3. Ahead(v, i, j)
      BY <2>3, <3>2, AheadOrders
    <3> QED
      BY <2>1, <3>3, AheadOrders
  <2> QED
    BY <2>2, <2>3
<1>10. value = 100 * v[i] + (v[j] - v[i]) * part
  BY <1>4, <1>7, <1>8
<1>11. PICK gap \in Nat : gap = v[j] - v[i]
  BY <1>9
<1>12. gap * part \in 0 .. 100 * gap
  BY <1>5, PartOf
<1>13. value \in Nat /\ 100 * v[i] <= value /\ value <= 100 * v[j]
  <2>1. PICK more \in Nat : more = gap * part /\ more <= 100 * gap
    BY <1>12
  <2>2. value = 100 * v[i] + more
    BY <1>10, <1>11, <2>1
  <2> QED
    BY <1>9, <1>11, <2>1, <2>2
<1>14. r < 100 * (Rank(v, i) + 1)
  BY <1>5, <1>7
<1>15. CASE part = 0
  <2>1. value = 100 * v[i]
    <3>1. gap * 0 = 0
      OBVIOUS
    <3> QED
      BY <1>9, <1>10, <1>11, <1>15, <3>1
  <2>2. 100 * (Rank(v, i) - 1) < r
    BY <1>5, <1>7, <1>15
  <2>3. value <= 100 * v[i]
    BY <1>13, <2>1
  <2> QED
    BY <1>2, <1>13, <1>14, <2>2, <2>3 DEF n, r, value
<1>16. CASE part # 0
  <2>1. 100 * (Rank(v, j) - 1) < r
    BY <1>5, <1>6, <1>8, <1>16
  <2> QED
    BY <1>2, <1>13, <1>14, <2>1 DEF n, r, value
<1> QED
  BY <1>15, <1>16

\* The percentile has its share of the values below it and the rest above.
LEMMA PercentileRanks ==
    ASSUME NEW D \in SUBSET Nat, IsFiniteSet(D), D # {}, NEW v \in [D -> Nat],
           NEW percent \in 0..100
    PROVE  RanksProperly(v, percent)
<1> DEFINE n == Cardinality(D)
           r == (n - 1) * percent
           value == Percentile(v, percent)
           above == {k \in D : 100 * v[k] > value}
           below == {k \in D : 100 * v[k] < value}
<1>1. /\ value \in Nat /\ r \in 0 .. 100 * (n - 1)
      /\ \E i, j \in D :
           /\ 100 * v[i] <= value /\ r < 100 * (Rank(v, i) + 1)
           /\ value <= 100 * v[j] /\ 100 * (Rank(v, j) - 1) < r
  BY PercentileBetween
<1>2. PICK i \in D, j \in D :
        /\ 100 * v[i] <= value /\ r < 100 * (Rank(v, i) + 1)
        /\ value <= 100 * v[j] /\ 100 * (Rank(v, j) - 1) < r
  BY <1>1
<1>3. n \in Nat /\ \A k \in D : Rank(v, k) \in 0 .. n - 1
  BY RanksApart
<1>4. DOMAIN v = D /\ above \in SUBSET D /\ below \in SUBSET D /\ \A k \in D : v[k] \in Nat
  OBVIOUS
<1>5. r = percent * (n - 1) /\ (100 - percent) * (n - 1) = 100 * (n - 1) - r
  <2>1. n - 1 \in Nat
    <3>1. n # 0
      BY FS_EmptySet
    <3> QED
      BY <1>3, <3>1
  <2> HIDE DEF n
  <2> QED
    BY <2>1, PartOf
<1>6. \A k \in above : Rank(v, k) \in Rank(v, i) + 1 .. n - 1
  <2> SUFFICES ASSUME NEW k \in above PROVE Rank(v, k) \in Rank(v, i) + 1 .. n - 1
    OBVIOUS
  <2> HIDE DEF value, n
  <2>1. k \in D /\ v[i] < v[k]
    BY <1>1, <1>2, <1>4
  <2>2. Rank(v, i) < Rank(v, k)
    BY <2>1, AheadOrders, RanksApart
  <2> QED
    BY <1>3, <2>1, <2>2
<1>7. \A k \in below : Rank(v, k) \in 0 .. Rank(v, j) - 1
  <2> SUFFICES ASSUME NEW k \in below PROVE Rank(v, k) \in 0 .. Rank(v, j) - 1
    OBVIOUS
  <2> HIDE DEF value, n
  <2>1. k \in D /\ v[k] < v[j]
    BY <1>1, <1>2, <1>4
  <2>2. Rank(v, k) < Rank(v, j)
    BY <2>1, AheadOrders, RanksApart
  <2> QED
    BY <1>3, <2>1, <2>2
<1>8. Cardinality(above) <= n - 1 - Rank(v, i)
  <2> HIDE DEF above, n
  <2>1. PICK a \in Nat : a = Rank(v, i) + 1
    BY <1>3
  <2>2. PICK b \in Int : b = n - 1
    BY <1>3
  <2>3. b >= a - 1
    BY <1>3, <2>1, <2>2
  <2>4. \A k \in above : Rank(v, k) \in a .. b
    BY <1>6, <2>1, <2>2
  <2>5. Cardinality(above) <= b - a + 1
    BY <1>4, <2>3, <2>4, RankedWithin
  <2> QED
    BY <1>3, <2>1, <2>2, <2>5
<1>9. Cardinality(below) <= Rank(v, j)
  <2> HIDE DEF below, n
  <2>1. Rank(v, j) - 1 \in Int /\ Rank(v, j) - 1 >= 0 - 1 /\ 0 \in Nat
    BY <1>3
  <2>2. Cardinality(below) <= Rank(v, j) - 1 - 0 + 1
    BY <1>4, <1>7, <2>1, RankedWithin
  <2> QED
    BY <1>3, <2>2
<1>10. Cardinality(above) \in Nat /\ Cardinality(below) \in Nat
  BY <1>4, FS_Subset, FS_CardinalityType
<1> HIDE DEF n, r, value, above, below
<1>11. 100 * (Cardinality(above) - 1) < 100 * (n - 1) - r
  BY <1>1, <1>2, <1>3, <1>8, <1>10
<1>12. 100 * (Cardinality(below) - 1) < r
  BY <1>1, <1>2, <1>3, <1>9, <1>10
<1>13. (\E k \in D : 100 * v[k] >= value) /\ (\E k \in D : 100 * v[k] <= value)
  BY <1>1, <1>2, <1>4
<1>14. /\ 100 * (Cardinality(above) - 1) < (100 - percent) * (n - 1)
       /\ 100 * (Cardinality(below) - 1) < percent * (n - 1)
  BY <1>5, <1>11, <1>12
<1> QED
  BY <1>4, <1>13, <1>14 DEF RanksProperly, n, value, above, below

-----------------------------------------------------------------------------
(* The verdicts of the measurement matrix.                                    *)

\* The recent events of a row, or of a snapshot of it, end the list or stand in it.
Stands(row, list) ==
    /\ row.recent \in Seq(Events)
    /\ \E off \in Nat :
        /\ off + Len(row.recent) <= Len(list)
        /\ \A k \in 1 .. Len(row.recent) : row.recent[k] = list[off + k].event

\* A snapshot differs from its row in nothing but how many recent events it shows.
LEMMA SnapshotOf ==
    ASSUME NEW row \in Row, NEW list \in Seq(Numbered), RecentAgrees(row, list),
           NEW window \in Nat \ {0}
    PROVE  /\ Snapshot(row, window) \in Row /\ Stands(Snapshot(row, window), list)
           /\ \A field \in {"operations", "refreshes", "saved", "deferred",
                            "fragmentHits", "fragmentMisses"} :
                 Snapshot(row, window)[field] = row[field]
<1>1. PICK shown : shown = LastOf(row.recent, window)
  OBVIOUS
<1>2. /\ row.recent \in Seq(Events) /\ shown \in Seq(Events)
      /\ Len(shown) = Least(Len(row.recent), window)
      /\ shown = Lasts(row.recent, Len(row.recent), window)
  BY <1>1, LastOfPlaces DEF Row
<1>3. Snapshot(row, window) = [row EXCEPT !.recent = shown]
  BY <1>1 DEF Snapshot, Row
<1>4. Snapshot(row, window) \in Row /\ Snapshot(row, window).recent = shown
  BY <1>2, <1>3 DEF Row
<1>5. Stands(Snapshot(row, window), list)
  <2> DEFINE L == Len(list)
             m == Len(row.recent)
             off == Most(0, L - RecentLimit)
             skip == Most(0, m - window)
  <2>1. /\ L \in Nat /\ m = Least(L, RecentLimit) /\ RecentLimit \in Nat \ {0}
        /\ \A k \in 1 .. m : row.recent[k] = list[off + k].event
    <3>1. RecentLimit \in Nat \ {0} /\ L \in Nat
      <4>1. RecentLimit \in Nat \ {0}
        BY MetricsAssumption
      <4> QED
        BY <4>1
    <3>2. row.recent = [k \in 1 .. Least(L, RecentLimit) |-> list[off + k].event]
      BY DEF RecentAgrees, Recents
    <3>3. Least(L, RecentLimit) \in Nat
      <4> HIDE DEF L
      <4> QED
        BY <3>1 DEF Least
    <3>4. m = Least(L, RecentLimit)
      BY <1>2, <3>2, <3>3
    <3> HIDE DEF off
    <3> QED
      BY <3>1, <3>2, <3>4
  <2>2. shown = [k \in 1 .. Least(m, window) |-> row.recent[skip + k]]
    BY <1>2 DEF Lasts
  <2>3. Len(shown) = Least(m, window)
    BY <1>2
  <2> HIDE DEF L, m
  <2>4. /\ m \in Nat /\ off \in Nat /\ skip \in Nat /\ off + skip \in Nat
        /\ off + m <= L /\ skip + Least(m, window) = m /\ Least(m, window) \in Nat
    BY <2>1 DEF Least, Most
  <2> HIDE DEF off, skip
  <2>5. off + skip + Len(shown) <= L
    BY <2>1, <2>3, <2>4
  <2>6. ASSUME NEW k \in 1 .. Len(shown)
        PROVE  shown[k] = list[off + skip + k].event
    <3>1. skip + k \in 1 .. m /\ off + skip + k = off + (skip + k)
      BY <2>3, <2>4
    <3>2. shown[k] = row.recent[skip + k]
      BY <2>2, <2>3
    <3>3. row.recent[skip + k] = list[off + (skip + k)].event
      BY <2>1, <3>1
    <3> QED
      BY <3>1, <3>2, <3>3
  <2> QED
    BY <1>2, <1>4, <2>4, <2>5, <2>6 DEF Stands, L
<1> QED
  BY <1>3, <1>4, <1>5 DEF Row

\* The times of the recent packs are those of packs of the list.
LEMMA SamplesArePacks ==
    ASSUME NEW row, NEW list \in Seq(Numbered), Stands(row, list)
    PROVE  LET times == PackTimes(row) IN
           /\ DOMAIN times \in SUBSET Nat /\ IsFiniteSet(DOMAIN times)
           /\ times \in [DOMAIN times -> Nat]
           /\ Cardinality(DOMAIN times) \in Nat
           /\ Cardinality(DOMAIN times) <= Cardinality(Of(list, Pack))
<1> PICK off \in Nat :
        /\ off + Len(row.recent) <= Len(list)
        /\ \A k \in 1 .. Len(row.recent) : row.recent[k] = list[off + k].event
  BY DEF Stands
<1> DEFINE L == Len(list)
           m == Len(row.recent)
           D == {k \in DOMAIN row.recent : row.recent[k].op = Pack}
           place == [k \in D |-> off + k]
<1>1. row.recent \in Seq(Events) /\ m \in Nat
  BY DEF Stands
<1>2. L \in Nat /\ DOMAIN list = 1 .. L
  OBVIOUS
<1>3. m \in Nat /\ off \in Nat /\ \A k \in 1 .. m : off + k \in 1 .. L
  <2>1. off + m <= L
    OBVIOUS
  <2> HIDE DEF L, m
  <2> QED
    BY <1>1, <1>2, <2>1
<1>4. /\ DOMAIN row.recent = 1 .. m
      /\ \A k \in 1 .. m : row.recent[k] = list[off + k].event
  BY <1>1
<1> HIDE DEF L, m
<1>5. DOMAIN row.recent = 1 .. m /\ \A k \in 1 .. m :
        row.recent[k] \in Events /\ row.recent[k] = list[off + k].event
  <2>1. \A k \in DOMAIN row.recent : row.recent[k] \in Events
    <3>1. \A t \in Seq(Events) : \A k \in DOMAIN t : t[k] \in Events
      OBVIOUS
    <3> QED
      BY <1>1, <3>1
  <2>2. DOMAIN row.recent = 1 .. m /\ \A k \in 1 .. m : row.recent[k] = list[off + k].event
    BY <1>4
  <2> QED
    BY <2>1, <2>2
<1>6. D \in SUBSET (1 .. m) /\ D \in SUBSET Nat
  BY <1>3, <1>5
<1>7. PackTimes(row) = [k \in D |-> row.recent[k].elapsed]
  BY DEF PackTimes
<1>8. \A k \in D : row.recent[k].elapsed \in Nat
  BY <1>5, <1>6, EventType
<1>9. \A k \in D : place[k] \in Of(list, Pack)
  BY <1>2, <1>3, <1>5, <1>6 DEF Of
<1>10. \A k, l \in D : place[k] = place[l] => k = l
  BY <1>3, <1>6
<1>11. place \in Injection(D, Of(list, Pack))
  <2>1. place \in [D -> Of(list, Pack)]
    BY <1>9
  <2> HIDE DEF place, D
  <2> QED
    BY <1>10, <2>1, Fun_IsInj
<1>12. IsFiniteSet(Of(list, Pack))
  <2>1. IsFiniteSet(DOMAIN list)
    BY <1>2, FS_Interval
  <2>2. Of(list, Pack) \in SUBSET DOMAIN list
    BY DEF Of
  <2> QED
    BY <2>1, <2>2, FS_Subset
<1> HIDE DEF place, D
<1>13. IsFiniteSet(D) /\ Cardinality(D) <= Cardinality(Of(list, Pack))
  BY <1>11, <1>12, FS_Injection
<1>14. Cardinality(D) \in Nat
  BY <1>13, FS_CardinalityType
<1>15. DOMAIN PackTimes(row) = D /\ PackTimes(row) \in [D -> Nat]
  BY <1>7, <1>8
<1> QED
  BY <1>6, <1>13, <1>14, <1>15

\* A ratio is judged as the amounts it is made of are: with no sample there is none to judge.
LEMMA RatioJudged ==
    ASSUME NEW over \in Nat, NEW n \in Nat, NEW bound \in Nat, NEW least \in Nat \ {0},
           NEW operator \in {"<=", ">="}
    PROVE  LET value == Ratio(over, n, n)
               reached == IF operator = "<=" THEN over <= bound * n ELSE over >= bound * n
           IN  (IF value.samples < least THEN "insufficient"
                ELSE IF Passes(value, operator, bound) THEN "pass" ELSE "fail")
               = Judged(n, least, reached)
<1>1. CASE n = 0
  BY <1>1 DEF Ratio, Measured, Judged
<1>2. CASE n # 0
  BY <1>2 DEF Ratio, Measured, Judged, Passes
<1> QED
  BY <1>1, <1>2

\* What the row of a list says against any target is what the list says.
LEMMA VerdictsOfSummary ==
    ASSUME Summarises(metrics, log), NEW bound \in Nat, NEW least \in Nat \ {0},
           NEW window \in Nat \ {0}
    PROVE  VerdictsAt(Snapshot(metrics, window), bound, least)
<1> DEFINE packs == Of(log, Pack)
           n == Cardinality(packs)
           warmups == Of(log, Warmup)
           w == Cardinality(warmups)
           elapsed == Total(log, packs, Elapsed)
           warming == Total(log, warmups, Elapsed)
           refresh == Total(log, packs, Refresh)
           saved == Total(log, packs, Saved)
           deferred == Total(log, packs, Deferred)
           hits == Total(log, packs, Hits)
           misses == Total(log, packs, Misses)
           upto == [operator |-> "<=", target |-> bound, samples |-> least]
           atleast == [operator |-> ">=", target |-> bound, samples |-> least]
           pack == metrics.operations[Pack]
           warm == metrics.operations[Warmup]
           row == Snapshot(metrics, window)
<1>1. /\ metrics \in Row /\ log \in Seq(Numbered) /\ RecentAgrees(metrics, log)
      /\ PacksAgree(metrics, log)
      /\ OperationAgrees(metrics, log, Pack) /\ OperationAgrees(metrics, log, Warmup)
  BY MetricsAssumption DEF Summarises
<1>2. /\ metrics.operations[Pack] \in Stats /\ metrics.operations[Warmup] \in Stats
      /\ metrics.refreshes \in Stats /\ metrics.saved \in Nat /\ metrics.deferred \in Nat
      /\ metrics.fragmentHits \in Nat /\ metrics.fragmentMisses \in Nat
  BY <1>1, MetricsAssumption DEF Row
<1>3. /\ pack.n = n /\ pack.total = elapsed /\ warm.n = w /\ warm.total = warming
      /\ metrics.refreshes.n = n /\ metrics.refreshes.total = refresh
      /\ metrics.saved = saved /\ metrics.deferred = deferred
      /\ metrics.fragmentHits = hits /\ metrics.fragmentMisses = misses
  BY <1>1 DEF PacksAgree, OperationAgrees
<1>4. /\ n \in Nat /\ w \in Nat /\ elapsed \in Nat /\ warming \in Nat /\ refresh \in Nat
      /\ saved \in Nat /\ deferred \in Nat /\ hits \in Nat /\ misses \in Nat
  BY <1>2, <1>3 DEF Stats
<1>14. /\ row.operations = metrics.operations /\ row.refreshes = metrics.refreshes
       /\ row.saved = metrics.saved /\ row.deferred = metrics.deferred
       /\ row.fragmentHits = metrics.fragmentHits
       /\ row.fragmentMisses = metrics.fragmentMisses /\ Stands(row, log)
  BY <1>1, SnapshotOf
<1> HIDE DEF packs, n, warmups, w, elapsed, warming, refresh, saved, deferred, hits, misses,
             pack, warm, row
<1>5. upto.operator = "<=" /\ upto.target = bound /\ upto.samples = least
      /\ atleast.operator = ">=" /\ atleast.target = bound /\ atleast.samples = least
  OBVIOUS
<1> HIDE DEF upto, atleast
<1>6. /\ Value(row, "average") = Ratio(elapsed, n, n)
      /\ Value(row, "refresh") = Ratio(refresh, n, n)
      /\ Value(row, "warmup") = Ratio(warming, w, w)
      /\ Value(row, "saved") = Ratio(saved, n, n)
      /\ Value(row, "fragments") = Ratio(hits, hits + misses, hits + misses)
      /\ Value(row, "deferred") = Measured(deferred, 1, n)
  BY <1>3, <1>14 DEF Value, pack, warm
<1>7. Verdict(row, "average", upto) = Judged(n, least, elapsed <= bound * n)
  BY <1>4, <1>5, <1>6, RatioJudged DEF Verdict
<1>8. Verdict(row, "saved", atleast) = Judged(n, least, saved >= bound * n)
  BY <1>4, <1>5, <1>6, RatioJudged DEF Verdict
<1>9. Verdict(row, "refresh", upto) = Judged(n, least, refresh <= bound * n)
  BY <1>4, <1>5, <1>6, RatioJudged DEF Verdict
<1>10. Verdict(row, "warmup", upto) = Judged(w, least, warming <= bound * w)
  BY <1>4, <1>5, <1>6, RatioJudged DEF Verdict
<1>11. Verdict(row, "fragments", atleast) =
         Judged(hits + misses, least, hits >= bound * (hits + misses))
  <2>1. hits + misses \in Nat
    BY <1>4
  <2> QED
    BY <1>4, <1>5, <1>6, <2>1, RatioJudged DEF Verdict
<1>12. Verdict(row, "deferred", atleast) = Judged(n, least, deferred >= bound)
  BY <1>4, <1>5, <1>6 DEF Verdict, Measured, Passes, Judged
<1>13. Verdict(row, "p95", upto) # "insufficient" => n >= least
  <2> DEFINE times == PackTimes(row)
             samples == Cardinality(DOMAIN times)
  <2>1. samples \in Nat /\ samples <= n
    BY <1>1, <1>14, SamplesArePacks DEF n, packs
  <2>2. Value(row, "p95") = IF samples = 0 THEN Measured(0, 1, 0)
                                ELSE Measured(Percentile(times, 95), 100, samples)
    BY DEF Value
  <2> HIDE DEF samples, times
  <2>3. Value(row, "p95").samples = samples
    BY <2>1, <2>2 DEF Measured
  <2>4. samples < least => Verdict(row, "p95", upto) = "insufficient"
    BY <1>5, <2>3 DEF Verdict
  <2> QED
    BY <1>4, <2>1, <2>4
<1> QED
  BY <1>7, <1>8, <1>9, <1>10, <1>11, <1>12, <1>13
  DEF VerdictsAt, packs, n, warmups, w, elapsed, warming, refresh, saved, deferred, hits, misses,
      upto, atleast, row

\* The recent packs have the percentile they are said to have.
LEMMA PercentileOfPacks ==
    ASSUME Summarises(metrics, log), NEW percent \in 0..100, NEW window \in Nat \ {0},
           DOMAIN PackTimes(Snapshot(metrics, window)) # {}
    PROVE  RanksProperly(PackTimes(Snapshot(metrics, window)), percent)
<1>1. PICK times : times = PackTimes(Snapshot(metrics, window))
  OBVIOUS
<1>5. log \in Seq(Numbered) /\ Stands(Snapshot(metrics, window), log)
  BY SnapshotOf DEF Summarises
<1>2. PICK D : D = DOMAIN times
  OBVIOUS
<1>3. D \in SUBSET Nat /\ IsFiniteSet(D) /\ times \in [D -> Nat] /\ D # {}
  BY <1>1, <1>2, <1>5, SamplesArePacks
<1>4. RanksProperly(times, percent)
  BY <1>3, PercentileRanks
<1> QED
  BY <1>1, <1>4

\* Against any target, for any number of samples asked for and however many recent
\* events the snapshot shows, the verdicts are what the packs and the warm-ups of the
\* list say, and any percentile of the packs shown has its share of them below it and
\* the rest above.
AnyTarget ==
    \A window \in Nat \ {0} :
        LET row == Snapshot(metrics, window)  times == PackTimes(row) IN
        /\ \A bound \in Nat, least \in Nat \ {0} : VerdictsAt(row, bound, least)
        /\ \A percent \in 0..100 : DOMAIN times # {} => RanksProperly(times, percent)

LEMMA TargetsMet ==
    ASSUME IInv
    PROVE  AnyTarget
<1>1. Summarises(metrics, log)
  BY DEF IInv, StoreInv
<1> QED
  BY <1>1, VerdictsOfSummary, PercentileOfPacks DEF AnyTarget

THEOREM VerdictsForAnyTarget == Spec => []AnyTarget
BY TargetsMet, MetricsInvariant, PTL

\* The same for the targets and the two snapshots of the runs.
THEOREM VerdictsOfOneList == Spec => []VerdictsAreOfPacks
<1>1. IInv => VerdictsAreOfPacks
  <2> SUFFICES ASSUME IInv PROVE VerdictsAreOfPacks
    OBVIOUS
  <2>1. \A window \in Windows : window \in Nat \ {0}
    BY MetricsAssumption DEF Windows
  <2>2. \A bound \in {1, 2}, least \in {1, 3} : bound \in Nat /\ least \in Nat \ {0}
    OBVIOUS
  <2>3. 95 \in 0..100
    OBVIOUS
  <2> QED
    BY <2>1, <2>2, <2>3, TargetsMet DEF AnyTarget, VerdictsAreOfPacks
<1> QED
  BY <1>1, MetricsInvariant, PTL
=============================================================================
