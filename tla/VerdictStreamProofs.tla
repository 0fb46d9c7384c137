------------------------ MODULE VerdictStreamProofs ------------------------
(***************************************************************************)
(* Proofs about VerdictStream, for every set of events, tabs and           *)
(* categories, and all bounds.  A verdict is missed only by a late join    *)
(* because what was committed is never ahead of what was handled           *)
(* (CommitFollows): a restart then falls back on covered ground.  Charts   *)
(* agree because the counts are numbers of units (TrendsInv): each sum the *)
(* page takes is the number of units in the rows it sums (FoldCounts).     *)
(***************************************************************************)
EXTENDS VerdictStream, FiniteSetTheorems, WellFoundedInduction, TLAPS

-----------------------------------------------------------------------------
(* The charts.  An event of several categories counts once in each of      *)
(* them: it is as many units, each of one row, and every sum of counts is  *)
(* the number of units in the rows that are summed.                        *)

\* The element the folds of the library take first.
FirstOf(s) == CHOOSE x \in s : TRUE

\* Induction over the subsets of a finite set, for sets of subsets.
LEMMA SubsetInduction ==
    ASSUME NEW S, IsFiniteSet(S), NEW Good, Good \subseteq SUBSET S, {} \in Good,
           \A s \in SUBSET S : s # {} /\ s \ {FirstOf(s)} \in Good => s \in Good
    PROVE  Good = SUBSET S
<1> SUFFICES ASSUME Good # SUBSET S PROVE FALSE
  OBVIOUS
<1> DEFINE bad == SUBSET S \ Good
           less == StrictSubsetOrdering(S)
<1>1. bad # {} /\ bad \subseteq SUBSET S
  OBVIOUS
<1>2. IsWellFoundedOn(less, SUBSET S)
  <2>1. IsWellFoundedOn(less, FiniteSubsetsOf(S))
    BY FS_StrictSubsetOrderingWellFounded
  <2>2. FiniteSubsetsOf(S) = SUBSET S
    BY FS_FiniteSubsetsOfFinite
  <2> HIDE DEF less
  <2> QED
    BY <2>1, <2>2
<1>3. PICK s \in bad : \A y \in bad : ~(<<y, s>> \in less)
  <2> HIDE DEF bad, less
  <2> QED
    BY <1>1, <1>2, WFMin
<1>4. PICK x \in s : x = FirstOf(s)
  <2>1. FirstOf(s) \in s
    BY <1>3 DEF FirstOf
  <2> QED
    BY <2>1
<1>5. <<s \ {x}, s>> \in less /\ s \in SUBSET S
  BY <1>4 DEF StrictSubsetOrdering
<1>6. s \ {x} \in Good /\ s # {} /\ s \notin Good
  BY <1>3, <1>4, <1>5
<1> QED
  BY <1>4, <1>5, <1>6

\* sum is the fold of g over the subsets of S.
Folds(sum, g, S) ==
    sum = [s \in SUBSET S |-> IF s = {} THEN 0 ELSE g[FirstOf(s)] + sum[s \ {FirstOf(s)}]]

\* g counts, for each y of S, the members of U that f sends to y.
CountsFibres(g, f, U, S) ==
    \A y \in S : g[y] = Cardinality({u \in U : f[u] = y})

\* The members of U that f sends into s.
Over(f, U, s) == {u \in U : f[u] \in s}

\* Taking an element off s takes its fibre off.
LEMMA OverSplits ==
    ASSUME NEW U, IsFiniteSet(U), NEW f, NEW s, NEW x \in s
    PROVE  /\ Cardinality(Over(f, U, s)) \in Nat
           /\ Cardinality(Over(f, U, s))
                = Cardinality({u \in U : f[u] = x}) + Cardinality(Over(f, U, s \ {x}))
<1> DEFINE one == {u \in U : f[u] = x}
           rest == Over(f, U, s \ {x})
<1>1. IsFiniteSet(one) /\ IsFiniteSet(rest)
  BY FS_Subset DEF Over
<1>2. Over(f, U, s) = one \cup rest /\ one \cap rest = {}
  BY DEF Over
<1>3. Cardinality(one) \in Nat /\ Cardinality(rest) \in Nat /\ Cardinality({}) = 0
  BY <1>1, FS_CardinalityType, FS_EmptySet
<1> HIDE DEF one, rest
<1>4. Cardinality(one \cup rest)
        = Cardinality(one) + Cardinality(rest) - Cardinality(one \cap rest)
  BY <1>1, FS_Union
<1>5. Cardinality(Over(f, U, s)) = Cardinality(one) + Cardinality(rest)
  <2>1. Cardinality(one \cap rest) = 0
    BY <1>2, <1>3
  <2>2. Cardinality(Over(f, U, s)) = Cardinality(one \cup rest)
    BY <1>2
  <2> QED
    BY <1>3, <1>4, <2>1, <2>2
<1>6. Cardinality(Over(f, U, s)) \in Nat
  BY <1>3, <1>5
<1> QED
  BY <1>5, <1>6 DEF one, rest

\* Some function folds g: the one that counts.
LEMMA FoldExists ==
    ASSUME NEW U, IsFiniteSet(U), NEW f, NEW S, NEW g, CountsFibres(g, f, U, S)
    PROVE  \E sum : Folds(sum, g, S)
<1> DEFINE sum == [s \in SUBSET S |-> Cardinality(Over(f, U, s))]
<1>1. ASSUME NEW s \in SUBSET S
      PROVE  sum[s] = IF s = {} THEN 0 ELSE g[FirstOf(s)] + sum[s \ {FirstOf(s)}]
  <2>1. CASE s = {}
    <3>1. Over(f, U, s) = {}
      BY <2>1 DEF Over
    <3> QED
      BY <2>1, <3>1, FS_EmptySet
  <2>2. CASE s # {}
    <3>1. FirstOf(s) \in s /\ s \ {FirstOf(s)} \in SUBSET S
      BY <2>2 DEF FirstOf
    <3>2. PICK x : x = FirstOf(s)
      OBVIOUS
    <3>3. g[x] = Cardinality({u \in U : f[u] = x})
      BY <3>1, <3>2 DEF CountsFibres
    <3>4. Cardinality(Over(f, U, s)) = g[x] + Cardinality(Over(f, U, s \ {x}))
      BY <3>1, <3>2, <3>3, OverSplits
    <3> QED
      BY <2>2, <3>1, <3>2, <3>4
  <2> QED
    BY <2>1, <2>2
<1>2. sum = [s \in SUBSET S |-> IF s = {} THEN 0 ELSE g[FirstOf(s)] + sum[s \ {FirstOf(s)}]]
  BY <1>1
<1> QED
  BY <1>2 DEF Folds

\* What folds g counts the members of U over S, in whatever order it takes them.
LEMMA FoldCounts ==
    ASSUME NEW U, IsFiniteSet(U), NEW f, NEW S, IsFiniteSet(S), NEW g,
           CountsFibres(g, f, U, S), NEW sum, Folds(sum, g, S)
    PROVE  sum[S] = Cardinality(Over(f, U, S))
<1> DEFINE good == {s \in SUBSET S : sum[s] = Cardinality(Over(f, U, s))}
<1>1. {} \in good
  <2>1. Over(f, U, {}) = {}
    BY DEF Over
  <2>2. sum[{}] = 0
    BY DEF Folds
  <2> QED
    BY <2>1, <2>2, FS_EmptySet
<1>2. ASSUME NEW s \in SUBSET S, s # {}, s \ {FirstOf(s)} \in good PROVE s \in good
  <2>1. PICK x : x = FirstOf(s)
    OBVIOUS
  <2>2. x \in s
    BY <1>2, <2>1 DEF FirstOf
  <2>3. sum[s] = g[x] + sum[s \ {x}]
    BY <1>2, <2>1 DEF Folds
  <2>4. g[x] = Cardinality({u \in U : f[u] = x})
    BY <2>2 DEF CountsFibres
  <2>5. sum[s \ {x}] = Cardinality(Over(f, U, s \ {x}))
    BY <1>2, <2>1
  <2>6. Cardinality(Over(f, U, s)) = g[x] + Cardinality(Over(f, U, s \ {x}))
    BY <2>2, <2>4, OverSplits
  <2> QED
    BY <2>3, <2>5, <2>6
<1>3. good = SUBSET S
  <2>1. good \subseteq SUBSET S
    OBVIOUS
  <2> HIDE DEF good
  <2> QED
    BY <1>1, <1>2, <2>1, SubsetInduction
<1> QED
  BY <1>3
\* The sum of the values of g.
SumOver(g, S) == Sum(LAMBDA y : g[y], S)

\* The sum of the values of a function that counts fibres.
LEMMA SumOfFunction ==
    ASSUME NEW U, IsFiniteSet(U), NEW f, NEW S, IsFiniteSet(S), NEW g, CountsFibres(g, f, U, S)
    PROVE  SumOver(g, S) = Cardinality(Over(f, U, S))
<1> DEFINE sum == CHOOSE h : h = [s \in SUBSET S |->
                      IF s = {} THEN 0 ELSE g[FirstOf(s)] + h[s \ {FirstOf(s)}]]
<1>1. Folds(sum, g, S)
  <2>1. \E h : Folds(h, g, S)
    BY FoldExists
  <2> QED
    BY <2>1 DEF Folds
<1>2. SumOver(g, S) = sum[S]
  BY DEF SumOver, Sum, MapThenSumSet, MapThenFoldSet, FirstOf
<1> HIDE DEF sum
<1> QED
  BY <1>1, <1>2, FoldCounts

\* The sum of the counts of rows that are fibres.
LEMMA TotalCounts ==
    ASSUME NEW U, IsFiniteSet(U), NEW f, NEW S, IsFiniteSet(S),
           \A x \in S : x.count = Cardinality({u \in U : f[u] = x})
    PROVE  Total(S) = Cardinality(Over(f, U, S))
<1> DEFINE g == [x \in S |-> x.count]
           sum == CHOOSE h : h = [s \in SUBSET S |->
                      IF s = {} THEN 0 ELSE FirstOf(s).count + h[s \ {FirstOf(s)}]]
<1>1. CountsFibres(g, f, U, S)
  BY DEF CountsFibres
<1>2. ASSUME NEW s \in SUBSET S, s # {} PROVE g[FirstOf(s)] = FirstOf(s).count
  BY <1>2 DEF FirstOf
<1>3. \E h : Folds(h, g, S)
  <2> HIDE DEF g
  <2> QED
    BY <1>1, FoldExists
<1>4. ASSUME NEW h
      PROVE  Folds(h, g, S) <=> h = [s \in SUBSET S |->
                 IF s = {} THEN 0 ELSE FirstOf(s).count + h[s \ {FirstOf(s)}]]
  <2> HIDE DEF g
  <2> QED
    BY <1>2 DEF Folds
<1>5. Folds(sum, g, S)
  <2> HIDE DEF g
  <2>1. sum = [s \in SUBSET S |->
                 IF s = {} THEN 0 ELSE FirstOf(s).count + sum[s \ {FirstOf(s)}]]
    BY <1>3, <1>4
  <2> HIDE DEF sum
  <2> QED
    BY <1>4, <2>1
<1>6. Total(S) = sum[S]
  BY DEF Total, Sum, MapThenSumSet, MapThenFoldSet, FirstOf
<1> HIDE DEF sum, g
<1> QED
  BY <1>1, <1>5, <1>6, FoldCounts

\* How often the events of S count, and how many categories they have.
TimesCounted(S) == Sum(LAMBDA i : Len(Buckets(i)), S)
CategoriesOf(S) == Sum(LAMBDA i : Len(Fact[i].categories), S)

\* The sum of the lengths of the buckets of events.
LEMMA BucketsCount ==
    ASSUME NEW U, IsFiniteSet(U), NEW f, NEW S, IsFiniteSet(S),
           \A i \in S : Len(Buckets(i)) = Cardinality({u \in U : f[u] = i})
    PROVE  TimesCounted(S) = Cardinality(Over(f, U, S))
<1> DEFINE g == [i \in S |-> Len(Buckets(i))]
           sum == CHOOSE h : h = [s \in SUBSET S |->
                      IF s = {} THEN 0 ELSE Len(Buckets(FirstOf(s))) + h[s \ {FirstOf(s)}]]
<1>1. CountsFibres(g, f, U, S)
  BY DEF CountsFibres
<1>2. ASSUME NEW s \in SUBSET S, s # {} PROVE g[FirstOf(s)] = Len(Buckets(FirstOf(s)))
  BY <1>2 DEF FirstOf
<1>3. \E h : Folds(h, g, S)
  <2> HIDE DEF g
  <2> QED
    BY <1>1, FoldExists
<1>4. ASSUME NEW h
      PROVE  Folds(h, g, S) <=> h = [s \in SUBSET S |->
                 IF s = {} THEN 0 ELSE Len(Buckets(FirstOf(s))) + h[s \ {FirstOf(s)}]]
  <2> HIDE DEF g
  <2> QED
    BY <1>2 DEF Folds
<1>5. Folds(sum, g, S)
  <2> HIDE DEF g
  <2>1. sum = [s \in SUBSET S |->
                 IF s = {} THEN 0 ELSE Len(Buckets(FirstOf(s))) + sum[s \ {FirstOf(s)}]]
    BY <1>3, <1>4
  <2> HIDE DEF sum
  <2> QED
    BY <1>4, <2>1
<1>6. TimesCounted(S) = sum[S]
  BY DEF TimesCounted, Sum, MapThenSumSet, MapThenFoldSet, FirstOf
<1> HIDE DEF sum, g
<1> QED
  BY <1>1, <1>5, <1>6, FoldCounts

\* The sum of the numbers of categories of events.
LEMMA CategoriesCount ==
    ASSUME NEW U, IsFiniteSet(U), NEW f, NEW S, IsFiniteSet(S),
           \A i \in S : Len(Fact[i].categories) = Cardinality({u \in U : f[u] = i})
    PROVE  CategoriesOf(S) = Cardinality(Over(f, U, S))
<1> DEFINE g == [i \in S |-> Len(Fact[i].categories)]
           sum == CHOOSE h : h = [s \in SUBSET S |->
                      IF s = {} THEN 0
                      ELSE Len(Fact[FirstOf(s)].categories) + h[s \ {FirstOf(s)}]]
<1>1. CountsFibres(g, f, U, S)
  BY DEF CountsFibres
<1>2. ASSUME NEW s \in SUBSET S, s # {}
      PROVE  g[FirstOf(s)] = Len(Fact[FirstOf(s)].categories)
  BY <1>2 DEF FirstOf
<1>3. \E h : Folds(h, g, S)
  <2> HIDE DEF g
  <2> QED
    BY <1>1, FoldExists
<1>4. ASSUME NEW h
      PROVE  Folds(h, g, S) <=> h = [s \in SUBSET S |->
                 IF s = {} THEN 0
                 ELSE Len(Fact[FirstOf(s)].categories) + h[s \ {FirstOf(s)}]]
  <2> HIDE DEF g
  <2> QED
    BY <1>2 DEF Folds
<1>5. Folds(sum, g, S)
  <2> HIDE DEF g
  <2>1. sum = [s \in SUBSET S |->
                 IF s = {} THEN 0
                 ELSE Len(Fact[FirstOf(s)].categories) + sum[s \ {FirstOf(s)}]]
    BY <1>3, <1>4
  <2> HIDE DEF sum
  <2> QED
    BY <1>4, <2>1
<1>6. CategoriesOf(S) = sum[S]
  BY DEF CategoriesOf, Sum, MapThenSumSet, MapThenFoldSet, FirstOf
<1> HIDE DEF sum, g
<1> QED
  BY <1>1, <1>5, <1>6, FoldCounts

\* A unit of event i: one of the entries of its buckets.
UnitsOf(i) == {i} \X (1..Len(Buckets(i)))
Units(E) == UNION {UnitsOf(i) : i \in E}

\* The row a unit counts in.
RowOf(u) == [date |-> Fact[u[1]].day, category |-> Buckets(u[1])[u[2]],
             verdict |-> Fact[u[1]].verdict]

\* The units of E in row r.
InRow(E, r) == {u \in Units(E) : RowOf(u) = r}

\* The values of a function on a finite set are finitely many.
LEMMA FiniteValues ==
    ASSUME NEW S, IsFiniteSet(S), NEW f
    PROVE  IsFiniteSet({f[x] : x \in S})
<1> DEFINE T == {f[x] : x \in S}
           h == [x \in S |-> f[x]]
<1>1. h \in Surjection(S, T)
  BY DEF Surjection
<1> HIDE DEF h, T
<1>2. IsFiniteSet(T)
  BY <1>1, FS_Surjection
<1> QED
  BY <1>2 DEF T

\* The buckets of an event.
LEMMA BucketsTyped ==
    ASSUME NEW i \in Events
    PROVE  /\ Fact[i].day \in 0..MaxDay /\ Fact[i].verdict \in Verdicts \cup {"other"}
           /\ Fact[i].categories \in Seq(Categories)
           /\ Buckets(i) \in Seq(Categories \cup {UNCATEGORIZED})
           /\ Len(Buckets(i)) \in Nat /\ Len(Buckets(i)) >= 1
<1>1. /\ Fact[i].day \in 0..MaxDay /\ Fact[i].verdict \in Verdicts \cup {"other"}
      /\ Fact[i].categories \in Seq(Categories)
  BY FactAssumption
<1>2. CASE Fact[i].categories = <<>>
  <2>1. Buckets(i) = <<UNCATEGORIZED>>
    BY <1>2 DEF Buckets
  <2>2. <<UNCATEGORIZED>> \in Seq(Categories \cup {UNCATEGORIZED})
    OBVIOUS
  <2> QED
    BY <1>1, <2>1, <2>2
<1>3. CASE Fact[i].categories # <<>>
  <2>1. PICK cats : cats = Fact[i].categories
    OBVIOUS
  <2>2. Buckets(i) = cats /\ cats \in Seq(Categories) /\ cats # <<>>
    BY <1>1, <1>3, <2>1 DEF Buckets
  <2>3. Len(cats) \in Nat /\ Len(cats) >= 1
    BY <2>2
  <2>4. cats \in Seq(Categories \cup {UNCATEGORIZED})
    BY <2>2
  <2> QED
    BY <1>1, <2>2, <2>3, <2>4
<1> QED
  BY <1>2, <1>3

\* An event has as many units as buckets, each in a row of its day and verdict.
LEMMA UnitsOfEvent ==
    ASSUME NEW i \in Events
    PROVE  /\ IsFiniteSet(UnitsOf(i)) /\ Cardinality(UnitsOf(i)) = Len(Buckets(i))
           /\ \A u \in UnitsOf(i) : u[1] = i /\ RowOf(u) \in Rows
<1>1. PICK n : n = Len(Buckets(i))
  OBVIOUS
<1>2. n \in Nat /\ n >= 1
  BY <1>1, BucketsTyped
<1>3. IsFiniteSet(1..n) /\ Cardinality(1..n) = n
  BY <1>2, FS_Interval
<1>4. IsFiniteSet({i}) /\ Cardinality({i}) = 1
  BY FS_Singleton
<1>5. IsFiniteSet({i} \X (1..n)) /\ Cardinality({i} \X (1..n)) = 1 * n
  BY <1>3, <1>4, FS_Product
<1>6. ASSUME NEW u \in UnitsOf(i) PROVE u[1] = i /\ RowOf(u) \in Rows
  <2>1. u[1] = i /\ u[2] \in 1..Len(Buckets(i))
    BY <1>6 DEF UnitsOf
  <2>2. Buckets(i)[u[2]] \in Categories \cup {UNCATEGORIZED}
    BY <2>1, BucketsTyped
  <2> QED
    BY <2>1, <2>2, BucketsTyped DEF RowOf, Rows
<1> QED
  BY <1>1, <1>2, <1>5, <1>6 DEF UnitsOf

\* Finitely many events have finitely many units, each of a row.
LEMMA UnitsFinite ==
    ASSUME NEW E \in SUBSET Events, IsFiniteSet(E)
    PROVE  /\ IsFiniteSet(Units(E))
           /\ \A u \in Units(E) : u[1] \in E /\ u \in UnitsOf(u[1]) /\ RowOf(u) \in Rows
<1> DEFINE h == [i \in E |-> UnitsOf(i)]
           family == {h[i] : i \in E}
<1>1. IsFiniteSet(family)
  <2> HIDE DEF h
  <2> QED
    BY FiniteValues
<1>2. \A T \in family : IsFiniteSet(T)
  BY UnitsOfEvent
<1>3. IsFiniteSet(UNION family)
  <2> HIDE DEF family
  <2> QED
    BY <1>1, <1>2, FS_UNION
<1>4. Units(E) = UNION family
  BY DEF Units
<1>5. ASSUME NEW u \in Units(E)
      PROVE  u[1] \in E /\ u \in UnitsOf(u[1]) /\ RowOf(u) \in Rows
  <2>1. PICK i \in E : u \in UnitsOf(i)
    BY DEF Units
  <2> QED
    BY <2>1, UnitsOfEvent
<1> QED
  BY <1>3, <1>4, <1>5

\* An event weighs in row r what it has of units there.
LEMMA WeightCounts ==
    ASSUME NEW i \in Events, NEW r \in Rows
    PROVE  Weight(i, r) = Cardinality({u \in UnitsOf(i) : RowOf(u) = r})
<1> DEFINE there == {u \in UnitsOf(i) : RowOf(u) = r}
           places == {n \in 1..Len(Buckets(i)) : Buckets(i)[n] = r.category}
<1>1. CASE r.date = Fact[i].day /\ r.verdict = Fact[i].verdict
  <2>1. ASSUME NEW n \in 1..Len(Buckets(i))
        PROVE  n \in places <=> <<i, n>> \in there
    <3>1. <<i, n>> \in UnitsOf(i) /\ <<i, n>>[1] = i /\ <<i, n>>[2] = n
      BY DEF UnitsOf
    <3>2. RowOf(<<i, n>>) = [date |-> Fact[i].day, category |-> Buckets(i)[n],
                             verdict |-> Fact[i].verdict]
      BY <3>1 DEF RowOf
    <3>3. r = [date |-> r.date, category |-> r.category, verdict |-> r.verdict]
      BY DEF Rows
    <3>4. RowOf(<<i, n>>) = r <=> Buckets(i)[n] = r.category
      BY <1>1, <3>2, <3>3
    <3> QED
      BY <3>1, <3>4
  <2>2. IsFiniteSet(places)
    <3>1. IsFiniteSet(1..Len(Buckets(i)))
      BY BucketsTyped, FS_Interval
    <3> QED
      BY <3>1, FS_Subset
  <2> DEFINE h == [n \in places |-> <<i, n>>]
  <2>3. h \in Bijection(places, there)
    <3>1. \A n \in places : n \in 1..Len(Buckets(i))
      OBVIOUS
    <3>2. \A u \in there : \E n \in 1..Len(Buckets(i)) : u = <<i, n>>
      BY DEF UnitsOf
    <3> HIDE DEF places, there
    <3>3. h \in [places -> there]
      BY <2>1, <3>1
    <3>4. \A m, n \in places : h[m] = h[n] => m = n
      OBVIOUS
    <3>5. \A u \in there : \E n \in places : h[n] = u
      BY <2>1, <3>2
    <3> QED
      BY <3>3, <3>4, <3>5 DEF Bijection, Injection, Surjection, IsInjective
  <2>4. Weight(i, r) = Cardinality(places)
    BY <1>1 DEF Weight
  <2> HIDE DEF h, places, there
  <2>5. Cardinality(there) = Cardinality(places)
    BY <2>2, <2>3, FS_Bijection DEF ExistsBijection
  <2> QED
    BY <2>4, <2>5 DEF there
<1>2. CASE ~(r.date = Fact[i].day /\ r.verdict = Fact[i].verdict)
  <2>1. there = {}
    <3>1. ASSUME NEW u \in UnitsOf(i), RowOf(u) = r PROVE FALSE
      BY <1>2, <3>1, UnitsOfEvent DEF RowOf
    <3> QED
      BY <3>1
  <2>2. Weight(i, r) = 0
    BY <1>2 DEF Weight
  <2> QED
    BY <2>1, <2>2, FS_EmptySet
<1> QED
  BY <1>1, <1>2

\* Counting one more event adds its weight to each row.
LEMMA OneMoreEvent ==
    ASSUME NEW E \in SUBSET Events, IsFiniteSet(E), NEW i \in Events, i \notin E,
           NEW r \in Rows
    PROVE  Cardinality(InRow(E \cup {i}, r)) = Cardinality(InRow(E, r)) + Weight(i, r)
<1> DEFINE there == {u \in UnitsOf(i) : RowOf(u) = r}
<1>1. IsFiniteSet(InRow(E, r)) /\ IsFiniteSet(there)
  <2>1. IsFiniteSet(Units(E)) /\ IsFiniteSet(UnitsOf(i))
    BY UnitsFinite, UnitsOfEvent
  <2> QED
    BY <2>1, FS_Subset DEF InRow
<1>2. InRow(E \cup {i}, r) = InRow(E, r) \cup there
  BY DEF InRow, Units
<1>3. InRow(E, r) \cap there = {}
  <2>1. \A u \in InRow(E, r) : u[1] \in E
    BY UnitsFinite DEF InRow
  <2>2. \A u \in there : u[1] = i
    BY UnitsOfEvent
  <2> QED
    BY <2>1, <2>2
<1>4. Weight(i, r) = Cardinality(there)
  BY WeightCounts
<1> HIDE DEF there
<1>5. /\ Cardinality(InRow(E, r)) \in Nat /\ Cardinality(there) \in Nat
      /\ Cardinality({}) = 0
  BY <1>1, FS_CardinalityType, FS_EmptySet
<1>6. Cardinality(InRow(E, r) \cup there)
        = Cardinality(InRow(E, r)) + Cardinality(there) - Cardinality(InRow(E, r) \cap there)
  BY <1>1, FS_Union
<1>7. Cardinality(InRow(E, r) \cap there) = 0
  BY <1>3, <1>5
<1>8. Cardinality(InRow(E \cup {i}, r)) = Cardinality(InRow(E, r) \cup there)
  BY <1>2
<1> QED
  BY <1>4, <1>5, <1>6, <1>7, <1>8

\* The rows trendsSince() answers when the events of E are counted.
RowsOf(E, cutoff) ==
    {[row |-> r, count |-> Cardinality(InRow(E, r))] :
        r \in {x \in Rows : Cardinality(InRow(E, x)) > 0 /\ x.date >= cutoff}}

\* The units they show, and the fetched row each is shown in.
Shown(E, cutoff) == {u \in Units(E) : RowOf(u).date >= cutoff}
ShownIn(E, cutoff) ==
    [u \in Shown(E, cutoff) |->
        [row |-> RowOf(u), count |-> Cardinality(InRow(E, RowOf(u)))]]

\* A fetched row is of the row of each of its units, and counts them.
LEMMA RowsAreFibres ==
    ASSUME NEW E \in SUBSET Events, IsFiniteSet(E), NEW cutoff \in Int,
           NEW U, U = Shown(E, cutoff), NEW f, f = ShownIn(E, cutoff),
           NEW P, P = RowsOf(E, cutoff)
    PROVE  /\ IsFiniteSet(U) /\ IsFiniteSet(P)
           /\ \A u \in U : /\ u[1] \in E /\ u \in UnitsOf(u[1]) /\ RowOf(u) \in Rows
                           /\ f[u] \in P /\ f[u].row = RowOf(u)
           /\ \A x \in P : /\ x.row \in Rows
                           /\ x.count = Cardinality({u \in U : f[u] = x})
<1>1. IsFiniteSet(Units(E)) /\ IsFiniteSet(U)
  BY UnitsFinite, FS_Subset DEF Shown
<1>2. ASSUME NEW u \in U
      PROVE  /\ u \in Units(E) /\ RowOf(u) \in Rows /\ RowOf(u).date >= cutoff
             /\ u[1] \in E /\ u \in UnitsOf(u[1])
             /\ f[u] = [row |-> RowOf(u), count |-> Cardinality(InRow(E, RowOf(u)))]
             /\ f[u].row = RowOf(u)
  BY <1>2, UnitsFinite DEF Shown, ShownIn
<1>3. ASSUME NEW u \in U PROVE f[u] \in P
  <2>1. PICK r : r = RowOf(u)
    OBVIOUS
  <2>2. r \in Rows /\ r.date >= cutoff /\ u \in InRow(E, r)
    BY <1>2, <2>1 DEF InRow
  <2>3. Cardinality(InRow(E, r)) > 0
    <3>1. IsFiniteSet(InRow(E, r))
      BY <1>1, FS_Subset DEF InRow
    <3>2. Cardinality(InRow(E, r)) \in Nat /\ Cardinality(InRow(E, r)) # 0
      BY <2>2, <3>1, FS_CardinalityType, FS_EmptySet
    <3> QED
      BY <3>2
  <2> QED
    BY <1>2, <2>1, <2>2, <2>3 DEF RowsOf
<1>4. ASSUME NEW x \in P
      PROVE  /\ x.row \in Rows /\ x.count = Cardinality({u \in U : f[u] = x})
             /\ \E u \in U : f[u] = x
  <2>1. PICK r \in Rows : /\ x = [row |-> r, count |-> Cardinality(InRow(E, r))]
                          /\ Cardinality(InRow(E, r)) > 0 /\ r.date >= cutoff
    BY DEF RowsOf
  <2>2. ASSUME NEW u \in U PROVE f[u] = x <=> RowOf(u) = r
    <3>1. PICK w : w = RowOf(u)
      OBVIOUS
    <3>2. f[u] = [row |-> w, count |-> Cardinality(InRow(E, w))]
      BY <1>2, <3>1
    <3>3. f[u] = x => w = r
      BY <2>1, <3>2
    <3>4. w = r => f[u] = x
      BY <2>1, <3>2
    <3> QED
      BY <3>1, <3>3, <3>4
  <2>3. ASSUME NEW u \in InRow(E, r) PROVE u \in U
    BY <2>1, <2>3 DEF InRow, Shown
  <2>4. {u \in U : f[u] = x} = InRow(E, r)
    BY <1>2, <2>2, <2>3 DEF InRow
  <2>5. InRow(E, r) # {}
    <3>1. Cardinality({}) = 0
      BY FS_EmptySet
    <3> QED
      BY <2>1, <3>1
  <2>6. \E u \in U : f[u] = x
    BY <2>4, <2>5
  <2>7. x.row = r /\ x.count = Cardinality(InRow(E, r))
    BY <2>1
  <2> QED
    BY <2>4, <2>6, <2>7
<1>5. IsFiniteSet(P)
  <2>1. IsFiniteSet({f[u] : u \in U})
    BY <1>1, FiniteValues
  <2>2. P = {f[u] : u \in U}
    BY <1>3, <1>4
  <2> QED
    BY <2>1, <2>2
<1>6. \A u \in U : /\ u[1] \in E /\ u \in UnitsOf(u[1]) /\ RowOf(u) \in Rows
                   /\ f[u] \in P /\ f[u].row = RowOf(u)
  BY <1>2, <1>3
<1>7. \A x \in P : /\ x.row \in Rows
                   /\ x.count = Cardinality({u \in U : f[u] = x})
  BY <1>4
<1> QED
  BY <1>1, <1>5, <1>6, <1>7

\* A fetched row has a unit.
LEMMA RowsHaveUnits ==
    ASSUME NEW E \in SUBSET Events, IsFiniteSet(E), NEW cutoff \in Int,
           NEW x \in RowsOf(E, cutoff)
    PROVE  \E u \in Shown(E, cutoff) : RowOf(u) = x.row
<1>1. PICK r \in Rows : /\ x = [row |-> r, count |-> Cardinality(InRow(E, r))]
                        /\ Cardinality(InRow(E, r)) > 0 /\ r.date >= cutoff
  BY DEF RowsOf
<1>2. InRow(E, r) # {}
  <2>1. Cardinality({}) = 0
    BY FS_EmptySet
  <2> QED
    BY <1>1, <2>1
<1>3. PICK u \in Units(E) : RowOf(u) = r
  BY <1>2 DEF InRow
<1> QED
  BY <1>1, <1>3 DEF Shown

\* The units shown in the rows of Chosen.
ShownOf(E, cutoff, Chosen) == {u \in Shown(E, cutoff) : RowOf(u) \in Chosen}

\* Rows that are chosen by day and verdict, or by category, count their units.
LEMMA ChosenTotal ==
    ASSUME NEW E \in SUBSET Events, IsFiniteSet(E), NEW cutoff \in Int,
           NEW Chosen \in SUBSET Rows,
           NEW Q \in SUBSET RowsOf(E, cutoff),
           \A x \in RowsOf(E, cutoff) : x \in Q <=> x.row \in Chosen
    PROVE  Total(Q) = Cardinality(ShownOf(E, cutoff, Chosen))
<1>1. PICK f : f = ShownIn(E, cutoff)
  OBVIOUS
<1>2. PICK P : P = RowsOf(E, cutoff)
  OBVIOUS
<1>3. PICK U : U = Shown(E, cutoff)
  OBVIOUS
<1>4. /\ IsFiniteSet(U) /\ IsFiniteSet(P)
      /\ \A u \in U : f[u] \in P /\ f[u].row = RowOf(u)
      /\ \A x \in P : x.count = Cardinality({u \in U : f[u] = x})
  BY <1>1, <1>2, <1>3, RowsAreFibres
<1>5. IsFiniteSet(Q) /\ \A x \in Q : x.count = Cardinality({u \in U : f[u] = x})
  BY <1>2, <1>4, FS_Subset
<1>6. Total(Q) = Cardinality(Over(f, U, Q))
  BY <1>4, <1>5, TotalCounts
<1>7. Over(f, U, Q) = ShownOf(E, cutoff, Chosen)
  BY <1>2, <1>3, <1>4 DEF Over, ShownOf
<1> QED
  BY <1>6, <1>7

\* The events of E that are counted on the days shown.
CountedOf(E, cutoff) == {i \in E : Fact[i].day >= cutoff}

\* Events counted on the days shown have all their units shown, others none.
LEMMA ShownUnits ==
    ASSUME NEW E \in SUBSET Events, IsFiniteSet(E), NEW cutoff \in Int
    PROVE  /\ IsFiniteSet(CountedOf(E, cutoff))
           /\ \A u \in Shown(E, cutoff) : u[1] \in CountedOf(E, cutoff)
           /\ \A i \in CountedOf(E, cutoff) :
                i \in Events /\ {u \in Shown(E, cutoff) : u[1] = i} = UnitsOf(i)
<1>1. \A u \in Units(E) : u[1] \in E /\ u \in UnitsOf(u[1]) /\ RowOf(u).date = Fact[u[1]].day
  BY UnitsFinite DEF RowOf
<1>2. \A u \in Shown(E, cutoff) : u[1] \in CountedOf(E, cutoff)
  BY <1>1 DEF Shown, CountedOf
<1>3. ASSUME NEW i \in CountedOf(E, cutoff)
      PROVE  i \in Events /\ {u \in Shown(E, cutoff) : u[1] = i} = UnitsOf(i)
  <2>1. i \in E /\ i \in Events /\ Fact[i].day >= cutoff
    BY DEF CountedOf
  <2>2. \A u \in UnitsOf(i) : u \in Units(E) /\ u[1] = i
    BY <2>1, UnitsOfEvent DEF Units
  <2>3. \A u \in UnitsOf(i) : u \in Shown(E, cutoff)
    BY <1>1, <2>1, <2>2 DEF Shown
  <2>4. \A u \in Shown(E, cutoff) : u[1] = i => u \in UnitsOf(i)
    BY <1>1 DEF Shown
  <2> QED
    BY <2>1, <2>2, <2>3, <2>4
<1>4. IsFiniteSet(CountedOf(E, cutoff))
  BY FS_Subset DEF CountedOf
<1> QED
  BY <1>2, <1>3, <1>4

\* The tile counts each event once for each bucket.
LEMMA TileCountsBuckets ==
    ASSUME NEW E \in SUBSET Events, IsFiniteSet(E), NEW cutoff \in Int,
           NEW U, U = Shown(E, cutoff)
    PROVE  /\ Total(RowsOf(E, cutoff)) = Cardinality(U)
           /\ TimesCounted(CountedOf(E, cutoff)) = Cardinality(U)
<1>1. PICK P : P = RowsOf(E, cutoff)
  OBVIOUS
<1>2. PICK f : f = ShownIn(E, cutoff)
  OBVIOUS
<1>3. /\ IsFiniteSet(U) /\ \A u \in U : RowOf(u) \in Rows
      /\ \A x \in P : x.row \in Rows
  BY <1>1, <1>2, RowsAreFibres
<1>4. Total(P) = Cardinality(U)
  <2>1. PICK R : R = Rows
    OBVIOUS
  <2>2. P \in SUBSET P /\ (\A x \in P : x \in P <=> x.row \in R) /\ R \in SUBSET Rows
    BY <1>3, <2>1
  <2>3. Total(P) = Cardinality(ShownOf(E, cutoff, R))
    BY <1>1, <2>2, ChosenTotal
  <2>4. ShownOf(E, cutoff, R) = U
    BY <1>3, <2>1 DEF ShownOf
  <2> QED
    BY <2>3, <2>4
<1>5. PICK S : S = CountedOf(E, cutoff)
  OBVIOUS
<1> DEFINE h == [u \in U |-> u[1]]
<1>6. IsFiniteSet(S) /\ \A u \in U : h[u] \in S
  BY <1>5, ShownUnits
<1>7. ASSUME NEW i \in S PROVE Len(Buckets(i)) = Cardinality({u \in U : h[u] = i})
  <2>1. i \in Events /\ {u \in U : u[1] = i} = UnitsOf(i)
    BY <1>5, ShownUnits
  <2>2. {u \in U : h[u] = i} = UnitsOf(i)
    BY <2>1
  <2> HIDE DEF h
  <2> QED
    BY <2>1, <2>2, UnitsOfEvent
<1>8. Over(h, U, S) = U
  BY <1>6 DEF Over
<1> HIDE DEF h
<1>9. TimesCounted(S) = Cardinality(Over(h, U, S))
  BY <1>3, <1>6, <1>7, BucketsCount
<1> QED
  BY <1>1, <1>4, <1>5, <1>8, <1>9

\* The height of the bars of each day.
BarsOf(P) == [d \in DOMAIN VerdictsByDay(P) |->
                 VerdictsByDay(P)[d].approved + VerdictsByDay(P)[d].rejected]

\* The bars of a day are its units, and the bars of all days are all units.
LEMMA BarsCountDays ==
    ASSUME NEW E \in SUBSET Events, IsFiniteSet(E), NEW cutoff \in Int,
           \A i \in E : Fact[i].verdict \in Verdicts,
           NEW P, P = RowsOf(E, cutoff)
    PROVE  /\ SumOver(BarsOf(P), DOMAIN BarsOf(P)) = Cardinality(Shown(E, cutoff))
           /\ \A d \in DOMAIN VerdictsByDay(P) : VerdictsByDay(P)[d].pending = 0
<1>u. PICK U : U = Shown(E, cutoff)
  OBVIOUS
<1> DEFINE D == {x.row.date : x \in P}
           InDay(d) == {x \in P : x.row.date = d}
           of(d, v) == {x \in InDay(d) : x.row.verdict = v}
           rest(d) == {x \in InDay(d) : x.row.verdict \notin Verdicts}
           chosen(d, v) == {r \in Rows : r.date = d /\ r.verdict = v}
           units(d, v) == ShownOf(E, cutoff, chosen(d, v))
           h == [u \in U |-> RowOf(u).date]
<1>1. PICK f : f = ShownIn(E, cutoff)
  OBVIOUS
<1>2. /\ IsFiniteSet(U) /\ IsFiniteSet(P)
      /\ \A u \in U : u[1] \in E /\ RowOf(u) \in Rows /\ f[u] \in P /\ f[u].row = RowOf(u)
      /\ \A x \in P : x.row \in Rows
  <2>1. IsFiniteSet(U) /\ IsFiniteSet(P)
    BY <1>1, <1>u, RowsAreFibres
  <2>2. \A u \in U : u[1] \in E /\ RowOf(u) \in Rows /\ f[u] \in P /\ f[u].row = RowOf(u)
    BY <1>1, <1>u, RowsAreFibres
  <2>3. \A x \in P : x.row \in Rows
    BY <1>1, <1>u, RowsAreFibres
  <2> QED
    BY <2>1, <2>2, <2>3
<1>3. \A u \in U : RowOf(u).verdict \in Verdicts
  BY <1>2 DEF RowOf
<1>4. \A x \in P : x.row.verdict \in Verdicts
  <2>1. \A x \in P : \E u \in U : RowOf(u) = x.row
    BY <1>u, RowsHaveUnits
  <2> QED
    BY <1>3, <2>1
<1>5. /\ DOMAIN VerdictsByDay(P) = D
      /\ \A d \in D : /\ VerdictsByDay(P)[d].approved = Total(of(d, "approved"))
                      /\ VerdictsByDay(P)[d].rejected = Total(of(d, "rejected"))
                      /\ VerdictsByDay(P)[d].pending = Total(rest(d))
  BY DEF VerdictsByDay
<1>6. ASSUME NEW d, NEW v PROVE Total(of(d, v)) = Cardinality(units(d, v))
  <2>1. PICK c : c = chosen(d, v)
    OBVIOUS
  <2>2. PICK Q : Q = of(d, v)
    OBVIOUS
  <2>3. Q \in SUBSET P /\ (\A x \in P : x \in Q <=> x.row \in c) /\ c \in SUBSET Rows
    BY <1>2, <2>1, <2>2
  <2>4. Total(Q) = Cardinality(ShownOf(E, cutoff, c))
    BY <2>3, ChosenTotal
  <2> HIDE DEF of, chosen
  <2> QED
    BY <2>1, <2>2, <2>4
<1>7. ASSUME NEW d \in D
      PROVE  /\ VerdictsByDay(P)[d].approved + VerdictsByDay(P)[d].rejected
                   = Cardinality({u \in U : h[u] = d})
             /\ VerdictsByDay(P)[d].pending = 0
  <2> DEFINE A == units(d, "approved")
             B == units(d, "rejected")
  <2>1. A \cup B = {u \in U : h[u] = d} /\ A \cap B = {}
    BY <1>u, <1>2, <1>3 DEF Verdicts, ShownOf
  <2>2. IsFiniteSet(A) /\ IsFiniteSet(B)
    BY <1>u, <1>2, FS_Subset DEF ShownOf
  <2>3. /\ VerdictsByDay(P)[d].approved = Cardinality(A)
        /\ VerdictsByDay(P)[d].rejected = Cardinality(B)
    <3>1. /\ VerdictsByDay(P)[d].approved = Total(of(d, "approved"))
          /\ VerdictsByDay(P)[d].rejected = Total(of(d, "rejected"))
      BY <1>5
    <3>2. Total(of(d, "approved")) = Cardinality(A)
      BY <1>6
    <3>3. Total(of(d, "rejected")) = Cardinality(B)
      BY <1>6
    <3> HIDE DEF of, units, A, B
    <3> QED
      BY <3>1, <3>2, <3>3
  <2>4. PICK none : none = {}
    OBVIOUS
  <2>5. VerdictsByDay(P)[d].pending = Cardinality(ShownOf(E, cutoff, none))
    <3>1. PICK Q : Q = rest(d)
      OBVIOUS
    <3>2. Q \in SUBSET P /\ (\A x \in P : x \in Q <=> x.row \in none) /\ none \in SUBSET Rows
      BY <1>4, <2>4, <3>1
    <3>3. Total(Q) = Cardinality(ShownOf(E, cutoff, none))
      BY <3>2, ChosenTotal
    <3> HIDE DEF rest
    <3> QED
      BY <1>5, <3>1, <3>3
  <2>6. ShownOf(E, cutoff, none) = {} /\ Cardinality({}) = 0
    BY <2>4, FS_EmptySet DEF ShownOf
  <2> HIDE DEF A, B, h
  <2>7. Cardinality(A \cup B) = Cardinality(A) + Cardinality(B) - Cardinality(A \cap B)
    BY <2>2, FS_Union
  <2>8. Cardinality(A) \in Nat /\ Cardinality(B) \in Nat /\ Cardinality(A \cap B) = 0
    BY <2>1, <2>2, <2>6, FS_CardinalityType
  <2>9. Cardinality(A \cup B) = Cardinality({u \in U : h[u] = d})
    BY <2>1
  <2> QED
    BY <2>3, <2>5, <2>6, <2>7, <2>8, <2>9
<1>8. IsFiniteSet(D)
  <2> DEFINE g == [x \in P |-> x.row.date]
  <2>1. D = {g[x] : x \in P}
    OBVIOUS
  <2> HIDE DEF g, D
  <2> QED
    BY <1>2, <2>1, FiniteValues
<1>9. \A u \in U : h[u] \in D
  BY <1>2
<1> HIDE DEF h, D
<1>b. PICK bars : bars = BarsOf(P)
  OBVIOUS
<1>10. DOMAIN bars = D /\ CountsFibres(bars, h, U, D)
  BY <1>5, <1>7, <1>b DEF CountsFibres, BarsOf
<1>11. SumOver(bars, D) = Cardinality(Over(h, U, D))
  BY <1>2, <1>8, <1>10, SumOfFunction
<1>12. Over(h, U, D) = U
  BY <1>9 DEF Over
<1> QED
  BY <1>u, <1>b, <1>5, <1>7, <1>10, <1>11, <1>12

\* The bars of all categories are the categories of the events.
LEMMA BarsCountCategories ==
    ASSUME NEW E \in SUBSET Events, IsFiniteSet(E), NEW cutoff \in Int,
           NEW P, P = RowsOf(E, cutoff)
    PROVE  SumOver(CategoryTotals(P), DOMAIN CategoryTotals(P))
               = CategoriesOf(CountedOf(E, cutoff))
<1> DEFINE K == {x.row.category : x \in P} \ {UNCATEGORIZED}
           of(c) == {x \in P : x.row.category = c}
           chosen(c) == {r \in Rows : r.category = c}
           V == {u \in Shown(E, cutoff) : RowOf(u).category # UNCATEGORIZED}
           h == [u \in V |-> RowOf(u).category]
           event == [u \in V |-> u[1]]
<1>1. PICK f : f = ShownIn(E, cutoff)
  OBVIOUS
<1>2. PICK U : U = Shown(E, cutoff)
  OBVIOUS
<1>3. IsFiniteSet(U) /\ IsFiniteSet(P)
  BY <1>1, <1>2, RowsAreFibres
<1>4. \A u \in U : RowOf(u) \in Rows /\ f[u] \in P /\ f[u].row = RowOf(u)
  BY <1>1, <1>2, RowsAreFibres
<1>5. \A u \in U : u[1] \in E /\ u \in UnitsOf(u[1])
  BY <1>1, <1>2, RowsAreFibres
<1>6. \A x \in P : x.row \in Rows
  BY <1>1, <1>2, RowsAreFibres
<1>7. IsFiniteSet(V) /\ V \subseteq U
  BY <1>2, <1>3, FS_Subset
<1>8. PICK totals : totals = CategoryTotals(P)
  OBVIOUS
<1>9. DOMAIN totals = K /\ \A c \in K : totals[c] = Total(of(c))
  BY <1>8 DEF CategoryTotals
<1>10. ASSUME NEW c \in K PROVE totals[c] = Cardinality({u \in V : h[u] = c})
  <2>1. PICK C : C = chosen(c)
    OBVIOUS
  <2>2. PICK Q : Q = of(c)
    OBVIOUS
  <2>3. Q \in SUBSET P /\ (\A x \in P : x \in Q <=> x.row \in C) /\ C \in SUBSET Rows
    BY <1>6, <2>1, <2>2
  <2>4. Total(Q) = Cardinality(ShownOf(E, cutoff, C))
    BY <2>3, ChosenTotal
  <2>5. ShownOf(E, cutoff, C) = {u \in V : h[u] = c}
    BY <1>2, <1>4, <2>1 DEF ShownOf
  <2>6. totals[c] = Total(Q)
    BY <1>9, <2>2
  <2> QED
    BY <2>4, <2>5, <2>6
<1>11. IsFiniteSet(K)
  <2> DEFINE g == [x \in P |-> x.row.category]
  <2>1. K \subseteq {g[x] : x \in P}
    OBVIOUS
  <2>2. IsFiniteSet({g[x] : x \in P})
    <3> HIDE DEF g
    <3> QED
      BY <1>3, FiniteValues
  <2> QED
    BY <2>1, <2>2, FS_Subset
<1>12. \A u \in V : h[u] \in K
  BY <1>2, <1>4
<1>13. SumOver(totals, K) = Cardinality(V)
  <2>1. Over(h, V, K) = V
    BY <1>12 DEF Over
  <2>2. CountsFibres(totals, h, V, K)
    BY <1>10 DEF CountsFibres
  <2> HIDE DEF h, V, K
  <2>3. SumOver(totals, K) = Cardinality(Over(h, V, K))
    BY <1>7, <1>11, <2>2, SumOfFunction
  <2> QED
    BY <2>1, <2>3
<1>14. PICK S : S = CountedOf(E, cutoff)
  OBVIOUS
<1>15. IsFiniteSet(S) /\ \A u \in V : event[u] \in S
  BY <1>14, ShownUnits
<1>16. ASSUME NEW i \in S
       PROVE  Len(Fact[i].categories) = Cardinality({u \in V : event[u] = i})
  <2>1. i \in Events /\ {u \in U : u[1] = i} = UnitsOf(i)
    BY <1>2, <1>14, ShownUnits
  <2>2. /\ Fact[i].categories \in Seq(Categories) /\ UNCATEGORIZED \notin Categories
        /\ IsFiniteSet(UnitsOf(i)) /\ Cardinality(UnitsOf(i)) = Len(Buckets(i))
    BY <2>1, BucketsTyped, UnitsOfEvent, FactAssumption
  <2>3. \A u \in U : u[1] = i => RowOf(u).category = Buckets(i)[u[2]] /\ u[2] \in 1..Len(Buckets(i))
    BY <1>5 DEF RowOf, UnitsOf
  <2>4. CASE Fact[i].categories = <<>>
    <3>1. Buckets(i) = <<UNCATEGORIZED>>
      BY <2>4 DEF Buckets
    <3>2. \A n \in 1..Len(Buckets(i)) : Buckets(i)[n] = UNCATEGORIZED
      BY <3>1
    <3>3. {u \in V : event[u] = i} = {}
      BY <1>2, <2>3, <3>2
    <3>4. Len(Fact[i].categories) = 0
      BY <2>4
    <3> QED
      BY <3>3, <3>4, FS_EmptySet
  <2>5. CASE Fact[i].categories # <<>>
    <3>1. Buckets(i) = Fact[i].categories
      BY <2>5 DEF Buckets
    <3>2. \A n \in 1..Len(Buckets(i)) : Buckets(i)[n] # UNCATEGORIZED
      BY <2>2, <3>1
    <3>3. {u \in V : event[u] = i} = UnitsOf(i)
      <4>1. \A u \in U : u[1] = i => u \in V
        BY <1>2, <2>3, <3>2
      <4>2. \A u \in V : u \in U /\ event[u] = u[1]
        BY <1>2
      <4> HIDE DEF V, event
      <4>3. {u \in V : event[u] = i} = {u \in U : u[1] = i}
        BY <4>1, <4>2
      <4> QED
        BY <2>1, <4>3
    <3> HIDE DEF V, event
    <3> QED
      BY <2>2, <3>1, <3>3
  <2> QED
    BY <2>4, <2>5
<1>17. CategoriesOf(S) = Cardinality(V)
  <2>1. Over(event, V, S) = V
    BY <1>15 DEF Over
  <2> HIDE DEF V, event
  <2>2. CategoriesOf(S) = Cardinality(Over(event, V, S))
    BY <1>7, <1>15, <1>16, CategoriesCount
  <2> QED
    BY <2>1, <2>2
<1> QED
  BY <1>8, <1>9, <1>13, <1>14, <1>17

\* Rows that were fetched of counted events make charts that agree.
LEMMA FetchedRowsAgree ==
    ASSUME basis.events \in SUBSET Events, IsFiniteSet(basis.events), basis.cutoff \in Int,
           \A i \in basis.events : Fact[i].verdict \in Verdicts,
           page.status \in {"pending", "error", "success"},
           page.rows = RowsOf(basis.events, basis.cutoff)
    PROVE  ChartsAgree
<1> SUFFICES ASSUME View.screen = "charts" PROVE ChartsAgree
  BY DEF ChartsAgree
<1> DEFINE counted == {i \in basis.events : Fact[i].day >= basis.cutoff}
           bars == [d \in DOMAIN View.byDay |->
                       View.byDay[d].approved + View.byDay[d].rejected]
<1>1. View = Charts(page.rows)
  BY DEF View
<1>2. PICK E : E = basis.events
  OBVIOUS
<1>3. PICK cutoff : cutoff = basis.cutoff
  OBVIOUS
<1>4. PICK P : P = page.rows
  OBVIOUS
<1>5. /\ View.totals.total = Total(P) /\ View.byDay = VerdictsByDay(P)
      /\ View.categories = CategoryTotals(P)
  BY <1>1, <1>4 DEF Charts, ModerationTotals
<1>6. bars = BarsOf(P) /\ counted = CountedOf(E, cutoff)
  BY <1>2, <1>3, <1>5 DEF BarsOf, CountedOf
<1>7. /\ E \in SUBSET Events /\ IsFiniteSet(E) /\ cutoff \in Int /\ P = RowsOf(E, cutoff)
      /\ \A i \in E : Fact[i].verdict \in Verdicts
  BY <1>2, <1>3, <1>4
<1>8. Total(P) = TimesCounted(CountedOf(E, cutoff))
  BY <1>7, TileCountsBuckets
<1>9. Total(P) = SumOver(BarsOf(P), DOMAIN BarsOf(P))
  BY <1>7, TileCountsBuckets, BarsCountDays
<1>10. \A d \in DOMAIN VerdictsByDay(P) : VerdictsByDay(P)[d].pending = 0
  BY <1>7, BarsCountDays
<1>11. SumOver(CategoryTotals(P), DOMAIN CategoryTotals(P)) = CategoriesOf(CountedOf(E, cutoff))
  BY <1>7, BarsCountCategories
<1> HIDE DEF counted, bars
<1>12. /\ View.totals.total = TimesCounted(counted)
       /\ View.totals.total = SumOver(bars, DOMAIN bars)
       /\ \A d \in DOMAIN View.byDay : View.byDay[d].pending = 0
       /\ SumOver(View.categories, DOMAIN View.categories) = CategoriesOf(counted)
  BY <1>5, <1>6, <1>8, <1>9, <1>10, <1>11
<1> USE DEF counted, bars
<1> QED
  BY <1>12 DEF ChartsAgree, TimesCounted, CategoriesOf, SumOver

-----------------------------------------------------------------------------
(* What is counted, and what the page has fetched of it.                   *)

\* The table counts the units of the events with a dedupe row.
CountsFollow ==
    /\ processed \in SUBSET Events /\ IsFiniteSet(processed)
    /\ \A i \in processed : Countable(i)
    /\ counts \in [Rows -> Nat]
    /\ \A r \in Rows : counts[r] = Cardinality(InRow(processed, r))

\* The page's rows count the units of the events counted when it read them.
PageFollows ==
    /\ page \in [status : {"pending", "error", "success"},
                 rows : SUBSET [row : Rows, count : Nat]]
    /\ basis \in [events : SUBSET Events, cutoff : Int]
    /\ today \in 0..MaxDay /\ basis.cutoff <= today
    /\ IsFiniteSet(basis.events) /\ \A i \in basis.events : Countable(i)
    /\ page.rows = RowsOf(basis.events, basis.cutoff)

TrendsInv == CountsFollow /\ PageFollows

\* Nothing is counted and nothing fetched at first.
LEMMA TrendsBegin == Init => TrendsInv
<1> SUFFICES ASSUME Init PROVE TrendsInv
  OBVIOUS
<1>1. /\ processed = {} /\ counts = [r \in Rows |-> 0] /\ today = 0
      /\ page = [status |-> "pending", rows |-> {}]
      /\ basis = [events |-> {}, cutoff |-> 0]
  BY DEF Init, InitTrends
<1>2. \A r \in Rows : InRow({}, r) = {}
  BY DEF InRow, Units
<1>3. IsFiniteSet({}) /\ Cardinality({}) = 0
  BY FS_EmptySet
<1>4. \A r \in Rows : Cardinality(InRow({}, r)) = 0
  BY <1>2, <1>3
<1>5. RowsOf({}, 0) = {}
  BY <1>4 DEF RowsOf
<1>6. CountsFollow
  BY <1>1, <1>3, <1>4 DEF CountsFollow
<1>7. PageFollows
  BY <1>1, <1>3, <1>5, DaysAssumption DEF PageFollows
<1> QED
  BY <1>6, <1>7 DEF TrendsInv

\* The transaction adds an event to the dedupe rows and its units to the counts.
LEMMA AggregateFollows ==
    ASSUME CountsFollow, NEW i \in Events, i \notin processed, Countable(i), Aggregate(i)
    PROVE  CountsFollow'
<1>1. /\ processed' = processed \cup {i}
      /\ counts' = [r \in Rows |-> counts[r] + Weight(i, r)]
  BY DEF Aggregate
<1>2. IsFiniteSet(processed') /\ processed' \in SUBSET Events
  BY <1>1, FS_AddElement DEF CountsFollow
<1>3. \A j \in processed' : Countable(j)'
  BY <1>1 DEF CountsFollow, Countable
<1>4. ASSUME NEW r \in Rows
      PROVE  counts'[r] \in Nat /\ counts'[r] = Cardinality(InRow(processed', r))
  <2>1. Cardinality(InRow(processed \cup {i}, r))
            = Cardinality(InRow(processed, r)) + Weight(i, r)
    BY OneMoreEvent DEF CountsFollow
  <2>2. Weight(i, r) \in Nat
    <3>1. IsFiniteSet(UnitsOf(i))
      BY UnitsOfEvent
    <3>2. IsFiniteSet({u \in UnitsOf(i) : RowOf(u) = r})
      BY <3>1, FS_Subset
    <3>3. Cardinality({u \in UnitsOf(i) : RowOf(u) = r}) \in Nat
      BY <3>2, FS_CardinalityType
    <3> QED
      BY <3>3, WeightCounts
  <2>3. counts[r] = Cardinality(InRow(processed, r)) /\ counts[r] \in Nat
    BY DEF CountsFollow
  <2>4. counts'[r] = counts[r] + Weight(i, r)
    BY <1>1
  <2> QED
    BY <1>1, <2>1, <2>2, <2>3, <2>4
<1>5. counts' \in [Rows -> Nat]
  BY <1>1, <1>4
<1>6. \A r \in Rows : counts'[r] = Cardinality(InRow(processed, r)')
  BY <1>4 DEF InRow, Units, UnitsOf, RowOf, Buckets
<1> QED
  BY <1>2, <1>3, <1>5, <1>6 DEF CountsFollow

\* What the page has does not depend on what is counted later.
LEMMA PageStays ==
    ASSUME PageFollows, UNCHANGED basis, UNCHANGED page.rows, page' \in
               [status : {"pending", "error", "success"}, rows : SUBSET [row : Rows, count : Nat]],
           today' \in 0..MaxDay, today' >= today
    PROVE  PageFollows'
<1>1. basis'.cutoff <= today'
  BY DaysAssumption DEF PageFollows
<1>2. page'.rows = RowsOf(basis.events, basis.cutoff)
  BY DEF PageFollows
<1> QED
  BY <1>1, <1>2 DEF PageFollows, Countable, RowsOf, InRow, Units, UnitsOf, RowOf, Buckets, Rows,
                    Verdicts, UNCATEGORIZED

\* A load fetches the rows of the events that are counted now.
LEMMA LoadFollows ==
    ASSUME TrendsInv, LoadTrends
    PROVE  PageFollows'
<1> DEFINE cutoff == today - Clamped(DefaultDays)
<1>1. /\ page' = [status |-> "success", rows |-> TrendsSince(DefaultDays)]
      /\ basis' = [events |-> processed, cutoff |-> cutoff]
      /\ today' = today
  BY DEF LoadTrends
<1>2. Clamped(DefaultDays) \in Nat /\ today \in 0..MaxDay
  BY DaysAssumption DEF Clamped, Min2, TrendsInv, PageFollows
<1>3. cutoff \in Int /\ cutoff <= today
  BY <1>2, DaysAssumption
<1>4. /\ processed \in SUBSET Events /\ IsFiniteSet(processed)
      /\ \A i \in processed : Countable(i)
      /\ counts \in [Rows -> Nat]
      /\ \A r \in Rows : counts[r] = Cardinality(InRow(processed, r))
  BY DEF TrendsInv, CountsFollow
<1>5. TrendsSince(DefaultDays) = RowsOf(processed, cutoff)
  BY <1>4 DEF TrendsSince, RowsOf
<1>6. TrendsSince(DefaultDays) \in SUBSET [row : Rows, count : Nat]
  BY <1>4 DEF TrendsSince
<1> HIDE DEF cutoff
<1>7. page'.rows = RowsOf(processed, cutoff)
  BY <1>1, <1>5
<1>8. /\ page' \in [status : {"pending", "error", "success"},
                    rows : SUBSET [row : Rows, count : Nat]]
      /\ basis' \in [events : SUBSET Events, cutoff : Int]
  BY <1>1, <1>3, <1>4, <1>6
<1>9. /\ basis'.events = processed /\ basis'.cutoff = cutoff
      /\ IsFiniteSet(basis'.events) /\ \A i \in basis'.events : Countable(i)
  BY <1>1, <1>4
<1>10. page'.rows = RowsOf(basis'.events, basis'.cutoff)
  BY <1>7, <1>9
<1> QED
  BY <1>1, <1>2, <1>3, <1>8, <1>9, <1>10
  DEF PageFollows, Countable, RowsOf, InRow, Units, UnitsOf, RowOf, Buckets, Rows, Verdicts,
      UNCATEGORIZED

\* A step that leaves the trends alone keeps what is said of them.
LEMMA TrendsStay ==
    ASSUME TrendsInv, UNCHANGED trendVars
    PROVE  TrendsInv'
<1>1. UNCHANGED <<processed, counts, today, page, basis>>
  BY DEF trendVars
<1>2. CountsFollow'
  BY <1>1 DEF TrendsInv, CountsFollow, Countable, InRow, Units, UnitsOf, RowOf, Buckets, Rows,
              Verdicts, UNCATEGORIZED
<1>3. PageFollows'
  BY <1>1, PageStays DEF TrendsInv, PageFollows
<1> QED
  BY <1>2, <1>3 DEF TrendsInv

\* TrendsService and the page keep the counts and the rows in step with the events.
LEMMA TrendsFollow ==
    ASSUME TrendsInv, ConsumerTypeOK, TrendsNext
    PROVE  TrendsInv'
<1>1. CountsFollow /\ PageFollows
  BY DEF TrendsInv
<1>2. CASE Skip \/ Refuse \/ SkipDuplicate \/ (Die /\ UNCHANGED trendVars)
  BY <1>2, TrendsStay DEF Skip, Refuse, SkipDuplicate
<1>3. CASE Count \/ CountFails
  <2>1. /\ Ready /\ Countable(Current) /\ Current \notin processed
        /\ Aggregate(Current) \/ UNCHANGED <<processed, counts>>
        /\ UNCHANGED <<today, page, basis>>
    BY <1>3 DEF Count, CountFails, Aggregating
  <2>2. PICK i : i = Current
    OBVIOUS
  <2>3. i \in Events
    BY <2>1, <2>2 DEF Ready, Current, ConsumerTypeOK
  <2>4. PageFollows'
    BY <1>1, <2>1, PageStays DEF PageFollows
  <2>5. CASE Aggregate(Current)
    <3>1. CountsFollow'
      BY <1>1, <2>1, <2>2, <2>3, <2>5, AggregateFollows
    <3> QED
      BY <2>4, <3>1 DEF TrendsInv
  <2>6. CASE UNCHANGED <<processed, counts>>
    BY <2>1, <2>6, TrendsStay DEF trendVars
  <2> QED
    BY <2>1, <2>5, <2>6
<1>4. CASE LoadTrends
  <2>1. PageFollows'
    BY <1>4, LoadFollows
  <2>2. UNCHANGED <<processed, counts>>
    BY <1>4 DEF LoadTrends
  <2>3. CountsFollow'
    BY <1>1, <2>2 DEF CountsFollow, Countable, InRow, Units, UnitsOf, RowOf, Buckets, Rows,
                      Verdicts, UNCATEGORIZED
  <2> QED
    BY <2>1, <2>3 DEF TrendsInv
<1>5. CASE NextDay \/ LoadFails
  <2>1. UNCHANGED <<processed, counts, basis>>
    BY <1>5 DEF NextDay, LoadFails
  <2>2. today' \in 0..MaxDay /\ today' >= today
    BY <1>1, <1>5, DaysAssumption DEF NextDay, LoadFails, PageFollows
  <2>3. /\ page'.rows = page.rows
        /\ page' \in [status : {"pending", "error", "success"},
                      rows : SUBSET [row : Rows, count : Nat]]
    BY <1>1, <1>5 DEF NextDay, LoadFails, PageFollows
  <2>4. PageFollows'
    BY <1>1, <2>1, <2>2, <2>3, PageStays
  <2>5. CountsFollow'
    BY <1>1, <2>1 DEF CountsFollow, Countable, InRow, Units, UnitsOf, RowOf, Buckets, Rows,
                      Verdicts, UNCATEGORIZED
  <2> QED
    BY <2>4, <2>5 DEF TrendsInv
<1> QED
  BY <1>2, <1>3, <1>4, <1>5 DEF TrendsNext

-----------------------------------------------------------------------------
(* Tabs and sockets.                                                       *)

\* A step of the push keeps the types of tabs, tickets, sockets and toasts.
LEMMA PushTyped ==
    ASSUME PushTypeOK, PushNext
    PROVE  PushTypeOK'
<1> USE SocketsAssumption
<1>1. CASE DropEvent \/ RefuseEvent
  BY <1>1 DEF DropEvent, RefuseEvent, pushVars, tabVars, serverVars, PushTypeOK
<1>2. CASE Push
  <2>1. /\ toasts' = [t \in Tabs |-> IF tab[t] = "open" /\ socket[t] \in registry
                                     THEN OneMoreToast(t) ELSE toasts[t]]
        /\ UNCHANGED <<tab, ticket, socket, serverEnd, registry, dialed>>
    BY <1>2 DEF Push, serverVars
  <2>2. \A t \in Tabs : toasts'[t] \in 0..2
    BY <2>1 DEF OneMoreToast, Min2, PushTypeOK
  <2>3. toasts' \in [Tabs -> 0..2]
    BY <2>1, <2>2
  <2> QED
    BY <2>1, <2>3 DEF PushTypeOK
<1>3. CASE ServerDies
  BY <1>3 DEF ServerDies, tabVars, PushTypeOK
<1>4. ASSUME NEW s \in Sockets, HandleDisconnect(s) PROVE PushTypeOK'
  BY <1>4 DEF HandleDisconnect, Unregister, tabVars, PushTypeOK
<1>5. ASSUME NEW t \in Tabs, HandleConnection(t) PROVE PushTypeOK'
  <2>1. dialed' = dialed + 1 /\ dialed' \in 0..MaxSockets /\ dialed \in Nat
    BY <1>5 DEF HandleConnection, PushTypeOK
  <2>2. ticket' \in [Tabs -> {"none", "valid", "stale"}] /\ toasts' \in [Tabs -> 0..2]
    BY <1>5 DEF HandleConnection, PushTypeOK
  <2>3. tab' \in [Tabs -> {"off", "dialing", "ticket", "open", "refused"}]
    BY <1>5 DEF HandleConnection, PushTypeOK
  <2>4. socket' \in [Tabs -> 0..MaxSockets]
    BY <1>5, <2>1 DEF HandleConnection, PushTypeOK
  <2>5. serverEnd' \subseteq serverEnd \cup {dialed'} /\ registry' \subseteq registry \cup {dialed'}
    BY <1>5 DEF HandleConnection, Register
  <2>6. 1..dialed \subseteq 1..dialed' /\ dialed' \in 1..dialed'
    BY <2>1
  <2>7. serverEnd' \subseteq 1..dialed' /\ registry' \subseteq 1..dialed'
    BY <2>5, <2>6 DEF PushTypeOK
  <2> QED
    BY <2>1, <2>2, <2>3, <2>4, <2>7 DEF PushTypeOK
<1>6. ASSUME NEW t \in Tabs, Mount(t) \/ FetchTicket(t) \/ TicketExpires(t)
      PROVE  PushTypeOK'
  <2>1. CASE Mount(t)
    BY <2>1 DEF Mount, serverVars, PushTypeOK
  <2>2. CASE FetchTicket(t)
    BY <2>2 DEF FetchTicket, serverVars, PushTypeOK
  <2>3. CASE TicketExpires(t)
    BY <2>3 DEF TicketExpires, serverVars, PushTypeOK
  <2> QED
    BY <1>6, <2>1, <2>2, <2>3
<1>7. ASSUME NEW t \in Tabs, Redial(t) \/ Unmount(t) PROVE PushTypeOK'
  <2>1. CASE Redial(t)
    BY <2>1 DEF Redial, serverVars, PushTypeOK
  <2>2. CASE Unmount(t)
    BY <2>2 DEF Unmount, serverVars, PushTypeOK
  <2> QED
    BY <1>7, <2>1, <2>2
<1>8. ASSUME NEW t \in Tabs, Dismiss(t) PROVE PushTypeOK'
  <2>1. /\ toasts[t] > 0 /\ toasts' = [toasts EXCEPT ![t] = @ - 1]
        /\ UNCHANGED <<tab, ticket, socket, serverEnd, registry, dialed>>
    BY <1>8 DEF Dismiss, serverVars
  <2>2. toasts[t] - 1 \in 0..2
    BY <2>1 DEF PushTypeOK
  <2>3. toasts' \in [Tabs -> 0..2]
    BY <2>1, <2>2 DEF PushTypeOK
  <2> QED
    BY <2>1, <2>3 DEF PushTypeOK
<1> QED
  BY <1>1, <1>2, <1>3, <1>4, <1>5, <1>6, <1>7, <1>8 DEF PushNext

-----------------------------------------------------------------------------
(* The consumer's position, what is committed and what was handled.        *)

USE KindAssumption, TopicAssumption DEF NoOffset

\* The committed offset never overtakes the consumer's position.
CommitFollows == committed <= pos

\* The registry is exactly the connections the server holds open.
RegistryFollows == registry = serverEnd

StreamInv ==
    /\ ConsumerTypeOK
    /\ CommitFollows
    /\ MissedOnlyByLateJoin
    /\ RegistryFollows

\* The initial state satisfies the invariant.
LEMMA InitInv == Init => StreamInv
BY DEF Init, InitConsumer, InitTrends, InitPush, StreamInv, ConsumerTypeOK, CommitFollows,
       MissedOnlyByLateJoin, RegistryFollows

-----------------------------------------------------------------------------
(* The consumer itself.                                                    *)

\* A record at the end of the log is before no position.
LEMMA PublishPreserves ==
    ASSUME StreamInv, NEW i \in Events, Publish(i), UNCHANGED <<trendVars, pushVars>>
    PROVE  StreamInv'
<1>1. /\ log' = Append(log, i) /\ Len(log) < MaxLog
      /\ UNCHANGED <<group, state, pos, committed, jumped, faults, processed, registry, serverEnd>>
  BY DEF Publish, consumerVars, trendVars, pushVars, serverVars
<1>2. ConsumerTypeOK /\ log \in Seq(Events) /\ pos \in 0..Len(log)
  BY DEF StreamInv, ConsumerTypeOK
<1>3. log' \in Seq(Events) /\ Len(log') = Len(log) + 1 /\ \A o \in 1..Len(log) : log'[o] = log[o]
  BY <1>1, <1>2
<1>4. ConsumerTypeOK'
  BY <1>1, <1>2, <1>3 DEF ConsumerTypeOK
<1>5. MissedOnlyByLateJoin'
  BY <1>1, <1>2, <1>3 DEF StreamInv, MissedOnlyByLateJoin, Countable
<1> QED
  BY <1>1, <1>4, <1>5 DEF StreamInv, CommitFollows, RegistryFollows

\* A join without a commit names what it goes past.
LEMMA JoinPreserves ==
    ASSUME StreamInv, Join, UNCHANGED <<trendVars, pushVars>>
    PROVE  StreamInv'
<1>1. /\ UNCHANGED <<group, log, committed, faults, processed, registry, serverEnd>>
      /\ state' = "running"
  BY DEF Join, topicVars, trendVars, pushVars, serverVars
<1>2. ConsumerTypeOK /\ CommitFollows /\ MissedOnlyByLateJoin
  BY DEF StreamInv
<1>3. CASE committed = NoOffset
  <2>1. /\ pos' = Len(log)
        /\ jumped' = IF group = "trends" THEN jumped \cup (pos + 1)..Len(log) ELSE {}
    BY <1>3 DEF Join
  <2>2. jumped' \subseteq 1..Len(log) /\ Len(log) \in Nat
    <3>1. pos \in Nat /\ Len(log) \in Nat /\ jumped \subseteq 1..Len(log)
      BY <1>2 DEF ConsumerTypeOK
    <3>2. (pos + 1)..Len(log) \subseteq 1..Len(log)
      BY <3>1
    <3>3. jumped' \in {jumped \cup (pos + 1)..Len(log), {}}
      BY <2>1
    <3> QED
      BY <3>1, <3>2, <3>3
  <2>3. ConsumerTypeOK' /\ CommitFollows'
    BY <1>1, <1>2, <1>3, <2>1, <2>2 DEF ConsumerTypeOK, CommitFollows
  <2>4. MissedOnlyByLateJoin'
    BY <1>1, <1>2, <2>1 DEF ConsumerTypeOK, MissedOnlyByLateJoin
  <2> QED
    BY <1>1, <2>3, <2>4 DEF StreamInv, RegistryFollows
<1>4. CASE committed # NoOffset
  <2>1. pos' = committed /\ UNCHANGED jumped
    BY <1>4 DEF Join
  <2>2. ConsumerTypeOK' /\ CommitFollows'
    BY <1>1, <1>2, <1>4, <2>1 DEF ConsumerTypeOK, CommitFollows
  <2>3. MissedOnlyByLateJoin'
    BY <1>1, <1>2, <1>4, <2>1 DEF ConsumerTypeOK, CommitFollows, MissedOnlyByLateJoin
  <2> QED
    BY <1>1, <2>2, <2>3 DEF StreamInv, RegistryFollows
<1> QED
  BY <1>3, <1>4

\* Steps of the consumer's life that leave the records and the position alone.
StaysPut ==
    /\ UNCHANGED <<group, log, pos, jumped, processed>>
    /\ state' \in {"down", "joining", "running", "crashed", "stopped"}
    /\ committed' \in {committed, NoOffset, pos}
    /\ faults' = faults \/ Fault

\* A step that moves no position keeps the invariant.
LEMMA StayPreserves ==
    ASSUME StreamInv, StaysPut, registry' = serverEnd'
    PROVE  StreamInv'
<1>1. ConsumerTypeOK /\ CommitFollows /\ MissedOnlyByLateJoin
  BY DEF StreamInv
<1>2. ConsumerTypeOK'
  BY <1>1 DEF ConsumerTypeOK, StaysPut, Fault
<1>3. CommitFollows' /\ MissedOnlyByLateJoin'
  BY <1>1 DEF ConsumerTypeOK, CommitFollows, MissedOnlyByLateJoin, StaysPut
<1> QED
  BY <1>2, <1>3 DEF StreamInv, RegistryFollows

\* The broker and the group keep the invariant.
LEMMA ConsumerPreserves ==
    ASSUME StreamInv, ConsumerNext
    PROVE  StreamInv'
<1>1. registry = serverEnd /\ UNCHANGED <<trendVars, pushVars>>
  BY DEF StreamInv, RegistryFollows, ConsumerNext
<1>2. CASE \E i \in Events : Publish(i)
  BY <1>1, <1>2, PublishPreserves
<1>3. CASE Join
  BY <1>1, <1>3, JoinPreserves
<1>4. CASE Consume \/ Commit \/ Recover
  <2>1. StaysPut
    BY <1>1, <1>4 DEF Consume, Commit, Recover, StaysPut, topicVars, trendVars, StreamInv,
                      ConsumerTypeOK
  <2> QED
    BY <1>1, <2>1, StayPreserves DEF pushVars, serverVars
<1> QED
  BY <1>2, <1>3, <1>4 DEF ConsumerNext

-----------------------------------------------------------------------------
(* The trends.                                                             *)

\* The record in hand is passed and, if it counts, counted.
PassesCounted ==
    /\ Pass /\ (faults' = faults \/ Fault)
    /\ processed \subseteq processed'
    /\ group = "trends" /\ Countable(Current) => Current \in processed'

\* A handler passes a record only when it is counted or not countable.
LEMMA PassPreserves ==
    ASSUME StreamInv, PassesCounted, UNCHANGED <<registry, serverEnd>>
    PROVE  StreamInv'
<1>1. ConsumerTypeOK /\ CommitFollows /\ MissedOnlyByLateJoin
  BY DEF StreamInv
<1>2. /\ pos < Len(log) /\ pos' = pos + 1
      /\ UNCHANGED <<group, log, state, committed, jumped>>
  BY DEF PassesCounted, Pass, Ready, topicVars
<1>3. ConsumerTypeOK' /\ CommitFollows'
  BY <1>1, <1>2 DEF ConsumerTypeOK, CommitFollows, PassesCounted, Fault
<1>4. MissedOnlyByLateJoin'
  <2> SUFFICES ASSUME group = "trends", NEW o \in 1..(pos + 1), Countable(log[o])
               PROVE  log[o] \in processed' \/ o \in jumped
    BY <1>2 DEF MissedOnlyByLateJoin, Countable
  <2>1. CASE o = pos + 1
    BY <2>1 DEF PassesCounted, Current
  <2>2. CASE o \in 1..pos
    BY <1>1, <2>2 DEF MissedOnlyByLateJoin, PassesCounted
  <2> QED
    BY <1>1, <2>1, <2>2 DEF ConsumerTypeOK
<1> QED
  BY <1>3, <1>4 DEF StreamInv, RegistryFollows

\* A record that is thrown is handed over again; what it counted stays counted.
ThrowsCounted ==
    /\ Throw /\ (faults' = faults \/ Fault)
    /\ processed \subseteq processed'

\* A handler that throws leaves the position on its record.
LEMMA ThrowPreserves ==
    ASSUME StreamInv, ThrowsCounted, UNCHANGED <<registry, serverEnd>>
    PROVE  StreamInv'
<1>1. ConsumerTypeOK /\ CommitFollows /\ MissedOnlyByLateJoin
  BY DEF StreamInv
<1>2. state' \in {"running", "crashed"} /\ UNCHANGED <<group, log, pos, committed, jumped>>
  BY DEF ThrowsCounted, Throw, topicVars
<1>3. ConsumerTypeOK' /\ CommitFollows'
  BY <1>1, <1>2 DEF ConsumerTypeOK, CommitFollows, ThrowsCounted, Fault
<1>4. MissedOnlyByLateJoin'
  BY <1>1, <1>2 DEF MissedOnlyByLateJoin, Countable, ThrowsCounted
<1> QED
  BY <1>3, <1>4 DEF StreamInv, RegistryFollows

\* TrendsService keeps the invariant.
LEMMA TrendsPreserve ==
    ASSUME StreamInv, TrendsNext
    PROVE  StreamInv'
<1>1. UNCHANGED pushVars
  BY DEF TrendsNext
<1>2. UNCHANGED <<registry, serverEnd>> /\ registry = serverEnd
  BY <1>1 DEF pushVars, serverVars, StreamInv, RegistryFollows
<1>3. CASE Skip
  <2>1. PassesCounted
    BY <1>3 DEF Skip, PassesCounted, Unreadable, Countable, trendVars
  <2> QED
    BY <1>2, <2>1, PassPreserves
<1>4. CASE Count \/ SkipDuplicate
  <2>1. PassesCounted
    BY <1>4 DEF Count, SkipDuplicate, Aggregate, PassesCounted, trendVars
  <2> QED
    BY <1>2, <2>1, PassPreserves
<1>5. CASE Refuse
  <2>1. ThrowsCounted
    BY <1>5 DEF Refuse, ThrowsCounted, trendVars
  <2> QED
    BY <1>2, <2>1, ThrowPreserves
<1>6. CASE CountFails
  <2>1. ThrowsCounted
    BY <1>6 DEF CountFails, Aggregate, ThrowsCounted
  <2> QED
    BY <1>2, <2>1, ThrowPreserves
<1>7. CASE NextDay \/ LoadTrends \/ LoadFails \/ (Die /\ UNCHANGED trendVars)
  <2>1. StaysPut
    BY <1>7 DEF NextDay, LoadTrends, LoadFails, Die, StaysPut, kafkaVars, topicVars,
                consumerVars, trendVars, StreamInv, ConsumerTypeOK
  <2> QED
    BY <1>2, <2>1, StayPreserves
<1> QED
  BY <1>3, <1>4, <1>5, <1>6, <1>7 DEF TrendsNext

-----------------------------------------------------------------------------
(* The push.                                                               *)

\* The push and its sockets keep the invariant.
LEMMA PushPreserves ==
    ASSUME StreamInv, PushNext, UNCHANGED trendVars
    PROVE  StreamInv'
<1>1. registry = serverEnd /\ UNCHANGED processed /\ ConsumerTypeOK
  BY DEF trendVars, StreamInv, RegistryFollows
<1>2. CASE DropEvent \/ Push
  <2>1. PassesCounted
    BY <1>1, <1>2 DEF DropEvent, Push, Pushing, PassesCounted
  <2> QED
    BY <1>2, <2>1, PassPreserves DEF DropEvent, Push, pushVars, serverVars
<1>3. CASE RefuseEvent
  <2>1. ThrowsCounted
    BY <1>1, <1>3 DEF RefuseEvent, ThrowsCounted
  <2> QED
    BY <1>3, <2>1, ThrowPreserves DEF RefuseEvent, pushVars, serverVars
<1>4. CASE ServerDies
  <2>1. StaysPut /\ registry' = serverEnd'
    BY <1>1, <1>4 DEF ServerDies, Die, StaysPut, topicVars, consumerVars
  <2> QED
    BY <2>1, StayPreserves
<1>5. ASSUME NEW s \in Sockets, HandleDisconnect(s) PROVE StreamInv'
  <2>1. StaysPut /\ registry' = serverEnd'
    BY <1>1, <1>5 DEF HandleDisconnect, Unregister, StaysPut, topicVars, consumerVars,
                      ConsumerTypeOK
  <2> QED
    BY <2>1, StayPreserves
<1>6. ASSUME NEW t \in Tabs,
             \/ Mount(t) \/ FetchTicket(t) \/ TicketExpires(t) \/ HandleConnection(t)
             \/ Redial(t) \/ Unmount(t) \/ Dismiss(t)
      PROVE  StreamInv'
  <2>1. StaysPut
    BY <1>1, <1>6 DEF Mount, FetchTicket, TicketExpires, HandleConnection, Redial, Unmount,
                      Dismiss, StaysPut, kafkaVars, topicVars, consumerVars, ConsumerTypeOK
  <2>2. registry' = serverEnd'
    BY <1>1, <1>6 DEF Mount, FetchTicket, TicketExpires, HandleConnection, Redial, Unmount,
                      Dismiss, Register, serverVars
  <2> QED
    BY <2>1, <2>2, StayPreserves
<1> QED
  BY <1>2, <1>3, <1>4, <1>5, <1>6 DEF PushNext

-----------------------------------------------------------------------------
(* The theorems.                                                           *)

\* Every step keeps the invariant.
LEMMA NextInv == StreamInv /\ [Next]_vars => StreamInv'
<1> SUFFICES ASSUME StreamInv, [Next]_vars PROVE StreamInv'
  OBVIOUS
<1>1. CASE ConsumerNext
  BY <1>1, ConsumerPreserves
<1>2. CASE TrendsNext
  BY <1>2, TrendsPreserve
<1>3. CASE PushNext /\ UNCHANGED trendVars
  BY <1>3, PushPreserves
<1>4. CASE UNCHANGED vars
  <2>1. StaysPut /\ registry' = serverEnd'
    BY <1>4 DEF vars, kafkaVars, topicVars, consumerVars, trendVars, pushVars, serverVars,
                StaysPut, StreamInv, ConsumerTypeOK, RegistryFollows
  <2> QED
    BY <2>1, StayPreserves
<1> QED
  BY <1>1, <1>2, <1>3, <1>4 DEF Next

\* Positions, commits and the registry stay in step in every reachable state.
THEOREM InvCorrect == Spec => []StreamInv
BY InitInv, NextInv, PTL DEF Spec

\* trends.service.ts:69-95, kafka-consumer.service.ts:46, for any records and
\* any number of faults: behind the position of the group every countable
\* verdict is counted, or a join without a committed offset went past it.
THEOREM MissedCorrect == Spec => []MissedOnlyByLateJoin
<1>1. StreamInv => MissedOnlyByLateJoin
  BY DEF StreamInv
<1> QED
  BY <1>1, InvCorrect, PTL

\* socket-registry.service.ts:10-35, for any number of tabs and connections:
\* every open tab is in the registry, and nothing that has ended is.
THEOREM RegisteredCorrect == Spec => []OpenSocketIsRegistered
<1>1. StreamInv => OpenSocketIsRegistered
  BY DEF StreamInv, RegistryFollows, OpenSocketIsRegistered, Connected
<1> QED
  BY <1>1, InvCorrect, PTL

\* The parts of the invariant together.
VerdictInv == StreamInv /\ TrendsInv /\ PushTypeOK

\* The initial state satisfies it.
LEMMA VerdictBegins == Init => VerdictInv
<1>1. Init => PushTypeOK
  BY SocketsAssumption DEF Init, InitPush, PushTypeOK
<1> QED
  BY <1>1, InitInv, TrendsBegin DEF VerdictInv

\* Every step keeps it.
LEMMA VerdictSteps == VerdictInv /\ [Next]_vars => VerdictInv'
<1> SUFFICES ASSUME VerdictInv, [Next]_vars PROVE VerdictInv'
  OBVIOUS
<1>1. StreamInv /\ TrendsInv /\ PushTypeOK /\ ConsumerTypeOK
  BY DEF VerdictInv, StreamInv
<1>2. StreamInv'
  BY <1>1, NextInv
<1>3. TrendsInv'
  <2>1. CASE TrendsNext
    BY <1>1, <2>1, TrendsFollow
  <2>2. CASE ConsumerNext \/ (PushNext /\ UNCHANGED trendVars) \/ UNCHANGED vars
    BY <1>1, <2>2, TrendsStay DEF ConsumerNext, vars
  <2> QED
    BY <2>1, <2>2 DEF Next
<1>4. PushTypeOK'
  <2>1. CASE PushNext
    BY <1>1, <2>1, PushTyped
  <2>2. CASE ConsumerNext \/ TrendsNext \/ UNCHANGED vars
    BY <1>1, <2>2 DEF ConsumerNext, TrendsNext, vars, pushVars, tabVars, serverVars, PushTypeOK
  <2> QED
    BY <2>1, <2>2 DEF Next
<1> QED
  BY <1>2, <1>3, <1>4 DEF VerdictInv

\* Counts, fetched rows and sockets stay in step in every reachable state.
THEOREM VerdictCorrect == Spec => []VerdictInv
BY VerdictBegins, VerdictSteps, PTL DEF Spec

\* trends.service.ts:42-95, shape-data.ts:12-63: whatever was redelivered, rolled
\* back or missed, and whenever the page last asked: a day's bars add up to the
\* tile, none is pending, and tile and bars count each event once per category.
THEOREM ChartsCorrect == Spec => []ChartsAgree
<1>1. VerdictInv => ChartsAgree
  <2> SUFFICES ASSUME VerdictInv PROVE ChartsAgree
    OBVIOUS
  <2>1. PageFollows
    BY DEF VerdictInv, TrendsInv
  <2>2. \A i \in basis.events : Fact[i].verdict \in Verdicts
    BY <2>1, FactAssumption DEF PageFollows, Countable
  <2>3. /\ basis.events \in SUBSET Events /\ IsFiniteSet(basis.events) /\ basis.cutoff \in Int
        /\ page.status \in {"pending", "error", "success"}
        /\ page.rows = RowsOf(basis.events, basis.cutoff)
    BY <2>1 DEF PageFollows
  <2> QED
    BY <2>2, <2>3, FetchedRowsAgree
<1> QED
  BY <1>1, VerdictCorrect, PTL

\* Types of both groups, of the trends and of the sockets: no event that is not in
\* the topic is counted, no row on the page is empty, no day is ahead of today.
THEOREM TypeCorrect == Spec => []TypeOK
<1>1. VerdictInv => TypeOK
  <2> SUFFICES ASSUME VerdictInv PROVE TypeOK
    OBVIOUS
  <2>1. ConsumerTypeOK /\ CountsFollow /\ PageFollows /\ PushTypeOK
    BY DEF VerdictInv, StreamInv, TrendsInv
  <2>2. \A x \in page.rows : x.row \in Rows /\ x.count > 0
    BY <2>1 DEF PageFollows, RowsOf
  <2> QED
    BY <2>1, <2>2 DEF CountsFollow, PageFollows, TypeOK
<1> QED
  BY <1>1, VerdictCorrect, PTL
=============================================================================
