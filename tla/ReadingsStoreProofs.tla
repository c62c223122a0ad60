------------------------ MODULE ReadingsStoreProofs ------------------------
(***************************************************************************)
(* Proofs about ReadingsStore, for any sensors, values, widths of a bucket *)
(* and of a chunk, and offsets, under ReadingsAssumption.                  *)
(*                                                                         *)
(* tlapm has no induction over finite sets.  SmallestSet takes its place:  *)
(* the smallest counterexample is refuted, for the extremes of a set, its  *)
(* sum and its enumeration by date.                                        *)
(***************************************************************************)
EXTENDS ReadingsStore, FiniteSetTheorems, WellFoundedInduction, TLAPS

----------------------------------------------------------------------------
(* Buckets.                                                                *)

\* A moment is a whole number of widths and a rest.
LEMMA Division ==
  ASSUME NEW t \in Nat
  PROVE  /\ t \div Bucket \in Nat /\ t % Bucket \in 0..(Bucket - 1)
         /\ t = Bucket * (t \div Bucket) + (t % Bucket)
BY ReadingsAssumption

LEMMA Multiples ==
  ASSUME NEW q \in Nat
  PROVE  Bucket * q \in Nat /\ (Bucket * q) % Bucket = 0
BY ReadingsAssumption

LEMMA MultiplesApart ==
  ASSUME NEW p \in Nat, NEW q \in Nat, Bucket * p < Bucket * q
  PROVE  Bucket * p + Bucket <= Bucket * q
BY ReadingsAssumption

\* A bucket holds the moments from its start to the start of the next.
LEMMA BucketBounds ==
  ASSUME NEW t \in Nat
  PROVE  /\ BucketOf(t) \in Nat /\ BucketOf(t) % Bucket = 0
         /\ BucketOf(t) <= t /\ t < BucketOf(t) + Bucket
<1>1. BucketOf(t) = Bucket * (t \div Bucket)
  BY Division, ReadingsAssumption DEF BucketOf
<1>2. BucketOf(t) \in Nat /\ BucketOf(t) % Bucket = 0
  BY <1>1, Division, Multiples
<1> QED
  BY <1>2, Division, ReadingsAssumption DEF BucketOf

\* Two buckets do not overlap.
LEMMA BucketGap ==
  ASSUME NEW a \in Nat, NEW b \in Nat, a % Bucket = 0, b % Bucket = 0, a < b
  PROVE  a + Bucket <= b
<1>1. /\ a = Bucket * (a \div Bucket) /\ a \div Bucket \in Nat
      /\ b = Bucket * (b \div Bucket) /\ b \div Bucket \in Nat
  BY Division, ReadingsAssumption
<1> QED
  BY <1>1, MultiplesApart

\* The bucket of a moment is the one it lies in.
LEMMA BucketUnique ==
  ASSUME NEW t \in Nat, NEW b \in Nat, b % Bucket = 0
  PROVE  (BucketOf(t) = b) <=> (b <= t /\ t < b + Bucket)
<1> DEFINE a == BucketOf(t)
<1>1. a \in Nat /\ a % Bucket = 0 /\ a <= t /\ t < a + Bucket
  BY BucketBounds
<1>2. (a < b => a + Bucket <= b) /\ (b < a => b + Bucket <= a)
  BY <1>1, BucketGap
<1> HIDE DEF a
<1>3. (a = b) <=> (b <= t /\ t < b + Bucket)
  BY <1>1, <1>2, ReadingsAssumption
<1> QED
  BY <1>3 DEF a

----------------------------------------------------------------------------
(* Finite sets.                                                            *)

LEMMA LessThan == OpToRel(<, Nat) = {p \in Nat \X Nat : p[1] < p[2]}
BY DEF OpToRel

\* A set of numbers has a least element.
LEMMA LeastNat ==
  ASSUME NEW T, T \subseteq Nat, T # {}
  PROVE  \E n \in T : \A m \in T : n <= m
<1> DEFINE R == {p \in Nat \X Nat : p[1] < p[2]}
<1>1. IsWellFoundedOn(R, Nat)
  BY NatLessThanWellFounded, LessThan
<1>2. \E n \in T : \A m \in T : ~ (<<m, n>> \in R)
  <2> HIDE DEF R
  <2> QED
    BY <1>1, WFMin
<1>3. PICK n \in T : \A m \in T : ~ (<<m, n>> \in R)
  BY <1>2
<1>4. ASSUME NEW m \in T PROVE n <= m
  <2>1. m \in Nat /\ n \in Nat /\ ~ (m < n)
    BY <1>3
  <2> QED
    BY <2>1
<1> QED
  BY <1>4

\* Among finite sets there is one no other has fewer elements than.
LEMMA SmallestSet ==
  ASSUME NEW C, C # {}, \A S \in C : IsFiniteSet(S)
  PROVE  \E S \in C : \A T \in C : Cardinality(S) <= Cardinality(T)
<1> DEFINE Sizes == {Cardinality(S) : S \in C}
<1>1. Sizes \subseteq Nat /\ Sizes # {}
  BY FS_CardinalityType
<1>2. \E n \in Sizes : \A m \in Sizes : n <= m
  <2> HIDE DEF Sizes
  <2> QED
    BY <1>1, LeastNat
<1> QED
  BY <1>2

\* A number attached to the elements of a finite set has a least and a
\* greatest value.
LEMMA Extremes ==
  ASSUME NEW S, IsFiniteSet(S), S # {}, NEW f \in [S -> Int]
  PROVE  /\ \E x \in S : \A y \in S : f[x] <= f[y]
         /\ \E x \in S : \A y \in S : f[x] >= f[y]
<1> DEFINE Bounded(T) == /\ \E x \in T : \A y \in T : f[x] <= f[y]
                         /\ \E x \in T : \A y \in T : f[x] >= f[y]
           C == {T \in SUBSET S : T # {} /\ ~ Bounded(T)}
<1>1. SUFFICES ASSUME C # {} PROVE FALSE
  OBVIOUS
<1>2. \A T \in C : IsFiniteSet(T)
  BY FS_Subset
<1>3. PICK T \in C : \A U \in C : Cardinality(T) <= Cardinality(U)
  <2> HIDE DEF C
  <2> QED
    BY <1>1, <1>2, SmallestSet
<1>4. PICK t \in T : TRUE
  OBVIOUS
<1>5. T \ {t} \notin C
  <2>1. IsFiniteSet(T) /\ Cardinality(T) \in Nat
    BY <1>2, FS_CardinalityType
  <2>2. Cardinality(T \ {t}) = Cardinality(T) - 1
    BY <1>4, <2>1, FS_RemoveElement
  <2> HIDE DEF C
  <2>3. ASSUME T \ {t} \in C PROVE FALSE
    <3>1. Cardinality(T) <= Cardinality(T \ {t})
      BY <1>3, <2>3
    <3> QED
      BY <2>1, <2>2, <3>1
  <2> QED
    BY <2>3
<1>6. CASE T \ {t} = {}
  <2>1. T = {t}
    BY <1>4, <1>6
  <2>2. Bounded(T)
    BY <2>1
  <2> QED
    BY <2>2
<1>7. CASE T \ {t} # {}
  <2>1. Bounded(T \ {t})
    BY <1>5, <1>7
  <2>2. PICK x \in T \ {t} : \A y \in T \ {t} : f[x] <= f[y]
    BY <2>1
  <2>3. PICK z \in T \ {t} : \A y \in T \ {t} : f[z] >= f[y]
    BY <2>1
  <2>4. \E w \in T : \A y \in T : f[w] <= f[y]
    <3>1. CASE f[x] <= f[t]
      BY <2>2, <3>1
    <3>2. CASE f[t] <= f[x]
      BY <1>4, <2>2, <3>2
    <3> QED
      BY <1>4, <3>1, <3>2
  <2>5. \E w \in T : \A y \in T : f[w] >= f[y]
    <3>1. CASE f[z] >= f[t]
      BY <2>3, <3>1
    <3>2. CASE f[t] >= f[z]
      BY <1>4, <2>3, <3>2
    <3> QED
      BY <1>4, <3>1, <3>2
  <2> QED
    BY <2>4, <2>5
<1> QED
  BY <1>6, <1>7

\* The sum of the values of a finite set of readings is a number.  Both forms
\* of the model fold the same recursive function over the set: one exists, and
\* all its values are numbers.
SumBody(s, f) == IF s = {} THEN 0
                 ELSE LET x == CHOOSE x \in s : TRUE IN x.value + f[s \ {x}]
IsSum(S, f) == f = [s \in SUBSET S |-> SumBody(s, f)]
SumRecursion(S) == CHOOSE f : IsSum(S, f)

LEMMA SumIsFold ==
  ASSUME NEW S
  PROVE  /\ MapThenSumSet(LAMBDA r : r.value, S) = SumRecursion(S)[S]
         /\ FoldSet(LAMBDA r, acc : r.value + acc, 0, S) = SumRecursion(S)[S]
BY DEF FoldSet, MapThenSumSet, MapThenFoldSet, SumRecursion, IsSum, SumBody

LEMMA SumExists ==
  ASSUME NEW S, IsFiniteSet(S)
  PROVE  \E f : IsSum(S, f)
<1> DEFINE Small(n) == {s \in SUBSET S : Cardinality(s) <= n}
           Partial(n, f) == f = [s \in Small(n) |-> SumBody(s, f)]
           Sizes == {n \in 0..Cardinality(S) : ~ \E f : Partial(n, f)}
<1>1. Cardinality(S) \in Nat /\ Small(Cardinality(S)) = SUBSET S
  BY FS_Subset, FS_CardinalityType
<1>2. \A s \in SUBSET S : IsFiniteSet(s) /\ Cardinality(s) \in Nat
  BY FS_Subset, FS_CardinalityType
<1>3. ASSUME NEW n \in Nat, NEW f, Partial(n, f)
      PROVE  \E g : Partial(n + 1, g)
  <2> DEFINE g == [s \in Small(n + 1) |-> SumBody(s, f)]
  <2>1. ASSUME NEW s \in Small(n + 1) PROVE SumBody(s, f) = SumBody(s, g)
    <3>1. CASE s = {}
      BY <3>1 DEF SumBody
    <3>2. CASE s # {}
      <4> DEFINE x == CHOOSE x \in s : TRUE
      <4>1. x \in s
        BY <3>2
      <4> HIDE DEF x
      <4>2. Cardinality(s \ {x}) = Cardinality(s) - 1
        BY <1>2, <4>1, FS_RemoveElement
      <4>3. s \ {x} \in Small(n) /\ s \ {x} \in Small(n + 1)
        BY <1>2, <4>2
      <4>4. f[s \ {x}] = SumBody(s \ {x}, f)
        BY <1>3, <4>3
      <4>5. g[s \ {x}] = SumBody(s \ {x}, f)
        BY <4>3
      <4>6. f[s \ {x}] = g[s \ {x}]
        BY <4>4, <4>5
      <4> QED
        BY <3>2, <4>6 DEF SumBody, x
    <3> QED
      BY <3>1, <3>2
  <2>2. Partial(n + 1, g)
    BY <2>1
  <2> QED
    BY <2>2
<1>4. \E f : Partial(0, f)
  <2> DEFINE f == [s \in Small(0) |-> 0]
  <2>1. ASSUME NEW s \in Small(0) PROVE s = {}
    BY <1>2, FS_EmptySet
  <2>2. Partial(0, f)
    BY <2>1 DEF SumBody
  <2> QED
    BY <2>2
<1> HIDE DEF Partial
<1>5. Sizes = {}
  <2> SUFFICES ASSUME Sizes # {} PROVE FALSE
    OBVIOUS
  <2>1. PICK n \in Sizes : \A m \in Sizes : n <= m
    <3>1. Sizes \subseteq Nat
      BY <1>1
    <3> HIDE DEF Sizes
    <3> QED
      BY <3>1, LeastNat
  <2>2. n - 1 \in Nat /\ n - 1 \in 0..Cardinality(S) /\ n - 1 + 1 = n /\ ~ (n <= n - 1)
    BY <1>1, <1>4
  <2>3. \E f : Partial(n - 1, f)
    BY <2>1, <2>2
  <2> QED
    BY <1>3, <2>2, <2>3
<1>6. \E f : Partial(Cardinality(S), f)
  BY <1>1, <1>5
<1> QED
  BY <1>1, <1>6 DEF Partial, IsSum

LEMMA SumIsInt ==
  ASSUME NEW S, IsFiniteSet(S), \A r \in S : r.value \in Int
  PROVE  MapThenSumSet(LAMBDA r : r.value, S) \in Int
<1> DEFINE f == SumRecursion(S)
           C == {s \in SUBSET S : f[s] \notin Int}
<1>1. \A s \in SUBSET S : f[s] = SumBody(s, f)
  BY SumExists DEF SumRecursion, IsSum
<1> HIDE DEF f
<1>2. SUFFICES C = {}
  BY SumIsFold DEF f
<1>3. SUFFICES ASSUME C # {} PROVE FALSE
  OBVIOUS
<1>4. \A s \in SUBSET S : IsFiniteSet(s) /\ Cardinality(s) \in Nat
  BY FS_Subset, FS_CardinalityType
<1>5. PICK s \in C : \A u \in C : Cardinality(s) <= Cardinality(u)
  <2>1. \A u \in C : IsFiniteSet(u)
    BY <1>4
  <2> HIDE DEF C
  <2> QED
    BY <1>3, <2>1, SmallestSet
<1>6. s # {}
  BY <1>1 DEF SumBody
<1> DEFINE x == CHOOSE x \in s : TRUE
<1>7. x \in s
  BY <1>6
<1>8. f[s] = x.value + f[s \ {x}]
  BY <1>1, <1>6 DEF SumBody
<1> HIDE DEF x
<1>9. Cardinality(s \ {x}) = Cardinality(s) - 1
  BY <1>4, <1>7, FS_RemoveElement
<1>10. s \ {x} \notin C
  BY <1>4, <1>5, <1>9
<1> QED
  BY <1>7, <1>8, <1>10

\* A list of the elements of S, once each, the greatest keys first: ORDER BY
\* key DESC.
Descending(seq, key) == \A i, j \in DOMAIN seq : i < j => key[seq[i]] >= key[seq[j]]
Sorting(S, key, seq) == seq \in SetToSeqs(S) /\ Descending(seq, key)

\* A list of a finite set misses none of its elements.
LEMMA ListIsComplete ==
  ASSUME NEW S, IsFiniteSet(S), NEW seq \in SetToSeqs(S)
  PROVE  /\ Cardinality(S) \in Nat /\ DOMAIN seq = 1..Cardinality(S)
         /\ seq \in [1..Cardinality(S) -> S]
         /\ \A x \in S : \E i \in DOMAIN seq : seq[i] = x
<1> DEFINE D == 1..Cardinality(S)
<1>1. Cardinality(S) \in Nat
  BY FS_CardinalityType
<1>2. seq \in [D -> S] /\ \A i, j \in D : i # j => seq[i] # seq[j]
  BY DEF SetToSeqs
<1>3. IsFiniteSet(D) /\ Cardinality(D) = Cardinality(S)
  BY <1>1, FS_Interval
<1>4. seq \in Injection(D, S)
  BY <1>2 DEF Injection, IsInjective
<1>5. seq \in Surjection(D, S)
  <2> HIDE DEF D
  <2> QED
    BY <1>3, <1>4, FS_Injection
<1>6. \A x \in S : \E i \in D : seq[i] = x
  BY <1>5 DEF Surjection
<1> QED
  BY <1>1, <1>2, <1>6

\* Appending the least element to a list of the others.
LEMMA SortingExtended ==
  ASSUME NEW S, IsFiniteSet(S), NEW key, NEW r \in S, \A x \in S : key[x] \in Int /\ key[r] <= key[x],
         NEW tail, Sorting(S \ {r}, key, tail)
  PROVE  \E seq : Sorting(S, key, seq)
<1> DEFINE n == Cardinality(S)
           seq == [i \in 1..n |-> IF i = n THEN r ELSE tail[i]]
<1>1. n \in Nat /\ n > 0 /\ Cardinality(S \ {r}) = n - 1
  BY FS_CardinalityType, FS_EmptySet, FS_RemoveElement
<1>2. /\ tail \in [1..(n - 1) -> S \ {r}]
      /\ \A i, j \in 1..(n - 1) : i # j => tail[i] # tail[j]
      /\ \A i, j \in 1..(n - 1) : i < j => key[tail[i]] >= key[tail[j]]
  BY <1>1 DEF Sorting, Descending, SetToSeqs
<1> HIDE DEF n
<1>3. \A i \in 1..n : i = n \/ i \in 1..(n - 1)
  BY <1>1
<1>4. seq \in [1..n -> S]
  BY <1>2, <1>3
<1>5. ASSUME NEW i \in 1..n, NEW j \in 1..n, i # j PROVE seq[i] # seq[j]
  BY <1>2, <1>3, <1>5
<1>6. ASSUME NEW i \in 1..n, NEW j \in 1..n, i < j PROVE key[seq[i]] >= key[seq[j]]
  <2>1. i \in 1..(n - 1) /\ tail[i] \in S /\ seq[i] = tail[i]
    BY <1>1, <1>2, <1>3, <1>6
  <2>2. CASE j = n
    BY <2>1, <2>2
  <2>3. CASE j # n
    BY <1>2, <1>3, <1>6, <2>1, <2>3
  <2> QED
    BY <2>2, <2>3
<1>7. Sorting(S, key, seq)
  BY <1>4, <1>5, <1>6 DEF Sorting, Descending, SetToSeqs, n
<1> QED
  BY <1>7

\* A finite set has such a list.
LEMMA SortingExists ==
  ASSUME NEW S, IsFiniteSet(S), NEW key \in [S -> Int]
  PROVE  \E seq : Sorting(S, key, seq)
<1> DEFINE C == {T \in SUBSET S : ~ \E seq : Sorting(T, key, seq)}
<1>1. SUFFICES ASSUME C # {} PROVE FALSE
  OBVIOUS
<1>2. \A T \in SUBSET S : IsFiniteSet(T) /\ Cardinality(T) \in Nat
  BY FS_Subset, FS_CardinalityType
<1>3. PICK T \in C : \A U \in C : Cardinality(T) <= Cardinality(U)
  <2>1. \A U \in C : IsFiniteSet(U)
    BY <1>2
  <2> HIDE DEF C
  <2> QED
    BY <1>1, <2>1, SmallestSet
<1>4. T # {}
  <2> DEFINE none == [i \in 1..0 |-> i]
  <2>1. none \in [1..Cardinality({}) -> {}] /\ DOMAIN none = {}
    BY FS_EmptySet
  <2>2. Sorting({}, key, none)
    BY <2>1, FS_EmptySet DEF Sorting, Descending, SetToSeqs
  <2> QED
    BY <2>2
<1>5. PICK r \in T : \A x \in T : key[r] <= key[x]
  <2> DEFINE f == [x \in T |-> key[x]]
  <2>1. f \in [T -> Int]
    OBVIOUS
  <2>2. \E x \in T : \A y \in T : f[x] <= f[y]
    <3> HIDE DEF f
    <3> QED
      BY <1>2, <1>4, <2>1, Extremes
  <2> QED
    BY <2>2
<1>6. Cardinality(T \ {r}) = Cardinality(T) - 1
  BY <1>2, <1>5, FS_RemoveElement
<1>7. T \ {r} \notin C
  BY <1>2, <1>3, <1>6
<1>8. \E tail : Sorting(T \ {r}, key, tail)
  BY <1>7
<1> QED
  BY <1>2, <1>5, <1>8, SortingExtended

LEMMA MaxOfTwo ==
  ASSUME NEW a \in Int, NEW b \in Int
  PROVE  /\ Max({a, b}) \in {a, b} /\ Max({a, b}) >= a /\ Max({a, b}) >= b
         /\ Min({a, b}) \in {a, b} /\ Min({a, b}) <= a /\ Min({a, b}) <= b
<1>1. \E x \in {a, b} : \A y \in {a, b} : x >= y
  <2>1. CASE a >= b
    BY <2>1
  <2>2. CASE b >= a
    BY <2>2
  <2> QED
    BY <2>1, <2>2
<1>2. \E x \in {a, b} : \A y \in {a, b} : x <= y
  <2>1. CASE a >= b
    BY <2>1
  <2>2. CASE b >= a
    BY <2>2
  <2> QED
    BY <2>1, <2>2
<1> QED
  BY <1>1, <1>2 DEF Max, Min

----------------------------------------------------------------------------
(* One row of the view.                                                    *)

InBucket(s, b, rows) == {r \in rows : r.sensor = s /\ BucketOf(r.at) = b}

\* A row tells the number, the sum and the extremes of its readings, and there
\* is none without readings.
LEMMA AggregateFacts ==
  ASSUME NEW s \in Sensors, NEW b, NEW rows \in SUBSET Rows, IsFiniteSet(rows)
  PROVE  LET in == InBucket(s, b, rows)
             row == Aggregate(s, b, rows)
         IN /\ row \in ViewRow \cup {None}
            /\ (row = None) <=> (in = {})
            /\ in # {} =>
                 /\ row.n = Cardinality(in) /\ row.account = Owner[s]
                 /\ row.sum = FoldSet(LAMBDA r, acc : r.value + acc, 0, in)
                 /\ \A r \in in : row.min <= r.value /\ r.value <= row.max
<1> DEFINE in == InBucket(s, b, rows)
           values == {r.value : r \in in}
           row == [account |-> Owner[s], n |-> Cardinality(in),
                   sum |-> MapThenSumSet(LAMBDA r : r.value, in),
                   min |-> Min(values), max |-> Max(values)]
<1>1. Aggregate(s, b, rows) = IF in = {} THEN None ELSE row
  BY DEF Aggregate, InBucket
<1>2. CASE in = {}
  BY <1>1, <1>2
<1>3. CASE in # {}
  <2>1. IsFiniteSet(in) /\ \A r \in in : r.value \in Int
    <3>1. IsFiniteSet(in)
      BY FS_Subset DEF InBucket
    <3> QED
      BY <3>1, ReadingsAssumption DEF InBucket, Rows
  <2>2. Cardinality(in) \in Nat /\ MapThenSumSet(LAMBDA r : r.value, in) \in Int
    <3> HIDE DEF in
    <3> QED
      BY <2>1, FS_CardinalityType, SumIsInt
  <2>3. /\ \E m \in values : \A v \in values : m <= v
        /\ \E m \in values : \A v \in values : m >= v
    <3> DEFINE f == [r \in in |-> r.value]
    <3>1. f \in [in -> Int]
      BY <2>1
    <3>2. /\ \E x \in in : \A y \in in : f[x] <= f[y]
          /\ \E x \in in : \A y \in in : f[x] >= f[y]
      <4> HIDE DEF in, f
      <4> QED
        BY <1>3, <2>1, <3>1, Extremes
    <3>3. PICK x \in in : \A y \in in : f[x] <= f[y]
      BY <3>2
    <3>4. PICK z \in in : \A y \in in : f[z] >= f[y]
      BY <3>2
    <3> HIDE DEF in
    <3> QED
      BY <3>3, <3>4
  <2>4. /\ Min(values) \in values /\ \A v \in values : Min(values) <= v
        /\ Max(values) \in values /\ \A v \in values : Max(values) >= v
    <3> HIDE DEF values
    <3> QED
      BY <2>3 DEF Min, Max
  <2>5. /\ Min(values) \in Int /\ Max(values) \in Int
        /\ \A r \in in : Min(values) <= r.value /\ r.value <= Max(values)
    <3> HIDE DEF in
    <3> QED
      BY <2>1, <2>4
  <2>6. Owner[s] \in Accounts
    BY DEF Accounts
  <2>7. MapThenSumSet(LAMBDA r : r.value, in) = FoldSet(LAMBDA r, acc : r.value + acc, 0, in)
    BY SumIsFold
  <2> HIDE DEF in, values
  <2>8. row \in ViewRow
    BY <2>2, <2>5, <2>6 DEF ViewRow
  <2>9. row # None
    BY <2>8, ReadingsAssumption
  <2>10. /\ row.n = Cardinality(in) /\ row.account = Owner[s]
         /\ row.min = Min(values) /\ row.max = Max(values)
         /\ row.sum = MapThenSumSet(LAMBDA r : r.value, in)
    OBVIOUS
  <2>11. Aggregate(s, b, rows) = row
    BY <1>1, <1>3
  <2> HIDE DEF row
  <2>12. row.sum = FoldSet(LAMBDA r, acc : r.value + acc, 0, in)
    BY <2>7, <2>10
  <2>13. \A r \in in : row.min <= r.value /\ r.value <= row.max
    BY <2>5, <2>10
  <2> QED
    BY <1>3, <2>8, <2>9, <2>10, <2>11, <2>12, <2>13, Zenon DEF in
<1> QED
  BY <1>2, <1>3

----------------------------------------------------------------------------
(* Types.                                                                  *)

\* What the tables hold besides their types.
Tables ==
  /\ IsFiniteSet(committed) /\ Cardinality(committed) <= MaxReadings
  /\ \A r \in committed : r.at <= now /\ r.account = Owner[r.sensor]

TypeInv == TypeOK /\ Tables

SensorRow == [active : BOOLEAN, lastSeen : 0..now \cup {None}]

\* The constants are numbers.
LEMMA Numbers ==
  /\ Bucket \in Nat /\ Bucket > 0 /\ Chunk \in Nat /\ Chunk > 0 /\ Every \in Nat /\ Every > 0
  /\ StartOffset \in Nat /\ EndOffset \in Nat /\ Retention \in Nat /\ Lag \in Nat
  /\ Freshness \in Nat /\ MaxClock \in Nat /\ MaxReadings \in Nat
  /\ EndOffset + Bucket <= StartOffset /\ StartOffset <= Retention /\ Lag <= EndOffset
  /\ Freshness < Retention
BY ReadingsAssumption

LEMMA BucketsFacts ==
  /\ \A b \in Buckets : b \in Nat /\ b <= MaxClock /\ b % Bucket = 0
  /\ \A t \in 0..MaxClock : BucketOf(t) \in Buckets
<1>1. ASSUME NEW t \in 0..MaxClock PROVE BucketOf(t) \in Buckets
  <2>1. t \in Nat /\ t <= MaxClock
    BY Numbers
  <2>2. BucketOf(t) \in Nat /\ BucketOf(t) <= t /\ BucketOf(t) % Bucket = 0
    BY <2>1, BucketBounds
  <2> HIDE DEF BucketOf
  <2> QED
    BY <2>1, <2>2, Numbers DEF Buckets
<1> QED
  BY <1>1, Numbers DEF Buckets

\* The dates of a well-typed state.
LEMMA Dates ==
  ASSUME TypeOK
  PROVE  /\ now \in Nat /\ now <= MaxClock /\ lastRefresh \in Nat /\ lastRefresh <= now
         /\ longestGap \in Nat /\ longestGap <= now /\ refreshAt \in Nat
         /\ \A r \in committed : /\ r.sensor \in Sensors /\ r.at \in Nat /\ r.at <= MaxClock
                                 /\ r.value \in Int /\ BucketOf(r.at) \in Buckets
<1>1. /\ now \in Nat /\ now <= MaxClock /\ lastRefresh \in Nat /\ lastRefresh <= now
      /\ longestGap \in Nat /\ longestGap <= now /\ refreshAt \in Nat
  BY Numbers DEF TypeOK
<1>2. ASSUME NEW r \in committed
      PROVE  /\ r.sensor \in Sensors /\ r.at \in 0..MaxClock /\ r.value \in Values
  BY DEF TypeOK, Rows
<1>3. ASSUME NEW r \in committed
      PROVE  /\ r.sensor \in Sensors /\ r.at \in Nat /\ r.at <= MaxClock
             /\ r.value \in Int /\ BucketOf(r.at) \in Buckets
  <2>1. BucketOf(r.at) \in Buckets
    BY <1>2, BucketsFacts
  <2>2. r.at \in Nat /\ r.at <= MaxClock
    BY <1>2, Numbers
  <2>3. Values \subseteq Int
    BY ReadingsAssumption
  <2> QED
    BY <1>2, <2>1, <2>2, <2>3
<1> QED
  BY <1>1, <1>3

\* What a transaction of the collector writes.
Sample(s, at, v) == [sensor |-> s, account |-> Owner[s], at |-> at, value |-> v]

LEMMA CollectEffect ==
  ASSUME TypeInv, NEW s \in Sensors, NEW at \in 0..MaxClock, NEW v \in Values, Collect(s, at, v)
  PROVE  /\ at \in Nat /\ at <= now /\ at >= now - Lag
         /\ Sample(s, at, v) \in Rows
         /\ readings' = readings \cup {Sample(s, at, v)}
         /\ committed' = committed \cup {Sample(s, at, v)}
         /\ Cardinality(committed) < MaxReadings
         /\ sensor[s].lastSeen # None => sensor[s].lastSeen < at
         /\ sensor[s].active
         /\ \A o \in Sensors : o # s => sensor'[o] = sensor[o]
         /\ sensor'[s] = [active |-> sensor[s].active, lastSeen |-> at]
         /\ sensor' \in [Sensors -> SensorRow]
         /\ dirty' = dirty \cup {BucketOf(at)} /\ BucketOf(at) \in Buckets
         /\ UNCHANGED <<now, up, aggregate, refreshAt, faults, edits, lastRefresh, longestGap>>
<1>1. at \in Nat /\ at <= now /\ at >= now - Lag
  BY Numbers DEF Collect
<1>2. Sample(s, at, v) \in Rows
  BY DEF Sample, Rows, Accounts
<1>3. sensor \in [Sensors -> SensorRow]
  BY DEF TypeInv, TypeOK, SensorRow
<1>4. at \in 0..now
  BY <1>1, Dates DEF TypeInv
<1>5. sensor' = [sensor EXCEPT ![s] = [sensor[s] EXCEPT !.lastSeen = at]]
  BY DEF Collect
<1>6. [sensor[s] EXCEPT !.lastSeen = at] = [active |-> sensor[s].active, lastSeen |-> at]
  BY <1>3 DEF SensorRow
<1>7. [active |-> sensor[s].active, lastSeen |-> at] \in SensorRow
  BY <1>3, <1>4 DEF SensorRow
<1>8. /\ \A o \in Sensors : o # s => sensor'[o] = sensor[o]
      /\ sensor'[s] = [active |-> sensor[s].active, lastSeen |-> at]
      /\ sensor' \in [Sensors -> SensorRow]
  BY <1>3, <1>5, <1>6, <1>7
<1>9. BucketOf(at) \in Buckets
  BY BucketsFacts
<1>10. /\ readings' = readings \cup {Sample(s, at, v)}
       /\ committed' = committed \cup {Sample(s, at, v)}
       /\ Cardinality(committed) < MaxReadings /\ sensor[s].active
       /\ sensor[s].lastSeen # None => sensor[s].lastSeen < at
       /\ dirty' = dirty \cup {BucketOf(at)}
       /\ UNCHANGED <<now, up, aggregate, refreshAt, faults, edits, lastRefresh, longestGap>>
  BY DEF Collect, Sample
<1> QED
  BY <1>1, <1>2, <1>8, <1>9, <1>10

LEMMA CollectTyped ==
  ASSUME TypeInv, NEW s \in Sensors, NEW at \in 0..MaxClock, NEW v \in Values, Collect(s, at, v)
  PROVE  TypeInv'
<1> DEFINE r == Sample(s, at, v)
<1>1. /\ at <= now /\ readings' = readings \cup {r} /\ committed' = committed \cup {r}
      /\ Cardinality(committed) < MaxReadings /\ sensor' \in [Sensors -> SensorRow]
      /\ dirty' = dirty \cup {BucketOf(at)} /\ BucketOf(at) \in Buckets /\ r \in Rows
      /\ now' = now /\ up' = up /\ aggregate' = aggregate /\ refreshAt' = refreshAt
      /\ lastRefresh' = lastRefresh /\ longestGap' = longestGap
  BY CollectEffect
<1>2. TypeOK'
  BY <1>1 DEF TypeInv, TypeOK, SensorRow
<1>3. r.at = at /\ r.sensor = s /\ r.account = Owner[s]
  BY DEF Sample
<1> HIDE DEF r
<1>4. IsFiniteSet(committed') /\ Cardinality(committed') <= MaxReadings
  <2>1. IsFiniteSet(committed) /\ Cardinality(committed) \in Nat
    BY FS_CardinalityType DEF TypeInv, Tables
  <2>2. /\ IsFiniteSet(committed \cup {r})
        /\ Cardinality(committed \cup {r}) \in {Cardinality(committed), Cardinality(committed) + 1}
    BY <2>1, FS_AddElement
  <2>3. Cardinality(committed \cup {r}) \in Nat
    BY <2>2, FS_CardinalityType
  <2> QED
    BY <1>1, <2>1, <2>2, <2>3, Numbers
<1>5. \A x \in committed' : x.at <= now' /\ x.account = Owner[x.sensor]
  BY <1>1, <1>3 DEF TypeInv, Tables
<1> QED
  BY <1>2, <1>4, <1>5 DEF TypeInv, Tables

LEMMA RefreshTyped == TypeInv /\ Refresh => TypeInv'
<1> SUFFICES ASSUME TypeInv, Refresh PROVE TypeInv'
  OBVIOUS
<1>1. ASSUME NEW sb \in Sensors \X Buckets
      PROVE  Aggregate(sb[1], sb[2], readings) \in ViewRow \cup {None}
  <2>1. readings \in SUBSET Rows /\ IsFiniteSet(readings)
    BY FS_Subset DEF TypeInv, TypeOK, Tables
  <2>2. sb[1] \in Sensors
    OBVIOUS
  <2> QED
    BY <2>1, <2>2, AggregateFacts
<1>2. aggregate' \in [Sensors \X Buckets -> ViewRow \cup {None}]
  <2>1. aggregate \in [Sensors \X Buckets -> ViewRow \cup {None}]
    BY DEF TypeInv, TypeOK
  <2>2. aggregate' = [sb \in Sensors \X Buckets |->
          IF sb[2] \in Window \cap dirty THEN Aggregate(sb[1], sb[2], readings) ELSE aggregate[sb]]
    BY <2>1 DEF Refresh
  <2> QED
    BY <1>1, <2>1, <2>2
<1>3. refreshAt' \in 0..(MaxClock + Every) /\ lastRefresh' \in 0..now'
  BY Dates, Numbers DEF TypeInv, Refresh
<1>4. longestGap' \in 0..now'
  <2>1. longestGap' = Max({longestGap, now - lastRefresh}) /\ now' = now
    BY DEF Refresh
  <2>2. longestGap' \in {longestGap, now - lastRefresh}
    <3>1. longestGap \in Int /\ now - lastRefresh \in Int
      BY Dates DEF TypeInv
    <3> QED
      BY <2>1, <3>1, MaxOfTwo
  <2> QED
    BY <2>1, <2>2, Dates DEF TypeInv
<1>5. /\ dirty' \subseteq dirty /\ now' = now /\ up' = up /\ readings' = readings
      /\ sensor' = sensor /\ committed' = committed
  BY DEF Refresh
<1>6. TypeOK'
  BY <1>2, <1>3, <1>4, <1>5 DEF TypeInv, TypeOK
<1> QED
  BY <1>5, <1>6 DEF TypeInv, Tables

LEMMA SetActiveEffect ==
  ASSUME TypeInv, NEW s \in Sensors, SetActive(s)
  PROVE  /\ sensor' \in [Sensors -> SensorRow]
         /\ \A o \in Sensors : sensor'[o].lastSeen = sensor[o].lastSeen
         /\ UNCHANGED <<now, up, readings, aggregate, dirty, refreshAt, committed,
                        lastRefresh, longestGap>>
<1>1. sensor \in [Sensors -> SensorRow]
  BY DEF TypeInv, TypeOK, SensorRow
<1>2. PICK flag \in BOOLEAN : sensor' = [sensor EXCEPT ![s] = [sensor[s] EXCEPT !.active = flag]]
  <2>1. (~ sensor[s].active) \in BOOLEAN
    OBVIOUS
  <2>2. sensor' = [sensor EXCEPT ![s] = [sensor[s] EXCEPT !.active = ~ sensor[s].active]]
    BY DEF SetActive
  <2> QED
    BY <2>1, <2>2, Zenon
<1>3. /\ [sensor[s] EXCEPT !.active = flag] \in SensorRow
      /\ [sensor[s] EXCEPT !.active = flag].lastSeen = sensor[s].lastSeen
  BY <1>1 DEF SensorRow
<1> QED
  BY <1>1, <1>2, <1>3 DEF SetActive

\* Every other step leaves the sensors, the view and the history alone.
Idle ==
  /\ UNCHANGED <<sensor, aggregate, dirty, committed, lastRefresh, longestGap>>
  /\ readings' \subseteq readings /\ up' \in BOOLEAN
  /\ now' \in {now, now + 1} /\ now' <= MaxClock
  /\ refreshAt' \in {refreshAt, now + Every}

LEMMA IdleTyped == TypeInv /\ Idle => TypeInv'
<1> SUFFICES ASSUME TypeInv, Idle PROVE TypeInv'
  OBVIOUS
<1>1. /\ now' \in 0..MaxClock /\ now <= now' /\ lastRefresh' \in 0..now' /\ longestGap' \in 0..now'
      /\ refreshAt' \in 0..(MaxClock + Every)
  BY Dates, Numbers DEF TypeInv, TypeOK, Idle
<1>2. sensor' \in [Sensors -> [active : BOOLEAN, lastSeen : 0..now' \cup {None}]]
  <2>1. sensor \in [Sensors -> SensorRow] /\ sensor' = sensor
    BY DEF TypeInv, TypeOK, Idle, SensorRow
  <2>2. 0..now \subseteq 0..now'
    BY <1>1, Dates DEF TypeInv
  <2> QED
    BY <2>1, <2>2 DEF SensorRow
<1>3. TypeOK'
  BY <1>1, <1>2 DEF TypeInv, TypeOK, Idle
<1>4. \A r \in committed' : r.at <= now'
  BY <1>1, Dates DEF TypeInv, Tables, Idle
<1> QED
  BY <1>3, <1>4 DEF TypeInv, Tables, Idle

\* The steps, as the proofs split them.
CollectStep ==
  \E s \in Sensors, v \in Values, at \in 0..MaxClock : Collect(s, at, v)
ActiveStep == \E s \in Sensors : SetActive(s)
DropStep == \E c \in {c \in 0..MaxClock : c % Chunk = 0} : DropChunk(c)

LEMMA StepKinds ==
  ASSUME TypeInv, [Next]_vars
  PROVE  CollectStep \/ ActiveStep \/ Refresh \/ DropStep \/ (Idle /\ readings' = readings)
<1>1. CASE CollectStep \/ ActiveStep \/ Refresh \/ DropStep
  BY <1>1
<1>2. CASE RefreshFails \/ Outage \/ Restart
  <2>1. up' \in BOOLEAN
    BY <1>2 DEF TypeInv, TypeOK, RefreshFails, Outage, Restart
  <2>2. /\ UNCHANGED <<now, readings, sensor, aggregate, dirty, committed, lastRefresh, longestGap>>
        /\ refreshAt' \in {refreshAt, now + Every}
    BY <1>2 DEF RefreshFails, Outage, Restart
  <2> QED
    BY <2>1, <2>2, Dates DEF TypeInv, Idle
<1>3. CASE Tick
  BY <1>3, Dates, Numbers DEF TypeInv, TypeOK, Tick, Idle
<1>4. CASE UNCHANGED vars
  BY <1>4, Dates DEF TypeInv, TypeOK, vars, Idle
<1> QED
  BY <1>1, <1>2, <1>3, <1>4 DEF Next, CollectStep, ActiveStep, DropStep

LEMMA DropIsIdle == TypeInv /\ DropStep => Idle
BY Dates DEF TypeInv, TypeOK, DropStep, DropChunk, Idle

LEMMA ActiveTyped == TypeInv /\ ActiveStep => TypeInv'
<1> SUFFICES ASSUME TypeInv, NEW s \in Sensors, SetActive(s) PROVE TypeInv'
  BY DEF ActiveStep
<1>1. /\ sensor' \in [Sensors -> SensorRow]
      /\ UNCHANGED <<now, up, readings, aggregate, dirty, refreshAt, committed,
                     lastRefresh, longestGap>>
  BY SetActiveEffect
<1>2. TypeOK'
  BY <1>1 DEF TypeInv, TypeOK, SensorRow
<1> QED
  BY <1>1, <1>2 DEF TypeInv, Tables

LEMMA TypeStep == TypeInv /\ [Next]_vars => TypeInv'
<1> SUFFICES ASSUME TypeInv, [Next]_vars PROVE TypeInv'
  OBVIOUS
<1>1. CASE CollectStep
  BY <1>1, CollectTyped DEF CollectStep
<1>2. CASE ActiveStep
  BY <1>2, ActiveTyped
<1>3. CASE Refresh
  BY <1>3, RefreshTyped
<1>4. CASE DropStep \/ Idle
  BY <1>4, DropIsIdle, IdleTyped
<1> QED
  BY <1>1, <1>2, <1>3, <1>4, StepKinds

LEMMA TypeInit == Init => TypeInv
<1> SUFFICES ASSUME Init PROVE TypeInv
  OBVIOUS
<1>1. now = 0 /\ committed = {} /\ readings = {} /\ lastRefresh = 0 /\ longestGap = 0
  BY DEF Init
<1>2. TypeOK
  <2>1. now \in 0..MaxClock /\ refreshAt \in 0..(MaxClock + Every) /\ 0 \in 0..now
    BY <1>1, Numbers DEF Init
  <2> QED
    BY <1>1, <2>1 DEF Init, TypeOK
<1>3. Tables
  BY <1>1, FS_EmptySet, Numbers DEF Tables
<1> QED
  BY <1>2, <1>3 DEF TypeInv

\* The tables, the view and the job stay well typed: a row of the view is a row
\* of the sensor's account with numbers, whatever it was computed from
\* (migration:291-358).
THEOREM TypeCorrect == Spec => []TypeOK
<1>1. TypeInv => TypeOK
  BY DEF TypeInv
<1> QED
  BY <1>1, TypeInit, TypeStep, PTL DEF Spec

----------------------------------------------------------------------------
(* Retention.                                                              *)

\* A chunk that goes held nothing as young as the retention, the boundary
\* included.
Kept == \A r \in committed : r.at >= now - Retention => r \in readings

LEMMA KeptStep == TypeInv /\ Kept /\ [Next]_vars => Kept'
<1> SUFFICES ASSUME TypeInv, Kept, [Next]_vars PROVE Kept'
  OBVIOUS
<1>1. CASE CollectStep
  <2> PICK s \in Sensors, v \in Values, at \in 0..MaxClock : Collect(s, at, v)
    BY <1>1 DEF CollectStep
  <2>1. /\ readings' = readings \cup {Sample(s, at, v)}
        /\ committed' = committed \cup {Sample(s, at, v)} /\ now' = now
    BY CollectEffect
  <2> QED
    BY <2>1 DEF Kept
<1>2. CASE ActiveStep \/ Refresh
  BY <1>2 DEF ActiveStep, SetActive, Refresh, Kept
<1>3. CASE DropStep
  <2> PICK c \in 0..MaxClock : DropChunk(c)
    BY <1>3 DEF DropStep
  <2>1. /\ c + Chunk <= now - Retention /\ now' = now /\ committed' = committed
        /\ readings' = {r \in readings : r.at \notin c..(c + Chunk - 1)}
    BY DEF DropChunk, Droppable
  <2>2. ASSUME NEW r \in committed, r.at >= now - Retention PROVE r.at \notin c..(c + Chunk - 1)
    <3>1. r.at \in Nat /\ now \in Nat
      BY Dates DEF TypeInv
    <3> QED
      BY <2>1, <2>2, <3>1, Numbers
  <2> QED
    BY <2>1, <2>2 DEF Kept
<1>4. CASE Idle /\ readings' = readings
  <2>1. ASSUME NEW r \in committed, r.at >= now' - Retention PROVE r.at >= now - Retention
    BY <1>4, <2>1, Dates, Numbers DEF TypeInv, Idle
  <2> QED
    BY <1>4, <2>1 DEF Kept, Idle
<1> QED
  BY <1>1, <1>2, <1>3, <1>4, StepKinds

LEMMA KeptInit == Init => Kept
BY DEF Init, Kept

----------------------------------------------------------------------------
(* The sensors online.                                                     *)

\* last_seen_at is the date of the last reading committed for the sensor.
SeenIsLatest ==
  \A s \in Sensors :
    /\ sensor[s].lastSeen # None =>
         \E r \in committed : r.sensor = s /\ r.at = sensor[s].lastSeen
    /\ \A r \in committed : r.sensor = s =>
         sensor[s].lastSeen # None /\ r.at <= sensor[s].lastSeen

LEMMA SeenStep == TypeInv /\ SeenIsLatest /\ [Next]_vars => SeenIsLatest'
<1> SUFFICES ASSUME TypeInv, SeenIsLatest, [Next]_vars PROVE SeenIsLatest'
  OBVIOUS
<1>1. CASE CollectStep
  <2> PICK s \in Sensors, v \in Values, at \in 0..MaxClock : Collect(s, at, v)
    BY <1>1 DEF CollectStep
  <2> DEFINE new == Sample(s, at, v)
  <2>1. new.sensor = s /\ new.at = at
    BY DEF Sample
  <2>2. /\ committed' = committed \cup {new}
        /\ \A o \in Sensors : o # s => sensor'[o] = sensor[o]
        /\ sensor'[s] = [active |-> sensor[s].active, lastSeen |-> at] /\ at \in Nat
        /\ sensor[s].lastSeen # None => sensor[s].lastSeen < at
    BY CollectEffect
  <2> HIDE DEF new
  <2>3. sensor'[s].lastSeen = at
    BY <2>2
  <2>4. at # None
    BY <2>2, ReadingsAssumption
  <2>5. ASSUME NEW r \in committed, r.sensor = s PROVE r.at <= at
    <3>1. sensor[s].lastSeen # None /\ r.at <= sensor[s].lastSeen
      BY <2>5 DEF SeenIsLatest
    <3>2. sensor[s].lastSeen \in Int /\ r.at \in Int
      <4>1. sensor[s].lastSeen \in 0..now
        BY <3>1 DEF TypeInv, TypeOK
      <4> QED
        BY <4>1, Dates DEF TypeInv
    <3> QED
      BY <2>2, <3>1, <3>2
  <2>6. \A r \in committed' : r.sensor = s => r.at <= at
    BY <2>1, <2>2, <2>5
  <2>7. ASSUME NEW o \in Sensors
        PROVE  /\ sensor'[o].lastSeen # None =>
                    \E r \in committed' : r.sensor = o /\ r.at = sensor'[o].lastSeen
               /\ \A r \in committed' : r.sensor = o =>
                    sensor'[o].lastSeen # None /\ r.at <= sensor'[o].lastSeen
    <3>1. CASE o = s
      BY <2>1, <2>2, <2>4, <2>6, <2>3, <3>1
    <3>2. CASE o # s
      BY <2>1, <2>2, <3>2 DEF SeenIsLatest
    <3> QED
      BY <3>1, <3>2
  <2> QED
    BY <2>7 DEF SeenIsLatest
<1>2. CASE ActiveStep
  <2> PICK s \in Sensors : SetActive(s)
    BY <1>2 DEF ActiveStep
  <2>1. committed' = committed /\ \A o \in Sensors : sensor'[o].lastSeen = sensor[o].lastSeen
    BY SetActiveEffect
  <2> QED
    BY <2>1 DEF SeenIsLatest
<1>3. CASE Refresh \/ DropStep \/ Idle
  BY <1>3, DropIsIdle DEF Refresh, Idle, SeenIsLatest
<1> QED
  BY <1>1, <1>2, <1>3, StepKinds

LEMMA SeenInit == Init => SeenIsLatest
BY DEF Init, SeenIsLatest

LEMMA OnlineFromInv ==
  ASSUME TypeInv, Kept, SeenIsLatest
  PROVE  OnlineAgrees
<1> SUFFICES ASSUME NEW acc \in Accounts, NEW listed \in 0..now
             PROVE  LET online == {s \in Sensors : Owner[s] = acc /\ IsOnline(s, listed)}
                    IN /\ \A counted \in listed..now :
                            SensorsActive(acc, counted) =
                              Cardinality({s \in online : sensor[s].lastSeen >= Cutoff(counted)})
                       /\ Cutoff(listed) >= now - Retention =>
                            \A s \in online : \E r \in LatestReadings(acc) :
                              r.sensor = s /\ r.at >= Cutoff(listed)
  BY DEF OnlineAgrees
<1> DEFINE online == {s \in Sensors : Owner[s] = acc /\ IsOnline(s, listed)}
<1>1. ASSUME NEW counted \in listed..now
      PROVE  SensorsActive(acc, counted) =
               Cardinality({s \in online : sensor[s].lastSeen >= Cutoff(counted)})
  <2> DEFINE fresh == {s \in Sensors : /\ Owner[s] = acc /\ sensor[s].active
                                       /\ sensor[s].lastSeen # None
                                       /\ sensor[s].lastSeen >= Cutoff(counted)}
  <2>1. ASSUME NEW s \in Sensors, sensor[s].lastSeen # None, sensor[s].lastSeen >= Cutoff(counted)
        PROVE  sensor[s].lastSeen >= Cutoff(listed)
    <3>1. now \in Nat /\ listed \in Nat /\ counted \in Nat /\ listed <= counted
      BY Dates DEF TypeInv
    <3>2. sensor[s].lastSeen \in 0..now
      BY <2>1 DEF TypeInv, TypeOK
    <3>3. sensor[s].lastSeen \in Nat
      BY <3>1, <3>2
    <3> QED
      BY <2>1, <3>1, <3>3, Numbers DEF Cutoff
  <2>2. fresh = {s \in online : sensor[s].lastSeen >= Cutoff(counted)}
    BY <2>1 DEF IsOnline
  <2> QED
    BY <2>2 DEF SensorsActive
<1>2. ASSUME NEW s \in online, Cutoff(listed) >= now - Retention
      PROVE  \E r \in LatestReadings(acc) : r.sensor = s /\ r.at >= Cutoff(listed)
  <2>1. /\ s \in Sensors /\ Owner[s] = acc
        /\ sensor[s].lastSeen # None /\ sensor[s].lastSeen >= Cutoff(listed)
    BY DEF IsOnline
  <2>2. PICK r \in committed : r.sensor = s /\ r.at = sensor[s].lastSeen
    BY <2>1 DEF SeenIsLatest
  <2>3. r.at >= now - Retention
    <3>1. now \in Nat /\ listed \in Nat /\ r.at \in Nat
      BY Dates DEF TypeInv
    <3> QED
      BY <1>2, <2>1, <2>2, <3>1, Numbers DEF Cutoff
  <2>4. r \in readings /\ r.account = acc
    BY <2>1, <2>2, <2>3 DEF Kept, TypeInv, Tables
  <2>5. \A x \in readings : x.sensor = s => x.at <= r.at
    BY <2>1, <2>2 DEF SeenIsLatest, TypeInv, TypeOK
  <2> QED
    BY <2>1, <2>2, <2>4, <2>5 DEF LatestReadings
<1> QED
  BY <1>1, <1>2

\* For any sensors and windows of freshness shorter than the retention: the two
\* counts of sensors online agree, and each such sensor has a latest reading
\* that shows it (sensors_service.py:71-76, 228-245).
THEOREM OnlineAgreesCorrect == Spec => []OnlineAgrees
<1>1. TypeInv /\ Kept /\ SeenIsLatest => OnlineAgrees
  BY OnlineFromInv
<1> QED
  BY <1>1, TypeInit, TypeStep, KeptInit, KeptStep, SeenInit, SeenStep, PTL DEF Spec

----------------------------------------------------------------------------
(* The refresh in time.                                                    *)

\* The longest pause that leaves no bucket out: a bucket then is whole before
\* one refresh at least while it is in the window.
Patience == StartOffset - EndOffset - Bucket

\* What the last refresh left to do: buckets that had left its window, and
\* buckets not yet whole.
Settled == \A b \in dirty : b < lastRefresh - StartOffset \/ b + Bucket > lastRefresh - EndOffset

\* As long as no pause was too long, a reading whose bucket had left the window
\* at the last refresh was in the view by then.
CaughtUp ==
  longestGap <= Patience =>
    \A r \in committed : BucketOf(r.at) < lastRefresh - StartOffset => BucketOf(r.at) \notin dirty

TimeInv == TypeInv /\ Settled /\ CaughtUp

\* So it is at any moment since, as long as that is not too long either.
LEMMA StillCaughtUp ==
  ASSUME TimeInv, longestGap <= Patience, now - lastRefresh <= Patience,
         NEW r \in committed, BucketOf(r.at) < now - StartOffset
  PROVE  BucketOf(r.at) \notin dirty
<1> DEFINE b == BucketOf(r.at)
<1>1. b \in Nat /\ now \in Nat /\ lastRefresh \in Nat
  BY Dates, BucketsFacts DEF TimeInv, TypeInv
<1>2. ASSUME b \in dirty PROVE FALSE
  <2>1. ~ (b < lastRefresh - StartOffset)
    BY <1>2 DEF TimeInv, CaughtUp
  <2>2. b + Bucket > lastRefresh - EndOffset
    BY <1>2, <2>1 DEF TimeInv, Settled
  <2>3. b < now - StartOffset
    OBVIOUS
  <2> HIDE DEF b
  <2> QED
    BY <1>1, <2>2, <2>3, Numbers DEF Patience
<1> QED
  BY <1>2

LEMMA InTimeFromInv == TimeInv => MaterialisedInTime
<1> SUFFICES ASSUME TimeInv, Max({longestGap, now - lastRefresh}) <= StartOffset - EndOffset - Bucket,
                    NEW r \in committed, BucketOf(r.at) < now - StartOffset
             PROVE  BucketOf(r.at) \notin dirty
  BY DEF MaterialisedInTime
<1>1. longestGap \in Int /\ now - lastRefresh \in Int /\ Patience \in Int
  BY Dates, Numbers DEF TimeInv, TypeInv, Patience
<1> DEFINE m == Max({longestGap, now - lastRefresh})
<1>2. m \in Int /\ m >= longestGap /\ m >= now - lastRefresh
  BY <1>1, MaxOfTwo
<1>3. m <= Patience
  BY DEF Patience
<1> HIDE DEF m
<1>4. longestGap <= Patience /\ now - lastRefresh <= Patience
  BY <1>1, <1>2, <1>3
<1> QED
  BY <1>4, StillCaughtUp

\* A sample is committed before its bucket is refreshed for the last time.
LEMMA CollectInTime ==
  ASSUME TimeInv, NEW s \in Sensors, NEW at \in 0..MaxClock, NEW v \in Values, Collect(s, at, v)
  PROVE  Settled' /\ CaughtUp'
<1> DEFINE b == BucketOf(at)
           new == Sample(s, at, v)
<1>1. /\ at \in Nat /\ at >= now - Lag /\ dirty' = dirty \cup {b} /\ b \in Buckets
      /\ lastRefresh' = lastRefresh /\ longestGap' = longestGap
      /\ committed' = committed \cup {new}
  BY CollectEffect DEF TimeInv
<1>2. new.at = at
  BY DEF Sample
<1>3. b \in Nat /\ at < b + Bucket
  BY <1>1, BucketBounds
<1>4. now \in Nat /\ lastRefresh \in Nat /\ lastRefresh <= now
  BY Dates DEF TimeInv, TypeInv
<1> HIDE DEF b, new
<1>5. b + Bucket > lastRefresh - EndOffset /\ ~ (b < lastRefresh - StartOffset)
  BY <1>1, <1>3, <1>4, Numbers
<1>6. Settled'
  BY <1>1, <1>5 DEF TimeInv, Settled
<1>7. CaughtUp'
  <2> SUFFICES ASSUME longestGap <= Patience, NEW r \in committed',
                      BucketOf(r.at) < lastRefresh - StartOffset
               PROVE  BucketOf(r.at) \notin dirty'
    BY <1>1 DEF CaughtUp, BucketOf
  <2>1. BucketOf(r.at) # b
    BY <1>5
  <2>2. r \in committed
    BY <1>1, <1>2, <2>1 DEF b
  <2>3. BucketOf(r.at) \notin dirty
    BY <2>2 DEF TimeInv, CaughtUp
  <2> QED
    BY <1>1, <2>1, <2>3
<1> QED
  BY <1>6, <1>7

\* A refresh leaves the buckets outside its window.
LEMMA RefreshInTime == TimeInv /\ Refresh => Settled' /\ CaughtUp'
<1> SUFFICES ASSUME TimeInv, Refresh PROVE Settled' /\ CaughtUp'
  OBVIOUS
<1>1. /\ dirty' = dirty \ Window /\ lastRefresh' = now /\ committed' = committed
      /\ longestGap' = Max({longestGap, now - lastRefresh})
  BY DEF Refresh
<1>2. now \in Nat /\ longestGap \in Nat /\ now - lastRefresh \in Int /\ Patience \in Int
  BY Dates, Numbers DEF TimeInv, TypeInv, Patience
<1>3. ASSUME NEW b \in dirty' PROVE b < now - StartOffset \/ b + Bucket > now - EndOffset
  <2>1. b \in Buckets /\ b \notin Window
    BY <1>1 DEF TimeInv, TypeInv, TypeOK
  <2>2. b \in Nat
    BY <2>1, BucketsFacts
  <2> QED
    BY <1>2, <2>1, <2>2, Numbers DEF Window
<1>4. Settled'
  BY <1>1, <1>3 DEF Settled
<1>5. CaughtUp'
  <2> SUFFICES ASSUME longestGap' <= Patience, NEW r \in committed,
                      BucketOf(r.at) < now - StartOffset
               PROVE  BucketOf(r.at) \notin dirty'
    BY <1>1 DEF CaughtUp, BucketOf
  <2>1. longestGap' \in Int /\ longestGap' >= longestGap /\ longestGap' >= now - lastRefresh
    BY <1>1, <1>2, MaxOfTwo
  <2>2. longestGap <= Patience /\ now - lastRefresh <= Patience
    BY <1>2, <2>1
  <2>3. BucketOf(r.at) \notin dirty
    BY <2>2, StillCaughtUp
  <2> QED
    BY <1>1, <2>3
<1> QED
  BY <1>4, <1>5

LEMMA TimeStep == TimeInv /\ [Next]_vars => TimeInv'
<1> SUFFICES ASSUME TimeInv, [Next]_vars PROVE TimeInv'
  OBVIOUS
<1>1. TypeInv /\ TypeInv'
  BY TypeStep DEF TimeInv
<1>2. CASE CollectStep
  BY <1>1, <1>2, CollectInTime DEF CollectStep, TimeInv
<1>3. CASE Refresh
  BY <1>1, <1>3, RefreshInTime DEF TimeInv
<1>4. CASE ActiveStep \/ DropStep \/ Idle
  <2>1. UNCHANGED <<dirty, committed, lastRefresh, longestGap>>
    BY <1>1, <1>4, DropIsIdle DEF ActiveStep, SetActive, Idle
  <2> QED
    BY <1>1, <2>1 DEF TimeInv, Settled, CaughtUp, BucketOf
<1> QED
  BY <1>1, <1>2, <1>3, <1>4, StepKinds

LEMMA TimeInit == Init => TimeInv
<1> SUFFICES ASSUME Init PROVE TimeInv
  OBVIOUS
<1>1. TypeInv
  BY TypeInit
<1>2. Settled
  <2>1. dirty = Buckets /\ lastRefresh = 0
    BY DEF Init
  <2> QED
    BY <2>1, BucketsFacts, Numbers DEF Settled
<1>3. CaughtUp
  BY DEF Init, CaughtUp
<1> QED
  BY <1>1, <1>2, <1>3 DEF TimeInv

\* For any offsets, lag and interval: as long as no two refreshes are further
\* apart than the window is wide less a bucket, no reading is left out of the
\* view, however late it was committed (migration:347-358).
THEOREM MaterialisedInTimeCorrect == Spec => []MaterialisedInTime
BY TimeInit, TimeStep, InTimeFromInv, PTL DEF Spec

----------------------------------------------------------------------------
(* The view and the history.                                               *)

\* Where the view has caught up, it is what a refresh of all that was ever
\* committed would compute: retention takes nothing from it.
Exact == \A s \in Sensors, b \in Buckets \ dirty : aggregate[<<s, b>>] = Aggregate(s, b, committed)

ViewInv == TypeInv /\ Kept /\ Exact

\* A row depends on the readings of its sensor and bucket only.
LEMMA SameRow ==
  ASSUME NEW s, NEW b, NEW p, NEW q, InBucket(s, b, p) = InBucket(s, b, q)
  PROVE  Aggregate(s, b, p) = Aggregate(s, b, q)
BY DEF Aggregate, InBucket

\* Retention has not yet reached what a refresh reads: start_offset is no
\* longer than drop_after.
LEMMA WindowKept ==
  ASSUME TypeInv, Kept, NEW s, NEW b \in Window
  PROVE  InBucket(s, b, readings) = InBucket(s, b, committed)
<1>1. b \in Nat /\ b >= now - StartOffset
  BY BucketsFacts DEF Window
<1>2. ASSUME NEW r \in InBucket(s, b, committed) PROVE r \in readings
  <2>1. r \in committed /\ r.at \in Nat /\ BucketOf(r.at) = b
    BY Dates DEF TypeInv, InBucket
  <2>2. b <= r.at
    BY <2>1, BucketBounds
  <2>3. r.at >= now - Retention
    BY <1>1, <2>1, <2>2, Dates, Numbers DEF TypeInv
  <2> QED
    BY <2>1, <2>3 DEF Kept
<1>3. readings \subseteq committed
  BY DEF TypeInv, TypeOK
<1> QED
  BY <1>2, <1>3 DEF InBucket

LEMMA RefreshExact == ViewInv /\ Refresh => Exact'
<1> SUFFICES ASSUME ViewInv, Refresh PROVE Exact'
  OBVIOUS
<1>1. committed' = committed
  BY DEF Refresh
<1> SUFFICES ASSUME NEW s \in Sensors, NEW b \in Buckets, b \notin dirty'
             PROVE  aggregate'[<<s, b>>] = Aggregate(s, b, committed)
  BY <1>1 DEF Exact
<1>2. /\ dirty' = dirty \ Window /\ DOMAIN aggregate = Sensors \X Buckets
      /\ aggregate' = [sb \in DOMAIN aggregate |->
           IF sb[2] \in Window \cap dirty THEN Aggregate(sb[1], sb[2], readings) ELSE aggregate[sb]]
  BY DEF Refresh, ViewInv, TypeInv, TypeOK
<1>3. aggregate'[<<s, b>>] =
        IF b \in Window \cap dirty THEN Aggregate(s, b, readings) ELSE aggregate[<<s, b>>]
  BY <1>2
<1>4. CASE b \in Window \cap dirty
  <2>1. Aggregate(s, b, readings) = Aggregate(s, b, committed)
    BY <1>4, WindowKept, SameRow DEF ViewInv
  <2> QED
    BY <1>3, <1>4, <2>1
<1>5. CASE b \notin Window \cap dirty
  <2>1. b \notin dirty
    BY <1>2, <1>5
  <2> QED
    BY <1>3, <1>5, <2>1 DEF ViewInv, Exact
<1> QED
  BY <1>4, <1>5

LEMMA CollectExact ==
  ASSUME ViewInv, NEW s \in Sensors, NEW at \in 0..MaxClock, NEW v \in Values, Collect(s, at, v)
  PROVE  Exact'
<1> DEFINE new == Sample(s, at, v)
<1>1. /\ committed' = committed \cup {new} /\ aggregate' = aggregate
      /\ dirty' = dirty \cup {BucketOf(at)}
  BY CollectEffect DEF ViewInv
<1>2. new.at = at
  BY DEF Sample
<1> HIDE DEF new
<1>3. ASSUME NEW o \in Sensors, NEW b \in Buckets, b \notin dirty'
      PROVE  aggregate[<<o, b>>] = Aggregate(o, b, committed \cup {new})
  <2>1. b \notin dirty /\ b # BucketOf(new.at)
    BY <1>1, <1>2, <1>3
  <2>2. InBucket(o, b, committed \cup {new}) = InBucket(o, b, committed)
    BY <2>1 DEF InBucket
  <2>3. Aggregate(o, b, committed \cup {new}) = Aggregate(o, b, committed)
    BY <2>2, SameRow
  <2> QED
    BY <2>1, <2>3 DEF ViewInv, Exact
<1> QED
  BY <1>1, <1>3 DEF Exact

LEMMA ViewStep == ViewInv /\ [Next]_vars => ViewInv'
<1> SUFFICES ASSUME ViewInv, [Next]_vars PROVE ViewInv'
  OBVIOUS
<1>1. TypeInv /\ TypeInv' /\ Kept'
  BY TypeStep, KeptStep DEF ViewInv
<1>2. CASE CollectStep
  BY <1>1, <1>2, CollectExact DEF CollectStep, ViewInv
<1>3. CASE Refresh
  BY <1>1, <1>3, RefreshExact DEF ViewInv
<1>4. CASE ActiveStep \/ DropStep \/ Idle
  <2>1. UNCHANGED <<dirty, committed, aggregate>>
    BY <1>1, <1>4, DropIsIdle DEF ActiveStep, SetActive, Idle
  <2> QED
    BY <1>1, <2>1 DEF ViewInv, Exact
<1> QED
  BY <1>1, <1>2, <1>3, <1>4, StepKinds

LEMMA ViewInit == Init => ViewInv
<1>1. Init => Exact
  BY DEF Init, Exact
<1> QED
  BY <1>1, TypeInit, KeptInit DEF ViewInv

\* The readings of a row, named by their dates.
LEMMA MeasuredInBucket ==
  ASSUME TypeInv, NEW s \in Sensors, NEW b \in Buckets
  PROVE  {r \in committed : r.sensor = s /\ r.at >= b /\ r.at < b + Bucket} = InBucket(s, b, committed)
<1>1. ASSUME NEW r \in committed
      PROVE  (BucketOf(r.at) = b) <=> (r.at >= b /\ r.at < b + Bucket)
  <2>1. r.at \in Nat /\ b \in Nat /\ b % Bucket = 0
    BY Dates, BucketsFacts DEF TypeInv
  <2>2. (BucketOf(r.at) = b) <=> (b <= r.at /\ r.at < b + Bucket)
    BY <2>1, BucketUnique
  <2> QED
    BY <2>1, <2>2
<1> QED
  BY <1>1 DEF InBucket

LEMMA HistoryFromInv == ViewInv => HistoryMatches
<1> SUFFICES ASSUME ViewInv, NEW s \in Sensors, NEW b \in Buckets \ dirty
             PROVE  LET measured == {r \in committed : r.sensor = s /\ r.at >= b /\ r.at < b + Bucket}
                        row == aggregate[<<s, b>>]
                    IN /\ (row = None) <=> (measured = {})
                       /\ row # None =>
                            /\ row.n = Cardinality(measured) /\ row.account = Owner[s]
                            /\ row.sum = FoldSet(LAMBDA r, acc : r.value + acc, 0, measured)
                            /\ \A r \in measured : row.min <= r.value /\ r.value <= row.max
  BY DEF HistoryMatches
<1>1. aggregate[<<s, b>>] = Aggregate(s, b, committed)
  BY DEF ViewInv, Exact
<1>2. {r \in committed : r.sensor = s /\ r.at >= b /\ r.at < b + Bucket} = InBucket(s, b, committed)
  BY MeasuredInBucket DEF ViewInv
<1>3. committed \in SUBSET Rows /\ IsFiniteSet(committed)
  BY DEF ViewInv, TypeInv, TypeOK, Tables
<1> DEFINE in == InBucket(s, b, committed)
           row == Aggregate(s, b, committed)
<1>4. /\ (row = None) <=> (in = {})
      /\ in # {} =>
           /\ row.n = Cardinality(in) /\ row.account = Owner[s]
           /\ row.sum = FoldSet(LAMBDA r, acc : r.value + acc, 0, in)
           /\ \A r \in in : row.min <= r.value /\ r.value <= row.max
  BY <1>3, AggregateFacts
<1> HIDE DEF in, row
<1> QED
  BY <1>1, <1>2, <1>4 DEF in, row

\* For any widths and offsets: a row of the view tells exactly what was
\* measured in its bucket, late readings included, for ever after the readings
\* themselves are dropped (migration:291-329).
THEOREM HistoryMatchesCorrect == Spec => []HistoryMatches
BY ViewInit, ViewStep, HistoryFromInv, PTL DEF Spec

----------------------------------------------------------------------------
(* The two shapes of GET /readings.                                        *)

LEMMA CapFacts ==
  ASSUME NEW limit \in Nat, limit > 0
  PROVE  Cap(limit) \in Nat /\ Cap(limit) > 0
<1>1. MaxLimit \in Nat /\ MaxLimit > 0
  BY ReadingsAssumption
<1>2. Min({limit, MaxLimit}) \in {limit, MaxLimit}
  BY <1>1, MaxOfTwo
<1> QED
  BY <1>1, <1>2 DEF Cap

\* A page is a stretch of the list it is cut from.
LEMMA PageShape ==
  ASSUME NEW S, IsFiniteSet(S), NEW list \in SetToSeqs(S),
         NEW limit \in Nat, limit > 0, NEW offset \in Nat
  PROVE  LET n == Cardinality(S)
             page == Page(list, limit, offset)
             last == offset + Len(page)
         IN /\ n \in Nat /\ DOMAIN list = 1..n /\ Len(page) \in Nat /\ DOMAIN page = 1..Len(page)
            /\ \A i \in 1..Len(page) : offset + i \in 1..n /\ page[i] = list[offset + i]
            /\ Len(page) = Cap(limit) \/ last >= n
            /\ Cap(limit) > 0 /\ (page # <<>> => Len(page) > 0)
<1> DEFINE n == Cardinality(S)
           c == Cap(limit)
           m == Min({offset + c, n})
           page == Page(list, limit, offset)
<1>1. n \in Nat /\ DOMAIN list = 1..n /\ list \in [1..n -> S]
  BY ListIsComplete
<1>2. list \in Seq(S) /\ Len(list) = n
  <2> HIDE DEF n
  <2> QED
    BY <1>1
<1>3. c \in Nat /\ c > 0
  BY CapFacts
<1> HIDE DEF n, c
<1>4. m \in {offset + c, n} /\ m <= offset + c /\ m <= n
  <2> DEFINE most == offset + c
  <2>1. most \in Int /\ n \in Int
    BY <1>1, <1>3
  <2> HIDE DEF most
  <2>2. /\ Min({most, n}) \in {most, n}
        /\ Min({most, n}) <= most /\ Min({most, n}) <= n
    BY <2>1, MaxOfTwo
  <2> QED
    BY <2>2 DEF most
<1>5. page = SubSeq(list, offset + 1, m)
  BY <1>2 DEF Page, c
<1> HIDE DEF m, page
<1>6. m \in Nat
  BY <1>1, <1>3, <1>4
<1>7. CASE m > offset
  <2>1. /\ Len(page) = m - offset /\ DOMAIN page = 1..(m - offset)
        /\ \A i \in 1..(m - offset) : page[i] = list[offset + i]
    BY <1>1, <1>2, <1>4, <1>5, <1>6, <1>7
  <2>2. \A i \in 1..(m - offset) : offset + i \in 1..n
    BY <1>1, <1>4, <1>6, <1>7
  <2>3. Len(page) = c \/ offset + Len(page) >= n
    BY <1>1, <1>3, <1>4, <1>6, <2>1
  <2>4. Len(page) \in Nat /\ Len(page) > 0
    BY <1>4, <1>6, <1>7, <2>1
  <2> QED
    BY <1>1, <1>3, <2>1, <2>2, <2>3, <2>4 DEF page, c, n
<1>8. CASE m <= offset
  <2>1. Len(page) = 0 /\ DOMAIN page = 1..0 /\ page = <<>>
    BY <1>1, <1>2, <1>4, <1>5, <1>6, <1>8
  <2>2. offset >= n
    BY <1>1, <1>3, <1>4, <1>8
  <2> QED
    BY <1>1, <1>3, <2>1, <2>2 DEF page, c, n
<1> QED
  BY <1>6, <1>7, <1>8

\* A page holds all the rows whose key lies between its first row's and its
\* last's.
LEMMA PageTells ==
  ASSUME NEW S, IsFiniteSet(S), NEW key \in [S -> Int],
         NEW list \in SetToSeqs(S), Descending(list, key),
         NEW limit \in Nat, limit > 0, NEW offset \in Nat, NEW x \in S,
         LET page == Page(list, limit, offset)
         IN /\ offset = 0 \/ (page # <<>> /\ key[page[1]] > key[x])
            /\ Len(page) < Cap(limit) \/ key[page[Len(page)]] < key[x]
  PROVE  LET page == Page(list, limit, offset) IN \E i \in DOMAIN page : page[i] = x
<1> DEFINE n == Cardinality(S)
           page == Page(list, limit, offset)
           last == Len(page)
           c == Cap(limit)
<1>1. /\ n \in Nat /\ DOMAIN list = 1..n /\ last \in Nat /\ DOMAIN page = 1..last
      /\ \A i \in 1..last : offset + i \in 1..n /\ page[i] = list[offset + i]
      /\ last = c \/ offset + last >= n
      /\ c > 0 /\ (page # <<>> => last > 0)
  BY PageShape
<1>2. PICK k \in 1..n : list[k] = x
  <2>1. \E k \in DOMAIN list : list[k] = x
    BY ListIsComplete
  <2> HIDE DEF n, page, last, c
  <2> QED
    BY <1>1, <2>1
<1>3. list \in [1..n -> S]
  BY ListIsComplete
<1>4. /\ offset = 0 \/ (page # <<>> /\ key[page[1]] > key[x])
      /\ last < c \/ key[page[last]] < key[x]
  OBVIOUS
<1>5. \A i, j \in 1..n : i < j => key[list[i]] >= key[list[j]]
  BY <1>1 DEF Descending
<1> HIDE DEF n, page, last, c
<1>7. k > offset
  <2>1. CASE offset = 0
    BY <1>1, <1>2, <2>1
  <2>2. CASE page # <<>> /\ key[page[1]] > key[x]
    <3>1. 1 \in 1..last
      BY <1>1, <2>2
    <3>2. offset + 1 \in 1..n /\ page[1] = list[offset + 1]
      BY <1>1, <3>1
    <3>3. key[list[offset + 1]] \in Int /\ key[x] \in Int
      BY <1>3, <3>2
    <3>4. CASE k = offset + 1
      BY <1>2, <3>4
    <3>5. CASE k < offset + 1
      <4>1. key[list[k]] >= key[list[offset + 1]]
        BY <1>2, <1>5, <3>2, <3>5
      <4> QED
        BY <1>2, <2>2, <3>2, <3>3, <4>1
    <3> QED
      BY <1>2, <1>1, <3>4, <3>5
  <2> QED
    BY <1>4, <2>1, <2>2
<1>8. k <= offset + last
  <2>1. CASE offset + last >= n
    BY <1>1, <1>2, <2>1
  <2>2. CASE last = c /\ offset + last < n
    <3>1. key[page[last]] < key[x] /\ last \in 1..last
      BY <1>1, <1>4, <2>2
    <3>2. offset + last \in 1..n /\ page[last] = list[offset + last]
      BY <1>1, <3>1
    <3>3. key[list[offset + last]] \in Int /\ key[x] \in Int
      BY <1>3, <3>2
    <3>4. CASE k > offset + last
      <4>1. key[list[offset + last]] >= key[list[k]]
        BY <1>2, <1>5, <3>2, <3>4
      <4> QED
        BY <1>2, <3>1, <3>2, <3>3, <4>1
    <3> QED
      BY <1>1, <1>2, <3>4
  <2> QED
    BY <1>1, <2>1, <2>2
<1>9. k - offset \in 1..last /\ offset + (k - offset) = k
  BY <1>1, <1>2, <1>7, <1>8
<1>10. page[k - offset] = x
  BY <1>1, <1>2, <1>9
<1> QED
  BY <1>1, <1>9, <1>10 DEF page

\* The bounds a client may ask for.
LEMMA AskedFacts ==
  ASSUME NEW t \in Asked \cup {None}, t # None
  PROVE  t \in Nat /\ t % Bucket = 0
BY ReadingsAssumption

\* A range of whole buckets covers a moment exactly when it covers its bucket.
LEMMA WithinBucket ==
  ASSUME NEW t \in Nat, NEW start \in Asked \cup {None}, NEW end \in Asked \cup {None}
  PROVE  Within(t, start, end) <=> BucketWithin(BucketOf(t), start, end)
<1> DEFINE b == BucketOf(t)
<1>1. b \in Nat /\ b % Bucket = 0 /\ b <= t /\ t < b + Bucket
  BY BucketBounds
<1> HIDE DEF b
<1>2. ASSUME start # None PROVE (t >= start) <=> (b >= start)
  <2>1. start \in Nat /\ start % Bucket = 0
    BY <1>2, AskedFacts
  <2>2. b < start => b + Bucket <= start
    BY <1>1, <2>1, BucketGap
  <2> QED
    BY <1>1, <2>1, <2>2, Numbers
<1>3. ASSUME end # None PROVE (t < end) <=> (b < end)
  <2>1. end \in Nat /\ end % Bucket = 0
    BY <1>3, AskedFacts
  <2>2. b < end => b + Bucket <= end
    BY <1>1, <2>1, BucketGap
  <2> QED
    BY <1>1, <2>1, <2>2, Numbers
<1>4. Within(t, start, end) <=> Within(b, start, end)
  BY <1>2, <1>3 DEF Within
<1> QED
  BY <1>4 DEF BucketWithin, b

\* The later of two readings is not in the earlier bucket.
LEMMA BucketMonotone ==
  ASSUME NEW t \in Nat, NEW u \in Nat, t >= u
  PROVE  BucketOf(t) >= BucketOf(u)
<1> DEFINE a == BucketOf(t)
           b == BucketOf(u)
<1>1. /\ a \in Nat /\ a % Bucket = 0 /\ t < a + Bucket
      /\ b \in Nat /\ b % Bucket = 0 /\ b <= u
  BY BucketBounds
<1>2. a < b => a + Bucket <= b
  BY <1>1, BucketGap
<1> HIDE DEF a, b
<1>3. a >= b
  BY <1>1, <1>2, Numbers
<1> QED
  BY <1>3 DEF a, b

\* Both queries select finitely many rows.
LEMMA RowsFinite ==
  ASSUME TypeInv, NEW acc, NEW only, NEW start, NEW end
  PROVE  /\ RawRows(acc, only, start, end) \subseteq readings
         /\ RawRows(acc, only, start, end) \subseteq committed
         /\ IsFiniteSet(RawRows(acc, only, start, end))
         /\ AggregatedRows(acc, only, start, end) \subseteq Sensors \X Buckets
         /\ IsFiniteSet(AggregatedRows(acc, only, start, end))
<1>1. IsFiniteSet(committed) /\ readings \subseteq committed
  BY DEF TypeInv, TypeOK, Tables
<1>2. RawRows(acc, only, start, end) \subseteq readings
  BY DEF RawRows
<1>3. IsFiniteSet(Sensors \X Buckets)
  <2>1. IsFiniteSet(0..MaxClock)
    BY FS_Interval, Numbers
  <2>2. Buckets \subseteq 0..MaxClock
    BY DEF Buckets
  <2>3. IsFiniteSet(Buckets)
    BY <2>1, <2>2, FS_Subset
  <2>4. IsFiniteSet(Sensors)
    BY ReadingsAssumption
  <2> QED
    BY <2>3, <2>4, FS_Product
<1>4. AggregatedRows(acc, only, start, end) \subseteq Sensors \X Buckets
  BY DEF AggregatedRows, TypeInv, TypeOK
<1> QED
  BY <1>1, <1>2, <1>3, <1>4, FS_Subset

\* What the two queries order their rows by, and the buckets of raw readings.
DateOf(S) == [r \in S |-> r.at]
BucketsOf(S) == [r \in S |-> BucketOf(r.at)]
RowBucket(A) == [sb \in A |-> sb[2]]

LEMMA KeysTyped ==
  ASSUME TypeInv, NEW acc, NEW only, NEW start, NEW end
  PROVE  /\ DateOf(RawRows(acc, only, start, end)) \in [RawRows(acc, only, start, end) -> Int]
         /\ BucketsOf(RawRows(acc, only, start, end)) \in [RawRows(acc, only, start, end) -> Int]
         /\ RowBucket(AggregatedRows(acc, only, start, end)) \in [AggregatedRows(acc, only, start, end) -> Int]
<1> DEFINE S == RawRows(acc, only, start, end)
           A == AggregatedRows(acc, only, start, end)
<1>1. S \subseteq committed /\ A \subseteq Sensors \X Buckets
  BY RowsFinite
<1> HIDE DEF S, A
<1>2. ASSUME NEW r \in S PROVE r.at \in Int /\ BucketOf(r.at) \in Int
  <2>1. r.at \in Nat
    BY <1>1, Dates DEF TypeInv
  <2> QED
    BY <2>1, BucketBounds
<1>3. ASSUME NEW sb \in A PROVE sb[2] \in Int
  <2>1. sb[2] \in Buckets
    BY <1>1
  <2> QED
    BY <2>1, BucketsFacts
<1>4. DateOf(S) \in [S -> Int] /\ BucketsOf(S) \in [S -> Int]
  BY <1>2 DEF DateOf, BucketsOf
<1>5. RowBucket(A) \in [A -> Int]
  BY <1>3 DEF RowBucket
<1> QED
  BY <1>4, <1>5 DEF S, A

\* The answers, each ordered by the key of its own rows.
LEMMA AnswersListed ==
  ASSUME TypeInv, NEW acc, NEW only, NEW start, NEW end
  PROVE  /\ RawReadings(acc, only, start, end) =
              {list \in SetToSeqs(RawRows(acc, only, start, end)) :
                 \A i, j \in DOMAIN list : i < j => list[i].at >= list[j].at}
         /\ AggregatedReadings(acc, only, start, end) =
              {list \in SetToSeqs(AggregatedRows(acc, only, start, end)) :
                 \A i, j \in DOMAIN list : i < j => list[i][2] >= list[j][2]}
<1> DEFINE S == RawRows(acc, only, start, end)
           A == AggregatedRows(acc, only, start, end)
           dates == [r \in readings |-> r.at]
           buckets == [sb \in DOMAIN aggregate |-> sb[2]]
<1>1. IsFiniteSet(S) /\ IsFiniteSet(A)
  BY RowsFinite
<1>2. S \subseteq readings /\ A \subseteq DOMAIN aggregate
  BY DEF RawRows, AggregatedRows
<1>3. RawReadings(acc, only, start, end) =
        {list \in SetToSeqs(S) : \A i, j \in DOMAIN list : i < j => dates[list[i]] >= dates[list[j]]}
  BY DEF RawReadings, Newest
<1>4. AggregatedReadings(acc, only, start, end) =
        {list \in SetToSeqs(A) : \A i, j \in DOMAIN list : i < j => buckets[list[i]] >= buckets[list[j]]}
  BY DEF AggregatedReadings, Newest
<1> HIDE DEF S, A
<1>5. \A list \in SetToSeqs(S) : \A i \in DOMAIN list : dates[list[i]] = list[i].at
  BY <1>1, <1>2, ListIsComplete
<1>6. \A list \in SetToSeqs(A) : \A i \in DOMAIN list : buckets[list[i]] = list[i][2]
  BY <1>1, <1>2, ListIsComplete
<1> HIDE DEF dates, buckets
<1>7. RawReadings(acc, only, start, end) =
        {list \in SetToSeqs(S) : \A i, j \in DOMAIN list : i < j => list[i].at >= list[j].at}
  BY <1>3, <1>5
<1>8. AggregatedReadings(acc, only, start, end) =
        {list \in SetToSeqs(A) : \A i, j \in DOMAIN list : i < j => list[i][2] >= list[j][2]}
  BY <1>4, <1>6
<1> QED
  BY <1>7, <1>8 DEF S, A

\* A list of raw readings is ordered by date, hence by bucket.
LEMMA RawListed ==
  ASSUME TypeInv, NEW acc, NEW only, NEW start, NEW end,
         NEW list \in RawReadings(acc, only, start, end)
  PROVE  /\ list \in SetToSeqs(RawRows(acc, only, start, end))
         /\ Descending(list, BucketsOf(RawRows(acc, only, start, end)))
<1> DEFINE S == RawRows(acc, only, start, end)
<1>1. list \in SetToSeqs(S) /\ \A i, j \in DOMAIN list : i < j => list[i].at >= list[j].at
  BY AnswersListed
<1>2. S \subseteq committed /\ IsFiniteSet(S)
  BY RowsFinite
<1> HIDE DEF S
<1>3. \A i \in DOMAIN list : list[i] \in S /\ list[i].at \in Nat
  BY <1>1, <1>2, ListIsComplete, Dates DEF TypeInv
<1>4. ASSUME NEW i \in DOMAIN list, NEW j \in DOMAIN list, i < j
      PROVE  BucketsOf(S)[list[i]] >= BucketsOf(S)[list[j]]
  <2>1. list[i].at >= list[j].at
    BY <1>1, <1>4
  <2>2. BucketOf(list[i].at) >= BucketOf(list[j].at)
    BY <1>3, <2>1, BucketMonotone
  <2> QED
    BY <1>3, <2>2 DEF BucketsOf
<1> QED
  BY <1>1, <1>4 DEF Descending, S

LEMMA RowsListed ==
  ASSUME TypeInv, NEW acc, NEW only, NEW start, NEW end,
         NEW list \in AggregatedReadings(acc, only, start, end)
  PROVE  /\ list \in SetToSeqs(AggregatedRows(acc, only, start, end))
         /\ Descending(list, RowBucket(AggregatedRows(acc, only, start, end)))
<1> DEFINE A == AggregatedRows(acc, only, start, end)
<1>1. list \in SetToSeqs(A) /\ \A i, j \in DOMAIN list : i < j => list[i][2] >= list[j][2]
  BY AnswersListed
<1>2. IsFiniteSet(A)
  BY RowsFinite
<1> HIDE DEF A
<1>3. \A i \in DOMAIN list : list[i] \in A
  BY <1>1, <1>2, ListIsComplete
<1> QED
  BY <1>1, <1>3 DEF Descending, RowBucket, A

\* There is always an answer.
LEMMA Answered ==
  ASSUME TypeInv, NEW acc, NEW only, NEW start, NEW end
  PROVE  /\ RawReadings(acc, only, start, end) # {}
         /\ AggregatedReadings(acc, only, start, end) # {}
<1> DEFINE S == RawRows(acc, only, start, end)
           A == AggregatedRows(acc, only, start, end)
<1>1. IsFiniteSet(S) /\ IsFiniteSet(A)
  BY RowsFinite
<1>2. DateOf(S) \in [S -> Int] /\ RowBucket(A) \in [A -> Int]
  BY KeysTyped
<1>3. RawReadings(acc, only, start, end) =
        {list \in SetToSeqs(S) : \A i, j \in DOMAIN list : i < j => list[i].at >= list[j].at}
  BY AnswersListed
<1>4. AggregatedReadings(acc, only, start, end) =
        {list \in SetToSeqs(A) : \A i, j \in DOMAIN list : i < j => list[i][2] >= list[j][2]}
  BY AnswersListed
<1> HIDE DEF S, A
<1>5. PICK list : Sorting(S, DateOf(S), list)
  BY <1>1, <1>2, SortingExists
<1>6. PICK rows : Sorting(A, RowBucket(A), rows)
  BY <1>1, <1>2, SortingExists
<1>7. \A i \in DOMAIN list : list[i] \in S
  BY <1>1, <1>5, ListIsComplete DEF Sorting
<1>8. \A i \in DOMAIN rows : rows[i] \in A
  BY <1>1, <1>6, ListIsComplete DEF Sorting
<1>9. list \in RawReadings(acc, only, start, end)
  BY <1>3, <1>5, <1>7 DEF Sorting, Descending, DateOf
<1>10. rows \in AggregatedReadings(acc, only, start, end)
  BY <1>4, <1>6, <1>8 DEF Sorting, Descending, RowBucket
<1> QED
  BY <1>9, <1>10

\* A raw reading whose bucket has been refreshed has a row.
LEMMA RawHasRow ==
  ASSUME ViewInv, NEW acc \in Accounts, NEW only \in Sensors \cup {None},
         NEW start \in Asked \cup {None}, NEW end \in Asked \cup {None},
         NEW r \in RawRows(acc, only, start, end), BucketOf(r.at) \notin dirty
  PROVE  <<r.sensor, BucketOf(r.at)>> \in AggregatedRows(acc, only, start, end)
<1> DEFINE s == r.sensor
           b == BucketOf(r.at)
<1>1. /\ r \in committed /\ r.account = acc /\ Within(r.at, start, end) /\ Selects(only, s)
      /\ committed \in SUBSET Rows /\ IsFiniteSet(committed)
  BY DEF RawRows, ViewInv, TypeInv, TypeOK, Tables
<1>2. s \in Sensors /\ r.at \in Nat /\ b \in Buckets /\ Owner[s] = acc
  BY <1>1, Dates DEF ViewInv, TypeInv, Tables
<1>3. aggregate[<<s, b>>] = Aggregate(s, b, committed)
  BY <1>2 DEF ViewInv, Exact
<1>4. r \in InBucket(s, b, committed)
  BY <1>1 DEF InBucket
<1>5. aggregate[<<s, b>>] # None /\ aggregate[<<s, b>>].account = acc
  <2> HIDE DEF s, b
  <2> QED
    BY <1>1, <1>2, <1>3, <1>4, AggregateFacts
<1>6. BucketWithin(b, start, end)
  BY <1>1, <1>2, WithinBucket
<1>7. DOMAIN aggregate = Sensors \X Buckets
  BY DEF ViewInv, TypeInv, TypeOK
<1> HIDE DEF s, b
<1>8. <<s, b>> \in AggregatedRows(acc, only, start, end)
  BY <1>1, <1>2, <1>5, <1>6, <1>7 DEF AggregatedRows
<1> QED
  BY <1>8 DEF s, b

\* A row of a bucket the retention has not reached has a raw reading.
LEMMA RowHasRaw ==
  ASSUME ViewInv, NEW acc \in Accounts, NEW only \in Sensors \cup {None},
         NEW start \in Asked \cup {None}, NEW end \in Asked \cup {None},
         NEW sb \in AggregatedRows(acc, only, start, end),
         sb[2] \notin dirty, sb[2] > now - Retention
  PROVE  \E r \in RawRows(acc, only, start, end) : r.sensor = sb[1] /\ BucketOf(r.at) = sb[2]
<1>1. PICK s \in Sensors, b \in Buckets : sb = <<s, b>>
  <2>1. sb \in Sensors \X Buckets
    BY DEF AggregatedRows, ViewInv, TypeInv, TypeOK
  <2> QED
    BY <2>1
<1>2. /\ aggregate[<<s, b>>] # None /\ aggregate[<<s, b>>].account = acc /\ Selects(only, s)
      /\ BucketWithin(b, start, end) /\ b \notin dirty /\ b > now - Retention
  BY <1>1 DEF AggregatedRows
<1>3. aggregate[<<s, b>>] = Aggregate(s, b, committed)
  BY <1>2 DEF ViewInv, Exact
<1>4. committed \in SUBSET Rows /\ IsFiniteSet(committed)
  BY DEF ViewInv, TypeInv, TypeOK, Tables
<1>5. InBucket(s, b, committed) # {} /\ Owner[s] = acc
  <2> DEFINE row == Aggregate(s, b, committed)
             in == InBucket(s, b, committed)
  <2>1. /\ (row = None) <=> (in = {})
        /\ in # {} => row.account = Owner[s]
    BY <1>4, AggregateFacts
  <2> HIDE DEF row, in
  <2> QED
    BY <1>2, <1>3, <2>1 DEF row, in
<1>6. PICK r \in committed : r.sensor = s /\ BucketOf(r.at) = b
  BY <1>5 DEF InBucket
<1>7. r.at \in Nat /\ r.account = acc
  BY <1>5, <1>6, Dates DEF ViewInv, TypeInv, Tables
<1>8. r \in readings
  <2>1. b <= r.at /\ b \in Nat /\ now \in Nat
    BY <1>6, <1>7, BucketBounds, BucketsFacts, Dates DEF ViewInv, TypeInv
  <2>2. r.at >= now - Retention
    BY <1>2, <1>7, <2>1, Numbers
  <2> QED
    BY <2>2 DEF ViewInv, Kept
<1>9. Within(r.at, start, end)
  BY <1>2, <1>6, <1>7, WithinBucket
<1> QED
  BY <1>1, <1>2, <1>6, <1>7, <1>8, <1>9 DEF RawRows

LEMMA AnswersFromInv == ViewInv => AnswersAgree
<1> SUFFICES ASSUME ViewInv PROVE AnswersAgree
  OBVIOUS
<1>1. ASSUME NEW acc \in Accounts, NEW only \in Sensors \cup {None},
             NEW start \in Asked \cup {None}, NEW end \in Asked \cup {None},
             NEW rawList \in RawReadings(acc, only, start, end),
             NEW aggList \in AggregatedReadings(acc, only, start, end),
             NEW limit \in 1..MaxLimit, NEW offset \in 0..MaxReadings
      PROVE  LET raw == Page(rawList, limit, offset)
                 agg == Page(aggList, limit, offset)
             IN /\ \A i \in DOMAIN raw :
                     LET b == BucketOf(raw[i].at)
                     IN b \notin dirty /\ Tells(agg, LAMBDA sb : sb[2], limit, offset, b) =>
                          \E j \in DOMAIN agg : agg[j] = <<raw[i].sensor, b>>
                /\ \A j \in DOMAIN agg :
                     LET b == agg[j][2]
                     IN /\ b \notin dirty /\ b > now - Retention
                        /\ Tells(raw, LAMBDA r : BucketOf(r.at), limit, offset, b)
                        => \E i \in DOMAIN raw : raw[i].sensor = agg[j][1] /\ BucketOf(raw[i].at) = b
  <2> DEFINE S == RawRows(acc, only, start, end)
             A == AggregatedRows(acc, only, start, end)
             raw == Page(rawList, limit, offset)
             agg == Page(aggList, limit, offset)
  <2>1. TypeInv /\ limit \in Nat /\ limit > 0 /\ offset \in Nat
    <3>1. MaxLimit \in Nat
      BY ReadingsAssumption
    <3> QED
      BY <3>1, Numbers DEF ViewInv
  <2>2. /\ IsFiniteSet(S) /\ BucketsOf(S) \in [S -> Int]
        /\ IsFiniteSet(A) /\ RowBucket(A) \in [A -> Int]
    BY <2>1, RowsFinite, KeysTyped
  <2>3. rawList \in SetToSeqs(S) /\ Descending(rawList, BucketsOf(S))
    BY <2>1, RawListed
  <2>4. aggList \in SetToSeqs(A) /\ Descending(aggList, RowBucket(A))
    BY <2>1, RowsListed
  <2>5. \A r \in S : BucketOf(r.at) \notin dirty => <<r.sensor, BucketOf(r.at)>> \in A
    BY RawHasRow
  <2>6. \A sb \in A : sb[2] \notin dirty /\ sb[2] > now - Retention =>
          \E r \in S : r.sensor = sb[1] /\ BucketOf(r.at) = sb[2]
    BY RowHasRaw
  <2> HIDE DEF S, A
  <2>7. /\ DOMAIN raw = 1..Len(raw) /\ Len(raw) \in Nat /\ \A i \in 1..Len(raw) : raw[i] \in S
        /\ (raw # <<>> => Len(raw) > 0)
    <3>1. /\ Len(raw) \in Nat /\ DOMAIN raw = 1..Len(raw)
          /\ \A i \in 1..Len(raw) : offset + i \in DOMAIN rawList /\ raw[i] = rawList[offset + i]
          /\ (raw # <<>> => Len(raw) > 0)
      BY <2>1, <2>2, <2>3, PageShape
    <3>2. \A k \in DOMAIN rawList : rawList[k] \in S
      BY <2>2, <2>3, ListIsComplete
    <3> HIDE DEF raw
    <3> QED
      BY <3>1, <3>2
  <2>8. /\ DOMAIN agg = 1..Len(agg) /\ Len(agg) \in Nat /\ \A i \in 1..Len(agg) : agg[i] \in A
        /\ (agg # <<>> => Len(agg) > 0)
    <3>1. /\ Len(agg) \in Nat /\ DOMAIN agg = 1..Len(agg)
          /\ \A i \in 1..Len(agg) : offset + i \in DOMAIN aggList /\ agg[i] = aggList[offset + i]
          /\ (agg # <<>> => Len(agg) > 0)
      BY <2>1, <2>2, <2>4, PageShape
    <3>2. \A k \in DOMAIN aggList : aggList[k] \in A
      BY <2>2, <2>4, ListIsComplete
    <3> HIDE DEF agg
    <3> QED
      BY <3>1, <3>2
  <2>9. Cap(limit) \in Nat /\ Cap(limit) > 0
    BY <2>1, CapFacts
  <2>10. ASSUME NEW x \in A,
                Tells(agg, LAMBDA sb : sb[2], limit, offset, x[2])
         PROVE  \E j \in DOMAIN agg : agg[j] = x
    <3>1. /\ offset = 0 \/ (agg # <<>> /\ agg[1][2] > x[2])
          /\ Len(agg) < Cap(limit) \/ agg[Len(agg)][2] < x[2]
      BY <2>10 DEF Tells
    <3>2. RowBucket(A)[x] = x[2] /\ \A i \in 1..Len(agg) : RowBucket(A)[agg[i]] = agg[i][2]
      BY <2>8 DEF RowBucket
    <3>3. offset = 0 \/ (agg # <<>> /\ RowBucket(A)[agg[1]] > RowBucket(A)[x])
      <4> HIDE DEF agg
      <4> QED
        BY <2>8, <3>1, <3>2
    <3>4. Len(agg) < Cap(limit) \/ RowBucket(A)[agg[Len(agg)]] < RowBucket(A)[x]
      <4> HIDE DEF agg
      <4> QED
        BY <2>8, <2>9, <3>1, <3>2
    <3> QED
      BY <2>1, <2>2, <2>4, <3>3, <3>4, PageTells
  <2>11. ASSUME NEW x \in S,
                Tells(raw, LAMBDA r : BucketOf(r.at), limit, offset, BucketOf(x.at))
         PROVE  \E i \in DOMAIN raw : raw[i] = x
    <3>1. /\ offset = 0 \/ (raw # <<>> /\ BucketOf(raw[1].at) > BucketOf(x.at))
          /\ Len(raw) < Cap(limit) \/ BucketOf(raw[Len(raw)].at) < BucketOf(x.at)
      BY <2>11 DEF Tells
    <3>2. /\ BucketsOf(S)[x] = BucketOf(x.at)
          /\ \A i \in 1..Len(raw) : BucketsOf(S)[raw[i]] = BucketOf(raw[i].at)
      BY <2>7 DEF BucketsOf
    <3>3. offset = 0 \/ (raw # <<>> /\ BucketsOf(S)[raw[1]] > BucketsOf(S)[x])
      <4> HIDE DEF raw
      <4> QED
        BY <2>7, <3>1, <3>2
    <3>4. Len(raw) < Cap(limit) \/ BucketsOf(S)[raw[Len(raw)]] < BucketsOf(S)[x]
      <4> HIDE DEF raw
      <4> QED
        BY <2>7, <2>9, <3>1, <3>2
    <3> QED
      BY <2>1, <2>2, <2>3, <3>3, <3>4, PageTells
  <2>12. ASSUME NEW i \in DOMAIN raw, BucketOf(raw[i].at) \notin dirty,
                Tells(agg, LAMBDA sb : sb[2], limit, offset, BucketOf(raw[i].at))
         PROVE  \E j \in DOMAIN agg : agg[j] = <<raw[i].sensor, BucketOf(raw[i].at)>>
    <3> DEFINE x == <<raw[i].sensor, BucketOf(raw[i].at)>>
    <3>1. x \in A
      BY <2>5, <2>7, <2>12
    <3>2. x[2] = BucketOf(raw[i].at)
      OBVIOUS
    <3>3. Tells(agg, LAMBDA sb : sb[2], limit, offset, x[2])
      BY <2>12, <3>2
    <3> HIDE DEF x
    <3>4. \E j \in DOMAIN agg : agg[j] = x
      BY <2>10, <3>1, <3>3
    <3> QED
      BY <3>4 DEF x
  <2>13. ASSUME NEW j \in DOMAIN agg, agg[j][2] \notin dirty, agg[j][2] > now - Retention,
                Tells(raw, LAMBDA r : BucketOf(r.at), limit, offset, agg[j][2])
         PROVE  \E i \in DOMAIN raw : raw[i].sensor = agg[j][1] /\ BucketOf(raw[i].at) = agg[j][2]
    <3>1. PICK x \in S : x.sensor = agg[j][1] /\ BucketOf(x.at) = agg[j][2]
      BY <2>6, <2>8, <2>13
    <3>2. Tells(raw, LAMBDA r : BucketOf(r.at), limit, offset, BucketOf(x.at))
      BY <2>13, <3>1
    <3>3. PICK i \in DOMAIN raw : raw[i] = x
      BY <2>11, <3>2
    <3> QED
      BY <3>1, <3>3
  <2> QED
    BY <2>12, <2>13
<1> QED
  BY <1>1 DEF AnswersAgree

\* For any number of sensors, readings, limits and offsets: as far as both
\* pages tell, the aggregated answer has a row for exactly the sensors and
\* buckets of the raw answer (sensors_service.py:127-206).
THEOREM AnswersAgreeCorrect == Spec => []AnswersAgree
BY ViewInit, ViewStep, AnswersFromInv, PTL DEF Spec

=============================================================================
