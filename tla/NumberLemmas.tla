----------------------------- MODULE NumberLemmas -----------------------------
(***************************************************************************)
(* Facts about numbers and sums, for the proofs of every component:        *)
(* products, quotients and remainders; induction, and what it shows of     *)
(* recursive functions; sums over finite sets; powers of two and the       *)
(* digits they make.                                                       *)
(*                                                                         *)
(* Induction is stated about sets and functions and not about operators,   *)
(* which the provers cannot instantiate: a property is the set of the      *)
(* numbers that have it.                                                   *)
(***************************************************************************)
EXTENDS Integers, Sequences, FiniteSetsExt, FiniteSetTheorems, WellFoundedInduction, TLAPS

-----------------------------------------------------------------------------
(***************************************************************************)
(* Products, quotients and remainders.                                     *)
(***************************************************************************)
\* Products of natural numbers: closed, commutative, zero only with a zero factor.
LEMMA ProductFacts ==
  ASSUME NEW a \in Nat, NEW b \in Nat
  PROVE  /\ a * b \in Nat
         /\ a * b = b * a
         /\ a > 0 /\ b > 0 => a * b > 0 /\ a * b >= a /\ a * b >= b
         /\ a = 0 \/ b = 0 => a * b = 0
  BY SMT

\* Multiplication is monotone in each factor.
LEMMA ProductMonotone ==
  ASSUME NEW a \in Nat, NEW b \in Nat, NEW c \in Nat, a <= b
  PROVE  a * c <= b * c /\ c * a <= c * b
  BY SMT

\* Division with remainder, and the quotient is no larger than the dividend.
LEMMA DivisionFacts ==
  ASSUME NEW a \in Nat, NEW b \in Nat \ {0}
  PROVE  /\ a \div b \in Nat
         /\ a % b \in 0 .. b - 1
         /\ a = b * (a \div b) + (a % b)
         /\ a \div b <= a
  <1>1. /\ a \div b \in Nat
        /\ a % b \in 0 .. b - 1
        /\ a = b * (a \div b) + (a % b)
    BY SMT
  <1>2. a \div b <= b * (a \div b)
    BY <1>1, ProductFacts
  <1> QED
    BY <1>1, <1>2, ProductFacts

\* A number is below a multiple of b exactly when its quotient is below the factor.
LEMMA QuotientBelow ==
  ASSUME NEW a \in Nat, NEW b \in Nat \ {0}, NEW c \in Nat
  PROVE  a < b * c <=> a \div b < c
  <1> DEFINE q == a \div b
  <1>1. q \in Nat /\ b * q <= a /\ a < b * q + b /\ b * q \in Nat /\ b * c \in Nat
    BY DivisionFacts, ProductFacts
  <1>2. q < c => b * (q + 1) <= b * c
    BY <1>1, ProductMonotone
  <1>3. b * (q + 1) = b * q + b
    BY <1>1
  <1>4. c <= q => b * c <= b * q
    BY <1>1, ProductMonotone
  <1> HIDE DEF q
  <1>5. a < b * c <=> q < c
    BY <1>1, <1>2, <1>3, <1>4
  <1> QED
    BY <1>5 DEF q

\* Division by one divisor is monotone.
LEMMA QuotientMonotone ==
  ASSUME NEW a \in Nat, NEW b \in Nat, NEW c \in Nat \ {0}, a <= b
  PROVE  a \div c <= b \div c
  <1> DEFINE q == b \div c
  <1>1. q \in Nat /\ b < c * (q + 1)
    BY DivisionFacts
  <1>2. a \div c < q + 1
    BY <1>1, QuotientBelow
  <1>3. a \div c \in Nat
    BY DivisionFacts
  <1> QED
    BY <1>1, <1>2, <1>3

\* A quotient is known from the multiples it lies between.
LEMMA QuotientIs ==
  ASSUME NEW n \in Nat, NEW b \in Nat \ {0}, NEW q \in Nat, b * q <= n, n < b * (q + 1)
  PROVE  n \div b = q
  <1>1. b * q \in Nat /\ n \div b \in Nat
    BY ProductFacts, DivisionFacts
  <1>2. ~(n < b * q)
    BY <1>1
  <1>3. ~(n \div b < q) /\ n \div b < q + 1
    BY <1>2, QuotientBelow
  <1> QED
    BY <1>1, <1>3

\* A number below the divisor is the remainder of a multiple plus itself.
LEMMA RemainderIs ==
  ASSUME NEW q \in Nat, NEW b \in Nat \ {0}, NEW r \in Nat, r < b
  PROVE  (q * b + r) \div b = q /\ (q * b + r) % b = r
  <1> DEFINE n == q * b + r
  <1>1. b * q = q * b /\ q * b \in Nat /\ b * (q + 1) = q * b + b
    BY ProductFacts
  <1>2. n \in Nat /\ b * q <= n /\ n < b * (q + 1)
    BY <1>1
  <1>3. n \div b = q
    BY <1>2, QuotientIs
  <1>4. n = b * (n \div b) + (n % b) /\ n % b \in Nat
    BY <1>2, DivisionFacts
  <1>5. n % b = r
    <2> HIDE DEF n
    <2>1. n = b * q + (n % b)
      BY <1>3, <1>4
    <2>2. n = q * b + r
      BY DEF n
    <2> QED
      BY <1>1, <1>4, <2>1, <2>2
  <1> QED
    BY <1>3, <1>5

-----------------------------------------------------------------------------
(***************************************************************************)
(* Induction and recursion.                                                *)
(***************************************************************************)
\* A set of numbers that has 0 and is closed under successors up to n has all
\* numbers up to n.
LEMMA InductionUpTo ==
  ASSUME NEW n \in Nat, NEW T, 0 \in T, \A k \in 1 .. n : k - 1 \in T => k \in T
  PROVE  0 .. n \subseteq T
  <1> DEFINE wrong == {k \in Nat : k <= n /\ k \notin T}
             less  == OpToRel(<, Nat)
  <1>1. SUFFICES ASSUME wrong # {} PROVE FALSE
    OBVIOUS
  <1>2. PICK k \in wrong : \A e \in wrong : ~(<<e, k>> \in less)
    <2>1. wrong \subseteq Nat
      OBVIOUS
    <2> HIDE DEF wrong
    <2> QED
      BY <1>1, <2>1, NatLessThanWellFounded, WFMin
  <1>3. k \in 1 .. n /\ k - 1 \in Nat /\ k \notin T
    <2>1. k \in Nat /\ k <= n /\ k \notin T
      OBVIOUS
    <2>2. k # 0
      BY <2>1
    <2> QED
      BY <2>1, <2>2
  <1>4. k - 1 \in wrong
    BY <1>3
  <1>5. <<k - 1, k>> \in less
    BY <1>3 DEF OpToRel
  <1> QED
    BY <1>2, <1>4, <1>5

\* A set that has 0 and the successor of each of its numbers has them all.
LEMMA InductionOnNat ==
  ASSUME NEW T, 0 \in T, \A k \in Nat : k \in T => k + 1 \in T
  PROVE  Nat \subseteq T
  <1> SUFFICES ASSUME NEW n \in Nat PROVE n \in T
    OBVIOUS
  <1>1. ASSUME NEW k \in 1 .. n, k - 1 \in T PROVE k \in T
    <2>1. PICK j \in Nat : j = k - 1
      OBVIOUS
    <2>2. j + 1 \in T
      BY <1>1, <2>1
    <2> QED
      BY <2>1, <2>2
  <1>2. 0 .. n \subseteq T
    BY <1>1, InductionUpTo
  <1> QED
    BY <1>2

\* A set of numbers up to a bound has a largest member (the last level that
\* ChooseOverviewLevel selects).
LEMMA MaxOfBounded ==
  ASSUME NEW n \in Nat, NEW S, S \subseteq 0 .. n, S # {}
  PROVE  Max(S) \in S /\ \A y \in S : y <= Max(S)
  <1> DEFINE bounds == {u \in Nat : \A y \in S : y <= u}
             less   == OpToRel(<, Nat)
  <1>1. n \in bounds
    OBVIOUS
  <1>2. PICK u \in bounds : \A v \in bounds : ~(<<v, u>> \in less)
    <2>1. bounds \subseteq Nat /\ bounds # {}
      BY <1>1
    <2> HIDE DEF bounds
    <2> QED
      BY <2>1, NatLessThanWellFounded, WFMin
  <1>3. u \in Nat /\ \A y \in S : y <= u
    BY <1>2
  <1>4. u \in S
    <2> SUFFICES ASSUME u \notin S PROVE FALSE
      OBVIOUS
    <2>1. PICK y \in S : TRUE
      OBVIOUS
    <2>2. u > 0 /\ \A z \in S : z <= u - 1
      BY <1>3, <2>1
    <2>3. u - 1 \in bounds
      BY <2>2, <1>3
    <2>4. <<u - 1, u>> \in less
      BY <2>2, <1>3 DEF OpToRel
    <2> QED
      BY <2>3, <2>4, <1>2
  <1>5. \A y \in S : u >= y
    BY <1>3
  <1> QED
    BY <1>4, <1>5 DEF Max

\* What a recursion takes from one place to the next.
StepsStay(step, n, S) == \A k \in 1 .. n, v \in S : step[k][v] \in S

\* f is what a recursion computes: from base, step by step.
Recurs(f, base, step, n) == f[0] = base /\ \A k \in 1 .. n : f[k] = step[k][f[k - 1]]

\* Recursion: from a first value on, a table of steps gives all others.
LEMMA RecursionExists ==
  ASSUME NEW S, NEW base \in S, NEW n \in Nat, NEW step, StepsStay(step, n, S)
  PROVE  \E f \in [0 .. n -> S] : Recurs(f, base, step, n)
  <1> DEFINE Good(f, m) == /\ f \in [0 .. m -> S]
                           /\ f[0] = base
                           /\ \A k \in 1 .. m : f[k] = step[k][f[k - 1]]
             T == {m \in Nat : \E f : Good(f, m)}
  <1>1. 0 \in T
    <2>1. Good([k \in 0 .. 0 |-> base], 0)
      OBVIOUS
    <2> QED
      BY <2>1
  <1>2. ASSUME NEW m \in 1 .. n, m - 1 \in T PROVE m \in T
    <2>1. PICK f : Good(f, m - 1)
      BY <1>2
    <2> DEFINE g == [k \in 0 .. m |-> IF k = m THEN step[m][f[m - 1]] ELSE f[k]]
    <2>2. f[m - 1] \in S
      BY <2>1
    <2>3. step[m][f[m - 1]] \in S
      BY <2>2 DEF StepsStay
    <2>4. g \in [0 .. m -> S]
      BY <2>1, <2>3
    <2>5. g[0] = base
      BY <2>1
    <2>6. ASSUME NEW k \in 1 .. m PROVE g[k] = step[k][g[k - 1]]
      <3>1. g[k - 1] = f[k - 1] /\ (k # m => g[k] = f[k])
        OBVIOUS
      <3>2. k # m => f[k] = step[k][f[k - 1]]
        BY <2>1
      <3>3. k = m => g[k] = step[k][f[k - 1]]
        OBVIOUS
      <3> QED
        BY <3>1, <3>2, <3>3
    <2> HIDE DEF g
    <2> QED
      BY <2>4, <2>5, <2>6
  <1>3. n \in T
    <2> HIDE DEF T
    <2>1. 0 .. n \subseteq T
      BY <1>1, <1>2, InductionUpTo
    <2> QED
      BY <2>1
  <1>4. PICK f : Good(f, n)
    BY <1>3
  <1> QED
    BY <1>4 DEF Recurs

\* The sums of the first numbers, as a recursion makes them.
LEMMA PrefixSumsExist ==
  ASSUME NEW n \in Nat, NEW size, \A k \in 1 .. n : size[k] \in Nat
  PROVE  \E f : f = [b \in 1 .. n + 1 |-> IF b = 1 THEN 0 ELSE f[b - 1] + size[b - 1]]
  <1>1. PICK step : step = [k \in 1 .. n |-> [v \in Nat |-> v + size[k]]]
    OBVIOUS
  <1>2. ASSUME NEW k \in 1 .. n, NEW v \in Nat
        PROVE  step[k][v] \in Nat /\ step[k][v] = v + size[k]
    <2>1. step[k] = [u \in Nat |-> u + size[k]]
      BY <1>1
    <2>2. step[k][v] = v + size[k]
      BY <2>1
    <2>3. size[k] \in Nat
      OBVIOUS
    <2> QED
      BY <2>2, <2>3
  <1>3. PICK f \in [0 .. n -> Nat] : f[0] = 0 /\ \A k \in 1 .. n : f[k] = step[k][f[k - 1]]
    <2>1. PICK S, base : S = Nat /\ base = 0
      OBVIOUS
    <2>2. base \in S /\ \A k \in 1 .. n, v \in S : step[k][v] \in S
      BY <1>2, <2>1
    <2>3. StepsStay(step, n, S)
      BY <2>2 DEF StepsStay
    <2>4. \E f \in [0 .. n -> S] : Recurs(f, base, step, n)
      BY <2>2, <2>3, RecursionExists
    <2> QED
      BY <2>1, <2>4 DEF Recurs
  <1> DEFINE g == [b \in 1 .. n + 1 |-> f[b - 1]]
  <1>4. ASSUME NEW b \in 1 .. n + 1
        PROVE  g[b] = IF b = 1 THEN 0 ELSE g[b - 1] + size[b - 1]
    <2>1. CASE b = 1
      BY <1>3, <2>1
    <2>2. CASE b # 1
      <3>1. PICK k \in 1 .. n : k = b - 1
        BY <2>2
      <3>2. k - 1 \in 0 .. n /\ k \in 0 .. n /\ k # 0
        OBVIOUS
      <3>5. f[k - 1] \in Nat /\ f[k] = step[k][f[k - 1]]
        BY <1>3, <3>2
      <3>3. f[k] = f[k - 1] + size[k]
        BY <1>2, <3>5
      <3>4. g[b] = f[k] /\ g[k] = f[k - 1] /\ k \in 1 .. n + 1
        BY <3>1
      <3> HIDE DEF g
      <3> QED
        BY <2>2, <3>1, <3>3, <3>4
    <2> QED
      BY <2>1, <2>2
  <1>5. g = [b \in 1 .. n + 1 |-> IF b = 1 THEN 0 ELSE g[b - 1] + size[b - 1]]
    <2>1. g = [b \in 1 .. n + 1 |-> g[b]]
      OBVIOUS
    <2> HIDE DEF g
    <2> QED
      BY <1>4, <2>1
  <1> QED
    BY <1>5

-----------------------------------------------------------------------------
(***************************************************************************)
(* Sums over finite sets, as the folds of the community modules make them: *)
(* a table for all subsets, in which one element after the other is picked.*)
(***************************************************************************)
IsSumTable(table, S, v, pick) ==
  table = [s \in SUBSET S |-> IF s = {} THEN 0 ELSE v[pick[s]] + table[s \ {pick[s]}]]

\* A way to pick an element of each subset.
Picks(pick, S) == \A s \in SUBSET S : s # {} => pick[s] \in s

\* A subset is as large as a number, and smaller by one without an element.
LEMMA SizesOfSubsets ==
  ASSUME NEW S, IsFiniteSet(S), NEW s \in SUBSET S
  PROVE  /\ IsFiniteSet(s) /\ Cardinality(s) \in Nat /\ Cardinality(s) <= Cardinality(S)
         /\ Cardinality(s) = 0 <=> s = {}
         /\ \A x \in s : s \ {x} \in SUBSET S /\ Cardinality(s \ {x}) = Cardinality(s) - 1
  <1>1. IsFiniteSet(s) /\ Cardinality(s) <= Cardinality(S)
    BY FS_Subset
  <1>2. Cardinality(s) \in Nat /\ (Cardinality(s) = 0 <=> s = {})
    BY <1>1, FS_CardinalityType, FS_EmptySet
  <1>3. ASSUME NEW x \in s PROVE Cardinality(s \ {x}) = Cardinality(s) - 1
    BY <1>1, FS_RemoveElement
  <1> QED
    BY <1>1, <1>2, <1>3

\* What holds of a set once it holds of the sets smaller by one element holds
\* of all subsets of a finite set.
LEMMA InductionOnSubsets ==
  ASSUME NEW S, IsFiniteSet(S), NEW T,
         \A s \in SUBSET S : (\A x \in s : s \ {x} \in T) => s \in T
  PROVE  SUBSET S \subseteq T
  <1> DEFINE small == {n \in Nat : \A s \in SUBSET S : Cardinality(s) = n => s \in T}
  <1>1. 0 \in small
    BY SizesOfSubsets
  <1>2. ASSUME NEW n \in Nat, n \in small PROVE n + 1 \in small
    <2> SUFFICES ASSUME NEW s \in SUBSET S, Cardinality(s) = n + 1 PROVE s \in T
      OBVIOUS
    <2>1. ASSUME NEW x \in s PROVE s \ {x} \in T
      <3>1. s \ {x} \in SUBSET S /\ Cardinality(s \ {x}) = Cardinality(s) - 1
        BY SizesOfSubsets
      <3>2. Cardinality(s \ {x}) = n
        BY <3>1
      <3> QED
        BY <1>2, <3>1, <3>2
    <2> QED
      BY <2>1
  <1>3. Nat \subseteq small
    <2> HIDE DEF small
    <2> QED
      BY <1>1, <1>2, InductionOnNat
  <1> SUFFICES ASSUME NEW s \in SUBSET S PROVE s \in T
    OBVIOUS
  <1>4. Cardinality(s) \in Nat
    BY SizesOfSubsets
  <1> QED
    BY <1>3, <1>4

\* There is a table of sums.
LEMMA SumTableExists ==
  ASSUME NEW S, IsFiniteSet(S), NEW v, \A x \in S : v[x] \in Int, NEW pick, Picks(pick, S)
  PROVE  \E table : IsSumTable(table, S, v, pick)
  <1> DEFINE small(n) == {s \in SUBSET S : Cardinality(s) <= n}
             Good(f, n) == /\ f \in [small(n) -> Int]
                           /\ \A s \in small(n) : f[s] = IF s = {} THEN 0
                                                        ELSE v[pick[s]] + f[s \ {pick[s]}]
             T == {n \in Nat : \E f : Good(f, n)}
  <1>1. 0 \in T
    <2>1. small(0) = {{}}
      BY SizesOfSubsets
    <2>2. Good([s \in small(0) |-> 0], 0)
      BY <2>1
    <2> QED
      BY <2>2
  <1>2. ASSUME NEW n \in Nat, n \in T PROVE n + 1 \in T
    <2>1. PICK f : Good(f, n)
      BY <1>2
    <2> DEFINE g == [s \in small(n + 1) |->
                       IF s = {} THEN 0 ELSE v[pick[s]] + f[s \ {pick[s]}]]
    <2>2. ASSUME NEW s \in small(n + 1), s # {}
          PROVE  /\ s \ {pick[s]} \in small(n) /\ s \ {pick[s]} \in small(n + 1)
                 /\ v[pick[s]] \in Int
      <3>1. pick[s] \in s /\ s \in SUBSET S /\ Cardinality(s) <= n + 1
        BY <2>2 DEF Picks
      <3>2. s \ {pick[s]} \in SUBSET S /\ Cardinality(s \ {pick[s]}) = Cardinality(s) - 1 /\ Cardinality(s) \in Nat
        BY <3>1, SizesOfSubsets
      <3> QED
        BY <3>1, <3>2
    <2>3. ASSUME NEW s \in small(n) PROVE s \in small(n + 1) /\ g[s] = f[s]
      <3>1. s \in small(n + 1)
        <4>1. s \in SUBSET S /\ Cardinality(s) <= n /\ Cardinality(s) \in Nat
          BY SizesOfSubsets
        <4> QED
          BY <4>1
      <3> QED
        BY <3>1, <2>1
    <2>4. g \in [small(n + 1) -> Int]
      <3> SUFFICES ASSUME NEW s \in small(n + 1), s # {} PROVE v[pick[s]] + f[s \ {pick[s]}] \in Int
        OBVIOUS
      <3>1. f[s \ {pick[s]}] \in Int
        BY <2>1, <2>2
      <3> QED
        BY <2>2, <3>1
    <2>5. ASSUME NEW s \in small(n + 1), s # {} PROVE g[s] = v[pick[s]] + g[s \ {pick[s]}]
      <3>1. g[s \ {pick[s]}] = f[s \ {pick[s]}]
        BY <2>2, <2>3, <2>5
      <3> QED
        BY <2>5, <3>1
    <2>6. Good(g, n + 1)
      <3>1. \A s \in small(n + 1) : s = {} => g[s] = 0
        OBVIOUS
      <3> HIDE DEF g, small
      <3> QED
        BY <2>4, <2>5, <3>1
    <2> HIDE DEF Good, g
    <2> QED
      BY <2>6
  <1>3. Cardinality(S) \in T
    <2> HIDE DEF T
    <2>1. Cardinality(S) \in Nat
      BY FS_CardinalityType
    <2> QED
      BY <1>1, <1>2, <2>1, InductionOnNat
  <1>4. small(Cardinality(S)) = SUBSET S
    BY SizesOfSubsets
  <1>5. PICK f : Good(f, Cardinality(S))
    BY <1>3
  <1>6. f = [s \in SUBSET S |-> f[s]]
    BY <1>4, <1>5
  <1>7. \A s \in SUBSET S : f[s] = IF s = {} THEN 0 ELSE v[pick[s]] + f[s \ {pick[s]}]
    BY <1>4, <1>5
  <1> QED
    BY <1>6, <1>7 DEF IsSumTable

\* Sums are numbers, and an element can be taken out of one, whichever the
\* table picks first.
LEMMA SumTakesOut ==
  ASSUME NEW S, IsFiniteSet(S), NEW v, \A x \in S : v[x] \in Int, NEW pick, Picks(pick, S),
         NEW f, IsSumTable(f, S, v, pick)
  PROVE  /\ f[{}] = 0
         /\ \A s \in SUBSET S : f[s] \in Int
         /\ \A s \in SUBSET S, x \in S : x \in s => f[s] = v[x] + f[s \ {x}]
  <1> DEFINE numbers == {s \in SUBSET S : f[s] \in Int}
             T == {s \in SUBSET S : \A x \in s : f[s] = v[x] + f[s \ {x}]}
  <1>1. f[{}] = 0
    BY DEF IsSumTable
  <1>2. ASSUME NEW s \in SUBSET S, s # {}
        PROVE  pick[s] \in s /\ pick[s] \in S /\ f[s] = v[pick[s]] + f[s \ {pick[s]}]
    BY <1>2 DEF IsSumTable, Picks
  <1>3. ASSUME NEW s \in SUBSET S PROVE f[s] \in Int
    <2>1. ASSUME NEW t \in SUBSET S, \A x \in t : t \ {x} \in numbers PROVE t \in numbers
      <3>1. CASE t = {}
        BY <1>1, <3>1
      <3>2. CASE t # {}
        <4>1. PICK y \in t : y \in S /\ f[t] = v[y] + f[t \ {y}]
          BY <1>2, <3>2
        <4>2. f[t \ {y}] \in Int /\ v[y] \in Int
          BY <2>1, <4>1
        <4> QED
          BY <4>1, <4>2
      <3> QED
        BY <3>1, <3>2
    <2>2. SUBSET S \subseteq numbers
      <3> HIDE DEF numbers
      <3> QED
        BY <2>1, InductionOnSubsets
    <2> QED
      BY <2>2
  <1>4. ASSUME NEW s \in SUBSET S, \A x \in s : s \ {x} \in T PROVE s \in T
    <2> SUFFICES ASSUME NEW x \in s PROVE f[s] = v[x] + f[s \ {x}]
      OBVIOUS
    <2>1. PICK y \in s : y \in S /\ f[s] = v[y] + f[s \ {y}]
      BY <1>2
    <2>2. CASE x # y
      <3> DEFINE rest == (s \ {x}) \ {y}
      <3>1. x \in s \ {y} /\ y \in s \ {x} /\ rest = (s \ {y}) \ {x}
        BY <2>2
      <3>2. f[s \ {y}] = v[x] + f[rest] /\ f[s \ {x}] = v[y] + f[rest]
        BY <1>4, <3>1
      <3>3. PICK a \in Int, b \in Int, r \in Int : a = v[x] /\ b = v[y] /\ r = f[rest]
        BY <1>3, <2>1
      <3> HIDE DEF rest
      <3> QED
        BY <2>1, <3>2, <3>3
    <2> QED
      BY <2>1, <2>2
  <1>5. SUBSET S \subseteq T
    <2> HIDE DEF T
    <2> QED
      BY <1>4, InductionOnSubsets
  <1> QED
    BY <1>1, <1>3, <1>5

\* Where two tables add the same numbers, whatever they pick, they agree.
LEMMA SumTablesAgree ==
  ASSUME NEW S, IsFiniteSet(S), NEW v, \A x \in S : v[x] \in Int, NEW pick, Picks(pick, S),
         NEW f, IsSumTable(f, S, v, pick),
         NEW R, IsFiniteSet(R), NEW w, \A x \in R : w[x] \in Int, NEW other, Picks(other, R),
         NEW g, IsSumTable(g, R, w, other),
         NEW s \in SUBSET S, s \in SUBSET R, \A x \in s : v[x] = w[x]
  PROVE  f[s] = g[s]
  <1> DEFINE T == {t \in SUBSET s : f[t] = g[t]}
  <1>1. ASSUME NEW t \in SUBSET s, \A x \in t : t \ {x} \in T PROVE t \in T
    <2>1. CASE t = {}
      <3>1. f[{}] = 0 /\ g[{}] = 0
        BY SumTakesOut
      <3> QED
        BY <2>1, <3>1
    <2>2. CASE t # {}
      <3>1. PICK x : x \in t
        BY <2>2
      <3>2. x \in S /\ x \in R /\ t \in SUBSET S /\ t \in SUBSET R /\ v[x] = w[x]
        BY <3>1
      <3>3. f[t] = v[x] + f[t \ {x}]
        BY <3>1, <3>2, SumTakesOut
      <3>4. g[t] = w[x] + g[t \ {x}]
        BY <3>1, <3>2, SumTakesOut
      <3>5. f[t \ {x}] = g[t \ {x}]
        BY <1>1, <3>1
      <3> QED
        BY <3>2, <3>3, <3>4, <3>5
    <2> QED
      BY <2>1, <2>2
  <1>2. IsFiniteSet(s)
    BY FS_Subset
  <1>3. SUBSET s \subseteq T
    <2> HIDE DEF T
    <2> QED
      BY <1>1, <1>2, InductionOnSubsets
  <1> QED
    BY <1>3

\* A table of natural numbers has natural sums.
LEMMA SumTableIsNatural ==
  ASSUME NEW S, IsFiniteSet(S), NEW v, \A x \in S : v[x] \in Nat, NEW pick, Picks(pick, S),
         NEW f, IsSumTable(f, S, v, pick)
  PROVE  \A s \in SUBSET S : f[s] \in Nat
  <1> DEFINE T == {s \in SUBSET S : f[s] \in Nat}
  <1>1. f[{}] = 0 /\ \A s \in SUBSET S, x \in S : x \in s => f[s] = v[x] + f[s \ {x}]
    BY SumTakesOut
  <1>2. ASSUME NEW s \in SUBSET S, \A x \in s : s \ {x} \in T PROVE s \in T
    <2>1. CASE s = {}
      BY <1>1, <2>1
    <2>2. CASE s # {}
      <3>1. PICK x \in S : x \in s
        BY <2>2
      <3>2. f[s] = v[x] + f[s \ {x}] /\ f[s \ {x}] \in Nat /\ v[x] \in Nat
        BY <1>1, <1>2, <3>1
      <3> QED
        BY <3>2
    <2> QED
      BY <2>1, <2>2
  <1>3. SUBSET S \subseteq T
    <2> HIDE DEF T
    <2> QED
      BY <1>2, InductionOnSubsets
  <1> QED
    BY <1>3

\* A table for one element more adds its value to the sum of the others.
LEMMA SumTableGrows ==
  ASSUME NEW S, IsFiniteSet(S), NEW v, \A y \in S : v[y] \in Int, NEW pick, Picks(pick, S),
         NEW f, IsSumTable(f, S, v, pick),
         NEW x, x \notin S,
         NEW w, w[x] \in Int, \A y \in S : w[y] = v[y], NEW other, Picks(other, S \cup {x}),
         NEW g, IsSumTable(g, S \cup {x}, w, other)
  PROVE  g[S \cup {x}] = w[x] + f[S] /\ f[S] \in Int
  <1> DEFINE R == S \cup {x}
  <1>1. IsFiniteSet(R) /\ x \in R /\ S = R \ {x} /\ S \in SUBSET R /\ R \in SUBSET R
    BY FS_AddElement
  <1>2. (\A y \in R : w[y] \in Int) /\ (\A y \in S : v[y] = w[y]) /\ S \in SUBSET S
    OBVIOUS
  <1>3. Picks(other, R) /\ IsSumTable(g, R, w, other)
    OBVIOUS
  <1> HIDE DEF R
  <1>4. g[R] = w[x] + g[R \ {x}]
    BY <1>1, <1>2, <1>3, SumTakesOut
  <1>5. f[S] = g[S]
    BY <1>1, <1>2, <1>3, SumTablesAgree
  <1>6. f[S] \in Int
    BY <1>2, SumTakesOut
  <1> QED
    BY <1>1, <1>4, <1>5, <1>6 DEF R

\* The sum of the values of a function.
SumOf(v) == MapThenSumSet(LAMBDA x : v[x], DOMAIN v)

\* Any way to pick one is a way.
AnyOf(S) == [s \in SUBSET S |-> CHOOSE x \in s : TRUE]

\* It picks elements.
LEMMA AnyOfPicks == ASSUME NEW S PROVE Picks(AnyOf(S), S)
  BY DEF Picks, AnyOf

\* A sum is found in a table.
LEMMA SumOfTable ==
  ASSUME NEW S, IsFiniteSet(S), NEW v, DOMAIN v = S, \A x \in S : v[x] \in Int
  PROVE  \E f : IsSumTable(f, S, v, AnyOf(S)) /\ SumOf(v) = f[S]
  <1> DEFINE pick == AnyOf(S)
             f == CHOOSE table : IsSumTable(table, S, v, pick)
  <1>1. IsSumTable(f, S, v, pick)
    <2>1. \E table : IsSumTable(table, S, v, pick)
      BY AnyOfPicks, SumTableExists
    <2> HIDE DEF pick
    <2> QED
      BY <2>1
  <1>2. SumOf(v) = f[S]
    <2> DEFINE written(iter) ==
                 iter = [s \in SUBSET S |->
                           IF s = {} THEN 0
                           ELSE v[CHOOSE x \in s : TRUE] + iter[s \ {CHOOSE x \in s : TRUE}]]
    <2>1. SumOf(v) = (CHOOSE iter : written(iter))[S]
      BY Zenon DEF SumOf, MapThenSumSet, MapThenFoldSet
    <2>2. ASSUME NEW iter PROVE written(iter) <=> IsSumTable(iter, S, v, pick)
      BY DEF IsSumTable, AnyOf
    <2>3. (CHOOSE iter : written(iter)) = f
      <3> HIDE DEF written, pick
      <3> QED
        BY <2>2, Zenon
    <2> QED
      BY <2>1, <2>3
  <1> QED
    BY <1>1, <1>2

\* Any table that adds the values of a function has its sum.
LEMMA SumIsOfAnyTable ==
  ASSUME NEW S, IsFiniteSet(S), NEW v, DOMAIN v = S, \A x \in S : v[x] \in Int,
         NEW pick, Picks(pick, S), NEW f, IsSumTable(f, S, v, pick)
  PROVE  f[S] = SumOf(v)
  <1>1. PICK g : IsSumTable(g, S, v, AnyOf(S)) /\ SumOf(v) = g[S]
    BY SumOfTable
  <1>2. S \in SUBSET S
    OBVIOUS
  <1>3. f[S] = g[S]
    BY <1>1, <1>2, AnyOfPicks, SumTablesAgree
  <1> QED
    BY <1>1, <1>3

\* The sum over nothing is 0, and one more element adds its value.
LEMMA SumOfNone == ASSUME NEW v, DOMAIN v = {} PROVE SumOf(v) = 0
  <1>1. IsFiniteSet({}) /\ \A x \in {} : v[x] \in Int
    BY FS_EmptySet
  <1>2. PICK f : IsSumTable(f, {}, v, AnyOf({})) /\ SumOf(v) = f[{}]
    BY <1>1, SumOfTable
  <1> QED
    BY <1>2 DEF IsSumTable

\* A sum over one element more.
LEMMA SumOfOneMore ==
  ASSUME NEW v, IsFiniteSet(DOMAIN v), \A y \in DOMAIN v : v[y] \in Int,
         NEW x, x \notin DOMAIN v,
         NEW w, DOMAIN w = DOMAIN v \cup {x}, w[x] \in Int, \A y \in DOMAIN v : w[y] = v[y]
  PROVE  SumOf(w) = w[x] + SumOf(v) /\ SumOf(v) \in Int
  <1>1. IsFiniteSet(DOMAIN w) /\ \A y \in DOMAIN w : w[y] \in Int
    BY FS_AddElement
  <1>2. PICK f : IsSumTable(f, DOMAIN v, v, AnyOf(DOMAIN v)) /\ SumOf(v) = f[DOMAIN v]
    BY SumOfTable
  <1>3. PICK g : IsSumTable(g, DOMAIN w, w, AnyOf(DOMAIN w)) /\ SumOf(w) = g[DOMAIN w]
    BY <1>1, SumOfTable
  <1>4. Picks(AnyOf(DOMAIN v), DOMAIN v) /\ Picks(AnyOf(DOMAIN w), DOMAIN w)
    BY AnyOfPicks
  <1>5. g[DOMAIN w] = w[x] + f[DOMAIN v] /\ f[DOMAIN v] \in Int
    BY <1>2, <1>3, <1>4, SumTableGrows
  <1> QED
    BY <1>2, <1>3, <1>5

\* A sum of natural numbers is one, and with a value replaced it changes by
\* the difference.
LEMMA SumOfReplaced ==
  ASSUME NEW v, IsFiniteSet(DOMAIN v), \A y \in DOMAIN v : v[y] \in Int,
         NEW x \in DOMAIN v,
         NEW w, DOMAIN w = DOMAIN v, w[x] \in Int, \A y \in DOMAIN v : y # x => w[y] = v[y]
  PROVE  SumOf(w) = SumOf(v) - v[x] + w[x] /\ SumOf(v) \in Int
  <1> DEFINE rest == [y \in DOMAIN v \ {x} |-> v[y]]
  <1>1. IsFiniteSet(DOMAIN rest) /\ (\A y \in DOMAIN rest : rest[y] \in Int) /\ x \notin DOMAIN rest
    BY FS_Subset
  <1>2. DOMAIN v = DOMAIN rest \cup {x} /\ \A y \in DOMAIN rest : v[y] = rest[y] /\ w[y] = rest[y]
    OBVIOUS
  <1> HIDE DEF rest
  <1>3. SumOf(v) = v[x] + SumOf(rest) /\ SumOf(rest) \in Int
    BY <1>1, <1>2, SumOfOneMore
  <1>4. SumOf(w) = w[x] + SumOf(rest)
    BY <1>1, <1>2, SumOfOneMore
  <1>5. PICK a \in Int, b \in Int, r \in Int : a = v[x] /\ b = w[x] /\ r = SumOf(rest)
    BY <1>3
  <1> QED
    BY <1>3, <1>4, <1>5

\* A sum of natural numbers is one.
LEMMA SumOfNumbers ==
  ASSUME NEW v, IsFiniteSet(DOMAIN v), \A y \in DOMAIN v : v[y] \in Nat
  PROVE  SumOf(v) \in Nat
  <1>1. \A y \in DOMAIN v : v[y] \in Int
    OBVIOUS
  <1>2. PICK f : IsSumTable(f, DOMAIN v, v, AnyOf(DOMAIN v)) /\ SumOf(v) = f[DOMAIN v]
    BY <1>1, SumOfTable
  <1>3. Picks(AnyOf(DOMAIN v), DOMAIN v)
    BY AnyOfPicks
  <1>4. \A s \in SUBSET DOMAIN v : f[s] \in Nat
    BY <1>2, <1>3, SumTableIsNatural
  <1> QED
    BY <1>2, <1>4

-----------------------------------------------------------------------------
(***************************************************************************)
(* Powers of two, as a function that doubles from 1 on.                    *)
(***************************************************************************)
Doubles(f, n) == f \in [0 .. n -> Nat] /\ f[0] = 1 /\ \A k \in 1 .. n : f[k] = 2 * f[k - 1]

\* A function doubles from 1 on as far as wanted.
LEMMA DoublingUpTo == ASSUME NEW n \in Nat PROVE \E f : Doubles(f, n)
  <1>1. PICK S, base : S = Nat /\ base = 1
    OBVIOUS
  <1>2. PICK step : step = [k \in 1 .. n |-> [v \in Nat |-> 2 * v]]
    OBVIOUS
  <1>3. ASSUME NEW k \in 1 .. n, NEW v \in Nat PROVE step[k][v] \in Nat /\ step[k][v] = 2 * v
    <2>1. step[k] = [u \in Nat |-> 2 * u]
      BY <1>2
    <2> QED
      BY <2>1
  <1>4. base \in S /\ \A k \in 1 .. n, v \in S : step[k][v] \in S
    BY <1>1, <1>3
  <1>5. StepsStay(step, n, S)
    BY <1>4 DEF StepsStay
  <1>6. PICK f \in [0 .. n -> S] : Recurs(f, base, step, n)
    BY <1>4, <1>5, RecursionExists
  <1>7. ASSUME NEW k \in 1 .. n PROVE f[k] = 2 * f[k - 1]
    <2>1. f[k - 1] \in Nat /\ f[k] = step[k][f[k - 1]]
      BY <1>1, <1>6 DEF Recurs
    <2> QED
      BY <2>1, <1>3
  <1> QED
    BY <1>1, <1>6, <1>7 DEF Recurs, Doubles

\* Two functions that double from 1 on agree as far as both do.
LEMMA DoublingsAgree ==
  ASSUME NEW n \in Nat, NEW m \in Nat, n <= m, NEW f, Doubles(f, n), NEW g, Doubles(g, m)
  PROVE  f[n] = g[n]
  <1> DEFINE T == {k \in Nat : f[k] = g[k]}
  <1>1. 0 \in T
    BY DEF Doubles
  <1>2. ASSUME NEW k \in 1 .. n, k - 1 \in T PROVE k \in T
    <2>1. f[k] = 2 * f[k - 1] /\ k \in 1 .. m
      BY DEF Doubles
    <2>2. g[k] = 2 * g[k - 1]
      BY <2>1 DEF Doubles
    <2> QED
      BY <1>2, <2>1, <2>2
  <1> HIDE DEF T
  <1>3. 0 .. n \subseteq T
    BY <1>1, <1>2, InductionUpTo
  <1>4. n \in T
    BY <1>3
  <1> QED
    BY <1>4 DEF T

\* So there is one on all natural numbers.
LEMMA DoublingExists == \E f : f = [n \in Nat |-> IF n = 0 THEN 1 ELSE 2 * f[n - 1]]
  <1> DEFINE table[n \in Nat] == CHOOSE f : Doubles(f, n)
             power == [n \in Nat |-> table[n][n]]
  <1>1. ASSUME NEW n \in Nat PROVE Doubles(table[n], n)
    BY DoublingUpTo
  <1>2. ASSUME NEW n \in Nat PROVE power[n] = IF n = 0 THEN 1 ELSE 2 * power[n - 1]
    <2> HIDE DEF table
    <2>1. CASE n = 0
      <3>1. table[n][n] = 1
        BY <1>1, <2>1 DEF Doubles
      <3> QED
        BY <2>1, <3>1
    <2>2. CASE n # 0
      <3>1. PICK m \in Nat : m = n - 1 /\ m <= n
        BY <2>2
      <3>2. table[m][m] = table[n][m]
        BY <1>1, <3>1, DoublingsAgree
      <3>3. n \in 1 .. n
        BY <2>2
      <3>4. table[n][n] = 2 * table[n][m]
        BY <1>1, <3>1, <3>3 DEF Doubles
      <3> QED
        BY <2>2, <3>1, <3>2, <3>4
    <2> QED
      BY <2>1, <2>2
  <1>3. power = [n \in Nat |-> power[n]]
    OBVIOUS
  <1> HIDE DEF power
  <1>4. power = [n \in Nat |-> IF n = 0 THEN 1 ELSE 2 * power[n - 1]]
    BY <1>2, <1>3
  <1> QED
    BY <1>4

\* Such a function is one of powers.
IsPower(f) == f = [n \in Nat |-> IF n = 0 THEN 1 ELSE 2 * f[n - 1]]

\* It doubles at each step.
LEMMA PowerOfSuccessor ==
  ASSUME NEW f, IsPower(f)
  PROVE  f[0] = 1 /\ \A n \in Nat : f[n + 1] = 2 * f[n]
  <1>1. ASSUME NEW n \in Nat PROVE f[n] = IF n = 0 THEN 1 ELSE 2 * f[n - 1]
    BY DEF IsPower
  <1>2. f[0] = 1
    BY <1>1
  <1>3. ASSUME NEW n \in Nat PROVE f[n + 1] = 2 * f[n]
    <2>1. PICK m \in Nat : m = n + 1 /\ m - 1 = n /\ m # 0
      OBVIOUS
    <2> QED
      BY <2>1, <1>1
  <1> QED
    BY <1>2, <1>3

\* It is never zero.
LEMMA PowerIsPositive ==
  ASSUME NEW f, IsPower(f)
  PROVE  \A n \in Nat : f[n] \in Nat \ {0}
  <1> DEFINE T == {n \in Nat : f[n] \in Nat \ {0}}
  <1>1. 0 \in T
    BY PowerOfSuccessor
  <1>2. ASSUME NEW n \in Nat, n \in T PROVE n + 1 \in T
    BY <1>2, PowerOfSuccessor
  <1> HIDE DEF T
  <1>3. Nat \subseteq T
    BY <1>1, <1>2, InductionOnNat
  <1> QED
    BY <1>3 DEF T

\* The power of a sum is the product of the powers.
LEMMA PowerOfSum ==
  ASSUME NEW f, IsPower(f)
  PROVE  \A a, b \in Nat : f[a + b] = f[a] * f[b]
  <1> SUFFICES ASSUME NEW a \in Nat PROVE \A b \in Nat : f[a + b] = f[a] * f[b]
    OBVIOUS
  <1> DEFINE T == {b \in Nat : f[a + b] = f[a] * f[b]}
  <1>a. PICK p \in Nat \ {0} : p = f[a]
    BY PowerIsPositive
  <1>1. 0 \in T
    <2>1. f[0] = 1 /\ a + 0 = a
      BY PowerOfSuccessor
    <2>2. p * 1 = p
      OBVIOUS
    <2> QED
      BY <1>a, <2>1, <2>2
  <1>2. ASSUME NEW b \in Nat, b \in T PROVE b + 1 \in T
    <2>1. PICK q \in Nat \ {0} : q = f[b]
      BY PowerIsPositive
    <2>2. f[b + 1] = 2 * q
      BY <2>1, PowerOfSuccessor
    <2>3. f[a + b] = p * q
      BY <1>2, <2>1, <1>a
    <2>4. PICK c \in Nat : c = a + b /\ a + (b + 1) = c + 1
      OBVIOUS
    <2>5. f[c + 1] = 2 * f[c]
      BY PowerOfSuccessor
    <2>6. 2 * (p * q) = p * (2 * q)
      OBVIOUS
    <2> QED
      BY <2>2, <2>3, <2>4, <2>5, <2>6, <1>a
  <1> HIDE DEF T
  <1>3. Nat \subseteq T
    BY <1>1, <1>2, InductionOnNat
  <1> QED
    BY <1>3 DEF T

\* Powers grow, and strictly: a greater exponent at least doubles.
LEMMA PowerGrows ==
  ASSUME NEW f, IsPower(f)
  PROVE  \A a, b \in Nat : (a <= b => f[a] <= f[b]) /\ (a < b => 2 * f[a] <= f[b])
  <1> SUFFICES ASSUME NEW a \in Nat, NEW b \in Nat
               PROVE  (a <= b => f[a] <= f[b]) /\ (a < b => 2 * f[a] <= f[b])
    OBVIOUS
  <1>1. PICK p \in Nat \ {0}, q \in Nat \ {0} : p = f[a] /\ q = f[b]
    BY PowerIsPositive
  <1>2. ASSUME NEW c \in Nat, NEW d \in Nat PROVE f[c] <= f[c + d]
    <2>1. PICK r \in Nat \ {0}, s \in Nat \ {0} : r = f[c] /\ s = f[d]
      BY PowerIsPositive
    <2>2. f[c + d] = r * s
      BY <2>1, PowerOfSum
    <2>3. r * s >= r
      BY ProductFacts
    <2> QED
      BY <2>1, <2>2, <2>3
  <1>3. ASSUME a <= b PROVE p <= q
    <2>1. PICK d \in Nat : d = b - a /\ a + d = b
      BY <1>3
    <2> QED
      BY <1>1, <1>2, <2>1
  <1>4. ASSUME a < b PROVE 2 * p <= q
    <2>1. PICK c \in Nat, d \in Nat : c = a + 1 /\ d = b - c /\ c + d = b
      BY <1>4
    <2>2. f[c] = 2 * p
      BY <1>1, <2>1, PowerOfSuccessor
    <2> QED
      BY <1>1, <1>2, <2>1, <2>2
  <1> QED
    BY <1>1, <1>3, <1>4

\* A power of two is larger than its exponent.
LEMMA PowerExceeds ==
  ASSUME NEW f, IsPower(f)
  PROVE  \A n \in Nat : n < f[n]
  <1> DEFINE T == {n \in Nat : n < f[n]}
  <1>1. 0 \in T
    BY PowerOfSuccessor
  <1>2. ASSUME NEW n \in Nat, n \in T PROVE n + 1 \in T
    <2>1. PICK p \in Nat \ {0} : p = f[n] /\ f[n + 1] = 2 * p
      BY PowerIsPositive, PowerOfSuccessor
    <2> QED
      BY <1>2, <2>1
  <1> HIDE DEF T
  <1>3. Nat \subseteq T
    BY <1>1, <1>2, InductionOnNat
  <1> QED
    BY <1>3 DEF T

\* e is the least exponent with which s binary digits hold n.
IsLeastExponent(f, s, n, e) ==
  /\ e \in 0 .. n
  /\ n < f[s + e]
  /\ \A lower \in 0 .. e - 1 : ~(n < f[s + lower])

\* There is one, and it can be chosen.
LEMMA LeastExponent ==
  ASSUME NEW f, IsPower(f), NEW s \in Nat, NEW n \in Nat
  PROVE  \E e : /\ e = CHOOSE d \in 0 .. n : n < f[s + d] /\ \A lower \in 0 .. d - 1 : ~(n < f[s + lower])
               /\ IsLeastExponent(f, s, n, e)
  <1> DEFINE fits(e) == n < f[s + e]
             enough == {e \in Nat : fits(e)}
             less == OpToRel(<, Nat)
             least(e) == fits(e) /\ \A lower \in 0 .. e - 1 : ~fits(lower)
  <1>1. n \in enough
    <2>1. PICK b \in Nat : b = s + n /\ n <= b
      OBVIOUS
    <2>2. PICK p \in Nat \ {0}, q \in Nat \ {0} : p = f[n] /\ q = f[b] /\ p <= q
      BY <2>1, PowerIsPositive, PowerGrows
    <2>3. n < p
      BY <2>2, PowerExceeds
    <2> QED
      BY <2>1, <2>2, <2>3
  <1>2. PICK e \in enough : \A d \in enough : ~(<<d, e>> \in less)
    <2>1. enough \subseteq Nat /\ enough # {}
      BY <1>1
    <2> HIDE DEF enough
    <2> QED
      BY <2>1, NatLessThanWellFounded, WFMin
  <1>3. e \in Nat /\ fits(e) /\ fits(n) /\ \A d \in Nat : fits(d) => ~(d < e)
    BY <1>1, <1>2 DEF OpToRel
  <1>4. e \in 0 .. n /\ least(e)
    <2> HIDE DEF fits
    <2>1. e <= n
      BY <1>3
    <2>2. ASSUME NEW lower \in 0 .. e - 1 PROVE ~fits(lower)
      <3>1. lower \in Nat /\ lower < e
        BY <1>3
      <3> QED
        BY <1>3, <3>1
    <2> QED
      BY <1>3, <2>1, <2>2
  <1> DEFINE chosen == CHOOSE d \in 0 .. n : least(d)
  <1>5. chosen \in 0 .. n /\ least(chosen)
    <2> HIDE DEF least
    <2> QED
      BY <1>4
  <1>6. IsLeastExponent(f, s, n, chosen)
    <2> HIDE DEF chosen
    <2> QED
      BY <1>5 DEF IsLeastExponent
  <1>7. chosen = CHOOSE d \in 0 .. n : n < f[s + d] /\ \A lower \in 0 .. d - 1 : ~(n < f[s + lower])
    OBVIOUS
  <1> QED
    BY <1>6, <1>7

\* Dividing twice divides by the product.
LEMMA QuotientOfQuotient ==
  ASSUME NEW n \in Nat, NEW a \in Nat \ {0}, NEW b \in Nat \ {0}
  PROVE  n \div (a * b) = (n \div a) \div b
  <1>1. PICK q \in Nat, s \in 0 .. a - 1 : q = n \div a /\ n = a * q + s
    BY DivisionFacts
  <1>2. PICK r \in Nat, t \in 0 .. b - 1 : r = q \div b /\ q = b * r + t
    BY DivisionFacts
  <1>3. PICK d \in Nat \ {0} : d = a * b
    BY ProductFacts
  <1>4. PICK e \in Nat : e = a * t /\ e <= a * (b - 1)
    BY ProductFacts, ProductMonotone
  <1>5. PICK m \in Nat : m = d * r /\ d * (r + 1) = m + d
    BY ProductFacts
  <1>6. a * (b - 1) = d - a
    BY <1>3
  <1>7. n = m + e + s
    <2>1. a * (b * r + t) = (a * b) * r + a * t
      OBVIOUS
    <2> QED
      BY <1>1, <1>2, <1>3, <1>4, <1>5, <2>1
  <1>8. d * r <= n /\ n < d * (r + 1)
    <2>1. s < a /\ e <= d - a
      BY <1>1, <1>4, <1>6
    <2> QED
      BY <1>5, <1>7, <2>1
  <1>9. n \div d = r
    BY <1>8, QuotientIs
  <1> QED
    BY <1>1, <1>2, <1>3, <1>9

\* A number is the divisor times its quotient plus its remainder.
LEMMA DivisionTellsNumber ==
  \A n \in Nat, a \in Nat \ {0} : n = a * (n \div a) + (n % a)
  BY DivisionFacts

\* Numbers with the same digits are the same.
SameDigits(f, b, n, u, v) ==
  \A k \in 1 .. n : (u \div f[b * (k - 1)]) % f[b] = (v \div f[b * (k - 1)]) % f[b]

\* Numbers of as many digits, of b bits each, are equal if all their digits are.
LEMMA DigitsTellNumbers ==
  ASSUME NEW f, IsPower(f), NEW b \in Nat, NEW n \in Nat,
         NEW u \in Nat, u < f[b * n], NEW v \in Nat, v < f[b * n], SameDigits(f, b, n, u, v)
  PROVE  u = v
  <1> DEFINE T == {j \in Nat : j <= n => u \div f[b * (n - j)] = v \div f[b * (n - j)]}
  <1>1. 0 \in T
    <2>1. PICK d \in Nat \ {0} : d = f[b * n] /\ n - 0 = n
      BY ProductFacts, PowerIsPositive
    <2>2. u \div d = 0 /\ v \div d = 0
      BY <2>1, QuotientIs
    <2> QED
      BY <2>1, <2>2
  <1>2. ASSUME NEW j \in 1 .. n, j - 1 \in T PROVE j \in T
    <2>1. PICK k \in 1 .. n : k = n - j + 1 /\ n - j = k - 1 /\ n - (j - 1) = k
      OBVIOUS
    <2>2. PICK e \in Nat : e = b * (k - 1) /\ b * k = e + b
      BY ProductFacts
    <2>3. PICK c \in Nat \ {0}, a \in Nat \ {0} : c = f[e] /\ a = f[b]
      BY PowerIsPositive
    <2>4. f[b * k] = c * a
      <3>1. f[e + b] = f[e] * f[b]
        BY PowerOfSum
      <3> QED
        BY <2>2, <2>3, <3>1
    <2>5. PICK x \in Nat, y \in Nat : x = u \div c /\ y = v \div c
      BY <2>3, DivisionFacts
    <2>6. x % a = y % a
      BY <2>2, <2>3, <2>5 DEF SameDigits
    <2>7. u \div (c * a) = v \div (c * a)
      BY <1>2, <2>1, <2>4
    <2>8. x \div a = y \div a
      BY <2>3, <2>5, <2>7, QuotientOfQuotient
    <2>9. x = a * (x \div a) + (x % a) /\ y = a * (y \div a) + (y % a)
      BY <2>3, <2>5, DivisionTellsNumber
    <2>10. x = y
      BY <2>6, <2>8, <2>9
    <2> QED
      BY <2>1, <2>2, <2>3, <2>5, <2>10
  <1> HIDE DEF T
  <1>3. 0 .. n \subseteq T
    BY <1>1, <1>2, InductionUpTo
  <1>4. n \in T
    BY <1>3
  <1>5. u \div f[b * (n - n)] = v \div f[b * (n - n)]
    BY <1>4 DEF T
  <1>6. b * (n - n) = 0 /\ f[0] = 1
    BY ProductFacts, PowerOfSuccessor
  <1> QED
    BY <1>5, <1>6
=============================================================================
