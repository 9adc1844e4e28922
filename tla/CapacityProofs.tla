--------------------------- MODULE CapacityProofs ---------------------------
(***************************************************************************)
(* Theorems about solve_capacity, for every site and every runtime state,  *)
(* and the lemmas about numbers, sums and loops that they and the other    *)
(* proofs about the engine rest on.                                        *)
(***************************************************************************)
EXTENDS Capacity, FiniteSetTheorems, SequenceTheorems, WellFoundedInduction, TLAPS

-----------------------------------------------------------------------------
(* Numbers.                                                                *)

\* A non-empty set of naturals has a least member.
LEMMA LeastNat ==
  ASSUME NEW S \in SUBSET Nat, S # {}
  PROVE  \E x \in S : \A y \in S : x <= y
<1>1. PICK x \in S : \A y \in S : ~ (<<y, x>> \in OpToRel(<, Nat))
  BY WFMin, NatLessThanWellFounded
<1>2. OpToRel(<, Nat) = {p \in Nat \X Nat : p[1] < p[2]}
  BY DEF OpToRel
<1>3. ASSUME NEW y \in S PROVE ~ (y < x)
  <2>1. <<y, x>> \in Nat \X Nat /\ <<y, x>>[1] = y /\ <<y, x>>[2] = x
    OBVIOUS
  <2> QED
    BY <1>1, <1>2, <2>1
<1> QED
  BY <1>3

\* Max of a non-empty set of positions is its last member.
LEMMA MaxOfPositions ==
  ASSUME NEW n \in Nat, NEW S \in SUBSET (1 .. n), S # {}
  PROVE  Max(S) \in S /\ \A y \in S : y <= Max(S)
<1> DEFINE T == {n - x : x \in S}
<1>1. PICK t \in T : \A y \in T : t <= y
  <2>1. \A x \in S : x \in Int /\ n - x \in Nat
    OBVIOUS
  <2>2. T \in SUBSET Nat
    BY <2>1
  <2>3. T # {}
    <3>1. PICK x \in S : TRUE
      OBVIOUS
    <3>2. n - x \in T
      OBVIOUS
    <3> QED
      BY <3>2
  <2> QED
    BY <2>2, <2>3, LeastNat
<1>2. PICK x \in S : t = n - x
  OBVIOUS
<1>3. ASSUME NEW y \in S PROVE x >= y
  <2>1. t <= n - y
    BY <1>1
  <2> QED
    BY <2>1, <1>2
<1> QED
  BY <1>3 DEF Max

\* Min of a set with a least member is that member.
LEMMA MinOfSet ==
  ASSUME NEW S \in SUBSET Int, \E x \in S : \A y \in S : x <= y
  PROVE  Min(S) \in S /\ \A y \in S : Min(S) <= y
BY DEF Min

\* Division leaves no more than there was.
LEMMA DivBound ==
  ASSUME NEW a \in Nat, NEW b \in Nat \ {0}
  PROVE  /\ a \div b \in Nat
         /\ (a \div b) * b <= a
         /\ a % b = 0 => (a \div b) * b = a
OBVIOUS

\* The next multiple of a step lies ahead, by one step at most.
LEMMA NextMultiple ==
  ASSUME NEW a \in Nat, NEW b \in Nat \ {0}
  PROVE  /\ (a \div b + 1) * b \in Nat
         /\ (a \div b + 1) * b > a
         /\ (a \div b + 1) * b <= a + b
<1>1. a = b * (a \div b) + (a % b) /\ a % b \in 0 .. b - 1 /\ a \div b \in Nat
  OBVIOUS
<1>2. (a \div b + 1) * b = b * (a \div b) + b
  BY <1>1
<1>3. b * (a \div b) \in Nat
  BY <1>1
<1> QED
  BY <1>1, <1>2, <1>3

\* A product grows with its factor.
LEMMA ProductGrows ==
  ASSUME NEW a \in Nat, NEW b \in Nat, NEW c \in Nat, a <= b
  PROVE  c * a \in Nat /\ c * a <= b * c
OBVIOUS
-----------------------------------------------------------------------------
(* Sums.  MapThenSumSet picks the elements of a set in an order of its     *)
(* own; the sum does not depend on it.                                     *)

Pick(s) == CHOOSE x \in s : TRUE

SumOf(f) == MapThenSumSet(LAMBDA x : f[x], DOMAIN f)

\* h has the sum of f over each set of at most n elements.
SumsUpTo(h, f, n) ==
  /\ h \in [SUBSET DOMAIN f -> Int]
  /\ \A s \in SUBSET DOMAIN f : Cardinality(s) <= n =>
       h[s] = IF s = {} THEN 0 ELSE f[Pick(s)] + h[s \ {Pick(s)}]

Sums(h, f) == SumsUpTo(h, f, Cardinality(DOMAIN f))

\* A set without one of its elements.
LEMMA Smaller ==
  ASSUME NEW D, IsFiniteSet(D), NEW s \in SUBSET D, NEW x \in s
  PROVE  /\ IsFiniteSet(s) /\ Cardinality(s) \in Nat \ {0}
         /\ s \ {x} \in SUBSET D
         /\ Cardinality(s \ {x}) = Cardinality(s) - 1
         /\ Cardinality(s) <= Cardinality(D)
<1>1. IsFiniteSet(s)
  BY FS_Subset
<1>2. Cardinality(s) \in Nat /\ Cardinality(s) # 0
  BY <1>1, FS_CardinalityType, FS_EmptySet
<1>3. Cardinality(s \ {x}) = Cardinality(s) - 1
  BY <1>1, FS_RemoveElement
<1>4. Cardinality(s) <= Cardinality(D)
  BY FS_Subset
<1> QED
  BY <1>1, <1>2, <1>3, <1>4

\* The sums exist.
LEMMA SumsExist ==
  ASSUME NEW D, IsFiniteSet(D), NEW f \in [D -> Int]
  PROVE  \E h : Sums(h, f)
<1>0. DOMAIN f = D /\ Cardinality(D) \in Nat
  BY FS_CardinalityType
<1> DEFINE Bad == {n \in Nat : ~ \E h : SumsUpTo(h, f, n)}
<1>1. SUFFICES ASSUME Bad # {} PROVE FALSE
  BY <1>0 DEF Sums
<1>2. PICK n \in Bad : \A m \in Bad : n <= m
  <2>1. Bad \in SUBSET Nat
    OBVIOUS
  <2> HIDE DEF Bad
  <2> QED
    BY <1>1, <2>1, LeastNat
<1>3. CASE n = 0
  <2> DEFINE h == [s \in SUBSET D |-> 0]
  <2>1. \A s \in SUBSET D : Cardinality(s) <= 0 => s = {}
    <3> TAKE s \in SUBSET D
    <3>1. IsFiniteSet(s)
      BY FS_Subset
    <3> QED
      BY <3>1, FS_CardinalityType, FS_EmptySet
  <2>2. SumsUpTo(h, f, 0)
    BY <1>0, <2>1 DEF SumsUpTo
  <2> QED
    BY <1>3, <2>2
<1>4. CASE n # 0
  <2>1. n - 1 \in Nat /\ n - 1 \notin Bad
    BY <1>2, <1>4
  <2>2. PICK g : SumsUpTo(g, f, n - 1)
    BY <2>1
  <2>3. g \in [SUBSET D -> Int]
    BY <1>0, <2>2 DEF SumsUpTo
  <2> DEFINE next(s) == IF s = {} THEN 0 ELSE f[Pick(s)] + g[s \ {Pick(s)}]
             h == [s \in SUBSET D |-> next(s)]
  <2>4. ASSUME NEW s \in SUBSET D, s # {} PROVE Pick(s) \in s
    BY <2>4 DEF Pick
  <2>5. h \in [SUBSET D -> Int]
    <3> SUFFICES ASSUME NEW s \in SUBSET D PROVE next(s) \in Int
      OBVIOUS
    <3>1. CASE s = {}
      BY <3>1
    <3>2. CASE s # {}
      <4>1. f[Pick(s)] \in Int /\ g[s \ {Pick(s)}] \in Int
        BY <2>3, <2>4, <3>2
      <4> QED
        BY <3>2, <4>1
    <3> QED
      BY <3>1, <3>2
  <2>6. ASSUME NEW s \in SUBSET D, Cardinality(s) <= n
        PROVE  h[s] = IF s = {} THEN 0 ELSE f[Pick(s)] + h[s \ {Pick(s)}]
    <3>1. CASE s = {}
      BY <3>1
    <3>2. CASE s # {}
      <4> DEFINE t == s \ {Pick(s)}
      <4>1. Pick(s) \in s
        BY <2>4, <3>2
      <4>2. t \in SUBSET D /\ Cardinality(t) <= n - 1
        BY <1>2, <2>6, <4>1, Smaller
      <4>3. g[t] = next(t)
        BY <1>0, <2>2, <4>2 DEF SumsUpTo
      <4>4. h[t] = next(t)
        BY <4>2
      <4> QED
        BY <3>2, <4>3, <4>4
    <3> QED
      BY <3>1, <3>2
  <2>7. SumsUpTo(h, f, n)
    <3> HIDE DEF h
    <3> QED
      BY <1>0, <2>5, <2>6 DEF SumsUpTo
  <2> QED
    BY <1>2, <2>7
<1> QED
  BY <1>3, <1>4

\* MapThenSumSet is one of them.
LEMMA SumOfSums ==
  ASSUME NEW D, IsFiniteSet(D), NEW f \in [D -> Int]
  PROVE  \E h : Sums(h, f) /\ SumOf(f) = h[D]
<1> DEFINE IsFold(g) == g = [s \in SUBSET DOMAIN f |->
                               IF s = {} THEN 0 ELSE f[Pick(s)] + g[s \ {Pick(s)}]]
           h == CHOOSE g : IsFold(g)
<1>1. SumOf(f) = h[DOMAIN f]
  BY DEF SumOf, MapThenSumSet, MapThenFoldSet, Pick
<1>2. PICK g : Sums(g, f)
  BY SumsExist
<1>3. IsFold(g)
  <2>1. g \in [SUBSET D -> Int]
    BY <1>2 DEF Sums, SumsUpTo
  <2>2. \A s \in SUBSET D : Cardinality(s) <= Cardinality(D)
    BY FS_Subset
  <2>3. \A s \in SUBSET D : g[s] = IF s = {} THEN 0 ELSE f[Pick(s)] + g[s \ {Pick(s)}]
    BY <1>2, <2>2 DEF Sums, SumsUpTo
  <2> QED
    BY <2>1, <2>3
<1>4. IsFold(h)
  <2> HIDE DEF IsFold
  <2> QED
    BY <1>3
<1>5. Sums(h, f)
  <2>1. DOMAIN h = SUBSET D
    BY <1>4
  <2>2. \A s \in SUBSET D : h[s] = IF s = {} THEN 0 ELSE f[Pick(s)] + h[s \ {Pick(s)}]
    BY <1>4
  <2>3. h = [s \in SUBSET D |-> h[s]]
    BY <1>4
  <2> HIDE DEF h
  <2> DEFINE Bad == {Cardinality(s) : s \in {t \in SUBSET D : h[t] \notin Int}}
  <2>4. Bad = {}
    <3> SUFFICES ASSUME Bad # {} PROVE FALSE
      OBVIOUS
    <3>1. Bad \in SUBSET Nat
      BY FS_Subset, FS_CardinalityType
    <3>2. PICK n \in Bad : \A m \in Bad : n <= m
      <4> HIDE DEF Bad
      <4> QED
        BY <3>1, LeastNat
    <3>3. PICK s \in SUBSET D : h[s] \notin Int /\ n = Cardinality(s)
      BY <3>2
    <3>4. s # {}
      BY <2>2, <3>3
    <3>5. Pick(s) \in s /\ f[Pick(s)] \in Int
      BY <3>4 DEF Pick
    <3> DEFINE t == s \ {Pick(s)}
    <3>6. t \in SUBSET D /\ Cardinality(t) = n - 1 /\ n \in Nat
      BY <3>3, <3>5, Smaller
    <3>7. h[t] \in Int
      <4>1. ASSUME h[t] \notin Int PROVE FALSE
        <5>1. Cardinality(t) \in Bad
          BY <3>6, <4>1
        <5>2. n <= Cardinality(t)
          <6> HIDE DEF t, Bad
          <6> QED
            BY <3>2, <5>1
        <5> QED
          BY <3>6, <5>2
      <4> QED
        BY <4>1
    <3>8. h[s] = f[Pick(s)] + h[t]
      BY <2>2, <3>4
    <3> QED
      BY <3>3, <3>5, <3>7, <3>8
  <2>5. \A s \in SUBSET D : h[s] \in Int
    BY <2>4
  <2>6. h \in [SUBSET D -> Int]
    BY <2>3, <2>5
  <2> QED
    BY <2>2, <2>6 DEF Sums, SumsUpTo
<1> QED
  BY <1>1, <1>5

\* Any element may be the first.
LEMMA SumsAnyOrder ==
  ASSUME NEW D, IsFiniteSet(D), NEW f \in [D -> Int], NEW h, Sums(h, f),
         NEW s0 \in SUBSET D, NEW x0 \in s0
  PROVE  h[s0] = f[x0] + h[s0 \ {x0}]
<1> DEFINE Wrong(s) == \E x \in s : h[s] # f[x] + h[s \ {x}]
           Bad == {Cardinality(s) : s \in {t \in SUBSET D : Wrong(t)}}
<1>1. SUFFICES ASSUME Bad # {} PROVE FALSE
  OBVIOUS
<1>2. Bad \in SUBSET Nat
  BY FS_Subset, FS_CardinalityType
<1>3. PICK n \in Bad : \A m \in Bad : n <= m
  <2> HIDE DEF Bad
  <2> QED
    BY <1>1, <1>2, LeastNat
<1>4. PICK s \in SUBSET D : Wrong(s) /\ n = Cardinality(s)
  BY <1>3
<1>5. PICK x \in s : h[s] # f[x] + h[s \ {x}]
  BY <1>4
<1>6. h \in [SUBSET D -> Int]
  BY DEF Sums, SumsUpTo
<1>7. \A t \in SUBSET D : t # {} => Pick(t) \in t /\ h[t] = f[Pick(t)] + h[t \ {Pick(t)}]
  <2> TAKE t \in SUBSET D
  <2>1. Cardinality(t) <= Cardinality(D)
    BY FS_Subset
  <2> QED
    BY <2>1 DEF Sums, SumsUpTo, Pick
<1> DEFINE y == Pick(s)
<1>8. y \in s /\ h[s] = f[y] + h[s \ {y}] /\ x # y
  BY <1>5, <1>7
<1>9. ASSUME NEW z \in s PROVE ~ Wrong(s \ {z})
  <2>1. s \ {z} \in SUBSET D /\ Cardinality(s \ {z}) = n - 1 /\ n \in Nat
    BY <1>4, Smaller
  <2>2. ASSUME Wrong(s \ {z}) PROVE FALSE
    <3>1. Cardinality(s \ {z}) \in Bad
      BY <2>1, <2>2
    <3> HIDE DEF Bad, Wrong
    <3> QED
      BY <1>3, <2>1, <3>1
  <2> QED
    BY <2>2
<1>10. h[s \ {y}] = f[x] + h[(s \ {y}) \ {x}]
  BY <1>8, <1>9
<1>11. h[s \ {x}] = f[y] + h[(s \ {x}) \ {y}]
  BY <1>8, <1>9
<1>12. (s \ {y}) \ {x} = (s \ {x}) \ {y}
  OBVIOUS
<1>13. /\ f[x] \in Int /\ f[y] \in Int
       /\ h[(s \ {x}) \ {y}] \in Int
  BY <1>6, <1>8
<1> DEFINE rest == h[(s \ {x}) \ {y}]
           without == h[s \ {x}]
<1>14. h[s] = f[y] + (f[x] + rest)
  BY <1>8, <1>10, <1>12
<1>15. without = f[y] + rest /\ rest \in Int
  BY <1>11, <1>13
<1>16. h[s] # f[x] + without
  BY <1>5
<1> HIDE DEF y, rest, without
<1> QED
  BY <1>13, <1>14, <1>15, <1>16

\* The sums of a function over the same elements are the same.
LEMMA SumsAgree ==
  ASSUME NEW D, IsFiniteSet(D), NEW f \in [D -> Int], NEW h, Sums(h, f),
         NEW E \in SUBSET D, NEW g \in [E -> Int], NEW k, Sums(k, g),
         \A x \in E : g[x] = f[x]
  PROVE  k[E] = h[E]
<1> DEFINE Bad == {Cardinality(s) : s \in {t \in SUBSET E : h[t] # k[t]}}
<1>0. IsFiniteSet(E)
  BY FS_Subset
<1>1. SUFFICES ASSUME Bad # {} PROVE FALSE
  OBVIOUS
<1>2. Bad \in SUBSET Nat
  BY <1>0, FS_Subset, FS_CardinalityType
<1>3. PICK n \in Bad : \A m \in Bad : n <= m
  <2> HIDE DEF Bad
  <2> QED
    BY <1>1, <1>2, LeastNat
<1>4. PICK s \in SUBSET E : h[s] # k[s] /\ n = Cardinality(s)
  BY <1>3
<1>5. \A t \in SUBSET E : /\ h[t] = IF t = {} THEN 0 ELSE f[Pick(t)] + h[t \ {Pick(t)}]
                          /\ k[t] = IF t = {} THEN 0 ELSE g[Pick(t)] + k[t \ {Pick(t)}]
  <2> TAKE t \in SUBSET E
  <2>1. Cardinality(t) <= Cardinality(D) /\ Cardinality(t) <= Cardinality(E)
    BY <1>0, FS_Subset
  <2> QED
    BY <2>1 DEF Sums, SumsUpTo
<1>6. s # {}
  BY <1>4, <1>5
<1>7. Pick(s) \in s
  BY <1>6 DEF Pick
<1> DEFINE t == s \ {Pick(s)}
<1>8. t \in SUBSET E /\ Cardinality(t) = n - 1 /\ n \in Nat
  BY <1>0, <1>4, <1>7, Smaller
<1>9. h[t] = k[t]
  <2>1. ASSUME h[t] # k[t] PROVE FALSE
    <3>1. Cardinality(t) \in Bad
      BY <1>8, <2>1
    <3> HIDE DEF Bad, t
    <3> QED
      BY <1>3, <1>8, <3>1
  <2> QED
    BY <2>1
<1> QED
  BY <1>4, <1>5, <1>6, <1>7, <1>9

\* The sum over no element.
LEMMA SumOfNone ==
  ASSUME NEW f \in [{} -> Int] PROVE SumOf(f) = 0
<1>1. IsFiniteSet({}) /\ Cardinality({}) = 0
  BY FS_EmptySet
<1>2. PICK h : Sums(h, f) /\ SumOf(f) = h[{}]
  BY <1>1, SumOfSums
<1>3. h[{}] = IF {} = {} THEN 0 ELSE f[Pick({})] + h[{} \ {Pick({})}]
  <2>1. DOMAIN f = {} /\ {} \in SUBSET DOMAIN f /\ Cardinality({}) <= Cardinality(DOMAIN f)
    BY <1>1
  <2> QED
    BY <1>2, <2>1 DEF Sums, SumsUpTo
<1> QED
  BY <1>2, <1>3

\* The sum over one element more.
LEMMA SumOfMore ==
  ASSUME NEW D, IsFiniteSet(D), NEW f \in [D -> Int], NEW x \in D,
         NEW E \in SUBSET D, \A y \in D : y \in E <=> y # x,
         NEW g \in [E -> Int], \A y \in E : g[y] = f[y]
  PROVE  SumOf(f) \in Int /\ SumOf(g) \in Int /\ SumOf(f) = SumOf(g) + f[x]
<1>1. PICK h : Sums(h, f) /\ SumOf(f) = h[D]
  BY SumOfSums
<1>2. IsFiniteSet(E)
  BY FS_Subset
<1>3. PICK k : Sums(k, g) /\ SumOf(g) = k[E]
  BY <1>2, SumOfSums
<1>4. k[E] = h[E]
  BY <1>1, <1>3, SumsAgree
<1>5. h[D] = f[x] + h[E]
  <2>1. E = D \ {x}
    OBVIOUS
  <2> QED
    BY <1>1, <2>1, SumsAnyOrder
<1>6. h[D] \in Int /\ h[E] \in Int /\ f[x] \in Int
  BY <1>1 DEF Sums, SumsUpTo
<1> QED
  BY <1>1, <1>3, <1>4, <1>5, <1>6

\* A sum of integers is one.
LEMMA SumOfType ==
  ASSUME NEW D, IsFiniteSet(D), NEW f \in [D -> Int] PROVE SumOf(f) \in Int
<1>1. PICK h : Sums(h, f) /\ SumOf(f) = h[D]
  BY SumOfSums
<1> QED
  BY <1>1 DEF Sums, SumsUpTo

\* The sum over one position more.
LEMMA SumOfAppended ==
  \A n \in Nat : \A f, g :
    f \in [1 .. n + 1 -> Int] /\ g \in [1 .. n -> Int] /\ (\A i \in 1 .. n : g[i] = f[i])
    => SumOf(g) \in Int /\ SumOf(f) = SumOf(g) + f[n + 1]
<1> SUFFICES ASSUME NEW n \in Nat, NEW f, NEW g
             PROVE  f \in [1 .. n + 1 -> Int] /\ g \in [1 .. n -> Int]
                      /\ (\A i \in 1 .. n : g[i] = f[i])
                    => SumOf(g) \in Int /\ SumOf(f) = SumOf(g) + f[n + 1]
  OBVIOUS
<1> DEFINE D == 1 .. n + 1
           E == 1 .. n
           x == n + 1
<1>1. IsFiniteSet(D)
  BY FS_Interval
<1>2. x \in D /\ E \in SUBSET D /\ \A y \in D : y \in E <=> y # x
  OBVIOUS
<1> HIDE DEF D, E, x
<1>3. ASSUME f \in [D -> Int] /\ g \in [E -> Int] /\ (\A y \in E : g[y] = f[y])
      PROVE  SumOf(g) \in Int /\ SumOf(f) = SumOf(g) + f[x]
  BY <1>1, <1>2, <1>3, SumOfMore
<1> QED
  BY <1>3 DEF D, E, x

\* The sum of naturals is one, and grows with them.
LEMMA SumOfNaturals ==
  ASSUME NEW D, IsFiniteSet(D), NEW f \in [D -> Nat] PROVE SumOf(f) \in Nat
<1>0. f \in [D -> Int] /\ D = DOMAIN f
  OBVIOUS
<1>1. PICK h : Sums(h, f) /\ SumOf(f) = h[D]
  BY <1>0, SumOfSums
<1> DEFINE Bad == {Cardinality(s) : s \in {t \in SUBSET D : h[t] \notin Nat}}
<1>2. SUFFICES ASSUME Bad # {} PROVE FALSE
  BY <1>1
<1>3. Bad \in SUBSET Nat
  BY FS_Subset, FS_CardinalityType
<1>4. PICK n \in Bad : \A m \in Bad : n <= m
  <2> HIDE DEF Bad
  <2> QED
    BY <1>2, <1>3, LeastNat
<1>5. PICK s \in SUBSET D : h[s] \notin Nat /\ n = Cardinality(s)
  BY <1>4
<1>6. h[s] = IF s = {} THEN 0 ELSE f[Pick(s)] + h[s \ {Pick(s)}]
  <2>1. Cardinality(s) <= Cardinality(D)
    BY FS_Subset
  <2> QED
    BY <1>0, <1>1, <2>1 DEF Sums, SumsUpTo
<1>7. s # {} /\ Pick(s) \in s
  BY <1>5, <1>6 DEF Pick
<1> DEFINE t == s \ {Pick(s)}
<1>8. t \in SUBSET D /\ Cardinality(t) = n - 1 /\ n \in Nat
  BY <1>3, <1>4, <1>5, <1>7, Smaller
<1>9. h[t] \notin Nat
  <2>1. f[Pick(s)] \in Nat
    BY <1>7
  <2> HIDE DEF t
  <2> QED
    BY <1>5, <1>6, <1>7, <2>1 DEF t
<1>10. Cardinality(t) \in Bad
  BY <1>8, <1>9
<1> HIDE DEF Bad, t
<1> QED
  BY <1>4, <1>8, <1>10

\* A sum grows with what it adds.
LEMMA SumOfLess ==
  ASSUME NEW D, IsFiniteSet(D), NEW f \in [D -> Int], NEW g \in [D -> Int],
         \A x \in D : f[x] <= g[x]
  PROVE  SumOf(f) <= SumOf(g)
<1>0. D = DOMAIN f /\ D = DOMAIN g
  OBVIOUS
<1>1. PICK h : Sums(h, f) /\ SumOf(f) = h[D]
  BY SumOfSums
<1>2. PICK k : Sums(k, g) /\ SumOf(g) = k[D]
  BY SumOfSums
<1> DEFINE Bad == {Cardinality(s) : s \in {t \in SUBSET D : ~ (h[t] <= k[t])}}
<1>3. SUFFICES ASSUME Bad # {} PROVE FALSE
  BY <1>1, <1>2
<1>4. Bad \in SUBSET Nat
  BY FS_Subset, FS_CardinalityType
<1>5. PICK n \in Bad : \A m \in Bad : n <= m
  <2> HIDE DEF Bad
  <2> QED
    BY <1>3, <1>4, LeastNat
<1>6. PICK s \in SUBSET D : ~ (h[s] <= k[s]) /\ n = Cardinality(s)
  BY <1>5
<1>7. /\ h[s] = IF s = {} THEN 0 ELSE f[Pick(s)] + h[s \ {Pick(s)}]
      /\ k[s] = IF s = {} THEN 0 ELSE g[Pick(s)] + k[s \ {Pick(s)}]
  <2>1. Cardinality(s) <= Cardinality(D)
    BY FS_Subset
  <2> QED
    BY <1>0, <1>1, <1>2, <2>1 DEF Sums, SumsUpTo
<1>8. s # {}
  BY <1>6, <1>7
<1>9. Pick(s) \in s /\ Pick(s) \in D
  BY <1>8 DEF Pick
<1> DEFINE t == s \ {Pick(s)}
<1>10. t \in SUBSET D /\ Cardinality(t) = n - 1 /\ n \in Nat
  BY <1>4, <1>5, <1>6, <1>9, Smaller
<1>11. h[t] \in Int /\ k[t] \in Int
  BY <1>0, <1>1, <1>2, <1>10 DEF Sums, SumsUpTo
<1>12. ~ (h[t] <= k[t])
  <2>1. f[Pick(s)] <= g[Pick(s)] /\ f[Pick(s)] \in Int /\ g[Pick(s)] \in Int
    BY <1>9
  <2>2. h[s] = f[Pick(s)] + h[t] /\ k[s] = g[Pick(s)] + k[t]
    BY <1>7, <1>8
  <2> HIDE DEF t
  <2> QED
    BY <1>6, <1>11, <2>1, <2>2
<1>13. Cardinality(t) \in Bad
  BY <1>10, <1>12
<1> HIDE DEF Bad, t
<1> QED
  BY <1>5, <1>10, <1>13

\* A sum in which one element changes.
LEMMA SumOfChanged ==
  ASSUME NEW D, IsFiniteSet(D), NEW f \in [D -> Int], NEW g \in [D -> Int], NEW x \in D,
         \A y \in D : y # x => g[y] = f[y]
  PROVE  SumOf(f) \in Int /\ SumOf(g) \in Int /\ SumOf(g) - SumOf(f) = g[x] - f[x]
<1> DEFINE E == D \ {x}
           h == [y \in E |-> f[y]]
<1>1. E \in SUBSET D /\ (\A y \in D : y \in E <=> y # x) /\ h \in [E -> Int]
  OBVIOUS
<1>2. (\A y \in E : h[y] = f[y]) /\ \A y \in E : h[y] = g[y]
  OBVIOUS
<1> HIDE DEF E, h
<1>3. SumOf(f) \in Int /\ SumOf(h) \in Int /\ SumOf(f) = SumOf(h) + f[x]
  BY <1>1, <1>2, SumOfMore
<1>4. SumOf(g) \in Int /\ SumOf(g) = SumOf(h) + g[x]
  BY <1>1, <1>2, SumOfMore
<1>5. f[x] \in Int /\ g[x] \in Int
  OBVIOUS
<1> QED
  BY <1>3, <1>4, <1>5

-----------------------------------------------------------------------------
(* Loops.  A function that is defined by recursion is the loop of the code *)
(* that it stands for: it exists, whether or not the loop ends, and if the *)
(* loop ends it has the value that the loop comes to.                      *)

\* What a loop computes: on its way from x to next[x], it stops with out[x].
IsLoop(f, D, stop, next, out) ==
  f = [x \in D |-> IF x \in stop THEN out[x] ELSE f[next[x]]]

\* A function that is defined by a loop exists, whether or not the loop ends.
LEMMA LoopExists ==
  ASSUME NEW D, NEW stop \in SUBSET D, NEW next \in [D -> D], NEW out
  PROVE  \E f : IsLoop(f, D, stop, next, out)
<1> DEFINE Closed(S) == \A y \in S : y \notin stop => next[y] \in S
           Reaches(x, t) == \A S \in SUBSET D : x \in S /\ Closed(S) => t \in S
           Ends(x) == {t \in stop : Reaches(x, t)}
           value(S) == out[CHOOSE t : t \in S]
           f == [x \in D |-> value(Ends(x))]
<1>1. ASSUME NEW x \in stop PROVE Ends(x) = {x}
  <2>1. Reaches(x, x)
    OBVIOUS
  <2>2. {x} \in SUBSET D /\ Closed({x})
    OBVIOUS
  <2>3. \A t : Reaches(x, t) => t = x
    BY <2>2
  <2> HIDE DEF Reaches
  <2> QED
    BY <2>1, <2>3
<1>2. ASSUME NEW x \in D, x \notin stop PROVE Ends(x) = Ends(next[x])
  <2>1. ASSUME NEW t \in stop, Reaches(x, t) PROVE Reaches(next[x], t)
    <3> SUFFICES ASSUME NEW S \in SUBSET D, next[x] \in S, Closed(S) PROVE t \in S
      OBVIOUS
    <3>1. S \cup {x} \in SUBSET D /\ x \in S \cup {x} /\ Closed(S \cup {x})
      OBVIOUS
    <3>2. t \in S \cup {x}
      BY <2>1, <3>1
    <3>3. t # x
      BY <1>2
    <3> QED
      BY <3>2, <3>3
  <2>2. ASSUME NEW t \in stop, Reaches(next[x], t) PROVE Reaches(x, t)
    <3> SUFFICES ASSUME NEW S \in SUBSET D, x \in S, Closed(S) PROVE t \in S
      OBVIOUS
    <3>1. next[x] \in S
      BY <1>2
    <3> QED
      BY <2>2, <3>1
  <2> HIDE DEF Reaches
  <2> QED
    BY <2>1, <2>2
<1>3. ASSUME NEW x \in stop PROVE value(Ends(x)) = out[x]
  <2> HIDE DEF Ends
  <2>1. (CHOOSE t : t \in {x}) = x
    OBVIOUS
  <2> QED
    BY <1>1, <2>1
<1> HIDE DEF Ends, value
<1>4. ASSUME NEW x \in D PROVE f[x] = IF x \in stop THEN out[x] ELSE f[next[x]]
  <2>1. CASE x \in stop
    BY <1>3, <2>1
  <2>2. CASE x \notin stop
    <3>1. next[x] \in D
      OBVIOUS
    <3> QED
      BY <1>2, <2>2, <3>1
  <2> QED
    BY <2>1, <2>2
<1>5. f = [x \in D |-> IF x \in stop THEN out[x] ELSE f[next[x]]]
  <2>1. f = [x \in D |-> f[x]]
    OBVIOUS
  <2> HIDE DEF f
  <2> QED
    BY <1>4, <2>1
<1> QED
  BY <1>5 DEF IsLoop

\* A loop that keeps within P and lets a measure decrease ends in P.
LEMMA LoopEnds ==
  ASSUME NEW D, NEW stop \in SUBSET D, NEW next \in [D -> D], NEW out, NEW f,
         IsLoop(f, D, stop, next, out),
         NEW P \in SUBSET D, NEW measure \in [P -> Nat],
         \A x \in P : x \notin stop => next[x] \in P /\ measure[next[x]] < measure[x]
  PROVE  \A x \in P : \E t \in P : t \in stop /\ f[x] = out[t]
<1> DEFINE Ends(x) == \E t \in P : t \in stop /\ f[x] = out[t]
           Bad == {measure[x] : x \in {y \in P : ~ Ends(y)}}
<1> SUFFICES ASSUME Bad # {} PROVE FALSE
  OBVIOUS
<1>1. PICK least \in Bad : \A n \in Bad : least <= n
  <2>1. Bad \in SUBSET Nat
    OBVIOUS
  <2> HIDE DEF Bad
  <2> QED
    BY <2>1, LeastNat
<1>2. PICK x \in P : ~ Ends(x) /\ least = measure[x]
  BY <1>1
<1>3. f[x] = IF x \in stop THEN out[x] ELSE f[next[x]]
  BY DEF IsLoop
<1>4. CASE x \in stop
  BY <1>2, <1>3, <1>4
<1>5. CASE x \notin stop
  <2>1. next[x] \in P /\ measure[next[x]] < measure[x] /\ f[x] = f[next[x]]
    BY <1>3, <1>5
  <2>2. ~ Ends(next[x])
    BY <1>2, <2>1
  <2>3. measure[next[x]] \in Bad
    BY <2>1, <2>2
  <2>4. measure[next[x]] \in Nat /\ measure[x] \in Nat
    BY <2>1
  <2> HIDE DEF Bad
  <2> QED
    BY <1>1, <1>2, <2>1, <2>3, <2>4
<1> QED
  BY <1>4, <1>5

-----------------------------------------------------------------------------
(* The site.                                                               *)

\* The nodes are numbers, and their kinds do not overlap.
LEMMA SiteFacts ==
  /\ IsFiniteSet(Components) /\ IsFiniteSet(Connections)
  /\ \A c \in Components : c \in 1 .. 250
  /\ \A k \in Connections : /\ k \in 1 .. 500
                            /\ connection[k].from_component \in Components
                            /\ connection[k].to_component \in Components
                            /\ connection[k].capacity_w \in Nat
  /\ \A c \in Components : component[c].capacity_w \in Nat
  /\ Loads \subseteq Components
<1>1. \A n \in Nat : IsFiniteSet(1 .. n)
  BY FS_Interval
<1>2. IsFiniteSet(Components) /\ IsFiniteSet(Connections)
  <2>1. MAX_COMPONENTS \in Nat /\ MAX_CONNECTIONS \in Nat
    BY DEF MAX_COMPONENTS, MAX_CONNECTIONS
  <2>2. Components \in SUBSET (1 .. MAX_COMPONENTS) /\ Connections \in SUBSET (1 .. MAX_CONNECTIONS)
    BY SnapshotAssumption
  <2> QED
    BY <1>1, <2>1, <2>2, FS_Subset
<1>3. \A c \in Components : component[c].capacity_w \in Nat
  BY SnapshotAssumption DEF ParsedComponent, Component
<1>4. \A k \in Connections : connection[k] \in Connection
  BY SnapshotAssumption
<1> QED
  BY <1>2, <1>3, <1>4, SnapshotAssumption DEF Connection, Loads, OfKind, MAX_COMPONENTS, MAX_CONNECTIONS

-----------------------------------------------------------------------------
(* The layers.                                                             *)

\* The nodes that have been found, in disjoint layers: each node but the sink has an arc to
\* the next layer, and every arc that leads to a layer behind the first comes from a layer.
Layering(arcs, found) ==
  /\ found \in Seq(SUBSET Nat)
  /\ Len(found) > 0
  /\ found[Len(found)] = {Sink}
  /\ \A i, j \in 1 .. Len(found) : i # j => found[i] \cap found[j] = {}
  /\ \A i \in 1 .. Len(found) - 1 : \A n \in found[i] : \E m \in found[i + 1] : <<n, m>> \in arcs
  /\ \A i \in 2 .. Len(found) : Source \notin found[i]
  /\ \A i \in 2 .. Len(found) : \A a \in arcs : a[2] \in found[i] => a[1] \in UNION Range(found)

\* A set of nodes with the sink and without the source that no arc enters.
Cut(arcs, nodes) ==
  /\ Sink \in nodes /\ Source \notin nodes
  /\ \A a \in arcs : a[2] \in nodes => a[1] \in nodes

LayerBefore(arcs, found) == {a[1] : a \in {b \in arcs : b[2] \in Head(found)}} \ UNION Range(found)

\* One layer more.
LEMMA LayerAdded ==
  ASSUME NEW arcs \in SUBSET (Nat \X Nat), NEW found, Layering(arcs, found),
         Source \notin Head(found), LayerBefore(arcs, found) # {}
  PROVE  /\ Layering(arcs, <<LayerBefore(arcs, found)>> \o found)
         /\ LayerBefore(arcs, found) \subseteq UNION Range(<<LayerBefore(arcs, found)>> \o found)
         /\ UNION Range(found) \subseteq UNION Range(<<LayerBefore(arcs, found)>> \o found)
<1> DEFINE B == LayerBefore(arcs, found)
           n == Len(found)
           L == <<B>> \o found
<1>1. n \in Nat /\ n > 0 /\ found \in Seq(SUBSET Nat) /\ Head(found) = found[1]
  BY DEF Layering
<1>2. B \in SUBSET Nat
  BY DEF LayerBefore
<1>3. <<B>> \in Seq(SUBSET Nat) /\ Len(<<B>>) = 1 /\ <<B>>[1] = B
  BY <1>2
<1>4. /\ L \in Seq(SUBSET Nat) /\ Len(L) = n + 1
      /\ L[1] = B
      /\ \A i \in 1 .. n : L[i + 1] = found[i]
  BY <1>1, <1>3
<1>5. /\ \A i \in 1 .. n : found[i] \subseteq UNION Range(found)
      /\ UNION Range(found) \subseteq UNION Range(L)
      /\ B \subseteq UNION Range(L)
  <2>1. DOMAIN found = 1 .. n /\ DOMAIN L = 1 .. n + 1
    BY <1>1, <1>4
  <2>2. \A i \in 1 .. n : i + 1 \in 1 .. n + 1
    BY <1>1
  <2>3. 1 \in 1 .. n + 1
    BY <1>1
  <2> HIDE DEF L, B, n
  <2>4. \A i \in 1 .. n : found[i] \in Range(found) /\ found[i] \in Range(L)
    BY <2>1, <2>2, <1>4 DEF Range
  <2>5. B \in Range(L)
    BY <2>1, <2>3, <1>4 DEF Range
  <2>6. ASSUME NEW S \in Range(found) PROVE S \in Range(L)
    BY <2>1, <2>4, <2>6 DEF Range
  <2> QED
    BY <2>4, <2>5, <2>6
<1>6. B \cap UNION Range(found) = {}
  BY DEF LayerBefore
<1> HIDE DEF L
<1>7. \A i \in 2 .. n + 1 : i - 1 \in 1 .. n /\ L[i] = found[i - 1]
  <2> TAKE i \in 2 .. n + 1
  <2>1. i - 1 \in 1 .. n /\ (i - 1) + 1 = i
    BY <1>1
  <2> QED
    BY <2>1, <1>4
<1>8. L[n + 1] = {Sink}
  BY <1>1, <1>7 DEF Layering
<1>9. \A i, j \in 1 .. n + 1 : i # j => L[i] \cap L[j] = {}
  <2>1. ASSUME NEW i \in 2 .. n + 1 PROVE L[i] \cap B = {}
    BY <1>5, <1>6, <1>7
  <2>2. ASSUME NEW i \in 2 .. n + 1, NEW j \in 2 .. n + 1, i # j PROVE L[i] \cap L[j] = {}
    <3>1. i - 1 \in 1 .. n /\ j - 1 \in 1 .. n /\ i - 1 # j - 1
      BY <2>2, <1>1
    <3> QED
      BY <3>1, <1>7 DEF Layering
  <2>3. \A i \in 1 .. n + 1 : i = 1 \/ i \in 2 .. n + 1
    BY <1>1
  <2> QED
    BY <2>1, <2>2, <2>3, <1>4
<1>10. ASSUME NEW i \in 1 .. n, NEW x \in L[i] PROVE \E m \in L[i + 1] : <<x, m>> \in arcs
  <2>1. CASE i = 1
    <3>1. PICK a \in arcs : a[2] \in Head(found) /\ x = a[1]
      BY <2>1, <1>4 DEF LayerBefore
    <3>2. a = <<a[1], a[2]>> /\ L[2] = found[1]
      BY <1>1, <1>4
    <3> QED
      BY <2>1, <3>1, <3>2, <1>1
  <2>2. CASE i # 1
    <3>1. i \in 2 .. n + 1 /\ i - 1 \in 1 .. n - 1 /\ (i - 1) + 1 = i /\ i \in 1 .. n
      BY <2>2, <1>1
    <3>2. L[i] = found[i - 1] /\ L[i + 1] = found[(i - 1) + 1]
      BY <3>1, <1>4, <1>7
    <3> QED
      BY <3>1, <3>2 DEF Layering
  <2> QED
    BY <2>1, <2>2
<1>11. ASSUME NEW i \in 2 .. n + 1
       PROVE  Source \notin L[i] /\ \A a \in arcs : a[2] \in L[i] => a[1] \in UNION Range(L)
  <2>1. CASE i = 2
    <3>1. L[i] = Head(found)
      BY <1>1, <1>7, <2>1
    <3>2. ASSUME NEW a \in arcs, a[2] \in Head(found) PROVE a[1] \in UNION Range(L)
      <4>1. a[1] \in B \/ a[1] \in UNION Range(found)
        BY <3>2 DEF LayerBefore
      <4> QED
        BY <4>1, <1>5
    <3> QED
      BY <3>1, <3>2
  <2>2. CASE i # 2
    <3>1. i - 1 \in 2 .. n /\ L[i] = found[i - 1]
      BY <1>1, <1>7, <2>2
    <3> QED
      BY <3>1, <1>5 DEF Layering
  <2> QED
    BY <2>1, <2>2
<1>12. Len(L) > 0 /\ Len(L) = n + 1 /\ (n + 1) - 1 = n
  BY <1>1, <1>4
<1>13. Layering(arcs, L)
  <2> HIDE DEF n, B
  <2> QED
    BY <1>4, <1>8, <1>9, <1>10, <1>11, <1>12 DEF Layering
<1> QED
  BY <1>5, <1>13 DEF L, B

\* The nodes, and others.
Nodes == 0 .. 4000

\* They are finitely many numbers.
LEMMA NodeFacts == Nodes \subseteq Nat /\ IsFiniteSet(Nodes)
<1>1. PICK n \in Nat : n = 4000
  OBVIOUS
<1>2. IsFiniteSet(0 .. n)
  BY FS_Interval
<1> QED
  BY <1>1, <1>2 DEF Nodes

\* The loop of Layers.
LayerSearch(arcs) ==
  CHOOSE g : g = [L \in Seq(SUBSET Nat) |->
                    IF Source \in Head(L) THEN L
                    ELSE IF LayerBefore(arcs, L) = {} THEN << >>
                    ELSE g[<<LayerBefore(arcs, L)>> \o L]]

LayerStops(arcs) ==
  {L \in Seq(SUBSET Nat) : Source \in Head(L) \/ LayerBefore(arcs, L) = {}}

LayerNext(arcs) == [L \in Seq(SUBSET Nat) |-> <<LayerBefore(arcs, L)>> \o L]

LayerOut == [L \in Seq(SUBSET Nat) |-> IF Source \in Head(L) THEN L ELSE << >>]

\* It is one.
LEMMA LayerSearchIsLoop ==
  ASSUME NEW arcs \in SUBSET (Nat \X Nat)
  PROVE  /\ IsLoop(LayerSearch(arcs), Seq(SUBSET Nat), LayerStops(arcs), LayerNext(arcs), LayerOut)
         /\ LayerNext(arcs) \in [Seq(SUBSET Nat) -> Seq(SUBSET Nat)]
         /\ LayerStops(arcs) \in SUBSET Seq(SUBSET Nat)
<1> DEFINE D == Seq(SUBSET Nat)
           stop == LayerStops(arcs)
           next == LayerNext(arcs)
           Loop(g) == g = [L \in D |-> IF Source \in Head(L) THEN L
                                       ELSE IF LayerBefore(arcs, L) = {} THEN << >>
                                       ELSE g[<<LayerBefore(arcs, L)>> \o L]]
<1>1. next \in [D -> D] /\ stop \in SUBSET D
  <2>1. ASSUME NEW L \in D PROVE <<LayerBefore(arcs, L)>> \o L \in D
    <3>1. LayerBefore(arcs, L) \in SUBSET Nat
      BY DEF LayerBefore
    <3>2. <<LayerBefore(arcs, L)>> \in Seq(SUBSET Nat)
      BY <3>1
    <3> QED
      BY <3>2
  <2> QED
    BY <2>1 DEF LayerNext, LayerStops
<1>2. \A g : Loop(g) <=> IsLoop(g, D, stop, next, LayerOut)
  <2> TAKE g
  <2>1. [L \in D |-> IF Source \in Head(L) THEN L
                     ELSE IF LayerBefore(arcs, L) = {} THEN << >>
                     ELSE g[<<LayerBefore(arcs, L)>> \o L]]
          = [x \in D |-> IF x \in stop THEN LayerOut[x] ELSE g[next[x]]]
    <3> SUFFICES ASSUME NEW L \in D
                 PROVE  (IF Source \in Head(L) THEN L
                         ELSE IF LayerBefore(arcs, L) = {} THEN << >>
                         ELSE g[<<LayerBefore(arcs, L)>> \o L])
                        = IF L \in stop THEN LayerOut[L] ELSE g[next[L]]
      BY Zenon
    <3> QED
      BY DEF LayerNext, LayerStops, LayerOut
  <2> QED
    BY <2>1 DEF IsLoop
<1>3. \E g : IsLoop(g, D, stop, next, LayerOut)
  <2> HIDE DEF D, stop, next
  <2> QED
    BY <1>1, LoopExists
<1>4. Loop(LayerSearch(arcs))
  <2>1. LayerSearch(arcs) = CHOOSE g : Loop(g)
    BY DEF LayerSearch
  <2> HIDE DEF Loop
  <2> QED
    BY <1>2, <1>3, <2>1
<1> HIDE DEF Loop
<1> QED
  BY <1>1, <1>2, <1>4

\* One turn of it.
LEMMA LayerStep ==
  ASSUME NEW arcs \in SUBSET (Nat \X Nat), NEW L \in Seq(SUBSET Nat)
  PROVE  LayerSearch(arcs)[L] = IF Source \in Head(L) THEN L
                                ELSE IF LayerBefore(arcs, L) = {} THEN << >>
                                ELSE LayerSearch(arcs)[<<LayerBefore(arcs, L)>> \o L]
<1>1. LayerSearch(arcs)[L]
        = IF L \in LayerStops(arcs) THEN LayerOut[L] ELSE LayerSearch(arcs)[LayerNext(arcs)[L]]
  BY LayerSearchIsLoop DEF IsLoop
<1>2. L \in LayerStops(arcs) <=> Source \in Head(L) \/ LayerBefore(arcs, L) = {}
  BY DEF LayerStops
<1>3. LayerOut[L] = IF Source \in Head(L) THEN L ELSE << >>
  BY DEF LayerOut
<1>4. LayerNext(arcs)[L] = <<LayerBefore(arcs, L)>> \o L
  BY DEF LayerNext
<1> QED
  BY <1>1, <1>2, <1>3, <1>4

\* What each layer keeps of the layers behind it.
LayersKeep(arcs, P) ==
  /\ P \in SUBSET Seq(SUBSET Nat) /\ <<{Sink}>> \in P
  /\ \A L \in P : Layering(arcs, L)
  /\ \A L \in P : Source \notin Head(L) /\ LayerBefore(arcs, L) # {}
                  => <<LayerBefore(arcs, L)>> \o L \in P

\* The search from the sink ends, and keeps it.
LEMMA LayersEnd ==
  ASSUME NEW arcs \in SUBSET (Nodes \X Nodes), NEW P, LayersKeep(arcs, P)
  PROVE  \E L \in P : /\ Source \in Head(L) \/ LayerBefore(arcs, L) = {}
                      /\ Layers(arcs) = IF Source \in Head(L) THEN L ELSE << >>
<1> DEFINE D == Seq(SUBSET Nat)
           stop == LayerStops(arcs)
           next == LayerNext(arcs)
           f == LayerSearch(arcs)
           first == <<{Sink}>>
           left(L) == Nodes \ UNION Range(L)
           measure == [L \in P |-> Cardinality(left(L))]
<1>0. arcs \in SUBSET (Nat \X Nat)
  BY NodeFacts
<1>1. Layers(arcs) = f[first]
  BY DEF Layers, LayerBefore, LayerSearch
<1>2. IsLoop(f, D, stop, next, LayerOut) /\ next \in [D -> D] /\ stop \in SUBSET D
  BY <1>0, LayerSearchIsLoop
<1>3. P \in SUBSET D /\ first \in P /\ \A L \in P : Layering(arcs, L)
  BY DEF LayersKeep
<1>6. IsFiniteSet(Nodes)
  BY NodeFacts
<1>7. measure \in [P -> Nat]
  <2> SUFFICES ASSUME NEW L \in P PROVE Cardinality(left(L)) \in Nat
    OBVIOUS
  <2> QED
    BY <1>6, FS_Subset, FS_CardinalityType
<1>8. ASSUME NEW L \in P, L \notin stop PROVE next[L] \in P /\ measure[next[L]] < measure[L]
  <2> DEFINE M == <<LayerBefore(arcs, L)>> \o L
  <2>1. Source \notin Head(L) /\ LayerBefore(arcs, L) # {} /\ Layering(arcs, L) /\ L \in D
    BY <1>3, <1>8 DEF LayerStops
  <2>2. /\ Layering(arcs, M) /\ LayerBefore(arcs, L) \subseteq UNION Range(M)
        /\ UNION Range(L) \subseteq UNION Range(M)
    BY <1>0, <2>1, LayerAdded
  <2>3. next[L] = M /\ M \in P
    BY <2>1 DEF LayerNext, LayersKeep
  <2>4. PICK x \in LayerBefore(arcs, L) : TRUE
    BY <2>1
  <2>5. x \in left(L) /\ x \notin left(M)
    <3>1. x \notin UNION Range(L)
      BY <2>4 DEF LayerBefore
    <3>2. x \in Nodes
      BY <2>4 DEF LayerBefore
    <3>3. x \in UNION Range(M)
      BY <2>2, <2>4
    <3> QED
      BY <3>1, <3>2, <3>3
  <2>6. left(M) \in SUBSET left(L) /\ IsFiniteSet(left(L)) /\ left(M) # left(L)
    BY <2>2, <2>5, <1>6, FS_Subset
  <2>7. measure[next[L]] = Cardinality(left(M)) /\ measure[L] = Cardinality(left(L))
    BY <2>3
  <2> HIDE DEF left, measure, M, next
  <2>8. Cardinality(left(M)) < Cardinality(left(L))
    <3>1. /\ Cardinality(left(M)) <= Cardinality(left(L))
          /\ Cardinality(left(M)) # Cardinality(left(L))
          /\ IsFiniteSet(left(M))
      BY <2>6, FS_Subset
    <3>2. Cardinality(left(M)) \in Nat /\ Cardinality(left(L)) \in Nat
      BY <2>6, <3>1, FS_CardinalityType
    <3> QED
      BY <3>1, <3>2
  <2> QED
    BY <2>3, <2>7, <2>8
<1>10. PICK L \in P : L \in stop /\ f[first] = LayerOut[L]
  <2>1. \A x \in P : x \notin stop => next[x] \in P /\ measure[next[x]] < measure[x]
    BY <1>8
  <2>3. P \in SUBSET D /\ next \in [D -> D] /\ stop \in SUBSET D
    BY <1>2, <1>3
  <2>4. IsLoop(f, D, stop, next, LayerOut) /\ measure \in [P -> Nat]
    BY <1>2, <1>7
  <2> HIDE DEF D, stop, next, measure, f, first, left
  <2>2. \A x \in P : \E t \in P : t \in stop /\ f[x] = LayerOut[t]
    BY <2>1, <2>3, <2>4, LoopEnds
  <2> QED
    BY <1>3, <2>2
<1>11. L \in D /\ LayerOut[L] = IF Source \in Head(L) THEN L ELSE << >>
  BY <1>3 DEF LayerOut
<1>12. Source \in Head(L) \/ LayerBefore(arcs, L) = {}
  BY <1>10 DEF LayerStops
<1> HIDE DEF D, f, first
<1> QED
  BY <1>1, <1>10, <1>11, <1>12

\* The first layer.
LEMMA FirstLayer ==
  \A arcs : <<{Sink}>> \in Seq(SUBSET Nat) /\ Layering(arcs, <<{Sink}>>)
<1> TAKE arcs
<1> DEFINE first == <<{Sink}>>
<1>1. first \in Seq(SUBSET Nat) /\ Len(first) = 1 /\ first[1] = {Sink}
  BY DEF Sink
<1> HIDE DEF first
<1>2. Layering(arcs, first)
  BY <1>1 DEF Layering
<1> QED
  BY <1>1, <1>2 DEF first

\* It ends with the layers of the nodes up to the source, or with a cut that no arc crosses.
LEMMA LayersFound ==
  ASSUME NEW arcs \in SUBSET (Nodes \X Nodes)
  PROVE  \/ Layering(arcs, Layers(arcs)) /\ Source \in Head(Layers(arcs))
         \/ Layers(arcs) = << >> /\ \E nodes : Cut(arcs, nodes)
<1> DEFINE P == {L \in Seq(SUBSET Nat) : Layering(arcs, L)}
<1>0. arcs \in SUBSET (Nat \X Nat)
  BY NodeFacts
<1>1. PICK L \in P : /\ Source \in Head(L) \/ LayerBefore(arcs, L) = {}
                     /\ Layers(arcs) = IF Source \in Head(L) THEN L ELSE << >>
  <2>1. ASSUME NEW L \in P, Source \notin Head(L), LayerBefore(arcs, L) # {}
        PROVE  <<LayerBefore(arcs, L)>> \o L \in P
    <3> DEFINE M == <<LayerBefore(arcs, L)>> \o L
    <3>1. Layering(arcs, M)
      BY <1>0, <2>1, LayerAdded
    <3> HIDE DEF M
    <3>2. M \in P
      BY <3>1 DEF Layering
    <3> QED
      BY <3>2 DEF M
  <2>2. <<{Sink}>> \in P
    BY FirstLayer
  <2> HIDE DEF P
  <2>3. P \in SUBSET Seq(SUBSET Nat) /\ \A L \in P : Layering(arcs, L)
    BY DEF P
  <2> QED
    BY <2>1, <2>2, <2>3, LayersEnd DEF LayersKeep
<1>11. Layering(arcs, L) /\ Layers(arcs) = IF Source \in Head(L) THEN L ELSE << >>
  BY <1>1
<1>12. CASE Source \in Head(L)
  BY <1>11, <1>12
<1>13. CASE Source \notin Head(L)
  <2> DEFINE n == Len(L)
             nodes == UNION Range(L)
  <2>1. LayerBefore(arcs, L) = {}
    BY <1>1, <1>13
  <2>2. n \in Nat /\ n > 0 /\ DOMAIN L = 1 .. n /\ Head(L) = L[1]
    BY <1>11 DEF Layering
  <2>3. \A x : x \in nodes <=> \E i \in 1 .. n : x \in L[i]
    <3> HIDE DEF n
    <3> QED
      BY <2>2 DEF Range
  <2> HIDE DEF nodes
  <2>4. Sink \in nodes
    <3>1. n \in 1 .. n /\ Sink \in L[n]
      BY <2>2, <1>11 DEF Layering
    <3> QED
      BY <2>3, <3>1
  <2>5. \A i \in 1 .. n : i = 1 \/ i \in 2 .. n
    BY <2>2
  <2>6. Source \notin nodes
    BY <1>11, <1>13, <2>2, <2>3, <2>5 DEF Layering
  <2>7. ASSUME NEW a \in arcs, a[2] \in nodes PROVE a[1] \in nodes
    <3>1. PICK i \in 1 .. n : a[2] \in L[i]
      BY <2>3, <2>7
    <3>2. CASE i = 1
      BY <2>1, <2>2, <3>1, <3>2 DEF LayerBefore, nodes
    <3>3. CASE i \in 2 .. n
      BY <1>11, <3>1, <3>3 DEF Layering, nodes
    <3> QED
      BY <2>5, <3>2, <3>3
  <2>8. Cut(arcs, nodes)
    BY <2>4, <2>6, <2>7 DEF Cut
  <2> QED
    BY <1>11, <1>13, <2>8
<1> QED
  BY <1>12, <1>13

-----------------------------------------------------------------------------
(* The augmenting path.                                                    *)

ArcsOf(path) == {<<path[i], path[i + 1]>> : i \in 1 .. Len(path) - 1}

\* A path from the source to the sink that visits no node twice.
IsPath(arcs, path) ==
  /\ path \in Seq(Nat)
  /\ Len(path) > 1
  /\ path[1] = Source /\ path[Len(path)] = Sink
  /\ \A i, j \in 1 .. Len(path) : i # j => path[i] # path[j]
  /\ \A i \in 1 .. Len(path) - 1 : <<path[i], path[i + 1]>> \in arcs

\* A path through the first layers.
Through(arcs, layers, path) ==
  /\ path \in Seq(Nat)
  /\ Len(path) \in 1 .. Len(layers)
  /\ path[1] = Source
  /\ \A i \in 1 .. Len(path) : path[i] \in layers[i]
  /\ \A i \in 1 .. Len(path) - 1 : <<path[i], path[i + 1]>> \in arcs

NodesAhead(arcs, layers, path) ==
  IF Len(path) >= Len(layers) THEN {}
  ELSE {m \in layers[Len(path) + 1] : <<Last(path), m>> \in arcs}

\* One node more.
LEMMA PathExtended ==
  ASSUME NEW arcs, NEW layers, Layering(arcs, layers), NEW path, Through(arcs, layers, path),
         NEW m \in NodesAhead(arcs, layers, path)
  PROVE  /\ Through(arcs, layers, Append(path, m))
         /\ Len(Append(path, m)) = Len(path) + 1 /\ Len(path) < Len(layers)
<1> DEFINE n == Len(path)
           longer == Append(path, m)
<1>1. /\ path \in Seq(Nat) /\ n \in Nat /\ n > 0 /\ layers \in Seq(SUBSET Nat)
      /\ Len(layers) \in Nat
  BY DEF Through, Layering
<1>2. n < Len(layers) /\ m \in layers[n + 1] /\ <<path[n], m>> \in arcs
  BY <1>1 DEF NodesAhead, Last
<1>3. m \in Nat
  <2>1. n + 1 \in 1 .. Len(layers)
    BY <1>1, <1>2
  <2> QED
    BY <1>1, <1>2, <2>1
<1>4. /\ longer \in Seq(Nat) /\ Len(longer) = n + 1
      /\ longer[n + 1] = m
      /\ \A i \in 1 .. n : longer[i] = path[i]
  BY <1>1, <1>3
<1> HIDE DEF longer
<1>5. longer[1] = Source
  <2>1. 1 \in 1 .. n
    BY <1>1
  <2> QED
    BY <1>4, <2>1 DEF Through
<1>6. \A i \in 1 .. n + 1 : longer[i] \in layers[i]
  <2>1. \A i \in 1 .. n + 1 : i \in 1 .. n \/ i = n + 1
    BY <1>1
  <2> QED
    BY <1>2, <1>4, <2>1 DEF Through
<1>7. \A i \in 1 .. n : <<longer[i], longer[i + 1]>> \in arcs
  <2> TAKE i \in 1 .. n
  <2>1. CASE i = n
    BY <1>1, <1>2, <1>4, <2>1
  <2>2. CASE i # n
    <3>1. i \in 1 .. n - 1 /\ i + 1 \in 1 .. n
      BY <1>1, <2>2
    <3> QED
      BY <1>4, <3>1 DEF Through
  <2> QED
    BY <2>1, <2>2
<1>8. n + 1 \in 1 .. Len(layers) /\ (n + 1) - 1 = n
  BY <1>1, <1>2
<1>9. Through(arcs, layers, longer)
  BY <1>4, <1>5, <1>6, <1>7, <1>8 DEF Through
<1> QED
  BY <1>2, <1>4, <1>9 DEF longer

\* A path that has nothing ahead has come to the sink.
LEMMA PathEnds ==
  ASSUME NEW arcs, NEW layers, Layering(arcs, layers), NEW path, Through(arcs, layers, path),
         NodesAhead(arcs, layers, path) = {}
  PROVE  IsPath(arcs, path)
<1> DEFINE n == Len(path)
<1>1. /\ path \in Seq(Nat) /\ n \in Nat /\ n > 0 /\ layers \in Seq(SUBSET Nat)
      /\ Len(layers) \in Nat /\ n <= Len(layers)
  BY DEF Through, Layering
<1>2. n = Len(layers)
  <2> SUFFICES ASSUME n < Len(layers) PROVE FALSE
    BY <1>1
  <2>1. n \in 1 .. Len(layers) - 1 /\ n \in 1 .. n
    BY <1>1
  <2>2. PICK m \in layers[n + 1] : <<path[n], m>> \in arcs
    BY <2>1 DEF Through, Layering
  <2> QED
    BY <1>1, <2>2 DEF NodesAhead, Last
<1>3. path[n] = Sink /\ path[1] = Source
  <2>1. n \in 1 .. n
    BY <1>1
  <2> QED
    BY <1>2, <2>1 DEF Through, Layering
<1>4. n > 1
  BY <1>1, <1>3 DEF Source, Sink
<1>5. ASSUME NEW i \in 1 .. n, NEW j \in 1 .. n, i # j PROVE path[i] # path[j]
  <2>1. layers[i] \cap layers[j] = {} /\ path[i] \in layers[i] /\ path[j] \in layers[j]
    BY <1>2, <1>5 DEF Through, Layering
  <2> QED
    BY <2>1
<1> QED
  BY <1>1, <1>3, <1>4, <1>5 DEF IsPath, Through

\* The walk through the layers ends with a path.
LEMMA PathFound ==
  ASSUME NEW arcs \in SUBSET (Nodes \X Nodes)
  PROVE  \/ AugmentingPath(arcs) = {} /\ \E nodes : Cut(arcs, nodes)
         \/ \E path : IsPath(arcs, path) /\ AugmentingPath(arcs) = ArcsOf(path)
<1> DEFINE layers == Layers(arcs)
           D    == Seq(Nat)
           stop == {p \in D : NodesAhead(arcs, layers, p) = {}}
           next == [p \in D |-> IF p \in stop THEN p
                                ELSE Append(p, Min(NodesAhead(arcs, layers, p)))]
           out  == [p \in D |-> ArcsOf(p)]
           Loop(g) == g = [p \in D |-> IF NodesAhead(arcs, layers, p) = {} THEN ArcsOf(p)
                                       ELSE g[Append(p, Min(NodesAhead(arcs, layers, p)))]]
           f == CHOOSE g : Loop(g)
           first == <<Source>>
<1>1. \/ Layering(arcs, layers) /\ Source \in Head(layers)
      \/ layers = << >> /\ \E nodes : Cut(arcs, nodes)
  BY LayersFound
<1>2. layers \in Seq(SUBSET Nat)
  <2>1. << >> \in Seq(SUBSET Nat)
    OBVIOUS
  <2>2. Layering(arcs, layers) => layers \in Seq(SUBSET Nat)
    BY Zenon DEF Layering
  <2> HIDE DEF layers
  <2> QED
    BY <1>1, <2>1, <2>2
<1>3. AugmentingPath(arcs) = f[first]
  BY <1>2 DEF AugmentingPath, NodesAhead, ArcsOf
<1> HIDE DEF layers
<1>4. ASSUME NEW p \in D, p \notin stop
      PROVE  Min(NodesAhead(arcs, layers, p)) \in NodesAhead(arcs, layers, p) /\ Append(p, Min(NodesAhead(arcs, layers, p))) \in D
  <2>1. NodesAhead(arcs, layers, p) \in SUBSET Nat /\ NodesAhead(arcs, layers, p) # {}
    <3>1. NodesAhead(arcs, layers, p) # {} /\ Len(p) \in Nat /\ Len(layers) \in Nat
      BY <1>2, <1>4
    <3>2. Len(p) < Len(layers)
      <4>1. Len(p) >= Len(layers) => NodesAhead(arcs, layers, p) = {}
        BY DEF NodesAhead
      <4> HIDE DEF stop
      <4> QED
        BY <3>1, <4>1
    <3>3. layers[Len(p) + 1] \in SUBSET Nat
      BY <1>2, <3>1, <3>2
    <3> QED
      BY <3>1, <3>3 DEF NodesAhead
  <2>2. Min(NodesAhead(arcs, layers, p)) \in NodesAhead(arcs, layers, p)
    BY <2>1, LeastNat, MinOfSet
  <2> QED
    BY <2>1, <2>2
<1>5. next \in [D -> D] /\ stop \in SUBSET D
  BY <1>4
<1>6. \A g : Loop(g) <=> IsLoop(g, D, stop, next, out)
  <2> TAKE g
  <2>1. [p \in D |-> IF NodesAhead(arcs, layers, p) = {} THEN ArcsOf(p)
                     ELSE g[Append(p, Min(NodesAhead(arcs, layers, p)))]]
          = [p \in D |-> IF p \in stop THEN out[p] ELSE g[next[p]]]
    OBVIOUS
  <2> QED
    BY <2>1 DEF IsLoop
<1>7. IsLoop(f, D, stop, next, out)
  <2>1. \E g : IsLoop(g, D, stop, next, out)
    <3> HIDE DEF D, stop, next, out
    <3> QED
      BY <1>5, LoopExists
  <2>2. Loop(f)
    <3> HIDE DEF Loop
    <3> QED
      BY <1>6, <2>1
  <2> HIDE DEF Loop, f, stop, next, out
  <2> QED
    BY <1>6, <2>2
<1>8. CASE layers = << >> /\ \E nodes : Cut(arcs, nodes)
  <2>1. first \in stop /\ first \in D
    <3>1. first \in D /\ Len(first) = 1
      BY DEF Source
    <3>2. NodesAhead(arcs, layers, first) = {}
      BY <1>8, <3>1 DEF NodesAhead
    <3> QED
      BY <3>1, <3>2
  <2>2. ArcsOf(first) = {}
    BY DEF ArcsOf
  <2>3. f[first] = out[first]
    <3> HIDE DEF D, stop, next, out, f, first
    <3> QED
      BY <1>7, <2>1 DEF IsLoop
  <2> QED
    BY <1>3, <1>8, <2>1, <2>2, <2>3
<1>9. CASE Layering(arcs, layers) /\ Source \in Head(layers)
  <2> DEFINE P == {p \in D : Through(arcs, layers, p)}
             measure == [p \in P |-> Len(layers) - Len(p)]
  <2>1. P \in SUBSET D /\ measure \in [P -> Nat] /\ Len(layers) \in Nat
    BY <1>2 DEF Through
  <2>2. ASSUME NEW p \in P, p \notin stop PROVE next[p] \in P /\ measure[next[p]] < measure[p]
    <3> DEFINE m == Min(NodesAhead(arcs, layers, p))
               q == Append(p, m)
    <3>1. m \in NodesAhead(arcs, layers, p) /\ q \in D /\ next[p] = q /\ Through(arcs, layers, p)
      BY <1>4, <2>2
    <3>2. Through(arcs, layers, q) /\ Len(q) = Len(p) + 1 /\ Len(p) < Len(layers)
      BY <1>9, <3>1, PathExtended
    <3>3. q \in P /\ Len(p) \in Nat
      BY <3>1, <3>2
    <3>4. measure[q] = Len(layers) - Len(q) /\ measure[p] = Len(layers) - Len(p)
      BY <3>3
    <3>5. Len(layers) - (Len(p) + 1) < Len(layers) - Len(p)
      BY <2>1, <3>3
    <3> HIDE DEF q, measure, P, next
    <3> QED
      BY <3>1, <3>2, <3>3, <3>4, <3>5
  <2>3. first \in P
    <3>1. first \in D /\ Len(first) = 1 /\ first[1] = Source
      BY DEF Source
    <3>2. Len(layers) > 0 /\ first[1] \in layers[1]
      BY <1>9, <2>1, <3>1 DEF Layering
    <3> HIDE DEF first
    <3>3. Through(arcs, layers, first)
      BY <2>1, <3>1, <3>2 DEF Through
    <3> QED
      BY <3>1, <3>3
  <2>4. PICK p \in P : p \in stop /\ f[first] = out[p]
    <3>1. \A x \in P : x \notin stop => next[x] \in P /\ measure[next[x]] < measure[x]
      BY <2>2
    <3> HIDE DEF D, P, stop, next, out, measure, f, first
    <3>2. \A x \in P : \E t \in P : t \in stop /\ f[x] = out[t]
      BY <1>5, <1>7, <2>1, <3>1, LoopEnds
    <3> QED
      BY <2>3, <3>2
  <2>5. IsPath(arcs, p)
    BY <1>9, <2>4, PathEnds
  <2>6. AugmentingPath(arcs) = ArcsOf(p)
    <3>1. out[p] = ArcsOf(p)
      OBVIOUS
    <3> QED
      BY <1>3, <2>4, <3>1
  <2> QED
    BY <2>5, <2>6
<1> QED
  BY <1>1, <1>8, <1>9

-----------------------------------------------------------------------------
(* The edges.                                                              *)

\* A node of the kind that is numbered from base.
Of(a, base) == a \in Int /\ base < a /\ a <= base + 500

\* The kinds of the two ends of an edge.
EndKinds(a, b) ==
  \/ Of(a, 2000)  /\ Of(b, 3000)
  \/ a = Source   /\ Of(b, 2000)
  \/ Of(a, 3000)  /\ Of(b, 1000)
  \/ Of(a, 1000)  /\ Of(b, 2000)
  \/ Of(a, 3000)  /\ b = Sink

\* The kinds of nodes do not overlap.
LEMMA NodeKinds ==
  /\ \A c \in Components : /\ Of(In(c), 2000) /\ Of(Out(c), 3000)
                           /\ In(c) - In(0) = c
  /\ \A k \in Connections : /\ Of(ConnectionNode(k), 1000)
                            /\ ConnectionNode(k) - ConnectionNode(0) = k
<1>1. \A c \in Components : c \in 1 .. 250
  BY SiteFacts
<1>2. \A k \in Connections : k \in 1 .. 500
  BY SiteFacts
<1> QED
  BY <1>1, <1>2 DEF In, Out, ConnectionNode, Of

\* Every edge joins nodes of two kinds.
LEMMA EdgeEnds ==
  \A e \in Edges : e = <<e[1], e[2]>> /\ EndKinds(e[1], e[2])
<1>1. ASSUME NEW c \in Components
      PROVE  EndKinds(ComponentEdge(c)[1], ComponentEdge(c)[2]) /\ EndKinds(SourceEdge(c)[1], SourceEdge(c)[2])
  BY NodeKinds DEF ComponentEdge, SourceEdge, EndKinds
<1>2. ASSUME NEW c \in Loads PROVE EndKinds(SinkEdge(c)[1], SinkEdge(c)[2])
  BY NodeKinds, SiteFacts DEF SinkEdge, EndKinds
<1>3. ASSUME NEW k \in Connections
      PROVE  EndKinds(FirstEdge(k)[1], FirstEdge(k)[2]) /\ EndKinds(SecondEdge(k)[1], SecondEdge(k)[2])
  BY NodeKinds, SiteFacts DEF FirstEdge, SecondEdge, EndKinds
<1> QED
  BY <1>1, <1>2, <1>3
  DEF Edges, ComponentEdges, SourceEdges, SinkEdges, FirstEdges, SecondEdges,
      ComponentEdge, SourceEdge, SinkEdge, FirstEdge, SecondEdge

\* No edge leads back, none leads to the source, and the edges from the source are its own.
LEMMA EdgeFacts ==
  /\ Edges \subseteq Nodes \X Nodes
  /\ \A e \in Edges : <<e[2], e[1]>> \notin Edges
  /\ \A e \in Edges : e[1] # e[2] /\ e[2] # Source
  /\ \A e \in Edges : e[1] = Source => \E c \in Components : e = SourceEdge(c)
<1>1. ASSUME NEW a, NEW b, EndKinds(a, b)
      PROVE  a \in Nodes /\ b \in Nodes /\ ~ EndKinds(b, a) /\ a # b /\ b # Source
  <2>1. a \in Int /\ b \in Int
    BY <1>1 DEF EndKinds, Of, Source, Sink
  <2> QED
    BY <1>1, <2>1 DEF EndKinds, Of, Nodes, Source, Sink
<1>2. Edges \subseteq Nodes \X Nodes
  <2> SUFFICES ASSUME NEW e \in Edges PROVE e \in Nodes \X Nodes
    OBVIOUS
  <2>1. e = <<e[1], e[2]>> /\ e[1] \in Nodes /\ e[2] \in Nodes
    BY <1>1, EdgeEnds
  <2> QED
    BY <2>1
<1>3. ASSUME NEW e \in Edges, <<e[2], e[1]>> \in Edges PROVE FALSE
  <2>1. EndKinds(e[2], e[1]) /\ EndKinds(e[1], e[2])
    BY <1>3, EdgeEnds
  <2> QED
    BY <1>1, <2>1
<1>4. ASSUME NEW e \in Edges, e[1] = Source PROVE \E c \in Components : e = SourceEdge(c)
  <2>2. \A c \in Components : ComponentEdge(c)[1] # Source
    BY NodeKinds DEF ComponentEdge, Source, Of
  <2>3. \A k \in Connections : FirstEdge(k)[1] # Source /\ SecondEdge(k)[1] # Source
    BY NodeKinds, SiteFacts DEF FirstEdge, SecondEdge, Source, Of
  <2>4. \A c \in Loads : SinkEdge(c)[1] # Source
    BY NodeKinds, SiteFacts DEF SinkEdge, Source, Of
  <2> QED
    BY <1>4, <2>2, <2>3, <2>4
    DEF Edges, ComponentEdges, SourceEdges, SinkEdges, FirstEdges, SecondEdges
<1> QED
  BY <1>1, <1>2, <1>3, <1>4, EdgeEnds

Backward(a) == <<a[2], a[1]>>

\* Every arc has its reverse; an arc at the source is an edge from it or the reverse of one.
LEMMA ArcFacts ==
  /\ Arcs \subseteq Nodes \X Nodes /\ Edges \subseteq Arcs
  /\ \A a \in Arcs : /\ a = <<a[1], a[2]>> /\ Backward(a) \in Arcs
                     /\ Backward(Backward(a)) = a /\ (a \in Edges \/ Backward(a) \in Edges)
  /\ \A c \in Components : SourceEdge(c) \in Arcs
  /\ \A a \in Arcs : a[1] = Source => \E c \in Components : a = SourceEdge(c)
<1>1. ASSUME NEW a \in Arcs
      PROVE  /\ a \in Nodes \X Nodes /\ a = <<a[1], a[2]>> /\ Backward(a) \in Arcs
             /\ Backward(Backward(a)) = a /\ (a \in Edges \/ Backward(a) \in Edges)
  <2>1. \A e \in Edges : e \in Nodes \X Nodes /\ e = <<e[1], e[2]>>
    BY EdgeFacts
  <2>2. CASE a \in Edges
    BY <2>1, <2>2 DEF Arcs, Backward
  <2>3. CASE a \notin Edges
    <3>1. PICK e \in Edges : a = <<e[2], e[1]>>
      BY <2>3 DEF Arcs
    <3> QED
      BY <2>1, <3>1 DEF Arcs, Backward
  <2> QED
    BY <2>2, <2>3
<1>2. ASSUME NEW a \in Arcs, a[1] = Source PROVE \E c \in Components : a = SourceEdge(c)
  <2>1. a \in Edges
    <3> SUFFICES ASSUME NEW e \in Edges, a = <<e[2], e[1]>> PROVE FALSE
      BY DEF Arcs
    <3> QED
      BY <1>2, EdgeFacts
  <2> QED
    BY <1>2, <2>1, EdgeFacts
<1>3. \A c \in Components : SourceEdge(c) \in Edges
  BY DEF Edges, SourceEdges
<1>4. Edges \subseteq Arcs
  BY DEF Arcs
<1> QED
  BY <1>1, <1>2, <1>3, <1>4

\* What the arcs of an augmenting path are: they take one edge out of the source, and no
\* arc and its reverse.
IsStep(arcs, step) ==
  /\ step \in SUBSET arcs
  /\ \A a \in step : Backward(a) \notin step /\ a[2] # Source
  /\ \E c \in Components : \A d \in Components : SourceEdge(d) \in step <=> d = c

\* The arcs of a path from the source to the sink enter each node as often as they leave it.
LEMMA PathIsStep ==
  ASSUME NEW arcs \in SUBSET Arcs, NEW path, IsPath(arcs, path)
  PROVE  IsStep(arcs, ArcsOf(path))
<1> DEFINE n == Len(path)
           arc(i) == <<path[i], path[i + 1]>>
<1>1. n \in Nat /\ n > 1
  BY DEF IsPath
<1>2. \A i \in 1 .. n - 1 : i \in 1 .. n /\ i + 1 \in 1 .. n /\ i + 1 # 1 /\ i \in Int
  BY <1>1
<1>3. ArcsOf(path) = {arc(i) : i \in 1 .. n - 1}
  BY DEF ArcsOf
<1>4. \A i \in 1 .. n - 1 : arc(i) \in arcs
  BY DEF IsPath
<1>5. \A i, j \in 1 .. n : path[i] = path[j] => i = j
  BY DEF IsPath
<1>6. path[1] = Source
  BY DEF IsPath
<1> HIDE DEF n
<1>7. ASSUME NEW i \in 1 .. n - 1, NEW j \in 1 .. n - 1, arc(j) = Backward(arc(i)) PROVE FALSE
  <2>1. path[j] = path[i + 1] /\ path[j + 1] = path[i]
    BY <1>7 DEF Backward
  <2>2. j = i + 1 /\ j + 1 = i
    BY <1>2, <1>5, <2>1
  <2> QED
    BY <1>2, <2>2
<1>8. ASSUME NEW i \in 1 .. n - 1 PROVE arc(i)[2] # Source
  <2>1. 1 \in 1 .. n /\ i + 1 \in 1 .. n /\ i + 1 # 1
    BY <1>1, <1>2
  <2>2. path[i + 1] # path[1]
    BY <1>5, <2>1
  <2> QED
    BY <1>6, <2>2
<1>9. \E c \in Components : \A d \in Components : SourceEdge(d) \in ArcsOf(path) <=> d = c
  <2>1. 1 \in 1 .. n - 1 /\ 1 \in 1 .. n
    BY <1>1
  <2>2. arc(1) \in Arcs /\ arc(1)[1] = Source
    BY <1>4, <1>6, <2>1
  <2>3. PICK c \in Components : arc(1) = SourceEdge(c)
    BY <2>2, ArcFacts
  <2>4. ASSUME NEW d \in Components, NEW i \in 1 .. n - 1, SourceEdge(d) = arc(i) PROVE d = c
    <3>1. path[i] = path[1]
      BY <1>6, <2>4 DEF SourceEdge
    <3>2. i = 1
      BY <1>2, <1>5, <2>1, <3>1
    <3>3. In(d) = In(c)
      BY <2>3, <2>4, <3>2 DEF SourceEdge
    <3> QED
      BY <3>3, NodeKinds
  <2> QED
    BY <1>3, <2>1, <2>3, <2>4
<1> QED
  BY <1>3, <1>4, <1>7, <1>8, <1>9 DEF IsStep

-----------------------------------------------------------------------------
(* The residual network.                                                   *)

\* What an arc has lost, its reverse has gained.
Residual(full, r) ==
  /\ r \in [Arcs -> Int]
  /\ \A a \in Arcs : r[a] >= 0 /\ r[a] + r[Backward(a)] = full[a] + full[Backward(a)]

Usable(r) == {a \in Arcs : r[a] > 0}

PathOf(r) == AugmentingPath(Usable(r))

Increment(r, step) == Min({r[a] : a \in step})

Pushing(r) == push(r, PathOf(r), Increment(r, PathOf(r)))

\* The path of a residual network.
LEMMA PathTaken ==
  ASSUME NEW r \in [Arcs -> Int]
  PROVE  /\ PathOf(r) \in SUBSET Arcs
         /\ PathOf(r) = {} => \E nodes : Cut(Usable(r), nodes)
         /\ PathOf(r) # {} => IsStep(Usable(r), PathOf(r))
<1>1. Usable(r) \in SUBSET Arcs /\ Usable(r) \in SUBSET (Nodes \X Nodes)
  BY ArcFacts DEF Usable
<1>2. \/ PathOf(r) = {} /\ \E nodes : Cut(Usable(r), nodes)
      \/ \E path : IsPath(Usable(r), path) /\ PathOf(r) = ArcsOf(path)
  BY <1>1, PathFound DEF PathOf
<1>3. CASE PathOf(r) = {} /\ \E nodes : Cut(Usable(r), nodes)
  BY <1>3
<1>4. ASSUME NEW path, IsPath(Usable(r), path), PathOf(r) = ArcsOf(path)
      PROVE  IsStep(Usable(r), PathOf(r)) /\ PathOf(r) \in SUBSET Arcs /\ PathOf(r) # {}
  <2>1. IsStep(Usable(r), PathOf(r))
    BY <1>1, <1>4, PathIsStep
  <2> QED
    BY <1>1, <2>1 DEF IsStep
<1> QED
  BY <1>2, <1>3, <1>4

\* The increment is what the narrowest arc of the path can take; it is pushed along the path.
LEMMA PushFacts ==
  ASSUME NEW r \in [Arcs -> Int], NEW step, IsStep(Usable(r), step),
         NEW inc, inc = Increment(r, step)
  PROVE  /\ inc \in Nat /\ inc > 0
         /\ \A a \in step : a \in Arcs /\ r[a] \in Nat /\ inc <= r[a]
         /\ push(r, step, inc) \in [Arcs -> Int]
         /\ \A a \in Arcs :
              push(r, step, inc)[a] = IF a \in step THEN r[a] - inc
                                      ELSE IF Backward(a) \in step THEN r[a] + inc ELSE r[a]
<1>1. \A a \in step : a \in Arcs /\ r[a] \in Nat /\ r[a] > 0
  BY DEF IsStep, Usable
<1>2. \E a \in step : TRUE
  BY DEF IsStep
<1>3. inc \in Nat /\ inc > 0 /\ \A a \in step : inc <= r[a]
  <2> DEFINE S == {r[a] : a \in step}
  <2>1. S \in SUBSET Nat /\ S # {}
    BY <1>1, <1>2
  <2>2. (\A a \in step : r[a] \in S) /\ \A x \in S : \E a \in step : x = r[a]
    OBVIOUS
  <2>3. inc = Min(S)
    BY DEF Increment
  <2> HIDE DEF S
  <2>4. Min(S) \in S /\ \A y \in S : Min(S) <= y
    BY <2>1, LeastNat, MinOfSet
  <2> QED
    BY <1>1, <2>1, <2>2, <2>3, <2>4
<1>4. push(r, step, inc) \in [Arcs -> Int]
  <2>1. ASSUME NEW a \in Arcs PROVE r[a] \in Int /\ r[a] - inc \in Int /\ r[a] + inc \in Int
    BY <1>3
  <2> QED
    BY <2>1 DEF push
<1>5. ASSUME NEW a \in Arcs
      PROVE  push(r, step, inc)[a] = IF a \in step THEN r[a] - inc
                                     ELSE IF Backward(a) \in step THEN r[a] + inc ELSE r[a]
  BY DEF push, Backward
<1> QED
  BY <1>1, <1>3, <1>4, <1>5

\* What the source can still send.
Supply(r) == SumOf([c \in Components |-> IF r[SourceEdge(c)] > 0 THEN r[SourceEdge(c)] ELSE 0])

\* Every push takes from the supply.
LEMMA SupplyFalls ==
  ASSUME NEW r \in [Arcs -> Int]
  PROVE  /\ Supply(r) \in Nat
         /\ PathOf(r) # {} => Pushing(r) \in [Arcs -> Int] /\ Supply(Pushing(r)) < Supply(r)
<1> DEFINE positive(n) == IF n > 0 THEN n ELSE 0
           f == [d \in Components |-> positive(r[SourceEdge(d)])]
<1>1. \A d \in Components : SourceEdge(d) \in Arcs /\ r[SourceEdge(d)] \in Int
  BY ArcFacts
<1>2. f \in [Components -> Nat] /\ f \in [Components -> Int] /\ Supply(r) = SumOf(f)
  BY <1>1 DEF Supply
<1>3. IsFiniteSet(Components)
  BY SiteFacts
<1>4. SumOf(f) \in Nat
  <2> HIDE DEF f
  <2> QED
    BY <1>2, <1>3, SumOfNaturals
<1>5. ASSUME PathOf(r) # {}
      PROVE  Pushing(r) \in [Arcs -> Int] /\ Supply(Pushing(r)) < Supply(r)
  <2> DEFINE step == PathOf(r)
             inc == Increment(r, step)
             q == push(r, step, inc)
             g == [d \in Components |-> positive(q[SourceEdge(d)])]
  <2>1. IsStep(Usable(r), step)
    BY <1>5, PathTaken
  <2> HIDE DEF step
  <2>2. /\ inc \in Nat /\ inc > 0
        /\ \A a \in step : a \in Arcs /\ r[a] \in Nat /\ inc <= r[a]
        /\ q \in [Arcs -> Int]
        /\ \A a \in Arcs : q[a] = IF a \in step THEN r[a] - inc
                                  ELSE IF Backward(a) \in step THEN r[a] + inc ELSE r[a]
    BY <2>1, PushFacts
  <2>3. PICK c \in Components : \A d \in Components : SourceEdge(d) \in step <=> d = c
    BY <2>1 DEF IsStep
  <2> HIDE DEF inc, q
  <2>4. ASSUME NEW d \in Components
        PROVE  q[SourceEdge(d)] = IF d = c THEN r[SourceEdge(d)] - inc ELSE r[SourceEdge(d)]
    <3>1. Backward(SourceEdge(d))[2] = Source
      BY DEF Backward, SourceEdge
    <3>2. Backward(SourceEdge(d)) \notin step
      BY <2>1, <3>1 DEF IsStep
    <3> QED
      BY <1>1, <2>2, <2>3, <3>2
  <2>5. /\ g \in [Components -> Int]
        /\ \A d \in Components : d # c => g[d] = f[d]
        /\ g[c] = f[c] - inc
    <3>1. r[SourceEdge(c)] \in Nat /\ inc <= r[SourceEdge(c)]
      BY <2>2, <2>3
    <3>2. \A d \in Components : q[SourceEdge(d)] \in Int
      BY <1>1, <2>2
    <3>3. f[c] = r[SourceEdge(c)] /\ g[c] = r[SourceEdge(c)] - inc
      BY <2>2, <2>4, <3>1
    <3>4. g \in [Components -> Int]
      BY <3>2
    <3>5. \A d \in Components : d # c => g[d] = f[d]
      BY <2>4
    <3> HIDE DEF f, g
    <3> QED
      BY <3>3, <3>4, <3>5
  <2>6. Supply(q) = SumOf(g)
    BY DEF Supply
  <2> HIDE DEF f, g
  <2>7. SumOf(g) \in Int /\ SumOf(g) - SumOf(f) = g[c] - f[c]
    BY <1>2, <1>3, <2>5, SumOfChanged
  <2>8. f[c] \in Int /\ g[c] \in Int
    BY <1>2, <2>5
  <2>9. Supply(q) < Supply(r)
    BY <1>2, <1>4, <2>2, <2>5, <2>6, <2>7, <2>8
  <2> QED
    BY <2>2, <2>9 DEF Pushing, q, inc, step
<1> QED
  BY <1>2, <1>4, <1>5

\* The augmentation, as a loop.
AugmentStops == {x \in [Arcs -> Int] : PathOf(x) = {}}

AugmentNext == [x \in [Arcs -> Int] |-> IF x \in AugmentStops THEN x ELSE Pushing(x)]

AugmentOut == [x \in [Arcs -> Int] |-> x]

\* It is one.
LEMMA AugmentIsLoop ==
  /\ IsLoop(augment, [Arcs -> Int], AugmentStops, AugmentNext, AugmentOut)
  /\ AugmentNext \in [[Arcs -> Int] -> [Arcs -> Int]] /\ AugmentStops \in SUBSET [Arcs -> Int]
<1> DEFINE D    == [Arcs -> Int]
           stop == AugmentStops
           next == AugmentNext
           out  == AugmentOut
           Inner(g, x) ==
             [step \in SUBSET Arcs |->
                IF step = {} THEN x ELSE g[push(x, step, Min({x[a] : a \in step}))]]
           Loop(g) == g = [x \in D |-> Inner(g, x)[AugmentingPath({a \in Arcs : x[a] > 0})]]
<1>1. augment = CHOOSE g : Loop(g)
  BY DEF augment
<1>2. next \in [D -> D] /\ stop \in SUBSET D
  BY SupplyFalls DEF AugmentNext, AugmentStops
<1>3. ASSUME NEW g, NEW x \in D
      PROVE  Inner(g, x)[AugmentingPath({a \in Arcs : x[a] > 0})]
               = IF x \in stop THEN out[x] ELSE g[next[x]]
  <2> DEFINE h == [step \in SUBSET Arcs |->
                     IF step = {} THEN x ELSE g[push(x, step, Min({x[a] : a \in step}))]]
  <2>1. Inner(g, x) = h
    OBVIOUS
  <2>2. AugmentingPath({a \in Arcs : x[a] > 0}) = PathOf(x)
    BY DEF PathOf, Usable
  <2>3. PathOf(x) \in SUBSET Arcs
    BY PathTaken
  <2>4. h[PathOf(x)] = IF PathOf(x) = {} THEN x ELSE g[Pushing(x)]
    BY <2>3 DEF Pushing, Increment
  <2> HIDE DEF h, Inner
  <2>5. Inner(g, x)[AugmentingPath({a \in Arcs : x[a] > 0})] = h[PathOf(x)]
    BY <2>1, <2>2
  <2>6. (x \in stop <=> PathOf(x) = {}) /\ out[x] = x /\ (x \notin stop => next[x] = Pushing(x))
    BY DEF AugmentStops, AugmentNext, AugmentOut
  <2> QED
    BY <2>4, <2>5, <2>6
<1>4. \A g : Loop(g) <=> IsLoop(g, D, stop, next, out)
  <2> TAKE g
  <2> HIDE DEF Inner
  <2>1. [x \in D |-> Inner(g, x)[AugmentingPath({a \in Arcs : x[a] > 0})]]
          = [x \in D |-> IF x \in stop THEN out[x] ELSE g[next[x]]]
    <3> HIDE DEF stop, out, next, D
    <3> QED
      BY <1>3
  <2> QED
    BY <2>1 DEF IsLoop
<1>5. IsLoop(augment, D, stop, next, out)
  <2>1. \E g : IsLoop(g, D, stop, next, out)
    <3> HIDE DEF D, stop, next, out
    <3> QED
      BY <1>2, LoopExists
  <2>2. Loop(augment)
    <3> HIDE DEF Loop
    <3> QED
      BY <1>1, <1>4, <2>1
  <2> HIDE DEF Loop, stop, next, out
  <2> QED
    BY <1>4, <2>2
<1> QED
  BY <1>2, <1>5

\* One turn of it.
LEMMA AugmentStep ==
  ASSUME NEW r \in [Arcs -> Int]
  PROVE  augment[r] = IF PathOf(r) = {} THEN r ELSE augment[Pushing(r)]
<1>1. augment[r] = IF r \in AugmentStops THEN AugmentOut[r] ELSE augment[AugmentNext[r]]
  BY AugmentIsLoop DEF IsLoop
<1>2. /\ r \in AugmentStops <=> PathOf(r) = {}
      /\ AugmentOut[r] = r
      /\ r \notin AugmentStops => AugmentNext[r] = Pushing(r)
  BY DEF AugmentStops, AugmentOut, AugmentNext
<1> QED
  BY <1>1, <1>2

\* The augmentation ends, and keeps whatever each push keeps.
LEMMA AugmentEnds ==
  ASSUME NEW P \in SUBSET [Arcs -> Int], \A x \in P : PathOf(x) # {} => Pushing(x) \in P
  PROVE  \A r \in P : augment[r] \in P /\ PathOf(augment[r]) = {}
<1> DEFINE D    == [Arcs -> Int]
           stop == AugmentStops
           next == AugmentNext
           out  == AugmentOut
           measure == [x \in P |-> Supply(x)]
<1>1. IsLoop(augment, D, stop, next, out) /\ next \in [D -> D] /\ stop \in SUBSET D
  BY AugmentIsLoop
<1>2. measure \in [P -> Nat]
  BY SupplyFalls
<1>3. \A x \in P : x \notin stop => next[x] \in P /\ measure[next[x]] < measure[x]
  <2> TAKE x \in P
  <2>1. HAVE x \notin stop
  <2>2. next[x] = Pushing(x) /\ PathOf(x) # {}
    BY <2>1 DEF AugmentStops, AugmentNext
  <2>3. next[x] \in P /\ Supply(next[x]) < Supply(x)
    BY <2>2, SupplyFalls
  <2> QED
    BY <2>3
<1>4. P \in SUBSET D
  OBVIOUS
<1>5. \A t \in P : out[t] = t /\ (t \in stop => PathOf(t) = {})
  BY <1>4 DEF AugmentStops, AugmentOut
<1>6. \A x \in P : \E t \in P : t \in stop /\ augment[x] = out[t]
  <2> HIDE DEF D, stop, next, out, measure
  <2> QED
    BY <1>1, <1>2, <1>3, <1>4, LoopEnds
<1> QED
  BY <1>5, <1>6

\* A push keeps the residual network.
LEMMA ResidualKept ==
  ASSUME NEW full \in [Arcs -> Int], NEW r, Residual(full, r), PathOf(r) # {}
  PROVE  Residual(full, Pushing(r))
<1> DEFINE step == PathOf(r)
           inc == Increment(r, step)
           q == push(r, step, inc)
<1>1. r \in [Arcs -> Int]
  BY DEF Residual
<1>2. IsStep(Usable(r), step)
  BY <1>1, PathTaken
<1> HIDE DEF step
<1>3. /\ inc \in Nat /\ inc > 0
      /\ \A a \in step : a \in Arcs /\ r[a] \in Nat /\ inc <= r[a]
      /\ q \in [Arcs -> Int]
      /\ \A a \in Arcs : q[a] = IF a \in step THEN r[a] - inc
                                ELSE IF Backward(a) \in step THEN r[a] + inc ELSE r[a]
  BY <1>1, <1>2, PushFacts
<1> HIDE DEF inc, q
<1>4. ASSUME NEW a \in Arcs
      PROVE  q[a] >= 0 /\ q[a] + q[Backward(a)] = full[a] + full[Backward(a)]
  <2> DEFINE b == Backward(a)
  <2>1. b \in Arcs /\ Backward(b) = a
    BY ArcFacts
  <2>2. r[a] \in Int /\ r[b] \in Int /\ r[a] >= 0 /\ r[a] + r[b] = full[a] + full[b]
    BY <1>1, <2>1 DEF Residual
  <2>3. ~ (a \in step /\ b \in step)
    BY <1>2 DEF IsStep
  <2>4. /\ q[a] = IF a \in step THEN r[a] - inc ELSE IF b \in step THEN r[a] + inc ELSE r[a]
        /\ q[b] = IF b \in step THEN r[b] - inc ELSE IF a \in step THEN r[b] + inc ELSE r[b]
    BY <1>3, <2>1
  <2>5. full[a] \in Int /\ full[b] \in Int
    BY <2>1
  <2> HIDE DEF b
  <2>6. q[a] >= 0
    BY <1>3, <2>2, <2>4
  <2>7. q[a] + q[b] = r[a] + r[b]
    BY <1>3, <2>2, <2>3, <2>4
  <2> QED
    BY <2>2, <2>6, <2>7 DEF b
<1>5. Residual(full, q)
  BY <1>3, <1>4 DEF Residual
<1> QED
  BY <1>5 DEF Pushing, q, inc, step

\* The augmentation ends, with a cut that no usable arc crosses.
LEMMA Augmented ==
  ASSUME NEW full \in [Arcs -> Int], NEW r, Residual(full, r)
  PROVE  Residual(full, augment[r]) /\ \E nodes : Cut(Usable(augment[r]), nodes)
<1> DEFINE P == {x \in [Arcs -> Int] : Residual(full, x)}
<1>1. \A x \in P : PathOf(x) # {} => Pushing(x) \in P
  <2> TAKE x \in P
  <2>1. HAVE PathOf(x) # {}
  <2>2. Residual(full, Pushing(x))
    BY <2>1, ResidualKept
  <2> QED
    BY <2>2 DEF Residual
<1>2. r \in P
  BY DEF Residual
<1>3. P \in SUBSET [Arcs -> Int]
  OBVIOUS
<1> HIDE DEF P
<1>4. augment[r] \in P /\ PathOf(augment[r]) = {}
  BY <1>1, <1>2, <1>3, AugmentEnds
<1> QED
  BY <1>4, PathTaken DEF P

\* The flow of whatever capacities is one of integers.
LEMMA FlowType ==
  ASSUME NEW full \in [Arcs -> Int] PROVE edmonds_karp(full) \in [Edges -> Int]
<1> DEFINE P == [Arcs -> Int]
<1>1. \A x \in P : PathOf(x) # {} => Pushing(x) \in P
  BY SupplyFalls
<1>2. augment[full] \in [Arcs -> Int]
  BY <1>1, AugmentEnds
<1> DEFINE left == augment[full]
<1>3. edmonds_karp(full) = [e \in Edges |-> full[e] - left[e]]
  <2> HIDE DEF left
  <2> QED
    BY <1>2 DEF edmonds_karp, left
<1>4. \A e \in Edges : full[e] \in Int /\ left[e] \in Int
  <2> HIDE DEF left
  <2> QED
    BY <1>2, ArcFacts DEF left
<1> HIDE DEF left
<1> QED
  BY <1>3, <1>4

\* A flow uses no edge beyond its capacity.
LEMMA FlowWithinCapacity ==
  ASSUME NEW full \in [Arcs -> Nat], \A e \in Edges : full[Backward(e)] = 0
  PROVE  /\ edmonds_karp(full) \in [Edges -> Nat]
         /\ \A e \in Edges : edmonds_karp(full)[e] <= full[e]
<1> DEFINE left == augment[full]
           flow == edmonds_karp(full)
<1>1. full \in [Arcs -> Int]
  OBVIOUS
<1>2. \A e \in Edges : e \in Arcs /\ Backward(e) \in Arcs
  BY ArcFacts
<1>3. Residual(full, full)
  <2>1. \A a \in Arcs : full[a] >= 0
    OBVIOUS
  <2> QED
    BY <1>1, <2>1 DEF Residual
<1>4. Residual(full, left)
  BY <1>1, <1>3, Augmented
<1>5. flow = [e \in Edges |-> full[e] - left[e]]
  <2> HIDE DEF left
  <2>1. left \in [Arcs -> Int]
    BY <1>4 DEF Residual
  <2> QED
    BY <1>1, <2>1 DEF edmonds_karp, left
<1> HIDE DEF left, flow
<1>6. ASSUME NEW e \in Edges PROVE flow[e] \in Nat /\ flow[e] <= full[e]
  <2>1. /\ left[e] \in Int /\ left[Backward(e)] \in Int
        /\ left[e] >= 0 /\ left[Backward(e)] >= 0
        /\ left[e] + left[Backward(e)] = full[e] + 0
    BY <1>2, <1>4 DEF Residual
  <2>2. flow[e] = full[e] - left[e] /\ full[e] \in Int
    BY <1>1, <1>2, <1>5
  <2> QED
    BY <2>1, <2>2
<1> QED
  BY <1>5, <1>6 DEF flow

-----------------------------------------------------------------------------
(* Nodes that no augmenting path visits.                                   *)

\* No arc leads out of the nodes, or none into them; the source and the sink are not among them.
NoWayOut(arcs, nodes) ==
  /\ Source \notin nodes /\ Sink \notin nodes
  /\ \A a \in arcs : a[1] \in nodes => a[2] \in nodes

NoWayIn(arcs, nodes) ==
  /\ Source \notin nodes /\ Sink \notin nodes
  /\ \A a \in arcs : a[2] \in nodes => a[1] \in nodes

Meets(a, nodes) == a[1] \in nodes \/ a[2] \in nodes

\* A path does not pass them.
LEMMA PathPassesBy ==
  ASSUME NEW arcs, NEW path, IsPath(arcs, path), NEW nodes,
         NoWayOut(arcs, nodes) \/ NoWayIn(arcs, nodes)
  PROVE  \A a \in ArcsOf(path) : ~ Meets(a, nodes)
<1> DEFINE n == Len(path)
           S == {i \in 1 .. n : path[i] \in nodes}
<1>1. /\ n \in Nat /\ n > 1 /\ path[1] = Source /\ path[n] = Sink
      /\ \A i \in 1 .. n - 1 : <<path[i], path[i + 1]>> \in arcs
  BY DEF IsPath
<1>2. path[1] \notin nodes /\ path[n] \notin nodes
  BY <1>1 DEF NoWayOut, NoWayIn
<1> HIDE DEF n
<1>3. ASSUME NoWayOut(arcs, nodes), S # {} PROVE FALSE
  <2>1. PICK i \in S : \A j \in S : j <= i
    <3>1. S \in SUBSET (1 .. n)
      OBVIOUS
    <3> HIDE DEF S
    <3> QED
      BY <1>1, <1>3, <3>1, MaxOfPositions
  <2>2. i \in 1 .. n - 1 /\ i + 1 \in 1 .. n /\ ~ (i + 1 <= i)
    BY <1>1, <1>2
  <2>3. <<path[i], path[i + 1]>> \in arcs /\ path[i] \in nodes
    BY <1>1, <2>2
  <2>4. path[i + 1] \in nodes
    BY <1>3, <2>3 DEF NoWayOut
  <2>5. i + 1 \in S
    BY <2>2, <2>4
  <2> QED
    BY <2>1, <2>2, <2>5
<1>4. ASSUME NoWayIn(arcs, nodes), S # {} PROVE FALSE
  <2>1. PICK i \in S : \A j \in S : i <= j
    <3>1. S \in SUBSET Nat
      BY <1>1
    <3> HIDE DEF S
    <3> QED
      BY <1>4, <3>1, LeastNat
  <2>2. i - 1 \in 1 .. n - 1 /\ i - 1 \in 1 .. n /\ (i - 1) + 1 = i /\ ~ (i <= i - 1)
    BY <1>1, <1>2
  <2>3. <<path[i - 1], path[(i - 1) + 1]>> \in arcs /\ path[i] \in nodes
    BY <1>1, <2>2
  <2>4. path[i - 1] \in nodes
    BY <1>4, <2>2, <2>3 DEF NoWayIn
  <2>5. i - 1 \in S
    BY <2>2, <2>4
  <2> QED
    BY <2>1, <2>2, <2>5
<1>5. \A i \in 1 .. n : path[i] \notin nodes
  BY <1>3, <1>4
<1>6. \A i \in 1 .. n - 1 : i \in 1 .. n /\ i + 1 \in 1 .. n
  BY <1>1
<1> QED
  BY <1>5, <1>6 DEF ArcsOf, Meets, n

\* What an augmenting path leaves at them.
LEMMA PushPassesBy ==
  ASSUME NEW r \in [Arcs -> Int], NEW nodes,
         NoWayOut(Usable(r), nodes) \/ NoWayIn(Usable(r), nodes), PathOf(r) # {}
  PROVE  /\ \A a \in PathOf(r) : ~ Meets(a, nodes)
         /\ \A a \in Arcs : Meets(a, nodes) => Pushing(r)[a] = r[a]
<1> DEFINE step == PathOf(r)
<1>1. Usable(r) \in SUBSET (Nodes \X Nodes)
  BY ArcFacts DEF Usable
<1>2. PICK path : IsPath(Usable(r), path) /\ step = ArcsOf(path)
  BY <1>1, PathFound DEF PathOf
<1>3. \A a \in step : ~ Meets(a, nodes)
  BY <1>2, PathPassesBy
<1>4. IsStep(Usable(r), step)
  BY PathTaken
<1> HIDE DEF step
<1>5. ASSUME NEW a \in Arcs, Meets(a, nodes) PROVE push(r, step, Increment(r, step))[a] = r[a]
  <2>1. Meets(Backward(a), nodes)
    BY <1>5 DEF Meets, Backward
  <2>2. a \notin step /\ Backward(a) \notin step
    BY <1>3, <1>5, <2>1
  <2> QED
    BY <1>4, <2>2, PushFacts
<1> QED
  BY <1>3, <1>5 DEF Pushing, step

\* At them, the augmentation changes nothing.
LEMMA AugmentPassesBy ==
  ASSUME NEW full \in [Arcs -> Int], NEW nodes,
         NoWayOut(Usable(full), nodes) \/ NoWayIn(Usable(full), nodes)
  PROVE  /\ augment[full] \in [Arcs -> Int]
         /\ \A a \in Arcs : Meets(a, nodes) => augment[full][a] = full[a]
<1> DEFINE Same(r) == \A a \in Arcs : Meets(a, nodes) => r[a] = full[a]
           P == {r \in [Arcs -> Int] : Same(r)}
<1>1. ASSUME NEW r \in [Arcs -> Int], Same(r), PathOf(r) # {}
      PROVE  Pushing(r) \in [Arcs -> Int] /\ Same(Pushing(r))
  <2>1. \A a \in Arcs : Meets(a, nodes) => (a \in Usable(r) <=> a \in Usable(full))
    BY <1>1 DEF Usable
  <2>2. NoWayOut(Usable(full), nodes) => NoWayOut(Usable(r), nodes)
    BY <2>1 DEF NoWayOut, Meets, Usable
  <2>3. NoWayIn(Usable(full), nodes) => NoWayIn(Usable(r), nodes)
    BY <2>1 DEF NoWayIn, Meets, Usable
  <2>4. \A a \in Arcs : Meets(a, nodes) => Pushing(r)[a] = r[a]
    BY <1>1, <2>2, <2>3, PushPassesBy
  <2> QED
    BY <1>1, <2>4, SupplyFalls
<1> HIDE DEF Same
<1>2. \A r \in P : PathOf(r) # {} => Pushing(r) \in P
  BY <1>1
<1>3. full \in P
  BY DEF Same
<1>4. augment[full] \in P
  <2>1. P \in SUBSET [Arcs -> Int]
    OBVIOUS
  <2> HIDE DEF P
  <2> QED
    BY <1>2, <1>3, <2>1, AugmentEnds
<1> QED
  BY <1>4 DEF Same

\* Two networks that differ only there.
AgreeBut(nodes, arcs, others) ==
  \A x, y \in Nat : x \notin nodes /\ y \notin nodes => (<<x, y>> \in arcs <=> <<x, y>> \in others)

\* With no way out of them, they are not found from the sink.
LEMMA SameLayers ==
  ASSUME NEW arcs \in SUBSET (Nodes \X Nodes), NEW others \in SUBSET (Nodes \X Nodes), NEW nodes,
         NoWayOut(arcs, nodes), NoWayOut(others, nodes), AgreeBut(nodes, arcs, others)
  PROVE  /\ Layers(arcs) = Layers(others)
         /\ \/ Layering(arcs, Layers(arcs)) /\ \A i \in 1 .. Len(Layers(arcs)) : Layers(arcs)[i] \cap nodes = {}
            \/ Layers(arcs) = << >>
<1> DEFINE first == <<{Sink}>>
           f == LayerSearch(others)
           Clear(L) == (UNION Range(L)) \cap nodes = {}
           P == {L \in Seq(SUBSET Nat) : Layering(arcs, L) /\ Clear(L) /\ f[L] = f[first]}
<1>0. arcs \in SUBSET (Nat \X Nat) /\ others \in SUBSET (Nat \X Nat)
  BY NodeFacts
<1>1. first \in P
  <2>1. first \in Seq(SUBSET Nat) /\ Layering(arcs, first)
    BY FirstLayer
  <2>2. UNION Range(first) = {Sink}
    BY DEF Range
  <2>3. Clear(first)
    BY <2>2 DEF NoWayOut
  <2> QED
    BY <2>1, <2>3
<1>2. ASSUME NEW L \in Seq(SUBSET Nat), Layering(arcs, L), Clear(L)
      PROVE  LayerBefore(arcs, L) = LayerBefore(others, L) /\ LayerBefore(arcs, L) \cap nodes = {}
  <2>1. Head(L) \subseteq UNION Range(L)
    <3>1. 1 \in DOMAIN L /\ Head(L) = L[1]
      BY <1>2 DEF Layering
    <3> QED
      BY <3>1 DEF Range
  <2>2. ASSUME NEW a \in Nat \X Nat, a[2] \in Head(L)
        PROVE  (a \in arcs <=> a \in others) /\ (a \in arcs => a[1] \notin nodes)
    <3>1. a[2] \notin nodes /\ a = <<a[1], a[2]>> /\ a[1] \in Nat /\ a[2] \in Nat
      BY <1>2, <2>1, <2>2
    <3>2. a \in arcs \/ a \in others => a[1] \notin nodes
      BY <3>1 DEF NoWayOut
    <3> QED
      BY <3>1, <3>2 DEF AgreeBut
  <2>3. {a[1] : a \in {b \in arcs : b[2] \in Head(L)}} = {a[1] : a \in {b \in others : b[2] \in Head(L)}}
    BY <1>0, <2>2
  <2> QED
    BY <1>0, <2>2, <2>3 DEF LayerBefore
<1>3. ASSUME NEW L \in P, Source \notin Head(L), LayerBefore(arcs, L) # {}
      PROVE  <<LayerBefore(arcs, L)>> \o L \in P
  <2> DEFINE B == LayerBefore(arcs, L)
             M == <<B>> \o L
  <2>1. L \in Seq(SUBSET Nat) /\ Layering(arcs, L) /\ Clear(L) /\ f[L] = f[first]
    BY <1>3
  <2>2. Layering(arcs, M)
    BY <1>0, <1>3, <2>1, LayerAdded
  <2>3. B = LayerBefore(others, L) /\ B \cap nodes = {}
    BY <1>2, <2>1
  <2>4. f[L] = f[M]
    BY <1>0, <1>3, <2>1, <2>3, LayerStep
  <2>5. UNION Range(M) = B \cup (UNION Range(L))
    <3>1. B \in SUBSET Nat
      BY <1>0 DEF LayerBefore
    <3>2. <<B>> \in Seq(SUBSET Nat) /\ Len(<<B>>) = 1 /\ <<B>>[1] = B
      BY <3>1
    <3>3. /\ M \in Seq(SUBSET Nat) /\ Len(M) = Len(L) + 1 /\ Len(L) \in Nat
          /\ M[1] = B /\ \A i \in 1 .. Len(L) : M[i + 1] = L[i]
      BY <2>1, <3>2
    <3> HIDE DEF M, B
    <3>4. \A i \in 1 .. Len(M) : i = 1 \/ (i - 1 \in 1 .. Len(L) /\ (i - 1) + 1 = i)
      BY <3>3
    <3>5. DOMAIN M = 1 .. Len(M) /\ DOMAIN L = 1 .. Len(L)
      BY <2>1, <3>3
    <3>6. \A i \in 1 .. Len(L) : i + 1 \in 1 .. Len(M)
      BY <3>3
    <3>7. \A x : x \in UNION Range(M) <=> \E i \in 1 .. Len(M) : x \in M[i]
      BY <3>5 DEF Range
    <3>8. \A x : x \in UNION Range(L) <=> \E i \in 1 .. Len(L) : x \in L[i]
      BY <3>5 DEF Range
    <3>9. ASSUME NEW x \in UNION Range(M) PROVE x \in B \cup (UNION Range(L))
      <4>1. PICK i \in 1 .. Len(M) : x \in M[i]
        BY <3>7, <3>9
      <4> QED
        BY <3>3, <3>4, <3>8, <4>1
    <3>10. ASSUME NEW x \in UNION Range(L) PROVE x \in UNION Range(M)
      <4>1. PICK i \in 1 .. Len(L) : x \in L[i]
        BY <3>8, <3>10
      <4> QED
        BY <3>3, <3>6, <3>7, <4>1
    <3>11. 1 \in 1 .. Len(M)
      BY <3>3
    <3> QED
      BY <3>3, <3>7, <3>9, <3>10, <3>11
  <2>6. Clear(M) /\ M \in Seq(SUBSET Nat)
    BY <2>1, <2>2, <2>3, <2>5 DEF Layering
  <2> HIDE DEF M, Clear, f
  <2> QED
    BY <2>1, <2>2, <2>4, <2>6 DEF M
<1>4. LayersKeep(arcs, P)
  <2>1. P \in SUBSET Seq(SUBSET Nat) /\ \A L \in P : Layering(arcs, L)
    OBVIOUS
  <2> HIDE DEF P
  <2> QED
    BY <1>1, <1>3, <2>1 DEF LayersKeep
<1>5. PICK L \in P : /\ Source \in Head(L) \/ LayerBefore(arcs, L) = {}
                     /\ Layers(arcs) = IF Source \in Head(L) THEN L ELSE << >>
  <2> HIDE DEF P
  <2> QED
    BY <1>4, LayersEnd
<1>6. L \in Seq(SUBSET Nat) /\ Layering(arcs, L) /\ Clear(L) /\ f[L] = f[first]
  BY <1>5
<1>7. Layers(others) = f[first]
  BY DEF Layers, LayerBefore, LayerSearch
<1>8. f[L] = IF Source \in Head(L) THEN L ELSE << >>
  BY <1>0, <1>2, <1>5, <1>6, LayerStep
<1>9. \A i \in 1 .. Len(L) : L[i] \cap nodes = {}
  <2>1. DOMAIN L = 1 .. Len(L)
    BY <1>6
  <2> QED
    BY <1>6, <2>1 DEF Range
<1> HIDE DEF P, f, first, Clear
<1> QED
  BY <1>5, <1>6, <1>7, <1>8, <1>9

\* Nor visited by the path.
LEMMA SamePath ==
  ASSUME NEW arcs \in SUBSET (Nodes \X Nodes), NEW others \in SUBSET (Nodes \X Nodes), NEW nodes,
         NoWayOut(arcs, nodes), NoWayOut(others, nodes), AgreeBut(nodes, arcs, others)
  PROVE  AugmentingPath(arcs) = AugmentingPath(others)
<1> DEFINE layers == Layers(arcs)
           Loop(A, g) == g = [p \in Seq(Nat) |-> IF NodesAhead(A, layers, p) = {} THEN ArcsOf(p)
                                                ELSE g[Append(p, Min(NodesAhead(A, layers, p)))]]
           Walk(A) == CHOOSE g : Loop(A, g)
<1>0. arcs \in SUBSET (Nat \X Nat) /\ others \in SUBSET (Nat \X Nat)
  BY NodeFacts
<1>1. /\ layers = Layers(others)
      /\ \/ Layering(arcs, layers) /\ \A i \in 1 .. Len(layers) : layers[i] \cap nodes = {}
         \/ layers = << >>
  BY SameLayers
<1>2. layers \in Seq(SUBSET Nat) /\ Len(layers) \in Nat /\ \A i \in 1 .. Len(layers) : layers[i] \cap nodes = {}
  <2>1. CASE layers = << >>
    BY <2>1
  <2>2. CASE Layering(arcs, layers) /\ \A i \in 1 .. Len(layers) : layers[i] \cap nodes = {}
    BY <2>2 DEF Layering
  <2> HIDE DEF layers
  <2> QED
    BY <1>1, <2>1, <2>2
<1>3. AugmentingPath(arcs) = Walk(arcs)[<<Source>>]
  BY <1>2 DEF AugmentingPath, NodesAhead, ArcsOf
<1>4. AugmentingPath(others) = Walk(others)[<<Source>>]
  BY <1>1, <1>2 DEF AugmentingPath, NodesAhead, ArcsOf
<1> HIDE DEF layers
<1>5. ASSUME NEW p \in Seq(Nat) PROVE NodesAhead(arcs, layers, p) = NodesAhead(others, layers, p)
  <2>1. CASE Len(p) >= Len(layers)
    BY <2>1 DEF NodesAhead
  <2>2. CASE ~ (Len(p) >= Len(layers))
    <3>1. Len(p) + 1 \in 1 .. Len(layers)
      BY <1>2, <2>2
    <3>2. ASSUME NEW m \in layers[Len(p) + 1] PROVE <<Last(p), m>> \in arcs <=> <<Last(p), m>> \in others
      <4>1. m \notin nodes /\ m \in Nat
        BY <1>2, <3>1, <3>2
      <4>2. ASSUME NEW A \in {arcs, others}, <<Last(p), m>> \in A PROVE Last(p) \in Nat /\ Last(p) \notin nodes
        BY <1>0, <4>1, <4>2 DEF NoWayOut
      <4> QED
        BY <4>1, <4>2 DEF AgreeBut
    <3> QED
      BY <2>2, <3>2 DEF NodesAhead
  <2> QED
    BY <2>1, <2>2
<1>6. \A g : Loop(arcs, g) <=> Loop(others, g)
  <2> TAKE g
  <2>1. [p \in Seq(Nat) |-> IF NodesAhead(arcs, layers, p) = {} THEN ArcsOf(p)
                            ELSE g[Append(p, Min(NodesAhead(arcs, layers, p)))]]
          = [p \in Seq(Nat) |-> IF NodesAhead(others, layers, p) = {} THEN ArcsOf(p)
                                ELSE g[Append(p, Min(NodesAhead(others, layers, p)))]]
    BY <1>5
  <2> QED
    BY <2>1
<1>7. Walk(arcs) = Walk(others)
  <2> HIDE DEF Loop
  <2> QED
    BY <1>6
<1> QED
  BY <1>3, <1>4, <1>7

\* The arcs elsewhere.
AgreeElsewhere(nodes, r, q) == \A a \in Arcs : ~ Meets(a, nodes) => r[a] = q[a]

\* Where there is no way out of them, what is left elsewhere does not depend on them.
LEMMA SameAugmentation ==
  ASSUME NEW full \in [Arcs -> Int], NEW other \in [Arcs -> Int], NEW nodes,
         NoWayOut(Usable(full), nodes), NoWayOut(Usable(other), nodes),
         AgreeElsewhere(nodes, full, other)
  PROVE  AgreeElsewhere(nodes, augment[full], augment[other])
<1> DEFINE At(r, q) == \A a \in Arcs : Meets(a, nodes) => r[a] = q[a]
           Paired(r, q) == /\ q \in [Arcs -> Int] /\ At(r, full) /\ At(q, other)
                           /\ AgreeElsewhere(nodes, r, q) /\ augment[q] = augment[other]
           P == {r \in [Arcs -> Int] : \E q : Paired(r, q)}
<1>1. ASSUME NEW r \in [Arcs -> Int], NEW q, Paired(r, q)
      PROVE  /\ NoWayOut(Usable(r), nodes) /\ NoWayOut(Usable(q), nodes)
             /\ PathOf(r) = PathOf(q)
  <2>1. /\ \A a \in Arcs : Meets(a, nodes) => (a \in Usable(r) <=> a \in Usable(full))
        /\ \A a \in Arcs : Meets(a, nodes) => (a \in Usable(q) <=> a \in Usable(other))
        /\ \A a \in Arcs : ~ Meets(a, nodes) => (a \in Usable(r) <=> a \in Usable(q))
    BY <1>1 DEF Usable, AgreeElsewhere
  <2>2. NoWayOut(Usable(r), nodes) /\ NoWayOut(Usable(q), nodes)
    BY <2>1 DEF NoWayOut, Meets, Usable
  <2>3. Usable(r) \in SUBSET Arcs /\ Usable(q) \in SUBSET Arcs
    BY DEF Usable
  <2>4. Usable(r) \in SUBSET (Nodes \X Nodes) /\ Usable(q) \in SUBSET (Nodes \X Nodes)
    BY <2>3, ArcFacts
  <2>5. AgreeBut(nodes, Usable(r), Usable(q))
    <3> SUFFICES ASSUME NEW x, NEW y, x \notin nodes, y \notin nodes
                 PROVE  <<x, y>> \in Usable(r) <=> <<x, y>> \in Usable(q)
      BY DEF AgreeBut
    <3>1. <<x, y>> \in Arcs => (<<x, y>> \in Usable(r) <=> <<x, y>> \in Usable(q))
      BY <2>1 DEF Meets
    <3> QED
      BY <2>3, <3>1
  <2> QED
    BY <2>2, <2>4, <2>5, SamePath DEF PathOf
<1>2. ASSUME NEW r \in [Arcs -> Int], NEW q, Paired(r, q), PathOf(r) # {}
      PROVE  Pushing(r) \in [Arcs -> Int] /\ Paired(Pushing(r), Pushing(q))
  <2> DEFINE step == PathOf(r)
  <2>1. NoWayOut(Usable(r), nodes) /\ NoWayOut(Usable(q), nodes) /\ step = PathOf(q)
    BY <1>1, <1>2
  <2>2. q \in [Arcs -> Int] /\ AgreeElsewhere(nodes, r, q) /\ augment[q] = augment[other]
        /\ At(r, full) /\ At(q, other) /\ step # {}
    BY <1>2
  <2>3. Pushing(r) \in [Arcs -> Int] /\ Pushing(q) \in [Arcs -> Int]
    BY <2>1, <2>2, SupplyFalls
  <2>4. augment[Pushing(q)] = augment[other]
    BY <2>1, <2>2, AugmentStep
  <2>5. /\ \A a \in step : ~ Meets(a, nodes)
        /\ \A a \in Arcs : Meets(a, nodes) => Pushing(r)[a] = r[a]
        /\ \A a \in Arcs : Meets(a, nodes) => Pushing(q)[a] = q[a]
    BY <2>1, <2>2, PushPassesBy
  <2>6. At(Pushing(r), full) /\ At(Pushing(q), other)
    BY <2>2, <2>5
  <2>7. step \in SUBSET Arcs
    BY PathTaken
  <2>8. Increment(r, step) = Increment(q, step)
    <3>1. \A a \in step : r[a] = q[a]
      BY <2>2, <2>5, <2>7 DEF AgreeElsewhere
    <3>2. {r[a] : a \in step} = {q[a] : a \in step}
      BY <3>1
    <3> QED
      BY <3>2 DEF Increment
  <2>9. ASSUME NEW a \in Arcs, ~ Meets(a, nodes) PROVE Pushing(r)[a] = Pushing(q)[a]
    <3> DEFINE inc == Increment(r, step)
    <3>1. r[a] = q[a]
      BY <2>2, <2>9 DEF AgreeElsewhere
    <3>2. Pushing(r) = push(r, step, inc) /\ Pushing(q) = push(q, step, inc)
      BY <2>1, <2>8 DEF Pushing
    <3> HIDE DEF inc, step
    <3> QED
      BY <3>1, <3>2 DEF push
  <2>10. AgreeElsewhere(nodes, Pushing(r), Pushing(q))
    BY <2>9 DEF AgreeElsewhere
  <2> HIDE DEF At
  <2> QED
    BY <2>3, <2>4, <2>6, <2>10
<1>3. \A r \in P : PathOf(r) # {} => Pushing(r) \in P
  <2> HIDE DEF Paired
  <2> QED
    BY <1>2
<1>4. Paired(full, other)
  OBVIOUS
<1>5. augment[full] \in P /\ PathOf(augment[full]) = {}
  <2>1. P \in SUBSET [Arcs -> Int] /\ full \in P
    BY <1>4
  <2> HIDE DEF P
  <2> QED
    BY <1>3, <2>1, AugmentEnds
<1>6. PICK q : Paired(augment[full], q)
  BY <1>5
<1>7. q \in [Arcs -> Int] /\ AgreeElsewhere(nodes, augment[full], q) /\ augment[q] = augment[other]
  BY <1>6
<1>8. PathOf(q) = {}
  <2>1. augment[full] \in [Arcs -> Int]
    BY <1>5
  <2> HIDE DEF Paired, P
  <2> QED
    BY <1>1, <1>5, <1>6, <2>1
<1>9. augment[q] = q
  BY <1>7, <1>8, AugmentStep
<1> QED
  BY <1>7, <1>9

\* Nor does the flow.
LEMMA SameFlow ==
  ASSUME NEW full \in [Arcs -> Int], NEW other \in [Arcs -> Int], NEW nodes,
         NoWayOut(Usable(full), nodes), NoWayOut(Usable(other), nodes),
         AgreeElsewhere(nodes, full, other)
  PROVE  edmonds_karp(full) = edmonds_karp(other)
<1> DEFINE left == augment[full]
           rest == augment[other]
<1>1. /\ left \in [Arcs -> Int] /\ \A a \in Arcs : Meets(a, nodes) => left[a] = full[a]
      /\ rest \in [Arcs -> Int] /\ \A a \in Arcs : Meets(a, nodes) => rest[a] = other[a]
  BY AugmentPassesBy
<1>2. AgreeElsewhere(nodes, left, rest)
  BY SameAugmentation
<1>3. edmonds_karp(full) = [e \in Edges |-> full[e] - left[e]]
  <2> HIDE DEF left
  <2> QED
    BY <1>1 DEF edmonds_karp, left
<1>4. edmonds_karp(other) = [e \in Edges |-> other[e] - rest[e]]
  <2> HIDE DEF rest
  <2> QED
    BY <1>1 DEF edmonds_karp, rest
<1> HIDE DEF left, rest
<1>5. ASSUME NEW e \in Edges PROVE full[e] - left[e] = other[e] - rest[e]
  <2>1. e \in Arcs /\ full[e] \in Int /\ other[e] \in Int
    BY ArcFacts
  <2>2. CASE Meets(e, nodes)
    BY <1>1, <2>1, <2>2
  <2>3. CASE ~ Meets(e, nodes)
    BY <1>2, <2>1, <2>3 DEF AgreeElsewhere
  <2> QED
    BY <2>2, <2>3
<1> QED
  BY <1>3, <1>4, <1>5

\* No flow passes nodes that there is no way into, or out of.
LEMMA FlowPassesBy ==
  ASSUME NEW full \in [Arcs -> Int], NEW nodes,
         NoWayOut(Usable(full), nodes) \/ NoWayIn(Usable(full), nodes)
  PROVE  \A e \in Edges : Meets(e, nodes) => edmonds_karp(full)[e] = 0
<1> DEFINE left == augment[full]
<1>1. left \in [Arcs -> Int] /\ \A a \in Arcs : Meets(a, nodes) => left[a] = full[a]
  BY AugmentPassesBy
<1>2. edmonds_karp(full) = [e \in Edges |-> full[e] - left[e]]
  <2> HIDE DEF left
  <2> QED
    BY <1>1 DEF edmonds_karp, left
<1> HIDE DEF left
<1>3. ASSUME NEW e \in Edges, Meets(e, nodes) PROVE edmonds_karp(full)[e] = 0
  <2>1. e \in Arcs /\ full[e] \in Int
    BY ArcFacts
  <2> QED
    BY <1>1, <1>2, <1>3, <2>1
<1> QED
  BY <1>3

-----------------------------------------------------------------------------
(* One offer.                                                              *)

\* No load gets more than it demands, nothing carries more than it is rated for, and
\* nothing flows where nothing can.
Sound(n, used) ==
  /\ used \in [load : [Loads -> Nat], component : [Components -> Nat],
               connection : [Connections -> Nat], source : [Components -> Nat]]
  /\ \A c \in Loads : used.load[c] <= n.demand_w[c]
  /\ \A c \in Components : /\ used.component[c] <= component[c].capacity_w
                           /\ used.component[c] # 0 => IsAvailable(n, c)
                           /\ used.source[c] <= component[c].capacity_w
  /\ \A k \in Connections : /\ used.connection[k] <= connection[k].capacity_w
                            /\ used.connection[k] # 0 => k \in LiveConnections(n)

\* An edge is of one kind, which tells what it belongs to.
LEMMA EdgeKinds ==
  /\ \A e \in ComponentEdges : e[1] - In(0) \in Components /\ e = ComponentEdge(e[1] - In(0))
                               /\ Of(e[1], 2000) /\ Of(e[2], 3000)
  /\ \A e \in FirstEdges : e[2] - ConnectionNode(0) \in Connections
                           /\ e = FirstEdge(e[2] - ConnectionNode(0))
                           /\ Of(e[1], 3000) /\ Of(e[2], 1000)
  /\ \A e \in SecondEdges : e[1] - ConnectionNode(0) \in Connections
                            /\ e = SecondEdge(e[1] - ConnectionNode(0))
                            /\ Of(e[1], 1000) /\ Of(e[2], 2000)
  /\ \A e \in SourceEdges : e[2] - In(0) \in Components /\ e = SourceEdge(e[2] - In(0))
                            /\ e[1] = Source /\ Of(e[2], 2000)
  /\ \A e \in SinkEdges : e[2] = Sink /\ Of(e[1], 3000)
<1>1. ASSUME NEW c \in Components
      PROVE  In(c) - In(0) = c /\ Of(In(c), 2000) /\ Of(Out(c), 3000)
  BY NodeKinds
<1>2. ASSUME NEW k \in Connections
      PROVE  /\ ConnectionNode(k) - ConnectionNode(0) = k /\ Of(ConnectionNode(k), 1000)
             /\ connection[k].from_component \in Components
             /\ connection[k].to_component \in Components
  BY NodeKinds, SiteFacts
<1>3. \A e \in ComponentEdges : e[1] - In(0) \in Components /\ e = ComponentEdge(e[1] - In(0))
                               /\ Of(e[1], 2000) /\ Of(e[2], 3000)
  BY <1>1 DEF ComponentEdges, ComponentEdge
<1>4. \A e \in FirstEdges : e[2] - ConnectionNode(0) \in Connections
                           /\ e = FirstEdge(e[2] - ConnectionNode(0))
                           /\ Of(e[1], 3000) /\ Of(e[2], 1000)
  BY <1>1, <1>2 DEF FirstEdges, FirstEdge
<1>5. \A e \in SecondEdges : e[1] - ConnectionNode(0) \in Connections
                            /\ e = SecondEdge(e[1] - ConnectionNode(0))
                            /\ Of(e[1], 1000) /\ Of(e[2], 2000)
  BY <1>1, <1>2 DEF SecondEdges, SecondEdge
<1>6. \A e \in SourceEdges : e[2] - In(0) \in Components /\ e = SourceEdge(e[2] - In(0))
                            /\ e[1] = Source /\ Of(e[2], 2000)
  BY <1>1 DEF SourceEdges, SourceEdge
<1>7. \A e \in SinkEdges : e[2] = Sink /\ Of(e[1], 3000)
  BY <1>1, SiteFacts DEF SinkEdges, SinkEdge
<1> QED
  BY <1>3, <1>4, <1>5, <1>6, <1>7

\* No edge is of two kinds, and each belongs to one component or connection.
LEMMA KindsApart ==
  /\ ComponentEdges \cap (FirstEdges \cup SecondEdges \cup SourceEdges \cup SinkEdges) = {}
  /\ FirstEdges \cap (SecondEdges \cup SourceEdges \cup SinkEdges) = {}
  /\ SecondEdges \cap (SourceEdges \cup SinkEdges) = {}
  /\ SourceEdges \cap SinkEdges = {}
  /\ \A c \in Components : /\ ComponentEdge(c) \in ComponentEdges /\ ComponentEdge(c)[1] - In(0) = c
                           /\ SourceEdge(c) \in SourceEdges /\ SourceEdge(c)[2] - In(0) = c
  /\ \A k \in Connections :
       /\ FirstEdge(k) \in FirstEdges /\ FirstEdge(k)[2] - ConnectionNode(0) = k
       /\ SecondEdge(k) \in SecondEdges /\ SecondEdge(k)[1] - ConnectionNode(0) = k
  /\ \A c \in Loads : SinkEdge(c) \in SinkEdges
  /\ \A c, d \in Loads : SinkEdge(c) = SinkEdge(d) => c = d
<1>1. /\ \A a : /\ Of(a, 2000) => ~ Of(a, 3000) /\ ~ Of(a, 1000) /\ a # Source /\ a # Sink
                /\ Of(a, 1000) => ~ Of(a, 3000) /\ ~ Of(a, 2000) /\ a # Source /\ a # Sink
                /\ Of(a, 3000) => ~ Of(a, 1000) /\ ~ Of(a, 2000) /\ a # Source /\ a # Sink
  BY DEF Of, Source, Sink
<1>2. ComponentEdges \cap (FirstEdges \cup SecondEdges \cup SourceEdges \cup SinkEdges) = {}
  BY <1>1, EdgeKinds
<1>3. FirstEdges \cap (SecondEdges \cup SourceEdges \cup SinkEdges) = {}
  BY <1>1, EdgeKinds
<1>4. SecondEdges \cap (SourceEdges \cup SinkEdges) = {}
  BY <1>1, EdgeKinds
<1>5. SourceEdges \cap SinkEdges = {}
  BY <1>1, EdgeKinds
<1>6. \A c \in Components : /\ ComponentEdge(c) \in ComponentEdges /\ ComponentEdge(c)[1] - In(0) = c
                            /\ SourceEdge(c) \in SourceEdges /\ SourceEdge(c)[2] - In(0) = c
  BY NodeKinds DEF ComponentEdges, ComponentEdge, SourceEdges, SourceEdge
<1>7. \A k \in Connections :
        /\ FirstEdge(k) \in FirstEdges /\ FirstEdge(k)[2] - ConnectionNode(0) = k
        /\ SecondEdge(k) \in SecondEdges /\ SecondEdge(k)[1] - ConnectionNode(0) = k
  BY NodeKinds DEF FirstEdges, FirstEdge, SecondEdges, SecondEdge
<1>8. \A c \in Loads : SinkEdge(c) \in SinkEdges
  BY DEF SinkEdges
<1>9. ASSUME NEW c \in Loads, NEW d \in Loads, SinkEdge(c) = SinkEdge(d) PROVE c = d
  <2>1. c \in Int /\ d \in Int /\ Out(c) = Out(d)
    BY <1>9, SiteFacts DEF SinkEdge
  <2> QED
    BY <2>1 DEF Out
<1> QED
  BY <1>2, <1>3, <1>4, <1>5, <1>6, <1>7, <1>8, <1>9

\* The network of one load: what is left of each rating.
IsNetwork(n, sources, load, demand, used, full) ==
  /\ full = [a \in Arcs |-> full[a]]
  /\ \A a \in Arcs : a \notin Edges => full[a] = 0
  /\ \A c \in Components :
       /\ full[ComponentEdge(c)] = IF IsAvailable(n, c)
                                   THEN component[c].capacity_w - used.component[c] ELSE 0
       /\ full[SourceEdge(c)] = IF c \in sources /\ IsAvailable(n, c)
                                THEN component[c].capacity_w - used.source[c] ELSE 0
  /\ \A k \in Connections :
       /\ full[FirstEdge(k)] = IF k \in LiveConnections(n)
                               THEN connection[k].capacity_w - used.connection[k] ELSE 0
       /\ full[SecondEdge(k)] = full[FirstEdge(k)]
  /\ \A c \in Loads : full[SinkEdge(c)] = IF c = load THEN demand ELSE 0

\* It is what the code builds.
LEMMA NetworkBuilt ==
  ASSUME NEW n, NEW sources, NEW load \in Loads, NEW demand, NEW used
  PROVE  IsNetwork(n, sources, load, demand, used, build_network(n, sources, load, demand, used))
<1> DEFINE full == build_network(n, sources, load, demand, used)
           C == {c \in Components : IsAvailable(n, c)}
           K == LiveConnections(n)
           componentLeft(c)  == component[c].capacity_w - used.component[c]
           connectionLeft(k) == connection[k].capacity_w - used.connection[k]
           sourceLeft(c)     == component[c].capacity_w - used.source[c]
           left(e) == CASE e \in ComponentEdges -> componentLeft(e[1] - In(0))
                        [] e \in FirstEdges     -> connectionLeft(e[2] - ConnectionNode(0))
                        [] e \in SecondEdges    -> connectionLeft(e[1] - ConnectionNode(0))
                        [] e \in SourceEdges    -> sourceLeft(e[2] - In(0))
                        [] e \in SinkEdges      -> demand
           present == {ComponentEdge(c) : c \in C} \cup {FirstEdge(k) : k \in K}
                        \cup {SecondEdge(k) : k \in K} \cup {SourceEdge(c) : c \in sources \cap C}
                        \cup {SinkEdge(load)}
<1>1. K \subseteq Connections
  BY DEF LiveConnections
<1>2. present \in SUBSET Edges
  BY <1>1, SiteFacts
  DEF Edges, ComponentEdges, FirstEdges, SecondEdges, SourceEdges, SinkEdges
<1>3. full = [a \in Arcs |-> IF a \in present THEN left(a) ELSE 0]
  BY <1>2 DEF build_network
<1> HIDE DEF left, present, C, K, full
<1>4. \A a \in Arcs : full[a] = IF a \in present THEN left(a) ELSE 0
  BY <1>3
<1>5. \A e \in Edges : e \in Arcs
  BY ArcFacts
<1>6. /\ present \subseteq Edges
      /\ \A c \in Components : ComponentEdge(c) \in present <=> c \in C
      /\ \A c \in Components : SourceEdge(c) \in present <=> c \in sources \cap C
      /\ \A k \in Connections : FirstEdge(k) \in present <=> k \in K
      /\ \A k \in Connections : SecondEdge(k) \in present <=> k \in K
      /\ \A c \in Loads : SinkEdge(c) \in present <=> c = load
  <2>1. C \subseteq Components
    BY DEF C
  <2>2. \A c \in Components : ComponentEdge(c) \in present <=> c \in C
    BY <1>1, <2>1, KindsApart DEF present
  <2>3. \A c \in Components : SourceEdge(c) \in present <=> c \in sources \cap C
    BY <1>1, <2>1, KindsApart DEF present
  <2>4. \A k \in Connections : FirstEdge(k) \in present <=> k \in K
    BY <1>1, <2>1, KindsApart DEF present
  <2>5. \A k \in Connections : SecondEdge(k) \in present <=> k \in K
    BY <1>1, <2>1, KindsApart DEF present
  <2>6. \A c \in Loads : SinkEdge(c) \in present <=> c = load
    BY <1>1, <2>1, KindsApart DEF present
  <2> QED
    BY <1>2, <2>2, <2>3, <2>4, <2>5, <2>6
<1>7. /\ \A c \in Components : left(ComponentEdge(c)) = componentLeft(c)
      /\ \A c \in Components : left(SourceEdge(c)) = sourceLeft(c)
      /\ \A k \in Connections : left(FirstEdge(k)) = connectionLeft(k)
      /\ \A k \in Connections : left(SecondEdge(k)) = connectionLeft(k)
      /\ \A c \in Loads : left(SinkEdge(c)) = demand
  <2>1. \A c \in Components : left(ComponentEdge(c)) = componentLeft(c)
    BY KindsApart DEF left
  <2>2. \A c \in Components : left(SourceEdge(c)) = sourceLeft(c)
    BY KindsApart DEF left
  <2>3. \A k \in Connections : left(FirstEdge(k)) = connectionLeft(k)
    BY KindsApart DEF left
  <2>4. \A k \in Connections : left(SecondEdge(k)) = connectionLeft(k)
    BY KindsApart DEF left
  <2>5. \A c \in Loads : left(SinkEdge(c)) = demand
    BY KindsApart DEF left
  <2> QED
    BY <2>1, <2>2, <2>3, <2>4, <2>5
<1>8. /\ \A c \in Components : ComponentEdge(c) \in Arcs /\ SourceEdge(c) \in Arcs
      /\ \A k \in Connections : FirstEdge(k) \in Arcs /\ SecondEdge(k) \in Arcs
      /\ \A c \in Loads : SinkEdge(c) \in Arcs
  BY <1>5, KindsApart DEF Edges
<1>9. \A c \in Components : c \in C <=> IsAvailable(n, c)
  BY DEF C
<1>10. \A a \in Arcs : a \notin Edges => full[a] = 0
  BY <1>4, <1>6
<1>11. DOMAIN full = Arcs /\ full = [a \in Arcs |-> full[a]]
  BY <1>3
<1> QED
  BY <1>4, <1>6, <1>7, <1>8, <1>9, <1>10, <1>11 DEF K, IsNetwork, full

\* What an allocation has used once a flow to a load is added.
Committed(used, load, flow) ==
  [load       |-> [used.load EXCEPT ![load] = @ + flow[SinkEdge(load)]],
   component  |-> [c \in Components |-> used.component[c] + flow[ComponentEdge(c)]],
   connection |-> [k \in Connections |-> used.connection[k] + flow[FirstEdge(k)]],
   source     |-> [c \in Components |-> used.source[c] + flow[SourceEdge(c)]]]

\* An offer adds a flow through what is left.
LEMMA OfferAdds ==
  ASSUME NEW n, n.demand_w \in [Loads -> Nat], NEW used, Sound(n, used),
         NEW sources, NEW load \in Loads, NeedsPower(n, used, load)
  PROVE  \E full \in [Arcs -> Nat] :
           /\ IsNetwork(n, sources, load, Unmet(n, used, load), used, full)
           /\ \A e \in Edges : full[Backward(e)] = 0
           /\ Offer(n, sources, used, load) = Committed(used, load, edmonds_karp(full))
<1> DEFINE demand == Unmet(n, used, load)
           full == build_network(n, sources, load, demand, used)
           flow == edmonds_karp(full)
<1>1. /\ \A c \in Components : /\ component[c].capacity_w \in Nat
                               /\ used.component[c] \in Nat /\ used.source[c] \in Nat
                               /\ used.component[c] <= component[c].capacity_w
                               /\ used.source[c] <= component[c].capacity_w
                               /\ used.component[c] # 0 => IsAvailable(n, c)
      /\ \A k \in Connections : /\ connection[k].capacity_w \in Nat /\ used.connection[k] \in Nat
                                /\ used.connection[k] <= connection[k].capacity_w
                                /\ used.connection[k] # 0 => k \in LiveConnections(n)
      /\ \A c \in Loads : used.load[c] \in Nat /\ used.load[c] <= n.demand_w[c]
  BY SiteFacts DEF Sound
<1>2. demand \in Nat
  BY <1>1 DEF NeedsPower, Unmet
<1> HIDE DEF demand
<1>3. IsNetwork(n, sources, load, demand, used, full)
  BY NetworkBuilt
<1> HIDE DEF full
<1>4. /\ \A c \in Components : full[ComponentEdge(c)] \in Nat /\ full[SourceEdge(c)] \in Nat
      /\ \A k \in Connections : full[FirstEdge(k)] \in Nat /\ full[SecondEdge(k)] \in Nat
      /\ \A c \in Loads : full[SinkEdge(c)] \in Nat
  <2>1. \A c \in Components : full[ComponentEdge(c)] \in Nat /\ full[SourceEdge(c)] \in Nat
    <3> TAKE c \in Components
    <3>1. /\ component[c].capacity_w - used.component[c] \in Nat
          /\ component[c].capacity_w - used.source[c] \in Nat
      BY <1>1
    <3> QED
      BY <1>3, <3>1 DEF IsNetwork
  <2>2. \A k \in Connections : full[FirstEdge(k)] \in Nat /\ full[SecondEdge(k)] \in Nat
    <3> TAKE k \in Connections
    <3>1. connection[k].capacity_w - used.connection[k] \in Nat
      BY <1>1
    <3> QED
      BY <1>3, <3>1 DEF IsNetwork
  <2>3. \A c \in Loads : full[SinkEdge(c)] \in Nat
    BY <1>2, <1>3 DEF IsNetwork
  <2> QED
    BY <2>1, <2>2, <2>3
<1>5. \A e \in Edges : full[e] \in Nat
  BY <1>4 DEF Edges, ComponentEdges, FirstEdges, SecondEdges, SourceEdges, SinkEdges
<1>6. full \in [Arcs -> Nat]
  <2>1. \A a \in Arcs : full[a] \in Nat
    BY <1>3, <1>5 DEF IsNetwork
  <2> QED
    BY <1>3, <2>1 DEF IsNetwork
<1>7. \A e \in Edges : full[Backward(e)] = 0
  BY <1>3, ArcFacts, EdgeFacts DEF Backward, IsNetwork
<1>8. flow \in [Edges -> Nat] /\ \A e \in Edges : flow[e] <= full[e]
  BY <1>6, <1>7, FlowWithinCapacity
<1>9. Offer(n, sources, used, load) = Committed(used, load, flow)
  <2>1. flow \in [Edges -> Int]
    BY <1>8
  <2> QED
    BY <2>1 DEF Offer, Committed, full, demand
<1> QED
  BY <1>3, <1>6, <1>7, <1>9 DEF demand

\* An offer leaves a sound allocation sound.
LEMMA OfferIsSound ==
  ASSUME NEW n, n.demand_w \in [Loads -> Nat], NEW used, Sound(n, used),
         NEW sources, NEW load \in Loads
  PROVE  Sound(n, Offer(n, sources, used, load))
<1>1. CASE ~ NeedsPower(n, used, load)
  BY <1>1 DEF Offer
<1>2. CASE NeedsPower(n, used, load)
  <2> DEFINE demand == Unmet(n, used, load)
  <2>1. /\ \A c \in Components : /\ component[c].capacity_w \in Nat
                                 /\ used.component[c] \in Nat /\ used.source[c] \in Nat
                                 /\ used.component[c] <= component[c].capacity_w
                                 /\ used.source[c] <= component[c].capacity_w
                                 /\ used.component[c] # 0 => IsAvailable(n, c)
        /\ \A k \in Connections : /\ connection[k].capacity_w \in Nat /\ used.connection[k] \in Nat
                                  /\ used.connection[k] <= connection[k].capacity_w
                                  /\ used.connection[k] # 0 => k \in LiveConnections(n)
        /\ \A c \in Loads : used.load[c] \in Nat /\ used.load[c] <= n.demand_w[c]
    BY SiteFacts DEF Sound
  <2>3. PICK full \in [Arcs -> Nat] :
          /\ IsNetwork(n, sources, load, demand, used, full)
          /\ \A e \in Edges : full[Backward(e)] = 0
          /\ Offer(n, sources, used, load) = Committed(used, load, edmonds_karp(full))
    BY <1>2, OfferAdds
  <2> DEFINE flow == edmonds_karp(full)
             after == Committed(used, load, flow)
  <2> HIDE DEF demand
  <2>8. flow \in [Edges -> Nat] /\ \A e \in Edges : flow[e] <= full[e]
    BY <2>3, FlowWithinCapacity
  <2>9. Offer(n, sources, used, load) = after
    BY <2>3
  <2> HIDE DEF flow
  <2>10. /\ \A c \in Components : ComponentEdge(c) \in Edges /\ SourceEdge(c) \in Edges
         /\ \A k \in Connections : FirstEdge(k) \in Edges
         /\ SinkEdge(load) \in Edges
    BY KindsApart DEF Edges
  <2>11. ASSUME NEW c \in Components
         PROVE  /\ used.component[c] + flow[ComponentEdge(c)] \in 0 .. component[c].capacity_w
                /\ used.component[c] + flow[ComponentEdge(c)] # 0 => IsAvailable(n, c)
                /\ used.source[c] + flow[SourceEdge(c)] \in 0 .. component[c].capacity_w
    <3>1. /\ flow[ComponentEdge(c)] \in Nat /\ flow[ComponentEdge(c)] <= full[ComponentEdge(c)]
          /\ flow[SourceEdge(c)] \in Nat /\ flow[SourceEdge(c)] <= full[SourceEdge(c)]
      BY <2>8, <2>10
    <3>2. /\ full[ComponentEdge(c)] = IF IsAvailable(n, c)
                                      THEN component[c].capacity_w - used.component[c] ELSE 0
          /\ full[SourceEdge(c)] = IF c \in sources /\ IsAvailable(n, c)
                                   THEN component[c].capacity_w - used.source[c] ELSE 0
      BY <2>3 DEF IsNetwork
    <3> QED
      BY <2>1, <3>1, <3>2
  <2>12. ASSUME NEW k \in Connections
         PROVE  /\ used.connection[k] + flow[FirstEdge(k)] \in 0 .. connection[k].capacity_w
                /\ used.connection[k] + flow[FirstEdge(k)] # 0 => k \in LiveConnections(n)
    <3>1. flow[FirstEdge(k)] \in Nat /\ flow[FirstEdge(k)] <= full[FirstEdge(k)]
      BY <2>8, <2>10
    <3>2. full[FirstEdge(k)] = IF k \in LiveConnections(n)
                               THEN connection[k].capacity_w - used.connection[k] ELSE 0
      BY <2>3 DEF IsNetwork
    <3> QED
      BY <2>1, <3>1, <3>2
  <2>13. used.load[load] + flow[SinkEdge(load)] \in 0 .. n.demand_w[load]
    <3>1. flow[SinkEdge(load)] \in Nat /\ flow[SinkEdge(load)] <= demand
      BY <2>3, <2>8, <2>10 DEF IsNetwork
    <3>2. demand = n.demand_w[load] - used.load[load] /\ n.demand_w[load] \in Nat
      BY DEF demand, Unmet
    <3> QED
      BY <2>1, <3>1, <3>2
  <2>14. /\ after.load \in [Loads -> Nat] /\ \A c \in Loads : after.load[c] <= n.demand_w[c]
    <3>1. used.load \in [Loads -> Nat]
      BY DEF Sound
    <3>2. \A c \in Loads : after.load[c] = IF c = load THEN used.load[load] + flow[SinkEdge(load)]
                                           ELSE used.load[c]
      BY <3>1 DEF Committed
    <3>3. after.load = [c \in Loads |-> after.load[c]]
      BY <3>1 DEF Committed
    <3> HIDE DEF after
    <3> QED
      BY <2>1, <2>13, <3>2, <3>3
  <2>15. /\ after.component \in [Components -> Nat] /\ after.source \in [Components -> Nat]
         /\ after.connection \in [Connections -> Nat]
    BY <2>11, <2>12 DEF Committed
  <2>16. Sound(n, after)
    <3>1. after \in [load : [Loads -> Nat], component : [Components -> Nat],
                     connection : [Connections -> Nat], source : [Components -> Nat]]
      BY <2>14, <2>15 DEF Committed
    <3>2. \A c \in Components : /\ after.component[c] <= component[c].capacity_w
                                /\ after.component[c] # 0 => IsAvailable(n, c)
                                /\ after.source[c] <= component[c].capacity_w
      BY <2>11 DEF Committed
    <3>3. \A k \in Connections : /\ after.connection[k] <= connection[k].capacity_w
                                 /\ after.connection[k] # 0 => k \in LiveConnections(n)
      BY <2>12 DEF Committed
    <3> HIDE DEF after
    <3> QED
      BY <2>14, <3>1, <3>2, <3>3 DEF Sound
  <2> QED
    BY <2>9, <2>16
<1> QED
  BY <1>1, <1>2

-----------------------------------------------------------------------------
(* The service order.                                                      *)

\* By priority, then by service order, then by identifier.
LEMMA ServedBeforeMeans ==
  \A a, b \in Loads :
    ServedBefore(a, b) <=>
      \/ component[a].priority < component[b].priority
      \/ /\ component[a].priority = component[b].priority
         /\ component[a].service_order < component[b].service_order
      \/ /\ component[a].priority = component[b].priority
         /\ component[a].service_order = component[b].service_order
         /\ a < b
<1> TAKE a, b \in Loads
<1> DEFINE key(c) == <<component[c].priority, component[c].service_order, c>>
           differ(i) == key(a)[i] < key(b)[i] /\ \A j \in 1 .. i - 1 : key(a)[j] = key(b)[j]
<1>1. ServedBefore(a, b) <=> differ(1) \/ differ(2) \/ differ(3)
  <2>1. 1 .. 3 = {1, 2, 3}
    OBVIOUS
  <2>2. ServedBefore(a, b) <=> \E i \in 1 .. 3 : differ(i)
    BY DEF ServedBefore
  <2> HIDE DEF differ
  <2> QED
    BY <2>1, <2>2
<1>2. 1 .. 1 - 1 = {} /\ 1 .. 2 - 1 = {1} /\ 1 .. 3 - 1 = {1, 2}
  OBVIOUS
<1>3. differ(1) <=> component[a].priority < component[b].priority
  BY <1>2
<1>4. differ(2) <=> /\ component[a].priority = component[b].priority
                    /\ component[a].service_order < component[b].service_order
  BY <1>2
<1>5. differ(3) <=> /\ component[a].priority = component[b].priority
                    /\ component[a].service_order = component[b].service_order
                    /\ a < b
  BY <1>2
<1> HIDE DEF differ
<1> QED
  BY <1>1, <1>3, <1>4, <1>5

\* Some load is served before all others.
LEMMA ServedFirst ==
  ASSUME NEW S \in SUBSET Loads, S # {}
  PROVE  \E m \in S : \A x \in S : x # m => ServedBefore(m, x)
<1>1. \A c \in S : c \in Loads /\ c \in Nat /\ component[c].priority \in Nat
                   /\ component[c].service_order \in Nat
  BY SiteFacts, SnapshotAssumption DEF ParsedComponent, Component
<1>2. PICK p \in {component[c].priority : c \in S} :
        \A y \in {component[c].priority : c \in S} : p <= y
  <2> DEFINE T == {component[c].priority : c \in S}
  <2>1. T \in SUBSET Nat /\ T # {}
    BY <1>1
  <2> HIDE DEF T
  <2> QED
    BY <2>1, LeastNat DEF T
<1> DEFINE S1 == {c \in S : component[c].priority = p}
<1>3. PICK o \in {component[c].service_order : c \in S1} :
        \A y \in {component[c].service_order : c \in S1} : o <= y
  <2> DEFINE T == {component[c].service_order : c \in S1}
  <2>1. T \in SUBSET Nat /\ T # {}
    BY <1>1, <1>2
  <2> HIDE DEF T
  <2> QED
    BY <2>1, LeastNat DEF T
<1> DEFINE S2 == {c \in S1 : component[c].service_order = o}
<1>4. PICK m \in S2 : \A y \in S2 : m <= y
  <2>1. S2 \in SUBSET Nat /\ S2 # {}
    BY <1>1, <1>3
  <2> HIDE DEF S2
  <2> QED
    BY <2>1, LeastNat
<1>5. ASSUME NEW x \in S, x # m PROVE ServedBefore(m, x)
  <2>1. /\ m \in S /\ component[m].priority = p /\ component[m].service_order = o
        /\ p <= component[x].priority
        /\ component[x].priority = p => o <= component[x].service_order
        /\ component[x].priority = p /\ component[x].service_order = o => m <= x
    BY <1>2, <1>3, <1>4
  <2>2. /\ p \in Nat /\ o \in Nat /\ m \in Nat /\ x \in Nat
        /\ component[x].priority \in Nat /\ component[x].service_order \in Nat
    BY <1>1, <2>1
  <2>3. \/ component[m].priority < component[x].priority
        \/ /\ component[m].priority = component[x].priority
           /\ component[m].service_order < component[x].service_order
        \/ /\ component[m].priority = component[x].priority
           /\ component[m].service_order = component[x].service_order
           /\ m < x
    BY <1>5, <2>1, <2>2
  <2>4. m \in Loads /\ x \in Loads
    BY <1>1, <2>1
  <2> QED
    BY <2>3, <2>4, ServedBeforeMeans
<1> QED
  BY <1>4, <1>5

InOrder(S, q) ==
  /\ q \in [1 .. Cardinality(S) -> S]
  /\ \A i, j \in 1 .. Cardinality(S) : i < j => ServedBefore(q[i], q[j])

\* The loads can be put in order.
LEMMA OrderExists ==
  \A S \in SUBSET Loads : \E q : InOrder(S, q)
<1> DEFINE Bad == {Cardinality(S) : S \in {T \in SUBSET Loads : ~ \E q : InOrder(T, q)}}
<1>0. IsFiniteSet(Loads)
  BY SiteFacts, FS_Subset
<1> SUFFICES ASSUME Bad # {} PROVE FALSE
  OBVIOUS
<1>1. Bad \in SUBSET Nat
  BY <1>0, FS_Subset, FS_CardinalityType
<1>2. PICK n \in Bad : \A m \in Bad : n <= m
  <2> HIDE DEF Bad
  <2> QED
    BY <1>1, LeastNat
<1>3. PICK S \in SUBSET Loads : n = Cardinality(S) /\ ~ \E q : InOrder(S, q)
  BY <1>2
<1>4. n \in Nat
  BY <1>1, <1>2
<1>5. CASE S = {}
  <2>1. Cardinality(S) = 0
    BY <1>5, FS_EmptySet
  <2>2. InOrder(S, << >>)
    BY <1>5, <2>1 DEF InOrder
  <2> QED
    BY <1>3, <2>2
<1>6. CASE S # {}
  <2>1. PICK m \in S : \A x \in S : x # m => ServedBefore(m, x)
    BY <1>6, ServedFirst
  <2> DEFINE R == S \ {m}
  <2>2. n > 0 /\ Cardinality(R) = n - 1 /\ R \in SUBSET Loads
    BY <1>0, <1>3, <1>4, Smaller
  <2>3. PICK q : InOrder(R, q)
    <3>1. n - 1 \in Nat /\ ~ (n <= n - 1)
      BY <1>4, <2>2
    <3>2. n - 1 \notin Bad
      <4> HIDE DEF Bad
      <4> QED
        BY <1>2, <3>1
    <3> HIDE DEF R
    <3> QED
      BY <2>2, <3>2
  <2> DEFINE r == [i \in 1 .. n |-> IF i = 1 THEN m ELSE q[i - 1]]
  <2>4. \A i \in 1 .. n : i # 1 => i - 1 \in 1 .. n - 1 /\ q[i - 1] \in R
    <3> TAKE i \in 1 .. n
    <3>1. i # 1 => i - 1 \in 1 .. n - 1
      BY <1>4
    <3> HIDE DEF R
    <3> QED
      BY <2>2, <2>3, <3>1 DEF InOrder
  <2>5. r \in [1 .. n -> S]
    BY <2>4
  <2>6. ASSUME NEW i \in 1 .. n, NEW j \in 1 .. n, i < j PROVE ServedBefore(r[i], r[j])
    <3>1. j # 1 /\ r[j] = q[j - 1] /\ j - 1 \in 1 .. n - 1 /\ q[j - 1] \in R
      BY <2>4, <2>6
    <3>2. CASE i = 1
      BY <2>1, <3>1, <3>2
    <3>3. CASE i # 1
      <4>1. r[i] = q[i - 1] /\ i - 1 \in 1 .. n - 1 /\ i - 1 < j - 1
        BY <2>4, <2>6, <3>3
      <4> HIDE DEF r, R
      <4> QED
        BY <2>2, <2>3, <3>1, <4>1 DEF InOrder
    <3> QED
      BY <3>2, <3>3
  <2>7. InOrder(S, r)
    BY <1>3, <2>5, <2>6 DEF InOrder
  <2> QED
    BY <1>3, <2>7
<1> QED
  BY <1>5, <1>6

\* The service order is a sequence of loads.
LEMMA ServiceOrderType == InOrder(Loads, ServiceOrder) /\ ServiceOrder \in Seq(Loads)
<1>1. \E q : InOrder(Loads, q)
  BY OrderExists
<1>2. InOrder(Loads, ServiceOrder)
  BY <1>1 DEF InOrder, ServiceOrder
<1>3. Cardinality(Loads) \in Nat
  BY SiteFacts, FS_Subset, FS_CardinalityType
<1> QED
  BY <1>2, <1>3, IsASeq DEF InOrder

\* No load is left out of it, or served before itself.
LEMMA EveryLoadIsServed == \A c \in Loads : \E i \in DOMAIN ServiceOrder : ServiceOrder[i] = c
<1> DEFINE n == Cardinality(Loads)
           q == ServiceOrder
<1>1. /\ n \in Nat /\ IsFiniteSet(Loads) /\ q \in [1 .. n -> Loads] /\ DOMAIN q = 1 .. n
      /\ \A i, j \in 1 .. n : i < j => ServedBefore(q[i], q[j])
  BY ServiceOrderType, SiteFacts, FS_Subset, FS_CardinalityType DEF InOrder
<1>2. \A c \in Loads : ~ ServedBefore(c, c)
  <2> TAKE c \in Loads
  <2> HIDE DEF n, q
  <2>1. c \in Loads /\ c \in Nat /\ component[c].priority \in Nat
                   /\ component[c].service_order \in Nat
    BY SiteFacts, SnapshotAssumption DEF ParsedComponent, Component
  <2>2. \A x \in Nat : ~ (x < x)
    OBVIOUS
  <2> QED
    BY <2>1, <2>2, ServedBeforeMeans
<1> HIDE DEF n, q
<1>3. ASSUME NEW i \in 1 .. n, NEW j \in 1 .. n, q[i] = q[j] PROVE i = j
  <2>1. q[i] \in Loads /\ q[j] \in Loads
    BY <1>1
  <2>2. ~ (i < j) /\ ~ (j < i)
    BY <1>1, <1>2, <1>3, <2>1
  <2> QED
    BY <1>1, <2>2
<1>4. q \in Injection(1 .. n, Loads)
  BY <1>1, <1>3 DEF Injection, IsInjective
<1>5. Cardinality(1 .. n) = n
  BY <1>1, FS_Interval
<1>6. q \in Surjection(1 .. n, Loads)
  BY <1>1, <1>4, <1>5, FS_Injection DEF n
<1> QED
  BY <1>1, <1>6 DEF Surjection, q

-----------------------------------------------------------------------------
(* A stage.                                                                *)

\* An offer is well-formed whatever was allocated before.
LEMMA OfferType ==
  ASSUME NEW n, n.demand_w \in [Loads -> Nat], NEW used \in Usage,
         NEW sources, NEW load \in Loads
  PROVE  Offer(n, sources, used, load) \in Usage
<1> DEFINE demand == Unmet(n, used, load)
           full == build_network(n, sources, load, demand, used)
           flow == edmonds_karp(full)
           after == [load       |-> [used.load EXCEPT ![load] = @ + flow[SinkEdge(load)]],
                     component  |-> [c \in Components |-> used.component[c] + flow[ComponentEdge(c)]],
                     connection |-> [k \in Connections |-> used.connection[k] + flow[FirstEdge(k)]],
                     source     |-> [c \in Components |-> used.source[c] + flow[SourceEdge(c)]]]
<1>1. CASE ~ NeedsPower(n, used, load)
  BY <1>1 DEF Offer
<1>2. CASE NeedsPower(n, used, load)
  <2>1. /\ \A c \in Components : /\ component[c].capacity_w \in Int
                                 /\ used.component[c] \in Int /\ used.source[c] \in Int
        /\ \A k \in Connections : connection[k].capacity_w \in Int /\ used.connection[k] \in Int
        /\ \A c \in Loads : used.load[c] \in Int
        /\ used.load \in [Loads -> Int]
    BY SiteFacts DEF Usage
  <2>2. demand \in Int
    BY <2>1 DEF Unmet
  <2> HIDE DEF demand
  <2>3. IsNetwork(n, sources, load, demand, used, full)
    BY NetworkBuilt
  <2> HIDE DEF full
  <2>4. ASSUME NEW c \in Components
        PROVE  full[ComponentEdge(c)] \in Int /\ full[SourceEdge(c)] \in Int
    <3>1. /\ component[c].capacity_w - used.component[c] \in Int
          /\ component[c].capacity_w - used.source[c] \in Int
      BY <2>1
    <3> QED
      BY <2>3, <3>1 DEF IsNetwork
  <2>5. ASSUME NEW k \in Connections
        PROVE  full[FirstEdge(k)] \in Int /\ full[SecondEdge(k)] \in Int
    <3>1. connection[k].capacity_w - used.connection[k] \in Int
      BY <2>1
    <3> QED
      BY <2>3, <3>1 DEF IsNetwork
  <2>6. \A c \in Loads : full[SinkEdge(c)] \in Int
    BY <2>2, <2>3 DEF IsNetwork
  <2>7. \A e \in Edges : full[e] \in Int
    BY <2>4, <2>5, <2>6
    DEF Edges, ComponentEdges, FirstEdges, SecondEdges, SourceEdges, SinkEdges
  <2>8. full \in [Arcs -> Int]
    <3>1. \A a \in Arcs : full[a] \in Int
      BY <2>3, <2>7 DEF IsNetwork
    <3> QED
      BY <2>3, <3>1 DEF IsNetwork
  <2>9. flow \in [Edges -> Int]
    BY <2>8, FlowType
  <2>10. Offer(n, sources, used, load) = after
    BY <1>2, <2>9 DEF Offer, full, demand
  <2> HIDE DEF flow
  <2>11. /\ \A c \in Components : ComponentEdge(c) \in Edges /\ SourceEdge(c) \in Edges
         /\ \A k \in Connections : FirstEdge(k) \in Edges
         /\ SinkEdge(load) \in Edges
    BY KindsApart DEF Edges
  <2>12. after.load \in [Loads -> Int]
    <3>1. used.load[load] + flow[SinkEdge(load)] \in Int
      BY <2>1, <2>9, <2>11
    <3> QED
      BY <2>1, <3>1
  <2>13. /\ after.component \in [Components -> Int] /\ after.source \in [Components -> Int]
         /\ after.connection \in [Connections -> Int]
    BY <2>1, <2>9, <2>11
  <2> QED
    BY <2>10, <2>12, <2>13 DEF Usage
<1> QED
  BY <1>1, <1>2

\* The turns of a stage, as a loop.
Turns == Usage \X Seq(Loads)

LastTurns == {turn \in Turns : turn[2] = << >>}

NextTurn(n, sources) ==
  [turn \in Turns |->
     IF turn \in LastTurns THEN turn
     ELSE <<Offer(n, sources, turn[1], Head(turn[2])), Tail(turn[2])>>]

Spent == [turn \in Turns |-> turn[1]]

\* Stage's recursive function.
Serve(n, sources) ==
  CHOOSE g : g = [turn \in Usage \X Seq(Loads) |->
                    IF turn[2] = << >> THEN turn[1]
                    ELSE g[<<Offer(n, sources, turn[1], Head(turn[2])), Tail(turn[2])>>]]

\* A stage without sources changes nothing, any other serves the loads in their order.
LEMMA StageServes ==
  ASSUME NEW n, NEW sources, NEW before
  PROVE  Stage(n, sources, before)
           = IF sources = {} THEN before ELSE Serve(n, sources)[<<before, ServiceOrder>>]
BY DEF Stage, Serve

\* A turn leaves one load less.
LEMMA TurnTaken ==
  ASSUME NEW n, n.demand_w \in [Loads -> Nat], NEW sources, NEW x \in Turns, x \notin LastTurns
  PROVE  /\ x[1] \in Usage /\ x[2] \in Seq(Loads) /\ Head(x[2]) \in Loads
         /\ Tail(x[2]) \in Seq(Loads) /\ Len(x[2]) \in Nat /\ Len(Tail(x[2])) = Len(x[2]) - 1
         /\ Len(x[2]) > 0
         /\ NextTurn(n, sources)[x] = <<Offer(n, sources, x[1], Head(x[2])), Tail(x[2])>>
         /\ NextTurn(n, sources)[x] \in Turns
<1>1. x[1] \in Usage /\ x[2] \in Seq(Loads) /\ x[2] # << >>
  BY DEF Turns, LastTurns
<1>2. NextTurn(n, sources)[x] = <<Offer(n, sources, x[1], Head(x[2])), Tail(x[2])>>
  BY DEF NextTurn
<1>3. /\ Head(x[2]) \in Loads /\ Tail(x[2]) \in Seq(Loads) /\ Len(x[2]) \in Nat
      /\ Len(Tail(x[2])) = Len(x[2]) - 1 /\ Len(x[2]) > 0
  BY <1>1, HeadTailProperties, EmptySeq, LenProperties
<1>4. Offer(n, sources, x[1], Head(x[2])) \in Usage
  BY <1>1, <1>3, OfferType
<1>5. NextTurn(n, sources)[x] \in Turns
  <2> DEFINE o == Offer(n, sources, x[1], Head(x[2]))
             q == Tail(x[2])
  <2>1. o \in Usage /\ q \in Seq(Loads) /\ NextTurn(n, sources)[x] = <<o, q>>
    BY <1>2, <1>3, <1>4
  <2> HIDE DEF o, q
  <2> QED
    BY <2>1 DEF Turns
<1> QED
  BY <1>1, <1>2, <1>3, <1>5

\* The loop is defined, for every usage and every queue of loads.
LEMMA ServeIsLoop ==
  ASSUME NEW n, n.demand_w \in [Loads -> Nat], NEW sources
  PROVE  IsLoop(Serve(n, sources), Turns, LastTurns, NextTurn(n, sources), Spent)
<1> DEFINE Loop(g) == g = [x \in Turns |-> IF x[2] = << >> THEN x[1]
                                       ELSE g[<<Offer(n, sources, x[1], Head(x[2])), Tail(x[2])>>]]
           next == NextTurn(n, sources)
<1>1. next \in [Turns -> Turns] /\ LastTurns \in SUBSET Turns
  <2>1. ASSUME NEW x \in Turns PROVE next[x] \in Turns
    BY TurnTaken DEF NextTurn
  <2> QED
    BY <2>1 DEF NextTurn, LastTurns
<1>2. \A g : Loop(g) <=> IsLoop(g, Turns, LastTurns, next, Spent)
  <2> TAKE g
  <2>1. [x \in Turns |-> IF x[2] = << >> THEN x[1]
                         ELSE g[<<Offer(n, sources, x[1], Head(x[2])), Tail(x[2])>>]]
          = [x \in Turns |-> IF x \in LastTurns THEN Spent[x] ELSE g[next[x]]]
    BY DEF LastTurns, Spent, NextTurn
  <2> QED
    BY <2>1 DEF IsLoop
<1>3. \E g : Loop(g)
  <2>1. \E g : IsLoop(g, Turns, LastTurns, next, Spent)
    <3> HIDE DEF next
    <3> QED
      BY <1>1, LoopExists
  <2> HIDE DEF Loop
  <2> QED
    BY <1>2, <2>1
<1>4. Serve(n, sources) = CHOOSE g : Loop(g)
  BY DEF Serve, Turns
<1> HIDE DEF Loop
<1>5. Loop(Serve(n, sources))
  BY <1>3, <1>4
<1> QED
  BY <1>2, <1>5

\* One turn after another.
LEMMA ServeStep ==
  ASSUME NEW n, n.demand_w \in [Loads -> Nat], NEW sources,
         NEW usage \in Usage, NEW queue \in Seq(Loads)
  PROVE  Serve(n, sources)[<<usage, queue>>]
           = IF queue = << >> THEN usage
             ELSE Serve(n, sources)[<<Offer(n, sources, usage, Head(queue)), Tail(queue)>>]
<1> DEFINE x == <<usage, queue>>
<1>1. x \in Turns /\ x[1] = usage /\ x[2] = queue
  BY DEF Turns
<1> HIDE DEF x
<1>2. Serve(n, sources)[x]
        = IF x \in LastTurns THEN Spent[x] ELSE Serve(n, sources)[NextTurn(n, sources)[x]]
  BY <1>1, ServeIsLoop DEF IsLoop
<1>3. x \in LastTurns <=> queue = << >>
  BY <1>1 DEF LastTurns
<1>4. Spent[x] = usage
  BY <1>1 DEF Spent
<1>5. x \notin LastTurns => NextTurn(n, sources)[x] = <<Offer(n, sources, usage, Head(queue)), Tail(queue)>>
  BY <1>1, TurnTaken
<1> QED
  BY <1>2, <1>3, <1>4, <1>5 DEF x

\* A stage ends, and keeps whatever each offer keeps.
LEMMA StageEnds ==
  ASSUME NEW n, n.demand_w \in [Loads -> Nat], NEW sources,
         NEW P \in SUBSET Usage,
         \A usage \in P : \A load \in Loads : Offer(n, sources, usage, load) \in P,
         NEW before \in P
  PROVE  Stage(n, sources, before) \in P
<1> DEFINE next == NextTurn(n, sources)
           f == Serve(n, sources)
           first == <<before, ServiceOrder>>
           Q == P \X Seq(Loads)
           measure == [x \in Q |-> Len(x[2])]
<1>1. IsLoop(f, Turns, LastTurns, next, Spent)
  BY ServeIsLoop
<1>2. next \in [Turns -> Turns] /\ LastTurns \in SUBSET Turns
  <2>1. ASSUME NEW x \in Turns PROVE next[x] \in Turns
    BY TurnTaken DEF NextTurn
  <2> QED
    BY <2>1 DEF NextTurn, LastTurns
<1>3. Q \in SUBSET Turns
  BY DEF Turns
<1>4. measure \in [Q -> Nat]
  OBVIOUS
<1>5. \A x \in Q : x \notin LastTurns => next[x] \in Q /\ measure[next[x]] < measure[x]
  <2> TAKE x \in Q
  <2>1. HAVE x \notin LastTurns
  <2>2. x \in Turns /\ x[1] \in P
    BY <1>3
  <2>3. /\ next[x] = <<Offer(n, sources, x[1], Head(x[2])), Tail(x[2])>>
        /\ Head(x[2]) \in Loads /\ Tail(x[2]) \in Seq(Loads)
        /\ Len(x[2]) \in Nat /\ Len(Tail(x[2])) = Len(x[2]) - 1
    BY <2>1, <2>2, TurnTaken
  <2>4. Offer(n, sources, x[1], Head(x[2])) \in P
    BY <2>2, <2>3
  <2> HIDE DEF next
  <2>5. next[x] \in Q
    <3> DEFINE o == Offer(n, sources, x[1], Head(x[2]))
               q == Tail(x[2])
    <3>1. o \in P /\ q \in Seq(Loads) /\ next[x] = <<o, q>>
      BY <2>3, <2>4
    <3> HIDE DEF o, q
    <3> QED
      BY <3>1
  <2>6. measure[next[x]] = Len(Tail(x[2])) /\ measure[x] = Len(x[2])
    BY <2>3, <2>5
  <2> HIDE DEF measure, Q
  <2> QED
    BY <2>3, <2>5, <2>6
<1>6. first \in Q
  BY ServiceOrderType
<1>7. \A t \in Q : Spent[t] \in P
  BY <1>3 DEF Spent
<1>8. f[first] \in P
  <2> HIDE DEF Q, next, measure, f, first
  <2>1. \A x \in Q : \E t \in Q : t \in LastTurns /\ f[x] = Spent[t]
    BY <1>1, <1>2, <1>3, <1>4, <1>5, LoopEnds
  <2> QED
    BY <1>6, <1>7, <2>1
<1> QED
  BY <1>8, StageServes

-----------------------------------------------------------------------------
(* The allocation.                                                         *)

\* Nothing used is sound.
LEMMA NothingUsedIsSound ==
  ASSUME NEW n, n.demand_w \in [Loads -> Nat]
  PROVE  Sound(n, NothingUsed) /\ NothingUsed \in Usage
<1>1. /\ \A c \in Components : component[c].capacity_w \in Nat
      /\ \A k \in Connections : connection[k].capacity_w \in Nat
      /\ \A c \in Loads : n.demand_w[c] \in Nat
  BY SiteFacts
<1> QED
  BY <1>1 DEF Sound, NothingUsed, Usage

\* Whatever sources are offered, the allocation is sound.
LEMMA AllocationIsSound ==
  ASSUME NEW n, n.demand_w \in [Loads -> Nat], NEW live, NEW batteries
  PROVE  Sound(n, allocate(n, live, batteries))
<1> DEFINE P == {used \in Usage : Sound(n, used)}
<1>1. \A used \in P : \A load \in Loads : \A sources : Offer(n, sources, used, load) \in P
  BY OfferType, OfferIsSound
<1>2. NothingUsed \in P
  BY NothingUsedIsSound
<1>3. P \in SUBSET Usage
  OBVIOUS
<1>4. \A used \in P : Sound(n, used)
  OBVIOUS
<1> HIDE DEF P
<1>5. ASSUME NEW before \in P, NEW sources PROVE Stage(n, sources, before) \in P
  BY <1>1, <1>3, StageEnds
<1> QED
  BY <1>2, <1>4, <1>5 DEF allocate

\* The sum of the values of a function, as the code's sum() takes it.
LEMMA TotalIsSum == \A f : Total(f) = SumOf(f)
BY DEF Total, SumOf

\* The less of two naturals, and the rest that is not negative.
LEMMA Clipped ==
  ASSUME NEW a \in Nat, NEW b \in Int PROVE Min({a, Max({0, b})}) \in Nat
<1>1. Max({0, b}) \in Nat
  <2> DEFINE m == IF b > 0 THEN b ELSE 0
  <2>1. m \in {0, b} /\ \A y \in {0, b} : m >= y
    OBVIOUS
  <2>2. Max({0, b}) \in {0, b} /\ \A y \in {0, b} : Max({0, b}) >= y
    <3> HIDE DEF m
    <3> QED
      BY <2>1 DEF Max
  <2> QED
    BY <2>2
<1>2. {a, Max({0, b})} \in SUBSET Nat /\ {a, Max({0, b})} # {}
  BY <1>1
<1> DEFINE S == {a, Max({0, b})}
<1> HIDE DEF S
<1>3. S \in SUBSET Nat /\ S # {}
  BY <1>2 DEF S
<1>4. S \in SUBSET Int /\ \E x \in S : \A y \in S : x <= y
  BY <1>3, LeastNat
<1>5. Min(S) \in Nat
  BY <1>3, <1>4, MinOfSet
<1> QED
  BY <1>5 DEF S

\* The summary of a sound allocation is well-formed and passes the code's assertions.
LEMMA SummaryOfSound ==
  ASSUME NEW s \in RuntimeState, Charged(s), NEW used, Sound(Network(s), used), NEW sum,
         sum = Summarize(Network(s), NonBatterySources(s), BatterySources(s), used,
                         Total(s.demand_w), Total(used.load))
  PROVE  sum \in Summary /\ capacity_invariants(s, sum)
<1> DEFINE n == Network(s)
           live == NonBatterySources(s)
           batteries == BatterySources(s)
           demand == Total(n.demand_w)
           served == Total(used.load)
           rated == [c \in live \cup batteries |-> component[c].capacity_w]
           spare == Total(rated) - Total(used.source)
           stranded == IF demand = served THEN 0 ELSE Min({demand - served, Max({0, spare})})
<1>0. sum = Summarize(n, live, batteries, used, demand, served)
  BY DEF Network
<1>1. n.demand_w = s.demand_w /\ n.demand_w \in [Loads -> Nat]
  BY DEF Network, RuntimeState
<1>2. Sound(n, used)
  OBVIOUS
<1>3. live \in SUBSET Components /\ batteries \in SUBSET Upses /\ Upses \subseteq Components
  <2>1. \A kinds : OfKind(kinds) \subseteq Components
    BY DEF OfKind
  <2>2. s.generator_running \subseteq Generators
    BY DEF RuntimeState
  <2> QED
    BY <2>1, <2>2 DEF NonBatterySources, BatterySources, Utilities, Generators, Upses
<1>4. /\ \A c \in Components : IsAvailable(n, c) <=> IsAvailable(s, c)
      /\ \A k \in LiveConnections(n) : s.connection_closed[k]
  BY DEF Network, IsAvailable, LiveConnections
<1>5. \A u \in batteries : u \in Upses /\ s.battery_energy_mj[u] > 0
  BY DEF BatterySources
<1> HIDE DEF n, live, batteries
<1>6. /\ used.load \in [Loads -> Nat] /\ used.component \in [Components -> Nat]
      /\ used.connection \in [Connections -> Nat] /\ used.source \in [Components -> Nat]
  BY <1>2 DEF Sound
<1>7. IsFiniteSet(Components) /\ IsFiniteSet(Loads) /\ IsFiniteSet(live \cup batteries)
  BY <1>3, SiteFacts, FS_Subset
<1>8. demand \in Nat /\ served \in Nat /\ served <= demand
  <2>1. demand = SumOf(n.demand_w) /\ served = SumOf(used.load)
    BY TotalIsSum
  <2>2. n.demand_w \in [Loads -> Int] /\ used.load \in [Loads -> Int]
    BY <1>1, <1>6
  <2>3. \A c \in Loads : used.load[c] <= n.demand_w[c]
    BY <1>2 DEF Sound
  <2> HIDE DEF demand, served
  <2> QED
    BY <1>1, <1>6, <1>7, <2>1, <2>2, <2>3, SumOfNaturals, SumOfLess
<1>9. spare \in Int
  <2>1. rated \in [live \cup batteries -> Nat]
    BY <1>3, SiteFacts
  <2> HIDE DEF rated
  <2>2. SumOf(rated) \in Nat /\ SumOf(used.source) \in Nat
    BY <1>6, <1>7, <2>1, SumOfNaturals
  <2>3. spare = SumOf(rated) - SumOf(used.source)
    BY TotalIsSum
  <2> HIDE DEF spare
  <2> QED
    BY <2>2, <2>3
<1>10. stranded \in Nat /\ demand - served \in Nat
  <2> HIDE DEF demand, served, spare
  <2> QED
    BY <1>8, <1>9, Clipped
<1>11. redundancy_state(n, live, batteries, demand, served) \in Range(RedundancyStates)
  <2>1. {"no_path", "partial_service", "battery_backed", "single_path", "supported", "two_n",
         "no_demand"} \subseteq Range(RedundancyStates)
    BY DEF Range, RedundancyStates
  <2> HIDE DEF demand, served
  <2> QED
    BY <2>1 DEF redundancy_state
<1> HIDE DEF demand, served
<1>12. sum = [demand_w            |-> demand,
              served_w            |-> served,
              unserved_w          |-> demand - served,
              stranded_capacity_w |-> stranded,
              redundancy_state    |-> redundancy_state(n, live, batteries, demand, served),
              load_service_w      |-> used.load,
              connection_flow_w   |-> used.connection,
              component_flow_w    |-> used.component,
              source_power_w      |-> used.source,
              source_ids          |-> live \cup batteries,
              battery_source_ids  |-> batteries]
  BY <1>0 DEF Summarize
<1> HIDE DEF stranded
<1>13. sum \in Summary
  BY <1>3, <1>6, <1>8, <1>10, <1>11, <1>12 DEF Summary
<1>14. capacity_invariants(s, sum)
  <2>1. sum.demand_w = sum.served_w + sum.unserved_w
    BY <1>8, <1>12
  <2>2. \A c \in Loads : sum.load_service_w[c] \in 0 .. s.demand_w[c]
    BY <1>1, <1>6, <1>2, <1>12 DEF Sound
  <2>3. ASSUME NEW k \in Connections
        PROVE  /\ sum.connection_flow_w[k] \in 0 .. connection[k].capacity_w
               /\ sum.connection_flow_w[k] # 0 => s.connection_closed[k]
    BY <1>2, <1>4, <1>6, <1>12, SiteFacts DEF Sound
  <2>4. ASSUME NEW c \in Components
        PROVE  /\ sum.component_flow_w[c] \in 0 .. component[c].capacity_w
               /\ sum.component_flow_w[c] # 0 => IsAvailable(s, c)
    BY <1>2, <1>4, <1>6, <1>12, SiteFacts DEF Sound
  <2>5. ASSUME NEW u \in sum.battery_source_ids
        PROVE  s.battery_energy_mj[u] \in 1 .. component[u].usable_energy_mj
    <3>1. u \in Upses /\ s.battery_energy_mj[u] > 0
      BY <1>5, <1>12
    <3>2. s.battery_energy_mj[u] \in 0 .. component[u].usable_energy_mj
      BY <3>1 DEF Charged
    <3> QED
      BY <3>1, <3>2
  <2> QED
    BY <2>1, <2>2, <2>3, <2>4, <2>5 DEF capacity_invariants
<1> QED
  BY <1>13, <1>14

\* The allocator returns a well-formed summary that passes _assert_capacity_invariants
\* (capacity.py): for every site and every runtime state, however it was reached.
THEOREM SolutionIsSound ==
  ASSUME NEW s \in RuntimeState, Charged(s)
  PROVE  solve_capacity(s) \in Summary /\ capacity_invariants(s, solve_capacity(s))
<1> DEFINE n == Network(s)
           used == allocate(n, NonBatterySources(s), BatterySources(s))
<1>1. n.demand_w = s.demand_w /\ n.demand_w \in [Loads -> Nat]
  BY DEF Network, RuntimeState
<1>2. Sound(n, used)
  BY <1>1, AllocationIsSound
<1>3. solve_capacity(s) = Summarize(Network(s), NonBatterySources(s), BatterySources(s), used,
                                    Total(s.demand_w), Total(used.load))
  BY <1>1 DEF solve_capacity
<1> QED
  BY <1>2, <1>3, SummaryOfSound

-----------------------------------------------------------------------------
(* Who delivers.                                                           *)

\* What is not offered delivers nothing.
LEMMA OfferFromOffered ==
  ASSUME NEW n, n.demand_w \in [Loads -> Nat], NEW used, Sound(n, used),
         NEW sources, NEW load \in Loads, NEW c \in Components, c \notin sources
  PROVE  Offer(n, sources, used, load).source[c] = used.source[c]
<1>1. CASE ~ NeedsPower(n, used, load)
  BY <1>1 DEF Offer
<1>2. CASE NeedsPower(n, used, load)
  <2>1. PICK full \in [Arcs -> Nat] :
          /\ IsNetwork(n, sources, load, Unmet(n, used, load), used, full)
          /\ \A e \in Edges : full[Backward(e)] = 0
          /\ Offer(n, sources, used, load) = Committed(used, load, edmonds_karp(full))
    BY <1>2, OfferAdds
  <2> DEFINE flow == edmonds_karp(full)
  <2> HIDE DEF flow
  <2>2. flow \in [Edges -> Nat] /\ \A e \in Edges : flow[e] <= full[e]
    BY <2>1, FlowWithinCapacity DEF flow
  <2>3. SourceEdge(c) \in Edges
    BY KindsApart DEF Edges
  <2>4. full[SourceEdge(c)] = 0
    BY <2>1 DEF IsNetwork
  <2>5. flow[SourceEdge(c)] = 0
    BY <2>2, <2>3, <2>4
  <2>6. Offer(n, sources, used, load).source[c] = used.source[c] + flow[SourceEdge(c)]
    BY <2>1 DEF Committed, flow
  <2>7. used.source[c] \in Nat
    BY DEF Sound
  <2> QED
    BY <2>5, <2>6, <2>7
<1> QED
  BY <1>1, <1>2

\* A component that is neither a live source nor a battery delivers nothing in either stage.
LEMMA AllocationFromOffered ==
  ASSUME NEW n, n.demand_w \in [Loads -> Nat], NEW live, NEW batteries,
         NEW c \in Components, c \notin live, c \notin batteries
  PROVE  allocate(n, live, batteries).source[c] = 0
<1> DEFINE P == {used \in Usage : Sound(n, used) /\ used.source[c] = 0}
           stored == StoredStage(live, batteries)
<1>1. \A used \in P : \A load \in Loads : \A sources : c \notin sources => Offer(n, sources, used, load) \in P
  BY OfferType, OfferIsSound, OfferFromOffered
<1>2. NothingUsed \in P
  BY NothingUsedIsSound DEF NothingUsed
<1>3. P \in SUBSET Usage
  OBVIOUS
<1>4. \A used \in P : used.source[c] = 0
  OBVIOUS
<1>5. c \notin stored
  BY DEF StoredStage
<1> HIDE DEF P, stored
<1>6. ASSUME NEW before \in P, NEW sources, c \notin sources PROVE Stage(n, sources, before) \in P
  <2>1. \A usage \in P : \A load \in Loads : Offer(n, sources, usage, load) \in P
    BY <1>1, <1>6
  <2> QED
    BY <1>3, <2>1, StageEnds
<1>7. Stage(n, stored, Stage(n, live, NothingUsed)) \in P
  BY <1>2, <1>5, <1>6
<1> QED
  BY <1>4, <1>7 DEF allocate, stored

\* A UPS delivers only while it is a battery source of the summary.
LEMMA OnlyBatteriesDischarge ==
  ASSUME NEW s \in RuntimeState, NEW u \in Upses
  PROVE  solve_capacity(s).source_power_w[u] # 0 => u \in solve_capacity(s).battery_source_ids
<1> DEFINE n == Network(s)
           live == NonBatterySources(s)
           batteries == BatterySources(s)
<1>1. n.demand_w \in [Loads -> Nat]
  BY DEF Network, RuntimeState
<1>2. u \in Components /\ u \notin live
  <2>1. s.generator_running \in SUBSET Generators
    BY DEF RuntimeState
  <2> QED
    BY <2>1 DEF NonBatterySources, Upses, Utilities, Generators, OfKind
<1>3. /\ solve_capacity(s).source_power_w = allocate(n, live, batteries).source
      /\ solve_capacity(s).battery_source_ids = batteries
  BY DEF solve_capacity, Summarize
<1> HIDE DEF n, live, batteries
<1> QED
  BY <1>1, <1>2, <1>3, AllocationFromOffered
=============================================================================
