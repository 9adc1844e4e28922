-------------------------- MODULE AllocationProofs --------------------------
(***************************************************************************)
(* Theorems about the allocation, one offer at a time, for every site and  *)
(* every set of runtime states.                                            *)
(***************************************************************************)
EXTENDS AllocationProperties, CapacityProofs

-----------------------------------------------------------------------------
(* Sums.                                                                   *)

\* A sum of sums.
LEMMA SumOfBoth ==
  ASSUME NEW D, IsFiniteSet(D), NEW f \in [D -> Int], NEW g \in [D -> Int],
         NEW u \in [D -> Int], \A x \in D : u[x] = f[x] + g[x]
  PROVE  SumOf(f) \in Int /\ SumOf(g) \in Int /\ SumOf(u) = SumOf(f) + SumOf(g)
<1>0. D = DOMAIN f /\ D = DOMAIN g /\ D = DOMAIN u
  OBVIOUS
<1>1. PICK h : Sums(h, f) /\ SumOf(f) = h[D]
  BY SumOfSums
<1>2. PICK k : Sums(k, g) /\ SumOf(g) = k[D]
  BY SumOfSums
<1>3. PICK l : Sums(l, u) /\ SumOf(u) = l[D]
  BY SumOfSums
<1>4. \A r \in SUBSET D : h[r] \in Int /\ k[r] \in Int /\ l[r] \in Int
  BY <1>0, <1>1, <1>2, <1>3 DEF Sums, SumsUpTo
<1> DEFINE Bad == {Cardinality(r) : r \in {t \in SUBSET D : l[t] # h[t] + k[t]}}
<1>5. SUFFICES ASSUME Bad # {} PROVE FALSE
  BY <1>1, <1>2, <1>3, <1>4
<1>6. Bad \in SUBSET Nat
  BY FS_Subset, FS_CardinalityType
<1>7. PICK n \in Bad : \A m \in Bad : n <= m
  <2> HIDE DEF Bad
  <2> QED
    BY <1>5, <1>6, LeastNat
<1>8. PICK r \in SUBSET D : l[r] # h[r] + k[r] /\ n = Cardinality(r)
  BY <1>7
<1>9. /\ h[r] = IF r = {} THEN 0 ELSE f[Pick(r)] + h[r \ {Pick(r)}]
      /\ k[r] = IF r = {} THEN 0 ELSE g[Pick(r)] + k[r \ {Pick(r)}]
      /\ l[r] = IF r = {} THEN 0 ELSE u[Pick(r)] + l[r \ {Pick(r)}]
  <2>1. Cardinality(r) <= Cardinality(D)
    BY FS_Subset
  <2> QED
    BY <1>0, <1>1, <1>2, <1>3, <2>1 DEF Sums, SumsUpTo
<1>10. r # {}
  BY <1>8, <1>9
<1>11. Pick(r) \in r /\ Pick(r) \in D
  BY <1>10 DEF Pick
<1> DEFINE t == r \ {Pick(r)}
<1>12. t \in SUBSET D /\ Cardinality(t) = n - 1 /\ n \in Nat
  BY <1>6, <1>7, <1>8, <1>11, Smaller
<1>13. l[t] # h[t] + k[t]
  <2>1. /\ f[Pick(r)] \in Int /\ g[Pick(r)] \in Int /\ u[Pick(r)] = f[Pick(r)] + g[Pick(r)]
        /\ h[t] \in Int /\ k[t] \in Int /\ l[t] \in Int
    BY <1>4, <1>11, <1>12
  <2>2. h[r] = f[Pick(r)] + h[t] /\ k[r] = g[Pick(r)] + k[t] /\ l[r] = u[Pick(r)] + l[t]
    BY <1>9, <1>10
  <2> HIDE DEF t
  <2> QED
    BY <1>8, <2>1, <2>2
<1>14. Cardinality(t) \in Bad
  BY <1>12, <1>13
<1> HIDE DEF Bad, t
<1> QED
  BY <1>7, <1>12, <1>14

\* A sum of zeros: it is twice itself.
LEMMA SumOfZeros ==
  ASSUME NEW D, IsFiniteSet(D), NEW f \in [D -> Nat], \A x \in D : f[x] = 0
  PROVE  SumOf(f) = 0
<1>1. f \in [D -> Int] /\ \A x \in D : f[x] = f[x] + f[x]
  OBVIOUS
<1>2. SumOf(f) \in Int /\ SumOf(f) = SumOf(f) + SumOf(f)
  BY <1>1, SumOfBoth
<1>3. \A z \in Int : z = z + z => z = 0
  OBVIOUS
<1> QED
  BY <1>2, <1>3

\* What one element gives to another leaves the sum as it is.
LEMMA SumOfMoved ==
  ASSUME NEW D, IsFiniteSet(D), NEW f \in [D -> Int], NEW g \in [D -> Int],
         NEW x \in D, NEW y \in D, x # y, g[x] + g[y] = f[x] + f[y],
         \A z \in D : z # x /\ z # y => g[z] = f[z]
  PROVE  SumOf(f) \in Int /\ SumOf(g) = SumOf(f)
<1> DEFINE h == [z \in D |-> IF z = x THEN g[x] ELSE f[z]]
<1>1. h \in [D -> Int] /\ h[x] = g[x] /\ h[y] = f[y]
  OBVIOUS
<1>2. (\A z \in D : z # x => h[z] = f[z]) /\ \A z \in D : z # y => g[z] = h[z]
  OBVIOUS
<1> HIDE DEF h
<1>3. SumOf(f) \in Int /\ SumOf(h) \in Int /\ SumOf(h) - SumOf(f) = h[x] - f[x]
  BY <1>1, <1>2, SumOfChanged
<1>4. SumOf(g) \in Int /\ SumOf(g) - SumOf(h) = g[y] - h[y]
  BY <1>1, <1>2, SumOfChanged
<1>5. f[x] \in Int /\ f[y] \in Int /\ g[x] \in Int /\ g[y] \in Int
  OBVIOUS
<1> QED
  BY <1>1, <1>3, <1>4, <1>5

\* f has one element more than g.
Extends(f, D, g, E, x) ==
  /\ f \in [D -> Int] /\ g \in [E -> Int]
  /\ x \in D /\ E \in SUBSET D
  /\ \A z \in D : z \in E <=> z # x
  /\ \A z \in E : g[z] = f[z]

\* A sum over a domain with one element more is the old sum and the new value.
LEMMA SumExtended ==
  ASSUME NEW D, IsFiniteSet(D), NEW f, NEW E, NEW g, NEW x, Extends(f, D, g, E, x)
  PROVE  /\ SumOf(f) \in Int /\ SumOf(g) \in Int /\ f[x] \in Int
         /\ SumOf(f) = SumOf(g) + f[x]
BY SumOfMore DEF Extends

\* A sum and two elements more.
LEMMA SumOfTwoMore ==
  ASSUME NEW D, IsFiniteSet(D), NEW f \in [D -> Int], NEW x \in D, NEW y \in D, x # y,
         NEW S \in SUBSET D, \A z \in D : z \in S <=> z # x /\ z # y,
         NEW g \in [S -> Int], \A z \in S : g[z] = f[z]
  PROVE  SumOf(g) \in Int /\ SumOf(f) = SumOf(g) + f[x] + f[y]
<1> DEFINE E == D \ {x}
           h == [z \in E |-> f[z]]
<1>1. IsFiniteSet(E) /\ h[y] = f[y]
  BY FS_Subset
<1>2. Extends(f, D, h, E, x)
  BY DEF Extends
<1>3. Extends(h, E, g, S, y)
  BY DEF Extends
<1> HIDE DEF E, h
<1>4. SumOf(f) = SumOf(h) + f[x] /\ f[x] \in Int
  BY <1>2, SumExtended
<1>5. SumOf(h) = SumOf(g) + h[y] /\ h[y] \in Int /\ SumOf(g) \in Int
  BY <1>1, <1>3, SumExtended
<1> QED
  BY <1>1, <1>4, <1>5

\* The sum of a function over some of its arguments.
Over(K, f) == SumOf([x \in K |-> f[x]])

Ints(K, f) == IsFiniteSet(K) /\ \A x \in K : f[x] \in Int

AddUp(K, u, f, g) == \A x \in K : u[x] = f[x] + g[x]

ZeroOn(K, f) == \A x \in K : f[x] = 0

\* A sum over fewer arguments is one.
LEMMA IntsWithin ==
  ASSUME NEW D, NEW f, Ints(D, f), NEW K \in SUBSET D PROVE Ints(K, f)
BY FS_Subset DEF Ints

\* A sum over a set is an integer, and 0 where every term is 0.
LEMMA OverType ==
  ASSUME NEW K, NEW f, Ints(K, f)
  PROVE  Over(K, f) \in Int /\ (ZeroOn(K, f) => Over(K, f) = 0)
<1> DEFINE g == [x \in K |-> f[x]]
<1>1. IsFiniteSet(K) /\ g \in [K -> Int]
  BY DEF Ints
<1>2. SumOf(g) \in Int
  <2> HIDE DEF g
  <2> QED
    BY <1>1, SumOfType
<1>3. ASSUME ZeroOn(K, f) PROVE SumOf(g) = 0
  <2>1. g \in [K -> Nat] /\ \A x \in K : g[x] = 0
    BY <1>3 DEF ZeroOn
  <2> HIDE DEF g
  <2> QED
    BY <1>1, <2>1, SumOfZeros
<1> QED
  BY <1>2, <1>3 DEF Over

\* Sums add up.
LEMMA OverAdds ==
  ASSUME NEW K, NEW f, Ints(K, f), NEW g, Ints(K, g), NEW u, AddUp(K, u, f, g)
  PROVE  /\ Over(K, f) \in Int /\ Over(K, g) \in Int
         /\ Over(K, u) = Over(K, f) + Over(K, g)
<1> DEFINE a == [x \in K |-> f[x]]
           b == [x \in K |-> g[x]]
           c == [x \in K |-> u[x]]
<1>1. IsFiniteSet(K)
  BY DEF Ints
<1>2. a \in [K -> Int] /\ b \in [K -> Int]
  BY DEF Ints
<1>3. \A x \in K : c[x] = a[x] + b[x] /\ c[x] \in Int
  BY DEF Ints, AddUp
<1>4. c \in [K -> Int]
  BY <1>3
<1> HIDE DEF a, b, c
<1>5. SumOf(a) \in Int /\ SumOf(b) \in Int /\ SumOf(c) = SumOf(a) + SumOf(b)
  BY <1>1, <1>2, <1>3, <1>4, SumOfBoth
<1> QED
  BY <1>5 DEF a, b, c, Over

\* One argument more.
LEMMA OverMore ==
  ASSUME NEW K, NEW f, Ints(K, f), NEW x, x \notin K, f[x] \in Int
  PROVE  /\ Over(K \cup {x}, f) = Over(K, f) + f[x] /\ Over(K, f) \in Int
         /\ Ints(K \cup {x}, f)
<1> DEFINE L == K \cup {x}
           g == [y \in L |-> f[y]]
           h == [y \in K |-> f[y]]
<1>1. IsFiniteSet(L) /\ x \in L /\ K \in SUBSET L /\ \A y \in L : y \in K <=> y # x
  BY FS_AddElement DEF Ints
<1>2. Ints(L, f)
  BY <1>1 DEF Ints
<1>3. Extends(g, L, h, K, x) /\ g[x] = f[x]
  BY <1>1, <1>2 DEF Extends, Ints
<1> HIDE DEF g, h, L
<1>4. SumOf(g) = SumOf(h) + g[x] /\ SumOf(h) \in Int
  BY <1>1, <1>3, SumExtended
<1> QED
  BY <1>2, <1>3, <1>4 DEF Over, g, h, L

\* Arguments with the value 0 do not count.
LEMMA OverRest ==
  ASSUME NEW D, NEW f, Ints(D, f), NEW A \in SUBSET D, ZeroOn(D \ A, f)
  PROVE  Over(D, f) = Over(A, f)
<1> DEFINE Odd == {C \in SUBSET D : A \subseteq C /\ Over(C, f) # Over(D, f)}
           Bad == {Cardinality(D \ B) : B \in Odd}
<1>1. SUFFICES ASSUME Bad # {} PROVE FALSE
  OBVIOUS
<1>2. Bad \in SUBSET Nat
  <2>1. \A B \in Odd : Cardinality(D \ B) \in Nat
    BY FS_Subset, FS_CardinalityType DEF Ints
  <2> QED
    BY <2>1
<1>3. PICK n \in Bad : \A m \in Bad : n <= m
  <2> HIDE DEF Bad
  <2> QED
    BY <1>1, <1>2, LeastNat
<1>4. PICK B \in SUBSET D : A \subseteq B /\ Over(B, f) # Over(D, f) /\ n = Cardinality(D \ B)
  BY <1>3
<1>5. PICK x \in D : x \notin B
  BY <1>4
<1> DEFINE C == B \cup {x}
<1>6. C \in SUBSET D /\ A \subseteq C /\ Over(C, f) = Over(B, f)
  <2>1. f[x] = 0
    BY <1>4, <1>5 DEF ZeroOn
  <2>2. Ints(B, f)
    BY IntsWithin
  <2>3. Over(C, f) = Over(B, f) + f[x] /\ Over(B, f) \in Int
    BY <1>5, <2>1, <2>2, OverMore
  <2> QED
    BY <1>4, <1>5, <2>1, <2>3
<1>7. Cardinality(D \ C) \in Bad
  BY <1>4, <1>6
<1>8. Cardinality(D \ C) = n - 1 /\ n \in Nat
  <2>1. IsFiniteSet(D \ B) /\ x \in D \ B /\ (D \ B) \ {x} = D \ C
    BY <1>5, FS_Subset DEF Ints
  <2>2. Cardinality((D \ B) \ {x}) = Cardinality(D \ B) - 1
    BY <2>1, FS_RemoveElement
  <2> QED
    BY <1>2, <1>3, <1>4, <2>1, <2>2
<1> HIDE DEF Bad, C
<1> QED
  BY <1>3, <1>7, <1>8

\* The sum over a set and the rest.
LEMMA OverSplit ==
  ASSUME NEW K, NEW f, Ints(K, f), NEW A \in SUBSET K
  PROVE  /\ Over(A, f) \in Int /\ Over(K \ A, f) \in Int
         /\ Over(K, f) = Over(A, f) + Over(K \ A, f)
<1> DEFINE B == K \ A
           a == [x \in K |-> IF x \in A THEN f[x] ELSE 0]
           b == [x \in K |-> IF x \in A THEN 0 ELSE f[x]]
<1>1. B \in SUBSET K
  OBVIOUS
<1>2. Ints(K, a) /\ Ints(K, b) /\ AddUp(K, f, a, b)
  BY DEF Ints, AddUp
<1>3. ZeroOn(K \ A, a) /\ ZeroOn(K \ B, b)
  BY DEF ZeroOn
<1>4. [x \in A |-> a[x]] = [x \in A |-> f[x]] /\ [x \in B |-> b[x]] = [x \in B |-> f[x]]
  OBVIOUS
<1> HIDE DEF a, b, B
<1>5. Over(A, f) \in Int /\ Over(B, f) \in Int
  BY <1>1, IntsWithin, OverType
<1>6. Over(K, f) = Over(K, a) + Over(K, b)
  BY <1>2, OverAdds
<1>7. Over(K, a) = Over(A, a) /\ Over(K, b) = Over(B, b)
  BY <1>1, <1>2, <1>3, OverRest
<1>8. Over(A, a) = Over(A, f) /\ Over(B, b) = Over(B, f)
  BY <1>4 DEF Over
<1> QED
  BY <1>5, <1>6, <1>7, <1>8 DEF B

\* What the members of T own of D.
Owned(D, owner, V) == {x \in D : owner[x] \in V}

IsGroups(groups, T, D, owner, f) == \A c \in T : groups[c] = Over(Owned(D, owner, {c}), f)

\* The sum over the groups of some owners is the sum over all that they own.
LEMMA OverGroups ==
  ASSUME NEW D, NEW f, Ints(D, f), NEW T, IsFiniteSet(T), NEW owner,
         NEW groups, IsGroups(groups, T, D, owner, f), NEW S \in SUBSET T
  PROVE  Over(S, groups) = Over(Owned(D, owner, S), f) /\ Ints(S, groups)
<1> DEFINE own(V) == Owned(D, owner, V)
           Odd == {W \in SUBSET T : Over(W, groups) # Over(own(W), f)}
           Bad == {Cardinality(V) : V \in Odd}
<1>0. Ints(T, groups)
  <2>1. ASSUME NEW c \in T PROVE groups[c] \in Int
    <3>1. own({c}) \in SUBSET D
      BY DEF Owned
    <3> HIDE DEF own
    <3>2. Over(own({c}), f) \in Int
      BY <3>1, IntsWithin, OverType
    <3> QED
      BY <3>2 DEF IsGroups, own
  <2> QED
    BY <2>1 DEF Ints
<1>1. ASSUME Bad # {} PROVE FALSE
  <2>2. Bad \in SUBSET Nat
    <3>1. \A V \in Odd : Cardinality(V) \in Nat
      BY FS_Subset, FS_CardinalityType
    <3> QED
      BY <3>1
  <2>3. PICK n \in Bad : \A m \in Bad : n <= m
    <3> HIDE DEF Bad
    <3> QED
      BY <1>1, <2>2, LeastNat
  <2>4. PICK V \in SUBSET T : Over(V, groups) # Over(own(V), f) /\ n = Cardinality(V)
    BY <2>3
  <2>5. /\ own(V) \in SUBSET D /\ \A c : own({c}) \in SUBSET D
        /\ V = {} => own(V) = {}
        /\ \A c \in V : own({c}) \in SUBSET own(V) /\ own(V) \ own({c}) = own(V \ {c})
    BY DEF Owned
  <2> HIDE DEF own
  <2>6. V # {}
    <3> SUFFICES ASSUME V = {} PROVE FALSE
      OBVIOUS
    <3>1. Ints(V, groups) /\ Ints(own(V), f)
      BY <1>0, <2>5, IntsWithin
    <3>2. ZeroOn(V, groups) /\ ZeroOn(own(V), f)
      BY <2>5 DEF ZeroOn
    <3>3. Over(own(V), f) = 0 /\ Over(V, groups) = 0
      BY <3>1, <3>2, OverType
    <3> QED
      BY <2>4, <3>3
  <2>7. PICK c \in V : TRUE
    BY <2>6
  <2> DEFINE W == V \ {c}
  <2>8. W \in SUBSET T /\ c \in T /\ c \notin W /\ W \cup {c} = V
    BY <2>7
  <2> HIDE DEF W
  <2>9. Over(V, groups) = Over(W, groups) + Over(own({c}), f)
    <3>1. groups[c] = Over(own({c}), f)
      BY <2>8 DEF IsGroups, own
    <3>2. Ints(W, groups) /\ groups[c] \in Int
      <4>1. groups[c] \in Int
        BY <1>0, <2>8 DEF Ints
      <4> QED
        BY <1>0, <2>8, <4>1, IntsWithin
    <3>3. Over(W \cup {c}, groups) = Over(W, groups) + groups[c]
      BY <2>8, <3>2, OverMore
    <3> QED
      BY <2>8, <3>1, <3>3
  <2>10. Over(own(V), f) = Over(own({c}), f) + Over(own(W), f)
    <3>1. Ints(own(V), f) /\ own({c}) \in SUBSET own(V)
      BY <2>5, <2>7, IntsWithin
    <3>2. /\ Over(own({c}), f) \in Int /\ Over(own(V) \ own({c}), f) \in Int
          /\ Over(own(V), f) = Over(own({c}), f) + Over(own(V) \ own({c}), f)
      BY <3>1, OverSplit
    <3> QED
      BY <2>5, <2>7, <3>2 DEF W
  <2>11. Cardinality(W) \in Bad
    <3>1. Over(own({c}), f) \in Int
      BY <2>5, IntsWithin, OverType
    <3>2. Over(W, groups) \in Int
      BY <1>0, <2>8, IntsWithin, OverType
    <3>3. Over(own(W), f) \in Int
      <4>1. own(W) \in SUBSET D
        BY DEF own, Owned
      <4> QED
        BY <4>1, IntsWithin, OverType
    <3>4. Over(W, groups) # Over(own(W), f)
      BY <2>4, <2>9, <2>10, <3>1, <3>2, <3>3
    <3> QED
      BY <2>8, <3>4
  <2>12. Cardinality(W) = n - 1 /\ n \in Nat
    <3>1. IsFiniteSet(V) /\ c \in V
      BY <2>7, FS_Subset
    <3>2. Cardinality(V \ {c}) = Cardinality(V) - 1
      BY <3>1, FS_RemoveElement
    <3> QED
      BY <2>2, <2>3, <2>4, <3>2 DEF W
  <2> HIDE DEF Bad
  <2> QED
    BY <2>3, <2>11, <2>12
<1>2. S \notin Odd
  BY <1>1
<1>3. Ints(S, groups)
  BY <1>0, IntsWithin
<1> QED
  BY <1>2, <1>3

\* Sums of equal values are equal, and a sum grows with its values.
LEMMA OverEqual ==
  ASSUME NEW K, NEW f, NEW g, \A x \in K : f[x] = g[x] PROVE Over(K, f) = Over(K, g)
<1>1. [x \in K |-> f[x]] = [x \in K |-> g[x]]
  OBVIOUS
<1> QED
  BY <1>1 DEF Over

AtMost(K, f, g) == \A x \in K : f[x] <= g[x]

\* Sums over a set keep the order of their terms.
LEMMA OverLess ==
  ASSUME NEW K, NEW f, Ints(K, f), NEW g, Ints(K, g), AtMost(K, f, g)
  PROVE  Over(K, f) <= Over(K, g)
<1> DEFINE a == [x \in K |-> f[x]]
           b == [x \in K |-> g[x]]
<1>1. IsFiniteSet(K) /\ a \in [K -> Int] /\ b \in [K -> Int] /\ \A x \in K : a[x] <= b[x]
  BY DEF Ints, AtMost
<1> HIDE DEF a, b
<1>2. SumOf(a) <= SumOf(b)
  BY <1>1, SumOfLess
<1> QED
  BY <1>2 DEF Over, a, b

NoneNegative(K, f) == \A x \in K : f[x] >= 0

\* A sum of naturals is one, and 0 only if each is.
LEMMA OverNaturals ==
  ASSUME NEW K, NEW f, Ints(K, f), NoneNegative(K, f)
  PROVE  Over(K, f) \in Nat /\ (Over(K, f) = 0 => ZeroOn(K, f))
<1>1. ASSUME NEW S \in SUBSET K PROVE Over(S, f) \in Int /\ Over(S, f) >= 0
  <2> DEFINE zero == [x \in S |-> 0]
  <2>1. Ints(S, f) /\ Ints(S, zero) /\ AtMost(S, zero, f) /\ ZeroOn(S, zero)
    BY FS_Subset DEF Ints, AtMost, ZeroOn, NoneNegative
  <2> HIDE DEF zero
  <2>2. Over(S, zero) <= Over(S, f) /\ Over(S, zero) = 0 /\ Over(S, f) \in Int
    BY <2>1, OverLess, OverType
  <2> QED
    BY <2>2
<1>2. ASSUME Over(K, f) = 0, NEW x \in K PROVE f[x] = 0
  <2> DEFINE S == K \ {x}
  <2>1. Over(S, f) \in Int /\ Over(S, f) >= 0
    BY <1>1
  <2>2. Ints(S, f) /\ f[x] \in Int /\ f[x] >= 0 /\ S \cup {x} = K /\ x \notin S
    BY FS_Subset DEF Ints, NoneNegative
  <2> HIDE DEF S
  <2>3. Over(S \cup {x}, f) = Over(S, f) + f[x]
    BY <2>2, OverMore
  <2> QED
    BY <1>2, <2>1, <2>2, <2>3
<1>3. Over(K, f) \in Nat
  BY <1>1
<1> QED
  BY <1>2, <1>3 DEF ZeroOn

-----------------------------------------------------------------------------
(* Conservation.                                                           *)

\* A step passes a set of nodes by, or it enters it once and leaves it once.
Passes(step, nodes) ==
  \/ \A a \in step : a[1] \notin nodes /\ a[2] \notin nodes
  \/ \E out, in \in step : \A a \in step : /\ a[1] \in nodes <=> a = out
                                           /\ a[2] \in nodes <=> a = in

\* A node between the two ends of the network, or both ends.
Conserves(nodes) ==
  (\E v : v # Source /\ v # Sink /\ nodes = {v}) \/ nodes = {Source, Sink}

\* An augmenting path passes them.
LEMMA PathPasses ==
  ASSUME NEW arcs, NEW path, IsPath(arcs, path), NEW nodes, Conserves(nodes)
  PROVE  Passes(ArcsOf(path), nodes)
<1> DEFINE n == Len(path)
           arc(i) == <<path[i], path[i + 1]>>
<1>1. n \in Nat /\ n > 1
  BY DEF IsPath
<1>2. \A i \in 1 .. n - 1 : i \in 1 .. n /\ i + 1 \in 1 .. n /\ i + 1 # 1 /\ i # n /\ i \in Int
  BY <1>1
<1>3. ArcsOf(path) = {arc(i) : i \in 1 .. n - 1}
  BY DEF ArcsOf
<1>4. \A i, j \in 1 .. n : path[i] = path[j] => i = j
  BY DEF IsPath
<1>5. path[1] = Source /\ path[n] = Sink
  BY DEF IsPath
<1> HIDE DEF n
<1>6. ASSUME NEW V, NEW i \in 1 .. n - 1, NEW j \in 1 .. n - 1,
             \A k \in 1 .. n - 1 : (path[k] \in V <=> k = i) /\ (path[k + 1] \in V <=> k = j)
      PROVE  Passes(ArcsOf(path), V)
  <2>1. \A k \in 1 .. n - 1 : arc(k)[1] = path[k] /\ arc(k)[2] = path[k + 1]
    OBVIOUS
  <2>2. \A k \in 1 .. n - 1 : (arc(k) = arc(i) => k = i) /\ (arc(k) = arc(j) => k = j)
    BY <1>2, <1>4, <2>1
  <2> HIDE DEF arc
  <2>3. \A k \in 1 .. n - 1 : /\ arc(k)[1] \in V <=> arc(k) = arc(i)
                              /\ arc(k)[2] \in V <=> arc(k) = arc(j)
    BY <1>6, <2>1, <2>2
  <2> QED
    BY <1>3, <2>3 DEF Passes
<1>7. ASSUME NEW v, v # Source, v # Sink PROVE Passes(ArcsOf(path), {v})
  <2>1. CASE \A i \in 1 .. n : path[i] # v
    <3>1. \A i \in 1 .. n - 1 : arc(i)[1] # v /\ arc(i)[2] # v
      BY <1>2, <2>1
    <3> QED
      BY <1>3, <3>1 DEF Passes
  <2>2. ASSUME NEW i \in 1 .. n, path[i] = v PROVE Passes(ArcsOf(path), {v})
    <3>1. i # 1 /\ i # n
      BY <1>5, <1>7, <2>2
    <3>2. i \in 1 .. n - 1 /\ i - 1 \in 1 .. n - 1 /\ (i - 1) + 1 = i
      BY <1>1, <3>1
    <3>3. \A k \in 1 .. n - 1 : path[k] = v <=> k = i
      BY <1>2, <1>4, <2>2
    <3>4. \A k \in 1 .. n - 1 : path[k + 1] = v <=> k = i - 1
      <4> TAKE k \in 1 .. n - 1
      <4>1. path[k + 1] = v <=> k + 1 = i
        BY <1>2, <1>4, <2>2
      <4> QED
        BY <3>2, <4>1
    <3> DEFINE V == {v}
    <3>5. \A k \in 1 .. n - 1 : (path[k] \in V <=> k = i) /\ (path[k + 1] \in V <=> k = i - 1)
      BY <3>3, <3>4
    <3> HIDE DEF V
    <3>6. Passes(ArcsOf(path), V)
      BY <1>6, <3>2, <3>5
    <3> QED
      BY <3>6 DEF V
  <2> QED
    BY <2>1, <2>2
<1>8. Passes(ArcsOf(path), {Source, Sink})
  <2>1. 1 \in 1 .. n - 1 /\ n - 1 \in 1 .. n - 1 /\ 1 \in 1 .. n /\ n \in 1 .. n
    BY <1>1
  <2>2. \A k \in 1 .. n - 1 : path[k] \in {Source, Sink} <=> k = 1
    BY <1>2, <1>4, <1>5, <2>1
  <2>3. \A k \in 1 .. n - 1 : path[k + 1] \in {Source, Sink} <=> k = n - 1
    <3> TAKE k \in 1 .. n - 1
    <3>1. path[k + 1] \in {Source, Sink} <=> k + 1 = n
      BY <1>2, <1>4, <1>5, <2>1
    <3> QED
      BY <1>1, <3>1
  <2> DEFINE V == {Source, Sink}
             end == n - 1
  <2>4. /\ 1 \in 1 .. n - 1 /\ end \in 1 .. n - 1
        /\ \A k \in 1 .. n - 1 : (path[k] \in V <=> k = 1) /\ (path[k + 1] \in V <=> k = end)
    BY <2>1, <2>2, <2>3
  <2> HIDE DEF V, end
  <2>5. Passes(ArcsOf(path), V)
    BY <1>6, <2>4
  <2> QED
    BY <2>5 DEF V
<1>9. CASE nodes = {Source, Sink}
  BY <1>8, <1>9
<1>10. ASSUME NEW v, v # Source, v # Sink, nodes = {v} PROVE Passes(ArcsOf(path), nodes)
  BY <1>7, <1>10
<1> QED
  BY <1>9, <1>10 DEF Conserves

\* at lists the arcs that leave a set of nodes: all that can ever be used.
Leaving(full, nodes, at) ==
  /\ IsFiniteSet(DOMAIN at) /\ at \in [DOMAIN at -> Arcs]
  /\ \A d, e \in DOMAIN at : at[d] = at[e] => d = e
  /\ \A d \in DOMAIN at : at[d][1] \in nodes
  /\ \A a \in Arcs : a[1] \in nodes /\ full[a] + full[Backward(a)] # 0
                     => \E d \in DOMAIN at : a = at[d]

\* What the arcs of a list have.
TotalOf(r, at) == SumOf([d \in DOMAIN at |-> r[at[d]]])

\* A push along a path that passes a set of nodes leaves in total what leaves the set.
LEMMA PassKeeps ==
  ASSUME NEW full \in [Arcs -> Int], NEW r, Residual(full, r), PathOf(r) # {},
         NEW nodes, NEW at, Leaving(full, nodes, at), Passes(PathOf(r), nodes)
  PROVE  TotalOf(Pushing(r), at) = TotalOf(r, at)
<1> DEFINE step == PathOf(r)
           inc == Increment(r, step)
           q == push(r, step, inc)
           D == DOMAIN at
           f == [d \in D |-> r[at[d]]]
           g == [d \in D |-> q[at[d]]]
<1>1. r \in [Arcs -> Int]
  BY DEF Residual
<1>2. IsStep(Usable(r), step) /\ Passes(step, nodes)
  BY <1>1, PathTaken
<1> HIDE DEF step
<1>3. /\ inc \in Nat
      /\ \A a \in step : a \in Arcs /\ Backward(a) \notin step
      /\ q \in [Arcs -> Int]
      /\ \A a \in Arcs : q[a] = IF a \in step THEN r[a] - inc
                                ELSE IF Backward(a) \in step THEN r[a] + inc ELSE r[a]
  BY <1>1, <1>2, PushFacts DEF IsStep
<1>4. \A a \in step : full[a] + full[Backward(a)] # 0
  <2> TAKE a \in step
  <2>1. a \in Arcs /\ r[a] > 0 /\ Backward(a) \in Arcs
    BY <1>2, ArcFacts DEF IsStep, Usable
  <2>2. r[a] \in Int /\ r[Backward(a)] \in Int /\ r[Backward(a)] >= 0
        /\ r[a] + r[Backward(a)] = full[a] + full[Backward(a)]
    BY <2>1 DEF Residual
  <2> QED
    BY <2>1, <2>2
<1> HIDE DEF inc, q
<1>5. /\ IsFiniteSet(D) /\ \A d \in D : at[d] \in Arcs /\ at[d][1] \in nodes
      /\ \A d, e \in D : at[d] = at[e] => d = e
  BY DEF Leaving
<1>6. f \in [D -> Int] /\ g \in [D -> Int]
  BY <1>1, <1>3, <1>5
<1>7. \A a \in Arcs : /\ Backward(a) \in Arcs /\ Backward(Backward(a)) = a
                      /\ Backward(a)[1] = a[2] /\ Backward(a)[2] = a[1]
  BY ArcFacts DEF Backward
<1>8. CASE \A a \in step : a[1] \notin nodes /\ a[2] \notin nodes
  <2>1. \A d \in D : q[at[d]] = r[at[d]]
    BY <1>3, <1>5, <1>7, <1>8
  <2> QED
    BY <2>1 DEF TotalOf, Pushing, q, inc, step
<1>9. ASSUME NEW out \in step, NEW in \in step,
             \A a \in step : (a[1] \in nodes <=> a = out) /\ (a[2] \in nodes <=> a = in)
      PROVE  SumOf(g) = SumOf(f)
  <2>1. out \in Arcs /\ in \in Arcs /\ out[1] \in nodes /\ in[2] \in nodes
    BY <1>3, <1>9
  <2>2. PICK x \in D : out = at[x]
    BY <1>4, <2>1 DEF Leaving
  <2>3. PICK y \in D : Backward(in) = at[y]
    <3>1. full[Backward(in)] + full[Backward(Backward(in))] # 0
      <4>1. full[in] \in Int /\ full[Backward(in)] \in Int
        BY <1>7, <2>1
      <4> QED
        BY <1>4, <1>7, <2>1, <4>1
    <3> QED
      BY <1>7, <2>1, <3>1 DEF Leaving
  <2>4. at[y] \notin step /\ Backward(at[y]) = in
    BY <1>3, <1>7, <2>1, <2>3
  <2>5. x # y
    BY <2>2, <2>4
  <2>6. q[at[x]] = r[at[x]] - inc /\ q[at[y]] = r[at[y]] + inc
    BY <1>3, <1>5, <2>2, <2>4
  <2>7. ASSUME NEW z \in D, z # x, z # y PROVE q[at[z]] = r[at[z]]
    <3>1. at[z] \in Arcs /\ at[z][1] \in nodes /\ at[z] # out /\ at[z] # at[y]
      BY <1>5, <2>2, <2>7
    <3>2. at[z] \notin step
      BY <1>9, <3>1
    <3>3. Backward(at[z]) \notin step
      <4> SUFFICES ASSUME Backward(at[z]) \in step PROVE FALSE
        OBVIOUS
      <4>1. Backward(at[z]) = in
        BY <1>7, <1>9, <3>1
      <4> QED
        BY <1>7, <2>3, <3>1, <4>1
    <3> QED
      BY <1>3, <3>1, <3>2, <3>3
  <2>8. g[x] + g[y] = f[x] + f[y]
    <3>1. r[at[x]] \in Int /\ r[at[y]] \in Int
      BY <1>1, <1>5
    <3> QED
      BY <1>3, <2>6, <3>1
  <2>9. \A z \in D : z # x /\ z # y => g[z] = f[z]
    BY <2>7
  <2> HIDE DEF f, g, D
  <2> QED
    BY <1>5, <1>6, <2>5, <2>8, <2>9, SumOfMoved
<1>10. CASE \E out, in \in step :
              \A a \in step : (a[1] \in nodes <=> a = out) /\ (a[2] \in nodes <=> a = in)
  BY <1>9, <1>10 DEF TotalOf, Pushing, q, inc, step
<1> QED
  BY <1>2, <1>8, <1>10 DEF Passes

\* What flows through an arc of the network: forwards, or backwards.
Net(flow, a) == IF a \in Edges THEN flow[a] ELSE 0 - flow[Backward(a)]

\* What enters a node leaves it, and what leaves the source enters the sink.
LEMMA FlowBalances ==
  ASSUME NEW full \in [Arcs -> Nat], \A e \in Edges : full[Backward(e)] = 0,
         NEW nodes, NEW at, Leaving(full, nodes, at),
         Conserves(nodes),
         NEW net \in [DOMAIN at -> Int],
         \/ \A d \in DOMAIN at : net[d] = Net(edmonds_karp(full), at[d])
         \/ \A d \in DOMAIN at : net[d] = 0 - Net(edmonds_karp(full), at[d])
  PROVE  SumOf(net) = 0
<1> DEFINE left == augment[full]
           flow == edmonds_karp(full)
           D == DOMAIN at
           f == [d \in D |-> full[at[d]]]
           g == [d \in D |-> left[at[d]]]
           P == {x \in [Arcs -> Int] : Residual(full, x) /\ TotalOf(x, at) = TotalOf(full, at)}
<1>1. full \in [Arcs -> Int]
  OBVIOUS
<1>2. full \in P
  BY <1>1, ArcFacts DEF Residual
<1>3. ASSUME NEW x \in P, PathOf(x) # {} PROVE Pushing(x) \in P
  <2>1. Residual(full, x) /\ TotalOf(x, at) = TotalOf(full, at)
    OBVIOUS
  <2>2. Residual(full, Pushing(x))
    BY <1>1, <1>3, <2>1, ResidualKept
  <2>3. Passes(PathOf(x), nodes)
    <3>1. Usable(x) \in SUBSET (Nodes \X Nodes)
      BY ArcFacts DEF Usable
    <3>2. PICK path : IsPath(Usable(x), path) /\ PathOf(x) = ArcsOf(path)
      BY <1>3, <3>1, PathFound DEF PathOf
    <3> QED
      BY <3>2, PathPasses
  <2> HIDE DEF P
  <2>4. TotalOf(Pushing(x), at) = TotalOf(x, at)
    BY <1>1, <1>3, <2>1, <2>3, PassKeeps
  <2> QED
    BY <2>1, <2>2, <2>4 DEF P, Residual
<1>4. left \in P
  <2>1. P \in SUBSET [Arcs -> Int]
    OBVIOUS
  <2> HIDE DEF P
  <2> QED
    BY <1>2, <1>3, <2>1, AugmentEnds
<1>5. Residual(full, left) /\ TotalOf(left, at) = TotalOf(full, at)
  BY <1>4
<1>6. flow = [e \in Edges |-> full[e] - left[e]]
  <2>1. left \in [Arcs -> Int]
    BY <1>5 DEF Residual
  <2> HIDE DEF left, P
  <2> QED
    BY <1>1, <2>1 DEF edmonds_karp, left
<1> HIDE DEF left, P, flow
<1>7. ASSUME NEW a \in Arcs
      PROVE  /\ full[a] \in Int /\ left[a] \in Int /\ Net(flow, a) \in Int
             /\ full[a] = left[a] + Net(flow, a)
  <2>1. /\ Backward(a) \in Arcs /\ Backward(Backward(a)) = a
        /\ a \in Edges \/ Backward(a) \in Edges
    BY ArcFacts
  <2>2. /\ left[a] \in Int /\ left[Backward(a)] \in Int
        /\ full[a] \in Int /\ full[Backward(a)] \in Int
        /\ left[a] + left[Backward(a)] = full[a] + full[Backward(a)]
    BY <1>1, <1>5, <2>1 DEF Residual
  <2>3. CASE a \in Edges
    <3>1. Net(flow, a) = full[a] - left[a]
      BY <1>6, <2>3 DEF Net
    <3> QED
      BY <2>2, <3>1
  <2>4. CASE a \notin Edges
    <3>1. Net(flow, a) = 0 - (full[Backward(a)] - left[Backward(a)])
      BY <1>6, <2>1, <2>4 DEF Net
    <3>2. full[a] = 0
      BY <2>1, <2>4
    <3> QED
      BY <2>2, <3>1, <3>2
  <2> QED
    BY <2>3, <2>4
<1>8. IsFiniteSet(D) /\ \A d \in D : at[d] \in Arcs
  BY DEF Leaving
<1>9. f \in [D -> Int] /\ g \in [D -> Int] /\ net \in [D -> Int]
  BY <1>7, <1>8
<1>10. SumOf(f) = SumOf(g)
  BY <1>5 DEF TotalOf
<1>11. CASE \A d \in D : net[d] = Net(flow, at[d])
  <2>1. \A d \in D : f[d] = g[d] + net[d]
    BY <1>7, <1>8, <1>11
  <2> HIDE DEF D, f, g
  <2>2. SumOf(g) \in Int /\ SumOf(net) \in Int /\ SumOf(f) = SumOf(g) + SumOf(net)
    BY <1>8, <1>9, <2>1, SumOfBoth
  <2> QED
    BY <1>10, <2>2
<1>12. CASE \A d \in D : net[d] = 0 - Net(flow, at[d])
  <2>1. \A d \in D : g[d] = f[d] + net[d]
    <3> TAKE d \in D
    <3>1. /\ f[d] = full[at[d]] /\ g[d] = left[at[d]] /\ net[d] = 0 - Net(flow, at[d])
          /\ at[d] \in Arcs
      BY <1>8, <1>12
    <3> HIDE DEF D, f, g
    <3> QED
      BY <1>7, <3>1
  <2> HIDE DEF D, f, g
  <2>2. SumOf(f) \in Int /\ SumOf(net) \in Int /\ SumOf(g) = SumOf(f) + SumOf(net)
    BY <1>8, <1>9, <2>1, SumOfBoth
  <2> QED
    BY <1>10, <2>2
<1> QED
  BY <1>11, <1>12 DEF flow

-----------------------------------------------------------------------------
(* The nodes of the network.                                               *)

\* The edges at each node.
LEMMA EdgesAtNodes ==
  \A e \in Edges :
    /\ \A c \in Components :
         /\ e[1] = In(c) => e = ComponentEdge(c)
         /\ e[2] = In(c) => e = SourceEdge(c) \/ \E k \in InputsOf(c) : e = SecondEdge(k)
         /\ e[1] = Out(c) => \/ c \in Loads /\ e = SinkEdge(c)
                             \/ \E k \in OutputsOf(c) : e = FirstEdge(k)
         /\ e[2] = Out(c) => e = ComponentEdge(c)
    /\ \A k \in Connections : /\ e[1] = ConnectionNode(k) => e = SecondEdge(k)
                              /\ e[2] = ConnectionNode(k) => e = FirstEdge(k)
    /\ e[1] = Source => \E c \in Components : e = SourceEdge(c)
    /\ e[2] = Sink => \E c \in Loads : e = SinkEdge(c)
    /\ e[1] # Sink /\ e[2] # Source
<1> DEFINE Here(e) ==
             /\ \A c \in Components :
                  /\ e[1] = In(c) => e = ComponentEdge(c)
                  /\ e[2] = In(c) => e = SourceEdge(c) \/ \E k \in InputsOf(c) : e = SecondEdge(k)
                  /\ e[1] = Out(c) => \/ c \in Loads /\ e = SinkEdge(c)
                                      \/ \E k \in OutputsOf(c) : e = FirstEdge(k)
                  /\ e[2] = Out(c) => e = ComponentEdge(c)
             /\ \A k \in Connections : /\ e[1] = ConnectionNode(k) => e = SecondEdge(k)
                                       /\ e[2] = ConnectionNode(k) => e = FirstEdge(k)
             /\ e[1] = Source => \E c \in Components : e = SourceEdge(c)
             /\ e[2] = Sink => \E c \in Loads : e = SinkEdge(c)
             /\ e[1] # Sink /\ e[2] # Source
<1>1. \A c \in Components : c \in Int /\ c > 0 /\ c <= 250
  BY SiteFacts
<1>2. \A k \in Connections : /\ k \in Int /\ k > 0 /\ k <= 500
                             /\ connection[k].from_component \in Components
                             /\ connection[k].to_component \in Components
  BY SiteFacts
<1>3. /\ \A c, d \in Components : /\ In(c) = In(d) => c = d
                                  /\ Out(c) = Out(d) => c = d
                                  /\ In(c) # Out(d)
      /\ \A c \in Components : /\ In(c) # Source /\ In(c) # Sink
                               /\ Out(c) # Source /\ Out(c) # Sink
      /\ \A k, l \in Connections : ConnectionNode(k) = ConnectionNode(l) => k = l
      /\ \A k \in Connections : /\ ConnectionNode(k) # Source /\ ConnectionNode(k) # Sink
                                /\ \A c \in Components : /\ ConnectionNode(k) # In(c)
                                                         /\ ConnectionNode(k) # Out(c)
      /\ Source # Sink
  BY <1>1, <1>2 DEF In, Out, ConnectionNode, Source, Sink
<1>4. ASSUME NEW d \in Components PROVE Here(ComponentEdge(d))
  BY <1>3 DEF ComponentEdge
<1>5. ASSUME NEW d \in Components PROVE Here(SourceEdge(d))
  BY <1>3 DEF SourceEdge
<1>6. ASSUME NEW d \in Loads PROVE Here(SinkEdge(d))
  BY <1>3, SiteFacts DEF SinkEdge
<1>7. ASSUME NEW k \in Connections PROVE Here(FirstEdge(k))
  <2>1. k \in OutputsOf(connection[k].from_component)
    BY DEF OutputsOf
  <2> QED
    BY <1>2, <1>3, <2>1 DEF FirstEdge
<1>8. ASSUME NEW k \in Connections PROVE Here(SecondEdge(k))
  <2>1. k \in InputsOf(connection[k].to_component)
    BY DEF InputsOf
  <2> QED
    BY <1>2, <1>3, <2>1 DEF SecondEdge
<1> HIDE DEF Here
<1>9. \A e \in Edges : Here(e)
  BY <1>4, <1>5, <1>6, <1>7, <1>8
     DEF Edges, ComponentEdges, FirstEdges, SecondEdges, SourceEdges, SinkEdges
<1> QED
  BY <1>9 DEF Here

\* The network of a load: no reverse arc has a capacity, and no sink edge but its own.
IsFull(full, load) ==
  /\ full \in [Arcs -> Nat]
  /\ \A e \in Edges : full[Backward(e)] = 0
  /\ \A c \in Loads : c # load => full[SinkEdge(c)] = 0

\* The nodes are of the kinds that FlowBalances is about, and differ.
LEMMA NodesDiffer ==
  /\ \A c \in Components : /\ Conserves({In(c)}) /\ Conserves({Out(c)})
                           /\ In(c) # Source /\ In(c) # Sink /\ Out(c) # Source /\ Out(c) # Sink
  /\ \A c, d \in Components : (In(c) = In(d) => c = d) /\ (Out(c) = Out(d) => c = d) /\ In(c) # Out(d)
  /\ \A k \in Connections : /\ Conserves({ConnectionNode(k)})
                            /\ ConnectionNode(k) # Source /\ ConnectionNode(k) # Sink
                            /\ \A c \in Components : /\ ConnectionNode(k) # In(c)
                                                     /\ ConnectionNode(k) # Out(c)
  /\ \A k, l \in Connections : ConnectionNode(k) = ConnectionNode(l) => k = l
  /\ Conserves({Source, Sink}) /\ Source # Sink
<1>1. \A c \in Components : c \in Int /\ c > 0 /\ c <= 250
  BY SiteFacts
<1>2. \A k \in Connections : k \in Int /\ k > 0 /\ k <= 500
  BY SiteFacts
<1>3. /\ \A c, d \in Components : /\ In(c) = In(d) => c = d
                                  /\ Out(c) = Out(d) => c = d
                                  /\ In(c) # Out(d)
      /\ \A c \in Components : /\ In(c) # Source /\ In(c) # Sink
                               /\ Out(c) # Source /\ Out(c) # Sink
      /\ \A k, l \in Connections : ConnectionNode(k) = ConnectionNode(l) => k = l
      /\ \A k \in Connections : /\ ConnectionNode(k) # Source /\ ConnectionNode(k) # Sink
                                /\ \A c \in Components : /\ ConnectionNode(k) # In(c)
                                                         /\ ConnectionNode(k) # Out(c)
      /\ Source # Sink
  BY <1>1, <1>2 DEF In, Out, ConnectionNode, Source, Sink
<1>4. \A v : v # Source /\ v # Sink => Conserves({v})
  BY DEF Conserves
<1>5. Conserves({Source, Sink})
  BY DEF Conserves
<1> QED
  BY <1>3, <1>4, <1>5

\* Two arcs can be listed.
LEMMA PairFinite == IsFiniteSet({0, 1})
<1>1. {0, 1} = 0 .. 1
  OBVIOUS
<1>2. IsFiniteSet(0 .. 1)
  <2> DEFINE one == 1
  <2>1. one \in Int /\ 0 \in Int
    OBVIOUS
  <2> HIDE DEF one
  <2>2. IsFiniteSet(0 .. one)
    BY <2>1, FS_Interval
  <2> QED
    BY <2>2 DEF one
<1> QED
  BY <1>1, <1>2

\* What flows into a connection flows out of it.
LEMMA ConnectionBalance ==
  ASSUME NEW full, NEW load, IsFull(full, load), NEW k \in Connections
  PROVE  edmonds_karp(full)[FirstEdge(k)] = edmonds_karp(full)[SecondEdge(k)]
<1> DEFINE flow == edmonds_karp(full)
           D == {0, 1}
           at == [d \in D |-> IF d = 0 THEN SecondEdge(k) ELSE Backward(FirstEdge(k))]
           net == [d \in D |-> IF d = 0 THEN flow[SecondEdge(k)] ELSE 0 - flow[FirstEdge(k)]]
           none == [d \in {} |-> 0]
<1>0. IsFiniteSet(D)
  BY PairFinite
<1>1. full \in [Arcs -> Nat] /\ \A e \in Edges : full[Backward(e)] = 0
  BY DEF IsFull
<1>2. flow \in [Edges -> Nat]
  BY <1>1, FlowWithinCapacity
<1>3. /\ SecondEdge(k) \in Edges /\ FirstEdge(k) \in Edges
      /\ SecondEdge(k) \in Arcs /\ Backward(FirstEdge(k)) \in Arcs
      /\ Backward(Backward(FirstEdge(k))) = FirstEdge(k)
      /\ Backward(FirstEdge(k)) \notin Edges
  BY KindsApart, ArcFacts, EdgeFacts DEF Edges, Backward
<1>4. /\ SecondEdge(k)[1] = ConnectionNode(k) /\ Backward(FirstEdge(k))[1] = ConnectionNode(k)
      /\ SecondEdge(k) # Backward(FirstEdge(k))
  BY <1>3 DEF SecondEdge, FirstEdge, Backward
<1> HIDE DEF flow
<1>5. Leaving(full, {ConnectionNode(k)}, at)
  <2>2. ASSUME NEW a \in Arcs, a[1] = ConnectionNode(k) PROVE \E d \in D : a = at[d]
    <3>1. CASE a \in Edges
      <4>1. a = at[0]
        BY <2>2, <3>1, EdgesAtNodes
      <4> QED
        BY <4>1
    <3>2. CASE a \notin Edges
      <4>1. /\ Backward(a) \in Edges /\ Backward(a)[2] = ConnectionNode(k)
            /\ Backward(Backward(a)) = a
        BY <2>2, <3>2, ArcFacts DEF Backward
      <4>2. a = at[1]
        BY <4>1, EdgesAtNodes
      <4> QED
        BY <4>2
    <3> QED
      BY <3>1, <3>2
  <2>3. /\ DOMAIN at = D /\ at \in [D -> Arcs]
        /\ \A d \in D : at[d][1] \in {ConnectionNode(k)}
        /\ \A d, e \in D : at[d] = at[e] => d = e
    BY <1>3, <1>4
  <2> HIDE DEF D, at
  <2> QED
    BY <1>0, <2>2, <2>3 DEF Leaving
<1>6. DOMAIN at = D /\ net \in [D -> Int] /\ \A d \in D : net[d] = Net(flow, at[d])
  <2>1. flow[SecondEdge(k)] \in Int /\ 0 - flow[FirstEdge(k)] \in Int
    BY <1>2, <1>3
  <2> QED
    BY <1>3, <2>1 DEF Net
<1>7. SumOf(net) = 0
  <2> HIDE DEF D, at, net
  <2> QED
    BY <1>1, <1>5, <1>6, NodesDiffer, FlowBalances DEF flow
<1>8. none \in [{} -> Int] /\ SumOf(none) = 0
  <2>1. none \in [{} -> Int]
    OBVIOUS
  <2> HIDE DEF none
  <2> QED
    BY <2>1, SumOfNone
<1>9. SumOf(net) = 0 + net[0] + net[1]
  <2>2. 0 \in D /\ 1 \in D /\ 0 # 1 /\ {} \in SUBSET D /\ (\A z \in D : z \in {} <=> z # 0 /\ z # 1)
    OBVIOUS
  <2>3. \A z \in {} : none[z] = net[z]
    OBVIOUS
  <2> HIDE DEF D, net, none
  <2> QED
    BY <1>0, <1>6, <1>8, <2>2, <2>3, SumOfTwoMore
<1>10. flow[SecondEdge(k)] \in Int /\ flow[FirstEdge(k)] \in Int
  BY <1>2, <1>3
<1>11. net[0] = flow[SecondEdge(k)] /\ net[1] = 0 - flow[FirstEdge(k)]
  OBVIOUS
<1> HIDE DEF net
<1>12. \A x, y, p, q \in Int : p = 0 - y /\ q = x /\ 0 + q + p = 0 => y = x
  OBVIOUS
<1>13. net[1] \in Int /\ net[0] \in Int
  BY <1>10, <1>11
<1> HIDE DEF D, at, none
<1>14. flow[FirstEdge(k)] = flow[SecondEdge(k)]
  BY <1>7, <1>9, <1>10, <1>11, <1>12, <1>13
<1> QED
  BY <1>14 DEF flow

\* Two arcs more can be listed.
LEMMA ListFinite ==
  ASSUME NEW S, IsFiniteSet(S), NEW x, NEW y
  PROVE  IsFiniteSet(S \cup {x, y})
<1>1. IsFiniteSet(S \cup {x})
  BY FS_AddElement
<1>2. IsFiniteSet((S \cup {x}) \cup {y})
  BY <1>1, FS_AddElement
<1>3. (S \cup {x}) \cup {y} = S \cup {x, y}
  OBVIOUS
<1> QED
  BY <1>2, <1>3

\* What flows into a component, from its inputs and as a source, flows through it.
LEMMA InBalance ==
  ASSUME NEW full, NEW load, IsFull(full, load), NEW c \in Components,
         NEW fed, fed = [k \in InputsOf(c) |-> edmonds_karp(full)[SecondEdge(k)]]
  PROVE  /\ fed \in [InputsOf(c) -> Nat] /\ SumOf(fed) \in Int
         /\ edmonds_karp(full)[ComponentEdge(c)] = SumOf(fed) + edmonds_karp(full)[SourceEdge(c)]
<1> DEFINE flow == edmonds_karp(full)
           end == 0 - 1
           D == InputsOf(c) \cup {0, end}
           at == [d \in D |-> IF d = 0 THEN ComponentEdge(c)
                              ELSE IF d = end THEN Backward(SourceEdge(c))
                              ELSE Backward(SecondEdge(d))]
           net == [d \in D |-> IF d = 0 THEN 0 - flow[ComponentEdge(c)]
                               ELSE IF d = end THEN flow[SourceEdge(c)]
                               ELSE flow[SecondEdge(d)]]
<1>0. IsFiniteSet(InputsOf(c)) /\ IsFiniteSet(D)
  <2>1. InputsOf(c) \subseteq Connections
    BY DEF InputsOf
  <2>2. IsFiniteSet(InputsOf(c))
    BY <2>1, SiteFacts, FS_Subset
  <2> QED
    BY <2>2, ListFinite
<1>1. full \in [Arcs -> Nat] /\ \A e \in Edges : full[Backward(e)] = 0
  BY DEF IsFull
<1>2. flow \in [Edges -> Nat]
  BY <1>1, FlowWithinCapacity
<1>3. 0 # end /\ \A k \in InputsOf(c) : k \in Connections /\ k # 0 /\ k # end
  BY SiteFacts DEF InputsOf
<1>4. /\ ComponentEdge(c) \in Edges /\ ComponentEdge(c) \in Arcs
      /\ SourceEdge(c) \in Edges /\ Backward(SourceEdge(c)) \in Arcs
      /\ Backward(SourceEdge(c)) \notin Edges
      /\ Backward(Backward(SourceEdge(c))) = SourceEdge(c)
  BY KindsApart, ArcFacts, EdgeFacts DEF Edges, Backward
<1>5. \A k \in Connections :
        /\ SecondEdge(k) \in Edges /\ Backward(SecondEdge(k)) \in Arcs
        /\ Backward(SecondEdge(k)) \notin Edges
        /\ Backward(Backward(SecondEdge(k))) = SecondEdge(k)
  BY KindsApart, ArcFacts, EdgeFacts DEF Edges, Backward
<1>6. ComponentEdge(c)[1] = In(c) /\ Backward(SourceEdge(c))[1] = In(c)
  BY DEF ComponentEdge, SourceEdge, Backward
<1>7. \A k \in InputsOf(c) : Backward(SecondEdge(k))[1] = In(c)
  BY DEF InputsOf, SecondEdge, Backward
<1>8. SourceEdge(c)[1] = Source /\ \A k \in Connections : SecondEdge(k)[1] = ConnectionNode(k)
  BY DEF SourceEdge, SecondEdge
<1>9. \A d \in D : d = 0 \/ d = end \/ d \in InputsOf(c)
  OBVIOUS
<1>10. /\ 0 \in D /\ end \in D /\ InputsOf(c) \in SUBSET D
       /\ \A d \in D : d \in InputsOf(c) <=> d # 0 /\ d # end
  BY <1>3
<1>11. /\ at[0] = ComponentEdge(c) /\ at[end] = Backward(SourceEdge(c))
       /\ net[0] = 0 - flow[ComponentEdge(c)] /\ net[end] = flow[SourceEdge(c)]
       /\ \A k \in InputsOf(c) : at[k] = Backward(SecondEdge(k)) /\ net[k] = flow[SecondEdge(k)]
  BY <1>3, <1>10
<1>12. /\ flow[ComponentEdge(c)] \in Int /\ flow[SourceEdge(c)] \in Int
       /\ 0 - flow[ComponentEdge(c)] \in Int
       /\ \A k \in InputsOf(c) : flow[SecondEdge(k)] \in Nat
  BY <1>2, <1>3, <1>4, <1>5
<1> HIDE DEF flow, end
<1>13. DOMAIN at = D /\ DOMAIN net = D
  OBVIOUS
<1>14. at = [d \in D |-> at[d]] /\ net = [d \in D |-> net[d]]
  OBVIOUS
<1> HIDE DEF D, at, net
<1>15. at \in [D -> Arcs] /\ net \in [D -> Int]
  <2>1. \A d \in D : at[d] \in Arcs
    BY <1>3, <1>4, <1>5, <1>9, <1>11
  <2>2. \A d \in D : net[d] \in Int
    BY <1>9, <1>11, <1>12
  <2> QED
    BY <1>14, <2>1, <2>2
<1>16. Leaving(full, {In(c)}, at)
  <2>1. \A d, e \in D : at[d] = at[e] => d = e
    <3>1. \A k \in InputsOf(c) : at[k] # at[0] /\ at[k] # at[end]
      <4> TAKE k \in InputsOf(c)
      <4>1. at[k] = Backward(SecondEdge(k)) /\ Backward(at[k]) = SecondEdge(k) /\ k \in Connections
        BY <1>3, <1>5, <1>11
      <4>2. at[k] # at[0]
        BY <1>4, <1>5, <1>11, <4>1
      <4>3. at[k] # at[end]
        <5>1. ConnectionNode(k) # Source
          BY <4>1, NodesDiffer
        <5>2. SecondEdge(k) # SourceEdge(c)
          BY <1>8, <4>1, <5>1
        <5>3. Backward(at[end]) = SourceEdge(c)
          BY <1>4, <1>11
        <5> QED
          BY <4>1, <5>2, <5>3
      <4> QED
        BY <4>2, <4>3
    <3>2. at[0] # at[end]
      BY <1>4, <1>11
    <3>3. \A k, l \in InputsOf(c) : at[k] = at[l] => k = l
      <4> TAKE k, l \in InputsOf(c)
      <4>1. at[k] = at[l] => SecondEdge(k) = SecondEdge(l)
        BY <1>3, <1>5, <1>11
      <4>2. SecondEdge(k) = SecondEdge(l) => ConnectionNode(k) = ConnectionNode(l)
        BY <1>3, <1>8
      <4> QED
        BY <1>3, <4>1, <4>2, NodesDiffer
    <3> QED
      BY <1>9, <3>1, <3>2, <3>3
  <2>2. \A d \in D : at[d][1] = In(c)
    BY <1>6, <1>7, <1>9, <1>11
  <2>3. ASSUME NEW a \in Arcs, a[1] = In(c) PROVE \E d \in D : a = at[d]
    <3>1. CASE a \in Edges
      <4>1. a = at[0]
        BY <1>11, <2>3, <3>1, EdgesAtNodes
      <4> QED
        BY <1>10, <4>1
    <3>2. CASE a \notin Edges
      <4>1. /\ Backward(a) \in Edges /\ Backward(a)[2] = In(c)
            /\ Backward(Backward(a)) = a
        BY <2>3, <3>2, ArcFacts DEF Backward
      <4>2. Backward(a) = SourceEdge(c) \/ \E k \in InputsOf(c) : Backward(a) = SecondEdge(k)
        BY <4>1, EdgesAtNodes
      <4>3. a = at[end] \/ \E k \in InputsOf(c) : a = at[k]
        BY <1>11, <4>1, <4>2
      <4> QED
        BY <1>10, <4>3
    <3> QED
      BY <3>1, <3>2
  <2>4. \A d \in D : at[d][1] \in {In(c)}
    BY <2>2
  <2>5. \A a \in Arcs : a[1] \in {In(c)} => \E d \in D : a = at[d]
    BY <2>3
  <2> QED
    BY <1>0, <1>13, <1>15, <2>1, <2>4, <2>5 DEF Leaving
<1>17. \A d \in D : net[d] = 0 - Net(flow, at[d])
  <2>1. net[0] = 0 - Net(flow, at[0])
    BY <1>4, <1>11 DEF Net
  <2>2. net[end] = 0 - Net(flow, at[end])
    <3>1. Net(flow, at[end]) = 0 - flow[SourceEdge(c)]
      BY <1>4, <1>11 DEF Net
    <3> QED
      BY <1>11, <1>12, <3>1
  <2>3. ASSUME NEW k \in InputsOf(c) PROVE net[k] = 0 - Net(flow, at[k])
    <3>1. Net(flow, at[k]) = 0 - flow[SecondEdge(k)]
      BY <1>3, <1>5, <1>11 DEF Net
    <3> QED
      BY <1>11, <1>12, <3>1
  <2> QED
    BY <1>9, <2>1, <2>2, <2>3
<1>18. SumOf(net) = 0
  <2> DEFINE V == {In(c)}
  <2>1. Conserves(V) /\ Leaving(full, V, at)
    BY <1>16, NodesDiffer
  <2>2. net \in [DOMAIN at -> Int] /\ \A d \in DOMAIN at : net[d] = 0 - Net(edmonds_karp(full), at[d])
    BY <1>13, <1>15, <1>17 DEF flow
  <2> HIDE DEF V
  <2> QED
    BY <1>1, <2>1, <2>2, FlowBalances
<1>19. fed \in [InputsOf(c) -> Nat] /\ fed \in [InputsOf(c) -> Int]
       /\ \A k \in InputsOf(c) : fed[k] = net[k]
  BY <1>11, <1>12 DEF flow
<1>20. SumOf(fed) \in Int /\ SumOf(net) = SumOf(fed) + net[0] + net[end]
  BY <1>0, <1>3, <1>10, <1>15, <1>19, SumOfTwoMore
<1>21. \A x, y, z \in Int : z + (0 - x) + y = 0 => x = z + y
  OBVIOUS
<1>22. flow[ComponentEdge(c)] = SumOf(fed) + flow[SourceEdge(c)]
  BY <1>11, <1>12, <1>18, <1>20, <1>21
<1> QED
  BY <1>19, <1>20, <1>22 DEF flow

\* What flows through a load serves it.
LEMMA LoadBalance ==
  ASSUME NEW full, NEW load, IsFull(full, load), NEW c \in Loads
  PROVE  edmonds_karp(full)[ComponentEdge(c)] = edmonds_karp(full)[SinkEdge(c)]
<1> DEFINE flow == edmonds_karp(full)
           D == {0, 1}
           at == [d \in D |-> IF d = 0 THEN SinkEdge(c) ELSE Backward(ComponentEdge(c))]
           net == [d \in D |-> IF d = 0 THEN flow[SinkEdge(c)] ELSE 0 - flow[ComponentEdge(c)]]
           none == [d \in {} |-> 0]
<1>0. IsFiniteSet(D)
  BY PairFinite
<1>1. full \in [Arcs -> Nat] /\ \A e \in Edges : full[Backward(e)] = 0
  BY DEF IsFull
<1>2. flow \in [Edges -> Nat]
  BY <1>1, FlowWithinCapacity
<1>a. c \in Components /\ OutputsOf(c) = {}
  <2>1. \A k \in Connections : connection[k].from_component # c
    BY SnapshotAssumption DEF ValidTopology
  <2> QED
    BY <2>1, SiteFacts DEF OutputsOf
<1>3. /\ SinkEdge(c) \in Edges /\ ComponentEdge(c) \in Edges
      /\ SinkEdge(c) \in Arcs /\ Backward(ComponentEdge(c)) \in Arcs
      /\ Backward(Backward(ComponentEdge(c))) = ComponentEdge(c)
      /\ Backward(ComponentEdge(c)) \notin Edges
  BY <1>a, KindsApart, ArcFacts, EdgeFacts DEF Edges, Backward
<1>4. /\ SinkEdge(c)[1] = Out(c) /\ Backward(ComponentEdge(c))[1] = Out(c)
      /\ SinkEdge(c) # Backward(ComponentEdge(c))
  BY <1>3 DEF SinkEdge, ComponentEdge, Backward
<1> HIDE DEF flow
<1>5. Leaving(full, {Out(c)}, at)
  <2>2. ASSUME NEW a \in Arcs, a[1] = Out(c) PROVE \E d \in D : a = at[d]
    <3>1. CASE a \in Edges
      <4>1. a = at[0]
        BY <1>a, <2>2, <3>1, EdgesAtNodes
      <4> QED
        BY <4>1
    <3>2. CASE a \notin Edges
      <4>1. /\ Backward(a) \in Edges /\ Backward(a)[2] = Out(c)
            /\ Backward(Backward(a)) = a
        BY <2>2, <3>2, ArcFacts DEF Backward
      <4>2. a = at[1]
        BY <1>a, <4>1, EdgesAtNodes
      <4> QED
        BY <4>2
    <3> QED
      BY <3>1, <3>2
  <2>3. /\ DOMAIN at = D /\ at \in [D -> Arcs]
        /\ \A d \in D : at[d][1] \in {Out(c)}
        /\ \A d, e \in D : at[d] = at[e] => d = e
    BY <1>3, <1>4
  <2> HIDE DEF D, at
  <2> QED
    BY <1>0, <2>2, <2>3 DEF Leaving
<1>6. DOMAIN at = D /\ net \in [D -> Int] /\ \A d \in D : net[d] = Net(flow, at[d])
  <2>1. flow[SinkEdge(c)] \in Int /\ 0 - flow[ComponentEdge(c)] \in Int
    BY <1>2, <1>3
  <2> QED
    BY <1>3, <2>1 DEF Net
<1>7. SumOf(net) = 0
  <2> DEFINE V == {Out(c)}
  <2>1. Conserves(V) /\ Leaving(full, V, at)
    BY <1>a, <1>5, NodesDiffer
  <2> HIDE DEF D, at, net, V
  <2>2. net \in [DOMAIN at -> Int] /\ \A d \in DOMAIN at : net[d] = Net(edmonds_karp(full), at[d])
    BY <1>6 DEF flow
  <2> QED
    BY <1>1, <2>1, <2>2, FlowBalances
<1>8. none \in [{} -> Int] /\ SumOf(none) = 0
  <2>1. none \in [{} -> Int]
    OBVIOUS
  <2> HIDE DEF none
  <2> QED
    BY <2>1, SumOfNone
<1>9. SumOf(net) = 0 + net[0] + net[1]
  <2>2. 0 \in D /\ 1 \in D /\ 0 # 1 /\ {} \in SUBSET D /\ (\A z \in D : z \in {} <=> z # 0 /\ z # 1)
    OBVIOUS
  <2>3. \A z \in {} : none[z] = net[z]
    OBVIOUS
  <2> HIDE DEF D, net, none
  <2> QED
    BY <1>0, <1>6, <1>8, <2>2, <2>3, SumOfTwoMore
<1>10. flow[SinkEdge(c)] \in Int /\ flow[ComponentEdge(c)] \in Int
  BY <1>2, <1>3
<1>11. net[0] = flow[SinkEdge(c)] /\ net[1] = 0 - flow[ComponentEdge(c)]
  OBVIOUS
<1> HIDE DEF net
<1>12. \A x, y, p, q \in Int : p = 0 - y /\ q = x /\ 0 + q + p = 0 => y = x
  OBVIOUS
<1>13. net[1] \in Int /\ net[0] \in Int
  BY <1>10, <1>11
<1> HIDE DEF D, at, none
<1>14. flow[ComponentEdge(c)] = flow[SinkEdge(c)]
  BY <1>7, <1>9, <1>10, <1>11, <1>12, <1>13
<1> QED
  BY <1>14 DEF flow

\* What flows through another component leaves by its outputs.
LEMMA OutBalance ==
  ASSUME NEW full, NEW load, IsFull(full, load), NEW c \in Components, c \notin Loads,
         NEW given, given = [k \in OutputsOf(c) |-> edmonds_karp(full)[FirstEdge(k)]]
  PROVE  /\ given \in [OutputsOf(c) -> Nat] /\ SumOf(given) \in Int
         /\ edmonds_karp(full)[ComponentEdge(c)] = SumOf(given)
<1> DEFINE flow == edmonds_karp(full)
           D == OutputsOf(c) \cup {0}
           at == [d \in D |-> IF d = 0 THEN Backward(ComponentEdge(c)) ELSE FirstEdge(d)]
           net == [d \in D |-> IF d = 0 THEN 0 - flow[ComponentEdge(c)] ELSE flow[FirstEdge(d)]]
<1>0. IsFiniteSet(OutputsOf(c)) /\ IsFiniteSet(D)
  <2>1. OutputsOf(c) \subseteq Connections
    BY DEF OutputsOf
  <2>2. IsFiniteSet(OutputsOf(c))
    BY <2>1, SiteFacts, FS_Subset
  <2> QED
    BY <2>2, FS_AddElement
<1>1. full \in [Arcs -> Nat] /\ \A e \in Edges : full[Backward(e)] = 0
  BY DEF IsFull
<1>2. flow \in [Edges -> Nat]
  BY <1>1, FlowWithinCapacity
<1>3. \A k \in OutputsOf(c) : k \in Connections /\ k # 0
  BY SiteFacts DEF OutputsOf
<1>4. /\ ComponentEdge(c) \in Edges /\ Backward(ComponentEdge(c)) \in Arcs
      /\ Backward(ComponentEdge(c)) \notin Edges
      /\ Backward(Backward(ComponentEdge(c))) = ComponentEdge(c)
  BY KindsApart, ArcFacts, EdgeFacts DEF Edges, Backward
<1>5. \A k \in Connections : FirstEdge(k) \in Edges /\ FirstEdge(k) \in Arcs
  BY KindsApart, ArcFacts DEF Edges
<1>6. Backward(ComponentEdge(c))[1] = Out(c)
  BY DEF ComponentEdge, Backward
<1>7. \A k \in OutputsOf(c) : FirstEdge(k)[1] = Out(c)
  BY DEF OutputsOf, FirstEdge
<1>8. \A k \in Connections : FirstEdge(k)[2] = ConnectionNode(k)
  BY DEF FirstEdge
<1>9. \A d \in D : d = 0 \/ d \in OutputsOf(c)
  OBVIOUS
<1>10. /\ 0 \in D /\ OutputsOf(c) \in SUBSET D
       /\ \A d \in D : d \in OutputsOf(c) <=> d # 0
  BY <1>3
<1>11. /\ at[0] = Backward(ComponentEdge(c))
       /\ net[0] = 0 - flow[ComponentEdge(c)]
       /\ \A k \in OutputsOf(c) : at[k] = FirstEdge(k) /\ net[k] = flow[FirstEdge(k)]
  BY <1>3, <1>10
<1>12. /\ flow[ComponentEdge(c)] \in Int /\ 0 - flow[ComponentEdge(c)] \in Int
       /\ \A k \in OutputsOf(c) : flow[FirstEdge(k)] \in Nat
  BY <1>2, <1>3, <1>4, <1>5
<1> HIDE DEF flow
<1>13. DOMAIN at = D /\ DOMAIN net = D
  OBVIOUS
<1>14. at = [d \in D |-> at[d]] /\ net = [d \in D |-> net[d]]
  OBVIOUS
<1> HIDE DEF D, at, net
<1>15. at \in [D -> Arcs] /\ net \in [D -> Int]
  <2>1. \A d \in D : at[d] \in Arcs
    BY <1>3, <1>4, <1>5, <1>9, <1>11
  <2>2. \A d \in D : net[d] \in Int
    BY <1>9, <1>11, <1>12
  <2> QED
    BY <1>14, <2>1, <2>2
<1>16. \A d, e \in D : at[d] = at[e] => d = e
  <2>1. \A k \in OutputsOf(c) : at[k] # at[0]
    BY <1>3, <1>4, <1>5, <1>11
  <2>2. \A k, l \in OutputsOf(c) : at[k] = at[l] => k = l
    <3> TAKE k, l \in OutputsOf(c)
    <3>1. at[k] = at[l] => FirstEdge(k) = FirstEdge(l)
      BY <1>11
    <3>2. FirstEdge(k) = FirstEdge(l) => ConnectionNode(k) = ConnectionNode(l)
      BY <1>3, <1>8
    <3> QED
      BY <1>3, <3>1, <3>2, NodesDiffer
  <2> QED
    BY <1>9, <2>1, <2>2
<1>17. \A a \in Arcs : a[1] = Out(c) => \E d \in D : a = at[d]
  <2> SUFFICES ASSUME NEW a \in Arcs, a[1] = Out(c) PROVE \E d \in D : a = at[d]
    OBVIOUS
  <2>1. CASE a \in Edges
    <3>1. PICK k \in OutputsOf(c) : a = FirstEdge(k)
      BY <2>1, EdgesAtNodes
    <3> QED
      BY <1>10, <1>11, <3>1
  <2>2. CASE a \notin Edges
    <3>1. /\ Backward(a) \in Edges /\ Backward(a)[2] = Out(c)
          /\ Backward(Backward(a)) = a
      BY <2>2, ArcFacts DEF Backward
    <3>2. a = at[0]
      BY <1>11, <3>1, EdgesAtNodes
    <3> QED
      BY <1>10, <3>2
  <2> QED
    BY <2>1, <2>2
<1>18. SumOf(net) = 0
  <2> DEFINE V == {Out(c)}
  <2>1. \A d \in D : at[d][1] \in V
    BY <1>6, <1>7, <1>9, <1>11
  <2>2. \A a \in Arcs : a[1] \in V => \E d \in D : a = at[d]
    BY <1>17
  <2>3. Conserves(V)
    BY NodesDiffer
  <2> HIDE DEF V
  <2>4. Leaving(full, V, at)
    BY <1>0, <1>13, <1>15, <1>16, <2>1, <2>2 DEF Leaving
  <2>5. \A d \in D : net[d] = Net(flow, at[d])
    BY <1>3, <1>4, <1>5, <1>9, <1>11 DEF Net
  <2>6. net \in [DOMAIN at -> Int] /\ \A d \in DOMAIN at : net[d] = Net(edmonds_karp(full), at[d])
    BY <1>13, <1>15, <2>5 DEF flow
  <2> QED
    BY <1>1, <2>3, <2>4, <2>6, FlowBalances
<1>19. /\ given \in [OutputsOf(c) -> Nat] /\ given \in [OutputsOf(c) -> Int]
       /\ \A k \in OutputsOf(c) : given[k] = net[k]
  BY <1>11, <1>12 DEF flow
<1>20. SumOf(given) \in Int /\ SumOf(net) = SumOf(given) + net[0]
  BY <1>0, <1>10, <1>15, <1>19, SumOfMore
<1>21. \A x, z \in Int : z + (0 - x) = 0 => x = z
  OBVIOUS
<1>22. flow[ComponentEdge(c)] = SumOf(given)
  BY <1>11, <1>12, <1>18, <1>20, <1>21
<1> QED
  BY <1>19, <1>20, <1>22 DEF flow

\* What the sources deliver serves the load.
LEMMA EndsBalance ==
  ASSUME NEW full, NEW load \in Loads, IsFull(full, load),
         NEW given, given = [c \in Components |-> edmonds_karp(full)[SourceEdge(c)]]
  PROVE  /\ given \in [Components -> Nat] /\ SumOf(given) \in Int
         /\ edmonds_karp(full)[SinkEdge(load)] = SumOf(given)
<1> DEFINE flow == edmonds_karp(full)
           D == Components \cup {0}
           at == [d \in D |-> IF d = 0 THEN Backward(SinkEdge(load)) ELSE SourceEdge(d)]
           net == [d \in D |-> IF d = 0 THEN 0 - flow[SinkEdge(load)] ELSE flow[SourceEdge(d)]]
<1>0. IsFiniteSet(Components) /\ IsFiniteSet(D)
  BY SiteFacts, FS_AddElement
<1>1. full \in [Arcs -> Nat] /\ \A e \in Edges : full[Backward(e)] = 0
  BY DEF IsFull
<1>2. flow \in [Edges -> Nat]
  BY <1>1, FlowWithinCapacity
<1>3. \A c \in Components : c # 0
  BY SiteFacts
<1>4. \A c \in Loads : /\ SinkEdge(c) \in Edges /\ Backward(SinkEdge(c)) \in Arcs
                       /\ Backward(SinkEdge(c)) \notin Edges
                       /\ Backward(Backward(SinkEdge(c))) = SinkEdge(c)
  BY KindsApart, ArcFacts, EdgeFacts DEF Edges, Backward
<1>5. \A c \in Components : SourceEdge(c) \in Edges /\ SourceEdge(c) \in Arcs
  BY KindsApart, ArcFacts DEF Edges
<1>6. Backward(SinkEdge(load))[1] = Sink
  BY DEF SinkEdge, Backward
<1>7. \A c \in Components : SourceEdge(c)[1] = Source /\ SourceEdge(c)[2] = In(c)
  BY DEF SourceEdge
<1>8. \A c \in Loads : c # load => full[SinkEdge(c)] = 0 /\ full[Backward(SinkEdge(c))] = 0
  BY <1>1, <1>4 DEF IsFull
<1>9. \A d \in D : d = 0 \/ d \in Components
  OBVIOUS
<1>10. /\ 0 \in D /\ Components \in SUBSET D
       /\ \A d \in D : d \in Components <=> d # 0
  BY <1>3
<1>11. /\ at[0] = Backward(SinkEdge(load)) /\ net[0] = 0 - flow[SinkEdge(load)]
       /\ \A c \in Components : at[c] = SourceEdge(c) /\ net[c] = flow[SourceEdge(c)]
  BY <1>3, <1>10
<1>12. /\ flow[SinkEdge(load)] \in Int /\ 0 - flow[SinkEdge(load)] \in Int
       /\ \A c \in Components : flow[SourceEdge(c)] \in Nat
  BY <1>2, <1>4, <1>5
<1> HIDE DEF flow
<1>13. DOMAIN at = D /\ DOMAIN net = D
  OBVIOUS
<1>14. at = [d \in D |-> at[d]] /\ net = [d \in D |-> net[d]]
  OBVIOUS
<1> HIDE DEF D, at, net
<1>15. at \in [D -> Arcs] /\ net \in [D -> Int]
  <2>1. \A d \in D : at[d] \in Arcs
    BY <1>4, <1>5, <1>9, <1>11
  <2>2. \A d \in D : net[d] \in Int
    BY <1>9, <1>11, <1>12
  <2> QED
    BY <1>14, <2>1, <2>2
<1>16. \A d, e \in D : at[d] = at[e] => d = e
  <2>1. \A c \in Components : at[c] # at[0]
    BY <1>4, <1>5, <1>11
  <2>2. \A c, d \in Components : at[c] = at[d] => c = d
    <3> TAKE c, d \in Components
    <3>1. at[c] = at[d] => SourceEdge(c) = SourceEdge(d)
      BY <1>11
    <3>2. SourceEdge(c) = SourceEdge(d) => In(c) = In(d)
      BY <1>7
    <3> QED
      BY <3>1, <3>2, NodesDiffer
  <2> QED
    BY <1>9, <2>1, <2>2
<1>17. ASSUME NEW a \in Arcs, a[1] = Source \/ a[1] = Sink, full[a] + full[Backward(a)] # 0
       PROVE  \E d \in D : a = at[d]
  <2>1. CASE a \in Edges
    <3>1. PICK c \in Components : a = SourceEdge(c)
      BY <1>17, <2>1, EdgesAtNodes
    <3> QED
      BY <1>10, <1>11, <3>1
  <2>2. CASE a \notin Edges
    <3>1. /\ Backward(a) \in Edges /\ Backward(a)[2] = a[1]
          /\ Backward(Backward(a)) = a
      BY <2>2, ArcFacts DEF Backward
    <3>2. PICK c \in Loads : Backward(a) = SinkEdge(c)
      BY <1>17, <3>1, EdgesAtNodes
    <3>3. a = Backward(SinkEdge(c))
      BY <3>1, <3>2
    <3>4. c = load
      <4> SUFFICES ASSUME c # load PROVE FALSE
        OBVIOUS
      <4>1. full[a] = 0 /\ full[Backward(a)] = 0
        BY <1>8, <3>2, <3>3
      <4> QED
        BY <1>17, <4>1
    <3> QED
      BY <1>10, <1>11, <3>3, <3>4
  <2> QED
    BY <2>1, <2>2
<1>18. SumOf(net) = 0
  <2> DEFINE V == {Source, Sink}
  <2>1. \A d \in D : at[d][1] \in V
    BY <1>6, <1>7, <1>9, <1>11
  <2>2. \A a \in Arcs : a[1] \in V /\ full[a] + full[Backward(a)] # 0 => \E d \in D : a = at[d]
    BY <1>17
  <2>3. Conserves(V)
    BY NodesDiffer
  <2> HIDE DEF V
  <2>4. Leaving(full, V, at)
    BY <1>0, <1>13, <1>15, <1>16, <2>1, <2>2 DEF Leaving
  <2>5. \A d \in D : net[d] = Net(flow, at[d])
    BY <1>4, <1>5, <1>9, <1>11 DEF Net
  <2>6. net \in [DOMAIN at -> Int] /\ \A d \in DOMAIN at : net[d] = Net(edmonds_karp(full), at[d])
    BY <1>13, <1>15, <2>5 DEF flow
  <2> QED
    BY <1>1, <2>3, <2>4, <2>6, FlowBalances
<1>19. /\ given \in [Components -> Nat] /\ given \in [Components -> Int]
       /\ \A c \in Components : given[c] = net[c]
  BY <1>11, <1>12 DEF flow
<1>20. SumOf(given) \in Int /\ SumOf(net) = SumOf(given) + net[0]
  BY <1>0, <1>10, <1>15, <1>19, SumOfMore
<1>21. \A x, z \in Int : z + (0 - x) = 0 => x = z
  OBVIOUS
<1>22. flow[SinkEdge(load)] = SumOf(given)
  BY <1>11, <1>12, <1>18, <1>20, <1>21
<1> QED
  BY <1>19, <1>20, <1>22 DEF flow

-----------------------------------------------------------------------------
(* The allocation is a flow.                                               *)

\* What enters a component leaves it or serves the load, and what the sources deliver
\* is what the loads get.
Balanced(usage) ==
  /\ \A c \in Components :
       /\ usage.component[c] = Over(InputsOf(c), usage.connection) + usage.source[c]
       /\ usage.component[c] = IF c \in Loads THEN usage.load[c]
                              ELSE Over(OutputsOf(c), usage.connection)
  /\ SumOf(usage.source) = SumOf(usage.load)

\* An offer keeps the balance.
LEMMA OfferIsBalanced ==
  ASSUME NEW n, n.demand_w \in [Loads -> Nat], NEW usage, Sound(n, usage), Balanced(usage),
         NEW sources, NEW load \in Loads
  PROVE  Balanced(Offer(n, sources, usage, load))
<1>1. CASE ~ NeedsPower(n, usage, load)
  BY <1>1 DEF Offer
<1>2. CASE NeedsPower(n, usage, load)
  <2> DEFINE demand == Unmet(n, usage, load)
  <2>1. PICK full \in [Arcs -> Nat] :
          /\ IsNetwork(n, sources, load, demand, usage, full)
          /\ \A e \in Edges : full[Backward(e)] = 0
          /\ Offer(n, sources, usage, load) = Committed(usage, load, edmonds_karp(full))
    BY <1>2, OfferAdds
  <2> DEFINE flow == edmonds_karp(full)
             after == Committed(usage, load, flow)
             through == [k \in Connections |-> flow[FirstEdge(k)]]
             drawn == [c \in Components |-> flow[SourceEdge(c)]]
  <2> HIDE DEF demand
  <2>2. flow \in [Edges -> Nat] /\ \A e \in Edges : flow[e] <= full[e]
    BY <2>1, FlowWithinCapacity
  <2>3. IsFull(full, load)
    BY <2>1 DEF IsFull, IsNetwork
  <2>4. /\ usage.load \in [Loads -> Nat] /\ usage.component \in [Components -> Nat]
        /\ usage.connection \in [Connections -> Nat] /\ usage.source \in [Components -> Nat]
    BY DEF Sound
  <2>5. \A k \in Connections : flow[FirstEdge(k)] = flow[SecondEdge(k)]
    BY <2>3, ConnectionBalance
  <2>6. /\ \A c \in Components : flow[ComponentEdge(c)] \in Nat /\ flow[SourceEdge(c)] \in Nat
        /\ \A k \in Connections : flow[FirstEdge(k)] \in Nat
        /\ \A c \in Loads : SinkEdge(c) \in Edges /\ flow[SinkEdge(c)] \in Nat
    BY <2>2, KindsApart DEF Edges
  <2>7. \A c \in Loads : c # load => flow[SinkEdge(c)] = 0
    <3> SUFFICES ASSUME NEW c \in Loads, c # load PROVE flow[SinkEdge(c)] = 0
      OBVIOUS
    <3>1. full[SinkEdge(c)] = 0
      BY <2>3 DEF IsFull
    <3> QED
      BY <2>2, <2>6, <3>1
  <2>8. /\ \A c \in Components : /\ after.component[c] = usage.component[c] + flow[ComponentEdge(c)]
                                 /\ after.source[c] = usage.source[c] + flow[SourceEdge(c)]
        /\ \A k \in Connections : after.connection[k] = usage.connection[k] + flow[FirstEdge(k)]
        /\ \A c \in Loads : after.load[c] = IF c = load THEN usage.load[c] + flow[SinkEdge(c)]
                                            ELSE usage.load[c]
        /\ after.load = [c \in Loads |-> after.load[c]]
        /\ after.source = [c \in Components |-> after.source[c]]
    BY <2>4 DEF Committed
  <2>9. through \in [Connections -> Nat] /\ drawn \in [Components -> Nat]
        /\ \A k \in Connections : through[k] = flow[FirstEdge(k)] /\ through[k] = flow[SecondEdge(k)]
    BY <2>5, <2>6
  <2> HIDE DEF flow, after, through
  <2>10. \A k \in Connections : after.connection[k] = usage.connection[k] + through[k]
    BY <2>8, <2>9
  <2>11. ASSUME NEW c \in Components
         PROVE  after.component[c] = Over(InputsOf(c), after.connection) + after.source[c]
    <3> DEFINE K == InputsOf(c)
               fed == [k \in K |-> flow[SecondEdge(k)]]
               a == Over(K, after.connection)
               b == Over(K, usage.connection)
               f == Over(K, through)
    <3>1. K \in SUBSET Connections
      BY DEF InputsOf
    <3>2. fed = [k \in K |-> through[k]]
      BY <2>9, <3>1
    <3>3. flow[ComponentEdge(c)] = SumOf(fed) + flow[SourceEdge(c)]
      BY <2>3, InBalance DEF flow
    <3>4. a = b + f /\ b \in Int /\ f \in Int
      <4> DEFINE before == usage.connection
                 later == after.connection
      <4>1. Ints(K, before) /\ Ints(K, through) /\ AddUp(K, later, before, through)
        BY <2>4, <2>9, <2>10, <3>1, SiteFacts, FS_Subset DEF Ints, AddUp
      <4> HIDE DEF K, before, later
      <4>2. /\ Over(K, before) \in Int /\ Over(K, through) \in Int
            /\ Over(K, later)
                 = Over(K, before) + Over(K, through)
        BY <4>1, OverAdds
      <4> QED
        BY <4>2 DEF before, later
    <3>5. usage.component[c] = b + usage.source[c]
      BY DEF Balanced
    <3>6. flow[ComponentEdge(c)] = f + flow[SourceEdge(c)]
      BY <3>2, <3>3 DEF Over
    <3> SUFFICES after.component[c] = a + after.source[c]
      OBVIOUS
    <3>7. usage.source[c] \in Int /\ flow[SourceEdge(c)] \in Int
      BY <2>4, <2>6
    <3> HIDE DEF K, a, b, f, fed
    <3> QED
      BY <2>8, <3>4, <3>5, <3>6, <3>7
  <2>12. ASSUME NEW c \in Components
         PROVE  after.component[c] = IF c \in Loads THEN after.load[c]
                                     ELSE Over(OutputsOf(c), after.connection)
    <3>1. CASE c \in Loads
      <4>1. flow[ComponentEdge(c)] = flow[SinkEdge(c)]
        BY <2>3, <3>1, LoadBalance DEF flow
      <4>2. usage.component[c] = usage.load[c]
        BY <3>1 DEF Balanced
      <4>3. after.load[c] = usage.load[c] + flow[SinkEdge(c)]
        <5>1. usage.load[c] \in Int
          BY <2>4, <3>1
        <5> QED
          BY <2>7, <2>8, <3>1, <5>1
      <4> QED
        BY <2>8, <3>1, <4>1, <4>2, <4>3
    <3>2. CASE c \notin Loads
      <4> DEFINE K == OutputsOf(c)
                 given == [k \in K |-> flow[FirstEdge(k)]]
                 a == Over(K, after.connection)
                 b == Over(K, usage.connection)
                 f == Over(K, through)
      <4>1. K \in SUBSET Connections
        BY DEF OutputsOf
      <4>2. given = [k \in K |-> through[k]]
        BY <2>9, <4>1
      <4>3. flow[ComponentEdge(c)] = SumOf(given)
        BY <2>3, <3>2, OutBalance DEF flow
      <4>4. a = b + f /\ b \in Int /\ f \in Int
        <5> DEFINE before == usage.connection
                   later == after.connection
        <5>1. Ints(K, before) /\ Ints(K, through) /\ AddUp(K, later, before, through)
          BY <2>4, <2>9, <2>10, <4>1, SiteFacts, FS_Subset DEF Ints, AddUp
        <5> HIDE DEF K, before, later
        <5>2. /\ Over(K, before) \in Int /\ Over(K, through) \in Int
              /\ Over(K, later)
                   = Over(K, before) + Over(K, through)
          BY <5>1, OverAdds
        <5> QED
          BY <5>2 DEF before, later
      <4>5. usage.component[c] = b
        BY <3>2 DEF Balanced
      <4>6. flow[ComponentEdge(c)] = f
        BY <4>2, <4>3 DEF Over
      <4>7. after.component[c] = a
        BY <2>8, <4>4, <4>5, <4>6
      <4> QED
        BY <3>2, <4>7
    <3> QED
      BY <3>1, <3>2
  <2>13. SumOf(after.source) = SumOf(after.load)
    <3> DEFINE s0 == SumOf(usage.source)
               s1 == SumOf(drawn)
               l0 == SumOf(usage.load)
    <3>1. flow[SinkEdge(load)] = s1 /\ s1 \in Int
      BY <2>1, <2>3, EndsBalance DEF flow
    <3>2. SumOf(after.source) = s0 + s1 /\ s0 \in Int
      <4>1. \A c \in Components : after.source[c] = usage.source[c] + drawn[c]
        BY <2>8
      <4> HIDE DEF drawn
      <4>2. after.source \in [Components -> Int]
        <5>1. \A c \in Components : after.source[c] \in Int
          BY <2>4, <2>9, <4>1
        <5> QED
          BY <2>8, <5>1
      <4>3. usage.source \in [Components -> Int] /\ drawn \in [Components -> Int]
        BY <2>4, <2>9
      <4> QED
        BY <4>1, <4>2, <4>3, SiteFacts, SumOfBoth
    <3>3. SumOf(after.load) - l0 = after.load[load] - usage.load[load] /\ l0 \in Int
          /\ SumOf(after.load) \in Int
      <4>1. IsFiniteSet(Loads)
        BY SiteFacts, FS_Subset
      <4>2. usage.load \in [Loads -> Int]
        BY <2>4
      <4>3. after.load \in [Loads -> Int]
        <5>1. \A c \in Loads : after.load[c] \in Int
          BY <2>4, <2>6, <2>8
        <5> QED
          BY <2>8, <5>1
      <4>4. \A c \in Loads : c # load => after.load[c] = usage.load[c]
        BY <2>8
      <4> QED
        BY <4>1, <4>2, <4>3, <4>4, SumOfChanged
    <3>4. after.load[load] = usage.load[load] + flow[SinkEdge(load)] /\ usage.load[load] \in Int
      BY <2>4, <2>8
    <3>5. s0 = l0
      BY DEF Balanced
    <3> HIDE DEF s0, s1, l0
    <3> QED
      BY <3>1, <3>2, <3>3, <3>4, <3>5
  <2>14. Balanced(after)
    BY <2>11, <2>12, <2>13 DEF Balanced
  <2> QED
    BY <2>1, <2>14 DEF after, flow
<1> QED
  BY <1>1, <1>2

\* Nothing usage is balanced.
LEMMA NothingUsedIsBalanced == Balanced(NothingUsed)
<1>1. ASSUME NEW D, IsFiniteSet(D), NEW f, f = [d \in D |-> 0] PROVE SumOf(f) = 0
  <2>1. f \in [D -> Nat] /\ \A d \in D : f[d] = 0
    BY <1>1
  <2> QED
    BY <1>1, <2>1, SumOfZeros
<1>2. \A c \in Components : IsFiniteSet(InputsOf(c)) /\ IsFiniteSet(OutputsOf(c))
  BY SiteFacts, FS_Subset DEF InputsOf, OutputsOf
<1>3. IsFiniteSet(Loads) /\ IsFiniteSet(Components) /\ Loads \subseteq Components
  BY SiteFacts, FS_Subset
<1>4. \A c \in Components : /\ InputsOf(c) \subseteq Connections
                             /\ OutputsOf(c) \subseteq Connections
  BY DEF InputsOf, OutputsOf
<1>5. ASSUME NEW K \in SUBSET Connections, IsFiniteSet(K)
      PROVE  Over(K, NothingUsed.connection) = 0
  <2>1. [k \in K |-> NothingUsed.connection[k]] = [k \in K |-> 0]
    BY DEF NothingUsed
  <2> QED
    BY <1>1, <1>5, <2>1 DEF Over
<1>6. SumOf(NothingUsed.source) = 0 /\ SumOf(NothingUsed.load) = 0
  BY <1>1, <1>3 DEF NothingUsed
<1>7. ASSUME NEW c \in Components
      PROVE  /\ Over(InputsOf(c), NothingUsed.connection) = 0
             /\ Over(OutputsOf(c), NothingUsed.connection) = 0
             /\ NothingUsed.component[c] = 0 /\ NothingUsed.source[c] = 0
             /\ c \in Loads => NothingUsed.load[c] = 0
  <2>1. /\ InputsOf(c) \in SUBSET Connections /\ IsFiniteSet(InputsOf(c))
        /\ OutputsOf(c) \in SUBSET Connections /\ IsFiniteSet(OutputsOf(c))
    BY <1>2, <1>4
  <2> QED
    BY <1>5, <2>1 DEF NothingUsed
<1> QED
  BY <1>6, <1>7 DEF Balanced

-----------------------------------------------------------------------------
(* The least cut.                                                          *)

\* The connections that leave a cut, and those that enter it.
Leave(reached, passed) ==
  {k \in Connections : connection[k].from_component \in passed
                       /\ connection[k].to_component \notin reached}

Enter(reached, passed) ==
  {k \in Connections : connection[k].from_component \notin passed
                       /\ connection[k].to_component \in reached}

\* through the components, over the connections and from the sources a flow brings
\* value to a load.
IsFlow(load, through, over, from, value) ==
  /\ through \in [Components -> Nat] /\ from \in [Components -> Nat]
  /\ over \in [Connections -> Nat] /\ value \in Nat
  /\ \A c \in Components :
       /\ through[c] = Over(InputsOf(c), over) + from[c]
       /\ through[c] = Over(OutputsOf(c), over) + IF c = load THEN value ELSE 0
  /\ value = Over(Components, from)

\* Through the components that the cut does not let out, over the connections that
\* leave it, from the sources beyond it and at the load within it.
Crosses(load, through, over, from, value, R, P) ==
  /\ Over(R \ P, through) \in Int /\ Over(Leave(R, P), over) \in Int
  /\ Over(Enter(R, P), over) \in Int /\ Over(Components \ R, from) \in Int
  /\ value = Over(R \ P, through) + Over(Leave(R, P), over) - Over(Enter(R, P), over)
             + Over(Components \ R, from) + IF load \in P THEN value ELSE 0

\* What a flow brings crosses every cut.
LEMMA CutCrossed ==
  ASSUME NEW load, NEW through, NEW over, NEW from, NEW value,
         IsFlow(load, through, over, from, value),
         NEW R, NEW P, R \in SUBSET Components, P \in SUBSET R
  PROVE  Crosses(load, through, over, from, value, R, P)
<1> DEFINE to == [k \in Connections |-> connection[k].to_component]
           by == [k \in Connections |-> connection[k].from_component]
           A == Owned(Connections, by, P)
           B == Owned(Connections, to, R)
           ins == [c \in Components |-> Over(InputsOf(c), over)]
           outs == [c \in Components |-> Over(OutputsOf(c), over)]
           at == [c \in Components |-> IF c = load THEN value ELSE 0]
           ends == IF load \in P THEN value ELSE 0
<1>1. /\ IsFiniteSet(Components) /\ IsFiniteSet(R) /\ IsFiniteSet(P) /\ P \in SUBSET Components
      /\ Ints(Components, through) /\ Ints(Components, from) /\ Ints(Connections, over)
      /\ Ints(Components, at) /\ value \in Int
  BY SiteFacts, FS_Subset DEF Ints, IsFlow
<1>2. /\ \A c \in Components : Owned(Connections, to, {c}) = InputsOf(c)
      /\ \A c \in Components : Owned(Connections, by, {c}) = OutputsOf(c)
  BY DEF Owned, InputsOf, OutputsOf
<1>3. /\ IsGroups(ins, Components, Connections, to, over)
      /\ IsGroups(outs, Components, Connections, by, over)
  BY <1>2 DEF IsGroups
<1>4. /\ A \in SUBSET Connections /\ B \in SUBSET Connections
      /\ A \cap B \in SUBSET A /\ A \cap B \in SUBSET B
      /\ A \ (A \cap B) = Leave(R, P) /\ B \ (A \cap B) = Enter(R, P)
  BY SiteFacts DEF Owned, Leave, Enter
<1>5. AddUp(R, through, ins, from) /\ AddUp(P, through, outs, at)
  BY <1>1 DEF IsFlow, AddUp
<1> HIDE DEF A, B, ins, outs, to, by
<1>6. Over(R, ins) = Over(B, over) /\ Ints(R, ins)
  BY <1>1, <1>3, OverGroups DEF B
<1>7. Over(P, outs) = Over(A, over) /\ Ints(P, outs)
  BY <1>1, <1>3, OverGroups DEF A
<1>8. /\ Over(A \cap B, over) \in Int /\ Over(Leave(R, P), over) \in Int
      /\ Over(A, over) = Over(A \cap B, over) + Over(Leave(R, P), over)
  <2> DEFINE M == A \cap B
  <2>1. Ints(A, over) /\ M \in SUBSET A /\ A \ M = Leave(R, P)
    BY <1>1, <1>4, IntsWithin
  <2> HIDE DEF M
  <2>2. Over(M, over) \in Int /\ Over(A \ M, over) \in Int /\ Over(A, over) = Over(M, over) + Over(A \ M, over)
    BY <2>1, OverSplit
  <2> QED
    BY <2>1, <2>2 DEF M
<1>9. /\ Over(Enter(R, P), over) \in Int
      /\ Over(B, over) = Over(A \cap B, over) + Over(Enter(R, P), over)
  <2> DEFINE M == A \cap B
  <2>1. Ints(B, over) /\ M \in SUBSET B /\ B \ M = Enter(R, P)
    BY <1>1, <1>4, IntsWithin
  <2> HIDE DEF M
  <2>2. Over(M, over) \in Int /\ Over(B \ M, over) \in Int /\ Over(B, over) = Over(M, over) + Over(B \ M, over)
    BY <2>1, OverSplit
  <2> QED
    BY <2>1, <2>2 DEF M
<1>10. /\ Over(R, from) \in Int /\ Over(Components \ R, from) \in Int
       /\ value = Over(R, from) + Over(Components \ R, from)
  <2>1. value = Over(Components, from)
    BY DEF IsFlow
  <2> QED
    BY <1>1, <2>1, OverSplit
<1>11. Over(R, through) = Over(B, over) + Over(R, from)
  <2>1. Ints(R, from)
    BY <1>1, IntsWithin
  <2> QED
    BY <1>5, <1>6, <2>1, OverAdds
<1>12. ends = Over(P, at) /\ ends \in Int
  <2>1. CASE load \notin P
    <3>1. ZeroOn(P, at) /\ Ints(P, at)
      BY <1>1, <2>1, IntsWithin DEF ZeroOn
    <3> HIDE DEF at
    <3> QED
      BY <2>1, <3>1, OverType
  <2>2. CASE load \in P
    <3> DEFINE L == {} \cup {load}
    <3>1. Ints(P, at) /\ L \in SUBSET P /\ ZeroOn(P \ L, at) /\ at[load] = value
      BY <1>1, <2>2, IntsWithin DEF ZeroOn
    <3>2. Ints({}, at) /\ ZeroOn({}, at)
      BY FS_EmptySet DEF Ints, ZeroOn
    <3> HIDE DEF at
    <3>3. Over({}, at) = 0
      BY <3>2, OverType
    <3>4. Over(L, at) = Over({}, at) + at[load]
      BY <1>1, <3>1, <3>2, OverMore
    <3> HIDE DEF L
    <3>5. Over(P, at) = Over(L, at)
      BY <3>1, OverRest
    <3> QED
      BY <1>1, <2>2, <3>1, <3>3, <3>4, <3>5
  <2> QED
    BY <2>1, <2>2
<1> HIDE DEF at, ends
<1>13. Over(P, through) = Over(A, over) + ends
  <2>1. Ints(P, at)
    BY <1>1, IntsWithin
  <2> QED
    BY <1>5, <1>7, <1>12, <2>1, OverAdds
<1>14. /\ Over(P, through) \in Int /\ Over(R \ P, through) \in Int
       /\ Over(R, through) = Over(P, through) + Over(R \ P, through)
  BY <1>1, IntsWithin, OverSplit
<1>15. \A v, rs, s1, rp, ab, lv, en, e, rt, pt, a, b \in Int :
         v = rs + s1 /\ rt = b + rs /\ rt = pt + rp /\ pt = a + e /\ a = ab + lv /\ b = ab + en
         => v = rp + lv - en + s1 + e
  OBVIOUS
<1>16. value = Over(R \ P, through) + Over(Leave(R, P), over) - Over(Enter(R, P), over)
               + Over(Components \ R, from) + ends
  <2>1. Over(A, over) \in Int /\ Over(B, over) \in Int /\ Over(R, through) \in Int
    BY <1>8, <1>9, <1>10, <1>11
  <2> QED
    BY <1>1, <1>8, <1>9, <1>10, <1>11, <1>12, <1>13, <1>14, <1>15, <2>1
<1> QED
  BY <1>8, <1>9, <1>10, <1>14, <1>16 DEF ends, Crosses

\* Across some set of nodes an arc is full or carries nothing: no more can flow.
LEMMA FlowStops ==
  ASSUME NEW full \in [Arcs -> Nat], \A e \in Edges : full[Backward(e)] = 0
  PROVE  \E X : /\ Sink \in X /\ Source \notin X
                /\ \A e \in Edges :
                     /\ e[1] \notin X /\ e[2] \in X => edmonds_karp(full)[e] = full[e]
                     /\ e[1] \in X /\ e[2] \notin X => edmonds_karp(full)[e] = 0
<1> DEFINE left == augment[full]
           flow == edmonds_karp(full)
<1>1. full \in [Arcs -> Int]
  OBVIOUS
<1>2. Residual(full, full)
  BY <1>1, ArcFacts DEF Residual
<1>3. Residual(full, left) /\ \E nodes : Cut(Usable(left), nodes)
  BY <1>1, <1>2, Augmented
<1>4. PICK X : Cut(Usable(left), X)
  BY <1>3
<1>5. left \in [Arcs -> Int]
  BY <1>3 DEF Residual
<1>6. flow = [e \in Edges |-> full[e] - left[e]]
  <2> HIDE DEF left
  <2> QED
    BY <1>1, <1>5 DEF edmonds_karp, left
<1> HIDE DEF left, flow
<1>7. ASSUME NEW a \in Arcs, a[1] \notin X, a[2] \in X PROVE left[a] = 0
  <2>1. a \notin Usable(left)
    BY <1>4, <1>7 DEF Cut
  <2>2. left[a] \in Int /\ left[a] >= 0
    BY <1>3 DEF Residual
  <2> QED
    BY <2>1, <2>2 DEF Usable
<1>8. ASSUME NEW e \in Edges
      PROVE  /\ e[1] \notin X /\ e[2] \in X => flow[e] = full[e]
             /\ e[1] \in X /\ e[2] \notin X => flow[e] = 0
  <2>1. /\ e \in Arcs /\ Backward(e) \in Arcs /\ Backward(e)[1] = e[2] /\ Backward(e)[2] = e[1]
        /\ flow[e] = full[e] - left[e] /\ full[Backward(e)] = 0
    BY <1>6, ArcFacts DEF Backward
  <2>2. /\ full[e] \in Int /\ left[e] \in Int /\ left[Backward(e)] \in Int
        /\ left[e] + left[Backward(e)] = full[e] + 0
    BY <1>1, <1>3, <2>1 DEF Residual
  <2>3. ASSUME e[1] \notin X, e[2] \in X PROVE flow[e] = full[e]
    <3>1. left[e] = 0
      BY <1>7, <2>1, <2>3
    <3> QED
      BY <2>1, <2>2, <3>1
  <2>4. ASSUME e[1] \in X, e[2] \notin X PROVE flow[e] = 0
    <3>1. left[Backward(e)] = 0
      BY <1>7, <2>1, <2>4
    <3> QED
      BY <2>1, <2>2, <3>1
  <2> QED
    BY <2>3, <2>4
<1>9. Sink \in X /\ Source \notin X
  BY <1>4 DEF Cut
<1> QED
  BY <1>8, <1>9 DEF flow

\* What earlier offers leave.
ThroughLeft(usage) == [c \in Components |-> component[c].capacity_w - usage.component[c]]
OverLeft(usage)    == [k \in Connections |-> connection[k].capacity_w - usage.connection[k]]
FromLeft(usage)    == [c \in Components |-> component[c].capacity_w - usage.source[c]]

Available(n) == {c \in Components : IsAvailable(n, c)}

\* A flow stays within it.
Fits(n, sources, load, usage, through, over, from, value) ==
  /\ \A c \in Components :
       /\ through[c] <= ThroughLeft(usage)[c] /\ from[c] <= FromLeft(usage)[c]
       /\ c \notin Available(n) => through[c] = 0
       /\ c \notin sources \cap Available(n) => from[c] = 0
  /\ \A k \in Connections : /\ over[k] <= OverLeft(usage)[k]
                            /\ k \notin LiveConnections(n) => over[k] = 0
  /\ value <= Unmet(n, usage, load)

\* A flow uses up what crosses a cut.
Fills(n, sources, load, usage, through, over, from, value, R, P) ==
  /\ R \in SUBSET Available(n) /\ P \in SUBSET R
  /\ \A c \in R \ P : through[c] = ThroughLeft(usage)[c]
  /\ \A k \in Leave(R, P) \cap LiveConnections(n) : over[k] = OverLeft(usage)[k]
  /\ \A k \in Enter(R, P) : over[k] = 0
  /\ \A c \in (sources \cap Available(n)) \ R : from[c] = FromLeft(usage)[c]
  /\ load \in P => value = Unmet(n, usage, load)

\* An offer uses what a flow brings.
Adds(load, usage, after, through, over, from, value) ==
  /\ \A c \in Components : /\ after.component[c] = usage.component[c] + through[c]
                           /\ after.source[c] = usage.source[c] + from[c]
  /\ \A k \in Connections : after.connection[k] = usage.connection[k] + over[k]
  /\ \A c \in Loads : after.load[c] = usage.load[c] + IF c = load THEN value ELSE 0

\* An offer brings a load a flow that fits and that uses up some cut.
LEMMA OfferIsFlow ==
  ASSUME NEW n, n.demand_w \in [Loads -> Nat], NEW usage, Sound(n, usage),
         NEW sources, NEW load \in Loads, NeedsPower(n, usage, load)
  PROVE  \E through, over, from, value, R, P :
           /\ IsFlow(load, through, over, from, value)
           /\ Fits(n, sources, load, usage, through, over, from, value)
           /\ Fills(n, sources, load, usage, through, over, from, value, R, P)
           /\ Adds(load, usage, Offer(n, sources, usage, load), through, over, from, value)
<1> DEFINE demand == Unmet(n, usage, load)
<1>1. PICK full \in [Arcs -> Nat] :
        /\ IsNetwork(n, sources, load, demand, usage, full)
        /\ \A e \in Edges : full[Backward(e)] = 0
        /\ Offer(n, sources, usage, load) = Committed(usage, load, edmonds_karp(full))
  BY OfferAdds
<1> DEFINE flow == edmonds_karp(full)
           through == [c \in Components |-> flow[ComponentEdge(c)]]
           over == [k \in Connections |-> flow[FirstEdge(k)]]
           from == [c \in Components |-> flow[SourceEdge(c)]]
           value == flow[SinkEdge(load)]
<1> HIDE DEF demand
<1>2. flow \in [Edges -> Nat] /\ \A e \in Edges : flow[e] <= full[e]
  BY <1>1, FlowWithinCapacity
<1>3. IsFull(full, load)
  BY <1>1 DEF IsFull, IsNetwork
<1>4. /\ \A c \in Components : ComponentEdge(c) \in Edges /\ SourceEdge(c) \in Edges
      /\ \A k \in Connections : FirstEdge(k) \in Edges /\ SecondEdge(k) \in Edges
      /\ \A c \in Loads : SinkEdge(c) \in Edges
  BY KindsApart DEF Edges
<1>5. \A k \in Connections : flow[FirstEdge(k)] = flow[SecondEdge(k)]
  BY <1>3, ConnectionBalance
<1>6. \A c \in Loads : c # load => flow[SinkEdge(c)] = 0
  <2> SUFFICES ASSUME NEW c \in Loads, c # load PROVE flow[SinkEdge(c)] = 0
    OBVIOUS
  <2>1. full[SinkEdge(c)] = 0
    BY <1>3 DEF IsFull
  <2> HIDE DEF flow
  <2> QED
    BY <1>2, <1>4, <2>1
<1>7. \A c \in Components : through[c] = Over(InputsOf(c), over) + from[c]
  <2> TAKE c \in Components
  <2> DEFINE fed == [k \in InputsOf(c) |-> flow[SecondEdge(k)]]
  <2>1. flow[ComponentEdge(c)] = SumOf(fed) + flow[SourceEdge(c)]
    BY <1>3, InBalance
  <2> HIDE DEF flow
  <2>2. fed = [k \in InputsOf(c) |-> over[k]]
    BY <1>5 DEF InputsOf
  <2> HIDE DEF fed
  <2> QED
    BY <2>1, <2>2 DEF Over
<1>8. \A c \in Components : through[c] = Over(OutputsOf(c), over) + IF c = load THEN value ELSE 0
  <2> TAKE c \in Components
  <2>1. OutputsOf(c) \in SUBSET Connections /\ Ints(Connections, over)
    BY <1>2, <1>4, SiteFacts DEF OutputsOf, Ints
  <2>2. CASE c \in Loads
    <3>1. flow[ComponentEdge(c)] = flow[SinkEdge(c)]
      BY <1>3, <2>2, LoadBalance
    <3>2. OutputsOf(c) = {}
      BY <2>2, SnapshotAssumption DEF ValidTopology, OutputsOf
    <3> HIDE DEF flow, over
    <3>3. Over(OutputsOf(c), over) = 0
      <4>1. Ints(OutputsOf(c), over) /\ ZeroOn(OutputsOf(c), over)
        BY <2>1, <3>2, IntsWithin DEF ZeroOn
      <4> QED
        BY <4>1, OverType
    <3>4. flow[SinkEdge(c)] \in Int
      BY <1>2, <1>4, <2>2
    <3> QED
      BY <1>6, <2>2, <3>1, <3>3, <3>4
  <2>3. CASE c \notin Loads
    <3> DEFINE given == [k \in OutputsOf(c) |-> flow[FirstEdge(k)]]
    <3>1. flow[ComponentEdge(c)] = SumOf(given) /\ SumOf(given) \in Int
      BY <1>3, <2>3, OutBalance
    <3>2. given = [k \in OutputsOf(c) |-> over[k]]
      BY <2>1
    <3> HIDE DEF given, flow, over
    <3>3. flow[ComponentEdge(c)] = Over(OutputsOf(c), over) /\ Over(OutputsOf(c), over) \in Int
      BY <3>1, <3>2 DEF Over
    <3> QED
      BY <2>3, <3>3
  <2> QED
    BY <2>2, <2>3
<1>9. value = Over(Components, from)
  BY <1>3, EndsBalance DEF Over
<1>10. PICK X : /\ Sink \in X /\ Source \notin X
                /\ \A e \in Edges :
                     /\ e[1] \notin X /\ e[2] \in X => flow[e] = full[e]
                     /\ e[1] \in X /\ e[2] \notin X => flow[e] = 0
  BY <1>1, FlowStops
<1> HIDE DEF flow
<1>11. IsFlow(load, through, over, from, value)
  <2>1. /\ through \in [Components -> Nat] /\ from \in [Components -> Nat]
        /\ over \in [Connections -> Nat] /\ value \in Nat
    BY <1>2, <1>4
  <2> HIDE DEF through, over, from, value
  <2> QED
    BY <1>7, <1>8, <1>9, <2>1 DEF IsFlow
<1>12. /\ \A c \in Components : ComponentEdge(c)[1] = In(c) /\ ComponentEdge(c)[2] = Out(c)
       /\ \A c \in Components : SourceEdge(c)[1] = Source /\ SourceEdge(c)[2] = In(c)
       /\ \A k \in Connections : /\ FirstEdge(k)[1] = Out(connection[k].from_component)
                                 /\ FirstEdge(k)[2] = ConnectionNode(k)
                                 /\ SecondEdge(k)[1] = ConnectionNode(k)
                                 /\ SecondEdge(k)[2] = In(connection[k].to_component)
       /\ SinkEdge(load)[1] = Out(load) /\ SinkEdge(load)[2] = Sink
  BY DEF ComponentEdge, SourceEdge, FirstEdge, SecondEdge, SinkEdge
<1>13. /\ \A c \in Components : /\ ThroughLeft(usage)[c] = component[c].capacity_w - usage.component[c]
                                /\ FromLeft(usage)[c] = component[c].capacity_w - usage.source[c]
                                /\ ThroughLeft(usage)[c] >= 0 /\ FromLeft(usage)[c] >= 0
       /\ \A k \in Connections : /\ OverLeft(usage)[k] = connection[k].capacity_w - usage.connection[k]
                                 /\ OverLeft(usage)[k] >= 0
  BY SiteFacts DEF ThroughLeft, FromLeft, OverLeft, Sound
<1>14. /\ \A c \in Components :
            /\ full[ComponentEdge(c)] = IF c \in Available(n) THEN ThroughLeft(usage)[c] ELSE 0
            /\ full[SourceEdge(c)] = IF c \in sources \cap Available(n) THEN FromLeft(usage)[c] ELSE 0
       /\ \A k \in Connections :
            /\ full[FirstEdge(k)] = IF k \in LiveConnections(n) THEN OverLeft(usage)[k] ELSE 0
            /\ full[SecondEdge(k)] = full[FirstEdge(k)]
       /\ full[SinkEdge(load)] = demand
  BY <1>1, <1>13 DEF IsNetwork, Available
<1>15. Fits(n, sources, load, usage, through, over, from, value)
  <2>1. ASSUME NEW c \in Components
        PROVE  /\ through[c] <= ThroughLeft(usage)[c] /\ from[c] <= FromLeft(usage)[c]
               /\ c \notin Available(n) => through[c] = 0
               /\ c \notin sources \cap Available(n) => from[c] = 0
    <3>1. /\ through[c] \in Nat /\ through[c] <= full[ComponentEdge(c)]
          /\ from[c] \in Nat /\ from[c] <= full[SourceEdge(c)]
      BY <1>2, <1>4
    <3>2. /\ component[c].capacity_w - usage.component[c] \in Int
          /\ component[c].capacity_w - usage.source[c] \in Int
      BY SiteFacts DEF Sound
    <3> HIDE DEF through, from
    <3> QED
      BY <1>13, <1>14, <3>1, <3>2
  <2>2. ASSUME NEW k \in Connections
        PROVE  over[k] <= OverLeft(usage)[k] /\ (k \notin LiveConnections(n) => over[k] = 0)
    <3>1. over[k] \in Nat /\ over[k] <= full[FirstEdge(k)]
      BY <1>2, <1>4
    <3>2. connection[k].capacity_w - usage.connection[k] \in Int
      BY SiteFacts DEF Sound
    <3> HIDE DEF over
    <3> QED
      BY <1>13, <1>14, <3>1, <3>2
  <2>3. value <= demand
    BY <1>2, <1>4, <1>14
  <2> HIDE DEF through, over, from, value
  <2> QED
    BY <2>1, <2>2, <2>3 DEF Fits, demand
<1>16. Adds(load, usage, Offer(n, sources, usage, load), through, over, from, value)
  <2>1. usage.load \in [Loads -> Nat]
    BY DEF Sound
  <2>2. Offer(n, sources, usage, load) = Committed(usage, load, flow)
    BY <1>1 DEF flow
  <2>3. value \in Nat
    BY <1>2, <1>4
  <2> HIDE DEF value
  <2> QED
    BY <2>1, <2>2, <2>3 DEF Adds, Committed, value
<1> DEFINE R == {c \in Available(n) : In(c) \notin X}
           P == {c \in R : Out(c) \notin X}
<1>17. Fills(n, sources, load, usage, through, over, from, value, R, P)
  <2>1. R \in SUBSET Available(n) /\ P \in SUBSET R /\ R \in SUBSET Components
    BY DEF Available
  <2>2. ASSUME NEW c \in R \ P PROVE through[c] = ThroughLeft(usage)[c]
    <3>1. c \in Components /\ c \in Available(n) /\ In(c) \notin X /\ Out(c) \in X
      BY <2>1, <2>2
    <3> QED
      BY <1>4, <1>10, <1>12, <1>14, <3>1
  <2>3. ASSUME NEW k \in Leave(R, P) \cap LiveConnections(n) PROVE over[k] = OverLeft(usage)[k]
    <3>1. k \in Connections /\ k \in LiveConnections(n)
      BY <2>3 DEF Leave
    <3>2. /\ connection[k].from_component \in Components /\ connection[k].to_component \in Components
          /\ connection[k].to_component \in Available(n)
      BY <3>1, SiteFacts DEF LiveConnections, Available
    <3>3. Out(connection[k].from_component) \notin X /\ In(connection[k].to_component) \in X
      BY <2>3, <3>2 DEF Leave
    <3>4. flow[FirstEdge(k)] = full[FirstEdge(k)]
      <4>1. CASE ConnectionNode(k) \in X
        BY <1>4, <1>10, <1>12, <3>1, <3>3, <4>1
      <4>2. CASE ConnectionNode(k) \notin X
        <5>1. flow[SecondEdge(k)] = full[SecondEdge(k)]
          BY <1>4, <1>10, <1>12, <3>1, <3>3, <4>2
        <5> QED
          BY <1>5, <1>14, <3>1, <5>1
      <4> QED
        BY <4>1, <4>2
    <3> QED
      BY <1>14, <3>1, <3>4
  <2>4. ASSUME NEW k \in Enter(R, P) PROVE over[k] = 0
    <3> DEFINE a == connection[k].from_component
               b == connection[k].to_component
    <3>1. k \in Connections /\ a \in Components /\ b \in Components /\ a \notin P /\ b \in R
      BY <2>4, SiteFacts DEF Enter
    <3>2. over[k] = flow[FirstEdge(k)] /\ In(b) \notin X
      BY <3>1
    <3>3. CASE a \notin Available(n)
      <4>1. k \notin LiveConnections(n)
        BY <3>1, <3>3 DEF LiveConnections, Available
      <4> HIDE DEF through, over, from, value
      <4> QED
        BY <1>15, <3>1, <4>1 DEF Fits
    <3>4. CASE Out(a) \in X
      <4>1. CASE ConnectionNode(k) \in X
        <5>1. flow[SecondEdge(k)] = 0
          BY <1>4, <1>10, <1>12, <3>1, <3>2, <4>1
        <5> QED
          BY <1>5, <3>1, <3>2, <5>1
      <4>2. CASE ConnectionNode(k) \notin X
        BY <1>4, <1>10, <1>12, <3>1, <3>2, <3>4, <4>2
      <4> QED
        BY <4>1, <4>2
    <3>5. CASE a \in Available(n) /\ Out(a) \notin X
      <4>1. In(a) \in X
        BY <3>1, <3>5
      <4>2. through[a] = 0
        BY <1>4, <1>10, <1>12, <3>1, <3>5, <4>1
      <4>3. k \in OutputsOf(a)
        BY <3>1 DEF OutputsOf
      <4> HIDE DEF through, over, from, value
      <4>4. /\ Ints(OutputsOf(a), over) /\ NoneNegative(OutputsOf(a), over)
            /\ value \in Nat
            /\ through[a] = Over(OutputsOf(a), over) + IF a = load THEN value ELSE 0
        <5>1. OutputsOf(a) \in SUBSET Connections
          BY DEF OutputsOf
        <5> QED
          BY <1>11, <3>1, <5>1, SiteFacts, FS_Subset DEF IsFlow, Ints, NoneNegative
      <4>5. Over(OutputsOf(a), over) = 0
        <5>1. Over(OutputsOf(a), over) \in Nat
          BY <4>4, OverNaturals
        <5> QED
          BY <4>2, <4>4, <5>1
      <4>6. ZeroOn(OutputsOf(a), over)
        BY <4>4, <4>5, OverNaturals
      <4> QED
        BY <4>3, <4>6 DEF ZeroOn
    <3> QED
      BY <3>3, <3>4, <3>5
  <2>5. ASSUME NEW c \in (sources \cap Available(n)) \ R PROVE from[c] = FromLeft(usage)[c]
    <3>1. c \in Components /\ c \in sources \cap Available(n) /\ In(c) \in X
      BY <2>5 DEF Available
    <3> QED
      BY <1>4, <1>10, <1>12, <1>14, <3>1
  <2>6. load \in P => value = demand
    BY <1>4, <1>10, <1>12, <1>14
  <2> HIDE DEF through, over, from, value, R, P
  <2> QED
    BY <2>1, <2>2, <2>3, <2>4, <2>5, <2>6 DEF Fills, demand
<1> HIDE DEF through, over, from, value, R, P
<1> QED
  BY <1>11, <1>15, <1>16, <1>17

\* What earlier offers leave across a cut.
AcrossCut(n, usage, sources, load, R, P) ==
  Over(R \ P, ThroughLeft(usage)) + Over(Leave(R, P) \cap LiveConnections(n), OverLeft(usage))
  + Over((sources \cap Available(n)) \ R, FromLeft(usage))
  + IF load \in P THEN Unmet(n, usage, load) ELSE 0

IsCut(n, R, P) == R \in SUBSET Available(n) /\ P \in SUBSET R

\* It is never negative.
LEMMA LeftIsNatural ==
  ASSUME NEW n, n.demand_w \in [Loads -> Nat], NEW usage, Sound(n, usage),
         NEW sources, NEW load \in Loads, NEW R, NEW P, IsCut(n, R, P)
  PROVE  /\ Ints(R \ P, ThroughLeft(usage)) /\ Over(R \ P, ThroughLeft(usage)) \in Nat
         /\ Ints(Leave(R, P) \cap LiveConnections(n), OverLeft(usage))
         /\ Over(Leave(R, P) \cap LiveConnections(n), OverLeft(usage)) \in Nat
         /\ Ints((sources \cap Available(n)) \ R, FromLeft(usage))
         /\ Over((sources \cap Available(n)) \ R, FromLeft(usage)) \in Nat
         /\ Unmet(n, usage, load) \in Nat
         /\ AcrossCut(n, usage, sources, load, R, P) \in Nat
<1> DEFINE K == R \ P
           L == Leave(R, P) \cap LiveConnections(n)
           M == (sources \cap Available(n)) \ R
<1>1. K \in SUBSET Components /\ L \in SUBSET Connections /\ M \in SUBSET Components
  BY DEF IsCut, Available, Leave
<1>2. /\ \A c \in Components : ThroughLeft(usage)[c] \in Nat /\ FromLeft(usage)[c] \in Nat
      /\ \A k \in Connections : OverLeft(usage)[k] \in Nat
  BY SiteFacts DEF ThroughLeft, FromLeft, OverLeft, Sound
<1>3. Unmet(n, usage, load) \in Nat
  BY DEF Unmet, Sound
<1>4. IsFiniteSet(K) /\ IsFiniteSet(L) /\ IsFiniteSet(M)
  BY <1>1, SiteFacts, FS_Subset
<1> HIDE DEF K, L, M
<1>5. Ints(K, ThroughLeft(usage)) /\ Ints(L, OverLeft(usage)) /\ Ints(M, FromLeft(usage))
  BY <1>1, <1>2, <1>4 DEF Ints
<1>6. /\ NoneNegative(K, ThroughLeft(usage)) /\ NoneNegative(L, OverLeft(usage))
      /\ NoneNegative(M, FromLeft(usage))
  BY <1>1, <1>2 DEF NoneNegative
<1>7. /\ Over(K, ThroughLeft(usage)) \in Nat /\ Over(L, OverLeft(usage)) \in Nat
      /\ Over(M, FromLeft(usage)) \in Nat
  BY <1>5, <1>6, OverNaturals
<1>8. AcrossCut(n, usage, sources, load, R, P) \in Nat
  BY <1>3, <1>7 DEF AcrossCut, K, L, M
<1> QED
  BY <1>3, <1>5, <1>7, <1>8 DEF K, L, M

\* No flow that fits brings more than is left across a cut.
LEMMA FlowWithinCut ==
  ASSUME NEW n, n.demand_w \in [Loads -> Nat], NEW usage, Sound(n, usage),
         NEW sources, NEW load \in Loads, NEW R, NEW P, IsCut(n, R, P),
         NEW through, NEW over, NEW from, NEW value,
         IsFlow(load, through, over, from, value),
         Fits(n, sources, load, usage, through, over, from, value)
  PROVE  /\ value <= AcrossCut(n, usage, sources, load, R, P)
         /\ Fills(n, sources, load, usage, through, over, from, value, R, P)
            => value = AcrossCut(n, usage, sources, load, R, P)
<1> DEFINE K == R \ P
           L == Leave(R, P) \cap LiveConnections(n)
           M == (sources \cap Available(n)) \ R
           E == Enter(R, P)
           least == IF load \in P THEN value ELSE 0
           most == IF load \in P THEN Unmet(n, usage, load) ELSE 0
<1>1. /\ R \in SUBSET Components /\ P \in SUBSET R /\ K \in SUBSET Components
      /\ L \in SUBSET Leave(R, P) /\ Leave(R, P) \in SUBSET Connections
      /\ M \in SUBSET (Components \ R) /\ Components \ R \in SUBSET Components
      /\ E \in SUBSET Connections
  BY DEF IsCut, Available, Leave, Enter
<1>2. /\ Ints(Components, through) /\ Ints(Components, from) /\ Ints(Connections, over)
      /\ value \in Nat /\ NoneNegative(Connections, over)
  BY SiteFacts DEF Ints, IsFlow, NoneNegative
<1>3. /\ Ints(K, ThroughLeft(usage)) /\ Over(K, ThroughLeft(usage)) \in Nat
      /\ Ints(L, OverLeft(usage)) /\ Over(L, OverLeft(usage)) \in Nat
      /\ Ints(M, FromLeft(usage)) /\ Over(M, FromLeft(usage)) \in Nat
      /\ Unmet(n, usage, load) \in Nat
  BY LeftIsNatural
<1>4. /\ Over(K, through) \in Int /\ Over(Leave(R, P), over) \in Int
      /\ Over(E, over) \in Int /\ Over(Components \ R, from) \in Int
      /\ value = Over(K, through) + Over(Leave(R, P), over) - Over(E, over)
                 + Over(Components \ R, from) + least
  <2>1. R \in SUBSET Components /\ P \in SUBSET R
    BY <1>1
  <2> HIDE DEF K, L, M, E, least, most
  <2>2. Crosses(load, through, over, from, value, R, P)
    BY <2>1, CutCrossed
  <2> QED
    BY <2>2 DEF Crosses, K, E, least
<1>5. ZeroOn(Leave(R, P) \ L, over) /\ ZeroOn((Components \ R) \ M, from)
  BY <1>1 DEF ZeroOn, Fits
<1>6. /\ AtMost(K, through, ThroughLeft(usage)) /\ AtMost(L, over, OverLeft(usage))
      /\ AtMost(M, from, FromLeft(usage)) /\ least <= most
  BY <1>1, <1>2, <1>3 DEF AtMost, Fits
<1>7. AcrossCut(n, usage, sources, load, R, P)
        = Over(K, ThroughLeft(usage)) + Over(L, OverLeft(usage)) + Over(M, FromLeft(usage)) + most
  BY DEF AcrossCut
<1>8. least \in Int /\ most \in Int
  BY <1>2, <1>3
<1>9. ASSUME Fills(n, sources, load, usage, through, over, from, value, R, P)
      PROVE  /\ Over(K, through) = Over(K, ThroughLeft(usage))
             /\ Over(L, over) = Over(L, OverLeft(usage))
             /\ Over(M, from) = Over(M, FromLeft(usage))
             /\ ZeroOn(E, over) /\ least = most
  <2>1. /\ \A c \in K : through[c] = ThroughLeft(usage)[c]
        /\ \A k \in L : over[k] = OverLeft(usage)[k]
        /\ \A c \in M : from[c] = FromLeft(usage)[c]
        /\ ZeroOn(E, over) /\ least = most
    BY <1>9 DEF Fills, ZeroOn
  <2> HIDE DEF K, L, M, E, least, most
  <2> QED
    BY <2>1, OverEqual
<1> HIDE DEF K, L, M, E, least, most
<1>10. /\ Ints(K, through) /\ Ints(Leave(R, P), over) /\ Ints(L, over) /\ Ints(E, over)
       /\ Ints(Components \ R, from) /\ Ints(M, from) /\ NoneNegative(E, over)
  <2>1. Ints(K, through) /\ Ints(Leave(R, P), over) /\ Ints(E, over) /\ Ints(Components \ R, from)
    BY <1>1, <1>2, IntsWithin
  <2>2. Ints(L, over) /\ Ints(M, from)
    BY <1>1, <2>1, IntsWithin
  <2>3. NoneNegative(E, over)
    BY <1>1, <1>2 DEF NoneNegative
  <2> QED
    BY <2>1, <2>2, <2>3
<1>11. Over(Leave(R, P), over) = Over(L, over) /\ Over(Components \ R, from) = Over(M, from)
  <2> DEFINE LL == Leave(R, P)
             MM == Components \ R
  <2>1. Ints(LL, over) /\ L \in SUBSET LL /\ ZeroOn(LL \ L, over)
    BY <1>1, <1>5, <1>10
  <2>2. Ints(MM, from) /\ M \in SUBSET MM /\ ZeroOn(MM \ M, from)
    BY <1>1, <1>5, <1>10
  <2> HIDE DEF LL, MM
  <2>3. Over(LL, over) = Over(L, over) /\ Over(MM, from) = Over(M, from)
    BY <2>1, <2>2, OverRest
  <2> QED
    BY <2>3 DEF LL, MM
<1>12. Over(E, over) \in Nat /\ (ZeroOn(E, over) => Over(E, over) = 0)
  BY <1>10, OverNaturals, OverType
<1>13. /\ Over(K, through) <= Over(K, ThroughLeft(usage)) /\ Over(L, over) <= Over(L, OverLeft(usage))
       /\ Over(M, from) <= Over(M, FromLeft(usage))
  BY <1>3, <1>6, <1>10, OverLess
<1>14. Over(L, over) \in Int /\ Over(M, from) \in Int
  BY <1>4, <1>11
<1>15. \A v, a, b, c, d, e, w, x, y, z \in Int :
         /\ v = a + b - e + c + d /\ e >= 0 /\ a <= w /\ b <= x /\ c <= y /\ d <= z
            => v <= w + x + y + z
         /\ v = a + b - e + c + d /\ e = 0 /\ a = w /\ b = x /\ c = y /\ d = z
            => v = w + x + y + z
  OBVIOUS
<1> DEFINE a == Over(K, through)
           b == Over(L, over)
           c == Over(M, from)
           e == Over(E, over)
           w == Over(K, ThroughLeft(usage))
           x == Over(L, OverLeft(usage))
           y == Over(M, FromLeft(usage))
<1>16. /\ value \in Int /\ a \in Int /\ b \in Int /\ c \in Int /\ e \in Int /\ e >= 0
       /\ w \in Int /\ x \in Int /\ y \in Int
       /\ value = a + b - e + c + least /\ a <= w /\ b <= x /\ c <= y
       /\ AcrossCut(n, usage, sources, load, R, P) = w + x + y + most
  BY <1>2, <1>3, <1>4, <1>7, <1>11, <1>12, <1>13, <1>14
<1>17. Fills(n, sources, load, usage, through, over, from, value, R, P)
       => a = w /\ b = x /\ c = y /\ e = 0 /\ least = most
  BY <1>9, <1>12
<1> HIDE DEF a, b, c, e, w, x, y
<1> QED
  BY <1>6, <1>8, <1>15, <1>16, <1>17

\* Nothing is left across a cut.
Exhausted(n, usage, sources, load, R, P) ==
  /\ IsCut(n, R, P)
  /\ ZeroOn(R \ P, ThroughLeft(usage))
  /\ ZeroOn(Leave(R, P) \cap LiveConnections(n), OverLeft(usage))
  /\ ZeroOn((sources \cap Available(n)) \ R, FromLeft(usage))
  /\ load \in P => Unmet(n, usage, load) = 0

\* Across an exhausted cut nothing is left: each arc that crosses it is full.
LEMMA NothingAcross ==
  ASSUME NEW n, n.demand_w \in [Loads -> Nat], NEW usage, Sound(n, usage),
         NEW sources, NEW load \in Loads, NEW R, NEW P,
         Exhausted(n, usage, sources, load, R, P)
  PROVE  AcrossCut(n, usage, sources, load, R, P) = 0
<1> DEFINE K == R \ P
           L == Leave(R, P) \cap LiveConnections(n)
           M == (sources \cap Available(n)) \ R
<1>1. IsCut(n, R, P)
  BY DEF Exhausted
<1>2. /\ Ints(K, ThroughLeft(usage)) /\ Ints(L, OverLeft(usage)) /\ Ints(M, FromLeft(usage))
      /\ Unmet(n, usage, load) \in Nat
  BY <1>1, LeftIsNatural
<1>3. /\ ZeroOn(K, ThroughLeft(usage)) /\ ZeroOn(L, OverLeft(usage)) /\ ZeroOn(M, FromLeft(usage))
      /\ load \in P => Unmet(n, usage, load) = 0
  BY DEF Exhausted
<1> HIDE DEF K, L, M
<1>4. Over(K, ThroughLeft(usage)) = 0 /\ Over(L, OverLeft(usage)) = 0 /\ Over(M, FromLeft(usage)) = 0
  BY <1>2, <1>3, OverType
<1> QED
  BY <1>2, <1>3, <1>4 DEF AcrossCut, K, L, M

-----------------------------------------------------------------------------
(* The allocator, one load at a time.                                      *)

\* What the rest of a stage makes of what is used.
Rest(sources) == IF sources = {} THEN used ELSE Serve(Network(s), sources)[<<used, waiting>>]

\* What the rest of the allocation makes of it.
Remaining == IF stage = 1 THEN Stage(Network(s), StoredStage(Live, Batteries), Rest(Live))
             ELSE IF stage = 2 THEN Rest(StoredStage(Live, Batteries)) ELSE used

\* The inductive invariant: a flow, on its way to what solve_capacity returns.
OnTheWay ==
  /\ s \in States /\ stage \in 1 .. 4 /\ waiting \in Seq(Loads)
  /\ Sound(Network(s), used) /\ Balanced(used)
  /\ Remaining = allocate(Network(s), Live, Batteries)
  /\ summary = IF stage = 4
               THEN Summarize(Network(s), Live, Batteries, used, Total(s.demand_w), Total(used.load))
               ELSE NoSummary

\* What an initial or reachable state is about.
LEMMA StateFacts ==
  ASSUME s \in States
  PROVE  /\ s \in RuntimeState /\ Charged(s)
         /\ Network(s).demand_w = s.demand_w /\ Network(s).demand_w \in [Loads -> Nat]
         /\ \A c : IsAvailable(Network(s), c) <=> IsAvailable(s, c)
         /\ \A usage, c : NeedsPower(Network(s), usage, c) <=> NeedsPower(s, usage, c)
<1>1. s \in RuntimeState /\ Charged(s)
  BY StatesAssumption
<1>2. s.demand_w \in [Loads -> Nat]
  BY <1>1 DEF RuntimeState
<1> QED
  BY <1>1, <1>2 DEF Network, IsAvailable, NeedsPower, Unmet

\* A sound usage has the type of usages.
LEMMA SoundType ==
  ASSUME NEW n, NEW usage, Sound(n, usage) PROVE usage \in Usage
BY DEF Sound, Usage

\* The allocation starts with no flow at all and with the whole of it still to do.
LEMMA InitOnTheWay == Init => OnTheWay
<1> SUFFICES ASSUME Init PROVE OnTheWay
  OBVIOUS
<1>1. s \in States /\ stage = 1 /\ waiting = ServiceOrder /\ used = NothingUsed /\ summary = NoSummary
  BY DEF Init
<1>2. Sound(Network(s), used) /\ Balanced(used)
  BY <1>1, StateFacts, NothingUsedIsSound, NothingUsedIsBalanced
<1>3. Rest(Live) = Stage(Network(s), Live, NothingUsed)
  BY <1>1, StageServes DEF Rest
<1>4. Remaining = allocate(Network(s), Live, Batteries)
  BY <1>1, <1>3 DEF Remaining, allocate
<1> QED
  BY <1>1, <1>2, <1>4, ServiceOrderType DEF OnTheWay

\* The next turn of a stage, whether the load takes anything or not.
LEMMA TurnOnTheWay ==
  ASSUME OnTheWay, AtLoad, used' = Offer(Network(s), Offered, used, Head(waiting)),
         waiting' = Tail(waiting), UNCHANGED <<s, stage, summary>>
  PROVE  OnTheWay'
<1> DEFINE n == Network(s)
           load == Head(waiting)
           stored == StoredStage(Live, Batteries)
<1>1. /\ s \in States /\ stage \in {1, 2} /\ waiting \in Seq(Loads) /\ waiting # << >>
      /\ Sound(n, used) /\ Balanced(used) /\ Offered # {}
      /\ Remaining = allocate(n, Live, Batteries) /\ summary = NoSummary
  BY DEF OnTheWay, AtLoad
<1>2. load \in Loads /\ Tail(waiting) \in Seq(Loads)
  BY <1>1, HeadTailProperties
<1>3. n.demand_w \in [Loads -> Nat]
  BY <1>1, StateFacts
<1> HIDE DEF n, load
<1>4. Sound(n, used') /\ Balanced(used')
  BY <1>1, <1>2, <1>3, OfferIsSound, OfferIsBalanced DEF n, load
<1>5. used \in Usage
  BY <1>1, SoundType
<1>6. Serve(n, Offered)[<<used, waiting>>] = Serve(n, Offered)[<<used', waiting'>>]
  <2>1. waiting \in Seq(Loads) /\ waiting # << >>
    BY <1>1
  <2>2. used' = Offer(n, Offered, used, Head(waiting)) /\ waiting' = Tail(waiting)
    BY DEF n
  <2>3. Serve(n, Offered)[<<used, waiting>>]
          = Serve(n, Offered)[<<Offer(n, Offered, used, Head(waiting)), Tail(waiting)>>]
    BY <1>3, <1>5, <2>1, ServeStep
  <2> QED
    BY <2>2, <2>3
<1>7. Network(s)' = n /\ Live' = Live /\ Batteries' = Batteries /\ Offered' = Offered
  BY DEF n, Live, Batteries, Offered
<1>8. Remaining' = Remaining
  <2>1. CASE stage = 1
    <3>1. Offered = Live
      BY <2>1 DEF Offered
    <3>2. Rest(Live)' = Rest(Live)
      BY <1>1, <1>6, <1>7, <3>1 DEF Rest, n
    <3> QED
      BY <1>7, <2>1, <3>2 DEF Remaining, n
  <2>2. CASE stage = 2
    <3>1. Offered = stored /\ stored' = stored
      BY <1>7, <2>2 DEF Offered
    <3> HIDE DEF stored
    <3>2. Rest(stored)' = Rest(stored)
      BY <1>1, <1>6, <1>7, <3>1 DEF Rest, n
    <3> QED
      BY <2>2, <3>2 DEF Remaining, stored
  <2> QED
    BY <1>1, <2>1, <2>2
<1> QED
  BY <1>1, <1>2, <1>4, <1>7, <1>8 DEF OnTheWay, n

\* Each step of the allocation keeps the flow sound and on the way to the result of solve_capacity.
LEMMA NextOnTheWay == OnTheWay /\ [Next]_vars => OnTheWay'
<1> SUFFICES ASSUME OnTheWay, [Next]_vars PROVE OnTheWay'
  OBVIOUS
<1> DEFINE n == Network(s)
<1>1. /\ s \in States /\ stage \in 1 .. 4 /\ waiting \in Seq(Loads)
      /\ Sound(n, used) /\ Balanced(used) /\ Remaining = allocate(n, Live, Batteries)
  BY DEF OnTheWay
<1>2. CASE ServeLoad
  BY <1>2, TurnOnTheWay DEF ServeLoad
<1>3. CASE PassOver
  <2>1. ~ NeedsPower(n, used, Head(waiting))
    BY <1>1, <1>3, StateFacts DEF PassOver
  <2>2. used' = Offer(n, Offered, used, Head(waiting))
    BY <1>3, <2>1 DEF PassOver, Offer
  <2> QED
    BY <1>3, <2>2, TurnOnTheWay DEF PassOver
<1>4. CASE NextStage
  <2>1. /\ stage \in {1, 2} /\ (Offered = {} \/ waiting = << >>)
        /\ stage' = stage + 1 /\ waiting' = ServiceOrder /\ UNCHANGED <<s, used, summary>>
    BY <1>4 DEF NextStage
  <2>2. Network(s)' = n /\ Live' = Live /\ Batteries' = Batteries
    BY <2>1 DEF Live, Batteries
  <2>3. Rest(Offered) = used
    <3>1. used \in Usage /\ n.demand_w \in [Loads -> Nat]
      BY <1>1, SoundType, StateFacts
    <3>2. CASE Offered = {}
      BY <3>2 DEF Rest
    <3>3. CASE waiting = << >>
      <4>1. Serve(n, Offered)[<<used, waiting>>] = used
        <5>1. Serve(n, Offered)[<<used, waiting>>]
                = IF waiting = << >> THEN used
                  ELSE Serve(n, Offered)[<<Offer(n, Offered, used, Head(waiting)), Tail(waiting)>>]
          <6> HIDE DEF n
          <6> QED
            BY <1>1, <3>1, ServeStep
        <5> QED
          BY <3>3, <5>1
      <4> QED
        BY <4>1 DEF Rest
    <3> QED
      BY <2>1, <3>2, <3>3
  <2>4. Remaining' = Remaining
    <3> DEFINE stored == StoredStage(Live, Batteries)
    <3>1. CASE stage = 1
      <4>1. Offered = Live /\ stage' = 2
        BY <2>1, <3>1 DEF Offered
      <4>2. Remaining = Stage(n, stored, used)
        BY <2>3, <3>1, <4>1 DEF Remaining
      <4>3. Rest(stored)' = IF stored = {} THEN used ELSE Serve(n, stored)[<<used, ServiceOrder>>]
        BY <2>1, <2>2 DEF Rest
      <4>4. Remaining' = Rest(stored)'
        BY <2>2, <4>1 DEF Remaining
      <4> HIDE DEF n, stored
      <4> QED
        BY <4>2, <4>3, <4>4, StageServes
    <3>2. CASE stage = 2
      <4>1. Offered = stored /\ stage' = 3
        BY <2>1, <3>2 DEF Offered
      <4>2. Remaining = used
        BY <2>3, <3>2, <4>1 DEF Remaining
      <4>3. Remaining' = used
        BY <2>1, <4>1 DEF Remaining
      <4> QED
        BY <4>2, <4>3
    <3> QED
      BY <2>1, <3>1, <3>2
  <2>5. stage' \in 1 .. 4 /\ stage' # 4 /\ stage # 4
    BY <2>1
  <2> QED
    BY <1>1, <2>1, <2>2, <2>4, <2>5, ServiceOrderType DEF OnTheWay
<1>5. CASE Publish
  <2>1. /\ stage = 3 /\ stage' = 4 /\ UNCHANGED <<s, waiting, used>>
        /\ summary' = Summarize(n, Live, Batteries, used, Total(s.demand_w), Total(used.load))
    BY <1>5 DEF Publish
  <2>2. Network(s)' = n /\ Live' = Live /\ Batteries' = Batteries
    BY <2>1 DEF Live, Batteries
  <2>3. Remaining' = Remaining
    BY <2>1 DEF Remaining
  <2> QED
    BY <1>1, <2>1, <2>2, <2>3 DEF OnTheWay
<1>6. CASE UNCHANGED vars
  BY <1>6 DEF vars, OnTheWay, Remaining, Rest, Live, Batteries
<1> QED
  BY <1>2, <1>3, <1>4, <1>5, <1>6 DEF Next, Returned

\* At every step of the allocation the flow is sound and balanced, and what remains to be done leads to
\* the result of solve_capacity (capacity.py); for every site and every runtime state.
THEOREM AlwaysOnTheWay == Spec => []OnTheWay
BY InitOnTheWay, NextOnTheWay, PTL DEF Spec

\* Between any two loads the overlay of the flows is a flow (_allocate, capacity.py):
\* nothing is lost, nothing exceeds a rating or passes an open connection or an
\* unavailable component; for every site and every runtime state.
THEOREM FlowIsSoundHolds == Spec => []FlowIsSound
<1>1. OnTheWay => FlowIsSound
  <2> SUFFICES ASSUME OnTheWay PROVE FlowIsSound
    OBVIOUS
  <2> DEFINE n == Network(s)
  <2>1. s \in RuntimeState /\ Charged(s) /\ n.demand_w = s.demand_w
    BY StateFacts DEF OnTheWay
  <2>2. Sound(n, used) /\ Balanced(used)
    BY DEF OnTheWay
  <2>3. /\ \A c \in Components : IsAvailable(n, c) <=> IsAvailable(s, c)
        /\ \A k \in LiveConnections(n) : s.connection_closed[k]
    BY DEF Network, IsAvailable, LiveConnections
  <2>4. TypeOK
    <3>1. summary \in Summary \cup {NoSummary}
      BY <2>1, <2>2, SummaryOfSound DEF OnTheWay, Live, Batteries
    <3> QED
      BY <2>1, <2>2, <3>1, SoundType DEF OnTheWay, TypeOK
  <2>5. /\ used.load \in [Loads -> Nat] /\ used.component \in [Components -> Nat]
        /\ used.connection \in [Connections -> Nat] /\ used.source \in [Components -> Nat]
    BY <2>2 DEF Sound
  <2> HIDE DEF n
  <2>6. ASSUME NEW c \in Components
        PROVE  /\ used.component[c] \in 0 .. component[c].capacity_w
               /\ used.source[c] \in 0 .. component[c].capacity_w
               /\ used.component[c] > 0 => IsAvailable(s, c)
               /\ used.component[c] = Inflow(c) + used.source[c]
               /\ used.component[c] = IF c \in Loads THEN used.load[c] ELSE Outflow(c)
    <3>1. /\ used.component[c] \in 0 .. component[c].capacity_w
          /\ used.source[c] \in 0 .. component[c].capacity_w
          /\ used.component[c] > 0 => IsAvailable(s, c)
      BY <2>2, <2>3, <2>5, SiteFacts DEF Sound
    <3>2. Inflow(c) = Over(InputsOf(c), used.connection) /\ Outflow(c) = Over(OutputsOf(c), used.connection)
      BY TotalIsSum DEF Inflow, Outflow, Over
    <3> QED
      BY <2>2, <3>1, <3>2 DEF Balanced
  <2>7. ASSUME NEW k \in Connections
        PROVE  /\ used.connection[k] \in 0 .. connection[k].capacity_w
               /\ used.connection[k] > 0 => s.connection_closed[k]
    BY <2>2, <2>3, <2>5, SiteFacts DEF Sound
  <2>8. \A c \in Loads : used.load[c] <= s.demand_w[c]
    BY <2>1, <2>2 DEF Sound
  <2> QED
    BY <2>4, <2>6, <2>7, <2>8 DEF FlowIsSound, FlowIsPhysical
<1> QED
  BY <1>1, AlwaysOnTheWay, PTL

\* The returned summary is what solve_capacity returns, passes the assertions of the
\* code and accounts for every watt of the sources.
THEOREM SummaryIsSoundHolds == Spec => []SummaryIsSound
<1>1. OnTheWay => SummaryIsSound
  <2> SUFFICES ASSUME OnTheWay, stage = 4
               PROVE  /\ summary = solve_capacity(s) /\ summary \in Summary
                      /\ capacity_invariants(s, summary)
                      /\ Total(summary.source_power_w) = summary.served_w
    BY DEF SummaryIsSound
  <2> DEFINE n == Network(s)
  <2>1. s \in RuntimeState /\ Charged(s) /\ n.demand_w = s.demand_w
    BY StateFacts DEF OnTheWay
  <2>2. Sound(n, used) /\ Balanced(used) /\ used = allocate(n, Live, Batteries)
        /\ summary = Summarize(n, Live, Batteries, used, Total(s.demand_w), Total(used.load))
    BY DEF OnTheWay, Remaining
  <2>3. summary = solve_capacity(s)
    BY <2>1, <2>2 DEF solve_capacity, Live, Batteries
  <2>4. summary \in Summary /\ capacity_invariants(s, summary)
    BY <2>1, <2>2, SummaryOfSound DEF Live, Batteries
  <2>5. summary.source_power_w = used.source /\ summary.served_w = Total(used.load)
    BY <2>2 DEF Summarize
  <2>6. Total(used.source) = Total(used.load)
    BY <2>2, TotalIsSum DEF Balanced
  <2> QED
    BY <2>3, <2>4, <2>5, <2>6
<1> QED
  BY <1>1, AlwaysOnTheWay, PTL

-----------------------------------------------------------------------------
(* The least cut.                                                          *)

\* What Across sums.
LEMMA AcrossIsCut ==
  ASSUME NEW sources, NEW load \in Loads, NEW R, NEW P, IsCut(Network(s), R, P)
  PROVE  Across(sources, load, R, P) = AcrossCut(Network(s), used, sources, load, R, P)
<1> DEFINE n == Network(s)
           L == {k \in LiveConnections(s) : /\ connection[k].from_component \in P
                                            /\ connection[k].to_component \notin R}
           K == R \ P
           M == (sources \cap Standing) \ R
<1>1. LiveConnections(n) = LiveConnections(s) /\ Standing = Available(n) /\ Unmet(n, used, load) = Unmet(s, used, load)
  BY DEF Network, LiveConnections, IsAvailable, Standing, Available, Unmet
<1>2. L = Leave(R, P) \cap LiveConnections(n) /\ M = (sources \cap Available(n)) \ R
  BY <1>1 DEF Leave, LiveConnections
<1>3. K \in SUBSET Components /\ L \in SUBSET Connections /\ M \in SUBSET Components
  BY DEF IsCut, Available, LiveConnections, Standing
<1>4. /\ [c \in K |-> component[c].capacity_w - used.component[c]] = [c \in K |-> ThroughLeft(used)[c]]
      /\ [k \in L |-> connection[k].capacity_w - used.connection[k]] = [k \in L |-> OverLeft(used)[k]]
      /\ [c \in M |-> component[c].capacity_w - used.source[c]] = [c \in M |-> FromLeft(used)[c]]
  BY <1>3 DEF ThroughLeft, OverLeft, FromLeft
<1>5. /\ Total([c \in K |-> component[c].capacity_w - used.component[c]]) = Over(K, ThroughLeft(used))
      /\ Total([k \in L |-> connection[k].capacity_w - used.connection[k]]) = Over(L, OverLeft(used))
      /\ Total([c \in M |-> component[c].capacity_w - used.source[c]]) = Over(M, FromLeft(used))
  <2> HIDE DEF K, L, M
  <2> QED
    BY <1>4, TotalIsSum DEF Over
<1>6. Across(sources, load, R, P)
        = Over(K, ThroughLeft(used)) + Over(L, OverLeft(used)) + Over(M, FromLeft(used))
          + IF load \in P THEN Unmet(s, used, load) ELSE 0
  BY <1>5 DEF Across
<1> QED
  <2> HIDE DEF L, M
  <2> QED
    BY <1>1, <1>2, <1>6 DEF AcrossCut

\* A cut across which no more is left than across any other.
Least(n, usage, sources, load, R, P) ==
  /\ IsCut(n, R, P)
  /\ \A r, p : IsCut(n, r, p) => AcrossCut(n, usage, sources, load, R, P) <= AcrossCut(n, usage, sources, load, r, p)

\* An exhausted cut that no other undercuts is the minimum that MinCut takes over all cuts.
LEMMA LeastCut ==
  ASSUME s \in States, Sound(Network(s), used), NEW sources, NEW load \in Loads, NEW R, NEW P,
         Least(Network(s), used, sources, load, R, P)
  PROVE  MinCut(sources, load) = AcrossCut(Network(s), used, sources, load, R, P)
<1> DEFINE n == Network(s)
           value == AcrossCut(n, used, sources, load, R, P)
           cuts == {q \in (SUBSET Standing) \X (SUBSET Standing) : q[2] \subseteq q[1]}
           S == {Across(sources, load, cut[1], cut[2]) : cut \in cuts}
<1>1. n.demand_w \in [Loads -> Nat] /\ Standing = Available(n)
  BY StateFacts DEF Standing, Available
<1>2. ASSUME NEW cut \in cuts
      PROVE  /\ IsCut(n, cut[1], cut[2]) /\ Across(sources, load, cut[1], cut[2]) \in Nat
             /\ value <= Across(sources, load, cut[1], cut[2])
  <2>1. IsCut(n, cut[1], cut[2])
    BY <1>1, <1>2 DEF IsCut
  <2>2. Across(sources, load, cut[1], cut[2]) = AcrossCut(n, used, sources, load, cut[1], cut[2])
    BY <2>1, AcrossIsCut
  <2> HIDE DEF n, cuts
  <2>3. AcrossCut(n, used, sources, load, cut[1], cut[2]) \in Nat
    BY <1>1, <2>1, LeftIsNatural DEF n
  <2> QED
    BY <2>1, <2>2, <2>3 DEF Least, n
<1>3. value \in S
  <2>1. IsCut(n, R, P)
    BY DEF Least
  <2>2. <<R, P>> \in cuts
    BY <1>1, <2>1 DEF IsCut
  <2>3. Across(sources, load, R, P) = value
    BY <2>1, AcrossIsCut
  <2> HIDE DEF cuts, n, value
  <2> QED
    BY <2>2, <2>3
<1>4. S \in SUBSET Nat /\ \A x \in S : value <= x
  <2> HIDE DEF cuts, value
  <2> QED
    BY <1>2
<1>5. MinCut(sources, load) = Min(S)
  BY DEF MinCut
<1> HIDE DEF S, value
<1>6. S \in SUBSET Int /\ value \in Nat
  BY <1>3, <1>4
<1>7. Min(S) \in S /\ \A y \in S : Min(S) <= y
  BY <1>3, <1>4, <1>6, MinOfSet
<1>8. Min(S) <= value /\ value <= Min(S) /\ Min(S) \in Nat
  BY <1>3, <1>4, <1>7
<1>9. Min(S) = value
  BY <1>6, <1>8
<1> QED
  BY <1>5, <1>9 DEF value

\* An exhausted cut is a least one.
LEMMA NothingLeft ==
  ASSUME s \in States, Sound(Network(s), used), NEW sources, NEW load \in Loads, NEW R, NEW P,
         Exhausted(Network(s), used, sources, load, R, P)
  PROVE  MinCut(sources, load) = 0
<1> DEFINE n == Network(s)
<1>1. n.demand_w \in [Loads -> Nat]
  BY StateFacts
<1>2. AcrossCut(n, used, sources, load, R, P) = 0 /\ IsCut(n, R, P)
  BY <1>1, NothingAcross DEF Exhausted
<1>3. ASSUME NEW r, NEW p, IsCut(n, r, p) PROVE 0 <= AcrossCut(n, used, sources, load, r, p)
  <2>1. AcrossCut(n, used, sources, load, r, p) \in Nat
    BY <1>1, <1>3, LeftIsNatural
  <2> HIDE DEF n
  <2> QED
    BY <2>1
<1>4. Least(n, used, sources, load, R, P)
  <2> HIDE DEF n
  <2> QED
    BY <1>2, <1>3 DEF Least
<1> QED
  BY <1>2, <1>4, LeastCut

\* Offers only add.
Grows(usage, after) ==
  /\ \A c \in Components : usage.component[c] <= after.component[c] /\ usage.source[c] <= after.source[c]
  /\ \A k \in Connections : usage.connection[k] <= after.connection[k]
  /\ \A c \in Loads : usage.load[c] <= after.load[c]

\* Adding a flow takes nothing back from any component, connection, source or load.
LEMMA FlowGrows ==
  ASSUME NEW n, NEW usage, Sound(n, usage), NEW load, NEW after,
         NEW through, NEW over, NEW from, NEW value,
         IsFlow(load, through, over, from, value),
         Adds(load, usage, after, through, over, from, value)
  PROVE  Grows(usage, after)
<1>1. \A x, y \in Nat : x <= x + y /\ x <= x + 0
  OBVIOUS
<1>2. /\ \A c \in Components : /\ usage.component[c] \in Nat /\ usage.source[c] \in Nat
                               /\ through[c] \in Nat /\ from[c] \in Nat
      /\ \A k \in Connections : usage.connection[k] \in Nat /\ over[k] \in Nat
      /\ \A c \in Loads : usage.load[c] \in Nat
      /\ value \in Nat
  BY DEF Sound, IsFlow
<1> QED
  BY <1>1, <1>2 DEF Adds, Grows

\* What was used up stays so.
LEMMA ExhaustedStays ==
  ASSUME NEW n, n.demand_w \in [Loads -> Nat], NEW usage, Sound(n, usage), NEW after, Sound(n, after),
         Grows(usage, after), NEW sources, NEW load \in Loads, NEW R, NEW P,
         Exhausted(n, usage, sources, load, R, P)
  PROVE  Exhausted(n, after, sources, load, R, P)
<1>1. \A cap, x, y \in Nat : cap - x = 0 /\ x <= y /\ y <= cap => cap - y = 0
  OBVIOUS
<1>2. ASSUME NEW c \in Components
      PROVE  /\ ThroughLeft(usage)[c] = 0 => ThroughLeft(after)[c] = 0
             /\ FromLeft(usage)[c] = 0 => FromLeft(after)[c] = 0
  <2>1. /\ component[c].capacity_w \in Nat
        /\ usage.component[c] \in Nat /\ after.component[c] \in Nat
        /\ usage.source[c] \in Nat /\ after.source[c] \in Nat
        /\ after.component[c] <= component[c].capacity_w /\ after.source[c] <= component[c].capacity_w
    BY SiteFacts DEF Sound
  <2>2. usage.component[c] <= after.component[c] /\ usage.source[c] <= after.source[c]
    BY DEF Grows
  <2> QED
    BY <1>1, <2>1, <2>2 DEF ThroughLeft, FromLeft
<1>3. ASSUME NEW k \in Connections PROVE OverLeft(usage)[k] = 0 => OverLeft(after)[k] = 0
  <2>1. /\ connection[k].capacity_w \in Nat
        /\ usage.connection[k] \in Nat /\ after.connection[k] \in Nat
        /\ after.connection[k] <= connection[k].capacity_w
    BY SiteFacts DEF Sound
  <2>2. usage.connection[k] <= after.connection[k]
    BY DEF Grows
  <2> QED
    BY <1>1, <2>1, <2>2 DEF OverLeft
<1>4. Unmet(n, usage, load) = 0 => Unmet(n, after, load) = 0
  <2>1. /\ n.demand_w[load] \in Nat /\ usage.load[load] \in Nat /\ after.load[load] \in Nat
        /\ after.load[load] <= n.demand_w[load]
    BY DEF Sound
  <2>2. usage.load[load] <= after.load[load]
    BY DEF Grows
  <2> QED
    BY <1>1, <2>1, <2>2 DEF Unmet
<1>5. /\ R \ P \in SUBSET Components /\ Leave(R, P) \cap LiveConnections(n) \in SUBSET Connections
      /\ (sources \cap Available(n)) \ R \in SUBSET Components
  BY DEF Exhausted, IsCut, Available, Leave
<1> QED
  BY <1>2, <1>3, <1>4, <1>5 DEF Exhausted, ZeroOn

\* A cut that an offer fills is used up.
LEMMA FilledIsExhausted ==
  ASSUME NEW n, n.demand_w \in [Loads -> Nat], NEW usage, Sound(n, usage), NEW after, NEW sources,
         NEW load \in Loads, NEW through, NEW over, NEW from, NEW value, NEW R, NEW P,
         IsFlow(load, through, over, from, value),
         Fills(n, sources, load, usage, through, over, from, value, R, P),
         Adds(load, usage, after, through, over, from, value)
  PROVE  Exhausted(n, after, sources, load, R, P)
<1>1. \A cap, x, y \in Nat : y = cap - x => cap - (x + y) = 0
  OBVIOUS
<1>2. /\ R \ P \in SUBSET Components /\ Leave(R, P) \cap LiveConnections(n) \in SUBSET Connections
      /\ (sources \cap Available(n)) \ R \in SUBSET Components /\ IsCut(n, R, P)
  BY DEF Fills, IsCut, Available, Leave
<1>3. ASSUME NEW c \in R \ P PROVE ThroughLeft(after)[c] = 0
  <2>1. /\ c \in Components /\ component[c].capacity_w \in Nat /\ usage.component[c] \in Nat /\ through[c] \in Nat
    BY <1>2, SiteFacts DEF Sound, IsFlow
  <2>2. through[c] = component[c].capacity_w - usage.component[c] /\ after.component[c] = usage.component[c] + through[c]
    BY <1>3, <2>1 DEF Fills, Adds, ThroughLeft
  <2> QED
    BY <1>1, <2>1, <2>2 DEF ThroughLeft
<1>4. ASSUME NEW k \in Leave(R, P) \cap LiveConnections(n) PROVE OverLeft(after)[k] = 0
  <2>1. /\ k \in Connections /\ connection[k].capacity_w \in Nat /\ usage.connection[k] \in Nat /\ over[k] \in Nat
    BY <1>2, SiteFacts DEF Sound, IsFlow
  <2>2. over[k] = connection[k].capacity_w - usage.connection[k] /\ after.connection[k] = usage.connection[k] + over[k]
    BY <1>4, <2>1 DEF Fills, Adds, OverLeft
  <2> QED
    BY <1>1, <2>1, <2>2 DEF OverLeft
<1>5. ASSUME NEW c \in (sources \cap Available(n)) \ R PROVE FromLeft(after)[c] = 0
  <2>1. /\ c \in Components /\ component[c].capacity_w \in Nat /\ usage.source[c] \in Nat /\ from[c] \in Nat
    BY <1>2, SiteFacts DEF Sound, IsFlow
  <2>2. from[c] = component[c].capacity_w - usage.source[c] /\ after.source[c] = usage.source[c] + from[c]
    BY <1>5, <2>1 DEF Fills, Adds, FromLeft
  <2> QED
    BY <1>1, <2>1, <2>2 DEF FromLeft
<1>6. load \in P => Unmet(n, after, load) = 0
  <2>1. n.demand_w[load] \in Nat /\ usage.load[load] \in Nat /\ value \in Nat
    BY DEF Sound, IsFlow
  <2>2. load \in P => value = n.demand_w[load] - usage.load[load]
    BY DEF Fills, Unmet
  <2>3. after.load[load] = usage.load[load] + value
    BY DEF Adds
  <2> QED
    BY <1>1, <2>1, <2>2, <2>3 DEF Unmet
<1> QED
  BY <1>2, <1>3, <1>4, <1>5, <1>6 DEF Exhausted, ZeroOn

\* Nothing is left for a load that needs nothing, nor without sources.
LEMMA NothingNeeded ==
  ASSUME NEW n, NEW usage, Sound(n, usage), n.demand_w \in [Loads -> Nat], NEW sources, NEW load \in Loads
  PROVE  /\ ~ NeedsPower(n, usage, load)
            => Exhausted(n, usage, sources, load, Available(n), Available(n))
         /\ sources = {} => Exhausted(n, usage, sources, load, {}, {})
<1>1. ASSUME ~ NeedsPower(n, usage, load), load \in Available(n) PROVE Unmet(n, usage, load) = 0
  <2>1. n.demand_w[load] \in Nat /\ usage.load[load] \in Nat /\ usage.load[load] <= n.demand_w[load]
    BY DEF Sound
  <2>2. ~ (Unmet(n, usage, load) > 0)
    BY <1>1 DEF NeedsPower, Available
  <2> QED
    BY <2>1, <2>2 DEF Unmet
<1>2. Leave(Available(n), Available(n)) \cap LiveConnections(n) = {}
  BY SiteFacts DEF Leave, LiveConnections, Available
<1> QED
  BY <1>1, <1>2 DEF Exhausted, IsCut, ZeroOn, Leave

\* The live sources have nothing more to give a load.
LiveSpent(c) == \E R, P : Exhausted(Network(s), used, Live, c, R, P)

\* The inductive invariant of the two stages: batteries give nothing before the stored
\* one, and the live sources nothing more to a load that the live one has offered them.
InTurn ==
  /\ Len(waiting) <= Len(ServiceOrder)
  /\ \A c \in Components : used.source[c] # 0 => c \in Live \/ (stage # 1 /\ c \in Batteries)
  /\ \A c \in Loads : stage = 2 \/ (stage = 1 /\ c \notin Range(waiting)) => LiveSpent(c)

\* Before the first offer no load has had its turn.
LEMMA InitInTurn == Init => InTurn
<1> SUFFICES ASSUME Init PROVE InTurn
  OBVIOUS
<1>1. stage = 1 /\ waiting = ServiceOrder /\ used = NothingUsed
  BY DEF Init
<1>2. Len(waiting) <= Len(ServiceOrder)
  BY <1>1, ServiceOrderType, LenProperties
<1>3. \A c \in Components : used.source[c] = 0
  BY <1>1 DEF NothingUsed
<1>4. \A c \in Loads : c \in Range(waiting)
  BY <1>1, EveryLoadIsServed DEF Range
<1> QED
  BY <1>1, <1>2, <1>3, <1>4 DEF InTurn

\* The effect of a turn on another load, and on the one whose turn it is.
LEMMA TurnSpends ==
  ASSUME OnTheWay, OnTheWay', ServeLoad
  PROVE  /\ Grows(used, used')
         /\ \A c \in Components : used'.source[c] # used.source[c] => c \in Offered
         /\ \E R, P : Exhausted(Network(s), used', Offered, Head(waiting), R, P)
         /\ \A c \in Loads : LiveSpent(c) => LiveSpent(c)'
<1> DEFINE n == Network(s)
           load == Head(waiting)
           offered == Offered
<1>1. /\ s \in States /\ waiting \in Seq(Loads) /\ waiting # << >> /\ Sound(n, used)
      /\ NeedsPower(s, used, load) /\ used' = Offer(n, offered, used, load) /\ s' = s
  BY DEF OnTheWay, ServeLoad, AtLoad
<1>2. Network(s)' = n /\ Sound(n, used') /\ Live' = Live
  BY <1>1 DEF OnTheWay, Live
<1>3. load \in Loads /\ n.demand_w \in [Loads -> Nat] /\ NeedsPower(n, used, load)
  BY <1>1, StateFacts, HeadTailProperties
<1> HIDE DEF n, load, offered
<1>4. PICK through, over, from, value, R, P :
        /\ IsFlow(load, through, over, from, value)
        /\ Fits(n, offered, load, used, through, over, from, value)
        /\ Fills(n, offered, load, used, through, over, from, value, R, P)
        /\ Adds(load, used, used', through, over, from, value)
  BY <1>1, <1>3, OfferIsFlow
<1>5. Grows(used, used')
  BY <1>1, <1>4, FlowGrows
<1>6. Exhausted(n, used', offered, load, R, P)
  BY <1>1, <1>3, <1>4, FilledIsExhausted
<1>7. ASSUME NEW c \in Components, used'.source[c] # used.source[c] PROVE c \in offered
  <2>1. used'.source[c] = used.source[c] + from[c] /\ used.source[c] \in Nat /\ from[c] \in Nat
    BY <1>1, <1>4 DEF Adds, Sound, IsFlow
  <2>2. from[c] # 0
    BY <1>7, <2>1
  <2> QED
    BY <1>4, <2>2 DEF Fits
<1>8. ASSUME NEW c \in Loads, LiveSpent(c) PROVE LiveSpent(c)'
  <2>1. PICK r, p : Exhausted(n, used, Live, c, r, p)
    BY <1>8 DEF LiveSpent, n
  <2>2. Exhausted(n, used', Live, c, r, p)
    BY <1>1, <1>2, <1>3, <1>5, <2>1, ExhaustedStays
  <2> QED
    BY <1>2, <2>2 DEF LiveSpent
<1> QED
  BY <1>5, <1>6, <1>7, <1>8 DEF n, load, offered

\* Each step keeps that the loads which had their turn have spent the live sources.
LEMMA NextInTurn == OnTheWay /\ OnTheWay' /\ InTurn /\ [Next]_vars => InTurn'
<1> SUFFICES ASSUME OnTheWay, OnTheWay', InTurn, [Next]_vars PROVE InTurn'
  OBVIOUS
<1> DEFINE n == Network(s)
<1>1. /\ s \in States /\ waiting \in Seq(Loads) /\ Sound(n, used) /\ n.demand_w \in [Loads -> Nat]
      /\ \A c : NeedsPower(n, used, c) <=> NeedsPower(s, used, c)
  BY StateFacts DEF OnTheWay
<1>2. s' = s /\ Network(s)' = n /\ Live' = Live /\ Batteries' = Batteries
  BY DEF Next, ServeLoad, PassOver, NextStage, Publish, Returned, vars, Live, Batteries
\* What a turn leaves.
<1>3. ASSUME waiting # << >>
      PROVE  /\ Len(Tail(waiting)) <= Len(ServiceOrder)
             /\ \A c \in Loads : c \notin Range(Tail(waiting)) => c \notin Range(waiting) \/ c = Head(waiting)
  <2>1. /\ Len(waiting) \in Nat /\ Len(ServiceOrder) \in Nat /\ Len(waiting) <= Len(ServiceOrder)
        /\ Len(Tail(waiting)) = Len(waiting) - 1
    BY <1>1, <1>3, ServiceOrderType, LenProperties, HeadTailProperties DEF InTurn
  <2>2. ASSUME NEW c \in Range(waiting), c # Head(waiting) PROVE c \in Range(Tail(waiting))
    <3>1. PICK i \in 1 .. Len(waiting) : waiting[i] = c
      BY <1>1, <2>2, LenProperties DEF Range
    <3>2. i # 1 /\ i - 1 \in 1 .. Len(Tail(waiting)) /\ (i - 1) + 1 = i
      BY <1>1, <1>3, <2>1, <2>2, <3>1, HeadTailProperties
    <3>3. Tail(waiting)[i - 1] = c /\ Tail(waiting) \in Seq(Loads)
      BY <1>1, <1>3, <3>1, <3>2, HeadTailProperties
    <3> QED
      BY <3>2, <3>3, LenProperties DEF Range
  <2> QED
    BY <2>1, <2>2
<1>4. CASE ServeLoad
  <2>1. /\ stage \in {1, 2} /\ waiting # << >> /\ waiting' = Tail(waiting) /\ stage' = stage
        /\ Head(waiting) \in Loads
    BY <1>1, <1>4, HeadTailProperties DEF ServeLoad, AtLoad
  <2>2. ASSUME NEW c \in Components, used'.source[c] # 0
        PROVE  c \in Live \/ (stage # 1 /\ c \in Batteries)
    <3>1. CASE used.source[c] # 0
      BY <3>1 DEF InTurn
    <3>2. CASE used.source[c] = 0
      <4>1. c \in Offered
        BY <1>4, <2>2, <3>2, TurnSpends
      <4> QED
        BY <2>1, <4>1 DEF Offered, StoredStage
    <3> QED
      BY <3>1, <3>2
  <2>3. ASSUME NEW c \in Loads, stage = 2 \/ (stage = 1 /\ c \notin Range(waiting')) PROVE LiveSpent(c)'
    <3>1. CASE LiveSpent(c)
      BY <1>4, <3>1, TurnSpends
    <3>2. CASE stage = 1 /\ c = Head(waiting)
      <4>1. PICK R, P : Exhausted(Network(s), used', Offered, Head(waiting), R, P)
        BY <1>4, TurnSpends
      <4>2. Exhausted(Network(s)', used', Live', c, R, P)
        BY <1>2, <3>2, <4>1 DEF Offered
      <4> QED
        BY <4>2 DEF LiveSpent
    <3> QED
      BY <1>3, <2>1, <2>3, <3>1, <3>2 DEF InTurn
  <2> QED
    BY <1>2, <1>3, <2>1, <2>2, <2>3 DEF InTurn
<1>5. CASE PassOver
  <2>1. /\ stage \in {1, 2} /\ waiting # << >> /\ waiting' = Tail(waiting) /\ stage' = stage
        /\ used' = used /\ ~ NeedsPower(s, used, Head(waiting)) /\ Head(waiting) \in Loads
    BY <1>1, <1>5, HeadTailProperties DEF PassOver, AtLoad
  <2>2. ASSUME NEW c \in Loads, stage = 2 \/ (stage = 1 /\ c \notin Range(waiting')) PROVE LiveSpent(c)
    <3>1. CASE stage = 1 /\ c = Head(waiting)
      <4>1. Exhausted(n, used, Live, c, Available(n), Available(n))
        <5>1. ~ NeedsPower(n, used, c)
          BY <1>1, <2>1, <3>1
        <5> HIDE DEF n
        <5> QED
          BY <1>1, <5>1, NothingNeeded
      <4> QED
        BY <4>1 DEF LiveSpent
    <3> QED
      BY <1>3, <2>1, <2>2, <3>1 DEF InTurn
  <2>3. \A c \in Loads : LiveSpent(c)' <=> LiveSpent(c)
    BY <1>2, <2>1 DEF LiveSpent
  <2> QED
    BY <1>2, <1>3, <2>1, <2>2, <2>3 DEF InTurn
<1>6. CASE NextStage
  <2>1. /\ stage \in {1, 2} /\ (Offered = {} \/ waiting = << >>)
        /\ stage' = stage + 1 /\ waiting' = ServiceOrder /\ used' = used
    BY <1>6 DEF NextStage
  <2>2. ASSUME NEW c \in Loads, stage = 1 PROVE LiveSpent(c)
    <3>1. CASE Offered = {}
      <4>1. Live = {}
        BY <2>2, <3>1 DEF Offered
      <4>2. Exhausted(n, used, Live, c, {}, {})
        BY <1>1, <4>1, NothingNeeded
      <4> QED
        BY <4>2 DEF LiveSpent
    <3>2. CASE waiting = << >>
      BY <2>2, <3>2 DEF InTurn, Range
    <3> QED
      BY <2>1, <3>1, <3>2
  <2>3. \A c \in Loads : LiveSpent(c)' <=> LiveSpent(c)
    BY <1>2, <2>1 DEF LiveSpent
  <2>4. stage' # 1 /\ (stage' = 2 => stage = 1)
    BY <2>1
  <2>5. Len(waiting') <= Len(ServiceOrder)
    BY <2>1, ServiceOrderType, LenProperties
  <2> QED
    BY <1>2, <2>1, <2>2, <2>3, <2>4, <2>5 DEF InTurn
<1>7. CASE Publish
  <2>1. stage = 3 /\ stage' = 4 /\ waiting' = waiting /\ used' = used
    BY <1>7 DEF Publish
  <2> QED
    BY <1>2, <2>1 DEF InTurn
<1>8. CASE UNCHANGED vars
  <2>1. stage' = stage /\ waiting' = waiting /\ used' = used
    BY <1>8 DEF vars
  <2>2. \A c \in Loads : LiveSpent(c)' <=> LiveSpent(c)
    BY <1>2, <2>1 DEF LiveSpent
  <2> QED
    BY <1>2, <2>1, <2>2 DEF InTurn
<1> QED
  BY <1>4, <1>5, <1>6, <1>7, <1>8 DEF Next, Returned

\* Every load that was offered the live sources has exhausted them or needs nothing more, and later offers
\* do not change that (_allocate, capacity.py); for every site and every runtime state.
THEOREM AlwaysInTurn == Spec => []InTurn
BY InitInTurn, NextInTurn, AlwaysOnTheWay, PTL DEF Spec

\* No battery discharges while a live source can still reach a load (_allocate,
\* capacity.py): in the stored stage the live sources have nothing more to give, to
\* any load, and a battery gives nothing before it; for every site and runtime state.
THEOREM LiveSourcesFirstHolds == Spec => []LiveSourcesFirst
<1>1. OnTheWay /\ InTurn => LiveSourcesFirst
  <2> SUFFICES ASSUME OnTheWay, InTurn PROVE LiveSourcesFirst
    OBVIOUS
  <2>1. s \in States /\ Sound(Network(s), used) /\ stage \in 1 .. 4
    BY DEF OnTheWay
  <2>2. ASSUME NEW u \in Upses, used.source[u] > 0 PROVE stage > 1 /\ u \in Batteries
    <3>1. u \in Components /\ used.source[u] # 0
      BY <2>1, <2>2 DEF Sound, Upses, OfKind
    <3>2. s.generator_running \in SUBSET Generators
      BY <2>1, StateFacts DEF RuntimeState
    <3>3. u \notin Live
      BY <2>2, <3>2 DEF Live, NonBatterySources, Upses, Utilities, Generators, OfKind
    <3> QED
      BY <2>1, <3>1, <3>3 DEF InTurn
  <2>3. ASSUME stage = 2, NEW c \in Loads PROVE MinCut(Live, c) = 0
    <3>1. PICK R, P : Exhausted(Network(s), used, Live, c, R, P)
      BY <2>3 DEF InTurn, LiveSpent
    <3> QED
      BY <2>1, <3>1, NothingLeft
  <2> QED
    BY <2>2, <2>3 DEF LiveSourcesFirst
<1> QED
  BY <1>1, AlwaysOnTheWay, AlwaysInTurn, PTL

\* A load takes exactly the least cut between the sources of the stage and it
\* (edmonds_karp, capacity.py): the augmenting paths neither stop early nor push more
\* than fits; for every site and runtime state.
THEOREM TakesTheMinCutHolds == Spec => TakesTheMinCut
<1>1. ASSUME OnTheWay, OnTheWay', InTurn, [Next]_vars, waiting # << >>, waiting' = Tail(waiting)
      PROVE  used'.load[Head(waiting)] - used.load[Head(waiting)] =
               IF IsAvailable(s, Head(waiting)) THEN MinCut(Offered, Head(waiting)) ELSE 0
  <2> DEFINE n == Network(s)
             load == Head(waiting)
             offered == Offered
  <2>1. /\ s \in States /\ waiting \in Seq(Loads) /\ Sound(n, used) /\ n.demand_w \in [Loads -> Nat]
        /\ NeedsPower(n, used, load) <=> NeedsPower(s, used, load)
        /\ load \in Loads /\ used.load[load] \in Nat
    BY <1>1, StateFacts, HeadTailProperties DEF OnTheWay, Sound
  <2>2. Tail(waiting) # waiting /\ Tail(waiting) # ServiceOrder
    <3>1. /\ Len(waiting) \in Nat /\ Len(ServiceOrder) \in Nat /\ Len(waiting) <= Len(ServiceOrder)
          /\ Len(Tail(waiting)) = Len(waiting) - 1
      BY <1>1, <2>1, ServiceOrderType, LenProperties, HeadTailProperties DEF InTurn
    <3> QED
      BY <3>1
  <2>3. CASE ServeLoad
    <3>1. NeedsPower(n, used, load) /\ used' = Offer(n, offered, used, load) /\ IsAvailable(s, load)
      BY <2>1, <2>3 DEF ServeLoad, NeedsPower
    <3> HIDE DEF n, load, offered
    <3>2. PICK through, over, from, value, R, P :
            /\ IsFlow(load, through, over, from, value)
            /\ Fits(n, offered, load, used, through, over, from, value)
            /\ Fills(n, offered, load, used, through, over, from, value, R, P)
            /\ Adds(load, used, used', through, over, from, value)
      BY <2>1, <3>1, OfferIsFlow
    <3>3. IsCut(n, R, P)
      BY <3>2 DEF Fills, IsCut
    <3>4. value = AcrossCut(n, used, offered, load, R, P)
      BY <2>1, <3>2, <3>3, FlowWithinCut
    <3>5. ASSUME NEW r, NEW p, IsCut(n, r, p) PROVE value <= AcrossCut(n, used, offered, load, r, p)
      BY <2>1, <3>2, <3>5, FlowWithinCut
    <3>6. Least(n, used, offered, load, R, P)
      BY <3>3, <3>4, <3>5 DEF Least
    <3>7. MinCut(offered, load) = value
      BY <2>1, <3>4, <3>6, LeastCut DEF n
    <3>8. used'.load[load] = used.load[load] + value /\ value \in Nat
      BY <2>1, <3>2 DEF Adds, IsFlow
    <3>9. used'.load[load] - used.load[load] = value
      BY <2>1, <3>8
    <3> QED
      BY <3>1, <3>7, <3>9 DEF load, offered
  <2>4. CASE PassOver
    <3>1. used' = used /\ ~ NeedsPower(n, used, load)
      BY <2>1, <2>4 DEF PassOver
    <3> HIDE DEF n, load, offered
    <3>2. Exhausted(n, used, offered, load, Available(n), Available(n))
      BY <2>1, <3>1, NothingNeeded
    <3>3. MinCut(offered, load) = 0
      BY <2>1, <3>2, NothingLeft DEF n
    <3>4. used'.load[load] - used.load[load] = 0
      BY <2>1, <3>1
    <3> QED
      BY <3>3, <3>4 DEF load, offered
  <2>5. CASE NextStage \/ Publish \/ UNCHANGED vars
    BY <1>1, <2>2, <2>5 DEF NextStage, Publish, vars
  <2> QED
    BY <1>1, <2>3, <2>4, <2>5 DEF Next, Returned
<1>2. OnTheWay /\ OnTheWay' /\ InTurn /\ [Next]_vars
      => [waiting # << >> /\ waiting' = Tail(waiting) =>
            used'.load[Head(waiting)] - used.load[Head(waiting)] =
              IF IsAvailable(s, Head(waiting)) THEN MinCut(Offered, Head(waiting)) ELSE 0]_vars
  BY <1>1
<1> QED
  BY <1>2, AlwaysOnTheWay, AlwaysInTurn, PTL DEF Spec, TakesTheMinCut

-----------------------------------------------------------------------------
(* What an exhausted cut keeps apart.                                      *)

\* The nodes on the side of the sources that it lets in.
NodesBehind(R, P) ==
  {In(c) : c \in R} \cup {Out(c) : c \in P}
  \cup {ConnectionNode(k) : k \in {l \in Connections : connection[l].from_component \in P}}

\* Two usages that are the same on the other side.
SameBeyond(R, P, usage, other) ==
  /\ \A c \in Components \ R : usage.component[c] = other.component[c] /\ usage.source[c] = other.source[c]
  /\ \A k \in Connections : connection[k].from_component \notin P => usage.connection[k] = other.connection[k]

\* The nodes of a component or connection are behind the cut if the cut lets it in, or out.
LEMMA BehindFacts ==
  ASSUME NEW R \in SUBSET Components, NEW P \in SUBSET R
  PROVE  /\ \A c \in Components : (In(c) \in NodesBehind(R, P) <=> c \in R)
                                  /\ (Out(c) \in NodesBehind(R, P) <=> c \in P)
         /\ \A k \in Connections : ConnectionNode(k) \in NodesBehind(R, P)
                                   <=> connection[k].from_component \in P
         /\ Source \notin NodesBehind(R, P) /\ Sink \notin NodesBehind(R, P)
<1>1. \A c \in Components : In(c) \in NodesBehind(R, P) <=> c \in R
  BY NodesDiffer DEF NodesBehind
<1>2. \A c \in Components : Out(c) \in NodesBehind(R, P) <=> c \in P
  BY NodesDiffer DEF NodesBehind
<1>3. \A k \in Connections : ConnectionNode(k) \in NodesBehind(R, P) <=> connection[k].from_component \in P
  BY NodesDiffer DEF NodesBehind
<1>4. Source \notin NodesBehind(R, P) /\ Sink \notin NodesBehind(R, P)
  BY NodesDiffer DEF NodesBehind
<1> QED
  BY <1>1, <1>2, <1>3, <1>4

\* What can leave the side of the sources is for the load.
OneWay(full, load, R, P) ==
  /\ R \in SUBSET Components /\ P \in SUBSET R
  /\ \A a \in Usable(full) : a \in Edges
  /\ \A a \in Usable(full) : a[1] \in NodesBehind(R, P)
                             => a[2] \in NodesBehind(R, P) \/ (a[2] = Sink /\ load \in P)

\* What the sources can send goes there.
SentBehind(full, R, P) == \A a \in Usable(full) : a[1] = Source => a[2] \in NodesBehind(R, P)

\* The network of any load after a cut was exhausted, and of one that the same sources are offered.
LEMMA NoWayAcross ==
  ASSUME NEW n, NEW usage, NEW live, NEW c, NEW R, NEW P, Exhausted(n, usage, live, c, R, P),
         NEW sources, NEW load \in Loads, NEW demand, NEW full \in [Arcs -> Nat],
         IsNetwork(n, sources, load, demand, usage, full)
  PROVE  OneWay(full, load, R, P) /\ (sources = live => SentBehind(full, R, P))
<1> DEFINE N == NodesBehind(R, P)
           Usual(a) == a \in Usable(full)
           Kept(a) == Usual(a) => (/\ a[1] \in N => a[2] \in N \/ (a[2] = Sink /\ load \in P)
                                   /\ sources = live /\ a[1] = Source => a[2] \in N)
<1>1. /\ R \in SUBSET Available(n) /\ P \in SUBSET R /\ R \in SUBSET Components
      /\ \A x \in R \ P : ThroughLeft(usage)[x] = 0
      /\ \A k \in Leave(R, P) \cap LiveConnections(n) : OverLeft(usage)[k] = 0
      /\ \A x \in (live \cap Available(n)) \ R : FromLeft(usage)[x] = 0
  BY DEF Exhausted, IsCut, ZeroOn, Available
<1>2. /\ \A x \in Components : (In(x) \in N <=> x \in R) /\ (Out(x) \in N <=> x \in P)
      /\ \A k \in Connections : ConnectionNode(k) \in N <=> connection[k].from_component \in P
      /\ Source \notin N /\ Sink \notin N
  BY <1>1, BehindFacts
<1>3. \A a \in Usable(full) : a \in Edges /\ full[a] # 0
  BY DEF Usable, IsNetwork
<1> HIDE DEF N
<1>4. ASSUME NEW x \in Components PROVE Kept(ComponentEdge(x))
  <2> SUFFICES ASSUME Usual(ComponentEdge(x)), x \in R, x \notin P PROVE FALSE
    BY <1>2, NodesDiffer DEF ComponentEdge
  <2>1. full[ComponentEdge(x)] = IF IsAvailable(n, x) THEN ThroughLeft(usage)[x] ELSE 0
    BY DEF IsNetwork, ThroughLeft
  <2> QED
    BY <1>1, <1>3, <2>1
<1>5. ASSUME NEW x \in Components PROVE Kept(SourceEdge(x))
  <2> SUFFICES ASSUME Usual(SourceEdge(x)), sources = live, x \notin R PROVE FALSE
    BY <1>2 DEF SourceEdge
  <2>1. full[SourceEdge(x)] = IF x \in live /\ x \in Available(n) THEN FromLeft(usage)[x] ELSE 0
    BY DEF IsNetwork, FromLeft, Available
  <2> QED
    BY <1>1, <1>3, <2>1
<1>6. ASSUME NEW k \in Connections PROVE Kept(FirstEdge(k))
  BY <1>2, SiteFacts, NodesDiffer DEF FirstEdge
<1>7. ASSUME NEW k \in Connections PROVE Kept(SecondEdge(k))
  <2> SUFFICES ASSUME Usual(SecondEdge(k)), connection[k].from_component \in P, connection[k].to_component \notin R
               PROVE  FALSE
    BY <1>2, SiteFacts, NodesDiffer DEF SecondEdge
  <2>1. full[SecondEdge(k)] = IF k \in LiveConnections(n) THEN OverLeft(usage)[k] ELSE 0
    BY DEF IsNetwork, OverLeft
  <2>2. k \in Leave(R, P)
    BY DEF Leave
  <2> QED
    BY <1>1, <1>3, <2>1, <2>2
<1>8. ASSUME NEW x \in Loads PROVE Kept(SinkEdge(x))
  <2> SUFFICES ASSUME Usual(SinkEdge(x)), x \in P PROVE load \in P
    BY <1>2, SiteFacts, NodesDiffer DEF SinkEdge
  <2>1. x = load
    BY <1>3 DEF IsNetwork
  <2> QED
    BY <2>1
<1> HIDE DEF Kept
<1>9. \A e \in Edges : Kept(e)
  BY <1>4, <1>5, <1>6, <1>7, <1>8 DEF Edges, ComponentEdges, FirstEdges, SecondEdges, SourceEdges, SinkEdges
<1> QED
  BY <1>1, <1>3, <1>9 DEF Kept, N, OneWay, SentBehind

\* An offer of the live sources changes nothing beyond a cut that they have exhausted.
LEMMA LiveOfferStays ==
  ASSUME NEW n, n.demand_w \in [Loads -> Nat], NEW usage, Sound(n, usage), NEW live, NEW load \in Loads,
         NEW c, NEW R, NEW P, Exhausted(n, usage, live, c, R, P)
  PROVE  SameBeyond(R, P, usage, Offer(n, live, usage, load))
<1>1. CASE ~ NeedsPower(n, usage, load)
  BY <1>1 DEF Offer, SameBeyond
<1>2. CASE NeedsPower(n, usage, load)
  <2> DEFINE demand == Unmet(n, usage, load)
             N == NodesBehind(R, P)
             V == Nodes \ (N \cup {Source, Sink})
  <2>1. PICK full \in [Arcs -> Nat] :
          /\ IsNetwork(n, live, load, demand, usage, full)
          /\ Offer(n, live, usage, load) = Committed(usage, load, edmonds_karp(full))
    BY <1>2, OfferAdds
  <2> HIDE DEF demand
  <2>2. /\ R \in SUBSET Components /\ P \in SUBSET R
        /\ \A a \in Usable(full) : a \in Edges
        /\ \A a \in Usable(full) : a[1] \in N => a[2] \in N \/ a[2] = Sink
        /\ \A a \in Usable(full) : a[1] = Source => a[2] \in N
    <3>1. OneWay(full, load, R, P) /\ SentBehind(full, R, P)
      BY <2>1, NoWayAcross
    <3> QED
      BY <3>1 DEF OneWay, SentBehind
  <2>3. /\ \A x \in Components : In(x) \in N <=> x \in R
        /\ \A k \in Connections : ConnectionNode(k) \in N <=> connection[k].from_component \in P
        /\ Source \notin N /\ Sink \notin N
    BY <2>2, BehindFacts
  <2> HIDE DEF N
  <2>4. NoWayIn(Usable(full), V)
    <3> SUFFICES ASSUME NEW a \in Usable(full), a[2] \in V PROVE a[1] \in V
      BY DEF NoWayIn
    <3>1. a \in Edges /\ a[1] \in Nodes /\ a[1] # Sink
      BY <2>2, EdgeFacts, EdgesAtNodes
    <3> QED
      BY <2>2, <3>1
  <2> DEFINE flow == edmonds_karp(full)
  <2>5. \A e \in Edges : e[1] \in V \/ e[2] \in V => flow[e] = 0
    <3>1. full \in [Arcs -> Int]
      OBVIOUS
    <3> HIDE DEF V, flow
    <3> QED
      BY <2>4, <3>1, FlowPassesBy DEF Meets, flow
  <2>6. /\ \A x \in Components : ComponentEdge(x) \in Edges /\ SourceEdge(x) \in Edges
        /\ \A k \in Connections : FirstEdge(k) \in Edges
    BY KindsApart DEF Edges
  <2> HIDE DEF flow
  <2>7. ASSUME NEW x \in Components \ R PROVE flow[ComponentEdge(x)] = 0 /\ flow[SourceEdge(x)] = 0
    <3>1. In(x) \in V
      BY <2>3, <2>6, EdgeFacts, NodesDiffer DEF SourceEdge
    <3> HIDE DEF V
    <3> QED
      BY <2>5, <2>6, <3>1 DEF ComponentEdge, SourceEdge
  <2>8. ASSUME NEW k \in Connections, connection[k].from_component \notin P PROVE flow[FirstEdge(k)] = 0
    <3>1. ConnectionNode(k) \in V
      BY <2>3, <2>6, <2>8, EdgeFacts, NodesDiffer DEF FirstEdge
    <3> HIDE DEF V
    <3> QED
      BY <2>5, <2>6, <3>1 DEF FirstEdge
  <2>9. /\ \A x \in Components : usage.component[x] \in Int /\ usage.source[x] \in Int
        /\ \A k \in Connections : usage.connection[k] \in Int
    BY DEF Sound
  <2> DEFINE after == Committed(usage, load, flow)
  <2>10. /\ \A x \in Components : /\ after.component[x] = usage.component[x] + flow[ComponentEdge(x)]
                                  /\ after.source[x] = usage.source[x] + flow[SourceEdge(x)]
         /\ \A k \in Connections : after.connection[k] = usage.connection[k] + flow[FirstEdge(k)]
    BY DEF Committed
  <2>11. after = Offer(n, live, usage, load)
    BY <2>1 DEF flow
  <2> HIDE DEF after
  <2> QED
    BY <2>7, <2>8, <2>9, <2>10, <2>11 DEF SameBeyond
<1> QED
  BY <1>1, <1>2

-----------------------------------------------------------------------------
(* Two allocations side by side.                                           *)

\* Two networks that differ in the demand only.
Alike(n, m) == n.component_status = m.component_status /\ n.connection_closed = m.connection_closed

\* They have the same parts.
LEMMA AlikeMeans ==
  ASSUME NEW n, NEW m, Alike(n, m)
  PROVE  /\ \A c : IsAvailable(n, c) <=> IsAvailable(m, c)
         /\ LiveConnections(n) = LiveConnections(m) /\ Available(n) = Available(m)
BY DEF Alike, IsAvailable, LiveConnections, Available

\* Whatever sources are offered to a load behind whose exhausted cut two usages differ, what it
\* gets from them is the same.
LEMMA SameOffer ==
  ASSUME NEW n, n.demand_w \in [Loads -> Nat], NEW m, m.demand_w \in [Loads -> Nat], Alike(n, m),
         NEW usage, Sound(n, usage), NEW other, Sound(m, other), NEW live, NEW load \in Loads,
         NEW R, NEW P, Exhausted(n, usage, live, load, R, P), Exhausted(m, other, live, load, R, P),
         SameBeyond(R, P, usage, other), NEW sources, NeedsPower(n, usage, load),
         Unmet(n, usage, load) = Unmet(m, other, load)
  PROVE  \E flow \in [Edges -> Nat] :
           /\ Offer(n, sources, usage, load) = Committed(usage, load, flow)
           /\ Offer(m, sources, other, load) = Committed(other, load, flow)
<1> DEFINE demand == Unmet(n, usage, load)
           N == NodesBehind(R, P)
<1>1. NeedsPower(m, other, load) /\ load \notin P
  <2>1. demand > 0 /\ IsAvailable(n, load)
    BY DEF NeedsPower
  <2>2. demand # 0
    BY <2>1
  <2> HIDE DEF demand
  <2> QED
    BY <2>1, <2>2, AlikeMeans DEF NeedsPower, Exhausted, demand
<1>2. PICK full \in [Arcs -> Nat] :
        /\ IsNetwork(n, sources, load, demand, usage, full)
        /\ \A e \in Edges : full[Backward(e)] = 0
        /\ Offer(n, sources, usage, load) = Committed(usage, load, edmonds_karp(full))
  BY OfferAdds
<1>3. PICK rest \in [Arcs -> Nat] :
        /\ IsNetwork(m, sources, load, demand, other, rest)
        /\ Offer(m, sources, other, load) = Committed(other, load, edmonds_karp(rest))
  BY <1>1, OfferAdds
<1> HIDE DEF demand
<1>4. OneWay(full, load, R, P) /\ OneWay(rest, load, R, P)
  BY <1>2, <1>3, NoWayAcross
<1>5. R \in SUBSET Components /\ P \in SUBSET R
  BY <1>4 DEF OneWay
<1>6. /\ \A x \in Components : (In(x) \in N <=> x \in R) /\ (Out(x) \in N <=> x \in P)
      /\ \A k \in Connections : ConnectionNode(k) \in N <=> connection[k].from_component \in P
      /\ Source \notin N /\ Sink \notin N
  BY <1>5, BehindFacts
<1>7. NoWayOut(Usable(full), N) /\ NoWayOut(Usable(rest), N)
  BY <1>1, <1>4, <1>6 DEF OneWay, NoWayOut
<1> HIDE DEF N
<1> DEFINE Agree(a) == ~ Meets(a, N) => full[a] = rest[a]
<1>8. \A a \in Arcs : a \notin Edges => Agree(a)
  BY <1>2, <1>3 DEF IsNetwork
<1>9. ASSUME NEW x \in Components PROVE Agree(ComponentEdge(x)) /\ Agree(SourceEdge(x))
  <2> SUFFICES ASSUME x \notin R
               PROVE  full[ComponentEdge(x)] = rest[ComponentEdge(x)] /\ full[SourceEdge(x)] = rest[SourceEdge(x)]
    BY <1>6 DEF Meets, ComponentEdge, SourceEdge
  <2>1. usage.component[x] = other.component[x] /\ usage.source[x] = other.source[x]
    BY DEF SameBeyond
  <2>2. IsAvailable(n, x) <=> IsAvailable(m, x)
    BY AlikeMeans
  <2>3. /\ full[ComponentEdge(x)] = IF IsAvailable(n, x)
                                    THEN component[x].capacity_w - usage.component[x] ELSE 0
        /\ full[SourceEdge(x)] = IF x \in sources /\ IsAvailable(n, x)
                                 THEN component[x].capacity_w - usage.source[x] ELSE 0
    BY <1>2 DEF IsNetwork
  <2>4. /\ rest[ComponentEdge(x)] = IF IsAvailable(m, x)
                                    THEN component[x].capacity_w - other.component[x] ELSE 0
        /\ rest[SourceEdge(x)] = IF x \in sources /\ IsAvailable(m, x)
                                 THEN component[x].capacity_w - other.source[x] ELSE 0
    BY <1>3 DEF IsNetwork
  <2> QED
    BY <2>1, <2>2, <2>3, <2>4
<1>10. ASSUME NEW k \in Connections PROVE Agree(FirstEdge(k)) /\ Agree(SecondEdge(k))
  <2> SUFFICES ASSUME connection[k].from_component \notin P
               PROVE  full[FirstEdge(k)] = rest[FirstEdge(k)] /\ full[SecondEdge(k)] = rest[SecondEdge(k)]
    BY <1>6 DEF Meets, FirstEdge, SecondEdge
  <2>1. usage.connection[k] = other.connection[k]
    BY DEF SameBeyond
  <2>2. k \in LiveConnections(n) <=> k \in LiveConnections(m)
    BY AlikeMeans
  <2>3. /\ full[FirstEdge(k)] = IF k \in LiveConnections(n)
                                THEN connection[k].capacity_w - usage.connection[k] ELSE 0
        /\ full[SecondEdge(k)] = full[FirstEdge(k)]
    BY <1>2 DEF IsNetwork
  <2>4. /\ rest[FirstEdge(k)] = IF k \in LiveConnections(m)
                                THEN connection[k].capacity_w - other.connection[k] ELSE 0
        /\ rest[SecondEdge(k)] = rest[FirstEdge(k)]
    BY <1>3 DEF IsNetwork
  <2> QED
    BY <2>1, <2>2, <2>3, <2>4
<1>11. \A x \in Loads : Agree(SinkEdge(x))
  BY <1>2, <1>3 DEF IsNetwork
<1> HIDE DEF Agree
<1>12. \A e \in Edges : Agree(e)
  BY <1>9, <1>10, <1>11 DEF Edges, ComponentEdges, FirstEdges, SecondEdges, SourceEdges, SinkEdges
<1>13. AgreeElsewhere(N, full, rest)
  BY <1>8, <1>12 DEF AgreeElsewhere, Agree
<1>14. edmonds_karp(full) = edmonds_karp(rest)
  <2>1. full \in [Arcs -> Int] /\ rest \in [Arcs -> Int]
    OBVIOUS
  <2> QED
    BY <1>7, <1>13, <2>1, SameFlow
<1>15. edmonds_karp(full) \in [Edges -> Nat]
  BY <1>2, FlowWithinCapacity
<1> QED
  BY <1>2, <1>3, <1>14, <1>15

\* What two allocations have in common that differ in what they gave the later loads: the
\* earlier ones get the same, and each is cut off, by the same cut, from what differs.
Together(n, m, live, earlier, usage, other) ==
  /\ Sound(n, usage) /\ Sound(m, other)
  /\ \A c \in earlier : usage.load[c] = other.load[c]
  /\ \A c \in earlier : \E R, P : /\ Exhausted(n, usage, live, c, R, P)
                                  /\ Exhausted(m, other, live, c, R, P)
                                  /\ SameBeyond(R, P, usage, other)

\* An offer takes nothing back, and leaves the other loads what they have.
LEMMA OfferGrows ==
  ASSUME NEW n, n.demand_w \in [Loads -> Nat], NEW usage, Sound(n, usage), NEW sources, NEW load \in Loads
  PROVE  /\ Grows(usage, Offer(n, sources, usage, load))
         /\ \A c \in Loads \ {load} : Offer(n, sources, usage, load).load[c] = usage.load[c]
<1>1. CASE ~ NeedsPower(n, usage, load)
  <2>1. \A x \in Nat : x <= x
    OBVIOUS
  <2>2. Grows(usage, usage)
    BY <2>1 DEF Grows, Sound
  <2> QED
    BY <1>1, <2>2 DEF Offer
<1>2. CASE NeedsPower(n, usage, load)
  <2>1. PICK through, over, from, value, R, P :
          /\ IsFlow(load, through, over, from, value)
          /\ Adds(load, usage, Offer(n, sources, usage, load), through, over, from, value)
    BY <1>2, OfferIsFlow
  <2>2. Grows(usage, Offer(n, sources, usage, load))
    BY <2>1, FlowGrows
  <2>3. ASSUME NEW c \in Loads \ {load} PROVE Offer(n, sources, usage, load).load[c] = usage.load[c]
    <3>1. Offer(n, sources, usage, load).load[c] = usage.load[c] + 0 /\ usage.load[c] \in Nat
      BY <2>1 DEF Adds, Sound
    <3> QED
      BY <3>1
  <2> QED
    BY <2>2, <2>3
<1> QED
  BY <1>1, <1>2

\* The live sources offered to later loads, whichever they are offered to.
LEMMA LaterOfferTogether ==
  ASSUME NEW n, n.demand_w \in [Loads -> Nat], NEW m, m.demand_w \in [Loads -> Nat],
         NEW live, NEW earlier \in SUBSET Loads, NEW usage, NEW other,
         Together(n, m, live, earlier, usage, other), NEW load \in Loads, load \notin earlier
  PROVE  Together(n, m, live, earlier, Offer(n, live, usage, load), Offer(m, live, other, load))
<1> DEFINE after == Offer(n, live, usage, load)
           beside == Offer(m, live, other, load)
<1>1. Sound(n, usage) /\ Sound(m, other)
  BY DEF Together
<1>2. /\ Sound(n, after) /\ Grows(usage, after) /\ \A c \in Loads \ {load} : after.load[c] = usage.load[c]
      /\ Sound(m, beside) /\ Grows(other, beside) /\ \A c \in Loads \ {load} : beside.load[c] = other.load[c]
  BY <1>1, OfferIsSound, OfferGrows
<1>3. \A c \in earlier : after.load[c] = beside.load[c]
  BY <1>2 DEF Together
<1>4. ASSUME NEW c \in earlier
      PROVE  \E R, P : Exhausted(n, after, live, c, R, P) /\ Exhausted(m, beside, live, c, R, P)
                       /\ SameBeyond(R, P, after, beside)
  <2>1. PICK R, P : Exhausted(n, usage, live, c, R, P) /\ Exhausted(m, other, live, c, R, P)
                    /\ SameBeyond(R, P, usage, other)
    BY DEF Together
  <2>2. SameBeyond(R, P, usage, after) /\ SameBeyond(R, P, other, beside)
    BY <1>1, <2>1, LiveOfferStays
  <2> HIDE DEF after, beside
  <2>3. Exhausted(n, after, live, c, R, P) /\ Exhausted(m, beside, live, c, R, P)
    BY <1>1, <1>2, <2>1, ExhaustedStays
  <2>4. SameBeyond(R, P, after, beside)
    BY <2>1, <2>2 DEF SameBeyond
  <2> QED
    BY <2>3, <2>4
<1> HIDE DEF after, beside
<1> QED
  BY <1>2, <1>3, <1>4 DEF Together, after, beside

\* Any sources offered to an earlier load.
LEMMA EarlierOfferTogether ==
  ASSUME NEW n, n.demand_w \in [Loads -> Nat], NEW m, m.demand_w \in [Loads -> Nat], Alike(n, m),
         NEW live, NEW earlier \in SUBSET Loads, NEW usage, NEW other,
         Together(n, m, live, earlier, usage, other), NEW load \in earlier,
         n.demand_w[load] = m.demand_w[load], NEW sources
  PROVE  Together(n, m, live, earlier, Offer(n, sources, usage, load), Offer(m, sources, other, load))
<1>1. Sound(n, usage) /\ Sound(m, other) /\ usage.load[load] = other.load[load]
  BY DEF Together
<1>2. Unmet(n, usage, load) = Unmet(m, other, load)
  BY <1>1 DEF Unmet
<1>3. CASE ~ NeedsPower(n, usage, load)
  <2>1. ~ NeedsPower(m, other, load)
    BY <1>2, <1>3, AlikeMeans DEF NeedsPower
  <2> QED
    BY <1>3, <2>1 DEF Offer
<1>4. CASE NeedsPower(n, usage, load)
  <2> DEFINE after == Offer(n, sources, usage, load)
             beside == Offer(m, sources, other, load)
  <2>1. PICK R, P : Exhausted(n, usage, live, load, R, P) /\ Exhausted(m, other, live, load, R, P)
                    /\ SameBeyond(R, P, usage, other)
    BY DEF Together
  <2>2. PICK flow \in [Edges -> Nat] : after = Committed(usage, load, flow) /\ beside = Committed(other, load, flow)
    BY <1>1, <1>2, <1>4, <2>1, SameOffer
  <2>3. Sound(n, after) /\ Grows(usage, after) /\ Sound(m, beside) /\ Grows(other, beside)
    BY <1>1, OfferIsSound, OfferGrows
  <2> HIDE DEF after, beside
  <2>4. /\ usage.load \in [Loads -> Nat] /\ other.load \in [Loads -> Nat]
    BY <1>1 DEF Sound
  <2>5. ASSUME NEW c \in earlier PROVE after.load[c] = beside.load[c]
    <3>1. usage.load[c] = other.load[c]
      BY DEF Together
    <3>2. after.load = [usage.load EXCEPT ![load] = @ + flow[SinkEdge(load)]]
      BY <2>2 DEF Committed
    <3>3. beside.load = [other.load EXCEPT ![load] = @ + flow[SinkEdge(load)]]
      BY <2>2 DEF Committed
    <3> QED
      BY <1>1, <2>4, <3>1, <3>2, <3>3
  <2>6. ASSUME NEW c \in earlier
        PROVE  \E r, p : Exhausted(n, after, live, c, r, p) /\ Exhausted(m, beside, live, c, r, p)
                         /\ SameBeyond(r, p, after, beside)
    <3>1. PICK r, p : Exhausted(n, usage, live, c, r, p) /\ Exhausted(m, other, live, c, r, p)
                      /\ SameBeyond(r, p, usage, other)
      BY DEF Together
    <3>2. Exhausted(n, after, live, c, r, p) /\ Exhausted(m, beside, live, c, r, p)
      BY <1>1, <2>3, <3>1, ExhaustedStays
    <3>3. SameBeyond(r, p, after, beside)
      BY <2>2, <3>1 DEF SameBeyond, Committed
    <3> QED
      BY <3>2, <3>3
  <2> QED
    BY <2>3, <2>5, <2>6 DEF Together, after, beside
<1> QED
  BY <1>3, <1>4

\* The live sources offered to the next load, while nothing differs yet.
LEMMA NextOfferTogether ==
  ASSUME NEW n, n.demand_w \in [Loads -> Nat], NEW m, m.demand_w \in [Loads -> Nat], Alike(n, m),
         NEW live, NEW earlier \in SUBSET Loads, NEW usage,
         Together(n, m, live, earlier, usage, usage), NEW load \in Loads,
         n.demand_w[load] = m.demand_w[load]
  PROVE  /\ Offer(n, live, usage, load) = Offer(m, live, usage, load)
         /\ Together(n, m, live, earlier \cup {load}, Offer(n, live, usage, load), Offer(n, live, usage, load))
<1> DEFINE after == Offer(n, live, usage, load)
<1>1. Sound(n, usage) /\ Sound(m, usage)
  BY DEF Together
<1>2. Unmet(n, usage, load) = Unmet(m, usage, load)
  BY DEF Unmet
<1>3. NeedsPower(n, usage, load) <=> NeedsPower(m, usage, load)
  BY <1>2, AlikeMeans DEF NeedsPower
<1>4. after = Offer(m, live, usage, load)
  <2> DEFINE flow == edmonds_karp(build_network(n, live, load, Unmet(n, usage, load), usage))
             other == edmonds_karp(build_network(m, live, load, Unmet(m, usage, load), usage))
  <2>1. build_network(n, live, load, Unmet(n, usage, load), usage)
          = build_network(m, live, load, Unmet(m, usage, load), usage)
    <3> DEFINE demand == Unmet(n, usage, load)
    <3>1. \A c : IsAvailable(n, c) <=> IsAvailable(m, c)
      BY AlikeMeans
    <3>2. LiveConnections(n) = LiveConnections(m)
      BY AlikeMeans
    <3>3. {c \in Components : IsAvailable(n, c)} = {c \in Components : IsAvailable(m, c)}
      BY <3>1
    <3> HIDE DEF demand
    <3>4. build_network(n, live, load, demand, usage) = build_network(m, live, load, demand, usage)
      BY <3>2, <3>3 DEF build_network
    <3> QED
      BY <1>2, <3>4 DEF demand
  <2>2. flow = other
    BY <2>1
  <2> HIDE DEF flow, other
  <2> QED
    BY <1>3, <2>2 DEF Offer, flow, other
<1>5. Sound(n, after) /\ Sound(m, after) /\ Grows(usage, after)
  BY <1>1, <1>4, OfferIsSound, OfferGrows
<1>6. \A R, P : SameBeyond(R, P, after, after)
  BY DEF SameBeyond
<1>7. \E R, P : Exhausted(n, after, live, load, R, P)
  <2>1. CASE ~ NeedsPower(n, usage, load)
    <3>1. after = usage
      BY <2>1 DEF Offer
    <3> QED
      BY <1>1, <2>1, <3>1, NothingNeeded
  <2>2. CASE NeedsPower(n, usage, load)
    <3>1. PICK through, over, from, value, R, P :
            /\ IsFlow(load, through, over, from, value)
            /\ Fills(n, live, load, usage, through, over, from, value, R, P)
            /\ Adds(load, usage, after, through, over, from, value)
      BY <1>1, <2>2, OfferIsFlow
    <3> QED
      BY <1>1, <3>1, FilledIsExhausted
  <2> QED
    BY <2>1, <2>2
<1> HIDE DEF after
<1>8. PICK R, P : Exhausted(n, after, live, load, R, P)
  BY <1>7
<1>9. Exhausted(m, after, live, load, R, P)
  BY <1>8, AlikeMeans DEF Exhausted, IsCut, Unmet
<1>10. ASSUME NEW c \in earlier
       PROVE  \E r, p : Exhausted(n, after, live, c, r, p) /\ Exhausted(m, after, live, c, r, p)
  <2>1. PICK r, p : Exhausted(n, usage, live, c, r, p) /\ Exhausted(m, usage, live, c, r, p)
    BY DEF Together
  <2>2. Exhausted(n, after, live, c, r, p) /\ Exhausted(m, after, live, c, r, p)
    BY <1>1, <1>5, <2>1, ExhaustedStays
  <2> QED
    BY <2>2
<1>11. Together(n, m, live, earlier \cup {load}, after, after)
  BY <1>5, <1>6, <1>8, <1>9, <1>10 DEF Together
<1> QED
  BY <1>4, <1>11 DEF after

-----------------------------------------------------------------------------
(* Two stages side by side, turn by turn.                                  *)

\* The loads that a stage has yet to serve after i turns, and those that it has served.
Left(i) == SubSeq(ServiceOrder, i + 1, Len(ServiceOrder))

Earlier(i) == {ServiceOrder[j] : j \in 1 .. i}

\* One turn takes the next load.
LEMMA LeftFacts ==
  /\ Len(ServiceOrder) \in Nat
  /\ Left(0) = ServiceOrder /\ Left(Len(ServiceOrder)) = << >>
  /\ \A i \in 0 .. Len(ServiceOrder) : Left(i) \in Seq(Loads)
  /\ \A i \in 0 .. Len(ServiceOrder) - 1 :
       /\ Left(i) # << >> /\ Head(Left(i)) = ServiceOrder[i + 1] /\ Tail(Left(i)) = Left(i + 1)
       /\ ServiceOrder[i + 1] \in Loads
  /\ Earlier(0) = {}
  /\ \A i \in Nat : Earlier(i + 1) = Earlier(i) \cup {ServiceOrder[i + 1]}
  /\ \A i \in 0 .. Len(ServiceOrder) : Earlier(i) \in SUBSET Loads
<1> DEFINE q == ServiceOrder
           n == Len(q)
<1>1. q \in Seq(Loads) /\ n \in Nat
  BY ServiceOrderType, LenProperties
<1> HIDE DEF q, n
<1>2. SubSeq(q, 0 + 1, n) = q
  BY <1>1, SubSeqFull DEF n
<1>3. SubSeq(q, n + 1, n) = << >>
  BY <1>1, SubSeqEmpty
<1>4. \A i \in 1 .. n : q[i] \in Loads
  BY <1>1 DEF n
<1>5. ASSUME NEW i \in 0 .. n PROVE SubSeq(q, i + 1, n) \in Seq(Loads)
  <2>1. i + 1 \in Int /\ n \in Int /\ \A j \in i + 1 .. n : j \in 1 .. n
    BY <1>1
  <2>2. \A j \in i + 1 .. n : q[j] \in Loads
    BY <1>4, <2>1
  <2> QED
    BY <2>1, <2>2, SubSeqProperties
<1>6. ASSUME NEW i \in 0 .. n - 1
      PROVE  /\ SubSeq(q, i + 1, n) # << >> /\ Head(SubSeq(q, i + 1, n)) = q[i + 1]
             /\ Tail(SubSeq(q, i + 1, n)) = SubSeq(q, (i + 1) + 1, n) /\ q[i + 1] \in Loads
  <2> DEFINE k == i + 1
  <2>1. k \in 1 .. n /\ n \in k .. n
    BY <1>1
  <2> HIDE DEF k
  <2>2. Head(SubSeq(q, k, n)) = q[k] /\ Tail(SubSeq(q, k, n)) = SubSeq(q, k + 1, n)
    BY <1>1, <2>1, HeadTailOfSubSeq DEF n
  <2>3. SubSeq(q, k, n) # << >>
    <3>1. k \in Int /\ n \in Int /\ k <= n /\ n - k + 1 > 0 /\ \A j \in k .. n : j \in 1 .. n
      BY <1>1, <2>1
    <3>2. \A j \in k .. n : q[j] \in Loads
      BY <1>4, <3>1
    <3> DEFINE t == SubSeq(q, k, n)
    <3>3. Len(t) = n - k + 1
      BY <3>1, <3>2, SubSeqProperties
    <3>4. Len(<< >>) = 0
      BY EmptySeq
    <3>5. t = << >> => Len(t) = Len(<< >>)
      OBVIOUS
    <3> HIDE DEF t
    <3>6. Len(t) # 0
      BY <3>1, <3>3
    <3>7. t # << >>
      BY <3>4, <3>5, <3>6
    <3> QED
      BY <3>7 DEF t
  <2> QED
    BY <1>4, <2>1, <2>2, <2>3 DEF k
<1>7. Earlier(0) = {}
  BY DEF Earlier
<1>8. ASSUME NEW i \in Nat PROVE Earlier(i + 1) = Earlier(i) \cup {q[i + 1]}
  <2>1. \A j : j \in 1 .. i + 1 <=> j \in 1 .. i \/ j = i + 1
    OBVIOUS
  <2> QED
    BY <2>1 DEF Earlier, q
<1>9. ASSUME NEW i \in 0 .. n PROVE Earlier(i) \in SUBSET Loads
  <2>1. \A j \in 1 .. i : j \in 1 .. n
    BY <1>1
  <2> QED
    BY <1>4, <2>1 DEF Earlier, q
<1> QED
  BY <1>1, <1>2, <1>3, <1>5, <1>6, <1>7, <1>8, <1>9 DEF Left, q, n

\* One turn of a stage.
LEMMA OneTurn ==
  ASSUME NEW n, n.demand_w \in [Loads -> Nat], NEW sources, NEW usage \in Usage,
         NEW i \in 0 .. Len(ServiceOrder) - 1
  PROVE  Serve(n, sources)[<<usage, Left(i)>>]
           = Serve(n, sources)[<<Offer(n, sources, usage, ServiceOrder[i + 1]), Left(i + 1)>>]
<1> DEFINE queue == Left(i)
<1>1. i \in 0 .. Len(ServiceOrder)
  BY LeftFacts
<1>2. queue \in Seq(Loads) /\ queue # << >> /\ Head(queue) = ServiceOrder[i + 1] /\ Tail(queue) = Left(i + 1)
  BY <1>1, LeftFacts
<1> HIDE DEF queue
<1>3. Serve(n, sources)[<<usage, queue>>] = Serve(n, sources)[<<Offer(n, sources, usage, Head(queue)), Tail(queue)>>]
  BY <1>2, ServeStep
<1> QED
  BY <1>2, <1>3 DEF queue

\* The end of a stage.
LEMMA NoTurn ==
  ASSUME NEW n, n.demand_w \in [Loads -> Nat], NEW sources, NEW usage \in Usage
  PROVE  Serve(n, sources)[<<usage, << >>>>] = usage
<1> DEFINE none == << >>
<1>1. none \in Seq(Loads)
  BY EmptySeq
<1>2. none = << >>
  OBVIOUS
<1> HIDE DEF none
<1>3. Serve(n, sources)[<<usage, none>>]
        = IF none = << >> THEN usage
          ELSE Serve(n, sources)[<<Offer(n, sources, usage, Head(none)), Tail(none)>>]
  BY <1>1, ServeStep
<1>4. Serve(n, sources)[<<usage, none>>] = usage
  BY <1>2, <1>3
<1> QED
  BY <1>2, <1>4

\* No load is served twice, or after one that it outranks.
LEMMA ServedInRank ==
  /\ \A i, j \in 1 .. Len(ServiceOrder) : ServiceOrder[i] = ServiceOrder[j] => i = j
  /\ \A j \in 1 .. Len(ServiceOrder) : \A i \in 1 .. j : ~ Outranks(ServiceOrder[j], ServiceOrder[i])
<1> DEFINE q == ServiceOrder
           n == Len(q)
<1>1. /\ n \in Nat /\ \A i \in 1 .. n : q[i] \in Loads
      /\ \A i, j \in 1 .. n : i < j => ServedBefore(q[i], q[j])
  <2>1. q \in [1 .. Cardinality(Loads) -> Loads] /\ q \in Seq(Loads) /\ n \in Nat
        /\ \A i, j \in 1 .. Cardinality(Loads) : i < j => ServedBefore(q[i], q[j])
    BY ServiceOrderType, LenProperties DEF InOrder
  <2>2. DOMAIN q = 1 .. n
    BY <2>1
  <2>3. DOMAIN q = 1 .. Cardinality(Loads)
    BY <2>1
  <2> HIDE DEF q, n
  <2> QED
    BY <2>1, <2>2, <2>3
<1> HIDE DEF q, n
<1>2. ASSUME NEW c \in Loads
      PROVE  c \in Nat /\ component[c].priority \in Nat /\ component[c].service_order \in Nat
  <2>1. c \in Components /\ c \in Nat
    BY SiteFacts
  <2>2. component[c] \in Component
    BY <2>1, SnapshotAssumption DEF ParsedComponent
  <2> QED
    BY <2>1, <2>2 DEF Component
<1>3. ASSUME NEW a \in Loads, NEW b \in Loads, ServedBefore(a, b) PROVE a # b /\ ~ Outranks(b, a)
  <2>1. \A x, y \in Nat : x < y => x # y /\ ~ (y < x)
    OBVIOUS
  <2>2. \/ component[a].priority < component[b].priority
        \/ /\ component[a].priority = component[b].priority
           /\ component[a].service_order < component[b].service_order
        \/ /\ component[a].priority = component[b].priority
           /\ component[a].service_order = component[b].service_order
           /\ a < b
    BY <1>3, ServedBeforeMeans
  <2> QED
    BY <1>2, <2>1, <2>2 DEF Outranks
<1>4. ASSUME NEW a \in Loads PROVE ~ Outranks(a, a)
  BY <1>2 DEF Outranks
<1>5. ASSUME NEW i \in 1 .. n, NEW j \in 1 .. n, q[i] = q[j] PROVE i = j
  <2>1. ~ (i < j) /\ ~ (j < i)
    BY <1>1, <1>3, <1>5
  <2> QED
    BY <1>1, <2>1
<1>6. ASSUME NEW j \in 1 .. n, NEW i \in 1 .. j PROVE ~ Outranks(q[j], q[i])
  <2>1. i \in 1 .. n /\ (i = j \/ i < j)
    BY <1>1
  <2> QED
    BY <1>1, <1>3, <1>4, <2>1
<1> QED
  BY <1>5, <1>6 DEF q, n

\* A turn of two allocations keeps K.
TurnKeeps(n, m, sources, K, i) ==
  \A u, v \in Usage :
    <<u, v>> \in K[i]
      => <<Offer(n, sources, u, ServiceOrder[i + 1]), Offer(m, sources, v, ServiceOrder[i + 1])>> \in K[i + 1]

\* What each turn of two allocations keeps, a stage keeps.
LEMMA StagesTogether ==
  ASSUME NEW n, n.demand_w \in [Loads -> Nat], NEW m, m.demand_w \in [Loads -> Nat],
         NEW sources, sources # {}, NEW K, NEW usage \in Usage, NEW other \in Usage, <<usage, other>> \in K[0],
         \A i \in 0 .. Len(ServiceOrder) - 1 : TurnKeeps(n, m, sources, K, i)
  PROVE  <<Stage(n, sources, usage), Stage(m, sources, other)>> \in K[Len(ServiceOrder)]
<1> DEFINE len == Len(ServiceOrder)
           Leads(u, v, i) ==
             /\ u \in Usage /\ v \in Usage /\ <<u, v>> \in K[i]
             /\ Serve(n, sources)[<<usage, Left(0)>>] = Serve(n, sources)[<<u, Left(i)>>]
             /\ Serve(m, sources)[<<other, Left(0)>>] = Serve(m, sources)[<<v, Left(i)>>]
           Bad == {i \in 0 .. len : ~ \E u, v : Leads(u, v, i)}
<1>1. /\ len \in Nat /\ len \in 0 .. len
      /\ \A i \in 0 .. len : i = 0 \/ (i - 1 \in 0 .. len - 1 /\ (i - 1) + 1 = i /\ ~ (i <= i - 1) /\ i - 1 \in 0 .. len)
  BY LeftFacts
<1>2. \A i \in 0 .. len - 1 : ServiceOrder[i + 1] \in Loads
  BY LeftFacts
<1>3. Leads(usage, other, 0)
  OBVIOUS
<1>4. ASSUME NEW i \in 0 .. len - 1, NEW u, NEW v, Leads(u, v, i) PROVE \E x, y : Leads(x, y, i + 1)
  <2> DEFINE load == ServiceOrder[i + 1]
             x == Offer(n, sources, u, load)
             y == Offer(m, sources, v, load)
  <2>1. load \in Loads /\ u \in Usage /\ v \in Usage
    BY <1>2, <1>4
  <2>2. <<x, y>> \in K[i + 1]
    BY <1>4 DEF TurnKeeps
  <2>3. x \in Usage /\ y \in Usage
    <3> HIDE DEF load
    <3> QED
      BY <2>1, OfferType
  <2>4. /\ Serve(n, sources)[<<u, Left(i)>>] = Serve(n, sources)[<<x, Left(i + 1)>>]
        /\ Serve(m, sources)[<<v, Left(i)>>] = Serve(m, sources)[<<y, Left(i + 1)>>]
    BY <2>1, OneTurn
  <2> HIDE DEF load, x, y
  <2>5. Leads(x, y, i + 1)
    BY <1>4, <2>2, <2>3, <2>4
  <2> HIDE DEF Leads
  <2> QED
    BY <2>5
<1> HIDE DEF Leads
<1>5. Bad = {}
  <2> SUFFICES ASSUME Bad # {} PROVE FALSE
    OBVIOUS
  <2>1. PICK i \in Bad : \A j \in Bad : i <= j
    <3>1. Bad \in SUBSET Nat
      BY <1>1
    <3> HIDE DEF Bad
    <3> QED
      BY <3>1, LeastNat
  <2>2. i \in 0 .. len /\ ~ \E u, v : Leads(u, v, i)
    OBVIOUS
  <2>3. i # 0
    BY <1>3, <2>2
  <2> DEFINE j == i - 1
  <2>4. j \in 0 .. len - 1 /\ j + 1 = i /\ ~ (i <= j) /\ j \in 0 .. len
    BY <1>1, <2>2, <2>3
  <2> HIDE DEF j
  <2>5. ~ \E u, v : Leads(u, v, j)
    BY <1>4, <2>2, <2>4
  <2>6. j \in Bad
    BY <2>4, <2>5
  <2> HIDE DEF Bad
  <2> QED
    BY <2>1, <2>4, <2>6
<1>6. PICK u, v : Leads(u, v, len)
  BY <1>1, <1>5
<1>7. u \in Usage /\ v \in Usage /\ <<u, v>> \in K[len]
      /\ Serve(n, sources)[<<usage, ServiceOrder>>] = Serve(n, sources)[<<u, << >>>>]
      /\ Serve(m, sources)[<<other, ServiceOrder>>] = Serve(m, sources)[<<v, << >>>>]
  <2>1. Left(0) = ServiceOrder /\ Left(len) = << >>
    BY LeftFacts
  <2> HIDE DEF len
  <2> QED
    BY <1>6, <2>1 DEF Leads
<1>8. Serve(n, sources)[<<u, << >>>>] = u /\ Serve(m, sources)[<<v, << >>>>] = v
  <2>1. u \in Usage /\ v \in Usage
    BY <1>7
  <2>2. Serve(n, sources)[<<u, << >>>>] = u
    BY <2>1, NoTurn
  <2>3. Serve(m, sources)[<<v, << >>>>] = v
    BY <2>1, NoTurn
  <2> QED
    BY <2>2, <2>3
<1>9. Stage(n, sources, usage) = u /\ Stage(m, sources, other) = v
  BY <1>7, <1>8, StageServes
<1> QED
  BY <1>7, <1>9

\* Two networks in which the first p loads want the same.
SameDemands(n, m, p) == \A j \in 1 .. p : n.demand_w[ServiceOrder[j]] = m.demand_w[ServiceOrder[j]]

\* The live stage after i turns: nothing differs until these loads have had theirs.
LivePair(n, m, live, p, i, u, v) ==
  /\ i <= p => u = v /\ Together(n, m, live, Earlier(i), u, v)
  /\ i > p => Together(n, m, live, Earlier(p), u, v)

\* A turn of the live stage.
LEMMA LiveTurn ==
  ASSUME NEW n, n.demand_w \in [Loads -> Nat], NEW m, m.demand_w \in [Loads -> Nat], Alike(n, m),
         NEW p \in 1 .. Len(ServiceOrder), SameDemands(n, m, p), NEW live,
         NEW i \in 0 .. Len(ServiceOrder) - 1, NEW u, NEW v, LivePair(n, m, live, p, i, u, v)
  PROVE  LivePair(n, m, live, p, i + 1, Offer(n, live, u, ServiceOrder[i + 1]), Offer(m, live, v, ServiceOrder[i + 1]))
<1> DEFINE len == Len(ServiceOrder)
           k == i + 1
           load == ServiceOrder[k]
           after == Offer(n, live, u, load)
           beside == Offer(m, live, v, load)
<1>1. len \in Nat
  BY LeftFacts
<1>2. /\ p \in 0 .. len /\ i \in 0 .. len /\ i \in Nat /\ k \in 1 .. len
      /\ k <= p => i <= p /\ k \in 1 .. p /\ ~ (k > p)
      /\ k > p => i = p \/ i > p
      /\ k > p => ~ (k <= p) /\ \A j \in 1 .. p : j \in 1 .. len /\ j # k
      /\ p <= p /\ (k <= p \/ k > p)
  BY <1>1
<1>3. load \in Loads
  BY LeftFacts
<1>4. Earlier(k) = Earlier(i) \cup {load}
  BY <1>2, LeftFacts
<1>5. Earlier(i) \in SUBSET Loads /\ Earlier(p) \in SUBSET Loads
  BY <1>2, LeftFacts
<1> HIDE DEF k, load
<1>6. ASSUME k <= p PROVE after = beside /\ Together(n, m, live, Earlier(k), after, beside)
  <2> DEFINE earlier == Earlier(i)
  <2>1. Together(n, m, live, earlier, u, u)
    BY <1>2, <1>6 DEF LivePair
  <2>2. u = v
    BY <1>2, <1>6 DEF LivePair
  <2>3. earlier \in SUBSET Loads
    BY <1>5
  <2>4. n.demand_w[load] = m.demand_w[load]
    BY <1>2, <1>6 DEF SameDemands, load
  <2> HIDE DEF earlier
  <2>5. /\ Offer(n, live, u, load) = Offer(m, live, u, load)
        /\ Together(n, m, live, earlier \cup {load}, Offer(n, live, u, load), Offer(n, live, u, load))
    BY <1>3, <2>1, <2>3, <2>4, NextOfferTogether
  <2> QED
    BY <1>4, <2>2, <2>5 DEF earlier
<1>7. ASSUME k > p PROVE Together(n, m, live, Earlier(p), after, beside)
  <2>1. Together(n, m, live, Earlier(p), u, v)
    BY <1>2, <1>7 DEF LivePair
  <2>2. load \notin Earlier(p)
    <3>1. \A j \in 1 .. p : ServiceOrder[j] # load
      BY <1>2, <1>7, ServedInRank DEF load
    <3> QED
      BY <3>1 DEF Earlier
  <2> QED
    BY <1>3, <1>5, <2>1, <2>2, LaterOfferTogether
<1> HIDE DEF after, beside
<1>8. LivePair(n, m, live, p, k, after, beside)
  BY <1>6, <1>7 DEF LivePair
<1> QED
  BY <1>8 DEF k, load, after, beside

\* After the live stage, whatever the loads behind the first ones ask for.
LEMMA LiveTogether ==
  ASSUME NEW n, n.demand_w \in [Loads -> Nat], NEW m, m.demand_w \in [Loads -> Nat], Alike(n, m),
         NEW p \in 1 .. Len(ServiceOrder), SameDemands(n, m, p), NEW live
  PROVE  Together(n, m, live, Earlier(p), Stage(n, live, NothingUsed), Stage(m, live, NothingUsed))
<1> DEFINE len == Len(ServiceOrder)
           K == [i \in 0 .. len |-> {x \in Usage \X Usage : LivePair(n, m, live, p, i, x[1], x[2])}]
<1>1. len \in Nat /\ 0 \in 0 .. len /\ len \in 0 .. len
  BY LeftFacts
<1>2. /\ p \in 0 .. len /\ ~ (0 > p)
      /\ \A i \in 0 .. len - 1 : i \in 0 .. len /\ i + 1 \in 0 .. len
      /\ len <= p => len = p
      /\ len <= p \/ len > p
  BY <1>1
<1>3. Sound(n, NothingUsed) /\ Sound(m, NothingUsed) /\ NothingUsed \in Usage
  BY NothingUsedIsSound
<1>4. CASE live = {}
  <2>1. Stage(n, live, NothingUsed) = NothingUsed /\ Stage(m, live, NothingUsed) = NothingUsed
    BY <1>4, StageServes
  <2>2. Earlier(p) \in SUBSET Loads
    BY <1>2, LeftFacts
  <2>3. ASSUME NEW c \in Earlier(p)
        PROVE  Exhausted(n, NothingUsed, live, c, {}, {}) /\ Exhausted(m, NothingUsed, live, c, {}, {})
    BY <1>3, <1>4, <2>2, NothingNeeded
  <2>4. SameBeyond({}, {}, NothingUsed, NothingUsed)
    BY DEF SameBeyond
  <2> QED
    BY <1>3, <2>1, <2>3, <2>4 DEF Together
<1>5. CASE live # {}
  <2>1. \A i \in 0 .. len : \A u, v \in Usage : <<u, v>> \in K[i] <=> LivePair(n, m, live, p, i, u, v)
    OBVIOUS
  <2>2. \A i \in 0 .. len : \A y \in K[i] : LivePair(n, m, live, p, i, y[1], y[2])
    OBVIOUS
  <2> HIDE DEF K
  <2>3. ASSUME NEW i \in 0 .. len - 1 PROVE TurnKeeps(n, m, live, K, i)
    <3> SUFFICES ASSUME NEW u \in Usage, NEW v \in Usage, <<u, v>> \in K[i]
                 PROVE  <<Offer(n, live, u, ServiceOrder[i + 1]), Offer(m, live, v, ServiceOrder[i + 1])>> \in K[i + 1]
      BY DEF TurnKeeps
    <3> DEFINE after == Offer(n, live, u, ServiceOrder[i + 1])
               beside == Offer(m, live, v, ServiceOrder[i + 1])
    <3>1. LivePair(n, m, live, p, i, u, v)
      BY <1>2, <2>1
    <3>2. LivePair(n, m, live, p, i + 1, after, beside)
      BY <3>1, LiveTurn
    <3>3. ServiceOrder[i + 1] \in Loads
      BY LeftFacts
    <3>4. after \in Usage /\ beside \in Usage
      BY <3>3, OfferType
    <3>5. i + 1 \in 0 .. len
      BY <1>2
    <3> HIDE DEF after, beside
    <3>6. <<after, beside>> \in K[i + 1]
      BY <2>1, <3>2, <3>4, <3>5
    <3> QED
      BY <3>6 DEF after, beside
  <2>4. <<NothingUsed, NothingUsed>> \in K[0]
    <3>1. Earlier(0) = {}
      BY LeftFacts
    <3>2. Together(n, m, live, {}, NothingUsed, NothingUsed)
      BY <1>3 DEF Together
    <3>3. LivePair(n, m, live, p, 0, NothingUsed, NothingUsed)
      BY <1>2, <3>1, <3>2 DEF LivePair
    <3> QED
      BY <1>1, <1>3, <2>1, <3>3
  <2> DEFINE y == <<Stage(n, live, NothingUsed), Stage(m, live, NothingUsed)>>
  <2>5. y \in K[len] /\ y[1] = Stage(n, live, NothingUsed) /\ y[2] = Stage(m, live, NothingUsed)
    BY <1>3, <1>5, <2>3, <2>4, StagesTogether
  <2> HIDE DEF y, len
  <2>6. LivePair(n, m, live, p, len, y[1], y[2])
    BY <1>1, <2>2, <2>5
  <2>7. Together(n, m, live, Earlier(p), y[1], y[2])
    BY <1>2, <2>6 DEF LivePair
  <2> QED
    BY <2>5, <2>7
<1> QED
  BY <1>4, <1>5

\* A later stage after i turns: the first loads are cut off from what differs, and once they have
\* had their turns the last of them keeps what it has.
StoredPair(n, m, live, p, i, u, v) ==
  /\ Sound(n, u) /\ Sound(m, v) /\ u.load[ServiceOrder[p]] = v.load[ServiceOrder[p]]
  /\ i < p => Together(n, m, live, Earlier(p), u, v)

\* A turn of a later stage.
LEMMA StoredTurn ==
  ASSUME NEW n, n.demand_w \in [Loads -> Nat], NEW m, m.demand_w \in [Loads -> Nat], Alike(n, m),
         NEW p \in 1 .. Len(ServiceOrder), SameDemands(n, m, p), NEW live, NEW sources,
         NEW i \in 0 .. Len(ServiceOrder) - 1, NEW u, NEW v, StoredPair(n, m, live, p, i, u, v)
  PROVE  StoredPair(n, m, live, p, i + 1,
                    Offer(n, sources, u, ServiceOrder[i + 1]), Offer(m, sources, v, ServiceOrder[i + 1]))
<1> DEFINE len == Len(ServiceOrder)
           k == i + 1
           a == ServiceOrder[p]
           load == ServiceOrder[k]
           after == Offer(n, sources, u, load)
           beside == Offer(m, sources, v, load)
<1>1. len \in Nat
  BY LeftFacts
<1>2. /\ p \in 0 .. len /\ p \in 1 .. len /\ p \in 1 .. p /\ k \in 1 .. len
      /\ i < p => k \in 1 .. p
      /\ k < p => i < p
      /\ ~ (i < p) => k # p /\ ~ (k < p)
      /\ p - 1 \in 0 .. len - 1 /\ (p - 1) + 1 = p
  BY <1>1
<1>3. load \in Loads
  BY LeftFacts
<1>4. Earlier(p) \in SUBSET Loads
  BY <1>2, LeftFacts
<1>5. a \in Earlier(p)
  BY <1>2 DEF Earlier
<1>6. Sound(n, u) /\ Sound(m, v) /\ u.load[a] = v.load[a]
  BY DEF StoredPair
<1> HIDE DEF k, load, a
<1>7. Sound(n, after) /\ Sound(m, beside)
  BY <1>3, <1>6, OfferIsSound
<1>8. \A c \in Loads \ {load} : after.load[c] = u.load[c] /\ beside.load[c] = v.load[c]
  BY <1>3, <1>6, OfferGrows
<1>9. ASSUME i < p PROVE Together(n, m, live, Earlier(p), after, beside) /\ after.load[a] = beside.load[a]
  <2>1. Together(n, m, live, Earlier(p), u, v)
    BY <1>9 DEF StoredPair
  <2>2. load \in Earlier(p) /\ n.demand_w[load] = m.demand_w[load]
    BY <1>2, <1>9 DEF Earlier, SameDemands, load
  <2>3. Together(n, m, live, Earlier(p), after, beside)
    BY <1>4, <2>1, <2>2, EarlierOfferTogether
  <2> HIDE DEF after, beside
  <2> QED
    BY <1>5, <2>3 DEF Together
<1>10. ASSUME ~ (i < p) PROVE after.load[a] = beside.load[a]
  <2>1. a # load
    BY <1>2, <1>10, ServedInRank DEF a, load
  <2>2. a \in Loads \ {load}
    BY <1>4, <1>5, <2>1
  <2> HIDE DEF after, beside
  <2> QED
    BY <1>6, <1>8, <2>2
<1> HIDE DEF after, beside
<1>11. StoredPair(n, m, live, p, k, after, beside)
  BY <1>2, <1>7, <1>9, <1>10 DEF StoredPair, a
<1> QED
  BY <1>11 DEF k, load, after, beside

\* After any stage that follows, the last of the first loads has the same.
LEMMA StoredTogether ==
  ASSUME NEW n, n.demand_w \in [Loads -> Nat], NEW m, m.demand_w \in [Loads -> Nat], Alike(n, m),
         NEW p \in 1 .. Len(ServiceOrder), SameDemands(n, m, p), NEW live, NEW usage, NEW other,
         Together(n, m, live, Earlier(p), usage, other), NEW sources
  PROVE  Stage(n, sources, usage).load[ServiceOrder[p]] = Stage(m, sources, other).load[ServiceOrder[p]]
<1> DEFINE len == Len(ServiceOrder)
           K == [i \in 0 .. len |-> {x \in Usage \X Usage : StoredPair(n, m, live, p, i, x[1], x[2])}]
<1>1. len \in Nat /\ 0 \in 0 .. len /\ len \in 0 .. len
  BY LeftFacts
<1>2. /\ p \in 1 .. p
      /\ \A i \in 0 .. len - 1 : i \in 0 .. len /\ i + 1 \in 0 .. len
  BY <1>1
<1>3. usage.load[ServiceOrder[p]] = other.load[ServiceOrder[p]]
  <2>1. ServiceOrder[p] \in Earlier(p)
    BY <1>2 DEF Earlier
  <2> QED
    BY <2>1 DEF Together
<1>4. Sound(n, usage) /\ Sound(m, other) /\ usage \in Usage /\ other \in Usage
  <2>1. Sound(n, usage) /\ Sound(m, other)
    BY DEF Together
  <2> QED
    BY <2>1, SoundType
<1>5. CASE sources = {}
  BY <1>3, <1>5, StageServes
<1>6. CASE sources # {}
  <2>1. \A i \in 0 .. len : \A u, v \in Usage : <<u, v>> \in K[i] <=> StoredPair(n, m, live, p, i, u, v)
    OBVIOUS
  <2>2. \A i \in 0 .. len : \A y \in K[i] : StoredPair(n, m, live, p, i, y[1], y[2])
    OBVIOUS
  <2> HIDE DEF K
  <2>3. ASSUME NEW i \in 0 .. len - 1 PROVE TurnKeeps(n, m, sources, K, i)
    <3> SUFFICES ASSUME NEW u \in Usage, NEW v \in Usage, <<u, v>> \in K[i]
                 PROVE  <<Offer(n, sources, u, ServiceOrder[i + 1]), Offer(m, sources, v, ServiceOrder[i + 1])>>
                          \in K[i + 1]
      BY DEF TurnKeeps
    <3> DEFINE after == Offer(n, sources, u, ServiceOrder[i + 1])
               beside == Offer(m, sources, v, ServiceOrder[i + 1])
    <3>1. StoredPair(n, m, live, p, i, u, v)
      BY <1>2, <2>1
    <3>2. StoredPair(n, m, live, p, i + 1, after, beside)
      BY <3>1, StoredTurn
    <3>3. ServiceOrder[i + 1] \in Loads
      BY LeftFacts
    <3>4. after \in Usage /\ beside \in Usage
      BY <3>3, OfferType
    <3>5. i + 1 \in 0 .. len
      BY <1>2
    <3> HIDE DEF after, beside
    <3>6. <<after, beside>> \in K[i + 1]
      BY <2>1, <3>2, <3>4, <3>5
    <3> QED
      BY <3>6 DEF after, beside
  <2>4. <<usage, other>> \in K[0]
    <3>1. StoredPair(n, m, live, p, 0, usage, other)
      BY <1>3, <1>4 DEF StoredPair
    <3> QED
      BY <1>1, <1>4, <2>1, <3>1
  <2> DEFINE y == <<Stage(n, sources, usage), Stage(m, sources, other)>>
  <2>5. y \in K[len] /\ y[1] = Stage(n, sources, usage) /\ y[2] = Stage(m, sources, other)
    BY <1>4, <1>6, <2>3, <2>4, StagesTogether
  <2> HIDE DEF y, len
  <2>6. StoredPair(n, m, live, p, len, y[1], y[2])
    BY <1>1, <2>2, <2>5
  <2> QED
    BY <2>5, <2>6 DEF StoredPair
<1> QED
  BY <1>5, <1>6

\* Load p of the service order gets the same.
SameShare(n, m, live, batteries, p) ==
  allocate(n, live, batteries).load[ServiceOrder[p]] = allocate(m, live, batteries).load[ServiceOrder[p]]

\* What the first loads get does not depend on what the others ask for.
LEMMA AllocationsTogether ==
  ASSUME NEW n, n.demand_w \in [Loads -> Nat], NEW m, m.demand_w \in [Loads -> Nat], Alike(n, m),
         NEW p \in 1 .. Len(ServiceOrder), SameDemands(n, m, p), NEW live, NEW batteries
  PROVE  SameShare(n, m, live, batteries, p)
<1>1. Together(n, m, live, Earlier(p), Stage(n, live, NothingUsed), Stage(m, live, NothingUsed))
  BY LiveTogether
<1> DEFINE sources == StoredStage(live, batteries)
           usage == Stage(n, live, NothingUsed)
           other == Stage(m, live, NothingUsed)
<1>2. allocate(n, live, batteries) = Stage(n, sources, usage) /\ allocate(m, live, batteries) = Stage(m, sources, other)
  BY DEF allocate
<1> HIDE DEF sources, usage, other
<1>3. Together(n, m, live, Earlier(p), usage, other)
  BY <1>1 DEF usage, other
<1>4. Stage(n, sources, usage).load[ServiceOrder[p]] = Stage(m, sources, other).load[ServiceOrder[p]]
  BY <1>3, StoredTogether
<1> QED
  BY <1>2, <1>4 DEF SameShare

\* The state in which the loads that a outranks ask for nothing.
Alone(state, a) == [state EXCEPT !.demand_w = [c \in Loads |-> IF Outranks(a, c) THEN 0 ELSE @[c]]]

\* A load gets the same in it.
LEMMA AloneGetsTheSame ==
  ASSUME NEW state \in RuntimeState, NEW a \in Loads
  PROVE  solve_capacity(Alone(state, a)).load_service_w[a] = solve_capacity(state).load_service_w[a]
<1> DEFINE alone == Alone(state, a)
           n == Network(state)
           m == Network(alone)
           live == NonBatterySources(state)
           batteries == BatterySources(state)
<1>1. n.demand_w = state.demand_w /\ n.demand_w \in [Loads -> Nat]
  BY DEF Network, RuntimeState
<1>2. /\ alone.component_status = state.component_status /\ alone.connection_closed = state.connection_closed
      /\ alone.generator_running = state.generator_running /\ alone.battery_energy_mj = state.battery_energy_mj
      /\ alone.demand_w = [c \in Loads |-> IF Outranks(a, c) THEN 0 ELSE state.demand_w[c]]
  BY DEF RuntimeState, Alone
<1> HIDE DEF alone
<1>3. m.demand_w \in [Loads -> Nat] /\ m.demand_w = alone.demand_w /\ Alike(n, m)
  BY <1>1, <1>2 DEF Network, Alike
<1>4. NonBatterySources(alone) = live
  BY <1>2 DEF NonBatterySources, IsAvailable
<1>5. BatterySources(alone) = batteries
  <2>1. LiveConnections(m) = LiveConnections(n)
    BY <1>3, AlikeMeans
  <2>2. ReachableComponents(m, live) = ReachableComponents(n, live)
    BY <2>1 DEF ReachableComponents
  <2> HIDE DEF n, m, live
  <2>3. Network(state) = n /\ Network(alone) = m /\ NonBatterySources(state) = live
    BY DEF n, m, live
  <2> QED
    BY <1>2, <1>4, <2>2, <2>3 DEF BatterySources, IsAvailable
<1>6. /\ solve_capacity(alone).load_service_w = allocate(m, live, batteries).load
      /\ solve_capacity(state).load_service_w = allocate(n, live, batteries).load
  BY <1>4, <1>5 DEF solve_capacity, Summarize
<1>7. Len(ServiceOrder) \in Nat /\ ServiceOrder \in Seq(Loads)
  BY LeftFacts, ServiceOrderType
<1>8. PICK p \in 1 .. Len(ServiceOrder) : ServiceOrder[p] = a
  <2>1. PICK i \in DOMAIN ServiceOrder : ServiceOrder[i] = a
    BY EveryLoadIsServed
  <2> QED
    BY <1>7, <2>1
<1>9. SameDemands(n, m, p)
  <2> SUFFICES ASSUME NEW j \in 1 .. p PROVE n.demand_w[ServiceOrder[j]] = m.demand_w[ServiceOrder[j]]
    BY DEF SameDemands
  <2>1. ~ Outranks(a, ServiceOrder[j])
    BY <1>8, ServedInRank
  <2>2. j \in 1 .. Len(ServiceOrder)
    BY <1>7
  <2>3. ServiceOrder[j] \in Loads
    BY <1>7, <2>2
  <2> HIDE DEF n, m
  <2> QED
    BY <1>1, <1>2, <1>3, <2>1, <2>3
<1> HIDE DEF n, m, live, batteries
<1>10. SameShare(n, m, live, batteries, p)
  <2>1. n.demand_w \in [Loads -> Nat] /\ m.demand_w \in [Loads -> Nat] /\ Alike(n, m)
    BY <1>1, <1>3
  <2> QED
    BY <1>9, <2>1, AllocationsTogether
<1>11. solve_capacity(alone).load_service_w[a] = solve_capacity(state).load_service_w[a]
  BY <1>6, <1>8, <1>10 DEF SameShare
<1> QED
  BY <1>11 DEF alone

\* A higher-priority load never gives up a watt for a lower one (_allocate, capacity.py),
\* although a later load takes live power before the earlier one is offered the batteries:
\* with the demand of the loads that it outranks gone, a load gets the same; for every site
\* and every runtime state.
THEOREM PriorityIsKeptHolds == Spec => []PriorityIsKept
<1>1. OnTheWay => PriorityIsKept
  <2> SUFFICES ASSUME OnTheWay, stage = 4, NEW a \in Loads
               PROVE  solve_capacity(Alone(s, a)).load_service_w[a] = summary.load_service_w[a]
    BY DEF PriorityIsKept, Alone
  <2>1. s \in RuntimeState
    BY StateFacts DEF OnTheWay
  <2>2. summary.load_service_w = solve_capacity(s).load_service_w
    <3>1. Network(s).demand_w = s.demand_w
      BY StateFacts DEF OnTheWay
    <3> QED
      BY <3>1 DEF OnTheWay, Remaining, Summarize, solve_capacity, Live, Batteries
  <2> QED
    BY <2>1, <2>2, AloneGetsTheSame
<1> QED
  BY <1>1, AlwaysOnTheWay, PTL
=============================================================================
