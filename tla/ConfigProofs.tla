---------------------------- MODULE ConfigProofs ----------------------------
(***************************************************************************)
(* What an accepted configuration promises, and the message limit at work, *)
(* for every configuration and every bound.                                *)
(***************************************************************************)
EXTENDS ServerConfig, ClientConfig, MessageLimit, FiniteSetTheorems,
        SequenceTheorems, WellFoundedInduction, TLAPS

-----------------------------------------------------------------------------
(* Induction over the natural numbers.                                      *)

\* A set of natural numbers that is not empty has a least member.
LEMMA LeastNat ==
  ASSUME NEW T, T \subseteq Nat, T # {}
  PROVE  \E x \in T : \A y \in T : x <= y
<1>1. \E x \in T : \A y \in T : ~(<<y, x>> \in OpToRel(<, Nat))
  BY NatLessThanWellFounded, WFMin
<1>2. PICK x \in T : \A y \in T : ~(<<y, x>> \in OpToRel(<, Nat))
  BY <1>1
<1>3. ASSUME NEW y \in T PROVE x <= y
  <2>1. <<y, x>> \in Nat \X Nat /\ <<y, x>>[1] = y /\ <<y, x>>[2] = x
    OBVIOUS
  <2>2. ~(y < x)
    BY <1>2, <2>1 DEF OpToRel
  <2>. QED
    BY <2>2
<1>. QED
  BY <1>3

-----------------------------------------------------------------------------
(* What SumFunctionOnSet computes.                                          *)

\* F holds the sum of w over every subset of H.
IsSum(F, H, w) ==
  /\ F \in [SUBSET H -> Nat] /\ F[{}] = 0
  /\ \A s \in SUBSET H : \A x \in s : F[s] = w[x] + F[s \ {x}]

\* The sums over the subsets of H, for one more element.
LEMMA SumExtends ==
  ASSUME NEW H, NEW a \in H, NEW w, \A x \in H : w[x] \in Nat, NEW F, IsSum(F, H \ {a}, w)
  PROVE  \E G : IsSum(G, H, w)
<1>. DEFINE G == [s \in SUBSET H |-> IF a \in s THEN w[a] + F[s \ {a}] ELSE F[s]]
<1>1. w[a] \in Nat /\ \A s \in SUBSET H : s \ {a} \in SUBSET (H \ {a})
  OBVIOUS
<1>2. \A s \in SUBSET (H \ {a}) : F[s] \in Nat
  BY DEF IsSum
<1>3. ASSUME NEW s \in SUBSET H PROVE G[s] \in Nat
  <2>1. a \notin s => s \in SUBSET (H \ {a})
    OBVIOUS
  <2>2. G[s] = IF a \in s THEN w[a] + F[s \ {a}] ELSE F[s]
    OBVIOUS
  <2>. QED
    BY <1>1, <1>2, <2>1, <2>2
<1>4. G[{}] = 0
  BY DEF IsSum
<1>5. ASSUME NEW s \in SUBSET H, NEW x \in s PROVE G[s] = w[x] + G[s \ {x}]
  <2>. DEFINE t == s \ {x}
              u == s \ {a}
  <2>0. t \in SUBSET H /\ u \in SUBSET (H \ {a}) /\ w[x] \in Nat
    OBVIOUS
  <2>1. /\ G[s] = IF a \in s THEN w[a] + F[u] ELSE F[s]
        /\ G[t] = IF a \in t THEN w[a] + F[t \ {a}] ELSE F[t]
    BY <2>0
  <2>2. CASE x = a
    <3>1. t = u /\ a \in s /\ a \notin t
      BY <2>2
    <3>. QED
      BY <2>1, <2>2, <3>1
  <2>3. CASE x # a /\ a \in s
    <3>1. a \in t /\ x \in u /\ t \ {a} = u \ {x}
      BY <2>3
    <3>2. F[u] = w[x] + F[u \ {x}]
      BY <2>0, <3>1 DEF IsSum
    <3>3. F[u \ {x}] \in Nat
      BY <1>2, <2>0
    <3>4. G[s] = w[a] + (w[x] + F[u \ {x}]) /\ G[t] = w[a] + F[u \ {x}]
      BY <2>1, <2>3, <3>1, <3>2
    <3>. QED
      BY <1>1, <2>0, <3>3, <3>4
  <2>4. CASE a \notin s
    <3>1. s \in SUBSET (H \ {a}) /\ a \notin t
      BY <2>4
    <3>2. F[s] = w[x] + F[t]
      BY <3>1 DEF IsSum
    <3>. QED
      BY <2>1, <2>4, <3>1, <3>2
  <2>. QED
    BY <2>2, <2>3, <2>4
<1>6. IsSum(G, H, w)
  <2>. HIDE DEF G
  <2>1. G \in [SUBSET H -> Nat]
    <3>1. G = [s \in SUBSET H |-> G[s]]
      BY DEF G
    <3>. QED
      BY <1>3, <3>1
  <2>. QED
    BY <1>4, <1>5, <2>1 DEF IsSum
<1>. QED
  BY <1>6

\* Every finite set has its sums: by induction on its size.
LEMMA SumExists ==
  ASSUME NEW H, IsFiniteSet(H), NEW w, \A x \in H : w[x] \in Nat
  PROVE  \E F : IsSum(F, H, w)
<1>. DEFINE Has(T) == \E F : IsSum(F, T, w)
            Bad == {Cardinality(T) : T \in {T \in SUBSET H : ~Has(T)}}
<1>1. ASSUME NEW T \in SUBSET H
      PROVE  IsFiniteSet(T) /\ Cardinality(T) \in Nat
  BY FS_Subset, FS_CardinalityType
<1>2. Bad \subseteq Nat
  BY <1>1
<1>3. ASSUME ~Has(H) PROVE FALSE
  <2>1. Bad # {}
    BY <1>3
  <2>2. PICK n \in Bad : \A m \in Bad : n <= m
    <3>. HIDE DEF Bad
    <3>. QED
      BY <1>2, <2>1, LeastNat
  <2>3. PICK T \in SUBSET H : ~Has(T) /\ Cardinality(T) = n
    BY <2>2
  <2>4. T # {}
    <3>1. IsSum([s \in SUBSET {} |-> 0], {}, w)
      BY DEF IsSum
    <3>. QED
      BY <2>3, <3>1
  <2>5. PICK a \in T : TRUE
    BY <2>4
  <2>6. T \ {a} \in SUBSET H /\ Cardinality(T \ {a}) < n
    BY <1>1, <2>3, <2>5, FS_RemoveElement
  <2>7. Has(T \ {a})
    <3>1. Cardinality(T \ {a}) \notin Bad
      <4>. HIDE DEF Bad
      <4>. QED
        BY <1>1, <1>2, <2>2, <2>6
    <3>. QED
      BY <2>6, <3>1
  <2>8. PICK F : IsSum(F, T \ {a}, w)
    BY <2>7
  <2>9. \E G : IsSum(G, T, w)
    BY <2>5, <2>8, SumExtends
  <2>. QED
    BY <2>3, <2>9
<1>. QED
  BY <1>3

\* f adds up w over a subset of H one element at a time.
AddsUp(f, H, w) ==
  \A s \in SUBSET H :
    IF s = {} THEN f[s] = 0 ELSE \E x \in s : f[s] = w[x] + f[s \ {x}]

\* A function that adds one chosen element at a time holds the sums.
LEMMA RecursionIsSum ==
  ASSUME NEW H, IsFiniteSet(H), NEW w, \A x \in H : w[x] \in Nat, NEW F, IsSum(F, H, w),
         NEW f, AddsUp(f, H, w)
  PROVE  \A s \in SUBSET H : f[s] = F[s]
<1>. DEFINE Bad == {Cardinality(s) : s \in {s \in SUBSET H : f[s] # F[s]}}
<1>1. ASSUME NEW s \in SUBSET H PROVE IsFiniteSet(s) /\ Cardinality(s) \in Nat
  BY FS_Subset, FS_CardinalityType
<1>2. Bad \subseteq Nat
  BY <1>1
<1>3. ASSUME Bad # {} PROVE FALSE
  <2>1. PICK n \in Bad : \A m \in Bad : n <= m
    <3>. HIDE DEF Bad
    <3>. QED
      BY <1>2, <1>3, LeastNat
  <2>2. PICK s \in SUBSET H : f[s] # F[s] /\ Cardinality(s) = n
    BY <2>1
  <2>3. s # {}
    BY <2>2 DEF IsSum, AddsUp
  <2>4. PICK x \in s : f[s] = w[x] + f[s \ {x}]
    BY <2>3 DEF AddsUp
  <2>5. s \ {x} \in SUBSET H /\ Cardinality(s \ {x}) < n
    BY <1>1, <2>2, <2>4, FS_RemoveElement
  <2>6. f[s \ {x}] = F[s \ {x}]
    <3>1. Cardinality(s \ {x}) \notin Bad
      <4>. HIDE DEF Bad
      <4>. QED
        BY <1>1, <1>2, <2>1, <2>5
    <3>. QED
      BY <2>5, <3>1
  <2>. QED
    BY <2>2, <2>4, <2>6 DEF IsSum
<1>. QED
  BY <1>3

\* The equation by which a fold adds up an operator is solved by the sums.
LEMMA FoldIsSum ==
  ASSUME NEW H, IsFiniteSet(H), NEW w, \A x \in H : w[x] \in Nat, NEW F, IsSum(F, H, w)
  PROVE  SumFunctionOnSet(w, H) = F[H]
<1>. DEFINE Eqn(f) == f = [s \in SUBSET H |->
                             IF s = {} THEN 0
                             ELSE w[CHOOSE x \in s : TRUE]
                                    + f[s \ {CHOOSE x \in s : TRUE}]]
<1>1. Eqn(F)
  <2>1. ASSUME NEW s \in SUBSET H
        PROVE  F[s] = IF s = {} THEN 0
                      ELSE w[CHOOSE x \in s : TRUE]
                             + F[s \ {CHOOSE x \in s : TRUE}]
    <3>1. s # {} => (CHOOSE x \in s : TRUE) \in s
      OBVIOUS
    <3>. QED
      BY <3>1 DEF IsSum
  <2>2. F = [s \in SUBSET H |-> F[s]]
    BY DEF IsSum
  <2>. QED
    BY <2>1, <2>2
<1>2. Eqn(CHOOSE f : Eqn(f))
  <2>. HIDE DEF Eqn
  <2>. QED
    BY <1>1
<1>3. ASSUME NEW f, Eqn(f) PROVE f[H] = F[H]
  <2>1. ASSUME NEW s \in SUBSET H
        PROVE  IF s = {} THEN f[s] = 0
               ELSE \E x \in s : f[s] = w[x] + f[s \ {x}]
    <3>1. f[s] = IF s = {} THEN 0
                 ELSE w[CHOOSE x \in s : TRUE]
                        + f[s \ {CHOOSE x \in s : TRUE}]
      BY <1>3
    <3>2. s # {} => (CHOOSE x \in s : TRUE) \in s
      OBVIOUS
    <3>. QED
      BY <3>1, <3>2
  <2>2. AddsUp(f, H, w)
    BY <2>1 DEF AddsUp
  <2>3. \A s \in SUBSET H : f[s] = F[s]
    BY <2>2, RecursionIsSum
  <2>. QED
    BY <2>3
<1>4. SumFunctionOnSet(w, H) = (CHOOSE f : Eqn(f))[H]
  BY Zenon DEF SumFunctionOnSet, FoldFunctionOnSet, MapThenFoldSet
<1>. QED
  BY <1>2, <1>3, <1>4

\* A sum over a finite set of natural numbers, one element taken out.
LEMMA SumProperties ==
  ASSUME NEW H, IsFiniteSet(H), NEW w, \A x \in H : w[x] \in Nat
  PROVE  /\ SumFunctionOnSet(w, H) \in Nat
         /\ H = {} => SumFunctionOnSet(w, H) = 0
         /\ \A x \in H : SumFunctionOnSet(w, H)
                           = w[x] + SumFunctionOnSet(w, H \ {x})
<1>1. PICK F : IsSum(F, H, w)
  BY SumExists
<1>2. SumFunctionOnSet(w, H) = F[H]
  BY <1>1, FoldIsSum
<1>3. ASSUME NEW x \in H
      PROVE  SumFunctionOnSet(w, H) = w[x] + SumFunctionOnSet(w, H \ {x})
  <2>. DEFINE T == H \ {x}
              G == [s \in SUBSET T |-> F[s]]
  <2>1. IsFiniteSet(T) /\ T \in SUBSET H
    BY FS_RemoveElement
  <2>2. IsSum(G, T, w)
    BY <1>1 DEF IsSum
  <2>3. SumFunctionOnSet(w, T) = G[T]
    <3>. HIDE DEF G
    <3>. QED
      BY <2>1, <2>2, FoldIsSum
  <2>. QED
    BY <1>1, <1>2, <2>3 DEF IsSum
<1>. QED
  BY <1>1, <1>2, <1>3 DEF IsSum

\* A part is never more than the whole.
LEMMA SumGrows ==
  ASSUME NEW H, IsFiniteSet(H), NEW w, \A x \in H : w[x] \in Nat, NEW T,
         T \subseteq H
  PROVE  SumFunctionOnSet(w, T) <= SumFunctionOnSet(w, H)
<1>. DEFINE S(s) == SumFunctionOnSet(w, s)
            Bad == {Cardinality(H \ s) : s \in {s \in SUBSET H : ~(S(s) <= S(H))}}
<1>1. ASSUME NEW s \in SUBSET H
      PROVE  /\ IsFiniteSet(s) /\ IsFiniteSet(H \ s)
             /\ Cardinality(H \ s) \in Nat /\ S(s) \in Nat
  <2>1. IsFiniteSet(s) /\ IsFiniteSet(H \ s)
    BY FS_Subset
  <2>. QED
    BY <2>1, FS_CardinalityType, SumProperties
<1>2. Bad \subseteq Nat
  BY <1>1
<1>3. ASSUME Bad # {} PROVE FALSE
  <2>1. PICK n \in Bad : \A m \in Bad : n <= m
    <3>. HIDE DEF Bad
    <3>. QED
      BY <1>2, <1>3, LeastNat
  <2>2. PICK s \in SUBSET H : ~(S(s) <= S(H)) /\ Cardinality(H \ s) = n
    BY <2>1
  <2>3. PICK x \in H \ s : TRUE
    <3>1. S(H) \in Nat
      BY <1>1
    <3>2. s # H
      BY <2>2, <3>1
    <3>. QED
      BY <3>2
  <2>. DEFINE u == s \cup {x}
  <2>4. u \in SUBSET H /\ u \ {x} = s /\ H \ u = (H \ s) \ {x}
    BY <2>3
  <2>5. Cardinality(H \ u) < n
    <3>. DEFINE r == H \ s
    <3>1. IsFiniteSet(r) /\ Cardinality(r) = n /\ n \in Nat /\ x \in r
      BY <1>1, <2>2, <2>3
    <3>2. Cardinality(r \ {x}) = n - 1
      <4>. HIDE DEF r
      <4>. QED
        BY <3>1, FS_RemoveElement
    <3>3. Cardinality(H \ u) = n - 1
      BY <2>4, <3>2
    <3>. QED
      <4>. HIDE DEF u
      <4>. QED
        BY <3>1, <3>3
  <2>6. S(u) = w[x] + S(s)
    <3>1. IsFiniteSet(u)
      BY <1>1, <2>4
    <3>2. \A y \in u : w[y] \in Nat
      BY <2>4
    <3>. QED
      BY <2>4, <3>1, <3>2, SumProperties
  <2>7. ~(S(u) <= S(H))
    <3>1. S(u) \in Nat /\ S(s) \in Nat /\ S(H) \in Nat /\ w[x] \in Nat
      BY <1>1, <2>4
    <3>. HIDE DEF S
    <3>. QED
      BY <2>2, <2>6, <3>1
  <2>8. Cardinality(H \ u) \in Bad
    BY <2>4, <2>7
  <2>9. n <= Cardinality(H \ u)
    BY <2>1, <2>8
  <2>10. n \in Nat /\ Cardinality(H \ u) \in Nat
    BY <1>2, <2>1, <2>8
  <2>. HIDE DEF u, Bad
  <2>. QED
    BY <2>5, <2>9, <2>10
<1>. QED
  BY <1>3

-----------------------------------------------------------------------------
(* What slicesSort returns.                                                 *)

\* The first k values of s, rearranged by p, are in order and none of the
\* others is smaller.
InOrder(s, p, k) ==
  /\ p \in Bijection(DOMAIN s, DOMAIN s)
  /\ \A i, j \in DOMAIN s : i <= k /\ i < j => s[p[i]] <= s[p[j]]

\* A bijection with two of its values swapped.
LEMMA SwapIsBijection ==
  ASSUME NEW D, NEW p \in Bijection(D, D), NEW a \in D, NEW b \in D
  PROVE  [p EXCEPT ![a] = p[b], ![b] = p[a]] \in Bijection(D, D)
<1>. DEFINE q == [p EXCEPT ![a] = p[b], ![b] = p[a]]
<1>1. /\ p \in [D -> D] /\ \A x, y \in D : p[x] = p[y] => x = y
      /\ \A t \in D : \E x \in D : p[x] = t
  BY DEF Bijection, Injection, Surjection, IsInjective
<1>2. /\ q \in [D -> D]
      /\ \A x \in D : q[x] = IF x = b THEN p[a] ELSE IF x = a THEN p[b] ELSE p[x]
  BY <1>1
<1>. HIDE DEF q
<1>3. \A x, y \in D : q[x] = q[y] => x = y
  BY <1>1, <1>2
<1>4. ASSUME NEW t \in D PROVE \E x \in D : q[x] = t
  <2>1. PICK x \in D : p[x] = t
    BY <1>1
  <2>2. q[IF x = a THEN b ELSE IF x = b THEN a ELSE x] = t
    BY <1>2, <2>1
  <2>. QED
    BY <2>2
<1>5. q \in Bijection(D, D)
  BY <1>2, <1>3, <1>4 DEF Bijection, Injection, Surjection, IsInjective
<1>. QED
  BY <1>5 DEF q

\* One value more: the least of the others comes next.
LEMMA OneMoreInOrder ==
  ASSUME NEW s \in Seq(Nat), NEW k \in Nat, k < Len(s), NEW p, InOrder(s, p, k)
  PROVE  \E q : InOrder(s, q, k + 1)
<1>. DEFINE n == Len(s)
            D == 1..n
            a == k + 1
            T == {s[p[i]] : i \in a..n}
<1>1. n \in Nat /\ DOMAIN s = D /\ \A i \in D : s[i] \in Nat
  OBVIOUS
<1>2. /\ p \in [D -> D] /\ p \in Bijection(D, D)
      /\ \A i, j \in D : i <= k /\ i < j => s[p[i]] <= s[p[j]]
  BY <1>1 DEF InOrder, Bijection, Injection
<1>3. a \in D /\ a..n \subseteq D
  BY <1>1
<1>4. PICK b \in a..n : \A i \in a..n : s[p[b]] <= s[p[i]]
  <2>1. T \subseteq Nat
    BY <1>1, <1>2, <1>3
  <2>2. s[p[a]] \in T
    BY <1>1, <1>3
  <2>3. PICK v \in T : \A u \in T : v <= u
    <3>. HIDE DEF T
    <3>. QED
      BY <2>1, <2>2, LeastNat
  <2>. QED
    BY <2>3
<1>. DEFINE q == [p EXCEPT ![a] = p[b], ![b] = p[a]]
<1>5. q \in Bijection(D, D) /\ b \in D
  BY <1>2, <1>3, <1>4, SwapIsBijection
<1>6. \A x \in D : q[x] = IF x = b THEN p[a] ELSE IF x = a THEN p[b] ELSE p[x]
  BY <1>2, <1>3
<1>. HIDE DEF q
<1>7. ASSUME NEW i \in D, NEW j \in D, i <= a, i < j
      PROVE  s[q[i]] <= s[q[j]]
  <2>1. CASE i <= k
    <3>1. i # a /\ i # b /\ i < a /\ i < b
      BY <1>1, <1>4, <2>1
    <3>2. PICK m \in D : q[j] = p[m] /\ i < m
      BY <1>3, <1>5, <1>6, <1>7, <3>1
    <3>. QED
      BY <1>2, <1>6, <2>1, <3>1, <3>2
  <2>2. CASE i = a
    <3>1. q[i] = p[b]
      BY <1>5, <1>6, <2>2
    <3>2. PICK m \in a..n : q[j] = p[m]
      BY <1>1, <1>3, <1>6, <1>7, <2>2
    <3>. QED
      BY <1>4, <3>1, <3>2
  <2>. QED
    BY <1>7, <2>1, <2>2
<1>8. InOrder(s, q, a)
  BY <1>1, <1>5, <1>7 DEF InOrder
<1>. QED
  BY <1>8

\* Every sequence can be sorted.
LEMMA SortExists ==
  ASSUME NEW s \in Seq(Nat)
  PROVE  \E p : InOrder(s, p, Len(s))
<1>. DEFINE Bad == {k \in 0..Len(s) : ~\E p : InOrder(s, p, k)}
<1>0. Len(s) \in Nat /\ DOMAIN s = 1..Len(s)
  OBVIOUS
<1>1. \E p : InOrder(s, p, 0)
  <2>. DEFINE p == [i \in DOMAIN s |-> i]
  <2>1. p \in Bijection(DOMAIN s, DOMAIN s)
    BY DEF Bijection, Injection, Surjection, IsInjective
  <2>2. \A i \in DOMAIN s : ~(i <= 0)
    BY <1>0
  <2>3. InOrder(s, p, 0)
    BY <2>1, <2>2 DEF InOrder
  <2>. QED
    BY <2>3
<1>2. ASSUME Bad # {} PROVE FALSE
  <2>1. Bad \subseteq Nat
    BY <1>0
  <2>2. PICK k \in Bad : \A m \in Bad : k <= m
    <3>. HIDE DEF Bad
    <3>. QED
      BY <1>2, <2>1, LeastNat
  <2>3. k \in 0..Len(s) /\ k # 0
    BY <1>1, <2>2
  <2>4. k - 1 \in Nat /\ k - 1 < Len(s) /\ (k - 1) + 1 = k /\ ~(k <= k - 1)
        /\ k - 1 \in 0..Len(s)
    BY <1>0, <2>3
  <2>5. k - 1 \notin Bad
    <3>. HIDE DEF Bad
    <3>. QED
      BY <2>2, <2>4
  <2>6. PICK p : InOrder(s, p, k - 1)
    BY <2>4, <2>5
  <2>7. \E q : InOrder(s, q, (k - 1) + 1)
    BY <2>4, <2>6, OneMoreInOrder
  <2>. QED
    BY <2>2, <2>4, <2>7
<1>3. Len(s) \notin Bad
  BY <1>2
<1>. QED
  BY <1>0, <1>3

\* The sorted copy holds the values of s, rearranged, in order.
LEMMA SortProperties ==
  ASSUME NEW s \in Seq(Nat)
  PROVE  \E p \in Bijection(DOMAIN s, DOMAIN s) :
           /\ slicesSort(s) = [i \in DOMAIN s |-> s[p[i]]]
           /\ \A i, j \in DOMAIN s :
                i <= j => slicesSort(s)[i] <= slicesSort(s)[j]
<1>. DEFINE D == DOMAIN s
            Copies == {[i \in D |-> s[p[i]]] : p \in Bijection(D, D)}
            Ordered(t) == \A i, j \in D : i <= j => t[i] <= t[j]
<1>1. PICK p : InOrder(s, p, Len(s))
  BY SortExists
<1>2. [i \in D |-> s[p[i]]] \in Copies
  BY <1>1 DEF InOrder
<1>3. Ordered([i \in D |-> s[p[i]]])
  <2>1. D = 1..Len(s) /\ Len(s) \in Nat /\ \A i \in D : s[i] \in Nat
    OBVIOUS
  <2>2. p \in [D -> D]
    BY <1>1 DEF InOrder, Bijection, Injection
  <2>3. ASSUME NEW i \in D, NEW j \in D, i <= j PROVE s[p[i]] <= s[p[j]]
    <3>1. i <= Len(s) /\ (i < j \/ i = j)
      BY <2>1, <2>3
    <3>2. s[p[i]] \in Nat
      BY <2>1, <2>2
    <3>. QED
      BY <1>1, <3>1, <3>2 DEF InOrder
  <2>. QED
    BY <2>3
<1>4. slicesSort(s) = CHOOSE t \in Copies : Ordered(t)
  BY DEF slicesSort
<1>5. slicesSort(s) \in Copies /\ Ordered(slicesSort(s))
  <2>. HIDE DEF Copies, Ordered
  <2>. QED
    BY <1>2, <1>3, <1>4
<1>. QED
  BY <1>5

-----------------------------------------------------------------------------
(* The server's configuration.                                              *)

\* The fields of a configuration.
ConfigType ==
  [MaxMessageBytes : Int, MaxConnections : Int, CompressionAt : Int,
   CloseTimeout : Int, OriginPatterns : Seq(Nat), Subprotocols : Seq(Nat),
   Compression : BOOLEAN, Authenticate : BOOLEAN, AllowAnonymous : BOOLEAN,
   AllowAnyOrigin : BOOLEAN, handle : BOOLEAN,
   observers : Seq({"value", "nil", "typedNil"})]

\* The normalised configuration has the values it is given, and the other
\* fields of the configuration.
LEMMA NormalizedFields ==
  ASSUME NEW c, NEW m, NEW n, NEW o, NEW p, NEW z, NEW t
  PROVE  LET d == normalizedServerConfig(c, m, n, o, p, z, t)
         IN /\ d.MaxMessageBytes = m /\ d.MaxConnections = n
            /\ d.OriginPatterns = o /\ d.Subprotocols = p
            /\ d.CompressionAt = z /\ d.CloseTimeout = t
            /\ d.Compression = c.Compression /\ d.Authenticate = c.Authenticate
            /\ d.AllowAnonymous = c.AllowAnonymous
            /\ d.AllowAnyOrigin = c.AllowAnyOrigin
            /\ d.handle = c.handle /\ d.observers = c.observers
            /\ normalizedServerConfig(d, m, n, o, p, z, t) = d
BY DEF normalizedServerConfig

\* What NewHandler returned is what it returns for the configuration.
HandlerInv ==
  server \in ServerConfigs /\ (normal = Unset \/ normal = newHandler(server))

LEMMA HandlerAlways == ServerSpec => []HandlerInv
<1>1. ServerInit => HandlerInv
  BY DEF ServerInit, HandlerInv
<1>2. HandlerInv /\ [NewHandler]_serverVars => HandlerInv'
  BY DEF HandlerInv, NewHandler, serverVars
<1>. QED
  BY <1>1, <1>2, PTL DEF ServerSpec

\* A value in place of a zero that is accepted lies in the range the default
\* lies in.
LEMMA DefaultAccepted ==
  ASSUME NEW v \in Int, NEW default \in Int, NEW low \in Int, NEW high \in Int,
         low <= default, default <= high, NEW w, v # 0 => w = v,
         Between(w, default, low, high).ok
  PROVE  Between(v, default, low, high).ok
BY DEF Between, Rejected, Is

\* ServerConfig: a field left at zero stands for a default that is always
\* accepted, so no configuration is rejected that a value in its place would
\* make acceptable.
THEOREM ZeroStandsForDefault == ServerSpec => []ZeroIsDefault
<1>1. ASSUME HandlerInv, normal = Rejected PROVE
        ~newHandler([server EXCEPT
            !.MaxMessageBytes = IF @ = 0 THEN 1 ELSE @,
            !.MaxConnections = IF @ = 0 THEN 1 ELSE @,
            !.CompressionAt = IF @ = 0 /\ server.Compression THEN 256 ELSE @,
            !.CloseTimeout = IF @ = 0 THEN millisecond ELSE @]).ok
  <2>. DEFINE c == server
              d == [server EXCEPT
                     !.MaxMessageBytes = IF @ = 0 THEN 1 ELSE @,
                     !.MaxConnections = IF @ = 0 THEN 1 ELSE @,
                     !.CompressionAt = IF @ = 0 /\ server.Compression THEN 256 ELSE @,
                     !.CloseTimeout = IF @ = 0 THEN millisecond ELSE @]
  <2>1. ~newHandler(c).ok
    BY <1>1 DEF HandlerInv, Unset, Rejected
  <2>. SUFFICES ASSUME newHandler(d).ok PROVE newHandler(c).ok
    BY <2>1
  <2>2. c \in ConfigType
    BY <1>1, ServerConfigsAssumption DEF HandlerInv, ConfigType
  <2>3. /\ c.MaxMessageBytes # 0 => d.MaxMessageBytes = c.MaxMessageBytes
        /\ c.MaxConnections # 0 => d.MaxConnections = c.MaxConnections
        /\ c.CloseTimeout # 0 => d.CloseTimeout = c.CloseTimeout
        /\ c.CompressionAt # 0 => d.CompressionAt = c.CompressionAt
        /\ ~c.Compression => d.CompressionAt = c.CompressionAt
        /\ c.MaxMessageBytes \in Int /\ c.MaxConnections \in Int
        /\ c.CloseTimeout \in Int /\ c.CompressionAt \in Int
        /\ c.Compression \in BOOLEAN
    BY <2>2 DEF ConfigType
  <2>4. /\ d.handle = c.handle /\ d.observers = c.observers
        /\ d.OriginPatterns = c.OriginPatterns /\ d.Subprotocols = c.Subprotocols
        /\ d.Compression = c.Compression /\ d.Authenticate = c.Authenticate
        /\ d.AllowAnonymous = c.AllowAnonymous
        /\ d.AllowAnyOrigin = c.AllowAnyOrigin
    BY <2>2 DEF ConfigType
  <2>. HIDE DEF c, d
  <2>5. d.handle /\ validateObservers(d.observers) /\ normalizeServerConfig(d).ok
    BY DEF newHandler, Rejected
  <2>6. /\ ServerAuthenticationOK(d)
        /\ normalizeMessageLimit(d.MaxMessageBytes).ok
        /\ Between(d.MaxConnections, defaultMaxConnections, 1, maxConnections).ok
        /\ normalizeOrigins(d.OriginPatterns, d.AllowAnyOrigin).ok
        /\ normalizeSubprotocols(d.Subprotocols).ok
        /\ normalizeCompression(d.Compression, d.CompressionAt).ok
        /\ Between(d.CloseTimeout, defaultCloseTimeout, millisecond, maxCloseTimeout).ok
    BY <2>5 DEF normalizeServerConfig, Rejected
  <2>7. normalizeMessageLimit(c.MaxMessageBytes).ok
    BY <2>3, <2>6 DEF normalizeMessageLimit, Is
  <2>8. Between(c.MaxConnections, defaultMaxConnections, 1, maxConnections).ok
    BY <2>3, <2>6, DefaultAccepted DEF defaultMaxConnections, maxConnections
  <2>9. Between(c.CloseTimeout, defaultCloseTimeout, millisecond, maxCloseTimeout).ok
    BY <2>3, <2>6, DefaultAccepted
    DEF defaultCloseTimeout, maxCloseTimeout, millisecond
  <2>10. normalizeCompression(c.Compression, c.CompressionAt).ok
    <3>1. CASE c.Compression
      <4>1. Between(d.CompressionAt, defaultCompressionAt, 256, maxMessageBytes).ok
        BY <2>4, <2>6, <3>1 DEF normalizeCompression
      <4>2. Between(c.CompressionAt, defaultCompressionAt, 256, maxMessageBytes).ok
        BY <2>3, <4>1, DefaultAccepted DEF defaultCompressionAt, maxMessageBytes
      <4>. QED
        BY <3>1, <4>2 DEF normalizeCompression
    <3>2. CASE ~c.Compression
      BY <2>3, <2>4, <2>6, <3>2
    <3>. QED
      BY <3>1, <3>2
  <2>11. ServerAuthenticationOK(c)
    BY <2>4, <2>6 DEF ServerAuthenticationOK
  <2>12. normalizeServerConfig(c).ok
    BY <2>4, <2>6, <2>7, <2>8, <2>9, <2>10, <2>11 DEF normalizeServerConfig, Is
  <2>. QED
    BY <2>4, <2>5, <2>12 DEF newHandler
<1>2. HandlerInv => ZeroIsDefault
  BY <1>1 DEF ZeroIsDefault
<1>. QED
  BY <1>2, HandlerAlways, PTL

\* t is a copy of s in strict order that normalizeOrigins may return.
OriginsCopy(s, any, t) ==
  /\ t = slicesSort(s) /\ t \in Seq(Nat) /\ Len(t) = Len(s)
  /\ ~(any /\ s # <<>>) /\ Len(s) <= MaxPatterns
  /\ \A i \in DOMAIN t : t[i] \notin UnsafePatterns
  /\ \A i, j \in DOMAIN t : i < j => t[i] < t[j]
  /\ Injective(s) /\ {t[i] : i \in DOMAIN t} = {s[i] : i \in DOMAIN s}

\* What normalizeOrigins accepts: patterns that are all different.
LEMMA OriginsAccepted ==
  ASSUME NEW s \in Seq(Nat), NEW any, normalizeOrigins(s, any).ok
  PROVE  OriginsCopy(s, any, normalizeOrigins(s, any).value)
<1>. DEFINE t == slicesSort(s)
            D == DOMAIN s
<1>1. /\ ~(any /\ s # <<>>) /\ ~(Len(s) > MaxPatterns)
      /\ \A i \in DOMAIN t : t[i] \notin UnsafePatterns
      /\ \A i \in DOMAIN t : ~(i > 1 /\ t[i] = t[i - 1])
      /\ normalizeOrigins(s, any).value = t
  BY DEF normalizeOrigins, Rejected, Is
<1>2. PICK p \in Bijection(D, D) :
        /\ t = [i \in D |-> s[p[i]]]
        /\ \A i, j \in D : i <= j => t[i] <= t[j]
  BY SortProperties
<1>3. /\ p \in [D -> D] /\ (\A x, y \in D : p[x] = p[y] => x = y)
      /\ \A x \in D : \E y \in D : p[y] = x
  BY DEF Bijection, Injection, Surjection, IsInjective
<1>4. D = 1..Len(s) /\ Len(s) \in Nat /\ \A i \in D : s[i] \in Nat
  OBVIOUS
<1>. HIDE DEF t
<1>5. /\ DOMAIN t = D /\ t \in [D -> Nat]
      /\ \A i \in D : t[i] = s[p[i]] /\ t[i] \in Nat
  BY <1>2, <1>3, <1>4
<1>6. t \in Seq(Nat)
  BY <1>4, <1>5, IsASeq
<1>7. Len(t) = Len(s)
  BY <1>4, <1>5, <1>6, LenProperties
<1>8. ASSUME NEW i \in D, NEW j \in D, i < j PROVE t[i] < t[j]
  <2>1. j - 1 \in D /\ i <= j - 1 /\ j - 1 <= j /\ j > 1
    BY <1>4, <1>8
  <2>2. t[i] <= t[j - 1] /\ t[j - 1] <= t[j] /\ t[j] # t[j - 1]
    BY <1>1, <1>2, <1>5, <2>1
  <2>3. t[i] \in Nat /\ t[j - 1] \in Nat /\ t[j] \in Nat
    BY <1>5, <2>1
  <2>. QED
    BY <2>2, <2>3
<1>9. ASSUME NEW i \in D, NEW j \in D, s[i] = s[j] PROVE i = j
  <2>1. PICK x \in D : p[x] = i
    BY <1>3
  <2>2. PICK y \in D : p[y] = j
    BY <1>3
  <2>3. t[x] = t[y] /\ t[x] \in Nat
    BY <1>5, <1>9, <2>1, <2>2
  <2>4. ~(x < y) /\ ~(y < x)
    BY <1>8, <2>3
  <2>5. x = y
    BY <1>4, <2>4
  <2>. QED
    BY <2>1, <2>2, <2>5
<1>10. {t[i] : i \in DOMAIN t} = {s[i] : i \in D}
  BY <1>3, <1>5
<1>11. Len(s) <= MaxPatterns
  BY <1>1, <1>4, NormalizersAssumption
<1>12. Injective(s)
  BY <1>9 DEF Injective
<1>13. t = slicesSort(s)
  BY DEF t
<1>14. \A i, j \in DOMAIN t : i < j => t[i] < t[j]
  BY <1>5, <1>8
<1>15. OriginsCopy(s, any, t)
  BY <1>1, <1>6, <1>7, <1>10, <1>11, <1>12, <1>13, <1>14, Zenon DEF OriginsCopy
<1>. QED
  BY <1>1, <1>15

\* normalizeOrigins: neighbours of the sorted copy show every duplicate, and
\* the copy holds exactly the patterns given.
THEOREM OriginsAreExact == ServerSpec => []OriginsExact
<1>1. ASSUME HandlerInv, normal.ok PROVE OriginsExact
  <2>1. normal = newHandler(server) /\ newHandler(server).ok
    BY <1>1 DEF HandlerInv, Unset
  <2>2. /\ newHandler(server) = normalizeServerConfig(server)
        /\ normalizeServerConfig(server).ok
    BY <2>1 DEF newHandler, Rejected
  <2>3. /\ server.OriginPatterns \in Seq(Nat)
        /\ server \in ConfigType
    BY <1>1, ServerConfigsAssumption DEF HandlerInv, ConfigType
  <2>. DEFINE origins == normalizeOrigins(server.OriginPatterns,
                                          server.AllowAnyOrigin)
  <2>4. origins.ok
    BY <2>2 DEF normalizeServerConfig, Rejected
  <2>5. normalizeServerConfig(server).value.OriginPatterns = origins.value
    BY <2>2, <2>3, NormalizedFields DEF normalizeServerConfig, Rejected, Is
  <2>6. /\ Injective(server.OriginPatterns)
        /\ {origins.value[i] : i \in DOMAIN origins.value}
             = {server.OriginPatterns[i] : i \in DOMAIN server.OriginPatterns}
    <3>1. OriginsCopy(server.OriginPatterns, server.AllowAnyOrigin, origins.value)
      BY <2>3, <2>4, OriginsAccepted
    <3>. HIDE DEF origins
    <3>. QED
      BY <3>1, Zenon DEF OriginsCopy
  <2>. QED
    BY <2>1, <2>2, <2>5, <2>6 DEF OriginsExact
<1>2. HandlerInv => OriginsExact
  BY <1>1 DEF OriginsExact
<1>. QED
  BY <1>2, HandlerAlways, PTL

\* A bijection of 1..n that keeps the order moves nothing.
LEMMA OrderedBijection ==
  ASSUME NEW n \in Nat, NEW p \in Bijection(1..n, 1..n),
         \A i, j \in 1..n : i < j => p[i] < p[j]
  PROVE  \A i \in 1..n : p[i] = i
<1>. DEFINE Bad == {i \in 1..n : p[i] # i}
<1>1. /\ p \in [1..n -> 1..n] /\ (\A x, y \in 1..n : p[x] = p[y] => x = y)
      /\ \A x \in 1..n : \E y \in 1..n : p[y] = x
  BY DEF Bijection, Injection, Surjection, IsInjective
<1>2. ASSUME Bad # {} PROVE FALSE
  <2>1. Bad \subseteq Nat
    OBVIOUS
  <2>2. PICK i \in Bad : \A m \in Bad : i <= m
    <3>. HIDE DEF Bad
    <3>. QED
      BY <1>2, <2>1, LeastNat
  <2>3. i \in 1..n /\ p[i] # i /\ p[i] \in 1..n
    BY <1>1, <2>2
  <2>4. \A m \in 1..n : m < i => p[m] = m
    BY <2>2
  <2>5. p[i] > i
    <3>1. ~(p[i] < i)
      <4>1. p[i] < i => p[p[i]] = p[i]
        BY <2>3, <2>4
      <4>. QED
        BY <1>1, <2>3, <4>1
    <3>. QED
      BY <2>3, <3>1
  <2>6. PICK y \in 1..n : p[y] = i
    BY <1>1, <2>3
  <2>7. ~(y < i) /\ y # i
    BY <2>3, <2>4, <2>6
  <2>8. i < y
    BY <2>3, <2>7
  <2>9. p[i] < p[y]
    BY <2>3, <2>8
  <2>. QED
    BY <2>3, <2>5, <2>6, <2>9
<1>. QED
  BY <1>2

\* Sorting what is in strict order leaves it alone.
LEMMA SortOfSorted ==
  ASSUME NEW t \in Seq(Nat), \A i, j \in DOMAIN t : i < j => t[i] < t[j]
  PROVE  slicesSort(t) = t
<1>. DEFINE n == Len(t)
            D == 1..n
<1>1. n \in Nat /\ DOMAIN t = D /\ t = [i \in D |-> t[i]] /\ \A i \in D : t[i] \in Nat
  OBVIOUS
<1>2. PICK p \in Bijection(D, D) :
        /\ slicesSort(t) = [i \in D |-> t[p[i]]]
        /\ \A i, j \in D : i <= j => slicesSort(t)[i] <= slicesSort(t)[j]
  BY <1>1, SortProperties
<1>3. p \in [D -> D] /\ \A x, y \in D : p[x] = p[y] => x = y
  BY DEF Bijection, Injection, IsInjective
<1>4. ASSUME NEW i \in D, NEW j \in D, i < j PROVE p[i] < p[j]
  <2>1. p[i] \in D /\ p[j] \in D /\ p[i] # p[j]
    BY <1>1, <1>3, <1>4
  <2>2. t[p[i]] <= t[p[j]]
    BY <1>1, <1>2, <1>4
  <2>3. p[j] < p[i] => t[p[j]] < t[p[i]]
    BY <1>1, <2>1
  <2>4. ~(p[j] < p[i])
    BY <1>1, <2>1, <2>2, <2>3
  <2>. QED
    BY <1>1, <2>1, <2>4
<1>5. \A i \in D : p[i] = i
  BY <1>1, <1>4, OrderedBijection
<1>. QED
  BY <1>1, <1>2, <1>5

\* A value in range, or the default in place of zero, is accepted again.
LEMMA BetweenAgain ==
  ASSUME NEW v \in Int, NEW default \in Int, NEW low \in Int, NEW high \in Int,
         low > 0, Between(v, default, low, high).ok
  PROVE  /\ Between(v, default, low, high).value \in Int
         /\ Between(Between(v, default, low, high).value, default, low, high)
              = Is(Between(v, default, low, high).value)
BY DEF Between, Rejected, Is

\* The same for a sorted copy of the origins.
LEMMA OriginsAgain ==
  ASSUME NEW s \in Seq(Nat), NEW any, normalizeOrigins(s, any).ok
  PROVE  normalizeOrigins(normalizeOrigins(s, any).value, any)
           = Is(normalizeOrigins(s, any).value)
<1>. DEFINE t == normalizeOrigins(s, any).value
<1>1. OriginsCopy(s, any, t)
  BY OriginsAccepted
<1>. HIDE DEF t
<1>2. slicesSort(t) = t
  BY <1>1, SortOfSorted DEF OriginsCopy
<1>3. t \in Seq(Nat) /\ Len(t) = Len(s) /\ Len(s) \in Nat
  BY <1>1 DEF OriginsCopy
<1>4. ~(any /\ t # <<>>)
  BY <1>1, <1>3, EmptySeq DEF OriginsCopy
<1>5. ~(Len(t) > MaxPatterns)
  BY <1>1, <1>3, NormalizersAssumption DEF OriginsCopy
<1>6. ~\E i \in DOMAIN t : t[i] \in UnsafePatterns \/ (i > 1 /\ t[i] = t[i - 1])
  <2>1. ASSUME NEW i \in DOMAIN t, i > 1 PROVE t[i] # t[i - 1]
    <3>1. i - 1 \in DOMAIN t /\ i - 1 < i /\ t[i] \in Nat /\ t[i - 1] \in Nat
      BY <1>3, <2>1
    <3>2. t[i - 1] < t[i]
      BY <1>1, <2>1, <3>1 DEF OriginsCopy
    <3>. QED
      BY <3>1, <3>2
  <2>. QED
    BY <1>1, <2>1 DEF OriginsCopy
<1>7. normalizeOrigins(t, any) = Is(t)
  BY <1>2, <1>4, <1>5, <1>6 DEF normalizeOrigins
<1>. QED
  BY <1>7 DEF t

\* normalizeServerConfig: what it accepts, it accepts again and leaves alone.
THEOREM NormalizingTwice == ServerSpec => []Idempotent
<1>1. ASSUME HandlerInv, normal.ok PROVE newHandler(normal.value) = normal
  <2>. DEFINE c == server
  <2>1. normal = newHandler(c) /\ newHandler(c).ok
    BY <1>1 DEF HandlerInv, Unset
  <2>2. /\ newHandler(c) = normalizeServerConfig(c)
        /\ normalizeServerConfig(c).ok /\ c.handle /\ validateObservers(c.observers)
    BY <2>1 DEF newHandler, Rejected
  <2>3. c \in ConfigType /\ c.MaxMessageBytes \in Int /\ c.MaxConnections \in Int
        /\ c.CloseTimeout \in Int /\ c.CompressionAt \in Int
        /\ c.OriginPatterns \in Seq(Nat)
    BY <1>1, ServerConfigsAssumption DEF HandlerInv, ConfigType
  <2>. HIDE DEF c
  <2>. DEFINE m == normalizeMessageLimit(c.MaxMessageBytes)
              n == Between(c.MaxConnections, defaultMaxConnections, 1, maxConnections)
              o == normalizeOrigins(c.OriginPatterns, c.AllowAnyOrigin)
              p == normalizeSubprotocols(c.Subprotocols)
              z == normalizeCompression(c.Compression, c.CompressionAt)
              t == Between(c.CloseTimeout, defaultCloseTimeout, millisecond, maxCloseTimeout)
              d == normalizedServerConfig(c, m.value, n.value, o.value, p.value,
                                          z.value, t.value)
  <2>4. /\ ServerAuthenticationOK(c) /\ m.ok /\ n.ok /\ o.ok /\ p.ok /\ z.ok /\ t.ok
        /\ normalizeServerConfig(c) = Is(d)
    BY <2>2 DEF normalizeServerConfig, Rejected
  <2>5. normal = Is(d) /\ normal.value = d
    BY <2>1, <2>2, <2>4 DEF Is
  <2>. HIDE DEF m, n, o, p, z, t
  <2>6. /\ d.MaxMessageBytes = m.value /\ d.MaxConnections = n.value
        /\ d.OriginPatterns = o.value /\ d.Subprotocols = p.value
        /\ d.CompressionAt = z.value /\ d.CloseTimeout = t.value
        /\ d.Compression = c.Compression /\ d.Authenticate = c.Authenticate
        /\ d.AllowAnonymous = c.AllowAnonymous
        /\ d.AllowAnyOrigin = c.AllowAnyOrigin
        /\ d.handle = c.handle /\ d.observers = c.observers
    BY <2>3, NormalizedFields
  <2>7. d = normalizedServerConfig(d, m.value, n.value, o.value, p.value, z.value,
                                   t.value)
    BY <2>3, NormalizedFields
  <2>. HIDE DEF d
  <2>8. normalizeMessageLimit(m.value) = Is(m.value)
    BY <2>3, <2>4, SMT
    DEF m, normalizeMessageLimit, defaultMaxMessageBytes, maxMessageBytes,
        Rejected, Is
  <2>9. Between(n.value, defaultMaxConnections, 1, maxConnections) = Is(n.value)
    BY <2>3, <2>4, BetweenAgain, SMT DEF n, defaultMaxConnections, maxConnections
  <2>10. Between(t.value, defaultCloseTimeout, millisecond, maxCloseTimeout) = Is(t.value)
    BY <2>3, <2>4, BetweenAgain, SMT
    DEF t, defaultCloseTimeout, maxCloseTimeout, millisecond
  <2>11. normalizeOrigins(o.value, c.AllowAnyOrigin) = Is(o.value)
    BY <2>3, <2>4, OriginsAgain DEF o
  <2>12. normalizeSubprotocols(p.value) = Is(p.value)
    BY <2>4 DEF p, normalizeSubprotocols, Rejected, Is
  <2>13. normalizeCompression(c.Compression, z.value) = Is(z.value)
    <3>1. CASE c.Compression
      <4>1. z = Between(c.CompressionAt, defaultCompressionAt, 256, maxMessageBytes)
        BY <3>1 DEF z, normalizeCompression
      <4>2. Between(z.value, defaultCompressionAt, 256, maxMessageBytes)
              = Is(z.value)
        BY <2>3, <2>4, <4>1, BetweenAgain, SMT
        DEF defaultCompressionAt, maxMessageBytes
      <4>. QED
        BY <3>1, <4>2 DEF normalizeCompression
    <3>2. CASE ~c.Compression
      <4>1. z.value = 0
        BY <2>4, <3>2 DEF z, normalizeCompression, Rejected, Is
      <4>. QED
        BY <3>2, <4>1 DEF normalizeCompression
    <3>. QED
      BY <3>1, <3>2
  <2>14. ServerAuthenticationOK(d)
    BY <2>4, <2>6 DEF ServerAuthenticationOK
  <2>15. normalizeServerConfig(d) = Is(d)
    <3>1. \A v : Is(v).ok /\ Is(v).value = v
      BY DEF Is
    <3>2. /\ normalizeMessageLimit(d.MaxMessageBytes) = Is(m.value)
          /\ Between(d.MaxConnections, defaultMaxConnections, 1, maxConnections)
               = Is(n.value)
          /\ normalizeOrigins(d.OriginPatterns, d.AllowAnyOrigin) = Is(o.value)
          /\ normalizeSubprotocols(d.Subprotocols) = Is(p.value)
          /\ normalizeCompression(d.Compression, d.CompressionAt) = Is(z.value)
          /\ Between(d.CloseTimeout, defaultCloseTimeout, millisecond, maxCloseTimeout)
               = Is(t.value)
      BY <2>6, <2>8, <2>9, <2>10, <2>11, <2>12, <2>13
    <3>. QED
      BY <2>7, <2>14, <3>1, <3>2 DEF normalizeServerConfig
  <2>16. newHandler(d) = Is(d)
    BY <2>2, <2>6, <2>15 DEF newHandler
  <2>. QED
    BY <2>5, <2>16
<1>2. HandlerInv => Idempotent
  BY <1>1 DEF Idempotent
<1>. QED
  BY <1>2, HandlerAlways, PTL

-----------------------------------------------------------------------------
(* The client's transport.                                                  *)

\* The scheme has been accepted once the URL is behind, and the transport
\* fits it once the TLS configuration is.
TransportInv ==
  /\ config \in Configs
  /\ check \in {"url", "limits", "headers", "authorization", "tls"} => tls = NoTLS
  /\ check \in {"limits", "headers", "authorization", "tls", "timeout",
               "transport", "accepted"}
       => WebSocketSchemeOK(config.target, config.insecure)
  /\ check \in {"timeout", "transport", "accepted"} =>
       IF config.target.scheme = "ws" THEN tls = NoTLS
       ELSE tls.given /\ ~tls.skipVerify /\ tls.minVersion >= VersionTLS12

LEMMA TransportStep == ASSUME TransportInv, [ConfigNext]_configVars PROVE TransportInv'
<1>. USE DEF TransportInv
<1>1. CASE NormalizeURL
  <2>. DEFINE ok == /\ config.target.exact
                    /\ WebSocketSchemeOK(config.target, config.insecure)
                    /\ config.target.port \in 1..maxPort
  <2>1. Pass(ok, "limits") /\ UNCHANGED <<config, tls>> /\ check = "url"
    BY <1>1 DEF NormalizeURL
  <2>2. ok => WebSocketSchemeOK(config.target, config.insecure)
    OBVIOUS
  <2>3. check' \in {"limits", "rejected"} /\ (check' = "limits" => ok)
    <3>. HIDE DEF ok
    <3>. QED
      BY <2>1 DEF Pass
  <2>. HIDE DEF ok
  <2>. QED
    BY <2>1, <2>2, <2>3
<1>2. CASE NormalizeLimits
  BY <1>2 DEF NormalizeLimits, Pass
<1>3. ASSUME NEW h \in config.headers, NormalizeHeader(h) PROVE TransportInv'
  BY <1>3 DEF NormalizeHeader, Pass
<1>4. CASE HeadersDone
  BY <1>4 DEF HeadersDone, Pass
<1>5. CASE NormalizeAuthorization
  BY <1>5 DEF NormalizeAuthorization, Pass
<1>6. CASE NormalizeTLS
  <2>1. config.tls \in [given : BOOLEAN, skipVerify : BOOLEAN, minVersion : Nat]
    BY ConfigsAssumption
  <2>2. CASE config.target.scheme = "ws"
    BY <1>6, <2>2 DEF NormalizeTLS, Pass
  <2>3. CASE config.target.scheme # "ws"
    <3>. DEFINE minimum == IF config.tls.minVersion = 0 THEN VersionTLS12
                           ELSE config.tls.minVersion
    <3>1. /\ Pass(~config.tls.skipVerify /\ minimum >= VersionTLS12, "timeout")
          /\ tls' = [config.tls EXCEPT !.given = TRUE, !.minVersion = minimum]
          /\ config' = config /\ check = "tls"
      BY <1>6, <2>3 DEF NormalizeTLS
    <3>2. /\ tls'.given /\ tls'.skipVerify = config.tls.skipVerify
          /\ tls'.minVersion = minimum
      BY <2>1, <3>1
    <3>. QED
      BY <2>3, <3>1, <3>2 DEF Pass
  <2>. QED
    BY <2>2, <2>3
<1>7. CASE NormalizeTimeout
  BY <1>7 DEF NormalizeTimeout, Pass
<1>8. CASE CloneTransport
  BY <1>8 DEF CloneTransport, Pass
<1>9. CASE UNCHANGED configVars
  BY <1>9 DEF configVars
<1>. QED
  BY <1>1, <1>2, <1>3, <1>4, <1>5, <1>6, <1>7, <1>8, <1>9 DEF ConfigNext

\* normalizeClientConfig: every configuration that is accepted speaks
\* verified TLS 1.2 or newer, or stays on this host because the caller said
\* so.
THEOREM TransportIsSecure == ConfigSpec => []SecureTransport
<1>1. ConfigInit => TransportInv
  BY DEF ConfigInit, TransportInv
<1>2. TransportInv => SecureTransport
  BY DEF TransportInv, SecureTransport, WebSocketSchemeOK, NoTLS
<1>. QED
  BY <1>1, <1>2, TransportStep, PTL DEF ConfigSpec

-----------------------------------------------------------------------------
(* The client's headers.                                                    *)

\* The bytes of each header of c.
BytesOf(c) == [h \in c.headers |-> HeaderBytes(h)]

\* A header counts a natural number of bytes.
LEMMA HeaderBytesNat ==
  ASSUME NEW c \in Configs, NEW h \in c.headers
  PROVE  HeaderBytes(h) \in Nat
<1>1. h.bytes \in Nat /\ h.values \in Seq(Nat)
  BY ConfigsAssumption
<1>2. Len(h.values) \in Nat /\ DOMAIN h.values = 1..Len(h.values)
      /\ \A i \in 1..Len(h.values) : h.values[i] \in Nat
  BY <1>1
<1>3. IsFiniteSet(DOMAIN h.values)
  BY <1>2, FS_Interval
<1>4. SumFunctionOnSet(h.values, DOMAIN h.values) \in Nat
  BY <1>2, <1>3, SumProperties
<1>5. Len(h.values) * h.bytes \in Nat
  <2>1. \A m, n \in Nat : m * n \in Nat
    OBVIOUS
  <2>. QED
    BY <1>1, <1>2, <2>1
<1>. QED
  BY <1>4, <1>5 DEF HeaderBytes, SumFunction

\* The sum of a configuration's headers, as the sum over a function.
LEMMA HeaderSum ==
  ASSUME NEW c \in Configs
  PROVE  MapThenSumSet(HeaderBytes, c.headers)
           = SumFunctionOnSet(BytesOf(c), c.headers)
<1>. DEFINE H == c.headers
            w == BytesOf(c)
            Eqn(f) == f = [s \in SUBSET H |->
                             IF s = {} THEN 0
                             ELSE HeaderBytes(CHOOSE x \in s : TRUE)
                                    + f[s \ {CHOOSE x \in s : TRUE}]]
<1>1. IsFiniteSet(H) /\ \A x \in H : w[x] = HeaderBytes(x) /\ w[x] \in Nat
  BY ConfigsAssumption, HeaderBytesNat DEF BytesOf
<1>2. PICK F : IsSum(F, H, w)
  <2>. HIDE DEF H, w
  <2>. QED
    BY <1>1, SumExists
<1>. HIDE DEF H, w
<1>3. ASSUME NEW s \in SUBSET H, s # {}
      PROVE  /\ (CHOOSE x \in s : TRUE) \in s
             /\ HeaderBytes(CHOOSE x \in s : TRUE) = w[CHOOSE x \in s : TRUE]
  <2>1. (CHOOSE x \in s : TRUE) \in s
    BY <1>3
  <2>. QED
    BY <1>1, <2>1
<1>4. Eqn(F)
  <2>1. ASSUME NEW s \in SUBSET H
        PROVE  F[s] = IF s = {} THEN 0
                      ELSE HeaderBytes(CHOOSE x \in s : TRUE)
                             + F[s \ {CHOOSE x \in s : TRUE}]
    BY <1>2, <1>3 DEF IsSum
  <2>2. F = [s \in SUBSET H |-> F[s]]
    BY <1>2 DEF IsSum
  <2>. QED
    BY <2>1, <2>2
<1>5. Eqn(CHOOSE f : Eqn(f))
  <2>. HIDE DEF Eqn
  <2>. QED
    BY <1>4
<1>6. ASSUME NEW f, Eqn(f) PROVE f[H] = F[H]
  <2>1. ASSUME NEW s \in SUBSET H
        PROVE  IF s = {} THEN f[s] = 0
               ELSE \E x \in s : f[s] = w[x] + f[s \ {x}]
    <3>1. f[s] = IF s = {} THEN 0
                 ELSE HeaderBytes(CHOOSE x \in s : TRUE)
                        + f[s \ {CHOOSE x \in s : TRUE}]
      BY <1>6
    <3>. QED
      BY <1>3, <3>1
  <2>2. AddsUp(f, H, w)
    BY <2>1 DEF AddsUp
  <2>3. \A s \in SUBSET H : f[s] = F[s]
    BY <1>1, <1>2, <2>2, RecursionIsSum
  <2>. QED
    BY <2>3
<1>7. MapThenSumSet(HeaderBytes, H) = (CHOOSE f : Eqn(f))[H]
  BY Zenon DEF MapThenSumSet, MapThenFoldSet
<1>8. SumFunctionOnSet(w, H) = F[H]
  BY <1>1, <1>2, FoldIsSum
<1>. QED
  BY <1>5, <1>6, <1>7, <1>8 DEF H, w

\* The running total is the sum over the headers visited.  They were fit
\* and within the limit as long as none was refused; one that was refused
\* is among them.
Within(t) == t <= maxHeaderBytes

HeaderInv ==
  /\ config \in Configs /\ visited \subseteq config.headers
  /\ total = SumFunctionOnSet(BytesOf(config), visited)
  /\ check \in {"url", "limits", "headers", "authorization", "tls", "timeout",
                "transport", "accepted", "rejected"}
  /\ check # "rejected" => refusedAt = "none" /\ Within(total)
                        /\ \A h \in visited : h.valid
  /\ check \in {"authorization", "tls", "timeout", "transport", "accepted"} =>
       visited = config.headers
  /\ check \in {"tls", "timeout", "transport", "accepted"} /\ config.auth.bytes # 0 =>
       Within(total + authorizationName + config.auth.bytes)
  /\ refusedAt = "headers" =>
       ~Within(total) \/ \E h \in visited : ~h.valid

\* One more header adds its bytes.
LEMMA VisitedSum ==
  ASSUME NEW c \in Configs, NEW V, V \subseteq c.headers,
         NEW h \in c.headers \ V
  PROVE  SumFunctionOnSet(BytesOf(c), V \cup {h})
           = SumFunctionOnSet(BytesOf(c), V) + HeaderBytes(h)
<1>. DEFINE U == V \cup {h}
<1>1. /\ IsFiniteSet(U) /\ IsFiniteSet(V) /\ U \ {h} = V /\ h \in U
      /\ \A x \in U : BytesOf(c)[x] \in Nat
      /\ BytesOf(c)[h] = HeaderBytes(h) /\ HeaderBytes(h) \in Nat
  BY ConfigsAssumption, FS_Subset, HeaderBytesNat DEF BytesOf
<1>. HIDE DEF U
<1>2. /\ SumFunctionOnSet(BytesOf(c), U)
           = BytesOf(c)[h] + SumFunctionOnSet(BytesOf(c), U \ {h})
  BY <1>1, SumProperties
<1>3. SumFunctionOnSet(BytesOf(c), V) \in Nat
  <2>1. \A x \in V : BytesOf(c)[x] \in Nat
    BY <1>1 DEF U
  <2>. QED
    BY <1>1, <2>1, SumProperties
<1>4. SumFunctionOnSet(BytesOf(c), U)
        = SumFunctionOnSet(BytesOf(c), V) + HeaderBytes(h)
  <2>1. \A m, n \in Nat : m + n = n + m
    OBVIOUS
  <2>2. SumFunctionOnSet(BytesOf(c), U)
          = HeaderBytes(h) + SumFunctionOnSet(BytesOf(c), V)
    BY <1>1, <1>2, Zenon
  <2>. QED
    BY <1>1, <1>3, <2>1, <2>2, Zenon
<1>. QED
  BY <1>4 DEF U

LEMMA HeaderStep == ASSUME HeaderInv, [ConfigNext]_configVars PROVE HeaderInv'
<1>. USE DEF HeaderInv
<1>1. CASE NormalizeURL
  <2>1. PICK ok : Pass(ok, "limits") /\ check = "url"
                  /\ UNCHANGED <<config, visited, total>>
    BY <1>1 DEF NormalizeURL
  <2>. QED
    BY <2>1 DEF Pass
<1>2. CASE NormalizeLimits
  <2>1. PICK ok : Pass(ok, "headers") /\ check = "limits"
                  /\ UNCHANGED <<config, visited, total>>
    BY <1>2 DEF NormalizeLimits
  <2>. QED
    BY <2>1 DEF Pass
<1>3. ASSUME NEW h \in config.headers, NormalizeHeader(h) PROVE HeaderInv'
  <2>. DEFINE n == total + HeaderBytes(h)
  <2>1. /\ check = "headers" /\ h \in config.headers \ visited
        /\ Pass(h.valid /\ Within(n), "headers")
        /\ total' = n /\ visited' = visited \cup {h} /\ config' = config
    BY <1>3 DEF NormalizeHeader, Within
  <2>2. total' = SumFunctionOnSet(BytesOf(config'), visited')
    BY <2>1, VisitedSum
  <2>. HIDE DEF n
  <2>3. check' \in {"headers", "rejected"} /\ (check' = "headers" <=> h.valid /\ Within(n))
        /\ refusedAt' = IF h.valid /\ Within(n) THEN "none" ELSE "headers"
    BY <2>1 DEF Pass
  <2>. QED
    BY <2>1, <2>2, <2>3
<1>4. CASE HeadersDone
  BY <1>4 DEF HeadersDone, Pass
<1>5. CASE NormalizeAuthorization
  <2>. DEFINE fits == Within(total + authorizationName + config.auth.bytes)
  <2>1. PICK ok : /\ Pass(ok, "tls") /\ check = "authorization"
                  /\ ok /\ config.auth.bytes # 0 => fits
                  /\ UNCHANGED <<config, visited, total>>
    BY <1>5 DEF NormalizeAuthorization, Within
  <2>. QED
    BY <2>1 DEF Pass
<1>6. CASE NormalizeTLS
  <2>1. PICK ok : Pass(ok, "timeout") /\ check = "tls"
                  /\ UNCHANGED <<config, visited, total>>
    BY <1>6 DEF NormalizeTLS
  <2>. QED
    BY <2>1 DEF Pass
<1>7. CASE NormalizeTimeout
  <2>1. PICK ok : Pass(ok, "transport") /\ check = "timeout"
                  /\ UNCHANGED <<config, visited, total>>
    BY <1>7 DEF NormalizeTimeout
  <2>. QED
    BY <2>1 DEF Pass
<1>8. CASE CloneTransport
  <2>1. PICK ok : Pass(ok, "accepted") /\ check = "transport"
                  /\ UNCHANGED <<config, visited, total>>
    BY <1>8 DEF CloneTransport
  <2>. QED
    BY <2>1 DEF Pass
<1>9. CASE UNCHANGED configVars
  BY <1>9 DEF configVars
<1>. QED
  BY <1>1, <1>2, <1>3, <1>4, <1>5, <1>6, <1>7, <1>8, <1>9 DEF ConfigNext

LEMMA HeaderAlways == ConfigSpec => []HeaderInv
<1>1. ConfigInit => HeaderInv
  <2>1. SumFunctionOnSet(BytesOf(config), {}) = 0
    BY FS_EmptySet, SumProperties
  <2>. QED
    BY <2>1 DEF ConfigInit, HeaderInv, Within, maxHeaderBytes
<1>. QED
  BY <1>1, HeaderStep, PTL DEF ConfigSpec

\* normalizeClientConfig: no accepted configuration sends more header bytes
\* than the limit, the Authorization header included.
THEOREM HeadersFitBudget == ConfigSpec => []HeaderBudget
<1>1. ASSUME HeaderInv, check = "accepted" PROVE SentBytes(config) <= maxHeaderBytes
  <2>1. total = MapThenSumSet(HeaderBytes, config.headers)
    BY <1>1, HeaderSum DEF HeaderInv
  <2>2. total \in Nat /\ config.auth.bytes \in Nat
    <3>1. /\ IsFiniteSet(config.headers)
          /\ \A h \in config.headers : BytesOf(config)[h] \in Nat
          /\ config.auth.bytes \in Nat
      BY <1>1, ConfigsAssumption, HeaderBytesNat DEF HeaderInv, BytesOf
    <3>2. total = SumFunctionOnSet(BytesOf(config), config.headers)
      BY <1>1 DEF HeaderInv
    <3>. QED
      BY <3>1, <3>2, SumProperties
  <2>3. Within(total) /\ (config.auth.bytes # 0 =>
                            Within(total + authorizationName + config.auth.bytes))
    BY <1>1 DEF HeaderInv
  <2>4. SentBytes(config) = total + (IF config.auth.bytes = 0 THEN 0
                                     ELSE authorizationName + config.auth.bytes)
    BY <2>1 DEF SentBytes
  <2>. QED
    BY <2>2, <2>3, <2>4 DEF Within, maxHeaderBytes, authorizationName
<1>2. HeaderInv => HeaderBudget
  BY <1>1 DEF HeaderBudget
<1>. QED
  BY <1>2, HeaderAlways, PTL

\* normalizeHeaders: the headers are refused or accepted whatever the order
\* in which Go visits the map.
THEOREM HeadersAreOrderFree == ConfigSpec => []HeadersOrderFree
<1>1. ASSUME HeaderInv PROVE HeadersOrderFree
  <2>. DEFINE all == MapThenSumSet(HeaderBytes, config.headers)
  <2>1. all = SumFunctionOnSet(BytesOf(config), config.headers)
    BY <1>1, HeaderSum DEF HeaderInv
  <2>2. /\ IsFiniteSet(config.headers) /\ IsFiniteSet(visited)
        /\ \A h \in config.headers : BytesOf(config)[h] \in Nat
        /\ \A h \in visited : BytesOf(config)[h] \in Nat
    BY <1>1, ConfigsAssumption, FS_Subset, HeaderBytesNat DEF HeaderInv, BytesOf
  <2>3. total <= all /\ total \in Nat /\ all \in Nat
    BY <1>1, <2>1, <2>2, SumGrows, SumProperties DEF HeaderInv
  <2>. HIDE DEF all
  <2>4. ~Within(total) => ~(all <= maxHeaderBytes)
    BY <2>3 DEF Within, maxHeaderBytes
  <2>5. check \in {"authorization", "tls", "timeout", "transport", "accepted"} =>
          /\ all = total /\ Within(total)
          /\ \A h \in config.headers : h.valid
    BY <1>1, <2>1 DEF HeaderInv
  <2>6. refusedAt = "headers" => ~Within(total) \/ \E h \in config.headers : ~h.valid
    BY <1>1 DEF HeaderInv
  <2>. QED
    BY <2>4, <2>5, <2>6 DEF HeadersOrderFree, all, Within
<1>. QED
  BY <1>1, HeaderAlways, PTL

-----------------------------------------------------------------------------
(* The message limit.                                                       *)

\* While a message is read, what has been read and what is left of the limit
\* are one more than the maximum.
LimitInv ==
  /\ configured \in Int /\ maximum \in Nat
  /\ maximum # 0 => readLimit = maximum + 1
  /\ readState \in {"none", "reading", "message", "tooBig"}
  /\ readState # "none" =>
       /\ maximum > 0
       /\ got \in Nat /\ remaining \in Nat /\ got + remaining = readLimit
  /\ payloadLength \in Nat /\ message.final \in BOOLEAN
  /\ frames \in Seq(Nat)
  /\ readState = "message" /\ ~message.final => remaining > 0

\* A function on 1..k is a sequence of k elements.
LEMMA FunctionIsSeq ==
  ASSUME NEW k \in Nat, k >= 1, NEW s \in [1..k -> Nat]
  PROVE  s \in Seq(Nat) /\ Len(s) = k /\ s # <<>>
<1>1. s \in Seq(Nat)
  BY IsASeq
<1>2. Len(s) = k
  BY <1>1, LenProperties
<1>3. s # <<>>
  BY <1>2
<1>. QED
  BY <1>1, <1>2, <1>3

\* The lengths of a message's frames.
LEMMA MessageFrames ==
  ASSUME NEW m \in Messages
  PROVE  /\ m.frames \in Seq(Nat) /\ m.frames # <<>> /\ m.final \in BOOLEAN
         /\ m.final => Len(m.frames) = 1
<1>1. CASE m \in [frames : UNION {[1..k -> 0..MaxPayload] : k \in 1..MaxFragments},
                  final : {FALSE}]
  <2>1. PICK k \in 1..MaxFragments : m.frames \in [1..k -> 0..MaxPayload]
    BY <1>1
  <2>2. k \in Nat /\ k >= 1 /\ m.frames \in [1..k -> Nat]
    BY <2>1, MessageLimitAssumption
  <2>. QED
    BY <1>1, <2>2, FunctionIsSeq
<1>2. CASE m \in [frames : [1..1 -> 1..MaxPayload], final : {TRUE}]
  <2>1. m.frames \in [1..1 -> 1..MaxPayload] /\ m.final = TRUE
    BY <1>2
  <2>2. m.frames \in [1..1 -> Nat]
    BY <2>1, MessageLimitAssumption
  <2>3. \A k \in Nat : \A s : k >= 1 /\ s \in [1..k -> Nat] =>
                            s \in Seq(Nat) /\ Len(s) = k /\ s # <<>>
    BY FunctionIsSeq
  <2>4. m.frames \in Seq(Nat) /\ Len(m.frames) = 1 /\ m.frames # <<>>
    <3>. DEFINE s == m.frames
    <3>1. s \in [1..1 -> Nat]
      BY <2>2
    <3>. HIDE DEF s
    <3>2. s \in Seq(Nat) /\ Len(s) = 1 /\ s # <<>>
      BY <2>3, <3>1, 1 \in Nat /\ 1 >= 1, Zenon
    <3>. QED
      BY <3>2 DEF s
  <2>. QED
    BY <2>1, <2>4
<1>. QED
  BY <1>1, <1>2 DEF Messages

LEMMA LimitStep == ASSUME LimitInv, [ReadNext]_readVars PROVE LimitInv'
<1>. USE DEF LimitInv
<1>1. CASE newConnection
  <2>1. normalizeMessageLimit(configured).value \in Nat
    BY <1>1 DEF newConnection, normalizeMessageLimit, Rejected, Is,
                defaultMaxMessageBytes, maxMessageBytes
  <2>. QED
    BY <1>1, <2>1 DEF newConnection
<1>2. ASSUME NEW m \in Messages, ReadStart(m) PROVE LimitInv'
  <2>1. /\ m.frames \in Seq(Nat) /\ m.frames # <<>> /\ m.final \in BOOLEAN
    BY MessageFrames
  <2>2. Head(m.frames) \in Nat /\ Tail(m.frames) \in Seq(Nat)
    BY <2>1, HeadTailProperties
  <2>. QED
    BY <1>2, <2>1, <2>2 DEF ReadStart
<1>3. CASE LimitReached
  BY <1>3 DEF LimitReached
<1>4. ASSUME NEW k \in 1..MaxPayload, ReadSome(k) PROVE LimitInv'
  BY <1>4, MessageLimitAssumption DEF ReadSome
<1>5. CASE NextFrame
  <2>1. Head(frames) \in Nat /\ Tail(frames) \in Seq(Nat)
    BY <1>5, HeadTailProperties DEF NextFrame
  <2>. QED
    BY <1>5, <2>1 DEF NextFrame
<1>6. CASE ReadEnd
  BY <1>6 DEF ReadEnd
<1>7. CASE UNCHANGED readVars
  BY <1>7 DEF readVars
<1>. QED
  BY <1>1, <1>2, <1>3, <1>4, <1>5, <1>6, <1>7 DEF ReadNext

LEMMA LimitAlways == ReadSpec => []LimitInv
<1>1. ReadInit => LimitInv
  BY MessageLimitAssumption, EmptySeq DEF ReadInit, LimitInv
<1>. QED
  BY <1>1, LimitStep, PTL DEF ReadSpec

\* Connection.Read: however a message is cut into frames and pieces, what is
\* returned is above the maximum by one byte at most, and only if the sender
\* ended it with a final deflate block.
THEOREM ExcessIsOneByte == ReadSpec => []ReadSlack
<1>1. LimitInv => ReadSlack
  BY DEF LimitInv, ReadSlack
<1>. QED
  BY <1>1, LimitAlways, PTL

\* The bytes of the first j frames of a message.
Prefix(m, j) == SumFunctionOnSet(m.frames, 1..j)

\* What is left of s after its first j elements.
Rest(s, j) == SubSeq(s, j + 1, Len(s))

\* j frames of the message have been opened: their bytes have been read, but
\* for what is left of the last one, and the others are still to come.
Opened(j) ==
  /\ frames = Rest(message.frames, j)
  /\ got + payloadLength = Prefix(message, j)

FramesInv ==
  readState # "none" =>
    /\ message \in Messages
    /\ \E j \in 1..Len(message.frames) : Opened(j)
    /\ readState = "message" => payloadLength = 0 /\ frames = <<>>
    /\ readState = "tooBig" => remaining = 0

\* One frame more.
LEMMA PrefixGrows ==
  ASSUME NEW m \in Messages, NEW j \in 0..Len(m.frames)
  PROVE  /\ Prefix(m, j) \in Nat /\ Prefix(m, 0) = 0
         /\ Prefix(m, j) <= Size(m) /\ Size(m) = Prefix(m, Len(m.frames))
         /\ j < Len(m.frames) =>
              Prefix(m, j + 1) = m.frames[j + 1] + Prefix(m, j)
<1>1. /\ m.frames \in Seq(Nat)
  BY MessageFrames
<1>2. /\ Len(m.frames) \in Nat /\ DOMAIN m.frames = 1..Len(m.frames)
      /\ \A i \in 1..Len(m.frames) : m.frames[i] \in Nat
  BY <1>1
<1>. DEFINE w == m.frames
            n == Len(m.frames)
<1>3. n \in Nat /\ DOMAIN w = 1..n /\ \A i \in 1..n : w[i] \in Nat
  BY <1>2
<1>4. /\ Size(m) = SumFunctionOnSet(w, 1..n)
      /\ \A i : Prefix(m, i) = SumFunctionOnSet(w, 1..i)
  BY <1>2 DEF Size, SumFunction, Prefix
<1>5. j \in 0..n
  OBVIOUS
<1>. HIDE DEF w, n
<1>6. /\ IsFiniteSet(1..n) /\ IsFiniteSet(1..j) /\ IsFiniteSet(1..(j + 1))
      /\ 1..j \subseteq 1..n /\ 1..0 = {}
      /\ \A i \in 1..j : w[i] \in Nat
  <2>1. 1..j \subseteq 1..n /\ 1..0 = {} /\ \A i \in 1..j : w[i] \in Nat
    BY <1>3, <1>5
  <2>2. 1 \in Int /\ n \in Int /\ j \in Int /\ j + 1 \in Int
    BY <1>3, <1>5
  <2>3. \A a, b \in Int : IsFiniteSet(a..b)
    BY FS_Interval
  <2>. QED
    BY <2>1, <2>2, <2>3
<1>7. /\ SumFunctionOnSet(w, 1..j) \in Nat
      /\ SumFunctionOnSet(w, 1..j) <= SumFunctionOnSet(w, 1..n)
  BY <1>3, <1>6, SumProperties, SumGrows
<1>8. SumFunctionOnSet(w, {}) = 0
  BY FS_EmptySet, SumProperties
<1>9. ASSUME j < n
      PROVE  SumFunctionOnSet(w, 1..(j + 1)) = w[j + 1] + SumFunctionOnSet(w, 1..j)
  <2>. DEFINE H == 1..(j + 1)
  <2>1. /\ H \ {j + 1} = 1..j /\ j + 1 \in H
        /\ \A i \in H : w[i] \in Nat
    BY <1>3, <1>5, <1>9
  <2>2. IsFiniteSet(H)
    BY <1>6
  <2>. HIDE DEF H
  <2>3. SumFunctionOnSet(w, H) = w[j + 1] + SumFunctionOnSet(w, H \ {j + 1})
    BY <2>1, <2>2, SumProperties
  <2>4. SumFunctionOnSet(w, H) = w[j + 1] + SumFunctionOnSet(w, 1..j)
    BY <2>1, <2>3
  <2>. QED
    BY <2>4 DEF H
<1>10. /\ Prefix(m, j) \in Nat /\ Prefix(m, 0) = 0
       /\ Prefix(m, j) <= Size(m) /\ Size(m) = Prefix(m, n)
  BY <1>4, <1>6, <1>7, <1>8
<1>11. j < n => Prefix(m, j + 1) = w[j + 1] + Prefix(m, j)
  BY <1>4, <1>9
<1>. QED
  BY <1>10, <1>11 DEF w, n

\* Taking one element at a time, nothing is left at the end.
LEMMA RestProperties ==
  ASSUME NEW s \in Seq(Nat), NEW j \in 0..Len(s)
  PROVE  /\ Rest(s, 0) = s
         /\ j = Len(s) <=> Rest(s, j) = <<>>
         /\ j < Len(s) => /\ Head(Rest(s, j)) = s[j + 1]
                          /\ Tail(Rest(s, j)) = Rest(s, j + 1)
<1>0. Len(s) \in Nat /\ \A i \in 1..Len(s) : s[i] \in Nat
  OBVIOUS
<1>1. Rest(s, 0) = s
  BY SubSeqFull DEF Rest
<1>2. ASSUME j < Len(s)
      PROVE  /\ Head(Rest(s, j)) = s[j + 1] /\ Tail(Rest(s, j)) = Rest(s, j + 1)
             /\ Rest(s, j) # <<>>
  <2>1. j + 1 \in 1..Len(s) /\ Len(s) \in (j + 1)..Len(s)
    BY <1>0, <1>2
  <2>2. /\ Head(SubSeq(s, j + 1, Len(s))) = s[j + 1]
        /\ Tail(SubSeq(s, j + 1, Len(s))) = SubSeq(s, (j + 1) + 1, Len(s))
    BY <2>1, HeadTailOfSubSeq
  <2>3. Len(SubSeq(s, j + 1, Len(s))) = Len(s) - (j + 1) + 1
    <3>1. \A i \in (j + 1)..Len(s) : s[i] \in Nat
      BY <1>0
    <3>2. j + 1 \in Int /\ Len(s) \in Int /\ j + 1 <= Len(s)
      BY <1>0, <1>2
    <3>. QED
      BY <3>1, <3>2, SubSeqProperties
  <2>4. Len(SubSeq(s, j + 1, Len(s))) # 0
    BY <1>0, <1>2, <2>3
  <2>5. SubSeq(s, j + 1, Len(s)) # <<>>
    <3>. DEFINE r == SubSeq(s, j + 1, Len(s))
    <3>1. Len(r) # 0
      BY <2>4
    <3>. HIDE DEF r
    <3>2. r # <<>>
      BY <3>1
    <3>. QED
      BY <3>2 DEF r
  <2>. QED
    BY <2>2, <2>5, Zenon DEF Rest
<1>3. ASSUME j = Len(s) PROVE Rest(s, j) = <<>>
  <2>1. j + 1 \in Int /\ Len(s) \in Int /\ Len(s) < j + 1
    BY <1>0, <1>3
  <2>. QED
    BY <2>1, SubSeqEmpty DEF Rest
<1>4. j < Len(s) \/ j = Len(s)
  BY <1>0
<1>. QED
  BY <1>1, <1>2, <1>3, <1>4

LEMMA FramesStep ==
  ASSUME LimitInv, FramesInv, [ReadNext]_readVars PROVE FramesInv'
<1>1. CASE newConnection
  BY <1>1 DEF newConnection, FramesInv, Opened, LimitInv
<1>2. ASSUME NEW m \in Messages, ReadStart(m) PROVE FramesInv'
  <2>1. /\ m.frames \in Seq(Nat) /\ m.frames # <<>>
    BY MessageFrames
  <2>2. Len(m.frames) \in Nat /\ 1 \in 1..Len(m.frames) /\ 0 \in 0..Len(m.frames)
    BY <2>1
  <2>3. /\ Head(m.frames) = m.frames[1] /\ Tail(m.frames) = Rest(m.frames, 1)
        /\ Head(m.frames) \in Nat
    <3>1. 0 < Len(m.frames) /\ 0 + 1 = 1
      BY <2>2
    <3>2. /\ Rest(m.frames, 0) = m.frames
          /\ Head(Rest(m.frames, 0)) = m.frames[0 + 1]
          /\ Tail(Rest(m.frames, 0)) = Rest(m.frames, 0 + 1)
      BY <2>1, <2>2, <3>1, RestProperties
    <3>3. Head(m.frames) \in Nat
      BY <2>1, HeadTailProperties
    <3>. QED
      BY <3>1, <3>2, <3>3
  <2>4. Prefix(m, 1) = m.frames[1]
    <3>1. /\ Prefix(m, 0) = 0
          /\ 0 < Len(m.frames) => Prefix(m, 0 + 1) = m.frames[0 + 1] + Prefix(m, 0)
      BY <2>2, PrefixGrows
    <3>2. Prefix(m, 1) = m.frames[1] + 0
      BY <2>2, <3>1
    <3>. QED
      BY <2>3, <3>2
  <2>5. /\ message' = m /\ frames' = Rest(m.frames, 1) /\ readState' = "reading"
        /\ got' + payloadLength' = Prefix(m, 1)
    BY <1>2, <2>3, <2>4 DEF ReadStart
  <2>6. Opened(1)'
    BY <2>5 DEF Opened
  <2>. QED
    BY <2>2, <2>5, <2>6 DEF FramesInv
<1>3. CASE LimitReached
  BY <1>3 DEF LimitReached, FramesInv, Opened
<1>4. ASSUME NEW k \in 1..MaxPayload, ReadSome(k) PROVE FramesInv'
  <2>1. PICK j \in 1..Len(message.frames) : Opened(j)
    BY <1>4 DEF FramesInv, ReadSome
  <2>2. /\ message' = message /\ frames' = frames /\ readState = "reading"
        /\ readState' \in {"reading", "message"} /\ message \in Messages
        /\ readState' = "message" => message.final /\ payloadLength' = 0
        /\ got' + payloadLength' = got + payloadLength
    <3>1. k \in Nat /\ payloadLength \in Nat /\ got \in Nat
      BY <1>4, MessageLimitAssumption DEF LimitInv, ReadSome
    <3>. QED
      BY <1>4, <3>1 DEF ReadSome, FramesInv
  <2>3. Opened(j)'
    BY <2>1, <2>2 DEF Opened
  <2>4. message.final => frames = <<>>
    <3>1. ASSUME message.final PROVE Rest(message.frames, j) = <<>>
      <4>1. message.frames \in Seq(Nat) /\ Len(message.frames) = 1
        BY <2>2, <3>1, MessageFrames
      <4>2. j = Len(message.frames) /\ j \in 0..Len(message.frames)
        BY <4>1
      <4>. QED
        BY <4>1, <4>2, RestProperties
    <3>. QED
      BY <2>1, <3>1 DEF Opened
  <2>. QED
    BY <2>2, <2>3, <2>4 DEF FramesInv
<1>5. CASE NextFrame
  <2>1. PICK j \in 1..Len(message.frames) : Opened(j)
    BY <1>5 DEF FramesInv, NextFrame
  <2>2. message \in Messages /\ message.frames \in Seq(Nat)
    BY <1>5, MessageFrames DEF FramesInv, NextFrame
  <2>3. Len(message.frames) \in Nat /\ j \in 0..Len(message.frames)
    BY <2>2
  <2>4. j < Len(message.frames)
    BY <1>5, <2>1, <2>2, <2>3, RestProperties DEF Opened, NextFrame
  <2>5. /\ payloadLength' = message.frames[j + 1]
        /\ frames' = Rest(message.frames, j + 1) /\ message' = message
        /\ got' = got /\ readState' = "reading" /\ payloadLength = 0
    BY <1>5, <2>1, <2>2, <2>3, <2>4, RestProperties DEF Opened, NextFrame
  <2>6. Prefix(message, j + 1) = message.frames[j + 1] + Prefix(message, j)
    BY <2>2, <2>3, <2>4, PrefixGrows
  <2>7. got' + payloadLength' = Prefix(message, j + 1)
    <3>1. got \in Nat /\ got + 0 = Prefix(message, j)
      BY <1>5, <2>1, <2>5 DEF LimitInv, Opened, NextFrame
    <3>2. message.frames[j + 1] \in Nat
      BY <2>2, <2>3, <2>4
    <3>. QED
      BY <2>5, <2>6, <3>1, <3>2
  <2>8. Opened(j + 1)'
    BY <2>5, <2>7 DEF Opened
  <2>9. j + 1 \in 1..Len(message.frames)
    BY <2>3, <2>4
  <2>. QED
    BY <2>2, <2>5, <2>8, <2>9 DEF FramesInv
<1>6. CASE ReadEnd
  BY <1>6 DEF ReadEnd, FramesInv, Opened
<1>7. CASE UNCHANGED readVars
  BY <1>7 DEF readVars, FramesInv, Opened
<1>. QED
  BY <1>1, <1>2, <1>3, <1>4, <1>5, <1>6, <1>7 DEF ReadNext

\* Connection.Read and Connection.Write: a message is read whole or not at
\* all, however it is cut up, and one that Write accepts is always read by
\* an end with the same configuration.
THEOREM WrittenIsRead == ReadSpec => []WritableIsReadable
<1>1. ReadInit => FramesInv
  BY DEF ReadInit, FramesInv
<1>2. ASSUME LimitInv, FramesInv, readState \in {"message", "tooBig"}
      PROVE  WritableIsReadable
  <2>1. PICK j \in 1..Len(message.frames) : Opened(j)
    BY <1>2 DEF FramesInv
  <2>2. message \in Messages /\ message.frames \in Seq(Nat)
    BY <1>2, MessageFrames DEF FramesInv
  <2>3. Len(message.frames) \in Nat /\ j \in 0..Len(message.frames)
    BY <2>2
  <2>4. /\ Prefix(message, j) \in Nat /\ Prefix(message, j) <= Size(message)
        /\ Size(message) = Prefix(message, Len(message.frames))
    BY <2>2, <2>3, PrefixGrows
  <2>5. Size(message) \in Nat
    <3>1. Len(message.frames) \in 0..Len(message.frames)
      BY <2>3
    <3>. QED
      BY <2>2, <2>4, <3>1, PrefixGrows
  <2>6. got + payloadLength = Prefix(message, j) /\ frames = Rest(message.frames, j)
    BY <2>1 DEF Opened
  <2>7. CASE readState = "message"
    <3>1. payloadLength = 0 /\ frames = <<>> /\ got \in Nat
      BY <1>2, <2>7 DEF FramesInv, LimitInv
    <3>2. j = Len(message.frames)
      BY <2>2, <2>3, <2>6, <3>1, RestProperties
    <3>3. got = Size(message)
      BY <2>4, <2>6, <3>1, <3>2
    <3>. QED
      BY <2>7, <3>3 DEF WritableIsReadable
  <2>8. CASE readState = "tooBig"
    <3>1. /\ got \in Nat /\ payloadLength \in Nat /\ maximum \in Nat
          /\ got = maximum + 1
      BY <1>2, <2>8 DEF FramesInv, LimitInv
    <3>2. ~(Size(message) <= maximum)
      BY <2>4, <2>5, <2>6, <3>1
    <3>. QED
      BY <2>8, <3>2 DEF WritableIsReadable, WriteAccepts
  <2>. QED
    BY <1>2, <2>7, <2>8
<1>3. LimitInv /\ FramesInv => WritableIsReadable
  BY <1>2 DEF WritableIsReadable
<1>. QED
  BY <1>1, <1>3, FramesStep, LimitAlways, PTL DEF ReadSpec
=============================================================================
