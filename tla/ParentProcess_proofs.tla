------------------------ MODULE ParentProcess_proofs ------------------------
(* The control loop, for every junction table, every duration and every    *)
(* density a child may report.                                             *)
EXTENDS ParentProcess, Junction_proofs, FiniteSetTheorems, WellFoundedInduction

(* Every set of numbers has a least: what takes the place of induction.    *)
LEMMA LeastNumber ==
  ASSUME NEW T, T \subseteq Nat, T # {}
  PROVE  \E n \in T : \A m \in T : n <= m
<1>1. PICK x \in T : \A y \in T : ~ (<<y, x>> \in OpToRel(<, Nat))
  BY NatLessThanWellFounded, WFMin, Zenon
<1>2. \A y \in T : ~ (y < x)
  BY <1>1 DEF OpToRel
<1> QED  BY <1>2

-----------------------------------------------------------------------------
(* The sum of a function over a finite set, which the library takes        *)
(* element by element, in any order.                                       *)
Element(s) == CHOOSE x \in s : TRUE
Sums(f, D) ==
  CHOOSE g : g = [s \in SUBSET D |->
    IF s = {} THEN 0 ELSE f[Element(s)] + g[s \ {Element(s)}]]

LEMMA SumIsSums ==
  ASSUME NEW f
  PROVE  SumFunction(f) = Sums(f, DOMAIN f)[DOMAIN f]
BY Zenon DEF SumFunction, SumFunctionOnSet, FoldFunctionOnSet, MapThenFoldSet, Sums, Element

Small(D, k) == {s \in SUBSET D : Cardinality(s) <= k}

(* g adds the elements of the sets it is defined on.                       *)
Adds(g, f, dom) ==
  \A s \in dom : g[s] = IF s = {} THEN 0 ELSE f[Element(s)] + g[s \ {Element(s)}]

LEMMA SubsetSize ==
  ASSUME NEW D, IsFiniteSet(D), NEW s \in SUBSET D
  PROVE  /\ IsFiniteSet(s) /\ Cardinality(s) \in Nat /\ Cardinality(s) <= Cardinality(D)
         /\ Cardinality(s) = 0 <=> s = {}
         /\ \A x \in s : Cardinality(s \ {x}) = Cardinality(s) - 1 /\ s \ {x} \in SUBSET D
         /\ s # {} => Element(s) \in s
<1>1. IsFiniteSet(s) /\ Cardinality(s) \in Nat /\ Cardinality(s) <= Cardinality(D)
  BY FS_Subset, FS_CardinalityType
<1>2. Cardinality(s) = 0 <=> s = {}
  BY <1>1, FS_EmptySet
<1>3. ASSUME NEW x \in s
      PROVE  Cardinality(s \ {x}) = Cardinality(s) - 1
  BY <1>1, <1>3, FS_RemoveElement
<1>4. s # {} => Element(s) \in s
  BY DEF Element
<1> QED  BY <1>1, <1>2, <1>3, <1>4

LEMMA SmallSums ==
  ASSUME NEW D, IsFiniteSet(D), NEW f \in [D -> Int], NEW k \in Nat
  PROVE  \E g \in [Small(D, k) -> Int] : Adds(g, f, Small(D, k))
<1> DEFINE Exists(n) == \E g \in [Small(D, n) -> Int] : Adds(g, f, Small(D, n))
           T == {n \in Nat : ~ Exists(n)}
<1>1. Exists(0)
  <2>1. \A s \in Small(D, 0) : s = {}
    BY SubsetSize DEF Small
  <2>2. [s \in Small(D, 0) |-> 0] \in [Small(D, 0) -> Int]
        /\ Adds([s \in Small(D, 0) |-> 0], f, Small(D, 0))
    BY <2>1 DEF Adds
  <2> QED  BY <2>2
<1>2. ASSUME NEW n \in Nat, Exists(n)
      PROVE  Exists(n + 1)
  <2>1. PICK g \in [Small(D, n) -> Int] : Adds(g, f, Small(D, n))
    BY <1>2
  <2> DEFINE h == [s \in Small(D, n + 1) |->
                     IF s = {} THEN 0 ELSE f[Element(s)] + g[s \ {Element(s)}]]
  <2>2. ASSUME NEW s \in Small(D, n + 1), s # {}
        PROVE  s \ {Element(s)} \in Small(D, n) /\ Element(s) \in D
    BY <2>2, SubsetSize DEF Small
  <2>3. h \in [Small(D, n + 1) -> Int]
    BY <2>1, <2>2
  <2>4. \A s \in Small(D, n) : s \in Small(D, n + 1) /\ h[s] = g[s]
    <3>1. ASSUME NEW s \in Small(D, n) PROVE s \in Small(D, n + 1)
      BY <3>1, SubsetSize DEF Small
    <3> QED  BY <2>1, <3>1 DEF Adds
  <2>5. Adds(h, f, Small(D, n + 1))
    <3>1. ASSUME NEW s \in Small(D, n + 1)
          PROVE  h[s] = IF s = {} THEN 0 ELSE f[Element(s)] + h[s \ {Element(s)}]
      BY <2>2, <2>4, <3>1
    <3> QED  BY <3>1 DEF Adds
  <2> QED  BY <2>3, <2>5
<1> HIDE DEF Exists
<1>3. CASE Exists(k)
  BY <1>3 DEF Exists
<1>4. CASE ~ Exists(k)
  <2>1. T \subseteq Nat /\ T # {}
    BY <1>4
  <2> HIDE DEF T
  <2>2. PICK n \in T : \A m \in T : n <= m
    BY <2>1, LeastNumber
  <2>3. n # 0 /\ n \in Nat /\ ~ Exists(n)
    BY <1>1, <2>2 DEF T
  <2>4. n - 1 \in Nat /\ n - 1 \notin T
    BY <2>2, <2>3
  <2>5. Exists(n - 1)
    BY <2>4 DEF T
  <2>6. Exists((n - 1) + 1)
    BY <1>2, <2>4, <2>5
  <2>7. (n - 1) + 1 = n
    BY <2>3
  <2> QED  BY <2>3, <2>6, <2>7
<1> QED  BY <1>3, <1>4

LEMMA SumsAdd ==
  ASSUME NEW D, IsFiniteSet(D), NEW f \in [D -> Int]
  PROVE  Sums(f, D) \in [SUBSET D -> Int] /\ Adds(Sums(f, D), f, SUBSET D)
<1>1. Small(D, Cardinality(D)) = SUBSET D /\ Cardinality(D) \in Nat
  BY SubsetSize, FS_CardinalityType DEF Small
<1>2. PICK g \in [SUBSET D -> Int] : Adds(g, f, SUBSET D)
  <2>1. \E g \in [Small(D, Cardinality(D)) -> Int] : Adds(g, f, Small(D, Cardinality(D)))
    BY <1>1, SmallSums
  <2> QED  BY <1>1, <2>1
<1>3. g = [s \in SUBSET D |-> IF s = {} THEN 0 ELSE f[Element(s)] + g[s \ {Element(s)}]]
  BY <1>2 DEF Adds
<1> DEFINE G == Sums(f, D)
<1>4. G = [s \in SUBSET D |-> IF s = {} THEN 0 ELSE f[Element(s)] + G[s \ {Element(s)}]]
  BY <1>3, Zenon DEF Sums
<1> HIDE DEF G
<1>5. Adds(G, f, SUBSET D) /\ DOMAIN G = SUBSET D
  BY <1>4 DEF Adds
<1> DEFINE T == {n \in Nat : \E s \in SUBSET D : Cardinality(s) = n /\ G[s] \notin Int}
<1>6. CASE T = {}
  <2>1. \A s \in SUBSET D : G[s] \in Int
    BY <1>6, SubsetSize
  <2>2. G = [s \in SUBSET D |-> G[s]]
    BY <1>4, Zenon
  <2>3. G \in [SUBSET D -> Int]
    BY <2>1, <2>2
  <2> QED  BY <1>5, <2>3 DEF G
<1>7. CASE T # {}
  <2>1. PICK n \in T : \A m \in T : n <= m
    BY <1>7, LeastNumber
  <2>2. PICK s \in SUBSET D : Cardinality(s) = n /\ G[s] \notin Int
    BY <2>1
  <2>3. s # {}
    <3>1. {} \in SUBSET D
      OBVIOUS
    <3>2. G[{}] = 0
      BY <1>5, <3>1 DEF Adds
    <3>3. 0 \in Int
      OBVIOUS
    <3> QED  BY <2>2, <3>2, <3>3, Zenon
  <2>4. /\ s \ {Element(s)} \in SUBSET D /\ Cardinality(s \ {Element(s)}) = n - 1
        /\ n - 1 \in Nat /\ Element(s) \in D
    BY <2>2, <2>3, SubsetSize
  <2>5. n - 1 \notin T
    BY <2>1, <2>4
  <2>6. G[s \ {Element(s)}] \in Int
    BY <2>4, <2>5
  <2>7. f[Element(s)] \in Int
    BY <2>4
  <2> QED  BY <1>5, <2>2, <2>3, <2>6, <2>7 DEF Adds
<1> QED  BY <1>6, <1>7

(* Any element may be taken out first.                                     *)
LEMMA SumsWithout ==
  ASSUME NEW D, IsFiniteSet(D), NEW f \in [D -> Int], NEW r \in SUBSET D, NEW y \in r
  PROVE  Sums(f, D)[r] = f[y] + Sums(f, D)[r \ {y}]
<1> DEFINE G == Sums(f, D)
           Apart(s, x) == G[s] = f[x] + G[s \ {x}]
           T == {n \in Nat : \E s \in SUBSET D : Cardinality(s) = n /\ \E x \in s : ~ Apart(s, x)}
<1>1. G \in [SUBSET D -> Int] /\ Adds(G, f, SUBSET D)
  BY SumsAdd
<1> HIDE DEF G
<1>2. ASSUME NEW s \in SUBSET D, s # {}
      PROVE  Element(s) \in s /\ Apart(s, Element(s))
  BY <1>1, <1>2, SubsetSize DEF Adds
<1>3. CASE T = {}
  <2>1. Cardinality(r) \in Nat
    BY SubsetSize
  <2>2. Apart(r, y)
    BY <1>3, <2>1
  <2> QED  BY <2>2 DEF G
<1>4. CASE T # {}
  <2>1. PICK n \in T : \A m \in T : n <= m
    BY <1>4, LeastNumber
  <2>2. PICK s \in SUBSET D : Cardinality(s) = n /\ \E x \in s : ~ Apart(s, x)
    BY <2>1
  <2>3. PICK x \in s : ~ Apart(s, x)
    BY <2>2
  <2> DEFINE z == Element(s)
  <2>4. z \in s /\ Apart(s, z)
    BY <1>2, <2>3
  <2> HIDE DEF z
  <2>5. z # x
    BY <2>3, <2>4
  <2>6. /\ Cardinality(s \ {x}) = n - 1 /\ s \ {x} \in SUBSET D /\ z \in s \ {x}
        /\ Cardinality(s \ {z}) = n - 1 /\ s \ {z} \in SUBSET D /\ x \in s \ {z}
        /\ n - 1 \in Nat
    BY <2>2, <2>3, <2>4, <2>5, SubsetSize
  <2>7. n - 1 \notin T
    BY <2>1, <2>6
  <2>8. Apart(s \ {x}, z) /\ Apart(s \ {z}, x)
    BY <2>6, <2>7
  <2>9. (s \ {x}) \ {z} = (s \ {z}) \ {x} /\ (s \ {x}) \ {z} \in SUBSET D
    OBVIOUS
  <2> DEFINE rest == G[(s \ {x}) \ {z}]
  <2>10. rest \in Int /\ f[x] \in Int /\ f[z] \in Int
    BY <1>1, <2>3, <2>4, <2>9
  <2>11. G[s \ {x}] = f[z] + rest /\ G[s \ {z}] = f[x] + rest /\ G[s] = f[z] + G[s \ {z}]
    BY <2>4, <2>8, <2>9
  <2>12. Apart(s, x)
    BY <2>10, <2>11
  <2> QED  BY <2>3, <2>12
<1> QED  BY <1>3, <1>4

(* A sum over the numbers below n grows number by number: P[k] is the sum  *)
(* of those below k.                                                       *)
Partial(P, f, n) ==
  /\ P \in [0 .. n -> Int]
  /\ P[0] = 0
  /\ \A k \in 0 .. n - 1 : P[k + 1] = P[k] + f[k]

LEMMA PartialSums ==
  ASSUME NEW n \in Nat, NEW f \in [0 .. n - 1 -> Int]
  PROVE  \E P : Partial(P, f, n) /\ P[n] = SumFunction(f)
<1> DEFINE D == 0 .. n - 1
           G == Sums(f, D)
           P == [k \in 0 .. n |-> G[0 .. k - 1]]
<1>1. IsFiniteSet(D) /\ DOMAIN f = D /\ f \in [D -> Int]
  BY FS_Interval
<1>2. SumFunction(f) = G[D]
  BY <1>1, SumIsSums
<1>3. G \in [SUBSET D -> Int] /\ G[{}] = 0
  BY <1>1, SumsAdd DEF Adds
<1>4. ASSUME NEW k \in 0 .. n - 1
      PROVE  G[0 .. k] = f[k] + G[0 .. k - 1]
  <2>1. 0 .. k \in SUBSET D /\ k \in 0 .. k /\ (0 .. k) \ {k} = 0 .. k - 1
    BY <1>4
  <2>2. \A r \in SUBSET D : \A y \in r : G[r] = f[y] + G[r \ {y}]
    BY <1>1, SumsWithout
  <2> HIDE DEF G
  <2> QED  BY <2>1, <2>2
<1>5. \A k \in 0 .. n : 0 .. k - 1 \in SUBSET D
  OBVIOUS
<1> HIDE DEF G
<1>6. P \in [0 .. n -> Int]
  BY <1>3, <1>5
<1>7. P[0] = 0 /\ P[n] = SumFunction(f)
  <2>1. 0 .. 0 - 1 = {}
    OBVIOUS
  <2> QED  BY <1>2, <1>3, <2>1
<1>8. ASSUME NEW k \in 0 .. n - 1
      PROVE  P[k + 1] = P[k] + f[k]
  <2>1. (k + 1) - 1 = k /\ k + 1 \in 0 .. n /\ k \in 0 .. n
    OBVIOUS
  <2>2. P[k + 1] = G[0 .. k] /\ P[k] = G[0 .. k - 1]
    BY <2>1
  <2>3. G[0 .. k - 1] \in Int /\ f[k] \in Int
    BY <1>1, <1>3, <1>5, <2>1
  <2> QED  BY <1>4, <2>2, <2>3
<1>9. Partial(P, f, n)
  BY <1>6, <1>7, <1>8 DEF Partial
<1> QED  BY <1>7, <1>9

-----------------------------------------------------------------------------
(* What holds of 0 and is handed on from each number to the next holds up  *)
(* to n.                                                                   *)
LEMMA UpTo ==
  ASSUME NEW n \in Nat, NEW S, 0 \in S, \A k \in 0 .. n - 1 : k \in S => k + 1 \in S
  PROVE  \A k \in 0 .. n : k \in S
<1> DEFINE T == {k \in 0 .. n : k \notin S}
<1>1. CASE T = {}
  BY <1>1
<1>2. CASE T # {}
  <2>1. PICK m \in T : \A k \in T : m <= k
    <3>1. T \subseteq Nat
      OBVIOUS
    <3> HIDE DEF T
    <3> QED  BY <1>2, <3>1, LeastNumber
  <2>2. m # 0 /\ m - 1 \in 0 .. n - 1 /\ (m - 1) + 1 = m
    BY <2>1
  <2>3. m - 1 \in S
    BY <2>1, <2>2
  <2> QED  BY <2>1, <2>2, <2>3
<1> QED  BY <1>1, <1>2

(* No part exceeds the whole.                                              *)
LEMMA PartsOfSum ==
  ASSUME NEW n \in Nat, NEW a \in [0 .. n - 1 -> Nat]
  PROVE  SumFunction(a) \in Nat /\ \A j \in 0 .. n - 1 : a[j] <= SumFunction(a)
<1>1. PICK P : Partial(P, a, n) /\ P[n] = SumFunction(a)
  <2>1. a \in [0 .. n - 1 -> Int]
    OBVIOUS
  <2> QED  BY <2>1, PartialSums
<1> DEFINE S == {k \in 0 .. n : P[k] \in Nat /\ \A j \in 0 .. k - 1 : a[j] <= P[k]}
<1>2. 0 \in S
  BY <1>1 DEF Partial
<1>3. ASSUME NEW k \in 0 .. n - 1, k \in S
      PROVE  k + 1 \in S
  <2>1. P[k + 1] = P[k] + a[k] /\ P[k] \in Nat /\ a[k] \in Nat
    BY <1>1, <1>3 DEF Partial
  <2>2. ASSUME NEW j \in 0 .. (k + 1) - 1
        PROVE  a[j] <= P[k + 1]
    <3>1. CASE j = k
      BY <2>1, <3>1
    <3>2. CASE j # k
      <4>1. j \in 0 .. k - 1 /\ a[j] \in Nat
        BY <3>2
      <4> QED  BY <1>3, <2>1, <4>1
    <3> QED  BY <3>1, <3>2
  <2> QED  BY <2>1, <2>2
<1> HIDE DEF S
<1>4. n \in S
  <2>1. \A k \in 0 .. n : k \in S
    BY <1>2, <1>3, UpTo, Zenon
  <2> QED  BY <2>1
<1> QED  BY <1>1, <1>4 DEF S

LEMMA Quotient ==
  ASSUME NEW x \in Nat, NEW t \in Nat, t > 0
  PROVE  /\ x \div t \in Nat
         /\ t * (x \div t) <= x
         /\ x <= t * (x \div t) + t - 1
OBVIOUS

LEMMA LossesAdd ==
  \A u, v, w, x, y, z \in Int :
    u <= w /\ w <= u + y /\ v <= x /\ x <= v + z => u + v <= w + x /\ w + x <= u + v + (y + z)
OBVIOUS

LEMMA Distributes == \A a, b, c \in Int : a * b \in Int /\ a * (b + c) = a * b + a * c
OBVIOUS

(* A sum is that of all but the last, and the last.                        *)
LEMMA LastOfSum ==
  ASSUME NEW n \in Nat, NEW f \in [0 .. n -> Int]
  PROVE  /\ SumFunction([k \in 0 .. n - 1 |-> f[k]]) \in Int
         /\ SumFunction(f) = SumFunction([k \in 0 .. n - 1 |-> f[k]]) + f[n]
<1> DEFINE g == [k \in 0 .. n - 1 |-> f[k]]
<1>1. PICK P : Partial(P, f, n + 1) /\ P[n + 1] = SumFunction(f)
  <2>1. n + 1 \in Nat /\ f \in [0 .. (n + 1) - 1 -> Int]
    OBVIOUS
  <2> QED  BY <2>1, PartialSums
<1>2. g \in [0 .. n - 1 -> Int] /\ \A k \in 0 .. n - 1 : g[k] = f[k]
  OBVIOUS
<1> HIDE DEF g
<1>3. PICK Q : Partial(Q, g, n) /\ Q[n] = SumFunction(g)
  BY <1>2, PartialSums
<1> DEFINE S == {k \in 0 .. n : P[k] = Q[k]}
<1>4. 0 \in S
  BY <1>1, <1>3 DEF Partial
<1>5. ASSUME NEW k \in 0 .. n - 1, k \in S
      PROVE  k + 1 \in S
  BY <1>1, <1>2, <1>3, <1>5 DEF Partial
<1> HIDE DEF S
<1>6. n \in S
  <2>1. \A k \in 0 .. n : k \in S
    BY <1>4, <1>5, UpTo, Zenon
  <2> QED  BY <2>1
<1>7. P[n + 1] = P[n] + f[n] /\ P[n] = Q[n] /\ Q[n] \in Int
  BY <1>1, <1>3, <1>6 DEF Partial, S
<1> QED  BY <1>1, <1>3, <1>7 DEF g

LEMMA EmptySum == \A f : SumFunction([k \in 0 .. 0 - 1 |-> f[k]]) = 0
<1> TAKE f
<1> DEFINE g == [k \in 0 .. 0 - 1 |-> f[k]]
<1>1. g \in [0 .. 0 - 1 -> Int]
  OBVIOUS
<1> HIDE DEF g
<1>2. PICK P : Partial(P, g, 0) /\ P[0] = SumFunction(g)
  BY <1>1, PartialSums
<1> QED  BY <1>2 DEF Partial, g

(* Whole portions of F, in the ratio of the a[k] to their sum, cut off: no *)
(* more than one unit is lost per portion, and not all of them lose one.   *)
LEMMA Portions ==
  ASSUME NEW n \in Nat \ {0}, NEW F \in Nat, NEW a \in [0 .. n - 1 -> Nat],
         SumFunction(a) > 0
  PROVE  SumFunction([k \in 0 .. n - 1 |-> (a[k] * F) \div SumFunction(a)]) \in F - n + 1 .. F
<1> DEFINE t == SumFunction(a)
           q == [k \in 0 .. n - 1 |-> (a[k] * F) \div t]
<1>0. PICK A : Partial(A, a, n) /\ A[n] = t
  <2>1. a \in [0 .. n - 1 -> Int]
    OBVIOUS
  <2> QED  BY <2>1, PartialSums
<1>1. t \in Nat \ {0}
  BY PartsOfSum
<1> HIDE DEF t
<1>2. ASSUME NEW k \in 0 .. n - 1
      PROVE  /\ q[k] \in Nat /\ a[k] \in Nat /\ F * a[k] = a[k] * F
             /\ t * q[k] <= F * a[k] /\ F * a[k] <= t * q[k] + t - 1
  <2>1. a[k] \in Nat /\ a[k] * F \in Nat /\ F * a[k] = a[k] * F
    OBVIOUS
  <2>2. q[k] = (a[k] * F) \div t
    OBVIOUS
  <2> DEFINE x == a[k] * F
  <2>3. x \in Nat /\ q[k] = x \div t /\ F * a[k] = x
    BY <2>1, <2>2
  <2> HIDE DEF q, x
  <2>4. x \div t \in Nat /\ t * (x \div t) <= x /\ x <= t * (x \div t) + t - 1
    <3>1. x \in Nat /\ t \in Nat /\ t > 0
      BY <1>1, <2>3
    <3> QED  BY <3>1, Quotient, Zenon
  <2> QED  BY <2>1, <2>3, <2>4 DEF x
<1> HIDE DEF q
<1>3. PICK Q : Partial(Q, q, n) /\ Q[n] = SumFunction(q)
  <2>1. q \in [0 .. n - 1 -> Int]
    BY <1>2 DEF q
  <2> QED  BY <2>1, PartialSums
<1> DEFINE S == {k \in 0 .. n : /\ t * Q[k] <= F * A[k]
                                /\ F * A[k] <= t * Q[k] + k * (t - 1)}
<1>4. 0 \in S
  <2>1. A[0] = 0 /\ Q[0] = 0
    BY <1>0, <1>3 DEF Partial
  <2> QED  BY <1>1, <2>1
<1>5. ASSUME NEW k \in 0 .. n - 1, k \in S
      PROVE  k + 1 \in S
  <2>1. /\ A[k + 1] = A[k] + a[k] /\ A[k] \in Int /\ k + 1 \in 0 .. n
        /\ Q[k + 1] = Q[k] + q[k] /\ Q[k] \in Int
    BY <1>0, <1>3 DEF Partial
  <2>2. /\ t * (Q[k] + q[k]) = t * Q[k] + t * q[k] /\ t * Q[k] \in Int /\ t * q[k] \in Int
        /\ F * (A[k] + a[k]) = F * A[k] + F * a[k] /\ F * A[k] \in Int /\ F * a[k] \in Int
    <3>1. {t, F, Q[k], q[k], A[k], a[k]} \subseteq Int
      BY <1>1, <1>2, <2>1
    <3> QED  BY <3>1, Distributes
  <2>3. (k + 1) * (t - 1) = k * (t - 1) + (t - 1) /\ k * (t - 1) \in Int
    BY <1>1
  <2>4. t * Q[k] <= F * A[k] /\ F * A[k] <= t * Q[k] + k * (t - 1)
    BY <1>5
  <2>5. /\ t * (Q[k] + q[k]) <= F * (A[k] + a[k])
        /\ F * (A[k] + a[k]) <= t * (Q[k] + q[k]) + (k + 1) * (t - 1)
    <3>1. t * q[k] <= F * a[k] /\ F * a[k] <= t * q[k] + (t - 1) /\ t - 1 \in Int
      BY <1>1, <1>2, <2>2
    <3>2. /\ t * Q[k] + t * q[k] <= F * A[k] + F * a[k]
          /\ F * A[k] + F * a[k] <= t * Q[k] + t * q[k] + (k * (t - 1) + (t - 1))
      BY <2>2, <2>3, <2>4, <3>1, LossesAdd
    <3> QED  BY <2>2, <2>3, <3>2, Zenon
  <2> QED  BY <2>1, <2>5
<1> HIDE DEF S
<1>6. n \in S
  <2>1. \A k \in 0 .. n : k \in S
    BY <1>4, <1>5, UpTo, Zenon
  <2> QED  BY <2>1
<1>7. t * Q[n] <= F * t /\ F * t <= t * Q[n] + n * (t - 1) /\ Q[n] \in Int
  BY <1>0, <1>3, <1>6 DEF S, Partial
<1>8. Q[n] <= F
  <2>1. CASE Q[n] >= F + 1
    <3>1. t * Q[n] >= t * (F + 1)
      BY <1>1, <1>7, <2>1
    <3>2. t * (F + 1) = F * t + t
      BY <1>1
    <3> QED  BY <1>1, <1>7, <3>1, <3>2
  <2> QED  BY <1>7, <2>1
<1>9. Q[n] >= F - n + 1
  <2>1. CASE Q[n] <= F - n
    <3>1. t * Q[n] <= t * (F - n)
      BY <1>1, <1>7, <2>1
    <3>2. t * (F - n) = F * t - n * t /\ n * (t - 1) = n * t - n
      BY <1>1
    <3>3. F * t \in Int /\ n * t \in Int /\ t * Q[n] \in Int
      BY <1>1, <1>7
    <3> QED  BY <1>7, <3>1, <3>2, <3>3
  <2> QED  BY <1>7, <2>1
<1>10. SumFunction(q) \in F - n + 1 .. F
  BY <1>3, <1>7, <1>8, <1>9
<1> QED  BY <1>10 DEF q, t

-----------------------------------------------------------------------------
(* Arithmetic used by the loop.                                            *)
LEMMA QuotientType == \A a, b \in Nat : b > 0 => a \div b \in Nat
OBVIOUS

LEMMA ProductType == \A a, b \in Nat : a * b \in Nat
OBVIOUS

LEMMA ChildType ==
  /\ NumPhases \in Nat \ {0} /\ NumChildren \in Nat \ {0}
  /\ Vehicle \subseteq Child /\ Pedestrian \subseteq Child
  /\ Child = Vehicle \cup Pedestrian
BY JunctionAssumption DEF NumChildren, Vehicle, Pedestrian, Child

(* What the assumptions say of the full cycle: it takes some time, and at  *)
(* least as much as any phase of it.                                       *)
LEMMA CycleType ==
  /\ FullCycleDurationMs \in Nat \ {0}
  /\ \A p \in Phase : OriginalDurations[p] <= FullCycleDurationMs
<1>1. NumPhases \in Nat /\ OriginalDurations \in [0 .. NumPhases - 1 -> Nat]
  BY JunctionAssumption, DurationAssumption DEF Phase
<1>2. /\ FullCycleDurationMs \in Nat
      /\ \A p \in Phase : OriginalDurations[p] <= FullCycleDurationMs
  BY <1>1, PartsOfSum DEF FullCycleDurationMs, Phase
<1>3. PICK p \in Phase : OriginalDurations[p] > 0
  BY DurationAssumption
<1> QED  BY <1>2, <1>3, DurationAssumption

LEMMA PhaseLoopType ==
  /\ 0 \in Phase /\ Phase \subseteq Int
  /\ \A p \in Phase : p + 1 < NumPhases => p + 1 \in Phase
BY JunctionAssumption DEF Phase

LEMMA PrevPhaseType == \A p \in Phase : PrevPhase(p) \in Phase
BY JunctionAssumption DEF PrevPhase, Phase

(* Channels are numbered from zero.                                        *)
LEMMA OnChannelsType ==
  /\ \A p \in Phase : PhaseChannels(p) \in SUBSET Nat
  /\ \A p \in Phase : TransitionChannels(p) \in SUBSET Nat
<1>1. ASSUME NEW row, NEW wide, IsRow(row, wide)
      PROVE  OnChannels(row, wide) \subseteq Nat
  <2>1. \A i \in Child : FirstChannel(i) \in Nat
    BY JunctionAssumption DEF FirstChannel, Child, NumChildren
  <2>2. \A i \in Child : row[i] \in wide \cup PedestrianTypes => LampOffset(row[i]) \in Nat
    BY <1>1 DEF IsRow, VehicleTypes, PedestrianTypes, LampOffset
  <2> QED  BY <1>1, <2>1, <2>2, RelayIndexIsFirstChannel DEF OnChannels
<1>2. \A p \in Phase : IsRow(Phases[p], VehicleTypes)
  BY JunctionAssumption DEF WellFormed, IsRow
<1>3. \A p \in Phase :
        IsRow(DeriveTransitionPhase(Phases[p], Phases[NextPhase(p)]),
              VehicleTypes \cup {"YELLOW_PHASE"})
  BY ChildType, JunctionAssumption, NextPhaseType
     DEF WellFormed, IsRow, DeriveTransitionPhase, VehicleTypes, PedestrianTypes
<1> QED  BY <1>1, <1>2, <1>3 DEF PhaseChannels, TransitionChannels

(* What receivePrevDataFromChildren stores is a density.                   *)
LEMMA StoredDensityType ==
  ASSUME NEW type, NEW d \in Nat
  PROVE  Clamp(ProcessDensityByPhaseType(type, d)) \in Nat
<1>1. ProcessDensityByPhaseType(type, d) \in Int
  <2>1. d * DensityMultiplierGreenPhase \in Int
    BY DensityAssumption
  <2>2. (DensityMax - d) * DensityMultiplierRedPhase \in Int
    BY DensityAssumption
  <2> QED  BY <2>1, <2>2 DEF ProcessDensityByPhaseType
<1> QED  BY <1>1, DensityAssumption DEF Clamp

LEMMA DefaultDensityType == \A p \in Phase : DefaultDensity(p) \in Nat
<1> TAKE p \in Phase
<1>1. OriginalDurations[p] * DensityUnit \in Nat
  BY DurationAssumption, CycleType, DensityAssumption
<1> QED  BY <1>1, QuotientType, DurationAssumption, CycleType DEF DefaultDensity

(* Share and what is made of it are durations.                             *)
LEMMA ShareType ==
  ASSUME UpdateTypeOK, NEW p \in Phase
  PROVE  Share(p) \in Nat /\ Allocated(p) \in Nat
<1>1. phaseTotals[p] * FullCycleDurationMs \in Nat
  <2>1. phaseTotals[p] \in Nat /\ FullCycleDurationMs \in Nat
    BY DurationAssumption, CycleType DEF UpdateTypeOK
  <2> QED  BY <2>1, ProductType
<1>2. CASE totalDensity = 0
  BY <1>2, DurationAssumption, CycleType DEF Share, Allocated
<1>3. CASE totalDensity # 0
  <2>1. totalDensity \in Nat /\ totalDensity > 0
    BY <1>3 DEF UpdateTypeOK
  <2>2. (phaseTotals[p] * FullCycleDurationMs) \div totalDensity \in Nat
    BY <1>1, <2>1, QuotientType
  <2>3. Share(p) \in Nat
    BY <1>3, <2>2 DEF Share
  <2> QED  BY <2>3, DurationAssumption, CycleType DEF Allocated
<1> QED  BY <1>2, <1>3

-----------------------------------------------------------------------------
(* Every variable keeps its type, whatever the table, the durations and    *)
(* the replies.                                                            *)
THEOREM TypeCorrect == Spec => []TypeOK
<1>1. Init => TypeOK
  BY JunctionAssumption, DurationAssumption, CycleType, ChildType
     DEF Init, TypeOK, LoopTypeOK, DensityTypeOK, UpdateTypeOK, Zero, Phase, Child
<1>2. TypeOK /\ [Next]_vars => TypeOK'
  <2> SUFFICES ASSUME LoopTypeOK, DensityTypeOK, UpdateTypeOK, [Next]_vars
               PROVE  LoopTypeOK' /\ DensityTypeOK' /\ UpdateTypeOK'
    BY DEF TypeOK
  <2>1. CASE ExecutePhase
    <3>1. LoopTypeOK'
      BY <2>1, OnChannelsType, ChildType DEF LoopTypeOK, ExecutePhase
    <3>2. DensityTypeOK'
      BY <2>1 DEF DensityTypeOK, ExecutePhase
    <3>3. UpdateTypeOK'
      BY <2>1 DEF UpdateTypeOK, ExecutePhase, updateVars
    <3> QED  BY <3>1, <3>2, <3>3
  <2>2. ASSUME NEW density \in RawDensity, ReceiveDensity(density)
        PROVE  LoopTypeOK' /\ DensityTypeOK' /\ UpdateTypeOK'
    <3>1. LoopTypeOK'
      <4>1. phaseDurations[phaseIndex] \div 1000 \in Nat
        BY DEF LoopTypeOK, UpdateTypeOK
      <4> QED
        BY <2>2, <4>1, ChildType DEF LoopTypeOK, ReceiveDensity, StartTimer
    <3>2. DensityTypeOK'
      <4>1. child \in Child /\ PrevPhase(phaseIndex) \in Phase
        BY <2>2, ChildType, PrevPhaseType DEF LoopTypeOK, ReceiveDensity, Child
      <4>2. Clamp(ProcessDensityByPhaseType(
                    Phases[PrevPhase(phaseIndex)][child], density)) \in Nat
        BY DensityAssumption, StoredDensityType
      <4> QED  BY <2>2, <4>1, <4>2 DEF DensityTypeOK, ReceiveDensity
    <3>3. UpdateTypeOK'
      BY <2>2 DEF UpdateTypeOK, ReceiveDensity, updateVars
    <3> QED  BY <3>1, <3>2, <3>3
  <2>3. CASE ReceiveFails
    <3>1. LoopTypeOK'
      <4>1. phaseDurations[phaseIndex] \div 1000 \in Nat
        BY DEF LoopTypeOK, UpdateTypeOK
      <4> QED  BY <2>3, <4>1, ChildType DEF LoopTypeOK, ReceiveFails, StartTimer
    <3>2. DensityTypeOK'
      BY <2>3, DefaultDensityType DEF DensityTypeOK, ReceiveFails
    <3>3. UpdateTypeOK'
      BY <2>3 DEF UpdateTypeOK, ReceiveFails, updateVars
    <3> QED  BY <3>1, <3>2, <3>3
  <2>4. CASE TimerTick
    <3>1. LoopTypeOK'
      BY <2>4, OnChannelsType DEF LoopTypeOK, TimerTick
    <3>2. DensityTypeOK'
      BY <2>4 DEF DensityTypeOK, TimerTick
    <3>3. UpdateTypeOK'
      BY <2>4 DEF UpdateTypeOK, TimerTick, updateVars
    <3> QED  BY <3>1, <3>2, <3>3
  <2>5. CASE TransitionToNextPhase
    <3>1. LoopTypeOK'
      BY <2>5, NextPhaseType DEF LoopTypeOK, TransitionToNextPhase, GoToPhase
    <3>2. DensityTypeOK'
      BY <2>5 DEF DensityTypeOK, TransitionToNextPhase, GoToPhase
    <3>3. UpdateTypeOK'
      BY <2>5 DEF UpdateTypeOK, TransitionToNextPhase, GoToPhase, updateVars
    <3> QED  BY <3>1, <3>2, <3>3
  <2>6. CASE AddDensity
    <3>1. LoopTypeOK'
      BY <2>6, ChildType DEF LoopTypeOK, AddDensity, loopVars
    <3>2. DensityTypeOK'
      BY <2>6 DEF DensityTypeOK, AddDensity
    <3>3. UpdateTypeOK'
      <4>1. phase \in Phase /\ child \in Child
        BY <2>6, ChildType DEF LoopTypeOK, UpdateTypeOK, AddDensity, Child
      <4>2. phaseDensities[phase][child] \in Nat
        BY <4>1 DEF DensityTypeOK
      <4> QED  BY <2>6, <4>2 DEF UpdateTypeOK, AddDensity
    <3> QED  BY <3>1, <3>2, <3>3
  <2>7. CASE ClosePhase
    <3>1. LoopTypeOK'
      BY <2>7, ChildType DEF LoopTypeOK, ClosePhase, CloseLane, loopVars
    <3>2. DensityTypeOK'
      BY <2>7 DEF DensityTypeOK, ClosePhase, CloseLane
    <3>3. UpdateTypeOK'
      <4>1. phase' \in Phase
        BY <2>7, PhaseLoopType DEF UpdateTypeOK, ClosePhase, CloseLane
      <4>2. totalDensity' \in Nat
        BY <2>7 DEF UpdateTypeOK, ClosePhase, CloseLane
      <4> QED  BY <2>7, <4>1, <4>2 DEF UpdateTypeOK, ClosePhase, CloseLane
    <3> QED  BY <3>1, <3>2, <3>3
  <2>8. CASE AssignDuration
    <3>1. LoopTypeOK'
      BY <2>8 DEF LoopTypeOK, AssignDuration, AssignWithin, ReturnFromUpdate, loopVars
    <3>2. DensityTypeOK'
      BY <2>8 DEF DensityTypeOK, AssignDuration, AssignWithin
    <3>3. phaseDurations' \in [Phase -> Nat]
      <4>1. Allocated(phase) \in Nat
        BY ShareType DEF UpdateTypeOK
      <4> QED
        BY <2>8, <4>1, DurationAssumption, CycleType DEF UpdateTypeOK, AssignDuration, AssignWithin
    <3>4. UpdateTypeOK'
      <4>1. phase' \in Phase
        BY <2>8, PhaseLoopType
           DEF UpdateTypeOK, AssignDuration, AssignWithin, ReturnFromUpdate
      <4>2. CASE phase + 1 < NumPhases
        BY <2>8, <3>3, <4>1, <4>2 DEF UpdateTypeOK, AssignDuration, AssignWithin
      <4>3. CASE ~ (phase + 1 < NumPhases)
        BY <2>8, <3>3, <4>1, <4>3
           DEF UpdateTypeOK, AssignDuration, AssignWithin, ReturnFromUpdate, Zero
      <4> QED  BY <4>2, <4>3
    <3> QED  BY <3>1, <3>2, <3>4
  <2>9. CASE RestoreDurations
    <3>1. LoopTypeOK'
      BY <2>9 DEF LoopTypeOK, RestoreDurations, ReturnFromUpdate, loopVars
    <3>2. DensityTypeOK'
      BY <2>9 DEF DensityTypeOK, RestoreDurations
    <3>3. UpdateTypeOK'
      BY <2>9, DurationAssumption, CycleType, ChildType
         DEF UpdateTypeOK, RestoreDurations, ReturnFromUpdate, Zero, Phase
    <3> QED  BY <3>1, <3>2, <3>3
  <2>10. CASE UNCHANGED vars
    <3>1. LoopTypeOK'
      BY <2>10 DEF LoopTypeOK, vars, loopVars
    <3>2. DensityTypeOK'
      BY <2>10 DEF DensityTypeOK, vars
    <3>3. UpdateTypeOK'
      BY <2>10 DEF UpdateTypeOK, vars, updateVars
    <3> QED  BY <3>1, <3>2, <3>3
  <2> QED
    BY <2>1, <2>2, <2>3, <2>4, <2>5, <2>6, <2>7, <2>8, <2>9, <2>10 DEF Next
<1> QED  BY <1>1, <1>2, PTL DEF Spec

-----------------------------------------------------------------------------
(* The board never shows anything but a row or the transition row of the   *)
(* controller's current phase, or nothing yet.                             *)
BoardShowsARow ==
  onChannels \in {{}, PhaseChannels(currentCycle), TransitionChannels(currentCycle)}

LEMMA BoardInvariant == Spec => []BoardShowsARow
<1>1. Init => BoardShowsARow
  BY DEF Init, BoardShowsARow
<1>2. BoardShowsARow /\ [Next]_vars => BoardShowsARow'
  <2> SUFFICES ASSUME BoardShowsARow, [Next]_vars PROVE BoardShowsARow'
    OBVIOUS
  <2>1. CASE ExecutePhase
    BY <2>1 DEF BoardShowsARow, ExecutePhase
  <2>2. CASE TimerTick
    BY <2>2 DEF BoardShowsARow, TimerTick
  <2>3. CASE UNCHANGED <<onChannels, currentCycle>>
    BY <2>3 DEF BoardShowsARow
  <2> QED
    BY <2>1, <2>2, <2>3
       DEF Next, vars, loopVars, ReceiveDensity, ReceiveFails, TransitionToNextPhase,
           GoToPhase, AddDensity, ClosePhase, CloseLane, AssignDuration, AssignWithin,
           RestoreDurations
<1> QED  BY <1>1, <1>2, PTL DEF Spec

(* A column that is not green shows red, and red only, in its row and in   *)
(* the transition row.                                                     *)
LEMMA NotGreenShowsRed ==
  ASSUME NEW p \in Phase, NEW i \in Child, ~ IsGreen(Phases[p][i])
  PROVE  /\ LitColours(PhaseChannels(p), i) = {"red"}
         /\ LitColours(TransitionChannels(p), i) = {"red"}
<1>1. Phases[p][i] \in {"RED_PHASE", "RED_PED"}
  BY ChildType, JunctionAssumption DEF WellFormed, VehicleTypes, PedestrianTypes, IsGreen
<1>2. DeriveTransitionPhase(Phases[p], Phases[NextPhase(p)])[i] = Phases[p][i]
  BY <1>1 DEF DeriveTransitionPhase
<1> QED  BY <1>1, <1>2, PhaseColours, TransitionColours DEF ColourOf

(* Two approaches that no phase serves together are never let through      *)
(* together, whatever the durations: not even when the yellow is skipped.  *)
THEOREM ConflictFree == Spec => []NoConflict
<1>1. TypeOK /\ BoardShowsARow => NoConflict
  <2> SUFFICES ASSUME TypeOK, BoardShowsARow,
                      NEW i \in Child, NEW j \in Child, Conflicting(i, j)
               PROVE  heads[i] \subseteq {"red"} \/ heads[j] \subseteq {"red"}
    BY DEF NoConflict
  <2>1. currentCycle \in Phase
    BY DEF TypeOK, LoopTypeOK
  <2>2. heads[i] = LitColours(onChannels, i) /\ heads[j] = LitColours(onChannels, j)
    BY DEF heads
  <2>3. CASE onChannels = {}
    BY <2>2, <2>3 DEF LitColours
  <2>4. CASE onChannels # {}
    <3>1. ~ IsGreen(Phases[currentCycle][i]) \/ ~ IsGreen(Phases[currentCycle][j])
      BY <2>1 DEF Conflicting
    <3> QED  BY <2>1, <2>2, <2>4, <3>1, NotGreenShowsRed DEF BoardShowsARow
  <2> QED  BY <2>3, <2>4
<1> QED  BY <1>1, TypeCorrect, BoardInvariant, PTL

-----------------------------------------------------------------------------
(* No phase is ever given more than the full cycle, or the pedestrian      *)
(* minimum if that is more.                                                *)
THEOREM DurationsBounded == Spec => []DurationBounded
<1>1. Init => DurationBounded
  BY DurationAssumption, CycleType DEF Init, DurationBounded
<1>2. TypeOK /\ DurationBounded /\ [Next]_vars => DurationBounded'
  <2> SUFFICES ASSUME TypeOK, DurationBounded, [Next]_vars PROVE DurationBounded'
    OBVIOUS
  <2>1. CASE AssignDuration
    <3>1. phase \in Phase /\ phaseDurations \in [Phase -> Nat]
      BY DEF TypeOK, UpdateTypeOK
    <3>2. \/ phaseDurations'[phase] <= FullCycleDurationMs
          \/ phaseDurations'[phase] <= MinPedestrianDurationMs
      BY <2>1, <3>1, DurationAssumption, CycleType DEF AssignDuration, AssignWithin
    <3>3. \A p \in Phase : p # phase => phaseDurations'[p] = phaseDurations[p]
      BY <2>1, <3>1 DEF AssignDuration, AssignWithin
    <3> QED  BY <3>2, <3>3 DEF DurationBounded
  <2>2. CASE RestoreDurations
    BY <2>2, DurationAssumption, CycleType DEF RestoreDurations, DurationBounded
  <2>3. CASE UNCHANGED phaseDurations
    BY <2>3 DEF DurationBounded
  <2> QED
    BY <2>1, <2>2, <2>3
       DEF Next, vars, ExecutePhase, ReceiveDensity, ReceiveFails, TimerTick,
           TransitionToNextPhase, GoToPhase, AddDensity, ClosePhase, CloseLane
<1> QED  BY <1>1, <1>2, TypeCorrect, PTL DEF Spec

-----------------------------------------------------------------------------
(* With phases of five seconds and more, the transition row is on the      *)
(* board whenever the loop leaves a phase.                                 *)
LEMMA BoardFollows == LongPhases => (Spec => []BoardFollowsLoop)
<1> SUFFICES ASSUME LongPhases PROVE Spec => []BoardFollowsLoop
  OBVIOUS
<1> USE DEF TransitionAt
<1>1. Init => BoardFollowsLoop
  BY DurationAssumption, CycleType DEF Init, BoardFollowsLoop, LongPhases
<1>2. TypeOK /\ BoardFollowsLoop /\ [Next]_vars => BoardFollowsLoop'
  <2> SUFFICES ASSUME TypeOK, BoardFollowsLoop, [Next]_vars PROVE BoardFollowsLoop'
    OBVIOUS
  <2> USE DEF BoardFollowsLoop
  <2>0. /\ phaseIndex \in Phase /\ remainingTime \in Nat
        /\ phaseDurations \in [Phase -> Nat]
    BY DEF TypeOK, LoopTypeOK, UpdateTypeOK
  <2>1. CASE ExecutePhase
    BY <2>1 DEF ExecutePhase
  <2>2. ASSUME StartTimer, pc = "receive",
               UNCHANGED <<phaseIndex, currentCycle, onChannels, phaseDurations>>
        PROVE  BoardFollowsLoop'
    <3>1. phaseDurations[phaseIndex] \div 1000 >= 5
      BY <2>0
    <3> QED  BY <2>2, <3>1 DEF StartTimer
  <2>3. ASSUME NEW density \in RawDensity, ReceiveDensity(density)
        PROVE  BoardFollowsLoop'
    BY <2>2, <2>3 DEF ReceiveDensity
  <2>4. CASE ReceiveFails
    BY <2>2, <2>4 DEF ReceiveFails
  <2>5. CASE TimerTick
    BY <2>0, <2>5 DEF TimerTick
  <2>6. CASE TransitionToNextPhase
    BY <2>0, <2>6 DEF TransitionToNextPhase, GoToPhase
  <2>7. CASE AddDensity
    BY <2>7 DEF AddDensity, loopVars
  <2>8. CASE ClosePhase
    BY <2>8 DEF ClosePhase, CloseLane, loopVars
  <2>9. CASE AssignDuration
    <3>1. phase \in Phase /\ Allocated(phase) \in Nat
      BY ShareType DEF TypeOK, UpdateTypeOK
    <3>2. Allocated(phase) >= 5000
      BY <3>1, ShareType, DurationAssumption, CycleType DEF TypeOK, LongPhases, Allocated
    <3>3. \A p \in Phase : phaseDurations'[p] >= 5000
      BY <2>0, <2>9, <3>1, <3>2, DurationAssumption, CycleType DEF AssignDuration, AssignWithin
    <3>4. pc' \in {"assign", "execute"} /\ UNCHANGED <<phaseIndex, currentCycle, onChannels>>
      BY <2>9 DEF AssignDuration, AssignWithin, ReturnFromUpdate, loopVars
    <3>5. pc = "assign"
      BY <2>9 DEF AssignDuration, AssignWithin
    <3> QED  BY <3>3, <3>4, <3>5
  <2>10. CASE RestoreDurations
    <3>1. \A p \in Phase : phaseDurations'[p] >= 5000
      BY <2>10 DEF RestoreDurations, LongPhases
    <3> QED  BY <2>10, <3>1 DEF RestoreDurations, ReturnFromUpdate, loopVars
  <2>11. CASE UNCHANGED vars
    BY <2>11 DEF vars, loopVars
  <2> QED
    BY <2>1, <2>3, <2>4, <2>5, <2>6, <2>7, <2>8, <2>9, <2>10, <2>11 DEF Next
<1> QED  BY <1>1, <1>2, TypeCorrect, PTL DEF Spec

(* The colours a row and its transition row show, approach by approach.    *)
LEMMA ColoursOfRows ==
  ASSUME NEW p \in Phase
  PROVE  /\ \A i \in Vehicle :
              \/ /\ Phases[p][i] = "RED_PHASE"
                 /\ LitColours(PhaseChannels(p), i) = {"red"}
                 /\ LitColours(TransitionChannels(p), i) = {"red"}
              \/ /\ Phases[p][i] = "GREEN_PHASE"
                 /\ LitColours(PhaseChannels(p), i) = {"green"}
                 /\ LitColours(TransitionChannels(p), i)
                      = IF Phases[NextPhase(p)][i] = "RED_PHASE" THEN {"yellow"} ELSE {"green"}
         /\ \A i \in Pedestrian :
              /\ LitColours(PhaseChannels(p), i) \in {{"red"}, {"green"}}
              /\ LitColours(TransitionChannels(p), i) \in {{"red"}, {"green"}}
<1>1. ASSUME NEW i \in Vehicle
      PROVE  \/ /\ Phases[p][i] = "RED_PHASE"
                /\ LitColours(PhaseChannels(p), i) = {"red"}
                /\ LitColours(TransitionChannels(p), i) = {"red"}
             \/ /\ Phases[p][i] = "GREEN_PHASE"
                /\ LitColours(PhaseChannels(p), i) = {"green"}
                /\ LitColours(TransitionChannels(p), i)
                     = IF Phases[NextPhase(p)][i] = "RED_PHASE" THEN {"yellow"} ELSE {"green"}
  <2>1. i \in Child
    BY ChildType
  <2>2. Phases[p][i] \in {"GREEN_PHASE", "RED_PHASE"}
    BY JunctionAssumption DEF WellFormed, VehicleTypes
  <2> QED
    BY <2>1, <2>2, PhaseColours, TransitionColours DEF ColourOf, DeriveTransitionPhase
<1>2. ASSUME NEW i \in Pedestrian
      PROVE  /\ LitColours(PhaseChannels(p), i) \in {{"red"}, {"green"}}
             /\ LitColours(TransitionChannels(p), i) \in {{"red"}, {"green"}}
  <2>1. i \in Child
    BY ChildType
  <2>2. Phases[p][i] \in {"GREEN_PED", "RED_PED"}
    BY JunctionAssumption DEF WellFormed, PedestrianTypes
  <2> QED
    BY <2>1, <2>2, PhaseColours, TransitionColours DEF ColourOf, DeriveTransitionPhase
<1> QED  BY <1>1, <1>2

(* The loop implements the signal heads: one colour per approach, yellow   *)
(* between a vehicle's green and its red, no two conflicting approaches    *)
(* let through, if phases last at least as long as TransitionAt.           *)
THEOREM HeadsImplemented == LongPhases => (Spec => ImplementsSignalHeads)
<1> SUFFICES ASSUME LongPhases PROVE Spec => ImplementsSignalHeads
  OBVIOUS
<1>0. Heads!Approach = Child
  BY ChildType DEF Heads!Approach
<1>1. Init => Heads!Init
  BY <1>0 DEF Init, Heads!Init, Heads!Dark, heads, LitColours
<1>2. TypeOK /\ BoardFollowsLoop /\ NoConflict' /\ [Next]_vars => [Heads!Change]_heads
  <2> SUFFICES ASSUME TypeOK, BoardFollowsLoop, NoConflict', [Next]_vars
               PROVE  [Heads!Change]_heads
    OBVIOUS
  <2>0. phaseIndex \in Phase /\ currentCycle \in Phase
    BY DEF TypeOK, LoopTypeOK
  <2> DEFINE old(i) == LitColours(onChannels, i)
             new(i) == LitColours(onChannels', i)
  <2>1. ASSUME \A i \in Vehicle : /\ new(i) \in {{"red"}, {"green"}, {"yellow"}}
                                  /\ \/ new(i) = old(i)
                                     \/ <<old(i), new(i)>> \in Heads!VehicleSuccessor,
               \A i \in Pedestrian : /\ new(i) \in {{"red"}, {"green"}}
                                     /\ \/ new(i) = old(i)
                                        \/ <<old(i), new(i)>> \in Heads!PedestrianSuccessor
        PROVE  Heads!Change
    <3>1. /\ heads' = [i \in Child |-> new(i)] /\ heads = [i \in Child |-> old(i)]
      BY DEF heads
    <3>2. heads' = [i \in Child |-> heads'[i]]
      BY <3>1
    <3>3. \A i \in Child : heads'[i] \in {{"red"}, {"green"}, {"yellow"}}
      BY <2>1, <3>1, ChildType
    <3>4. \A i, j \in Child : Conflicting(i, j) => heads'[i] = {"red"} \/ heads'[j] = {"red"}
      BY <3>3 DEF NoConflict
    <3>5. \A i \in Child : heads'[i] = new(i) /\ heads[i] = old(i)
      BY <3>1
    <3> HIDE DEF old, new
    <3> QED
      BY <1>0, <2>1, <3>2, <3>3, <3>4, <3>5, ChildType
         DEF Heads!Change, Heads!OneColour, Heads!Exclusive
  <2>2. CASE ExecutePhase
    <3>1. onChannels' = PhaseChannels(phaseIndex)
      BY <2>2 DEF ExecutePhase
    <3>2. CASE onChannels = {}
      <4>1. \A i \in Child : old(i) = {}
        BY <3>2 DEF LitColours
      <4> QED
        BY <2>0, <2>1, <3>1, <4>1, ColoursOfRows, ChildType
           DEF Heads!VehicleSuccessor, Heads!PedestrianSuccessor, Heads!Dark
    <3>3. CASE phaseIndex = NextPhase(currentCycle) /\ onChannels = TransitionChannels(currentCycle)
      BY <2>0, <2>1, <3>1, <3>3, ColoursOfRows
         DEF Heads!VehicleSuccessor, Heads!PedestrianSuccessor
    <3> QED  BY <2>2, <3>2, <3>3 DEF ExecutePhase, BoardFollowsLoop
  <2>3. CASE TimerTick
    <3>1. CASE remainingTime = TransitionAt
      <4>1. onChannels = PhaseChannels(currentCycle)
        BY <2>3, <3>1 DEF TimerTick, BoardFollowsLoop, TransitionAt
      <4>2. onChannels' = TransitionChannels(currentCycle)
        BY <2>3, <3>1 DEF TimerTick
      <4> QED
        BY <2>0, <2>1, <4>1, <4>2, ColoursOfRows
           DEF Heads!VehicleSuccessor, Heads!PedestrianSuccessor
    <3>2. CASE remainingTime # TransitionAt
      BY <2>3, <3>2 DEF TimerTick, heads
    <3> QED  BY <3>1, <3>2
  <2>4. CASE UNCHANGED onChannels
    BY <2>4 DEF heads
  <2> QED
    BY <2>2, <2>3, <2>4
       DEF Next, vars, loopVars, ReceiveDensity, ReceiveFails, TransitionToNextPhase,
           GoToPhase, AddDensity, ClosePhase, CloseLane, AssignDuration, AssignWithin,
           RestoreDurations
<1> QED
  BY <1>1, <1>2, TypeCorrect, ConflictFree, BoardFollows, PTL
     DEF Spec, ImplementsSignalHeads, Heads!Spec

-----------------------------------------------------------------------------
(* updatePhaseDurations is in step with itself: the total is that of the   *)
(* phases gone through, then of all of them, and outside of the call its   *)
(* accumulators are as at its start.                                       *)
TotalsInStep ==
  /\ pc \notin {"total", "assign"} => phase = 0 /\ totalDensity = 0
  /\ pc = "total" => totalDensity = SumFunction([p \in 0 .. phase - 1 |-> phaseTotals[p]])
  /\ pc = "assign" => totalDensity = SumFunction(phaseTotals)

LEMMA TotalsStayInStep == Spec => []TotalsInStep
<1>1. Init => TotalsInStep
  BY DEF Init, TotalsInStep
<1>2. TypeOK /\ TotalsInStep /\ [Next]_vars => TotalsInStep'
  <2> SUFFICES ASSUME TypeOK, TotalsInStep, [Next]_vars PROVE TotalsInStep'
    OBVIOUS
  <2>0. /\ phase \in 0 .. NumPhases - 1 /\ NumPhases \in Nat
        /\ phaseTotals \in [0 .. NumPhases - 1 -> Nat]
    BY JunctionAssumption DEF TypeOK, UpdateTypeOK, Phase
  <2>1. ASSUME pc \notin {"total", "assign"}, pc' \notin {"total", "assign"},
               UNCHANGED <<phase, totalDensity>>
        PROVE  TotalsInStep'
    BY <2>1 DEF TotalsInStep
  <2>2. CASE ExecutePhase
    BY <2>1, <2>2 DEF ExecutePhase, updateVars
  <2>3. ASSUME NEW density \in RawDensity, ReceiveDensity(density)
        PROVE  TotalsInStep'
    BY <2>1, <2>3 DEF ReceiveDensity, StartTimer, updateVars
  <2>4. CASE ReceiveFails
    BY <2>1, <2>4 DEF ReceiveFails, StartTimer, updateVars
  <2>5. CASE TimerTick
    BY <2>1, <2>5 DEF TimerTick, updateVars
  <2>6. CASE TransitionToNextPhase
    <3>1. /\ pc = "timer" /\ pc' \in {"total", "execute"}
          /\ UNCHANGED <<phase, totalDensity, phaseTotals>>
      BY <2>6 DEF TransitionToNextPhase, GoToPhase, updateVars
    <3>2. phase = 0 /\ totalDensity = 0
      BY <3>1 DEF TotalsInStep
    <3>3. SumFunction([p \in 0 .. 0 - 1 |-> phaseTotals'[p]]) = 0
      BY EmptySum
    <3> QED  BY <3>1, <3>2, <3>3 DEF TotalsInStep
  <2>7. CASE AddDensity
    <3>1. /\ pc = "total" /\ pc' = "total" /\ UNCHANGED <<phase, totalDensity>>
          /\ \A p \in 0 .. phase - 1 : phaseTotals'[p] = phaseTotals[p]
      <4>1. \A p \in 0 .. phase - 1 : p \in 0 .. NumPhases - 1 /\ p # phase
        BY <2>0
      <4>2. \/ UNCHANGED phaseTotals
            \/ phaseTotals' = [phaseTotals EXCEPT ![phase] = @ + phaseDensities[phase][child]]
        BY <2>7 DEF AddDensity
      <4>3. \A p \in 0 .. phase - 1 : phaseTotals'[p] = phaseTotals[p]
        BY <2>0, <4>1, <4>2
      <4> QED  BY <2>7, <4>3 DEF AddDensity
    <3>2. [p \in 0 .. phase - 1 |-> phaseTotals'[p]] = [p \in 0 .. phase - 1 |-> phaseTotals[p]]
      BY <3>1
    <3> QED  BY <3>1, <3>2 DEF TotalsInStep
  <2>8. CASE ClosePhase
    <3> DEFINE upTo == [p \in 0 .. phase |-> phaseTotals[p]]
    <3>1. /\ pc = "total" /\ UNCHANGED phaseTotals
          /\ totalDensity' = totalDensity + phaseTotals[phase]
          /\ \/ phase' = phase + 1 /\ pc' = "total"
             \/ phase' = 0 /\ pc' = "assign" /\ ~ (phase + 1 < NumPhases)
      BY <2>8 DEF ClosePhase, CloseLane
    <3>2. totalDensity' = SumFunction(upTo)
      <4>1. upTo \in [0 .. phase -> Int] /\ phase \in Nat
            /\ upTo[phase] = phaseTotals[phase]
        BY <2>0
      <4>2. [p \in 0 .. phase - 1 |-> upTo[p]] = [p \in 0 .. phase - 1 |-> phaseTotals[p]]
        BY <2>0
      <4> HIDE DEF upTo
      <4>3. SumFunction(upTo) = SumFunction([p \in 0 .. phase - 1 |-> upTo[p]]) + upTo[phase]
        BY <4>1, LastOfSum
      <4> QED  BY <3>1, <4>1, <4>2, <4>3 DEF TotalsInStep
    <3>3. CASE pc' = "total"
      <4>1. phase' - 1 = phase
        BY <2>0, <3>1, <3>3
      <4> QED  BY <3>1, <3>2, <3>3, <4>1 DEF TotalsInStep
    <3>4. CASE pc' = "assign"
      <4>1. phase = NumPhases - 1
        BY <2>0, <3>1, <3>4
      <4>2. upTo = phaseTotals
        BY <2>0, <4>1
      <4> QED  BY <3>1, <3>2, <3>4, <4>2 DEF TotalsInStep
    <3> QED  BY <3>1, <3>3, <3>4
  <2>9. CASE AssignDuration
    <3>1. CASE phase + 1 < NumPhases
      BY <2>9, <3>1 DEF AssignDuration, AssignWithin, TotalsInStep
    <3>2. CASE ~ (phase + 1 < NumPhases)
      BY <2>9, <3>2 DEF AssignDuration, AssignWithin, ReturnFromUpdate, TotalsInStep
    <3> QED  BY <3>1, <3>2
  <2>10. CASE RestoreDurations
    BY <2>10 DEF RestoreDurations, ReturnFromUpdate, TotalsInStep
  <2>11. CASE UNCHANGED vars
    BY <2>11 DEF vars, updateVars, TotalsInStep
  <2> QED
    BY <2>2, <2>3, <2>4, <2>5, <2>6, <2>7, <2>8, <2>9, <2>10, <2>11 DEF Next
<1> QED  BY <1>1, <1>2, TypeCorrect, PTL DEF Spec

(* Whenever something was measured, the shares of the phases make up the   *)
(* cycle, but for less than a millisecond per phase.                       *)
THEOREM SharesPartition == Spec => []SharesPartitionCycle
<1>1. TypeOK /\ TotalsInStep => SharesPartitionCycle
  <2> SUFFICES ASSUME TypeOK, TotalsInStep, pc = "assign", totalDensity > 0
               PROVE  SumFunction([p \in Phase |-> Share(p)])
                        \in FullCycleDurationMs - NumPhases + 1 .. FullCycleDurationMs
    BY DEF SharesPartitionCycle
  <2>1. /\ phaseTotals \in [0 .. NumPhases - 1 -> Nat] /\ NumPhases \in Nat \ {0}
        /\ Phase = 0 .. NumPhases - 1 /\ FullCycleDurationMs \in Nat
    BY ChildType, CycleType DEF TypeOK, UpdateTypeOK, Phase
  <2>2. totalDensity = SumFunction(phaseTotals) /\ totalDensity # 0
    BY DEF TotalsInStep, TypeOK, UpdateTypeOK
  <2>3. [p \in Phase |-> Share(p)]
          = [p \in 0 .. NumPhases - 1 |->
               (phaseTotals[p] * FullCycleDurationMs) \div SumFunction(phaseTotals)]
    BY <2>1, <2>2 DEF Share
  <2>4. SumFunction(phaseTotals) > 0
    BY <2>2
  <2> QED  BY <2>1, <2>3, <2>4, Portions
<1> QED  BY <1>1, TypeCorrect, TotalsStayInStep, PTL
=============================================================================
