---------------------------- MODULE Engine_proofs ----------------------------
(***************************************************************************)
(* What loops and totals are, and what the arithmetic of the engine        *)
(* guarantees for every value of its constants; proved once for every      *)
(* module that uses them.  A loop invariant is a set here: IterateLoop     *)
(* says that a loop whose body keeps a set ends in it.                     *)
(***************************************************************************)
EXTENDS Engine, FiniteSetTheorems, WellFoundedInduction, TLAPS

-----------------------------------------------------------------------------
(* Loops and totals.                                                       *)

\* A set of naturals that is not empty has a least member.
LEMMA LeastExists ==
  ASSUME NEW T, T \subseteq Nat, T # {}
  PROVE  \E j \in T : \A k \in T : j <= k
<1>1. IsWellFoundedOn(OpToRel(<, Nat), Nat)
  BY NatLessThanWellFounded
<1>2. PICK x \in T : \A y \in T : ~(<<y, x>> \in OpToRel(<, Nat))
  BY <1>1, WFMin
<1>3. \A y \in T : ~(y < x)
  BY <1>2 DEF OpToRel
<1> QED BY <1>3

\* Induction over the naturals, for a set instead of a predicate.
LEMMA SetInduction ==
  ASSUME NEW S, S \subseteq Nat, 0 \in S, \A n \in S : n + 1 \in S
  PROVE  S = Nat
<1> DEFINE T == Nat \ S
<1>1. SUFFICES ASSUME T # {} PROVE FALSE
  OBVIOUS
<1>2. PICK x \in T : \A y \in T : x <= y
  BY <1>1, LeastExists, T \subseteq Nat
<1>3. x # 0 /\ x \in Nat
  OBVIOUS
<1>4. x - 1 \in S
  BY <1>2, <1>3
<1>5. x \in S
  BY <1>4, <1>3
<1> QED BY <1>5

\* p holds the first n + 1 states of the loop.
Prefix(body, x, X, n, p) ==
  /\ p \in [0 .. n -> X]
  /\ p[0] = x
  /\ \A i \in 1 .. n : p[i] = body[p[i - 1]]

\* A loop of n turns has a table of its n + 1 states.
LEMMA PrefixExists ==
  ASSUME NEW X, NEW x \in X, NEW body, \A y \in X : body[y] \in X,
         NEW n \in Nat
  PROVE  \E p : Prefix(body, x, X, n, p)
<1> DEFINE S == {k \in Nat : \E p : Prefix(body, x, X, k, p)}
<1>1. 0 \in S
  <2>1. Prefix(body, x, X, 0, [i \in 0 .. 0 |-> x])
    BY DEF Prefix
  <2> QED BY <2>1
<1>2. ASSUME NEW k \in S PROVE k + 1 \in S
  <2>1. PICK p : Prefix(body, x, X, k, p)
    BY <1>2
  <2> DEFINE q == [i \in 0 .. k + 1 |-> IF i = k + 1 THEN body[p[k]] ELSE p[i]]
  <2>2. q \in [0 .. k + 1 -> X]
    BY <2>1 DEF Prefix
  <2>3. q[0] = x
    BY <2>1 DEF Prefix
  <2>4. ASSUME NEW i \in 1 .. k + 1 PROVE q[i] = body[q[i - 1]]
    <3>1. CASE i = k + 1
      BY <3>1, <2>1 DEF Prefix
    <3>2. CASE i \in 1 .. k
      BY <3>2, <2>1 DEF Prefix
    <3> QED BY <3>1, <3>2
  <2>5. Prefix(body, x, X, k + 1, q)
    BY <2>2, <2>3, <2>4 DEF Prefix
  <2> QED BY <2>5
<1>3. S = Nat
  <2> HIDE DEF S
  <2>1. S \subseteq Nat
    BY DEF S
  <2> QED BY <1>1, <1>2, <2>1, SetInduction
<1> QED BY <1>3

\* Two such tables agree wherever both are defined.
LEMMA PrefixesAgree ==
  ASSUME NEW X, NEW x, NEW body, NEW n \in Nat, NEW m \in Nat, NEW p, NEW q,
         Prefix(body, x, X, n, p), Prefix(body, x, X, m, q),
         NEW k \in Nat, k <= n, k <= m
  PROVE  p[k] = q[k]
<1> DEFINE S == {i \in Nat : i <= n /\ i <= m => p[i] = q[i]}
<1>1. 0 \in S
  BY DEF Prefix
<1>2. ASSUME NEW i \in S PROVE i + 1 \in S
  BY <1>2 DEF Prefix
<1>3. S = Nat
  <2> HIDE DEF S
  <2>1. S \subseteq Nat
    BY DEF S
  <2> QED BY <1>1, <1>2, <2>1, SetInduction
<1> QED BY <1>3

\* The function that the definition of Iterate names exists.
LEMMA LoopExists ==
  ASSUME NEW X, NEW x \in X, NEW body, \A y \in X : body[y] \in X
  PROVE  \E f : f = [i \in Nat |-> IF i = 0 THEN x ELSE body[f[i - 1]]]
<1> DEFINE P(n) == CHOOSE p : Prefix(body, x, X, n, p)
           F == [n \in Nat |-> P(n)[n]]
<1>1. ASSUME NEW n \in Nat PROVE Prefix(body, x, X, n, P(n))
  BY PrefixExists
<1>2. ASSUME NEW n \in Nat, n # 0 PROVE F[n] = body[F[n - 1]]
  <2>1. n - 1 \in Nat
    BY <1>2
  <2>2. Prefix(body, x, X, n, P(n)) /\ Prefix(body, x, X, n - 1, P(n - 1))
    BY <1>1, <2>1
  <2> HIDE DEF P
  <2>3. P(n)[n] = body[P(n)[n - 1]]
    BY <1>2, <2>2 DEF Prefix
  <2>4. P(n)[n - 1] = P(n - 1)[n - 1]
    <3>1. n - 1 <= n /\ n - 1 <= n - 1
      BY <2>1
    <3> QED BY <2>1, <2>2, <3>1, PrefixesAgree
  <2> QED BY <2>1, <2>3, <2>4
<1>3. F[0] = x
  BY <1>1 DEF Prefix
<1>4. F = [i \in Nat |-> IF i = 0 THEN x ELSE body[F[i - 1]]]
  <2> DEFINE G == [i \in Nat |-> IF i = 0 THEN x ELSE body[F[i - 1]]]
  <2>1. ASSUME NEW i \in Nat PROVE F[i] = G[i]
    <3> HIDE DEF F
    <3> QED BY <1>2, <1>3
  <2> QED BY <2>1
<1> QED BY <1>4

\* Iterate is the loop it says it is: no turn leaves the start, one more turn
\* applies the body once more, and a set the body keeps is never left.
THEOREM IterateLoop ==
  ASSUME NEW X, NEW x \in X, NEW body, \A y \in X : body[y] \in X
  PROVE  /\ Iterate(body, x, 0) = x
         /\ \A n \in Nat : Iterate(body, x, n + 1) = body[Iterate(body, x, n)]
         /\ \A n \in Nat : Iterate(body, x, n) \in X
<1> DEFINE f == CHOOSE f : f = [i \in Nat |-> IF i = 0 THEN x ELSE body[f[i - 1]]]
<1>1. f = [i \in Nat |-> IF i = 0 THEN x ELSE body[f[i - 1]]]
  BY LoopExists
<1>2. ASSUME NEW n PROVE Iterate(body, x, n) = f[n]
  BY DEF Iterate
<1> HIDE DEF f
<1>3. f[0] = x
  BY <1>1
<1>4. \A n \in Nat : f[n + 1] = body[f[n]]
  <2> TAKE n \in Nat
  <2>1. n + 1 \in Nat /\ n + 1 # 0 /\ (n + 1) - 1 = n
    OBVIOUS
  <2>2. f[n + 1] = body[f[(n + 1) - 1]]
    BY <1>1, <2>1
  <2> QED BY <2>1, <2>2
<1>5. \A n \in Nat : f[n] \in X
  <2> DEFINE S == {n \in Nat : f[n] \in X}
  <2>1. 0 \in S
    BY <1>3
  <2>2. \A n \in S : n + 1 \in S
    BY <1>4
  <2>3. S = Nat
    <3> HIDE DEF S
    <3>1. S \subseteq Nat
      BY DEF S
    <3> QED BY <2>1, <2>2, <3>1, SetInduction
  <2> QED BY <2>3
<1> QED BY <1>2, <1>3, <1>4, <1>5

\* One turn of a loop.
LEMMA IterateOnce ==
  ASSUME NEW X, NEW x \in X, NEW body, \A y \in X : body[y] \in X
  PROVE  Iterate(body, x, 1) = body[x]
<1>1. Iterate(body, x, 0) = x /\ \A i \in Nat : Iterate(body, x, i + 1) = body[Iterate(body, x, i)]
  BY IterateLoop
<1>2. Iterate(body, x, 0 + 1) = body[Iterate(body, x, 0)]
  BY <1>1
<1> QED BY <1>1, <1>2

\* Two loops whose states correspond turn by turn end in corresponding states.
LEMMA IterateMaps ==
  ASSUME NEW X, NEW x \in X, NEW body, NEW image, NEW other,
         \A y \in X : body[y] \in X, \A y \in X : other[image[y]] = image[body[y]],
         NEW n \in Nat
  PROVE  Iterate(other, image[x], n) = image[Iterate(body, x, n)]
<1> DEFINE Y == {image[y] : y \in X}
           S == {i \in Nat : Iterate(other, image[x], i) = image[Iterate(body, x, i)]}
<1>1. /\ Iterate(body, x, 0) = x
      /\ \A i \in Nat : Iterate(body, x, i + 1) = body[Iterate(body, x, i)]
      /\ \A i \in Nat : Iterate(body, x, i) \in X
  BY IterateLoop
<1>2. image[x] \in Y /\ \A z \in Y : other[z] \in Y
  OBVIOUS
<1>3. /\ Iterate(other, image[x], 0) = image[x]
      /\ \A i \in Nat : Iterate(other, image[x], i + 1) = other[Iterate(other, image[x], i)]
  <2> DEFINE start == image[x]
  <2> HIDE DEF Y, start
  <2>1. start \in Y
    BY <1>2 DEF start
  <2>2. /\ Iterate(other, start, 0) = start
        /\ \A i \in Nat : Iterate(other, start, i + 1) = other[Iterate(other, start, i)]
    BY <1>2, <2>1, IterateLoop
  <2> QED BY <2>2 DEF start
<1>4. 0 \in S
  BY <1>1, <1>3
<1>5. \A i \in S : i + 1 \in S
  BY <1>1, <1>3
<1>6. S = Nat
  <2> HIDE DEF S
  <2>1. S \subseteq Nat
    BY DEF S
  <2> QED BY <1>4, <1>5, <2>1, SetInduction
<1> QED BY <1>1, <1>6

\* The pairs that Total counts are finitely many.
LEMMA PairsFinite ==
  ASSUME NEW S, IsFiniteSet(S), NEW f, \A x \in S : f[x] \in Nat
  PROVE  IsFiniteSet(Pairs(f, S))
<1> DEFINE T == {{x} \X (1 .. f[x]) : x \in S}
           g == [x \in S |-> {x} \X (1 .. f[x])]
<1>1. IsFiniteSet(T)
  <2>1. g \in Surjection(S, T)
    BY DEF Surjection
  <2> QED BY <2>1, FS_Surjection
<1>2. \A U \in T : IsFiniteSet(U)
  <2>1. ASSUME NEW x \in S PROVE IsFiniteSet({x} \X (1 .. f[x]))
    <3>1. IsFiniteSet({x})
      BY FS_Singleton
    <3>2. f[x] \in Int /\ 1 \in Int
      OBVIOUS
    <3>3. IsFiniteSet(1 .. f[x])
      BY <3>2, FS_Interval
    <3> QED BY <3>1, <3>3, FS_Product
  <2> QED BY <2>1
<1>3. Pairs(f, S) = UNION T
  BY DEF Pairs
<1> QED BY <1>1, <1>2, <1>3, FS_UNION

\* The total of naturals over a finite set is a natural.
THEOREM TotalIsNat ==
  ASSUME NEW S, IsFiniteSet(S), NEW f, \A x \in S : f[x] \in Nat
  PROVE  Total(f, S) \in Nat
BY PairsFinite, FS_CardinalityType DEF Total

\* A new member adds its value to the total.
THEOREM TotalAdd ==
  ASSUME NEW S, IsFiniteSet(S), NEW y, y \notin S,
         NEW f, \A x \in S : f[x] \in Nat, f[y] \in Nat
  PROVE  Total(f, S \union {y}) = Total(f, S) + f[y]
<1> DEFINE new == {y} \X (1 .. f[y])
<1>1. IsFiniteSet(Pairs(f, S))
  BY PairsFinite
<1>2. IsFiniteSet({y}) /\ Cardinality({y}) = 1
  BY FS_Singleton
<1>3. IsFiniteSet(1 .. f[y]) /\ Cardinality(1 .. f[y]) = f[y]
  BY FS_Interval, SMTT(60)
<1>4. IsFiniteSet(new) /\ Cardinality(new) = 1 * f[y]
  BY <1>2, <1>3, FS_Product, SMTT(60)
<1>5. Pairs(f, S \union {y}) = Pairs(f, S) \union new
  BY DEF Pairs
<1>6. Pairs(f, S) \intersect new = {}
  BY DEF Pairs
<1>7. Cardinality({}) = 0
  BY FS_EmptySet
<1>8. Cardinality(Pairs(f, S)) \in Nat
  BY <1>1, FS_CardinalityType
<1> HIDE DEF new
<1>9. Cardinality(Pairs(f, S) \union new)
        = Cardinality(Pairs(f, S)) + Cardinality(new) - Cardinality(Pairs(f, S) \intersect new)
  BY <1>1, <1>4, FS_Union
<1>10. Total(f, S \union {y}) = Total(f, S) + Cardinality(new) - 0
  BY <1>5, <1>6, <1>7, <1>9, Zenon DEF Total
<1>11. Total(f, S) \in Nat
  BY <1>8 DEF Total
<1> QED BY <1>4, <1>10, <1>11

\* A removed member takes its value out of the total.
THEOREM TotalRemove ==
  ASSUME NEW S, IsFiniteSet(S), NEW y \in S, NEW f, \A x \in S : f[x] \in Nat
  PROVE  /\ Total(f, S \ {y}) = Total(f, S) - f[y]
         /\ Total(f, S) >= f[y]
<1> DEFINE T == S \ {y}
<1>1. IsFiniteSet(T)
  BY FS_RemoveElement
<1>2. T \union {y} = S
  OBVIOUS
<1>3. Total(f, T) \in Nat
  <2>1. \A x \in T : f[x] \in Nat
    OBVIOUS
  <2> HIDE DEF T
  <2> QED BY <1>1, <2>1, TotalIsNat
<1>4. Total(f, T \union {y}) = Total(f, T) + f[y]
  <2>1. y \notin T /\ (\A x \in T : f[x] \in Nat) /\ f[y] \in Nat
    OBVIOUS
  <2> HIDE DEF T
  <2> QED BY <1>1, <2>1, TotalAdd
<1>5. Total(f, S) = Total(f, T) + f[y] /\ f[y] \in Nat
  BY <1>2, <1>4, Zenon
<1> QED BY <1>3, <1>5

\* Nothing adds up to nothing.
THEOREM TotalEmpty ==
  ASSUME NEW f
  PROVE  Total(f, {}) = 0
<1>1. Pairs(f, {}) = {}
  BY DEF Pairs
<1> QED BY <1>1, FS_EmptySet DEF Total

\* The total depends on the values alone.
THEOREM TotalSame ==
  ASSUME NEW S, NEW f, NEW g, \A x \in S : f[x] = g[x]
  PROVE  Total(f, S) = Total(g, S)
<1>1. Pairs(f, S) = Pairs(g, S)
  BY DEF Pairs
<1> QED BY <1>1 DEF Total

\* Changing one value changes the total by the difference.
THEOREM TotalUpdate ==
  ASSUME NEW S, IsFiniteSet(S), NEW y \in S,
         NEW f, \A x \in S : f[x] \in Nat,
         NEW g, \A x \in S \ {y} : g[x] = f[x], g[y] \in Nat
  PROVE  Total(g, S) = Total(f, S) - f[y] + g[y]
<1>1. \A x \in S : g[x] \in Nat
  OBVIOUS
<1>2. Total(f, S \ {y}) = Total(f, S) - f[y]
  BY TotalRemove, Zenon
<1>3. Total(g, S \ {y}) = Total(g, S) - g[y]
  BY <1>1, TotalRemove, Zenon
<1>4. Total(g, S \ {y}) = Total(f, S \ {y})
  BY TotalSame, Zenon
<1>5. Total(f, S) \in Nat
  BY TotalIsNat, Zenon
<1>6. Total(g, S) \in Nat
  BY <1>1, TotalIsNat, Zenon
<1> QED BY <1>2, <1>3, <1>4, <1>5, <1>6

\* One more member, the values of the others unchanged.
THEOREM TotalGains ==
  ASSUME NEW S, IsFiniteSet(S), NEW y, y \notin S,
         NEW f, \A x \in S : f[x] \in Nat,
         NEW R, R = S \union {y},
         NEW g, \A x \in S : g[x] = f[x], g[y] \in Nat
  PROVE  Total(g, R) = Total(f, S) + g[y]
<1>1. \A x \in S : g[x] \in Nat
  OBVIOUS
<1>2. Total(g, S \union {y}) = Total(g, S) + g[y]
  BY <1>1, TotalAdd
<1>3. Total(g, S) = Total(f, S)
  BY TotalSame
<1> QED BY <1>2, <1>3

\* One member less, the values of the others unchanged.
THEOREM TotalLoses ==
  ASSUME NEW S, IsFiniteSet(S), NEW y \in S,
         NEW f, \A x \in S : f[x] \in Nat,
         NEW R, R = S \ {y},
         NEW g, \A x \in R : g[x] = f[x]
  PROVE  Total(g, R) = Total(f, S) - f[y]
<1>1. Total(f, S \ {y}) = Total(f, S) - f[y]
  BY TotalRemove
<1>2. Total(g, R) = Total(f, R)
  BY TotalSame
<1> QED BY <1>1, <1>2

\* Induction over the parts of a finite set, for a family instead of a predicate.
LEMMA SubsetInduction ==
  ASSUME NEW S, IsFiniteSet(S), NEW F, {} \in F,
         \A U \in SUBSET S : U \in F => \A y \in S \ U : U \union {y} \in F
  PROVE  S \in F
<1> DEFINE N == {n \in Nat : \A U \in SUBSET S : Cardinality(U) = n => U \in F}
<1>1. 0 \in N
  <2>1. ASSUME NEW U \in SUBSET S, Cardinality(U) = 0 PROVE U = {}
    BY <2>1, FS_Subset, FS_EmptySet
  <2> QED BY <2>1
<1>2. ASSUME NEW n \in N PROVE n + 1 \in N
  <2>1. SUFFICES ASSUME NEW U \in SUBSET S, Cardinality(U) = n + 1 PROVE U \in F
    OBVIOUS
  <2>2. n \in Nat /\ IsFiniteSet(U)
    BY FS_Subset
  <2>3. U # {}
    BY <2>1, <2>2, FS_EmptySet
  <2>4. PICK y \in U : TRUE
    BY <2>3
  <2>5. Cardinality(U \ {y}) = n
    <3>1. Cardinality(U \ {y}) = Cardinality(U) - 1
      BY <2>2, <2>4, FS_RemoveElement
    <3> HIDE DEF N
    <3> QED BY <2>1, <2>2, <3>1
  <2>6. U \ {y} \in F
    BY <2>5
  <2>7. (U \ {y}) \union {y} \in F
    BY <2>6
  <2>8. (U \ {y}) \union {y} = U
    OBVIOUS
  <2> QED BY <2>7, <2>8
<1>3. N = Nat
  <2> HIDE DEF N
  <2>1. N \subseteq Nat
    BY DEF N
  <2> QED BY <1>1, <1>2, <2>1, SetInduction
<1>4. Cardinality(S) \in Nat
  BY FS_CardinalityType
<1> QED BY <1>3, <1>4

\* A total of f + c * w is the total of f and c times the total of w.
THEOREM TotalScale ==
  ASSUME NEW S, IsFiniteSet(S), NEW c \in Nat,
         NEW f, \A x \in S : f[x] \in Nat,
         NEW w, \A x \in S : w[x] \in Nat,
         NEW g, \A x \in S : g[x] = f[x] + c * w[x]
  PROVE  Total(g, S) = Total(f, S) + c * Total(w, S)
<1> DEFINE F == {U \in SUBSET S : Total(g, U) = Total(f, U) + c * Total(w, U)}
<1>1. {} \in F
  BY TotalEmpty
<1>2. \A x \in S : g[x] \in Nat
  <2> TAKE x \in S
  <2>1. f[x] \in Nat /\ c * w[x] \in Nat
    OBVIOUS
  <2> QED BY <2>1
<1>3. ASSUME NEW U \in SUBSET S, U \in F, NEW y \in S \ U PROVE U \union {y} \in F
  <2>1. IsFiniteSet(U)
    BY FS_Subset
  <2>2. /\ Total(f, U \union {y}) = Total(f, U) + f[y]
        /\ Total(w, U \union {y}) = Total(w, U) + w[y]
        /\ Total(g, U \union {y}) = Total(g, U) + g[y]
    BY <1>2, <2>1, TotalAdd
  <2>3. Total(f, U) \in Nat /\ Total(w, U) \in Nat
    BY <2>1, TotalIsNat
  <2>4. g[y] = f[y] + c * w[y] /\ f[y] \in Nat /\ w[y] \in Nat
    OBVIOUS
  <2>5. c * (Total(w, U) + w[y]) = c * Total(w, U) + c * w[y]
    BY <2>3, <2>4
  <2>6. Total(g, U) = Total(f, U) + c * Total(w, U)
    BY <1>3
  <2> QED BY <2>2, <2>3, <2>4, <2>5, <2>6
<1>4. S \in F
  <2> HIDE DEF F
  <2> QED BY <1>1, <1>3, SubsetInduction
<1> QED BY <1>4

\* Larger values add up to a larger total.
THEOREM TotalMono ==
  ASSUME NEW S, IsFiniteSet(S),
         NEW f, \A x \in S : f[x] \in Nat,
         NEW g, \A x \in S : g[x] \in Nat /\ f[x] <= g[x]
  PROVE  Total(f, S) <= Total(g, S)
<1>1. Pairs(f, S) \subseteq Pairs(g, S)
  BY DEF Pairs
<1>2. IsFiniteSet(Pairs(g, S))
  BY PairsFinite
<1> QED BY <1>1, <1>2, FS_Subset DEF Total

\* The totals over two sets without a common member add up.
THEOREM TotalUnion ==
  ASSUME NEW S, IsFiniteSet(S), NEW U, IsFiniteSet(U), S \intersect U = {},
         NEW f, \A x \in S \union U : f[x] \in Nat
  PROVE  Total(f, S \union U) = Total(f, S) + Total(f, U)
<1>1. IsFiniteSet(Pairs(f, S)) /\ IsFiniteSet(Pairs(f, U))
  BY PairsFinite
<1>2. Pairs(f, S \union U) = Pairs(f, S) \union Pairs(f, U)
  BY DEF Pairs
<1>3. Pairs(f, S) \intersect Pairs(f, U) = {}
  BY DEF Pairs
<1>4. Cardinality({}) = 0
  BY FS_EmptySet
<1>5. Cardinality(Pairs(f, S)) \in Nat /\ Cardinality(Pairs(f, U)) \in Nat
  BY <1>1, FS_CardinalityType
<1>6. Cardinality(Pairs(f, S) \union Pairs(f, U))
        = Cardinality(Pairs(f, S)) + Cardinality(Pairs(f, U))
            - Cardinality(Pairs(f, S) \intersect Pairs(f, U))
  BY <1>1, FS_Union
<1>7. Total(f, S \union U) = Total(f, S) + Total(f, U) - 0
  BY <1>2, <1>3, <1>4, <1>6, Zenon DEF Total
<1> QED BY <1>5, <1>7 DEF Total

\* The same value everywhere adds up to so many times the value.
THEOREM TotalConstant ==
  ASSUME NEW S, IsFiniteSet(S), NEW c \in Nat, NEW f, \A x \in S : f[x] = c
  PROVE  Total(f, S) = Cardinality(S) * c
<1>1. Pairs(f, S) = S \X (1 .. c)
  BY DEF Pairs
<1>2. IsFiniteSet(1 .. c) /\ Cardinality(1 .. c) = c
  BY FS_Interval
<1> QED BY <1>1, <1>2, FS_Product DEF Total

\* A one-to-one map onto a set carries totals over with it.
THEOREM TotalPaired ==
  ASSUME NEW S, IsFiniteSet(S), NEW T, NEW p \in Bijection(S, T),
         NEW f, NEW g, \A x \in S : f[x] = g[p[x]], \A x \in S : f[x] \in Nat
  PROVE  Total(f, S) = Total(g, T)
<1> DEFINE b == [z \in Pairs(f, S) |-> <<p[z[1]], z[2]>>]
<1>1. p \in [S -> T] /\ (\A x, y \in S : p[x] = p[y] => x = y) /\ (\A t \in T : \E x \in S : p[x] = t)
  BY DEF Bijection, Injection, IsInjective, Surjection
<1>2. \A z : z \in Pairs(f, S) <=> \E x \in S : \E n \in 1 .. f[x] : z = <<x, n>>
  BY DEF Pairs
<1>3. \A z : z \in Pairs(g, T) <=> \E t \in T : \E n \in 1 .. g[t] : z = <<t, n>>
  BY DEF Pairs
<1>4. b \in [Pairs(f, S) -> Pairs(g, T)]
  <2> SUFFICES ASSUME NEW z \in Pairs(f, S) PROVE b[z] \in Pairs(g, T)
    OBVIOUS
  <2>1. PICK x \in S : \E n \in 1 .. f[x] : z = <<x, n>>
    BY <1>2
  <2>2. PICK n \in 1 .. f[x] : z = <<x, n>>
    BY <2>1
  <2>3. b[z] = <<p[x], n>> /\ p[x] \in T /\ n \in 1 .. g[p[x]]
    BY <1>1, <2>2
  <2> QED BY <1>3, <2>3
<1>5. ASSUME NEW y \in Pairs(f, S), NEW z \in Pairs(f, S), b[y] = b[z] PROVE y = z
  <2>1. PICK x \in S : \E n \in 1 .. f[x] : y = <<x, n>>
    BY <1>2
  <2>2. PICK u \in S : \E m \in 1 .. f[u] : z = <<u, m>>
    BY <1>2
  <2>3. PICK n \in 1 .. f[x] : y = <<x, n>>
    BY <2>1
  <2>4. PICK m \in 1 .. f[u] : z = <<u, m>>
    BY <2>2
  <2>5. b[y] = <<p[x], n>> /\ b[z] = <<p[u], m>>
    BY <2>3, <2>4
  <2> QED BY <1>1, <1>5, <2>3, <2>4, <2>5
<1>6. ASSUME NEW z \in Pairs(g, T) PROVE \E y \in Pairs(f, S) : b[y] = z
  <2>1. PICK t \in T : \E n \in 1 .. g[t] : z = <<t, n>>
    BY <1>3
  <2>2. PICK x \in S : p[x] = t
    BY <1>1
  <2>3. PICK n \in 1 .. g[t] : z = <<t, n>>
    BY <2>1
  <2>4. <<x, n>> \in Pairs(f, S)
    BY <1>2, <2>2, <2>3
  <2> QED BY <2>2, <2>3, <2>4
<1>7. b \in Bijection(Pairs(f, S), Pairs(g, T))
  <2> HIDE DEF b
  <2> QED BY <1>4, <1>5, <1>6 DEF Bijection, Injection, IsInjective, Surjection
<1>8. IsFiniteSet(Pairs(f, S))
  BY PairsFinite
<1> HIDE DEF b
<1> QED BY <1>7, <1>8, FS_Bijection DEF Total, ExistsBijection

-----------------------------------------------------------------------------
(* Floored division.                                                       *)

\* Division with remainder.
LEMMA DivMod ==
  ASSUME NEW x \in Nat, NEW d \in Nat \ {0}
  PROVE  /\ x \div d \in Nat
         /\ x % d \in 0 .. d - 1
         /\ x = d * (x \div d) + (x % d)
OBVIOUS

\* The quotient is the only number that satisfies the division inequality.
LEMMA QuotientIs ==
  ASSUME NEW x \in Nat, NEW d \in Nat \ {0}, NEW q \in Nat, NEW r \in 0 .. d - 1,
         x = d * q + r
  PROVE  x \div d = q /\ x % d = r
OBVIOUS

\* Products of naturals are naturals.
LEMMA ProductNat ==
  ASSUME NEW a \in Nat, NEW b \in Nat
  PROVE  a * b \in Nat
OBVIOUS

\* Multiplication by a natural is monotone.
LEMMA ProductMono ==
  ASSUME NEW a \in Nat, NEW b \in Nat, NEW c \in Nat, b <= c
  PROVE  a * b <= a * c
OBVIOUS

\* The floored quotient, characterised by products (MulDiv).
LEMMA MulDivBounds ==
  ASSUME NEW a \in Nat, NEW b \in Nat, NEW d \in Nat \ {0}
  PROVE  /\ MulDiv(a, b, d) \in Nat
         /\ d * MulDiv(a, b, d) <= a * b
         /\ a * b < d * MulDiv(a, b, d) + d
<1> DEFINE p == a * b
<1>1. p \in Nat
  BY ProductNat
<1> HIDE DEF p
<1>2. /\ p \div d \in Nat
      /\ p % d \in 0 .. d - 1
      /\ p = d * (p \div d) + (p % d)
  BY <1>1, DivMod
<1>3. d * (p \div d) <= p /\ p < d * (p \div d) + d
  <2> DEFINE u == d * (p \div d)
  <2>1. u \in Nat
    BY <1>2, ProductNat
  <2> HIDE DEF u
  <2>2. p = u + (p % d)
    BY <1>2 DEF u
  <2>3. u <= p /\ p < u + d
    BY <1>1, <1>2, <2>1, <2>2
  <2> QED BY <2>3 DEF u
<1> QED BY <1>2, <1>3 DEF p, MulDiv

\* A factor of at most one never enlarges.
LEMMA MulDivShrinks ==
  ASSUME NEW a \in Nat, NEW b \in Nat, NEW d \in Nat \ {0}, b <= d
  PROVE  MulDiv(a, b, d) <= a
<1> DEFINE q == MulDiv(a, b, d)
<1>1. q \in Nat /\ d * q <= a * b
  BY MulDivBounds
<1>2. a * b <= a * d
  BY ProductMono
<1> HIDE DEF q
<1>3. ASSUME q >= a + 1 PROVE FALSE
  <2>1. d * (a + 1) <= d * q
    BY <1>1, <1>3, ProductMono
  <2>2. d * (a + 1) = a * d + d
    BY <1>1
  <2> QED BY <1>1, <1>2, <2>1, <2>2
<1>4. q <= a
  BY <1>1, <1>3
<1> QED BY <1>4 DEF q

\* A factor of at least one never shrinks.
LEMMA MulDivGrows ==
  ASSUME NEW a \in Nat, NEW b \in Nat, NEW d \in Nat \ {0}, b >= d
  PROVE  MulDiv(a, b, d) >= a
<1> DEFINE q == MulDiv(a, b, d)
<1>1. q \in Nat /\ a * b < d * q + d
  BY MulDivBounds
<1>2. a * d <= a * b
  BY ProductMono
<1> HIDE DEF q
<1>3. ASSUME q + 1 <= a PROVE FALSE
  <2>1. d * (q + 1) <= d * a
    BY <1>1, <1>3, ProductMono
  <2>2. d * (q + 1) = d * q + d /\ d * a = a * d
    BY <1>1
  <2> QED BY <1>1, <1>2, <2>1, <2>2
<1>4. q >= a
  BY <1>1, <1>3
<1> QED BY <1>4 DEF q

\* A defensive floor keeps a counter natural.
LEMMA MonusNat ==
  ASSUME NEW a \in Nat, NEW b \in Nat
  PROVE  Monus(a, b) \in Nat
BY DEF Monus

-----------------------------------------------------------------------------
(* Emission.                                                               *)

\* One era leads from natural totals to natural totals.
LEMMA NextEraType ==
  \A e \in EraState : NextEra[e] \in EraState
<1> SUFFICES ASSUME NEW e \in EraState PROVE NextEra[e] \in EraState
  OBVIOUS
<1>1. e.budget \in Nat /\ e.total \in Nat
  BY DEF EraState
<1>2. MulDiv(e.budget, 1, 2) \in Nat
  BY <1>1, MulDivBounds
<1>3. HeightsPerEra \in Nat \ {0}
  BY EngineAssumption
<1>4. e.budget \div HeightsPerEra \in Nat
  BY <1>1, <1>3, DivMod
<1>5. (e.budget \div HeightsPerEra) * HeightsPerEra \in Nat
  BY <1>3, <1>4, ProductNat
<1> QED BY <1>1, <1>2, <1>5 DEF NextEra, EraState

\* Eras is the sequence of eras (EraBudget).
LEMMA ErasLoop ==
  /\ \A n \in Nat : Eras(n) \in EraState
  /\ \A n \in Nat : Eras(n + 1) = NextEra[Eras(n)]
<1> DEFINE first == [budget |-> MulDiv(EmissionCap, 1, 2), total |-> 0]
<1>1. first \in EraState
  <2>1. MulDiv(EmissionCap, 1, 2) \in Nat
    BY EngineAssumption, MulDivBounds
  <2> QED BY <2>1 DEF EraState
<1>2. \A n : Eras(n) = Iterate(NextEra, first, n)
  BY DEF Eras
<1> HIDE DEF first
<1> QED BY <1>1, <1>2, NextEraType, IterateLoop

\* The reward per height is never negative (RewardPerHeight).
LEMMA RewardPerHeightNat ==
  ASSUME NEW n \in Nat
  PROVE  RewardPerHeight(n) \in Nat
<1>1. Eras(n).budget \in Nat
  BY ErasLoop DEF EraState
<1>2. HeightsPerEra \in Nat \ {0}
  BY EngineAssumption
<1> QED BY <1>1, <1>2, DivMod DEF RewardPerHeight, EraBudget

\* The total after one more era.
LEMMA ErasTotalStep ==
  ASSUME NEW n \in Nat
  PROVE  /\ Eras(n).total \in Nat
         /\ Eras(n + 1).total = Eras(n).total + RewardPerHeight(n) * HeightsPerEra
<1>1. Eras(n) \in EraState /\ Eras(n + 1) = NextEra[Eras(n)]
  BY ErasLoop
<1> QED BY <1>1 DEF NextEra, EraState, RewardPerHeight, EraBudget

\* What is emitted `elapsed' heights after genesis.
EmittedAfter(elapsed) ==
  Eras(elapsed \div HeightsPerEra).total
    + RewardPerHeight(elapsed \div HeightsPerEra) * (elapsed % HeightsPerEra)

\* The schedule is never negative (TotalEmittedAt).
LEMMA EmittedAfterNat ==
  ASSUME NEW x \in Nat
  PROVE  EmittedAfter(x) \in Nat
<1>1. HeightsPerEra \in Nat \ {0}
  BY EngineAssumption
<1>2. x \div HeightsPerEra \in Nat /\ x % HeightsPerEra \in Nat
  BY <1>1, DivMod
<1>3. RewardPerHeight(x \div HeightsPerEra) * (x % HeightsPerEra) \in Nat
  BY <1>2, RewardPerHeightNat, ProductNat
<1>4. Eras(x \div HeightsPerEra).total \in Nat
  BY <1>2, ErasTotalStep
<1> QED BY <1>3, <1>4 DEF EmittedAfter

(* The schedule never runs backwards: over any step of at most one era the *)
(* total emitted does not fall (TotalEmittedAt).                           *)
LEMMA EmittedAfterMono ==
  ASSUME NEW x \in Nat, NEW k \in 0 .. HeightsPerEra
  PROVE  EmittedAfter(x) <= EmittedAfter(x + k)
<1> DEFINE E == HeightsPerEra
           q == x \div E
           r == x % E
           R == RewardPerHeight(q)
<1>1. E \in Nat \ {0}
  BY EngineAssumption
<1>2. q \in Nat /\ r \in 0 .. E - 1 /\ x = E * q + r
  BY <1>1, DivMod
<1>3. R \in Nat /\ Eras(q).total \in Nat
  BY <1>2, RewardPerHeightNat, ErasTotalStep
<1>4. EmittedAfter(x) = Eras(q).total + R * r
  BY DEF EmittedAfter
<1> HIDE DEF E, q, r, R
<1>5. CASE r + k < E
  <2>1. x + k = E * q + (r + k) /\ x + k \in Nat /\ r + k \in 0 .. E - 1
    <3>1. E * q \in Nat
      BY <1>1, <1>2, ProductNat
    <3> QED BY <1>1, <1>2, <1>5, <3>1 DEF E
  <2>2. (x + k) \div E = q /\ (x + k) % E = r + k
    BY <1>1, <1>2, <2>1, QuotientIs
  <2>3. EmittedAfter(x + k) = Eras(q).total + R * (r + k)
    BY <2>2 DEF EmittedAfter, E, R
  <2>4. R * r <= R * (r + k) /\ R * r \in Nat /\ R * (r + k) \in Nat
    <3>1. r \in Nat /\ r + k \in Nat /\ r <= r + k
      BY <1>1, <1>2 DEF E
    <3> QED BY <1>3, <3>1, ProductMono, ProductNat
  <2> QED BY <1>3, <1>4, <2>3, <2>4
<1>6. CASE r + k >= E
  <2> DEFINE s == r + k - E
  <2>1. s \in 0 .. E - 1 /\ q + 1 \in Nat
    BY <1>1, <1>2, <1>6 DEF E
  <2>2. x + k = E * (q + 1) + s /\ x + k \in Nat
    <3>1. E * q \in Nat /\ E * (q + 1) = E * q + E
      BY <1>1, <1>2, ProductNat
    <3> QED BY <1>1, <1>2, <3>1 DEF E
  <2>3. (x + k) \div E = q + 1 /\ (x + k) % E = s
    <3> HIDE DEF s
    <3> QED BY <1>1, <2>1, <2>2, QuotientIs
  <2>4. EmittedAfter(x + k) = Eras(q + 1).total + RewardPerHeight(q + 1) * s
    BY <2>3 DEF EmittedAfter, E
  <2>5. Eras(q + 1).total = Eras(q).total + R * E
    BY <1>2, ErasTotalStep DEF R, E
  <2>6. RewardPerHeight(q + 1) * s \in Nat
    <3> HIDE DEF s
    <3> QED BY <1>1, <2>1, RewardPerHeightNat, ProductNat
  <2>7. R * r <= R * E /\ R * r \in Nat /\ R * E \in Nat
    <3>1. r \in Nat /\ E \in Nat /\ r <= E
      BY <1>1, <1>2
    <3> QED BY <1>3, <3>1, ProductMono, ProductNat
  <2> HIDE DEF s
  <2> QED BY <1>3, <1>4, <2>4, <2>5, <2>6, <2>7
<1> QED BY <1>1, <1>2, <1>5, <1>6 DEF E

-----------------------------------------------------------------------------
(* Splits.                                                                 *)

(* The three parts of a split are naturals that add up to the amount, so   *)
(* no base unit is lost or conjured (Split).                               *)
THEOREM SplitExact ==
  ASSUME NEW amount \in Nat
  PROVE  LET p == Split(amount)
         IN  /\ p.lshare \in Nat /\ p.liquidity \in Nat /\ p.pob \in Nat
             /\ p.lshare + p.liquidity + p.pob = amount
<1> DEFINE q == MulDiv(amount, 25, 100)
<1>1. q \in Nat /\ 100 * q <= amount * 25
  BY MulDivBounds
<1> HIDE DEF q
<1>2. q + q <= amount
  BY <1>1
<1> QED BY <1>1, <1>2 DEF Split, q

(* Likewise for the viral and the deep half of Proof of Brain (SplitPoB).  *)
THEOREM SplitPoBExact ==
  ASSUME NEW pob \in Nat
  PROVE  LET p == SplitPoB(pob)
         IN  p.viral \in Nat /\ p.deep \in Nat /\ p.viral + p.deep = pob
<1> DEFINE q == MulDiv(pob, 25, 100)
<1>1. q \in Nat /\ 100 * q <= pob * 25
  BY MulDivBounds
<1> HIDE DEF q
<1>2. q <= pob
  BY <1>1
<1> QED BY <1>1, <1>2 DEF SplitPoB, q

-----------------------------------------------------------------------------
(* The accumulator.                                                        *)

(* A step never lowers the accumulator, holds all of the inflow or none,   *)
(* and what it distributes is never more than it was given: the shares     *)
(* times the rise, scaled back, are at most the value that is no longer    *)
(* held (AccumulatorStep).                                                 *)
THEOREM AccumulatorStepSound ==
  ASSUME NEW acc \in Nat, NEW inflow \in Nat, NEW held \in Nat, NEW active \in Int
  PROVE  LET step == AccumulatorStep(acc, inflow, held, active)
         IN  /\ step.acc \in Nat /\ step.held \in Nat
             /\ step.acc >= acc
             /\ step.acc = acc \/ step.held = 0
             /\ active * (step.acc - acc) <= (inflow + held - step.held) * AccScale
<1> DEFINE total == inflow + held
           rise == MulDiv(total, AccScale, active)
<1>1. total \in Nat /\ AccScale \in Nat \ {0} /\ MinSharesForAccrual \in Nat \ {0}
  BY EngineAssumption
<1>2. CASE total = 0
  BY <1>1, <1>2 DEF AccumulatorStep
<1>3. CASE total # 0 /\ (active < MinSharesForAccrual \/ rise = 0 \/ acc + rise > MaxAmount)
  <2>1. AccumulatorStep(acc, inflow, held, active) = [acc |-> acc, held |-> total]
    BY <1>3 DEF AccumulatorStep
  <2> QED BY <1>1, <2>1
<1>4. CASE total # 0 /\ ~ (active < MinSharesForAccrual \/ rise = 0 \/ acc + rise > MaxAmount)
  <2>1. AccumulatorStep(acc, inflow, held, active) = [acc |-> acc + rise, held |-> 0]
    BY <1>4 DEF AccumulatorStep
  <2>2. active \in Nat \ {0}
    BY <1>1, <1>4
  <2> HIDE DEF total
  <2>3. rise \in Nat /\ active * rise <= total * AccScale
    BY <1>1, <2>2, MulDivBounds
  <2> HIDE DEF rise
  <2>4. (acc + rise) - acc = rise /\ inflow + held - 0 = total
    BY <2>3 DEF total
  <2> QED BY <2>1, <2>3, <2>4
<1> QED BY <1>2, <1>3, <1>4

-----------------------------------------------------------------------------
(* Positions.                                                              *)

\* An early end recovers a fraction of the principal (EarlyEndRecovery).
LEMMA RecoveryBounded ==
  ASSUME NEW m, m.start \in Nat, m.days \in Nat, NEW height \in Nat
  PROVE  EarlyEndRecovery(m, height) \in 0 .. MultScale
<1> DEFINE span == m.days * HeightsPerDay
           x == height - m.start
           y == MultScale - MinEarlyEndRecovery
<1>1. /\ MultScale \in Nat \ {0} /\ MinEarlyEndRecovery \in 0 .. MultScale
      /\ HeightsPerDay \in Nat \ {0}
  BY EngineAssumption
<1>2. span \in Nat
  BY <1>1, ProductNat
<1>3. CASE height <= m.start \/ IsMature(m, height)
  BY <1>1, <1>3 DEF EarlyEndRecovery
<1>4. CASE ~ (height <= m.start \/ IsMature(m, height))
  <2>1. EarlyEndRecovery(m, height) = MinEarlyEndRecovery + MulDiv(x, y, span)
    BY <1>4 DEF EarlyEndRecovery, MulDiv
  <2>2. height < m.start + span
    BY <1>2, <1>4 DEF IsMature, MaturityHeight
  <2> HIDE DEF span
  <2>3. x \in Nat /\ y \in Nat /\ span \in Nat \ {0} /\ x <= span
    BY <1>1, <1>2, <1>4, <2>2
  <2> HIDE DEF x, y
  <2>4. MulDiv(y, x, span) \in Nat /\ MulDiv(y, x, span) <= y
    BY <2>3, MulDivBounds, MulDivShrinks
  <2>5. MulDiv(x, y, span) = MulDiv(y, x, span)
    <3>1. x * y = y * x
      BY <2>3
    <3> QED BY <3>1, Zenon DEF MulDiv
  <2> QED BY <1>1, <2>1, <2>4, <2>5 DEF y
<1> QED BY <1>3, <1>4

\* The bleed leaves a fraction of the position (BleedRemaining).
LEMMA BleedBounded ==
  ASSUME NEW m, m.start \in Nat, m.days \in Nat, m.goodAccounting \in BOOLEAN,
         NEW height \in Nat
  PROVE  BleedRemaining(m, height) \in 0 .. MultScale
<1> DEFINE graceEnd == MaturityHeight(m) + GraceDaysFor(m) * HeightsPerDay
           span == BleedDays * HeightsPerDay
           left == span - (height - graceEnd)
<1>1. /\ MultScale \in Nat \ {0} /\ HeightsPerDay \in Nat \ {0}
      /\ GraceDays \in Nat /\ BleedDays \in Nat \ {0} /\ GoodAccountingGraceDays \in Nat
  BY EngineAssumption
<1>2. graceEnd \in Nat /\ span \in Nat
  <2>1. m.days * HeightsPerDay \in Nat
    BY <1>1, ProductNat
  <2>2. GraceDaysFor(m) \in Nat
    BY <1>1 DEF GraceDaysFor
  <2>3. GraceDaysFor(m) * HeightsPerDay \in Nat
    BY <1>1, <2>2, ProductNat
  <2> QED BY <1>1, <2>1, <2>3, ProductNat DEF MaturityHeight
<1>3. CASE height <= graceEnd \/ height - graceEnd >= span
  BY <1>1, <1>3 DEF BleedRemaining
<1>4. CASE ~ (height <= graceEnd \/ height - graceEnd >= span)
  <2>1. BleedRemaining(m, height) = MulDiv(left, MultScale, span)
    BY <1>4 DEF BleedRemaining, MulDiv
  <2> HIDE DEF graceEnd, span
  <2>2. left \in Nat /\ span \in Nat \ {0} /\ left <= span
    BY <1>2, <1>4
  <2> HIDE DEF left
  <2>3. MulDiv(MultScale, left, span) \in Nat /\ MulDiv(MultScale, left, span) <= MultScale
    BY <1>1, <2>2, MulDivBounds, MulDivShrinks
  <2>4. MulDiv(left, MultScale, span) = MulDiv(MultScale, left, span)
    <3>1. left * MultScale = MultScale * left
      BY <1>1, <2>2
    <3> QED BY <3>1, Zenon DEF MulDiv
  <2> QED BY <1>1, <2>1, <2>3, <2>4
<1> QED BY <1>3, <1>4

(* Whenever a position is settled, what its owner and the reward pool get  *)
(* are naturals that add up to its principal and its yield (Settle).       *)
THEOREM SettlementExact ==
  ASSUME NEW m, m.principal \in Nat, m.start \in Nat, m.days \in Nat,
         m.goodAccounting \in BOOLEAN, NEW height \in Nat, NEW accrued \in Nat
  PROVE  LET p == SettleMint(m, height, accrued)
         IN  /\ p.toOwner \in Nat /\ p.toRewardPool \in Nat
             /\ p.toOwner + p.toRewardPool = m.principal + accrued
<1> DEFINE total == m.principal + accrued
           bleed == BleedRemaining(m, height)
           recovery == EarlyEndRecovery(m, height)
<1>1. MultScale \in Nat \ {0} /\ total \in Nat
  BY EngineAssumption
<1>2. bleed \in 0 .. MultScale /\ recovery \in 0 .. MultScale
  BY RecoveryBounded, BleedBounded
<1> HIDE DEF bleed, recovery
<1>3. /\ MulDiv(total, bleed, MultScale) \in Nat
      /\ MulDiv(total, bleed, MultScale) <= total
  <2> HIDE DEF total
  <2>1. bleed \in Nat /\ bleed <= MultScale
    BY <1>1, <1>2
  <2> QED BY <1>1, <2>1, MulDivBounds, MulDivShrinks
<1>4. /\ MulDiv(m.principal, recovery, MultScale) \in Nat
      /\ MulDiv(m.principal, recovery, MultScale) <= m.principal
  <2>1. recovery \in Nat /\ recovery <= MultScale
    BY <1>1, <1>2
  <2> QED BY <1>1, <2>1, MulDivBounds, MulDivShrinks
<1>5. CASE IsMature(m, height)
  <2>1. SettleMint(m, height, accrued) =
          [toOwner |-> MulDiv(total, bleed, MultScale),
           toRewardPool |-> total - MulDiv(total, bleed, MultScale)]
    BY <1>5 DEF SettleMint, bleed
  <2> QED BY <1>1, <1>3, <2>1
<1>6. CASE ~ IsMature(m, height)
  <2>1. SettleMint(m, height, accrued) =
          [toOwner |-> MulDiv(m.principal, recovery, MultScale),
           toRewardPool |-> total - MulDiv(m.principal, recovery, MultScale)]
    BY <1>6 DEF SettleMint, recovery
  <2> QED BY <1>1, <1>4, <2>1
<1> QED BY <1>5, <1>6

\* The yield of a position grows with the accumulator.
LEMMA EntitlementMono ==
  ASSUME NEW shares \in Nat, NEW from \in Nat, NEW a \in Nat, NEW b \in Nat, a <= b
  PROVE  /\ Entitlement(shares, from, a) \in Nat
         /\ Entitlement(shares, from, b) \in Nat
         /\ Entitlement(shares, from, a) <= Entitlement(shares, from, b)
<1>1. AccScale \in Nat \ {0}
  BY EngineAssumption
<1>2. ASSUME NEW c \in Nat, c > from
      PROVE  /\ Entitlement(shares, from, c) = MulDiv(c - from, shares, AccScale)
             /\ Entitlement(shares, from, c) \in Nat
             /\ AccScale * Entitlement(shares, from, c) <= (c - from) * shares
             /\ (c - from) * shares < AccScale * Entitlement(shares, from, c) + AccScale
  <2> DEFINE rise == c - from
  <2>1. rise \in Nat
    BY <1>2
  <2>2. Entitlement(shares, from, c) = MulDiv(rise, shares, AccScale)
    BY <1>2 DEF Entitlement
  <2> HIDE DEF rise
  <2>3. /\ MulDiv(rise, shares, AccScale) \in Nat
        /\ AccScale * MulDiv(rise, shares, AccScale) <= rise * shares
        /\ rise * shares < AccScale * MulDiv(rise, shares, AccScale) + AccScale
    BY <1>1, <2>1, MulDivBounds
  <2> QED BY <2>2, <2>3 DEF rise
<1>3. ASSUME NEW c \in Nat, c <= from PROVE Entitlement(shares, from, c) = 0
  BY <1>3 DEF Entitlement
<1>4. CASE a <= from
  BY <1>2, <1>3, <1>4
<1>5. CASE a > from
  <2> DEFINE u == a - from
             v == b - from
             p == Entitlement(shares, from, a)
             q == Entitlement(shares, from, b)
  <2>1. u \in Nat /\ v \in Nat /\ u <= v /\ b > from
    BY <1>5
  <2>2. /\ p \in Nat /\ AccScale * p <= u * shares
        /\ q \in Nat /\ v * shares < AccScale * q + AccScale
    BY <1>2, <1>5, <2>1
  <2> HIDE DEF u, v, p, q
  <2>3. u * shares <= v * shares
    <3>1. shares * u <= shares * v
      BY <2>1, ProductMono
    <3>2. shares * u = u * shares /\ shares * v = v * shares
      BY <2>1
    <3> QED BY <3>1, <3>2
  <2>4. ASSUME q + 1 <= p PROVE FALSE
    <3>1. AccScale * (q + 1) <= AccScale * p
      BY <1>1, <2>2, <2>4, ProductMono
    <3>2. AccScale * (q + 1) = AccScale * q + AccScale
      BY <1>1, <2>2
    <3>3. /\ AccScale * q \in Nat /\ AccScale * p \in Nat
          /\ u * shares \in Nat /\ v * shares \in Nat
      BY <1>1, <2>1, <2>2, ProductNat
    <3> QED BY <1>1, <2>2, <2>3, <3>1, <3>2, <3>3
  <2>5. p \in Nat /\ q \in Nat /\ p <= q
    BY <2>2, <2>4
  <2> QED BY <2>5 DEF p, q
<1> QED BY <1>4, <1>5

\* The share rate of every year is positive: the ratchet only goes up.
LEMMA RateOfYearPositive ==
  ASSUME NEW n \in Nat
  PROVE  RateOfYear(n) \in Nat \ {0}
<1> DEFINE body == [rate \in Nat |-> MulDiv(rate, 100 + ShareRateRatchetPct, 100)]
           X == Nat \ {0}
<1>1. \A rate \in X : body[rate] \in X
  <2> TAKE rate \in X
  <2>1. rate \in Nat /\ 100 + ShareRateRatchetPct \in Nat /\ 100 + ShareRateRatchetPct >= 100
    BY EngineAssumption
  <2> DEFINE pct == 100 + ShareRateRatchetPct
  <2>2. body[rate] = MulDiv(rate, pct, 100)
    BY <2>1
  <2> HIDE DEF pct, body
  <2>3. pct \in Nat /\ pct >= 100
    BY <2>1 DEF pct
  <2>4. MulDiv(rate, pct, 100) \in Nat /\ MulDiv(rate, pct, 100) >= rate
    <3>1. rate \in Nat /\ 100 \in Nat \ {0}
      BY <2>1
    <3> QED BY <2>3, <3>1, MulDivBounds, MulDivGrows, Zenon
  <2> QED BY <2>2, <2>4
<1>2. GenesisShareRate \in X
  BY EngineAssumption
<1>3. RateOfYear(n) = Iterate(body, GenesisShareRate, n)
  BY DEF RateOfYear
<1> HIDE DEF body, X
<1>4. RateOfYear(n) \in X
  BY <1>1, <1>2, <1>3, IterateLoop
<1> QED BY <1>4 DEF X

\* The share rate is positive at every height, so minting never divides by 0
\* (ShareRate).
LEMMA ShareRatePositive ==
  ASSUME NEW height \in Nat
  PROVE  ShareRate(height) \in Nat \ {0}
<1>1. CASE height <= GenesisHeight
  BY <1>1, EngineAssumption DEF ShareRate
<1>2. CASE ~ (height <= GenesisHeight)
  <2> DEFINE elapsed == height - GenesisHeight
             year == elapsed \div HeightsPerYear
             part == ShareRateRatchetPct * (elapsed % HeightsPerYear)
             span == 100 * HeightsPerYear
  <2>1. elapsed \in Nat /\ HeightsPerYear \in Nat \ {0} /\ ShareRateRatchetPct \in Nat
    BY <1>2, EngineAssumption
  <2>2. ShareRate(height) = RateOfYear(year) + MulDiv(RateOfYear(year), part, span)
    BY <1>2 DEF ShareRate
  <2> HIDE DEF elapsed
  <2>3. year \in Nat /\ elapsed % HeightsPerYear \in Nat
    BY <2>1, DivMod
  <2>4. part \in Nat
    BY <2>1, <2>3, ProductNat
  <2>5. span \in Nat \ {0}
    BY <2>1
  <2> HIDE DEF year, part, span
  <2>6. RateOfYear(year) \in Nat \ {0}
    BY <2>3, RateOfYearPositive
  <2>7. MulDiv(RateOfYear(year), part, span) \in Nat
    BY <2>4, <2>5, <2>6, MulDivBounds
  <2> QED BY <2>2, <2>6, <2>7
<1> QED BY <1>1, <1>2

\* The bonuses for length and size are never negative.
LEMMA MultipliersNat ==
  /\ \A days \in Nat : DurationMultiplier(days) \in Nat
  /\ \A p, from, to \in Nat : VolumeMultiplier(p, from, to) \in Nat
<1>1. /\ MultScale \in Nat /\ MaxDurationBonus \in Nat /\ MaxVolumeBonus \in Nat
      /\ MinMintDays \in Nat /\ MaxMintDays \in Nat /\ MinMintDays < MaxMintDays
  BY EngineAssumption
<1>2. ASSUME NEW days \in Nat PROVE DurationMultiplier(days) \in Nat
  <2>1. CASE days <= MinMintDays \/ days >= MaxMintDays
    BY <1>1, <2>1 DEF DurationMultiplier
  <2>2. CASE ~ (days <= MinMintDays \/ days >= MaxMintDays)
    <3> DEFINE x == days - MinMintDays
               d == MaxMintDays - MinMintDays
    <3>1. x \in Nat /\ d \in Nat \ {0}
      BY <1>1, <2>2
    <3>2. DurationMultiplier(days) = MultScale + MulDiv(x, MaxDurationBonus, d)
      BY <2>2 DEF DurationMultiplier, MulDiv
    <3> HIDE DEF x, d
    <3>3. MulDiv(x, MaxDurationBonus, d) \in Nat
      BY <1>1, <3>1, MulDivBounds
    <3> QED BY <1>1, <3>2, <3>3
  <2> QED BY <2>1, <2>2
<1>3. ASSUME NEW p \in Nat, NEW from \in Nat, NEW to \in Nat
      PROVE  VolumeMultiplier(p, from, to) \in Nat
  <2>1. CASE to <= from \/ p <= from \/ p >= to
    BY <1>1, <2>1 DEF VolumeMultiplier
  <2>2. CASE ~ (to <= from \/ p <= from \/ p >= to)
    <3> DEFINE x == p - from
               d == to - from
    <3>1. x \in Nat /\ d \in Nat \ {0}
      BY <2>2
    <3>2. VolumeMultiplier(p, from, to) = MultScale + MulDiv(x, MaxVolumeBonus, d)
      BY <2>2 DEF VolumeMultiplier
    <3> HIDE DEF x, d
    <3>3. MulDiv(x, MaxVolumeBonus, d) \in Nat
      BY <1>1, <3>1, MulDivBounds
    <3> QED BY <1>1, <3>2, <3>3
  <2> QED BY <2>1, <2>2
<1> QED BY <1>2, <1>3

\* A position receives a natural number of shares (ComputeShares).
LEMMA ComputeSharesNat ==
  ASSUME NEW principal \in Nat, NEW days \in Nat, NEW p,
         p.volumeStart \in Nat, p.volumeEnd \in Nat, p.shareRate \in Nat \ {0}
  PROVE  ComputeShares(principal, days, p) \in Nat
<1> DEFINE base == MulDiv(principal, ShareUnit, p.shareRate)
           d == DurationMultiplier(days)
           v == VolumeMultiplier(principal, p.volumeStart, p.volumeEnd)
           with == MulDiv(base, d, MultScale)
<1>1. MultScale \in Nat \ {0} /\ ShareUnit \in Nat
  BY EngineAssumption
<1>2. d \in Nat /\ v \in Nat
  BY MultipliersNat
<1>3. base \in Nat
  BY <1>1, MulDivBounds
<1> HIDE DEF base, d, v
<1>4. with \in Nat
  BY <1>1, <1>2, <1>3, MulDivBounds
<1> HIDE DEF with
<1>5. MulDiv(with, v, MultScale) \in Nat
  BY <1>1, <1>2, <1>4, MulDivBounds
<1> QED BY <1>5 DEF ComputeShares, with, base, d, v

\* A fixed part of more is no less.
LEMMA MulDivMono ==
  ASSUME NEW a \in Nat, NEW c \in Nat, a <= c, NEW b \in Nat, NEW d \in Nat \ {0}
  PROVE  MulDiv(a, b, d) <= MulDiv(c, b, d)
<1> DEFINE p == MulDiv(a, b, d)
           q == MulDiv(c, b, d)
<1>1. p \in Nat /\ d * p <= a * b /\ q \in Nat /\ c * b < d * q + d
  BY MulDivBounds
<1>2. a * b <= c * b
  <2>1. b * a <= b * c
    BY ProductMono
  <2> QED BY <2>1
<1> HIDE DEF p, q
<1>3. ASSUME q + 1 <= p PROVE FALSE
  <2>1. d * (q + 1) <= d * p
    BY <1>1, <1>3, ProductMono
  <2>2. d * (q + 1) = d * q + d
    BY <1>1
  <2>3. d * q \in Nat /\ d * p \in Nat /\ a * b \in Nat /\ c * b \in Nat
    BY <1>1, ProductNat
  <2> QED BY <1>1, <1>2, <2>1, <2>2, <2>3
<1>4. p <= q
  BY <1>1, <1>3
<1> QED BY <1>4 DEF p, q

\* More yield never pays the owner less.
LEMMA SettlementMono ==
  ASSUME NEW m, m.principal \in Nat, m.start \in Nat, m.days \in Nat,
         m.goodAccounting \in BOOLEAN, NEW height \in Nat,
         NEW less \in Nat, NEW more \in Nat, less <= more
  PROVE  /\ SettleMint(m, height, less).toOwner \in Nat
         /\ SettleMint(m, height, more).toOwner \in Nat
         /\ SettleMint(m, height, less).toOwner <= SettleMint(m, height, more).toOwner
<1> DEFINE bleed == BleedRemaining(m, height)
           recovered == MulDiv(m.principal, EarlyEndRecovery(m, height), MultScale)
           owner(y) == IF IsMature(m, height) THEN MulDiv(m.principal + y, bleed, MultScale) ELSE recovered
<1>1. /\ SettleMint(m, height, less).toOwner = owner(less)
      /\ SettleMint(m, height, more).toOwner = owner(more)
  BY DEF SettleMint
<1>2. /\ SettleMint(m, height, less).toOwner \in Nat
      /\ SettleMint(m, height, more).toOwner \in Nat
  BY SettlementExact
<1>3. bleed \in Nat /\ MultScale \in Nat \ {0}
  BY BleedBounded, EngineAssumption
<1>4. CASE IsMature(m, height)
  <2> HIDE DEF bleed
  <2>1. m.principal + less \in Nat /\ m.principal + more \in Nat /\ m.principal + less <= m.principal + more
    OBVIOUS
  <2>2. MulDiv(m.principal + less, bleed, MultScale) <= MulDiv(m.principal + more, bleed, MultScale)
    BY <1>3, <2>1, MulDivMono
  <2> QED BY <1>1, <1>2, <1>4, <2>2
<1>5. CASE ~ IsMature(m, height)
  <2> HIDE DEF recovered
  <2>1. owner(less) = owner(more)
    BY <1>5
  <2> HIDE DEF owner
  <2> QED BY <1>1, <1>2, <2>1
<1> QED BY <1>4, <1>5
=============================================================================
