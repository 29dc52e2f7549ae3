--------------------------- MODULE Services_proofs ---------------------------
(***************************************************************************)
(* Proofs about the health score, for any data of the other services, and  *)
(* about MCServices, which puts the services in one specification.  A step *)
(* of MCServices is a step of one service and leaves the variables of the  *)
(* others alone, so what the other modules prove of a service on its own   *)
(* holds of it there.  Detection and reminders share the expenses, so for  *)
(* them it holds in the behaviours that explore them.                      *)
(***************************************************************************)
EXTENDS MCServices, Access_proofs, Reminders_proofs, FinanceData_proofs, ChatWorkflow_proofs,
        FiniteSetTheorems, TLAPS

-----------------------------------------------------------------------------
(* Sums *)

Pick(s) == CHOOSE x \in s : TRUE

\* g holds the sums of f over the subsets of T.
Adds(g, f, T) ==
    g = [s \in SUBSET T |-> IF s = {} THEN 0 ELSE f[Pick(s)] + g[s \ {Pick(s)}]]

(* What holds of every subset of a finite set whose proper subsets have it *)
(* holds of the set: Good is the set of the subsets that have it.          *)
LEMMA SubsetInduction ==
    ASSUME NEW T, IsFiniteSet(T), NEW Good,
           \A s \in SUBSET T : (\A r \in SUBSET s : r # s => r \in Good) => s \in Good
    PROVE  \A s \in SUBSET T : s \in Good
<1> SUFFICES ASSUME \E s \in SUBSET T : s \notin Good
             PROVE  FALSE
    OBVIOUS
<1> DEFINE Bad == {s \in SUBSET T : s \notin Good}
<1>1. Bad \subseteq FiniteSubsetsOf(T) /\ Bad # {}
    BY FS_FiniteSubsetsOfFinite
<1>4. \E s \in Bad : \A r \in Bad : ~(<<r, s>> \in StrictSubsetOrdering(T))
    <2> HIDE DEF Bad
    <2> QED BY <1>1, FS_StrictSubsetOrderingWellFounded, WFMin
<1>5. PICK s \in Bad : \A r \in Bad : ~(<<r, s>> \in StrictSubsetOrdering(T))
    BY <1>4
<1>6. ASSUME NEW r \in SUBSET s, r # s
      PROVE  r \in Good
    BY <1>5, <1>6 DEF StrictSubsetOrdering
<1> QED BY <1>5, <1>6

LEMMA PickInside == ASSUME NEW s, s # {} PROVE Pick(s) \in s
    BY DEF Pick

LEMMA OneSum ==
    ASSUME NEW T, IsFiniteSet(T), NEW f, NEW g, NEW h, Adds(g, f, T), Adds(h, f, T)
    PROVE  g = h
<1> DEFINE Good == {s \in SUBSET T : g[s] = h[s]}
<1>1. ASSUME NEW s \in SUBSET T, \A r \in SUBSET s : r # s => r \in Good
      PROVE  s \in Good
    <2>1. CASE s = {}
        BY <2>1 DEF Adds
    <2>2. CASE s # {}
        <3> DEFINE r == s \ {Pick(s)}
        <3>1. r \in SUBSET s /\ r # s
            BY <2>2, PickInside
        <3>2. g[r] = h[r]
            BY <1>1, <3>1
        <3>3. g[s] = f[Pick(s)] + g[r] /\ h[s] = f[Pick(s)] + h[r]
            BY <2>2, Zenon DEF Adds
        <3> QED BY <3>2, <3>3
    <2> QED BY <2>1, <2>2
<1>2. \A s \in SUBSET T : s \in Good
    <2> HIDE DEF Good
    <2> QED BY <1>1, SubsetInduction
<1>3. DOMAIN g = SUBSET T /\ DOMAIN h = SUBSET T
      /\ g = [s \in DOMAIN g |-> g[s]] /\ h = [s \in DOMAIN h |-> h[s]]
    BY DEF Adds
<1> QED BY <1>2, <1>3

LEMMA SumsOfASubset ==
    ASSUME NEW T, NEW U \in SUBSET T, NEW f, NEW g, Adds(g, f, T)
    PROVE  Adds([s \in SUBSET U |-> g[s]], f, U)
<1> DEFINE h == [s \in SUBSET U |-> g[s]]
<1>1. ASSUME NEW s \in SUBSET U
      PROVE  h[s] = IF s = {} THEN 0 ELSE f[Pick(s)] + h[s \ {Pick(s)}]
    <2>1. g[s] = IF s = {} THEN 0 ELSE f[Pick(s)] + g[s \ {Pick(s)}]
        BY Zenon DEF Adds
    <2>2. s \ {Pick(s)} \in SUBSET U
        OBVIOUS
    <2> QED BY <2>1, <2>2
<1> QED BY <1>1 DEF Adds

LEMMA SumsExist ==
    ASSUME NEW T, IsFiniteSet(T), NEW f
    PROVE  \E g : Adds(g, f, T)
<1> DEFINE Good == {s \in SUBSET T : \E g : Adds(g, f, s)}
<1>1. ASSUME NEW t \in SUBSET T, \A r \in SUBSET t : r # t => r \in Good
      PROVE  t \in Good
    <2> DEFINE G(r) == CHOOSE g : Adds(g, f, r)
               h == [s \in SUBSET t |-> IF s = {} THEN 0
                                        ELSE f[Pick(s)] + G(s \ {Pick(s)})[s \ {Pick(s)}]]
    <2>1. \A r \in SUBSET t : r # t => Adds(G(r), f, r)
        BY <1>1
    <2>2. ASSUME NEW s \in SUBSET t, s # {}
          PROVE  h[s] = f[Pick(s)] + h[s \ {Pick(s)}]
        <3> DEFINE r == s \ {Pick(s)}
                   q == r \ {Pick(r)}
        <3>1. r \in SUBSET t /\ r # t /\ r \in SUBSET T
            BY <2>2, PickInside
        <3>2. Adds(G(r), f, r)
            BY <2>1, <3>1
        <3>3. h[s] = f[Pick(s)] + G(r)[r]
            BY <2>2
        <3>4. CASE r = {}
            BY <3>1, <3>2, <3>3, <3>4 DEF Adds
        <3>5. CASE r # {}
            <4>1. q \in SUBSET r /\ q # r /\ q \in SUBSET t /\ q # t
                BY <3>1, <3>5, PickInside
            <4>2. Adds(G(q), f, q)
                BY <2>1, <4>1
            <4>3. Adds([u \in SUBSET q |-> G(r)[u]], f, q)
                <5>1. q \in SUBSET r
                    BY <4>1
                <5> HIDE DEF G, q, r
                <5> QED BY <3>2, <5>1, SumsOfASubset
            <4>4. IsFiniteSet(q)
                BY <4>1, <3>1, FS_Subset
            <4>5. G(q) = [u \in SUBSET q |-> G(r)[u]]
                <5> HIDE DEF G, q
                <5> QED BY <4>2, <4>3, <4>4, OneSum
            <4>6. G(q)[q] = G(r)[q]
                <5> HIDE DEF G, q
                <5> QED BY <4>5
            <4>7. G(r)[r] = f[Pick(r)] + G(r)[q]
                BY <3>2, <3>5, Zenon DEF Adds
            <4>8. h[r] = f[Pick(r)] + G(q)[q]
                BY <3>1, <3>5
            <4> QED BY <3>3, <4>6, <4>7, <4>8
        <3> QED BY <3>4, <3>5
    <2>3. h[{}] = 0
        OBVIOUS
    <2>4. Adds(h, f, t)
        <3>1. h = [s \in SUBSET t |-> h[s]]
            OBVIOUS
        <3>2. \A s \in SUBSET t : h[s] = IF s = {} THEN 0 ELSE f[Pick(s)] + h[s \ {Pick(s)}]
            <4> HIDE DEF h, G
            <4> QED BY <2>2, <2>3
        <3> HIDE DEF h
        <3> QED BY <3>1, <3>2 DEF Adds
    <2> QED BY <2>4
<1>2. T \in Good
    <2> HIDE DEF Good
    <2> QED BY <1>1, SubsetInduction
<1> QED BY <1>2

\* The sum of a part of a finite function, taken as the library takes it.
LEMMA SumByAdds ==
    ASSUME NEW f, NEW T, IsFiniteSet(T)
    PROVE  \A g : Adds(g, f, T) => SumFunctionOnSet(f, T) = g[T]
<1>1. PICK g : Adds(g, f, T)
    BY SumsExist
<1> DEFINE h == CHOOSE x : Adds(x, f, T)
<1>2. Adds(h, f, T)
    BY <1>1
<1>3. SumFunctionOnSet(f, T) = h[T]
    BY Zenon DEF SumFunctionOnSet, FoldFunctionOnSet, MapThenFoldSet, Adds, Pick
<1> HIDE DEF h
<1> QED BY <1>2, <1>3, OneSum

LEMMA SumOfNone == ASSUME NEW f PROVE SumFunctionOnSet(f, {}) = 0
<1>1. IsFiniteSet({})
    BY FS_EmptySet
<1>2. PICK g : Adds(g, f, {})
    BY <1>1, SumsExist
<1> QED BY <1>1, <1>2, SumByAdds DEF Adds

LEMMA SumOfMore ==
    ASSUME NEW f, NEW T, IsFiniteSet(T), T # {}
    PROVE  \E x \in T : SumFunctionOnSet(f, T) = f[x] + SumFunctionOnSet(f, T \ {x})
<1> DEFINE x == Pick(T)
           U == T \ {x}
<1>1. PICK g : Adds(g, f, T)
    BY SumsExist
<1>2. x \in T /\ U \in SUBSET T
    BY PickInside
<1>3. IsFiniteSet(U)
    BY <1>2, FS_Subset
<1>4. g[T] = f[x] + g[U]
    BY <1>1, Zenon DEF Adds
<1>5. Adds([s \in SUBSET U |-> g[s]], f, U)
    BY <1>1, <1>2, SumsOfASubset
<1>6. SumFunctionOnSet(f, U) = [s \in SUBSET U |-> g[s]][U]
    <2> HIDE DEF U
    <2> QED BY <1>3, <1>5, SumByAdds
<1>7. SumFunctionOnSet(f, U) = g[U]
    <2> HIDE DEF U
    <2> QED BY <1>6
<1>8. SumFunctionOnSet(f, T) = g[T]
    BY <1>1, SumByAdds
<1> HIDE DEF x
<1> QED BY <1>2, <1>4, <1>7, <1>8


LEMMA IntegerSum ==
    ASSUME NEW f, NEW T, IsFiniteSet(T), \A x \in T : f[x] \in Int
    PROVE  SumFunctionOnSet(f, T) \in Int
<1> DEFINE Good == {s \in SUBSET T : SumFunctionOnSet(f, s) \in Int}
<1>1. ASSUME NEW s \in SUBSET T, \A r \in SUBSET s : r # s => r \in Good
      PROVE  s \in Good
    <2>1. IsFiniteSet(s)
        BY FS_Subset
    <2>2. CASE s = {}
        BY <2>2, SumOfNone
    <2>3. CASE s # {}
        <3>1. PICK x \in s : SumFunctionOnSet(f, s) = f[x] + SumFunctionOnSet(f, s \ {x})
            BY <2>1, <2>3, SumOfMore
        <3>2. SumFunctionOnSet(f, s \ {x}) \in Int
            BY <1>1
        <3>3. f[x] \in Int
            OBVIOUS
        <3> QED BY <3>1, <3>2, <3>3
    <2> QED BY <2>2, <2>3
<1>2. T \in Good
    <2> HIDE DEF Good
    <2> QED BY <1>1, SubsetInduction
<1> QED BY <1>2

(* Of any element of a finite set, the sum is what it adds and the rest. *)
LEMMA SumOfOneAndRest ==
    ASSUME NEW f, NEW T, IsFiniteSet(T), \A x \in T : f[x] \in Int, NEW y \in T
    PROVE  SumFunctionOnSet(f, T) = f[y] + SumFunctionOnSet(f, T \ {y})
<1> DEFINE Good == {s \in SUBSET T :
                       \A z \in s : SumFunctionOnSet(f, s) = f[z] + SumFunctionOnSet(f, s \ {z})}
<1>1. ASSUME NEW s \in SUBSET T, \A r \in SUBSET s : r # s => r \in Good
      PROVE  s \in Good
    <2> SUFFICES ASSUME NEW z \in s
                 PROVE  SumFunctionOnSet(f, s) = f[z] + SumFunctionOnSet(f, s \ {z})
        OBVIOUS
    <2>1. IsFiniteSet(s) /\ \A r \in SUBSET s : IsFiniteSet(r)
        BY FS_Subset
    <2>2. PICK x \in s : SumFunctionOnSet(f, s) = f[x] + SumFunctionOnSet(f, s \ {x})
        BY <2>1, SumOfMore
    <2>3. CASE z # x
        <3> DEFINE r == s \ {x}
                   q == s \ {z}
                   o == r \ {z}
        <3>1. r \in SUBSET s /\ r # s /\ q \in SUBSET s /\ q # s /\ z \in r /\ x \in q
              /\ q \ {x} = o /\ o \in SUBSET T /\ r \in SUBSET T /\ q \in SUBSET T
            BY <2>3
        <3>2. SumFunctionOnSet(f, r) = f[z] + SumFunctionOnSet(f, o)
            BY <1>1, <3>1
        <3>3. SumFunctionOnSet(f, q) = f[x] + SumFunctionOnSet(f, q \ {x})
            <4> HIDE DEF q
            <4> QED BY <1>1, <3>1
        <3>4. IsFiniteSet(o)
            BY <2>1
        <3>5. SumFunctionOnSet(f, o) \in Int
            <4> HIDE DEF o
            <4> QED BY <3>1, <3>4, IntegerSum
        <3>6. f[z] \in Int /\ f[x] \in Int
            OBVIOUS
        <3>7. SumFunctionOnSet(f, s) = f[x] + SumFunctionOnSet(f, r)
            BY <2>2
        <3>8. SumFunctionOnSet(f, q) = f[x] + SumFunctionOnSet(f, o)
            BY <3>1, <3>3
        <3> HIDE DEF r, q, o
        <3>9. SumFunctionOnSet(f, s) = f[z] + SumFunctionOnSet(f, q)
            BY <3>2, <3>5, <3>6, <3>7, <3>8
        <3> QED BY <3>9 DEF q
    <2> QED BY <2>2, <2>3
<1>2. T \in Good
    <2> HIDE DEF Good
    <2> QED BY <1>1, SubsetInduction
<1> QED BY <1>2

\* A linear bound on the terms, of i times one and j times the other, adds up.
LEMMA DistributedSum ==
    ASSUME NEW i \in Int, NEW j \in Int, NEW a \in Int, NEW b \in Int, NEW c \in Int, NEW d \in Int,
           i * a <= j * c, i * b <= j * d
    PROVE  i * (a + b) <= j * (c + d)
<1>1. i * (a + b) = i * a + i * b /\ j * (c + d) = j * c + j * d
    OBVIOUS
<1> DEFINE p == i * a
           q == i * b
           r == j * c
           s == j * d
<1>2. p \in Int /\ q \in Int /\ r \in Int /\ s \in Int /\ p <= r /\ q <= s
      /\ i * (a + b) = p + q /\ j * (c + d) = r + s
    BY <1>1
<1> HIDE DEF p, q, r, s
<1> QED BY <1>2

LEMMA BoundedSums ==
    ASSUME NEW f, NEW w, NEW i \in Int, NEW j \in Int, NEW T, IsFiniteSet(T),
           \A x \in T : f[x] \in Int /\ w[x] \in Int /\ i * w[x] <= j * f[x]
    PROVE  i * SumFunctionOnSet(w, T) <= j * SumFunctionOnSet(f, T)
<1> DEFINE Good == {s \in SUBSET T : i * SumFunctionOnSet(w, s) <= j * SumFunctionOnSet(f, s)}
<1>1. ASSUME NEW s \in SUBSET T, \A r \in SUBSET s : r # s => r \in Good
      PROVE  s \in Good
    <2>1. IsFiniteSet(s)
        BY FS_Subset
    <2>2. CASE s = {}
        <3>1. SumFunctionOnSet(w, s) = 0 /\ SumFunctionOnSet(f, s) = 0
            BY <2>2, SumOfNone
        <3>2. i * 0 <= j * 0
            OBVIOUS
        <3> QED BY <3>1, <3>2
    <2>3. CASE s # {}
        <3>1. PICK x \in s : TRUE
            BY <2>3
        <3> DEFINE r == s \ {x}
        <3>2. r \in SUBSET s /\ r # s /\ r \in SUBSET T
            OBVIOUS
        <3>3. IsFiniteSet(r)
            BY <2>1, <3>2, FS_Subset
        <3>4. r \in Good
            BY <1>1, <3>2
        <3>5. SumFunctionOnSet(f, s) = f[x] + SumFunctionOnSet(f, r)
              /\ SumFunctionOnSet(w, s) = w[x] + SumFunctionOnSet(w, r)
            BY <2>1, SumOfOneAndRest
        <3>6. SumFunctionOnSet(f, r) \in Int /\ SumFunctionOnSet(w, r) \in Int
            <4> HIDE DEF r
            <4> QED BY <3>2, <3>3, IntegerSum
        <3>7. f[x] \in Int /\ w[x] \in Int /\ i * w[x] <= j * f[x]
              /\ i * SumFunctionOnSet(w, r) <= j * SumFunctionOnSet(f, r)
            BY <3>4
        <3> HIDE DEF r
        <3>8. i * (w[x] + SumFunctionOnSet(w, r)) <= j * (f[x] + SumFunctionOnSet(f, r))
            BY <3>6, <3>7, DistributedSum
        <3> QED BY <3>5, <3>8
    <2> QED BY <2>2, <2>3
<1>2. T \in Good
    <2> HIDE DEF Good
    <2> QED BY <1>1, SubsetInduction
<1> QED BY <1>2

\* What is nowhere negative adds up to at least each of its terms.
LEMMA NaturalSum ==
    ASSUME NEW f, NEW T, IsFiniteSet(T), \A x \in T : f[x] \in Nat
    PROVE  /\ SumFunctionOnSet(f, T) \in Nat
           /\ \A x \in T : f[x] <= SumFunctionOnSet(f, T)
<1>1. ASSUME NEW S \in SUBSET T
      PROVE  SumFunctionOnSet(f, S) \in Nat
    <2>1. IsFiniteSet(S)
        BY FS_Subset
    <2>2. \A x \in S : f[x] \in Int /\ 0 * f[x] <= 1 * f[x]
        OBVIOUS
    <2>3. 0 * SumFunctionOnSet(f, S) <= 1 * SumFunctionOnSet(f, S)
        BY <2>1, <2>2, BoundedSums
    <2>4. SumFunctionOnSet(f, S) \in Int
        BY <2>1, IntegerSum
    <2> QED BY <2>3, <2>4
<1>2. ASSUME NEW x \in T
      PROVE  f[x] <= SumFunctionOnSet(f, T)
    <2>1. SumFunctionOnSet(f, T) = f[x] + SumFunctionOnSet(f, T \ {x})
        BY SumOfOneAndRest
    <2>2. SumFunctionOnSet(f, T \ {x}) \in Nat /\ f[x] \in Nat
        BY <1>1
    <2> QED BY <2>1, <2>2
<1> QED BY <1>1, <1>2

-----------------------------------------------------------------------------
(* The score *)

LEMMA QuotientBounds ==
    ASSUME NEW a \in Int, NEW b \in Nat, b > 0
    PROVE  /\ a \div b \in Int
           /\ b * (a \div b) <= a
           /\ a < b * (a \div b) + b
    OBVIOUS

LEMMA FiniteSums ==
    ASSUME NEW f, IsFiniteSet(DOMAIN f)
    PROVE  /\ (\A x \in DOMAIN f : f[x] \in Int) => SumFunction(f) \in Int
           /\ (\A x \in DOMAIN f : f[x] \in Nat) =>
                 SumFunction(f) \in Nat /\ \A x \in DOMAIN f : f[x] <= SumFunction(f)
    BY IntegerSum, NaturalSum DEF SumFunction

LEMMA FiniteNames ==
    /\ \A S \in SUBSET DOMAIN Weights : IsFiniteSet(S)
    /\ \A S \in SUBSET Categories : IsFiniteSet(S)
<1>1. \A x : IsFiniteSet({x})
    BY FS_Singleton
<1>2. DOMAIN Weights = {"cashflow"} \union {"debt"} \union {"reserve"} \union {"budget"}
                       \union {"clarity"} \union {"goal"} \union {"stability"}
    BY DEF Weights
<1>3. Categories = {"transfers"} \union {"rent"} \union {"credits"} \union {"fun"}
    BY DEF Categories
<1>4. IsFiniteSet({"cashflow"} \union {"debt"} \union {"reserve"} \union {"budget"})
    BY <1>1, FS_Union
<1>5. IsFiniteSet(DOMAIN Weights)
    <2>1. IsFiniteSet({"clarity"} \union {"goal"} \union {"stability"})
        BY <1>1, FS_Union
    <2> DEFINE X == {"cashflow"} \union {"debt"} \union {"reserve"} \union {"budget"}
               Y == {"clarity"} \union {"goal"} \union {"stability"}
    <2>2. DOMAIN Weights = X \union Y
        BY <1>2
    <2>3. IsFiniteSet(X) /\ IsFiniteSet(Y)
        BY <1>4, <2>1
    <2> HIDE DEF X, Y
    <2>4. IsFiniteSet(X \union Y)
        BY <2>3, FS_Union
    <2> QED BY <2>2, <2>4
<1>6. IsFiniteSet(Categories)
    BY <1>1, <1>3, FS_Union
<1> QED BY <1>5, <1>6, FS_Subset

LEMMA WholeWeights == \A k \in DOMAIN Weights : Weights[k] \in Nat /\ Weights[k] > 0
    BY DEF Weights

LEMMA PercentsAre == \A x : x \in Percents <=> x \in Int /\ 0 <= x /\ x <= 10000
<1>1. ASSUME NEW x \in Percents
      PROVE  x \in Int /\ 0 <= x /\ x <= 10000
    BY <1>1 DEF Percents
<1>2. ASSUME NEW x \in Int, 0 <= x, x <= 10000
      PROVE  x \in Percents
    BY <1>2 DEF Percents
<1> QED BY <1>1, <1>2

\* A number between others times a positive one is between their products.
LEMMA Scaled ==
    ASSUME NEW a \in Int, NEW b \in Int, NEW w \in Nat, a <= b
    PROVE  a * w <= b * w
    OBVIOUS

(* The weighted mean, rounded down: not all of the scores are above it, *)
(* and not all are below.                                               *)
LEMMA MeanIsBetween ==
    ASSUME NEW S, IsFiniteSet(S), S # {}, NEW v, NEW w,
           \A k \in S : v[k] \in Int /\ w[k] \in Nat /\ w[k] > 0
    PROVE  LET A == SumFunction([k \in S |-> v[k] * w[k]])
               W == SumFunction([k \in S |-> w[k]]) IN
           /\ A \in Int /\ W \in Nat /\ W > 0
           /\ A \div W \in Int
           /\ \E k \in S : v[k] <= A \div W
           /\ \E k \in S : v[k] >= A \div W
<1> DEFINE f == [k \in S |-> v[k] * w[k]]
           g == [k \in S |-> w[k]]
           A == SumFunction(f)
           W == SumFunction(g)
           q == A \div W
<1>1. \A k \in S : f[k] \in Int /\ g[k] \in Nat /\ g[k] > 0 /\ f[k] = v[k] * w[k] /\ g[k] = w[k]
    OBVIOUS
<1>2. A = SumFunctionOnSet(f, S) /\ W = SumFunctionOnSet(g, S)
    BY DEF SumFunction
<1> HIDE DEF f, g
<1>3. A \in Int /\ W \in Nat /\ \A k \in S : g[k] <= W
    <2> HIDE DEF A, W
    <2> QED BY <1>1, <1>2, IntegerSum, NaturalSum
<1>4. W > 0
    <2> HIDE DEF A, W
    <2> QED BY <1>1, <1>3
<1>5. q \in Int /\ W * q <= A /\ A < W * q + W
    <2> HIDE DEF A, W
    <2> QED BY <1>3, <1>4, QuotientBounds
<1>6. \E k \in S : v[k] <= q
    <2> SUFFICES ASSUME \A k \in S : v[k] > q
                 PROVE  FALSE
        BY <1>5
    <2> HIDE DEF q
    <2>1. ASSUME NEW k \in S
          PROVE  (q + 1) * g[k] <= 1 * f[k]
        <3>1. v[k] \in Int /\ q + 1 <= v[k] /\ q + 1 \in Int
            BY <1>5
        <3>2. (q + 1) * w[k] <= v[k] * w[k]
            BY <3>1, Scaled
        <3> QED BY <1>1, <3>2
    <2>2. (q + 1) * SumFunctionOnSet(g, S) <= 1 * SumFunctionOnSet(f, S)
        BY <1>1, <1>5, <2>1, BoundedSums
    <2>3. (q + 1) * W <= A
        <3> HIDE DEF A, W
        <3> QED BY <1>2, <1>3, <2>2
    <2>4. (q + 1) * W = W * q + W
        <3> HIDE DEF A, W
        <3> QED BY <1>3, <1>5
    <2> DEFINE p == W * q
    <2>5. p \in Int
        <3> HIDE DEF A, W
        <3> QED BY <1>3, <1>5
    <2> HIDE DEF p, A, W
    <2>6. p + W <= A /\ A < p + W
        BY <1>5, <2>3, <2>4 DEF p
    <2> QED BY <1>3, <2>5, <2>6
<1>7. \E k \in S : v[k] >= q
    <2> SUFFICES ASSUME \A k \in S : v[k] < q
                 PROVE  FALSE
        BY <1>5
    <2> HIDE DEF q
    <2>1. ASSUME NEW k \in S
          PROVE  1 * f[k] <= (q - 1) * g[k]
        <3>1. v[k] \in Int /\ v[k] <= q - 1 /\ q - 1 \in Int
            BY <1>5
        <3>2. v[k] * w[k] <= (q - 1) * w[k]
            BY <3>1, Scaled
        <3> QED BY <1>1, <3>2
    <2>2. 1 * SumFunctionOnSet(f, S) <= (q - 1) * SumFunctionOnSet(g, S)
        BY <1>1, <1>5, <2>1, BoundedSums
    <2>3. A <= (q - 1) * W
        <3> HIDE DEF A, W
        <3> QED BY <1>2, <1>3, <2>2
    <2>4. (q - 1) * W = W * q - W
        <3> HIDE DEF A, W
        <3> QED BY <1>3, <1>5
    <2> DEFINE p == W * q
    <2>5. p \in Int
        <3> HIDE DEF A, W
        <3> QED BY <1>3, <1>5
    <2> HIDE DEF p, A, W
    <2>6. p <= A /\ A <= p - W
        BY <1>5, <2>3, <2>4 DEF p
    <2> QED BY <1>3, <1>4, <2>5, <2>6
<1> QED BY <1>3, <1>4, <1>5, <1>6, <1>7 DEF f, g

(* The score of what there is lies between the worst and the best of it. *)
LEMMA WeightedScoreIsBetween ==
    ASSUME NEW components, \A k \in DOMAIN Weights : components[k] \subseteq Percents,
           Present(components) # {}
    PROVE  /\ WeightedScore(components) \in Percents
           /\ \E k \in Present(components) : ScoreOf(components, k) <= WeightedScore(components)
           /\ \E k \in Present(components) : ScoreOf(components, k) >= WeightedScore(components)
<1> DEFINE S == Present(components)
           v == [k \in S |-> ScoreOf(components, k)]
           w == [k \in S |-> Weights[k]]
           A == SumFunction([k \in S |-> v[k] * w[k]])
           W == SumFunction([k \in S |-> w[k]])
<1>1. S \subseteq DOMAIN Weights /\ S # {} /\ IsFiniteSet(S)
    BY FiniteNames DEF Present
<1>2. \A k \in S : ScoreOf(components, k) \in Percents
    BY DEF Present, NoScore, ScoreOf
<1>3. \A k \in S : v[k] \in Percents /\ v[k] \in Int /\ w[k] \in Nat /\ w[k] > 0
    <2>1. \A k \in S : v[k] = ScoreOf(components, k) /\ w[k] = Weights[k] /\ k \in DOMAIN Weights
        BY <1>1
    <2> HIDE DEF S, v, w
    <2> QED BY <1>2, <2>1, PercentsAre, WholeWeights
<1>4. /\ A \div W \in Int
      /\ \E k \in S : v[k] <= A \div W
      /\ \E k \in S : v[k] >= A \div W
    <2> HIDE DEF S, v, w
    <2> QED BY <1>1, <1>3, MeanIsBetween
<1>5. A \div W \in Percents
    <2> DEFINE q == A \div W
    <2>1. /\ q \in Int
          /\ \E k \in S : v[k] <= q
          /\ \E k \in S : v[k] >= q
        BY <1>4
    <2> HIDE DEF S, v, w, q
    <2>2. PICK k \in S : v[k] <= q
        BY <2>1
    <2>3. PICK l \in S : v[l] >= q
        BY <2>1
    <2>4. 0 <= v[k] /\ v[k] \in Int /\ v[l] <= 10000 /\ v[l] \in Int
        BY <1>3, PercentsAre
    <2>5. q \in Int /\ 0 <= q /\ q <= 10000
        BY <2>1, <2>2, <2>3, <2>4
    <2>6. q \in Percents
        BY <2>5, PercentsAre
    <2> QED BY <2>6 DEF q
<1>6. [k \in S |-> v[k] * w[k]] = [k \in S |-> ScoreOf(components, k) * Weights[k]]
      /\ [k \in S |-> w[k]] = [k \in S |-> Weights[k]]
    OBVIOUS
<1>7. WeightedScore(components) =
         Clamp(SumFunction([k \in S |-> ScoreOf(components, k) * Weights[k]])
                 \div SumFunction([k \in S |-> Weights[k]]))
    BY <1>1 DEF WeightedScore, SumOver
<1>8. WeightedScore(components) = Clamp(A \div W)
    BY <1>6, <1>7
<1>9. WeightedScore(components) = A \div W
    <2>1. \A q \in Percents : Clamp(q) = q
        BY DEF Percents, Clamp, AtMost, AtLeast
    <2> HIDE DEF A, W
    <2> QED BY <1>5, <1>8, <2>1
<1>10. \A k \in S : v[k] = ScoreOf(components, k)
    OBVIOUS
<1> HIDE DEF A, W, v, w
<1> QED BY <1>4, <1>5, <1>9, <1>10

-----------------------------------------------------------------------------
(* The components *)

LEMMA ClampIsPercent == \A v \in Int : Clamp(v) \in Percents
    BY DEF Clamp, AtMost, AtLeast, Percents

LEMMA WholePercent == ASSUME NEW n \in Int, NEW d \in Int, d # 0 PROVE Percent(n, d) \in Int
<1>1. CASE d > 0
    <2>1. n * 10000 \in Int /\ d \in Nat
        BY <1>1
    <2>2. (n * 10000) \div d \in Int
        BY <1>1, <2>1, QuotientBounds
    <2> QED BY <1>1, <2>2 DEF Percent
<1>2. CASE ~(d > 0)
    <2>1. -n * 10000 \in Int /\ -d \in Nat /\ -d > 0
        BY <1>2
    <2>2. (-n * 10000) \div (-d) \in Int
        BY <2>1, QuotientBounds
    <2> QED BY <1>2, <2>2 DEF Percent
<1> QED BY <1>1, <1>2

LEMMA SpentIsNatural ==
    ASSUME NEW spent \in [Categories -> Nat]
    PROVE  /\ \A markers : SumByMarkers(spent, markers) \in Nat
           /\ SumOver(Categories, LAMBDA c : spent[c]) \in Nat
<1>1. ASSUME NEW S \in SUBSET Categories
      PROVE  SumFunction([c \in S |-> spent[c]]) \in Nat
    <2> DEFINE f == [c \in S |-> spent[c]]
    <2>1. IsFiniteSet(DOMAIN f) /\ \A c \in DOMAIN f : f[c] \in Nat
        BY FiniteNames
    <2> HIDE DEF f
    <2> QED BY <2>1, FiniteSums DEF f
<1>2. ASSUME NEW markers
      PROVE  SumByMarkers(spent, markers) \in Nat
    BY <1>1 DEF SumByMarkers, SumOver
<1>3. SumOver(Categories, LAMBDA c : spent[c]) \in Nat
    BY <1>1 DEF SumOver
<1> QED BY <1>2, <1>3

LEMMA CashflowTyped == \A net, income \in Int : CashflowScore(net, income) \subseteq Percents
<1> SUFFICES ASSUME NEW net \in Int, NEW income \in Int, income # 0
             PROVE  Clamp(((Percent(net, income) + 1000) * 10) \div 3) \in Percents
    BY DEF CashflowScore, NoScore
<1>1. Percent(net, income) \in Int
    BY WholePercent
<1>2. ((Percent(net, income) + 1000) * 10) \div 3 \in Int
    BY <1>1
<1> QED BY <1>2, ClampIsPercent

LEMMA DebtTyped == \A R \in SUBSET Int : DebtScore(R) \subseteq Percents
<1> SUFFICES ASSUME NEW r \in Int
             PROVE  Clamp(10000 - (((r - 1000) * 5) \div 2)) \in Percents
    BY DEF DebtScore
<1>1. 10000 - (((r - 1000) * 5) \div 2) \in Int
    OBVIOUS
<1> QED BY <1>1, ClampIsPercent

LEMMA ReserveTyped == \A balance, base \in Int : ReserveScore(balance, base) \subseteq Percents
<1> SUFFICES ASSUME NEW balance \in Int, NEW base \in Int, base # 0
             PROVE  Clamp(Percent(balance, base) \div 3) \in Percents
    BY DEF ReserveScore, NoScore
<1>1. Percent(balance, base) \in Int
    BY WholePercent
<1>2. Percent(balance, base) \div 3 \in Int
    BY <1>1
<1> QED BY <1>2, ClampIsPercent

LEMMA BudgetTyped == \A limited : BudgetScore(CategoryLimits(limited)) \subseteq Percents
    BY DEF BudgetScore, CategoryLimits, NoScore

LEMMA ClarityTyped ==
    ASSUME NEW unclear \in Int, NEW total \in Int
    PROVE  ClarityScore(unclear, total) \subseteq Percents /\ ClarityScore(unclear, total) # {}
<1> DEFINE share == IF total = 0 THEN 0 ELSE Percent(unclear, total)
<1>1. share \in Int
    BY WholePercent
<1> HIDE DEF share
<1>2. 10000 - share \in Int
    BY <1>1
<1>3. Clamp(10000 - share) \in Percents
    BY <1>2, ClampIsPercent
<1> QED BY <1>3 DEF ClarityScore, share

LEMMA GoalTyped ==
    ASSUME NEW goals \in Goals, NEW net \in Int
    PROVE  GoalScore(goals, net) \subseteq Percents
<1> SUFFICES ASSUME NEW g \in goals
             PROVE  (LET progress == IF g.target = 0 THEN 10000 ELSE Percent(g.current, g.target)
                         remaining == AtLeast(g.target - g.current, 0)
                         afford == IF remaining = 0 THEN 10000 ELSE Percent(net * g.months, remaining) IN
                     Clamp((Clamp(progress) * 60 + Clamp(afford) * 40) \div 100)) \in Percents
    BY DEF GoalScore
<1> DEFINE progress == IF g.target = 0 THEN 10000 ELSE Percent(g.current, g.target)
           remaining == AtLeast(g.target - g.current, 0)
           afford == IF remaining = 0 THEN 10000 ELSE Percent(net * g.months, remaining)
<1>1. g.target \in Int /\ g.current \in Int /\ g.months \in Int
    BY HealthDataAssumption
<1>2. progress \in Int
    BY <1>1, WholePercent
<1>3. remaining \in Int /\ net * g.months \in Int
    BY <1>1 DEF AtLeast
<1>4. afford \in Int
    <2> HIDE DEF remaining
    <2> QED BY <1>3, WholePercent
<1> HIDE DEF progress, remaining, afford
<1>5. Clamp(progress) \in Int /\ Clamp(afford) \in Int
    <2>1. Clamp(progress) \in Percents /\ Clamp(afford) \in Percents
        BY <1>2, <1>4, ClampIsPercent
    <2> QED BY <2>1, PercentsAre
<1>6. (Clamp(progress) * 60 + Clamp(afford) * 40) \div 100 \in Int
    BY <1>5
<1>7. Clamp((Clamp(progress) * 60 + Clamp(afford) * 40) \div 100) \in Percents
    BY <1>6, ClampIsPercent
<1> QED BY <1>7 DEF progress, remaining, afford

-----------------------------------------------------------------------------
(* Incomes *)

\* The incomes of the two months, as they are read of some wealth.
Earned(incomes) == {m \in incomes : m[2] > 0}
Incomes(incomes) == \E a, b \in Nat : incomes = {<<"now", a>>, <<"earlier", b>>}

LEMMA EarnedAddsUp ==
    ASSUME NEW incomes, Incomes(incomes)
    PROVE  /\ IsFiniteSet(Earned(incomes))
           /\ \A m \in Earned(incomes) : m[2] \in Nat /\ m[2] > 0
           /\ SumOver(Earned(incomes), LAMBDA m : m[2]) \in Nat
           /\ Earned(incomes) # {} =>
                 Cardinality(Earned(incomes)) \in Nat \ {0}
                 /\ SumOver(Earned(incomes), LAMBDA m : m[2]) > 0
<1>1. PICK a \in Nat, b \in Nat : incomes = {<<"now", a>>, <<"earlier", b>>}
    BY DEF Incomes
<1> DEFINE E == Earned(incomes)
           f == [m \in E |-> m[2]]
<1>2. IsFiniteSet({<<"now", a>>} \union {<<"earlier", b>>})
    BY FS_Singleton, FS_Union
<1>3. E \subseteq {<<"now", a>>} \union {<<"earlier", b>>}
    BY <1>1 DEF Earned
<1>4. IsFiniteSet(E)
    BY <1>2, <1>3, FS_Subset
<1>5. \A m \in E : m[2] \in Nat /\ m[2] > 0
    BY <1>1 DEF Earned
<1>6. SumFunction(f) \in Nat /\ \A m \in E : f[m] <= SumFunction(f)
    <2>1. DOMAIN f = E /\ IsFiniteSet(DOMAIN f) /\ \A m \in E : f[m] \in Nat
        BY <1>4, <1>5
    <2> HIDE DEF f, E
    <2> QED BY <2>1, FiniteSums
<1>7. SumOver(E, LAMBDA m : m[2]) = SumFunction(f)
    BY DEF SumOver
<1>8. ASSUME E # {}
      PROVE  Cardinality(E) \in Nat \ {0} /\ SumFunction(f) > 0
    <2>1. PICK m \in E : TRUE
        BY <1>8
    <2>2. f[m] = m[2] /\ m[2] \in Nat /\ m[2] > 0
        BY <1>5
    <2>3. SumFunction(f) > 0
        <3> HIDE DEF f
        <3> QED BY <1>6, <2>2
    <2>4. Cardinality(E) \in Nat /\ Cardinality(E) # 0
        <3> HIDE DEF E
        <3> QED BY <1>4, <1>8, FS_CardinalityType, FS_EmptySet
    <2> QED BY <2>3, <2>4
<1> HIDE DEF f
<1> QED BY <1>4, <1>5, <1>6, <1>7, <1>8

LEMMA StabilityTyped ==
    ASSUME NEW incomes, Incomes(incomes)
    PROVE  IncomeStability(incomes) \subseteq Percents
<1> DEFINE earned == Earned(incomes)
           all == SumOver(earned, LAMBDA m : m[2])
           Gap(p) == AtLeast(p[1][2] - p[2][2], p[2][2] - p[1][2])
<1>1. \A p \in earned \X earned : Gap(p) \in Int /\ all \in Nat /\ all > 0
    <2> SUFFICES ASSUME NEW p \in earned \X earned
                 PROVE  Gap(p) \in Int /\ all \in Nat /\ all > 0
        OBVIOUS
    <2>1. p[1] \in earned /\ p[2] \in earned
        OBVIOUS
    <2>2. p[1][2] \in Nat /\ p[2][2] \in Nat /\ all \in Nat /\ all > 0
        <3> HIDE DEF earned
        <3> QED BY <2>1, EarnedAddsUp DEF earned
    <2> QED BY <2>2 DEF AtLeast
<1>2. \A p \in earned \X earned : Clamp(10000 - 2 * Percent(Gap(p), all)) \in Percents
    <2> SUFFICES ASSUME NEW p \in earned \X earned
                 PROVE  Clamp(10000 - 2 * Percent(Gap(p), all)) \in Percents
        OBVIOUS
    <2> DEFINE d == Gap(p)
    <2>1. d \in Int /\ all \in Int /\ all # 0
        BY <1>1
    <2> HIDE DEF d, all
    <2>2. Percent(d, all) \in Int
        BY <2>1, WholePercent
    <2>3. 10000 - 2 * Percent(d, all) \in Int
        BY <2>2
    <2>4. Clamp(10000 - 2 * Percent(d, all)) \in Percents
        BY <2>3, ClampIsPercent
    <2> QED BY <2>4 DEF d
<1>3. IncomeStability(incomes) = IF Cardinality(earned) < 2 THEN NoScore
        ELSE {Clamp(10000 - 2 * Percent(Gap(p), all)) :
                 p \in {q \in earned \X earned : q[1][1] = "now" /\ q[2][1] = "earlier"}}
    BY DEF IncomeStability, Earned
<1> HIDE DEF earned, all, Gap
<1> QED BY <1>2, <1>3 DEF NoScore

LEMMA AverageIsNatural ==
    ASSUME NEW incomes, Incomes(incomes)
    PROVE  AverageMonthlyIncome(incomes) \in Nat
<1> DEFINE earned == Earned(incomes)
           all == SumOver(earned, LAMBDA m : m[2])
<1>1. AverageMonthlyIncome(incomes) = IF earned = {} THEN 0 ELSE all \div Cardinality(earned)
    BY DEF AverageMonthlyIncome, Earned
<1>2. all \in Nat /\ (earned # {} => Cardinality(earned) \in Nat \ {0})
    BY EarnedAddsUp
<1> HIDE DEF earned, all
<1>3. ASSUME earned # {}
      PROVE  all \div Cardinality(earned) \in Nat
    <2>1. Cardinality(earned) \in Nat /\ Cardinality(earned) > 0 /\ all \in Nat
        BY <1>2, <1>3
    <2> DEFINE n == Cardinality(earned)
    <2> HIDE DEF n
    <2>2. \A x \in Nat, y \in Nat : y > 0 => x \div y \in Nat
        OBVIOUS
    <2> QED BY <2>1, <2>2 DEF n
<1> QED BY <1>1, <1>3

-----------------------------------------------------------------------------
(* Debts *)

LEMMA DebtsAddUp ==
    ASSUME NEW debts \in SUBSET Debts
    PROVE  /\ IsFiniteSet(debts)
           /\ Payments(debts) \in Nat
           /\ ActiveCredits(debts) \in Nat
           /\ CardUtilization(debts) \in Int
           /\ debts # {} => OverdueDays(debts) \in Nat
<1>1. IsFiniteSet(debts)
    BY HealthDataAssumption, FS_Subset
<1>2. \A d \in debts : d.payment \in Nat /\ d.remaining \in Nat /\ d.limit \in Nat /\ d.overdue \in Nat
    BY HealthDataAssumption
<1>3. Payments(debts) \in Nat
    <2> DEFINE f == [d \in debts |-> d.payment]
    <2>1. IsFiniteSet(DOMAIN f) /\ \A d \in DOMAIN f : f[d] \in Nat
        BY <1>1, <1>2
    <2>2. Payments(debts) = SumFunction(f)
        BY DEF Payments, SumOver
    <2> HIDE DEF f
    <2> QED BY <2>1, <2>2, FiniteSums
<1>4. ActiveCredits(debts) \in Nat
    <2>1. IsFiniteSet({d \in debts : d.remaining > 0})
        BY <1>1, FS_Subset
    <2> QED BY <2>1, FS_CardinalityType DEF ActiveCredits
<1>5. CardUtilization(debts) \in Int
    <2> DEFINE cards == {d \in debts : d.limit > 0}
               f == [d \in cards |-> d.remaining]
               g == [d \in cards |-> d.limit]
    <2>1. IsFiniteSet(cards)
        BY <1>1, FS_Subset
    <2>2. DOMAIN f = cards /\ DOMAIN g = cards
          /\ \A d \in cards : f[d] \in Nat /\ g[d] \in Nat /\ g[d] > 0
        BY <1>2
    <2>3. CardUtilization(debts) = IF cards = {} THEN 0 ELSE Percent(SumFunction(f), SumFunction(g))
        BY DEF CardUtilization, SumOver
    <2> HIDE DEF cards, f, g
    <2>4. SumFunction(f) \in Nat /\ SumFunction(g) \in Nat /\ \A d \in cards : g[d] <= SumFunction(g)
        BY <2>1, <2>2, FiniteSums
    <2>5. ASSUME cards # {}
          PROVE  Percent(SumFunction(f), SumFunction(g)) \in Int
        <3>1. PICK d \in cards : TRUE
            BY <2>5
        <3>2. g[d] \in Nat /\ g[d] > 0 /\ g[d] <= SumFunction(g)
            BY <2>2, <2>4
        <3>3. SumFunction(g) # 0
            BY <2>4, <3>2
        <3> QED BY <2>4, <3>3, WholePercent
    <2> QED BY <2>3, <2>5
<1>6. ASSUME debts # {}
      PROVE  OverdueDays(debts) \in Nat
    <2> DEFINE Good == {s \in SUBSET debts : s # {} => \E d \in s : \A e \in s : d.overdue >= e.overdue}
    <2>1. ASSUME NEW s \in SUBSET debts, \A r \in SUBSET s : r # s => r \in Good
          PROVE  s \in Good
        <3> SUFFICES ASSUME s # {}
                     PROVE  \E d \in s : \A e \in s : d.overdue >= e.overdue
            OBVIOUS
        <3>1. PICK x \in s : TRUE
            OBVIOUS
        <3> DEFINE r == s \ {x}
        <3>2. r \in SUBSET s /\ r # s
            OBVIOUS
        <3>3. r \in Good
            BY <2>1, <3>2
        <3>4. \A d \in s : d.overdue \in Nat
            BY <1>2
        <3>5. CASE r = {}
            <4>1. s = {x}
                BY <3>5
            <4> QED BY <3>4, <4>1
        <3>6. CASE r # {}
            <4>1. PICK m \in r : \A e \in r : m.overdue >= e.overdue
                BY <3>3, <3>6
            <4>2. m \in s /\ m.overdue \in Nat /\ x.overdue \in Nat /\ \A e \in s : e = x \/ e \in r
                BY <3>4
            <4>3. CASE m.overdue >= x.overdue
                BY <4>1, <4>2, <4>3
            <4>4. CASE ~(m.overdue >= x.overdue)
                <5>1. \A e \in s : x.overdue >= e.overdue
                    BY <3>4, <4>1, <4>2, <4>4
                <5> QED BY <5>1
            <4> QED BY <4>3, <4>4
        <3> QED BY <3>5, <3>6
    <2>2. debts \in Good
        <3> HIDE DEF Good
        <3> QED BY <1>1, <2>1, SubsetInduction
    <2>3. PICK d \in debts : \A e \in debts : d.overdue >= e.overdue
        BY <1>6, <2>2
    <2>4. \E n \in {e.overdue : e \in debts} : \A e \in debts : n >= e.overdue
        BY <2>3
    <2>5. OverdueDays(debts) \in {e.overdue : e \in debts}
        BY <1>6, <2>4 DEF OverdueDays
    <2> QED BY <1>2, <2>5
<1> QED BY <1>1, <1>3, <1>4, <1>5, <1>6

\* At most one ratio, and a whole one.
AtMostOne(R) == R = {} \/ \E r \in Int : R = {r}

LEMMA CreditLoadTyped ==
    ASSUME NEW R, AtMostOne(R), NEW net \in Int, NEW payments \in Nat, NEW credits \in Nat,
           NEW debts \in SUBSET Debts
    PROVE  CreditLoadIndex(R, net, payments, credits, debts) \in Percents
<1> DEFINE loads == {<<55, Clamp(r * 2)>> : r \in R}
           strains == {<<10, IF net - p < 0 THEN 10000 ELSE 2500>> : p \in {payments} \ {0}}
           counts == {<<5, Clamp(credits * 2500)>>}
           parts == loads \union strains \union counts
           recorded == IF debts = {} THEN 0
                       ELSE 15 * Clamp(CardUtilization(debts)) + 15 * Clamp(OverdueDays(debts) * 1000)
           f == [q \in parts |-> q[1]]
           g == [q \in parts |-> q[1] * q[2]]
           weight == SumFunction(f) + (IF debts = {} THEN 0 ELSE 30)
<1>1. IsFiniteSet(parts)
    <2>1. loads = {} \/ \E r \in Int : loads = {<<55, Clamp(r * 2)>>}
        BY DEF AtMostOne
    <2> DEFINE strain == <<10, IF net - payments < 0 THEN 10000 ELSE 2500>>
               count == <<5, Clamp(credits * 2500)>>
    <2>2. strains = {} \/ strains = {strain}
        OBVIOUS
    <2>0. counts = {count}
        OBVIOUS
    <2>3. IsFiniteSet(loads) /\ IsFiniteSet(strains) /\ IsFiniteSet(counts)
        <3>1. \A x : IsFiniteSet({x})
            BY FS_Singleton
        <3>2. IsFiniteSet({})
            BY FS_EmptySet
        <3> HIDE DEF loads, strains, counts, strain, count
        <3>3. IsFiniteSet(counts)
            BY <2>0, <3>1
        <3>4. IsFiniteSet(loads)
            BY <2>1, <3>1, <3>2
        <3>5. IsFiniteSet(strains)
            BY <2>2, <3>1, <3>2
        <3> QED BY <3>3, <3>4, <3>5
    <2> HIDE DEF loads, strains, counts
    <2> QED BY <2>3, FS_Union
<1>2. \A q \in parts : q[1] \in Nat /\ q[2] \in Int
    <2>1. ASSUME NEW q \in loads
          PROVE  q[1] \in Nat /\ q[2] \in Int
        <3>1. PICK r \in R : q = <<55, Clamp(r * 2)>>
            OBVIOUS
        <3>2. r * 2 \in Int
            BY DEF AtMostOne
        <3>3. Clamp(r * 2) \in Int
            BY <3>2, ClampIsPercent, PercentsAre
        <3> QED BY <3>1, <3>3
    <2>2. ASSUME NEW q \in strains
          PROVE  q[1] \in Nat /\ q[2] \in Int
        OBVIOUS
    <2>3. ASSUME NEW q \in counts
          PROVE  q[1] \in Nat /\ q[2] \in Int
        <3>1. Clamp(credits * 2500) \in Int
            BY ClampIsPercent, PercentsAre
        <3> QED BY <3>1
    <2> HIDE DEF loads, strains, counts
    <2> QED BY <2>1, <2>2, <2>3
<1>3. <<5, Clamp(credits * 2500)>> \in parts
    OBVIOUS
<1>4. recorded \in Int
    <2>1. CASE debts = {}
        BY <2>1
    <2>2. CASE debts # {}
        <3>1. CardUtilization(debts) \in Int /\ OverdueDays(debts) * 1000 \in Int
            BY <2>2, DebtsAddUp
        <3>2. Clamp(CardUtilization(debts)) \in Int /\ Clamp(OverdueDays(debts) * 1000) \in Int
            BY <3>1, ClampIsPercent, PercentsAre
        <3> QED BY <2>2, <3>2
    <2> QED BY <2>1, <2>2
<1> HIDE DEF parts, recorded
<1>5. DOMAIN f = parts /\ DOMAIN g = parts
      /\ \A q \in parts : f[q] \in Nat /\ g[q] \in Int /\ f[q] = q[1]
    <2> SUFFICES ASSUME NEW q \in parts
                 PROVE  q[1] * q[2] \in Int
        BY <1>2
    <2> QED BY <1>2
<1>6. CreditLoadIndex(R, net, payments, credits, debts) = Clamp((SumFunction(g) + recorded) \div weight)
    BY DEF CreditLoadIndex, SumOver, parts, recorded
<1> HIDE DEF f, g
<1>7. SumFunction(g) \in Int /\ SumFunction(f) \in Nat /\ SumFunction(f) >= 5
    <2>1. SumFunction(g) \in Int /\ SumFunction(f) \in Nat /\ \A q \in parts : f[q] <= SumFunction(f)
        BY <1>1, <1>5, FiniteSums
    <2>2. f[<<5, Clamp(credits * 2500)>>] = 5
        BY <1>3, <1>5
    <2> QED BY <1>3, <2>1, <2>2
<1>8. weight \in Nat /\ weight > 0
    BY <1>7
<1> HIDE DEF weight
<1>9. (SumFunction(g) + recorded) \div weight \in Int
    <2>1. SumFunction(g) + recorded \in Int
        BY <1>4, <1>7
    <2> QED BY <1>8, <2>1, QuotientBounds
<1> QED BY <1>6, <1>9, ClampIsPercent

-----------------------------------------------------------------------------
(* The profile *)

Wealths == [income : Wealth["income"], earlier : Wealth["earlier"],
            balance : Wealth["balance"], fixed : Wealth["fixed"],
            spent : [Categories -> Wealth["spent"]],
            limited : BOOLEAN, goals : Goals, debts : SUBSET Debts]

LEMMA WealthTyped ==
    ASSUME NEW w \in Wealths
    PROVE  /\ w.income \in Nat /\ w.earlier \in Nat /\ w.balance \in Int /\ w.fixed \in Int
           /\ w.spent \in [Categories -> Nat]
           /\ w.goals \in Goals /\ w.debts \in SUBSET Debts
           /\ FromTransactions(w).spent = w.spent
           /\ Incomes(FromTransactions(w).incomes)
<1>1. w.income \in Nat /\ w.earlier \in Nat
    BY HealthDataAssumption DEF Wealths
<1>2. w.balance \in Int /\ w.fixed \in Int
    BY HealthDataAssumption DEF Wealths
<1>3. w.spent \in [Categories -> Nat]
    <2>1. w.spent \in [Categories -> Wealth["spent"]] /\ Wealth["spent"] \subseteq Nat
        BY HealthDataAssumption DEF Wealths
    <2> QED BY <2>1
<1>4. w.goals \in Goals /\ w.debts \in SUBSET Debts
    BY DEF Wealths
<1>5. FromTransactions(w).incomes = {<<"now", w.income>>, <<"earlier", w.earlier>>}
      /\ FromTransactions(w).spent = w.spent
    BY DEF FromTransactions
<1> QED BY <1>1, <1>2, <1>3, <1>4, <1>5 DEF Incomes

\* A profile of what was read of one wealth first and of another after it.
LEMMA ProfileTyped ==
    ASSUME NEW u \in Wealths, NEW w \in Wealths
    PROVE  LET p == BuildProfile(FromTransactions(u), w) IN
           /\ \A k \in DOMAIN Weights : p.components[k] \subseteq Percents
           /\ p.components.clarity # {}
           /\ p.score = WeightedScore(p.components)
           /\ p.credit \in Percents
           /\ p.total = SumOver(Categories, LAMBDA c : w.spent[c])
           /\ p.spent = u.spent
<1> DEFINE k == FromTransactions(u)
           total == SumOver(Categories, LAMBDA c : w.spent[c])
           unclear == SumByMarkers(k.spent, UnclearMarkers)
           net == w.income - total
           payments == IF w.debts # {} THEN Payments(w.debts) ELSE SumByMarkers(k.spent, CreditMarkers)
           base == IF w.debts # {} THEN AverageMonthlyIncome(k.incomes) ELSE w.income
           toIncome == IF base = 0 THEN NoScore ELSE {Percent(payments, base)}
           active == {c \in Categories : k.spent[c] > 0 /\ MarkersIn(c) \cap CreditMarkers # {}}
           credits == IF w.debts # {} THEN ActiveCredits(w.debts) ELSE Cardinality(active)
           components == Components(k, w, total, unclear, net, toIncome)
           mandatory == w.fixed + SumByMarkers(k.spent, MandatoryMarkers)
           expenses == IF mandatory > 0 THEN mandatory ELSE total
<1>1. k.spent \in [Categories -> Nat] /\ k.spent = u.spent /\ Incomes(k.incomes)
    BY WealthTyped
<1>2. BuildProfile(k, w) =
        [score |-> WeightedScore(components), components |-> components,
         credit |-> CreditLoadIndex(toIncome, net, payments, credits, w.debts),
         total |-> total, unclear |-> unclear, spent |-> k.spent]
    BY DEF BuildProfile
<1> HIDE DEF k
<1>3. total \in Nat /\ unclear \in Nat /\ SumByMarkers(k.spent, CreditMarkers) \in Nat
      /\ SumByMarkers(k.spent, MandatoryMarkers) \in Nat
    BY <1>1, WealthTyped, SpentIsNatural
<1> HIDE DEF total, unclear
<1>4. net \in Int
    BY <1>3, WealthTyped
<1>5. payments \in Nat
    BY <1>3, WealthTyped, DebtsAddUp
<1>6. base \in Nat
    BY <1>1, WealthTyped, AverageIsNatural
<1> HIDE DEF net, payments, base
<1>7. AtMostOne(toIncome) /\ toIncome \in SUBSET Int
    <2>1. base # 0 => Percent(payments, base) \in Int
        BY <1>5, <1>6, WholePercent
    <2> QED BY <2>1 DEF AtMostOne, NoScore
<1>8. credits \in Nat
    <2>1. active \in SUBSET Categories
        OBVIOUS
    <2>2. Cardinality(active) \in Nat
        BY <2>1, FiniteNames, FS_CardinalityType
    <2> HIDE DEF active
    <2> QED BY <2>2, WealthTyped, DebtsAddUp
<1>9. expenses \in Int
    BY <1>3, WealthTyped
<1>10. components =
         [cashflow |-> CashflowScore(net, w.income),
          debt |-> DebtScore(toIncome),
          reserve |-> ReserveScore(w.balance, expenses),
          budget |-> BudgetScore(CategoryLimits(w.limited)),
          clarity |-> ClarityScore(unclear, total),
          goal |-> GoalScore(w.goals, net),
          stability |-> IncomeStability(k.incomes)]
    BY DEF Components
<1> HIDE DEF toIncome, credits, mandatory, expenses
<1>11. CashflowScore(net, w.income) \subseteq Percents
    BY <1>4, WealthTyped, CashflowTyped
<1>12. DebtScore(toIncome) \subseteq Percents
    BY <1>7, DebtTyped
<1>13. ReserveScore(w.balance, expenses) \subseteq Percents
    BY <1>9, WealthTyped, ReserveTyped
<1>14. BudgetScore(CategoryLimits(w.limited)) \subseteq Percents
    BY BudgetTyped
<1>15. ClarityScore(unclear, total) \subseteq Percents /\ ClarityScore(unclear, total) # {}
    BY <1>3, ClarityTyped
<1>16. GoalScore(w.goals, net) \subseteq Percents
    BY <1>4, WealthTyped, GoalTyped
<1>17. IncomeStability(k.incomes) \subseteq Percents
    BY <1>1, StabilityTyped
<1> HIDE DEF components
<1>18. DOMAIN Weights = {"cashflow", "debt", "reserve", "budget", "clarity", "goal", "stability"}
    BY DEF Weights
<1>19. \A x \in DOMAIN Weights : components[x] \subseteq Percents
    BY <1>10, <1>11, <1>12, <1>13, <1>14, <1>15, <1>16, <1>17, <1>18
<1>20. components.clarity # {}
    BY <1>10, <1>15
<1>21. CreditLoadIndex(toIncome, net, payments, credits, w.debts) \in Percents
    BY <1>4, <1>5, <1>7, <1>8, WealthTyped, CreditLoadTyped
<1> DEFINE p == BuildProfile(k, w)
<1>22. p.components = components /\ p.score = WeightedScore(components) /\ p.total = total
       /\ p.credit = CreditLoadIndex(toIncome, net, payments, credits, w.debts) /\ p.spent = k.spent
    BY <1>2
<1> HIDE DEF p
<1>23. /\ \A x \in DOMAIN Weights : p.components[x] \subseteq Percents
       /\ p.components.clarity # {}
       /\ p.score = WeightedScore(p.components)
       /\ p.credit \in Percents
       /\ p.total = SumOver(Categories, LAMBDA c : w.spent[c])
       /\ p.spent = u.spent
    BY <1>1, <1>19, <1>20, <1>21, <1>22 DEF total
<1> QED BY <1>23 DEF p, k

-----------------------------------------------------------------------------
(* The calculation *)

(* The inductive invariant: what is read first is that of some wealth, of  *)
(* the present one unless it has changed since, and the profile is what is *)
(* made of two such wealths, of one if none changed.                       *)
HealthInv ==
    /\ wealth \in Wealths
    /\ computing \in {"idle", "read"}
    /\ dataChanges \in 0..MaxDataChanges /\ torn \in BOOLEAN
    /\ \E u \in Wealths : known = FromTransactions(u)
    /\ computing = "read" /\ ~torn => known = FromTransactions(wealth)
    /\ profile # NoProfile =>
         \E u, w \in Wealths :
            profile = BuildProfile(FromTransactions(u), w) /\ (~torn => u.spent = w.spent)

LEMMA HealthInitially == HealthInit => HealthInv
<1> SUFFICES ASSUME HealthInit
             PROVE  HealthInv
    OBVIOUS
<1>1. wealth \in Wealths
    BY DEF HealthInit, Wealths
<1>2. known = FromTransactions(wealth) /\ computing = "idle" /\ torn = FALSE
      /\ profile = NoProfile /\ dataChanges = 0
    BY DEF HealthInit
<1>3. dataChanges \in 0..MaxDataChanges
    BY <1>2, HealthAssumption
<1> QED BY <1>1, <1>2, <1>3 DEF HealthInv

LEMMA HealthStep == HealthInv /\ [HealthNext]_healthVars => HealthInv'
<1> SUFFICES ASSUME HealthInv, [HealthNext]_healthVars
             PROVE  HealthInv'
    OBVIOUS
<1>1. CASE ReadTransactions
    <2>1. /\ profile = NoProfile /\ known' = FromTransactions(wealth) /\ computing' = "read"
          /\ UNCHANGED <<wealth, profile, dataChanges, torn>>
        BY <1>1 DEF ReadTransactions
    <2>2. wealth \in Wealths /\ dataChanges \in 0..MaxDataChanges /\ torn \in BOOLEAN
        BY DEF HealthInv
    <2> QED BY <2>1, <2>2 DEF HealthInv
<1>2. CASE ReadRest
    <2>1. /\ computing = "read" /\ profile' = BuildProfile(known, wealth) /\ computing' = "idle"
          /\ UNCHANGED <<wealth, known, dataChanges, torn>>
        BY <1>2 DEF ReadRest
    <2>2. PICK u \in Wealths : known = FromTransactions(u)
        BY DEF HealthInv
    <2>3. wealth \in Wealths /\ dataChanges \in 0..MaxDataChanges /\ torn \in BOOLEAN
          /\ (~torn => known = FromTransactions(wealth))
        BY <2>1 DEF HealthInv
    <2>4. ~torn => u.spent = wealth.spent
        BY <2>2, <2>3, WealthTyped
    <2>5. \E v, w \in Wealths :
             profile' = BuildProfile(FromTransactions(v), w) /\ (~torn' => v.spent = w.spent)
        BY <2>1, <2>2, <2>3, <2>4
    <2>6. \E v \in Wealths : known' = FromTransactions(v)
        BY <2>1, <2>2
    <2> QED BY <2>1, <2>3, <2>5, <2>6 DEF HealthInv
<1>3. CASE ChangeData
    <2>1. /\ dataChanges < MaxDataChanges /\ dataChanges' = dataChanges + 1 /\ torn' = TRUE
          /\ UNCHANGED <<known, computing, profile>>
        BY <1>3 DEF ChangeData
    <2>2. wealth' \in Wealths
        <3>1. CASE \E c \in Categories, v \in Wealth["spent"] :
                      wealth.spent[c] # v /\ wealth' = [wealth EXCEPT !.spent[c] = v]
            BY <3>1 DEF HealthInv, Wealths
        <3>2. CASE \E v \in Wealth["income"] : wealth.income # v /\ wealth' = [wealth EXCEPT !.income = v]
            BY <3>2 DEF HealthInv, Wealths
        <3> QED BY <1>3, <3>1, <3>2 DEF ChangeData
    <2>3. dataChanges' \in 0..MaxDataChanges
        BY <2>1, HealthAssumption DEF HealthInv
    <2>4. profile # NoProfile =>
             \E u, w \in Wealths : profile = BuildProfile(FromTransactions(u), w)
        BY DEF HealthInv
    <2>5. computing \in {"idle", "read"} /\ \E u \in Wealths : known = FromTransactions(u)
        BY DEF HealthInv
    <2> QED BY <2>1, <2>2, <2>3, <2>4, <2>5 DEF HealthInv
<1>4. CASE UNCHANGED healthVars
    BY <1>4 DEF HealthInv, healthVars
<1> QED BY <1>1, <1>2, <1>3, <1>4 DEF HealthNext

LEMMA HealthInvariant == HealthSpec => []HealthInv
    BY HealthInitially, HealthStep, PTL DEF HealthSpec

\* What the invariant says of a profile.
LEMMA ProfileOfInv ==
    ASSUME HealthInv, profile # NoProfile
    PROVE  /\ profile.score \in Percents /\ profile.credit \in Percents
           /\ \A k \in DOMAIN Weights : profile.components[k] \subseteq Percents
           /\ profile.components.clarity # {}
           /\ profile.score = WeightedScore(profile.components)
           /\ ~torn => profile.total = SumOver(Categories, LAMBDA c : profile.spent[c])
<1>1. PICK u \in Wealths, w \in Wealths :
         profile = BuildProfile(FromTransactions(u), w) /\ (~torn => u.spent = w.spent)
    BY DEF HealthInv
<1>2. /\ \A k \in DOMAIN Weights : profile.components[k] \subseteq Percents
      /\ profile.components.clarity # {}
      /\ profile.score = WeightedScore(profile.components)
      /\ profile.credit \in Percents
      /\ profile.total = SumOver(Categories, LAMBDA c : w.spent[c])
      /\ profile.spent = u.spent
    BY <1>1, ProfileTyped
<1>3. Present(profile.components) # {}
    <2>1. "clarity" \in DOMAIN Weights
        BY DEF Weights
    <2> QED BY <1>2, <2>1 DEF Present, NoScore
<1>4. profile.score \in Percents
    BY <1>2, <1>3, WeightedScoreIsBetween
<1>5. ~torn => profile.total = SumOver(Categories, LAMBDA c : profile.spent[c])
    BY <1>1, <1>2 DEF SumOver
<1> QED BY <1>2, <1>4, <1>5

(* A score, a credit load and every component of a profile is a percentage *)
(* between 0 and 100, whatever amounts, goals and debts a user has.        *)
THEOREM HealthTypeCorrect == HealthSpec => []HealthTypeOK
<1>1. HealthInv => HealthTypeOK
    <2> SUFFICES ASSUME HealthInv
                 PROVE  HealthTypeOK
        OBVIOUS
    <2>1. computing \in {"idle", "read"} /\ dataChanges \in 0..MaxDataChanges /\ torn \in BOOLEAN
        BY DEF HealthInv
    <2> QED BY <2>1, ProfileOfInv DEF HealthTypeOK
<1> QED BY <1>1, HealthInvariant, PTL

(* The score of a profile lies between the worst and the best of what      *)
(* could be computed, and the categories of a profile that no change came  *)
(* in between add up to its total.                                         *)
THEOREM ScoreIsOfWhatIsKnown == HealthSpec => []ScoreOfWhatIsKnown
<1>1. HealthInv => ScoreOfWhatIsKnown
    <2> SUFFICES ASSUME HealthInv, profile # NoProfile
                 PROVE  LET scores == {ScoreOf(profile.components, k) : k \in Present(profile.components)} IN
                        /\ \E v \in scores : v <= profile.score
                        /\ \E v \in scores : v >= profile.score
                        /\ ~torn => profile.total = SumOver(Categories, LAMBDA c : profile.spent[c])
        BY DEF ScoreOfWhatIsKnown
    <2> DEFINE c == profile.components
    <2>1. /\ \A k \in DOMAIN Weights : c[k] \subseteq Percents
          /\ c.clarity # {} /\ profile.score = WeightedScore(c)
        BY ProfileOfInv
    <2>2. Present(c) # {}
        <3>1. "clarity" \in DOMAIN Weights
            BY DEF Weights
        <3> QED BY <2>1, <3>1 DEF Present, NoScore
    <2>3. /\ \E k \in Present(c) : ScoreOf(c, k) <= WeightedScore(c)
          /\ \E k \in Present(c) : ScoreOf(c, k) >= WeightedScore(c)
        <3> HIDE DEF c
        <3> QED BY <2>1, <2>2, WeightedScoreIsBetween
    <2>4. ~torn => profile.total = SumOver(Categories, LAMBDA x : profile.spent[x])
        BY ProfileOfInv
    <2>5. /\ \E v \in {ScoreOf(c, k) : k \in Present(c)} : v <= profile.score
          /\ \E v \in {ScoreOf(c, k) : k \in Present(c)} : v >= profile.score
        <3> HIDE DEF c
        <3> QED BY <2>1, <2>3
    <2> QED BY <2>4, <2>5
<1> QED BY <1>1, HealthInvariant, PTL

-----------------------------------------------------------------------------
(* The services together *)

\* Which service is explored stays as it begins.
LEMMA PartStays == [ServicesNext]_ServicesVars => part' = part
    BY DEF ServicesNext, ServicesVars

LEMMA AuthComposed == ServicesSpec => AuthSpec
<1>1. ServicesInit => AuthInit
    BY DEF ServicesInit
<1>2. [ServicesNext]_ServicesVars => [AuthNext]_authVars
    BY DEF ServicesNext, ServiceStep, OthersThan, ServicesVars
<1> QED BY <1>1, <1>2, PTL DEF ServicesSpec, AuthSpec

LEMMA GroupsComposed == ServicesSpec => GroupSpec
<1>1. ServicesInit => GroupInit
    BY DEF ServicesInit
<1>2. [ServicesNext]_ServicesVars => [GroupNext]_groupVars
    BY DEF ServicesNext, ServiceStep, OthersThan, ServicesVars
<1> QED BY <1>1, <1>2, PTL DEF ServicesSpec, GroupSpec

LEMMA BackendComposed == ServicesSpec => BackendSpec
<1>1. ServicesInit => BackendInit
    BY DEF ServicesInit
<1>2. [ServicesNext]_ServicesVars => [BackendNext]_backendVars
    BY DEF ServicesNext, ServiceStep, OthersThan, ServicesVars
<1> QED BY <1>1, <1>2, PTL DEF ServicesSpec, BackendSpec

LEMMA BootstrapComposed == ServicesSpec => BootstrapSpec
<1>1. ServicesInit => BootstrapInit
    BY DEF ServicesInit
<1>2. [ServicesNext]_ServicesVars => [BootstrapNext]_bootstrapVars
    BY DEF ServicesNext, ServiceStep, OthersThan, ServicesVars
<1> QED BY <1>1, <1>2, PTL DEF ServicesSpec, BootstrapSpec

LEMMA LedgerComposed == ServicesSpec => LedgerSpec
<1>1. ServicesInit => LedgerInit
    BY DEF ServicesInit
<1>2. [ServicesNext]_ServicesVars => [LedgerNext]_ledgerVars
    BY DEF ServicesNext, ServiceStep, OthersThan, ServicesVars
<1> QED BY <1>1, <1>2, PTL DEF ServicesSpec, LedgerSpec

LEMMA ParserComposed == ServicesSpec => ParserSpec
<1>1. ServicesInit => ParserInit
    BY DEF ServicesInit
<1>2. [ServicesNext]_ServicesVars => [ParserNext]_parserVars
    BY DEF ServicesNext, ServiceStep, OthersThan, ServicesVars
<1> QED BY <1>1, <1>2, PTL DEF ServicesSpec, ParserSpec

LEMMA InboxComposed == ServicesSpec => Spec
<1>1. ServicesInit => Init
    BY DEF ServicesInit
<1>2. [ServicesNext]_ServicesVars => [Next]_vars
    BY DEF ServicesNext, ServiceStep, OthersThan, ServicesVars
<1> QED BY <1>1, <1>2, PTL DEF ServicesSpec, Spec

\* Detection and reminders share the expenses, and one of them goes on.
LEMMA ExpensesComposed == ServicesSpec /\ part = "expenses" => ExpenseSpec /\ [](part = "expenses")
<1>1. ServicesInit => ExpenseInit
    BY DEF ServicesInit, ReminderInit
<1>2. part = "expenses" /\ [ServicesNext]_ServicesVars => [ExpenseNext]_expenseVars /\ (part = "expenses")'
    BY PartStays DEF ServicesNext, ServiceStep, OthersThan, ServicesVars
<1> QED BY <1>1, <1>2, PTL DEF ServicesSpec, ExpenseSpec

LEMMA RemindersComposed == ServicesSpec /\ part = "reminders" => ReminderSpec /\ [](part = "reminders")
<1>1. ServicesInit => ReminderInit
    BY DEF ServicesInit
<1>2. part = "reminders" /\ [ServicesNext]_ServicesVars =>
         [ReminderNext]_<<expenseVars, reminderVars>> /\ (part = "reminders")'
    BY PartStays DEF ServicesNext, ServiceStep, OthersThan, ServicesVars
<1> QED BY <1>1, <1>2, PTL DEF ServicesSpec, ReminderSpec

\* The wealth the other parts begin with need not be one a profile is made of.
LEMMA HealthComposed == ServicesSpec /\ part = "health" => HealthSpec /\ [](part = "health")
<1>1. ServicesInit /\ part = "health" => HealthInit
    BY DEF ServicesInit
<1>2. part = "health" /\ [ServicesNext]_ServicesVars => [HealthNext]_healthVars /\ (part = "health")'
    BY PartStays DEF ServicesNext, ServiceStep, OthersThan, ServicesVars
<1> QED BY <1>1, <1>2, PTL DEF ServicesSpec, HealthSpec

\* A part that does not begin as p never is.
LEMMA OtherPartStays ==
    /\ ServicesSpec /\ ~(part = "expenses") => [](~(part = "expenses"))
    /\ ServicesSpec /\ ~(part = "reminders") => [](~(part = "reminders"))
    /\ ServicesSpec /\ ~(part = "health") => [](~(part = "health"))
<1>1. ~(part = "expenses") /\ [ServicesNext]_ServicesVars => (~(part = "expenses"))'
    BY PartStays
<1>2. ~(part = "reminders") /\ [ServicesNext]_ServicesVars => (~(part = "reminders"))'
    BY PartStays
<1>3. ~(part = "health") /\ [ServicesNext]_ServicesVars => (~(part = "health"))'
    BY PartStays
<1> QED BY <1>1, <1>2, <1>3, PTL DEF ServicesSpec

\* Planning, scanning and notifying leave the expenses their types.
LEMMA ExpenseTypesWithReminders == ReminderSpec => []ExpenseTypeOK
<1>1. ReminderInv => ExpenseTypeOK
    BY ExpenseTypesOf DEF ReminderInv
<1> QED BY <1>1, InitReminderInv, ReminderNextTyped, PTL DEF ReminderSpec

(* Put together in one specification the services behave as each does on   *)
(* its own, so the state of each keeps the type its module gives it.       *)
THEOREM ServicesTypes == ServicesSpec => []ServicesTypeOK
<1>1. ServicesSpec => []AuthTypeOK /\ []GroupTypeOK
    BY AuthComposed, GroupsComposed, AuthTypes, GroupTypes
<1>2. ServicesSpec => []BackendTypeOK /\ []BootstrapTypeOK
    BY BackendComposed, BootstrapComposed, BackendTypes, BootstrapTypes
<1>3. ServicesSpec => []LedgerTypeOK /\ []ParserTypeOK /\ []TypeOK
    BY LedgerComposed, ParserComposed, InboxComposed, LedgerTypes, ParserTypes, TypeCorrect
<1>4. ServicesSpec => [](part = "expenses" => ExpenseTypeOK)
    BY ExpensesComposed, OtherPartStays, ExpenseTypes, PTL
<1>5. ServicesSpec => [](part = "reminders" => ExpenseTypeOK /\ ReminderTypeOK)
    BY RemindersComposed, OtherPartStays, ExpenseTypesWithReminders, ReminderTypes, PTL
<1>6. ServicesSpec => [](part = "health" => HealthTypeOK)
    BY HealthComposed, OtherPartStays, HealthTypeCorrect, PTL
<1>7. /\ AuthTypeOK /\ GroupTypeOK /\ BackendTypeOK /\ BootstrapTypeOK
      /\ LedgerTypeOK /\ ParserTypeOK /\ TypeOK
      /\ (part = "expenses" => ExpenseTypeOK)
      /\ (part = "reminders" => ExpenseTypeOK /\ ReminderTypeOK)
      /\ (part = "health" => HealthTypeOK)
      => ServicesTypeOK
    BY DEF ServicesTypeOK
<1> QED BY <1>1, <1>2, <1>3, <1>4, <1>5, <1>6, <1>7, PTL

(* What is proved of a service on its own holds of the specification that  *)
(* puts the services together: every invariant and action property of the  *)
(* services that their one run checks.                                     *)
THEOREM ServicesKeepTheirs ==
    ServicesSpec =>
        /\ [](SessionsAccounted /\ OldSessionsRevoked /\ CachedTokensIndexed)
        /\ []AcceptedIsMember /\ AdmittedByOwner
        /\ [](RequestIsAccounted /\ TransactionsAreWhole)
        /\ [](CompletedBootstrapIsWhole /\ FileIsStored)
        /\ [](ReferencesOwned /\ CreditCardsHaveLimits)
        /\ [](KeysFollowRows /\ AnswersMatchInbox /\ NoOrphanAnswer)
        /\ [](part = "expenses" => DetectedOncePerMerchant)
        /\ [](part = "reminders" => QueuedIsAccounted /\ DeliveredOncePerCharge)
        /\ [](part = "health" => ScoreOfWhatIsKnown)
<1>1. ServicesSpec => [](SessionsAccounted /\ OldSessionsRevoked /\ CachedTokensIndexed)
    BY AuthComposed, SessionsAreAccounted, OldSessionsAreRevoked, CachedTokensAreIndexed, PTL
<1>2. ServicesSpec => []AcceptedIsMember /\ AdmittedByOwner
    BY GroupsComposed, AcceptedAreMembers, MembersAreAdmitted
<1>3. ServicesSpec => [](RequestIsAccounted /\ TransactionsAreWhole)
    BY BackendComposed, RequestsAreAccounted, AnswersAreWhole, PTL
<1>4. ServicesSpec => [](CompletedBootstrapIsWhole /\ FileIsStored)
    BY BootstrapComposed, CompletedIsWhole, FilesAreStored, PTL
<1>5. ServicesSpec => [](ReferencesOwned /\ CreditCardsHaveLimits)
    BY LedgerComposed, ReferencesAreOwned, CreditCardsAreLimited, PTL
<1>6. ServicesSpec => [](KeysFollowRows /\ AnswersMatchInbox /\ NoOrphanAnswer)
    BY ParserComposed, InboxComposed, KeysFollowTheirRows, OneAnswer, NoOrphans, PTL
<1>7. ServicesSpec => [](part = "expenses" => DetectedOncePerMerchant)
    BY ExpensesComposed, OtherPartStays, OneExpensePerMerchant, PTL
<1>8. ServicesSpec => [](part = "reminders" => QueuedIsAccounted /\ DeliveredOncePerCharge)
    BY RemindersComposed, OtherPartStays, QueuedAreAccounted, DeliveriesAreLimited, PTL
<1>9. ServicesSpec => [](part = "health" => ScoreOfWhatIsKnown)
    BY HealthComposed, OtherPartStays, ScoreIsOfWhatIsKnown, PTL
<1> QED BY <1>1, <1>2, <1>3, <1>4, <1>5, <1>6, <1>7, <1>8, <1>9

==============================================================================
