----------------------------- MODULE DataProofs -----------------------------
(***************************************************************************)
(* Lemmas about data that know no program: least counterexamples, which    *)
(* stand in for induction, remainders, and sums over finite sets.          *)
(***************************************************************************)
EXTENDS Integers, FiniteSets, FiniteSetsExt, FiniteSetTheorems, WellFoundedInduction, TLAPS

-----------------------------------------------------------------------------
(* Least counterexamples.                                                  *)

\* Of some subsets of a finite set, one contains none of the others.
LEMMA MinimalSubset ==
    ASSUME NEW S, IsFiniteSet(S), NEW F, F \subseteq SUBSET S, F # {}
    PROVE  \E T \in F : \A U \in F : U \subseteq T => U = T
<1>1. FiniteSubsetsOf(S) = SUBSET S
    BY FS_FiniteSubsetsOfFinite
<1>2. IsWellFoundedOn(StrictSubsetOrdering(S), FiniteSubsetsOf(S))
    BY FS_StrictSubsetOrderingWellFounded
<1>3. PICK T \in F : \A U \in F : ~(<<U, T>> \in StrictSubsetOrdering(S))
    BY <1>1, <1>2, WFMin
<1> QED
    BY <1>3 DEF StrictSubsetOrdering

\* Of some numbers, one is the least.
LEMMA LeastNumber ==
    ASSUME NEW T, T \subseteq Nat, T # {}
    PROVE  \E m \in T : \A k \in T : m <= k
<1>1. PICK n \in T : n \in Nat /\ n <= n
    <2>1. \A n \in Nat : n <= n
        OBVIOUS
    <2> QED
        BY <2>1
<1> DEFINE K == {k \in T : k <= n}
           F == {1..k : k \in K}
<1>2. IsFiniteSet(1..n)
    BY FS_Interval
<1>3. F \subseteq SUBSET (1..n) /\ F # {}
    <2>1. n \in K /\ K \subseteq Nat
        BY <1>1
    <2>2. \A k \in K : 1..k \subseteq 1..n
        BY <1>1, <2>1
    <2> HIDE DEF K
    <2> QED
        BY <2>1, <2>2
<1>4. PICK I \in F : \A U \in F : U \subseteq I => U = I
    <2> DEFINE J == 1..n
    <2>1. IsFiniteSet(J) /\ F \subseteq SUBSET J /\ F # {}
        BY <1>2, <1>3
    <2> HIDE DEF F, J
    <2> QED
        BY <2>1, MinimalSubset
<1>5. PICK m \in T : m <= n /\ I = 1..m
    BY <1>4
<1>6. ASSUME NEW k \in T, k < m PROVE FALSE
    <2>1. 1..k \in F /\ 1..k \subseteq 1..m
        BY <1>5, <1>6
    <2>2. 1..k = 1..m
        BY <1>4, <1>5, <2>1
    <2>3. m \in 1..m /\ m \notin 1..k
        BY <1>6
    <2> QED
        BY <2>2, <2>3
<1> QED
    BY <1>6

-----------------------------------------------------------------------------
(* Remainders.                                                             *)

\* Two numbers less than w apart have different remainders by w.
LEMMA RemaindersDiffer ==
    ASSUME NEW w \in Nat, NEW a \in Nat, NEW b \in Nat, a < b, b - a < w
    PROVE  a % w # b % w
<1>1. w > 0
    OBVIOUS
<1> DEFINE qa == a \div w
           qb == b \div w
<1>2. qa \in Nat /\ qb \in Nat
    BY <1>1
<1>3. a = w * qa + (a % w) /\ b = w * qb + (b % w)
    BY <1>1
<1>4. SUFFICES ASSUME a % w = b % w PROVE FALSE
    OBVIOUS
<1>5. a % w \in Nat
    BY <1>1
<1> HIDE DEF qa, qb
<1>6. b - a = w * qb - w * qa
    BY <1>1, <1>2, <1>3, <1>4, <1>5
<1>7. b - a = w * (qb - qa)
    BY <1>1, <1>2, <1>6
<1>8. qb - qa \in Int
    BY <1>2
<1>9. qb - qa > 0
    BY <1>1, <1>7, <1>8
<1>10. w * (qb - qa) >= w
    BY <1>1, <1>8, <1>9
<1> QED
    BY <1>1, <1>7, <1>10, <1>8

\* A number below the modulus is its own remainder.
LEMMA SmallRemainder ==
    ASSUME NEW w \in Nat, NEW d \in 0..(w - 1)
    PROVE  d % w = d
<1>1. w \in Nat /\ w > 0 /\ d \in Nat /\ d < w
    OBVIOUS
<1> DEFINE q == d \div w
<1>2. q \in Nat /\ d = w * q + (d % w) /\ d % w \in Nat
    BY <1>1
<1> HIDE DEF q
<1>3. CASE q = 0
    BY <1>1, <1>2, <1>3
<1>4. CASE q > 0
    <2>1. w * q >= w
        BY <1>1, <1>2, <1>4
    <2> QED
        BY <1>1, <1>2, <2>1
<1> QED
    BY <1>2, <1>3, <1>4

-----------------------------------------------------------------------------
(* The sum of a function over a set.  MapThenSumSet() is defined by        *)
(* recursion over the subsets of a set.                                    *)

SumOf(f, S) == MapThenSumSet(LAMBDA e : f[e], S)

Pick(s) == CHOOSE x \in s : TRUE

\* What the recursion adds up for s, given what it adds up for smaller sets.
Adds(f, g, s) == IF s = {} THEN 0 ELSE f[Pick(s)] + g[s \ {Pick(s)}]

\* g is the recursive function over the subsets of S.
Iterates(f, S, g) == g = [s \in SUBSET S |-> Adds(f, g, s)]

\* There is one.
LEMMA IterationExists ==
    ASSUME NEW f, NEW S, IsFiniteSet(S)
    PROVE  \E g : Iterates(f, S, g)
<1> DEFINE Upto(g, n) == /\ g = [s \in SUBSET S |-> g[s]]
                         /\ \A s \in SUBSET S : Cardinality(s) <= n => g[s] = Adds(f, g, s)
           Bad == {n \in Nat : ~ \E g : Upto(g, n)}
<1>1. \A s \in SUBSET S : IsFiniteSet(s) /\ Cardinality(s) \in Nat /\ Cardinality(s) <= Cardinality(S)
    BY FS_Subset, FS_CardinalityType
<1>2. \A s \in SUBSET S : s # {} => Pick(s) \in s /\ s \ {Pick(s)} \in SUBSET S
                                    /\ Cardinality(s \ {Pick(s)}) = Cardinality(s) - 1
    BY <1>1, FS_RemoveElement DEF Pick
<1>3. Bad = {}
    <2> SUFFICES ASSUME Bad # {} PROVE FALSE
        OBVIOUS
    <2>1. PICK n \in Bad : n \in Nat /\ \A k \in Bad : n <= k
        <3>1. Bad \subseteq Nat
            OBVIOUS
        <3> HIDE DEF Bad
        <3> QED
            BY <3>1, LeastNumber
    <2>2. CASE n = 0
        <3> DEFINE g == [s \in SUBSET S |-> 0]
        <3>1. \A s \in SUBSET S : Cardinality(s) <= 0 => s = {}
            BY <1>1, FS_EmptySet
        <3>2. Upto(g, 0)
            BY <3>1 DEF Adds
        <3> QED
            BY <2>1, <2>2, <3>2
    <2>3. CASE n # 0
        <3>1. n - 1 \in Nat /\ n - 1 \notin Bad
            <4>1. n - 1 \in Nat /\ ~(n <= n - 1)
                BY <2>1, <2>3
            <4> HIDE DEF Bad
            <4> QED
                BY <2>1, <4>1
        <3>2. PICK g : Upto(g, n - 1)
            BY <3>1
        <3> DEFINE h == [s \in SUBSET S |-> IF Cardinality(s) <= n - 1 THEN g[s] ELSE Adds(f, g, s)]
        <3>3. \A s \in SUBSET S : h[s] = IF Cardinality(s) <= n - 1 THEN g[s] ELSE Adds(f, g, s)
            OBVIOUS
        <3>4. h = [s \in SUBSET S |-> h[s]]
            OBVIOUS
        <3> HIDE DEF h
        <3>5. ASSUME NEW s \in SUBSET S, Cardinality(s) <= n PROVE h[s] = Adds(f, h, s)
            <4>1. h[s] = Adds(f, g, s)
                BY <3>2, <3>3
            <4>2. CASE s = {}
                BY <4>1, <4>2 DEF Adds
            <4>3. CASE s # {}
                <5>1. Cardinality(s \ {Pick(s)}) <= n - 1 /\ s \ {Pick(s)} \in SUBSET S
                    BY <1>1, <1>2, <3>1, <3>5, <4>3
                <5>2. h[s \ {Pick(s)}] = g[s \ {Pick(s)}]
                    BY <3>3, <5>1
                <5> QED
                    BY <4>1, <5>2 DEF Adds
            <4> QED
                BY <4>2, <4>3
        <3>6. Upto(h, n)
            BY <3>4, <3>5
        <3> QED
            BY <2>1, <3>6
    <2> QED
        BY <2>2, <2>3
<1>4. PICK g : Upto(g, Cardinality(S))
    <2>1. Cardinality(S) \in Nat
        BY FS_CardinalityType
    <2> QED
        BY <1>3, <2>1
<1>5. \A s \in SUBSET S : g[s] = Adds(f, g, s)
    BY <1>1, <1>4
<1>6. g = [s \in SUBSET S |-> Adds(f, g, s)]
    BY <1>4, <1>5
<1> QED
    BY <1>6 DEF Iterates

\* There is only one, whatever set it is defined for.
LEMMA IterationUnique ==
    ASSUME NEW f, NEW S, IsFiniteSet(S), NEW T \in SUBSET S,
           NEW g, NEW h, Iterates(f, S, g), Iterates(f, T, h)
    PROVE  g[T] = h[T]
<1> DEFINE F == {s \in SUBSET T : g[s] # h[s]}
<1>1. \A s \in SUBSET T : g[s] = Adds(f, g, s) /\ h[s] = Adds(f, h, s)
    BY DEF Iterates
<1>2. IsFiniteSet(T)
    BY FS_Subset
<1>3. F = {}
    <2> SUFFICES ASSUME F # {} PROVE FALSE
        OBVIOUS
    <2>1. PICK s \in F : \A u \in F : u \subseteq s => u = s
        <3>1. F \subseteq SUBSET T
            OBVIOUS
        <3> HIDE DEF F
        <3> QED
            BY <1>2, <3>1, MinimalSubset
    <2>2. s # {}
        BY <1>1, <2>1 DEF Adds
    <2>3. Pick(s) \in s
        BY <2>2 DEF Pick
    <2>4. g[s \ {Pick(s)}] = h[s \ {Pick(s)}]
        BY <2>1, <2>3
    <2> QED
        BY <1>1, <2>1, <2>4 DEF Adds
<1> QED
    BY <1>3

\* The sum is what the recursion comes to.
LEMMA SumIs ==
    ASSUME NEW f, NEW S, IsFiniteSet(S)
    PROVE  \E g : Iterates(f, S, g) /\ SumOf(f, S) = g[S]
<1>1. \E g : Iterates(f, S, g)
    BY IterationExists
<1> QED
    BY <1>1 DEF SumOf, MapThenSumSet, MapThenFoldSet, Iterates, Adds, Pick

LEMMA SumEmpty == \A f : SumOf(f, {}) = 0
<1> TAKE f
<1>1. PICK g : Iterates(f, {}, g) /\ SumOf(f, {}) = g[{}]
    BY FS_EmptySet, SumIs
<1> QED
    BY <1>1 DEF Iterates, Adds

\* One element and the rest.
LEMMA SumPick ==
    ASSUME NEW f, NEW S, IsFiniteSet(S), S # {}
    PROVE  SumOf(f, S) = f[Pick(S)] + SumOf(f, S \ {Pick(S)})
<1> DEFINE T == S \ {Pick(S)}
<1>1. T \in SUBSET S /\ IsFiniteSet(T)
    BY FS_RemoveElement
<1>2. PICK g : Iterates(f, S, g) /\ SumOf(f, S) = g[S]
    BY SumIs
<1>3. PICK h : Iterates(f, T, h) /\ SumOf(f, T) = h[T]
    BY <1>1, SumIs
<1>4. g[T] = h[T]
    BY <1>1, <1>2, <1>3, IterationUnique
<1>5. g[S] = Adds(f, g, S)
    BY <1>2 DEF Iterates
<1> QED
    BY <1>2, <1>3, <1>4, <1>5 DEF Adds

-----------------------------------------------------------------------------
(* Laws.                                                                   *)

\* A sum of natural numbers is one.
LEMMA SumType ==
    ASSUME NEW f, NEW S, IsFiniteSet(S), \A x \in S : f[x] \in Nat
    PROVE  SumOf(f, S) \in Nat
<1> DEFINE F == {T \in SUBSET S : SumOf(f, T) \notin Nat}
<1>1. F \subseteq SUBSET S
    OBVIOUS
<1>2. F = {}
    <2> SUFFICES ASSUME F # {} PROVE FALSE
        OBVIOUS
    <2>1. PICK T \in F : \A U \in F : U \subseteq T => U = T
        <3> HIDE DEF F
        <3> QED
            BY <1>1, MinimalSubset
    <2>2. T \in SUBSET S /\ IsFiniteSet(T)
        BY FS_Subset
    <2>3. T # {}
        BY SumEmpty
    <2>4. Pick(T) \in T
        BY <2>3 DEF Pick
    <2>5. SumOf(f, T \ {Pick(T)}) \in Nat
        BY <2>1, <2>2, <2>4
    <2>6. SumOf(f, T) = f[Pick(T)] + SumOf(f, T \ {Pick(T)})
        BY <2>2, <2>3, SumPick
    <2> QED
        BY <2>2, <2>4, <2>5, <2>6
<1> QED
    BY <1>2

\* It does not matter which element is taken first.
LEMMA SumRemove ==
    ASSUME NEW f, NEW S, IsFiniteSet(S), \A x \in S : f[x] \in Nat, NEW x \in S
    PROVE  SumOf(f, S) = f[x] + SumOf(f, S \ {x})
<1> DEFINE Law(T) == \A y \in T : SumOf(f, T) = f[y] + SumOf(f, T \ {y})
           F == {T \in SUBSET S : ~Law(T)}
<1>1. F \subseteq SUBSET S
    OBVIOUS
<1>2. \A T \in SUBSET S : IsFiniteSet(T) /\ SumOf(f, T) \in Nat
    BY FS_Subset, SumType
<1>3. F = {}
    <2> SUFFICES ASSUME F # {} PROVE FALSE
        OBVIOUS
    <2>1. PICK T \in F : \A U \in F : U \subseteq T => U = T
        <3> HIDE DEF F
        <3> QED
            BY <1>1, MinimalSubset
    <2>2. T \in SUBSET S /\ IsFiniteSet(T)
        BY <1>2
    <2>3. PICK y \in T : ~(SumOf(f, T) = f[y] + SumOf(f, T \ {y}))
        BY <2>1
    <2> DEFINE c == Pick(T)
    <2>4. c \in T /\ SumOf(f, T) = f[c] + SumOf(f, T \ {c})
        BY <2>2, SumPick DEF Pick
    <2> HIDE DEF c
    <2>5. c # y
        BY <2>3, <2>4
    <2>6. Law(T \ {c}) /\ Law(T \ {y})
        <3>1. T \ {c} \in SUBSET S /\ T \ {c} # T /\ T \ {c} \subseteq T
            BY <2>2, <2>4
        <3>2. T \ {y} \in SUBSET S /\ T \ {y} # T /\ T \ {y} \subseteq T
            BY <2>2
        <3> QED
            BY <2>1, <3>1, <3>2
    <2> DEFINE R == (T \ {c}) \ {y}
    <2>7. R = (T \ {y}) \ {c} /\ R \in SUBSET S
        BY <2>2
    <2>8. SumOf(f, T \ {c}) = f[y] + SumOf(f, R)
        BY <2>5, <2>6
    <2>9. SumOf(f, T \ {y}) = f[c] + SumOf(f, R)
        BY <2>4, <2>5, <2>6, <2>7
    <2> HIDE DEF R
    <2>10. f[y] \in Nat /\ f[c] \in Nat /\ SumOf(f, R) \in Nat
        BY <1>2, <2>2, <2>4, <2>7
    <2>11. f[c] + (f[y] + SumOf(f, R)) = f[y] + (f[c] + SumOf(f, R))
        BY <2>10
    <2> QED
        BY <2>3, <2>4, <2>8, <2>9, <2>11
<1> QED
    BY <1>3

\* One element more.
LEMMA SumAdd ==
    ASSUME NEW f, NEW S, IsFiniteSet(S), NEW x, x \notin S, \A y \in S \cup {x} : f[y] \in Nat
    PROVE  SumOf(f, S \cup {x}) = f[x] + SumOf(f, S)
<1>1. IsFiniteSet(S \cup {x}) /\ (S \cup {x}) \ {x} = S
    BY FS_AddElement
<1> QED
    BY <1>1, SumRemove

\* Only the values on the set matter.
LEMMA SumSame ==
    ASSUME NEW f, NEW g, NEW S, IsFiniteSet(S), \A x \in S : f[x] = g[x]
    PROVE  SumOf(f, S) = SumOf(g, S)
<1> DEFINE F == {T \in SUBSET S : SumOf(f, T) # SumOf(g, T)}
<1>1. F \subseteq SUBSET S
    OBVIOUS
<1>2. F = {}
    <2> SUFFICES ASSUME F # {} PROVE FALSE
        OBVIOUS
    <2>1. PICK T \in F : \A U \in F : U \subseteq T => U = T
        <3> HIDE DEF F
        <3> QED
            BY <1>1, MinimalSubset
    <2>2. T \in SUBSET S /\ IsFiniteSet(T)
        BY FS_Subset
    <2>3. T # {}
        BY SumEmpty
    <2>4. Pick(T) \in T
        BY <2>3 DEF Pick
    <2>5. SumOf(f, T \ {Pick(T)}) = SumOf(g, T \ {Pick(T)})
        BY <2>1, <2>2, <2>4
    <2>6. /\ SumOf(f, T) = f[Pick(T)] + SumOf(f, T \ {Pick(T)})
          /\ SumOf(g, T) = g[Pick(T)] + SumOf(g, T \ {Pick(T)})
        BY <2>2, <2>3, SumPick
    <2> QED
        BY <2>1, <2>2, <2>4, <2>5, <2>6
<1> QED
    BY <1>2

\* A sum of zeros.
LEMMA SumZero ==
    ASSUME NEW f, NEW S, IsFiniteSet(S), \A x \in S : f[x] = 0
    PROVE  SumOf(f, S) = 0
<1> DEFINE F == {T \in SUBSET S : SumOf(f, T) # 0}
<1>1. F \subseteq SUBSET S
    OBVIOUS
<1>2. F = {}
    <2> SUFFICES ASSUME F # {} PROVE FALSE
        OBVIOUS
    <2>1. PICK T \in F : \A U \in F : U \subseteq T => U = T
        <3> HIDE DEF F
        <3> QED
            BY <1>1, MinimalSubset
    <2>2. T \in SUBSET S /\ IsFiniteSet(T)
        BY FS_Subset
    <2>3. T # {}
        BY SumEmpty
    <2>4. Pick(T) \in T
        BY <2>3 DEF Pick
    <2>5. SumOf(f, T \ {Pick(T)}) = 0
        BY <2>1, <2>2, <2>4
    <2>6. SumOf(f, T) = f[Pick(T)] + SumOf(f, T \ {Pick(T)})
        BY <2>2, <2>3, SumPick
    <2> QED
        BY <2>1, <2>2, <2>4, <2>5, <2>6
<1> QED
    BY <1>2

\* The sum of sums.
LEMMA SumPlus ==
    ASSUME NEW f, NEW g, NEW h, NEW S, IsFiniteSet(S),
           \A x \in S : f[x] \in Nat /\ g[x] \in Nat /\ h[x] = f[x] + g[x]
    PROVE  SumOf(h, S) = SumOf(f, S) + SumOf(g, S)
<1> DEFINE F == {T \in SUBSET S : SumOf(h, T) # SumOf(f, T) + SumOf(g, T)}
<1>1. F \subseteq SUBSET S
    OBVIOUS
<1>2. F = {}
    <2> SUFFICES ASSUME F # {} PROVE FALSE
        OBVIOUS
    <2>1. PICK T \in F : \A U \in F : U \subseteq T => U = T
        <3> HIDE DEF F
        <3> QED
            BY <1>1, MinimalSubset
    <2>2. T \in SUBSET S /\ IsFiniteSet(T)
        BY FS_Subset
    <2>3. T # {}
        <3>1. SumOf(f, {}) + SumOf(g, {}) = 0 /\ SumOf(h, {}) = 0
            BY SumEmpty
        <3> QED
            BY <2>1, <3>1
    <2> DEFINE c == Pick(T)
               R == T \ {c}
    <2>4. c \in T /\ R \in SUBSET S /\ IsFiniteSet(R) /\ R # T /\ R \subseteq T
        BY <2>2, <2>3, FS_RemoveElement DEF Pick
    <2>5. /\ SumOf(f, T) = f[c] + SumOf(f, R)
          /\ SumOf(g, T) = g[c] + SumOf(g, R)
          /\ SumOf(h, T) = h[c] + SumOf(h, R)
        BY <2>2, <2>3, SumPick
    <2> HIDE DEF c, R
    <2>6. SumOf(h, R) = SumOf(f, R) + SumOf(g, R)
        BY <2>1, <2>4
    <2>7. SumOf(f, R) \in Nat /\ SumOf(g, R) \in Nat
        BY <2>4, SumType
    <2>8. f[c] \in Nat /\ g[c] \in Nat /\ h[c] = f[c] + g[c]
        BY <2>2, <2>4
    <2>9. SumOf(h, T) # SumOf(f, T) + SumOf(g, T)
        BY <2>1
    <2>10. \A a, b, m, n \in Nat : (a + b) + (m + n) = (a + m) + (b + n)
        OBVIOUS
    <2> QED
        BY <2>5, <2>6, <2>7, <2>8, <2>9, <2>10
<1> QED
    BY <1>2

\* The sum over two sets that share nothing.
LEMMA SumUnion ==
    ASSUME NEW f, NEW A, NEW B, IsFiniteSet(A), IsFiniteSet(B), A \cap B = {},
           \A x \in A \cup B : f[x] \in Nat
    PROVE  SumOf(f, A \cup B) = SumOf(f, A) + SumOf(f, B)
<1> DEFINE F == {T \in SUBSET B : SumOf(f, A \cup T) # SumOf(f, A) + SumOf(f, T)}
<1>1. F \subseteq SUBSET B
    OBVIOUS
<1>2. F = {}
    <2> SUFFICES ASSUME F # {} PROVE FALSE
        OBVIOUS
    <2>1. PICK T \in F : \A U \in F : U \subseteq T => U = T
        <3> HIDE DEF F
        <3> QED
            BY <1>1, MinimalSubset
    <2>2. T \in SUBSET B /\ IsFiniteSet(T)
        BY FS_Subset
    <2>3. SumOf(f, A) \in Nat
        BY SumType
    <2>4. T # {}
        <3> SUFFICES ASSUME T = {} PROVE FALSE
            OBVIOUS
        <3>1. A \cup T = A /\ SumOf(f, T) = 0
            BY SumEmpty
        <3> QED
            BY <2>1, <2>3, <3>1
    <2> DEFINE c == Pick(T)
               R == T \ {c}
    <2>5. c \in T /\ R \in SUBSET B /\ IsFiniteSet(R) /\ R # T /\ R \subseteq T /\ c \notin A
        BY <2>2, <2>4, FS_RemoveElement DEF Pick
    <2>6. SumOf(f, T) = f[c] + SumOf(f, R)
        BY <2>2, <2>4, SumPick
    <2>7. (A \cup R) \cup {c} = A \cup T /\ c \notin A \cup R
        BY <2>5
    <2> HIDE DEF c, R
    <2>8. SumOf(f, A \cup R) = SumOf(f, A) + SumOf(f, R)
        BY <2>1, <2>5
    <2>9. f[c] \in Nat /\ SumOf(f, R) \in Nat
        BY <2>2, <2>5, SumType
    <2>10. SumOf(f, A \cup T) = f[c] + SumOf(f, A \cup R)
        <3>1. IsFiniteSet(A \cup R) /\ \A y \in (A \cup R) \cup {c} : f[y] \in Nat
            BY <2>2, <2>5, FS_Union
        <3>2. SumOf(f, (A \cup R) \cup {c}) = f[c] + SumOf(f, A \cup R)
            BY <2>7, <3>1, SumAdd
        <3> QED
            BY <2>7, <3>2
    <2>11. SumOf(f, A \cup T) # SumOf(f, A) + SumOf(f, T)
        BY <2>1
    <2>12. \A a, b, m \in Nat : m + (a + b) = a + (m + b)
        OBVIOUS
    <2> QED
        BY <2>3, <2>6, <2>8, <2>9, <2>10, <2>11, <2>12
<1> QED
    BY <1>2

\* The sets p[i] share nothing, and h[i] is the sum over p[i].
Parts(f, J, p, h) ==
    /\ IsFiniteSet(J)
    /\ \A i \in J : IsFiniteSet(p[i]) /\ h[i] = SumOf(f, p[i])
    /\ \A i, j \in J : i # j => p[i] \cap p[j] = {}
    /\ \A i \in J : \A x \in p[i] : f[x] \in Nat

\* The sum over many sets that share nothing.
LEMMA SumParts ==
    ASSUME NEW f, NEW J, NEW p, NEW h, Parts(f, J, p, h),
           NEW L, L = UNION {p[i] : i \in J}
    PROVE  IsFiniteSet(L) /\ SumOf(h, J) = SumOf(f, L)
<1> DEFINE All(K) == UNION {p[i] : i \in K}
           Law(K) == IsFiniteSet(All(K)) /\ SumOf(h, K) = SumOf(f, All(K))
           F == {K \in SUBSET J : ~Law(K)}
<1>1. /\ IsFiniteSet(J)
      /\ \A i \in J : IsFiniteSet(p[i]) /\ h[i] = SumOf(f, p[i])
      /\ \A i, j \in J : i # j => p[i] \cap p[j] = {}
      /\ \A i \in J : \A x \in p[i] : f[x] \in Nat
    BY DEF Parts
<1>2. F \subseteq SUBSET J
    OBVIOUS
<1>3. F = {}
    <2> SUFFICES ASSUME F # {} PROVE FALSE
        OBVIOUS
    <2>1. PICK K \in F : \A U \in F : U \subseteq K => U = K
        <3> HIDE DEF F
        <3> QED
            BY <1>1, <1>2, MinimalSubset
    <2>2. K \in SUBSET J /\ IsFiniteSet(K) /\ ~Law(K)
        BY <1>1, <2>1, FS_Subset
    <2>3. K # {}
        <3> SUFFICES ASSUME K = {} PROVE FALSE
            OBVIOUS
        <3>1. All(K) = {}
            OBVIOUS
        <3> QED
            BY <2>2, <3>1, SumEmpty, FS_EmptySet
    <2> DEFINE c == Pick(K)
               R == K \ {c}
    <2>4. c \in K /\ R \in SUBSET J /\ R # K /\ R \subseteq K /\ c \in J
        BY <2>2, <2>3 DEF Pick
    <2>5. SumOf(h, K) = h[c] + SumOf(h, R)
        BY <2>2, <2>3, SumPick
    <2>6. All(K) = All(R) \cup p[c]
        BY <2>4
    <2>7. All(R) \cap p[c] = {}
        BY <1>1, <2>4
    <2>8. \A x \in All(R) \cup p[c] : f[x] \in Nat
        BY <1>1, <2>4
    <2>9. Law(R)
        <3>1. R \notin F
            BY <2>1, <2>4
        <3> QED
            BY <2>4, <3>1
    <2> DEFINE Q == All(R)
               P == p[c]
    <2>10. IsFiniteSet(Q) /\ IsFiniteSet(P) /\ Q \cap P = {} /\ All(K) = Q \cup P
           /\ (\A x \in Q \cup P : f[x] \in Nat) /\ SumOf(h, R) = SumOf(f, Q) /\ h[c] = SumOf(f, P)
        BY <1>1, <2>4, <2>6, <2>7, <2>8, <2>9
    <2> HIDE DEF All, c, R, Q, P
    <2>11. SumOf(f, Q \cup P) = SumOf(f, Q) + SumOf(f, P) /\ IsFiniteSet(Q \cup P)
        <3>1. IsFiniteSet(Q \cup P)
            BY <2>10, FS_Union
        <3>2. SumOf(f, Q \cup P) = SumOf(f, Q) + SumOf(f, P)
            BY <2>10, SumUnion
        <3> QED
            BY <3>1, <3>2
    <2>12. SumOf(f, Q) \in Nat /\ SumOf(f, P) \in Nat
        BY <2>10, SumType
    <2>13. SumOf(h, K) = SumOf(f, All(K))
        BY <2>5, <2>10, <2>11, <2>12
    <2> QED
        BY <2>2, <2>10, <2>11, <2>13
<1>4. Law(J)
    BY <1>3
<1> QED
    BY <1>4
=============================================================================
