--------------------------- MODULE InductionLemmas ---------------------------
(***************************************************************************)
(* What the proofs about recursive functions, folds and sorted sequences   *)
(* need of numbers and finite sets: an induction without an operator as    *)
(* parameter, the existence of a recursive function, and the place of a    *)
(* member in a strict order.                                               *)
(***************************************************************************)
EXTENDS Integers, FiniteSets, SequencesExt, Functions, FiniteSetTheorems, WellFoundedInduction, TLAPS

-----------------------------------------------------------------------------
(* Induction and recursion over numbers *)

\* A set of numbers that has zero, and the successor of each of its members, has all.
LEMMA NatInductive ==
    ASSUME NEW T, 0 \in T, \A n \in Nat : n \in T => n + 1 \in T
    PROVE  Nat \subseteq T
<1> DEFINE Bad == {n \in Nat : n \notin T}
<1>1. SUFFICES ASSUME Bad # {} PROVE FALSE
    OBVIOUS
<1>2. PICK n \in Bad : \A m \in Bad : ~(<<m, n>> \in OpToRel(<, Nat))
    BY <1>1, NatLessThanWellFounded, WFMin
<1>3. n \in Nat /\ n # 0
    OBVIOUS
<1>4. n - 1 \in Nat /\ n - 1 \notin Bad
    <2>1. n - 1 \in Nat /\ n - 1 < n
        BY <1>3
    <2>2. <<n - 1, n>> \in OpToRel(<, Nat)
        BY <1>3, <2>1 DEF OpToRel
    <2> QED BY <1>2, <2>1, <2>2
<1>5. (n - 1) + 1 \in T
    BY <1>4
<1> QED BY <1>3, <1>5

Recursive(f, N, S, b, F) ==
    /\ f \in [0..N -> S]
    /\ f[0] = b
    /\ \A k \in 1..N : f[k] = F[<<k, f[k - 1]>>]

\* There is a function that starts from b and takes each value from the one before.
LEMMA Recursion ==
    ASSUME NEW S, NEW b \in S, NEW F \in [Nat \X S -> S], NEW N \in Nat
    PROVE  \E f : Recursive(f, N, S, b, F)
<1> DEFINE T == {n \in Nat : \E f : Recursive(f, n, S, b, F)}
<1>1. 0 \in T
    <2> DEFINE f == [k \in 0..0 |-> b]
    <2>1. Recursive(f, 0, S, b, F)
        BY DEF Recursive
    <2> QED BY <2>1
<1>2. ASSUME NEW n \in Nat, n \in T PROVE n + 1 \in T
    <2>1. PICK f : Recursive(f, n, S, b, F)
        BY <1>2
    <2> DEFINE g == [k \in 0..(n + 1) |-> IF k = n + 1 THEN F[<<n + 1, f[n]>>] ELSE f[k]]
    <2>2. F[<<n + 1, f[n]>>] \in S
        BY <2>1 DEF Recursive
    <2>3. g \in [0..(n + 1) -> S] /\ g[0] = b
        BY <2>1, <2>2 DEF Recursive
    <2>4. ASSUME NEW k \in 1..(n + 1) PROVE g[k] = F[<<k, g[k - 1]>>]
        <3>1. k - 1 \in 0..n /\ g[k - 1] = f[k - 1]
            OBVIOUS
        <3>2. CASE k = n + 1
            <4>1. k - 1 = n /\ g[n] = f[n]
                BY <3>1, <3>2
            <4>2. g[n + 1] = F[<<n + 1, f[n]>>]
                OBVIOUS
            <4>3. g[n + 1] = F[<<n + 1, g[n]>>]
                BY <4>1, <4>2
            <4> HIDE DEF g
            <4> QED BY <3>2, <4>1, <4>3
        <3>3. CASE k # n + 1
            BY <2>1, <3>1, <3>3 DEF Recursive
        <3> QED BY <3>2, <3>3
    <2>5. Recursive(g, n + 1, S, b, F)
        BY <2>3, <2>4 DEF Recursive
    <2> QED BY <2>5
<1> HIDE DEF T
<1>3. Nat \subseteq T
    BY <1>1, <1>2, NatInductive
<1> QED BY <1>3 DEF T

\* The largest of a set of numbers that ends with n.
LEMMA MaxIs ==
    ASSUME NEW n \in Nat, NEW S \in SUBSET (1..n), n \in S
    PROVE  Max(S) = n
<1>1. n \in S /\ \A y \in S : n >= y
    OBVIOUS
<1>2. \A x \in S : (\A y \in S : x >= y) => x = n
    OBVIOUS
<1> QED BY <1>1, <1>2 DEF Max

-----------------------------------------------------------------------------
(* Orders *)

StrictOrder(R, S) ==
    /\ \A x \in S : <<x, x>> \notin R
    /\ \A x, y \in S : x # y => <<x, y>> \in R \/ <<y, x>> \in R
    /\ \A x, y, z \in S : <<x, y>> \in R /\ <<y, z>> \in R => <<x, z>> \in R
Place(R, S, x) == Cardinality({y \in S : <<y, x>> \in R})

\* Fewer members come before one than there are.
LEMMA PlaceBelow ==
    ASSUME NEW S, IsFiniteSet(S), NEW R, StrictOrder(R, S), NEW x \in S
    PROVE  Place(R, S, x) \in Nat /\ Place(R, S, x) < Cardinality(S)
<1> DEFINE below == {y \in S : <<y, x>> \in R}
<1>1. below \in SUBSET S /\ x \notin below
    BY DEF StrictOrder
<1> HIDE DEF below
<1>2. /\ IsFiniteSet(below) /\ Cardinality(below) <= Cardinality(S)
      /\ Cardinality(S) = Cardinality(below) => S = below
    BY <1>1, FS_Subset
<1>3. Cardinality(below) \in Nat /\ Cardinality(S) \in Nat
    BY <1>2, FS_CardinalityType
<1>4. Cardinality(below) < Cardinality(S)
    BY <1>1, <1>2, <1>3
<1> QED BY <1>3, <1>4 DEF Place, below

\* Places grow along the order.
LEMMA PlaceGrows ==
    ASSUME NEW S, IsFiniteSet(S), NEW R, StrictOrder(R, S), NEW x \in S, NEW y \in S, <<x, y>> \in R
    PROVE  Place(R, S, x) < Place(R, S, y)
<1> DEFINE below(z) == {w \in S : <<w, z>> \in R}
<1>1. below(x) \in SUBSET below(y) /\ x \in below(y) /\ x \notin below(x) /\ below(y) \in SUBSET S
    BY DEF StrictOrder
<1> HIDE DEF below
<1>2. IsFiniteSet(below(y))
    BY <1>1, FS_Subset
<1>3. /\ IsFiniteSet(below(x)) /\ Cardinality(below(x)) <= Cardinality(below(y))
      /\ Cardinality(below(y)) = Cardinality(below(x)) => below(y) = below(x)
    BY <1>1, <1>2, FS_Subset
<1>4. Cardinality(below(x)) \in Nat /\ Cardinality(below(y)) \in Nat
    BY <1>2, <1>3, FS_CardinalityType
<1>5. Cardinality(below(x)) < Cardinality(below(y))
    BY <1>1, <1>3, <1>4
<1> QED BY <1>5 DEF Place, below

\* No two members have the same place.
LEMMA PlacesDiffer ==
    ASSUME NEW S, IsFiniteSet(S), NEW R, StrictOrder(R, S), NEW x \in S, NEW y \in S,
           Place(R, S, x) = Place(R, S, y)
    PROVE  x = y
<1>1. Place(R, S, x) \in Nat /\ Place(R, S, y) \in Nat
    BY PlaceBelow
<1>2. <<x, y>> \notin R /\ <<y, x>> \notin R
    BY <1>1, PlaceGrows
<1> QED BY <1>2 DEF StrictOrder

\* In a strict order of a finite set there is one member at each place.
LEMMA EveryPlaceTaken ==
    ASSUME NEW S, IsFiniteSet(S), NEW R, StrictOrder(R, S), NEW k \in 1..Cardinality(S)
    PROVE  \E x \in S : Place(R, S, x) = k - 1
<1> DEFINE place == [x \in S |-> Place(R, S, x) + 1]
<1>1. Cardinality(S) \in Nat
    BY FS_CardinalityType
<1>2. \A x \in S : Place(R, S, x) + 1 \in 1..Cardinality(S)
    BY <1>1, PlaceBelow
<1>3. ASSUME NEW x \in S, NEW y \in S, place[x] = place[y] PROVE x = y
    <2>1. Place(R, S, x) \in Nat /\ Place(R, S, y) \in Nat
        BY PlaceBelow
    <2>2. Place(R, S, x) = Place(R, S, y)
        BY <1>3, <2>1
    <2> QED BY <2>2, PlacesDiffer
<1>4. place \in Injection(S, 1..Cardinality(S))
    BY <1>2, <1>3 DEF Injection, IsInjective
<1>5. IsFiniteSet(1..Cardinality(S)) /\ Cardinality(1..Cardinality(S)) = Cardinality(S)
    BY <1>1, FS_Interval
<1>6. place \in Surjection(S, 1..Cardinality(S))
    <2> HIDE DEF place
    <2> QED BY <1>4, <1>5, FS_Injection
<1>7. PICK x \in S : place[x] = k
    BY <1>6 DEF Surjection
<1>8. Place(R, S, x) = k - 1
    BY <1>1, <1>7, PlaceBelow
<1> QED BY <1>8
-----------------------------------------------------------------------------
(* Induction over finite sets, and sums *)

\* Taking a member away.
LEMMA OneLess ==
    ASSUME NEW s, IsFiniteSet(s), NEW x \in s, NEW n \in Nat, Cardinality(s) = n + 1
    PROVE  Cardinality(s \ {x}) = n
<1>1. Cardinality(s \ {x}) = Cardinality(s) - 1
    BY FS_RemoveElement
<1> QED BY <1>1

\* A set of subsets of S that has the empty set, and with a set the set and one member
\* more, has S.
LEMMA SubsetsInductive ==
    ASSUME NEW S, IsFiniteSet(S), NEW T, {} \in T,
           \A s \in SUBSET S : s \in T => \A x \in S \ s : s \union {x} \in T
    PROVE  S \in T
<1> DEFINE N == {n \in Nat : \A s \in SUBSET S : Cardinality(s) = n => s \in T}
<1>1. 0 \in N
    <2>1. ASSUME NEW s \in SUBSET S, Cardinality(s) = 0 PROVE s \in T
        <3>1. IsFiniteSet(s)
            BY FS_Subset
        <3>2. s = {}
            BY <2>1, <3>1, FS_EmptySet
        <3> QED BY <3>2
    <2> QED BY <2>1
<1>2. ASSUME NEW n \in Nat, n \in N PROVE n + 1 \in N
    <2>1. ASSUME NEW s \in SUBSET S, Cardinality(s) = n + 1 PROVE s \in T
        <3>1. IsFiniteSet(s)
            BY FS_Subset
        <3>2. s # {}
            BY <2>1, <3>1, FS_EmptySet
        <3>3. PICK x \in s : TRUE
            BY <3>2
        <3>4. Cardinality(s \ {x}) = n
            BY <2>1, <3>1, OneLess
        <3>5. s \ {x} \in T /\ s \ {x} \in SUBSET S /\ x \in S \ (s \ {x})
            BY <1>2, <3>3, <3>4
        <3>6. (s \ {x}) \union {x} = s
            BY <3>3
        <3> QED BY <3>5, <3>6
    <2> QED BY <2>1
<1> HIDE DEF N
<1>3. Nat \subseteq N
    BY <1>1, <1>2, NatInductive
<1>4. Cardinality(S) \in Nat
    BY FS_CardinalityType
<1> QED BY <1>3, <1>4 DEF N

Sums(g, f, S) ==
    g = [s \in SUBSET S |->
            IF s = {} THEN 0 ELSE f[CHOOSE x \in s : TRUE] + g[s \ {CHOOSE x \in s : TRUE}]]

\* Sums over all subsets exist.
LEMMA SumsExist ==
    ASSUME NEW S, IsFiniteSet(S), NEW f \in [S -> Int]
    PROVE  \E g : Sums(g, f, S)
<1> DEFINE eq(g, s) == g[s] = IF s = {} THEN 0
                              ELSE f[CHOOSE x \in s : TRUE] + g[s \ {CHOOSE x \in s : TRUE}]
           N == {n \in Nat : \E g : /\ g \in [SUBSET S -> Int]
                                    /\ \A s \in SUBSET S : Cardinality(s) <= n => eq(g, s)}
<1>1. 0 \in N
    <2> DEFINE g == [s \in SUBSET S |-> 0]
    <2>1. ASSUME NEW s \in SUBSET S, Cardinality(s) <= 0 PROVE eq(g, s)
        <3>1. IsFiniteSet(s) /\ Cardinality(s) \in Nat
            BY FS_Subset, FS_CardinalityType
        <3>2. s = {}
            BY <2>1, <3>1, FS_EmptySet
        <3> QED BY <3>2
    <2>2. g \in [SUBSET S -> Int]
        OBVIOUS
    <2> HIDE DEF g, eq
    <2> QED BY <2>1, <2>2
<1>2. ASSUME NEW n \in Nat, n \in N PROVE n + 1 \in N
    <2>1. PICK g : /\ g \in [SUBSET S -> Int]
                   /\ \A s \in SUBSET S : Cardinality(s) <= n => eq(g, s)
        BY <1>2
    <2> DEFINE ch(s) == CHOOSE x \in s : TRUE
               h == [s \in SUBSET S |-> IF Cardinality(s) = n + 1 THEN f[ch(s)] + g[s \ {ch(s)}] ELSE g[s]]
    <2>2. ASSUME NEW s \in SUBSET S, s # {}
          PROVE  /\ ch(s) \in s /\ s \ {ch(s)} \in SUBSET S /\ f[ch(s)] \in Int
                 /\ g[s \ {ch(s)}] \in Int
                 /\ Cardinality(s) \in Nat /\ Cardinality(s \ {ch(s)}) = Cardinality(s) - 1
        <3>1. ch(s) \in s
            BY <2>2
        <3>2. s \ {ch(s)} \in SUBSET S /\ f[ch(s)] \in Int
            BY <3>1
        <3>3. IsFiniteSet(s)
            BY FS_Subset
        <3> QED BY <2>1, <3>1, <3>2, <3>3, FS_RemoveElement, FS_CardinalityType
    <2>3. ASSUME NEW s \in SUBSET S, Cardinality(s) = n + 1 PROVE s # {}
        BY <2>3, FS_EmptySet
    <2> HIDE DEF ch
    <2>4. h \in [SUBSET S -> Int]
        BY <2>1, <2>2, <2>3
    <2>5. ASSUME NEW s \in SUBSET S, Cardinality(s) <= n + 1
          PROVE  h[s] = IF s = {} THEN 0 ELSE f[ch(s)] + h[s \ {ch(s)}]
        <3>1. CASE s = {}
            <4>1. Cardinality(s) = 0
                BY <3>1, FS_EmptySet
            <4>2. h[s] = g[s] /\ eq(g, s)
                BY <2>1, <4>1
            <4> QED BY <3>1, <4>2
        <3>2. CASE s # {}
            <4>1. h[s \ {ch(s)}] = g[s \ {ch(s)}]
                BY <2>2, <2>5, <3>2
            <4>2. CASE Cardinality(s) = n + 1
                BY <3>2, <4>1, <4>2
            <4>3. CASE Cardinality(s) # n + 1
                <5>1. Cardinality(s) <= n
                    <6>1. Cardinality(s) \in Nat /\ Cardinality(s) <= n + 1
                        BY <2>2, <2>5, <3>2
                    <6> QED BY <4>3, <6>1
                <5>2. eq(g, s)
                    BY <2>1, <5>1
                <5>3. h[s] = g[s]
                    BY <4>3
                <5> QED BY <3>2, <4>1, <5>2, <5>3 DEF ch
            <4> QED BY <4>2, <4>3
        <3> QED BY <3>1, <3>2
    <2> HIDE DEF h
    <2>6. \A s \in SUBSET S : Cardinality(s) <= n + 1 => eq(h, s)
        BY <2>5 DEF ch
    <2> HIDE DEF eq
    <2> QED BY <2>4, <2>6
<1> HIDE DEF N
<1>3. Cardinality(S) \in Nat
    BY FS_CardinalityType
<1>4. Cardinality(S) \in N
    BY <1>1, <1>2, <1>3, NatInductive
<1>5. PICK g : /\ g \in [SUBSET S -> Int]
               /\ \A s \in SUBSET S : Cardinality(s) <= Cardinality(S) => eq(g, s)
    BY <1>4 DEF N
<1>6. \A s \in SUBSET S : Cardinality(s) <= Cardinality(S)
    BY FS_Subset
<1>7. g = [s \in SUBSET S |-> g[s]] /\ \A s \in SUBSET S : eq(g, s)
    BY <1>5, <1>6
<1>8. Sums(g, f, S)
    BY <1>7 DEF Sums
<1> QED BY <1>8

\* Sums of integers are integers.
LEMMA SumsTyped ==
    ASSUME NEW S, IsFiniteSet(S), NEW f \in [S -> Int], NEW g, Sums(g, f, S)
    PROVE  g \in [SUBSET S -> Int]
<1> DEFINE ch(s) == CHOOSE x \in s : TRUE
           N == {n \in Nat : \A s \in SUBSET S : Cardinality(s) = n => g[s] \in Int}
<1>z. g[{}] = 0
    BY DEF Sums
<1>0. \A s \in SUBSET S : s # {} => ch(s) \in s /\ g[s] = f[ch(s)] + g[s \ {ch(s)}]
    BY DEF Sums
<1> HIDE DEF ch
<1>1. 0 \in N
    <2>1. ASSUME NEW s \in SUBSET S, Cardinality(s) = 0 PROVE g[s] \in Int
        <3>1. IsFiniteSet(s)
            BY FS_Subset
        <3>2. s = {}
            BY <2>1, <3>1, FS_EmptySet
        <3> QED BY <1>z, <3>2
    <2> QED BY <2>1
<1>2. ASSUME NEW n \in Nat, n \in N PROVE n + 1 \in N
    <2>1. ASSUME NEW s \in SUBSET S, Cardinality(s) = n + 1 PROVE g[s] \in Int
        <3>1. IsFiniteSet(s) /\ s # {}
            BY <2>1, FS_Subset, FS_EmptySet
        <3>2. ch(s) \in s /\ f[ch(s)] \in Int /\ g[s] = f[ch(s)] + g[s \ {ch(s)}]
            BY <1>0, <3>1
        <3>3. Cardinality(s \ {ch(s)}) = n /\ s \ {ch(s)} \in SUBSET S
            BY <2>1, <3>1, <3>2, OneLess
        <3>4. g[s \ {ch(s)}] \in Int
            BY <1>2, <3>3
        <3> QED BY <3>2, <3>4
    <2> QED BY <2>1
<1> HIDE DEF N
<1>3. Nat \subseteq N
    BY <1>1, <1>2, NatInductive
<1>4. \A s \in SUBSET S : Cardinality(s) \in Nat
    BY FS_Subset, FS_CardinalityType
<1>5. \A s \in SUBSET S : g[s] \in Int
    BY <1>3, <1>4 DEF N
<1>6. DOMAIN g = SUBSET S /\ g = [s \in SUBSET S |-> g[s]]
    BY DEF Sums
<1> QED BY <1>5, <1>6

\* A member may be taken out of a sum first, whichever is.
LEMMA SumsRemove ==
    ASSUME NEW S, IsFiniteSet(S), NEW f \in [S -> Int], NEW g, Sums(g, f, S)
    PROVE  \A s \in SUBSET S : g[s] \in Int /\ \A x \in s : g[s] = f[x] + g[s \ {x}]
<1> DEFINE ok(s) == g[s] \in Int /\ \A x \in s : g[s] = f[x] + g[s \ {x}]
           ch(s) == CHOOSE x \in s : TRUE
           N == {n \in Nat : \A s \in SUBSET S : Cardinality(s) = n => ok(s)}
<1>t. \A s \in SUBSET S : g[s] \in Int
    <2>1. g \in [SUBSET S -> Int]
        BY SumsTyped
    <2> QED BY <2>1
<1>z. g[{}] = 0
    BY DEF Sums
<1>0. \A s \in SUBSET S : s # {} => ch(s) \in s /\ g[s] = f[ch(s)] + g[s \ {ch(s)}]
    BY DEF Sums
<1> HIDE DEF ch
<1>1. 0 \in N
    <2>1. ASSUME NEW s \in SUBSET S, Cardinality(s) = 0 PROVE ok(s)
        <3>1. IsFiniteSet(s)
            BY FS_Subset
        <3>2. s = {}
            BY <2>1, <3>1, FS_EmptySet
        <3> QED BY <1>z, <3>2
    <2> QED BY <2>1
<1>2. ASSUME NEW n \in Nat, n \in N PROVE n + 1 \in N
    <2>1. ASSUME NEW s \in SUBSET S, Cardinality(s) = n + 1 PROVE ok(s)
        <3>1. IsFiniteSet(s) /\ s # {}
            BY <2>1, FS_Subset, FS_EmptySet
        <3>2. \A x \in s : Cardinality(s \ {x}) = n /\ s \ {x} \in SUBSET S
            BY <2>1, <3>1, OneLess
        <3>3. \A x \in s : ok(s \ {x})
            BY <1>2, <3>2
        <3> DEFINE c == ch(s)
        <3>4. c \in s /\ f[c] \in Int /\ g[s] = f[c] + g[s \ {c}] /\ g[s \ {c}] \in Int
            BY <1>0, <3>1, <3>3
        <3> HIDE DEF c
        <3>5. g[s] \in Int
            BY <3>4
        <3>6. ASSUME NEW x \in s PROVE g[s] = f[x] + g[s \ {x}]
            <4>1. CASE x = c
                BY <3>4, <4>1
            <4>2. CASE x # c
                <5>1. x \in s \ {c} /\ c \in s \ {x} /\ (s \ {c}) \ {x} = (s \ {x}) \ {c}
                    BY <3>4, <4>2
                <5> DEFINE r == (s \ {x}) \ {c}
                <5>2. g[s \ {c}] = f[x] + g[r] /\ g[s \ {x}] = f[c] + g[r] /\ g[s \ {x}] \in Int
                    BY <3>3, <3>4, <5>1
                <5>3. g[r] \in Int
                    BY <1>t
                <5> HIDE DEF r
                <5>4. f[x] \in Int
                    OBVIOUS
                <5> QED BY <3>4, <5>2, <5>3, <5>4
            <4> QED BY <4>1, <4>2
        <3> QED BY <3>5, <3>6
    <2> QED BY <2>1
<1> HIDE DEF N, ok
<1>3. Nat \subseteq N
    BY <1>1, <1>2, NatInductive
<1>4. \A s \in SUBSET S : Cardinality(s) \in Nat
    BY FS_Subset, FS_CardinalityType
<1>5. \A s \in SUBSET S : ok(s)
    BY <1>3, <1>4 DEF N
<1> QED BY <1>5 DEF ok

\* Two sums agree where the functions do, whatever larger set one of them is part of.
LEMMA SumsAgree ==
    ASSUME NEW S, IsFiniteSet(S), NEW f \in [S -> Int], NEW g, Sums(g, f, S),
           NEW R \in SUBSET S, NEW e \in [R -> Int], NEW h, Sums(h, e, R),
           \A x \in R : e[x] = f[x]
    PROVE  h[R] = g[R]
<1> DEFINE T == {s \in SUBSET R : h[s] = g[s]}
<1>1. IsFiniteSet(R)
    BY FS_Subset
<1>2. {} \in T
    BY DEF Sums
<1>3. ASSUME NEW s \in SUBSET R, s \in T, NEW x \in R \ s PROVE s \union {x} \in T
    <2> DEFINE r == s \union {x}
    <2>1. r \in SUBSET R /\ r \in SUBSET S /\ x \in r /\ r \ {x} = s
        BY <1>3
    <2> HIDE DEF r
    <2>2. h[r] = e[x] + h[s]
        BY <1>1, <2>1, SumsRemove
    <2>3. g[r] = f[x] + g[s]
        BY <2>1, SumsRemove
    <2>4. h[r] = g[r]
        BY <1>3, <2>2, <2>3
    <2> QED BY <2>1, <2>4 DEF r
<1> HIDE DEF T
<1>4. R \in T
    BY <1>1, <1>2, <1>3, SubsetsInductive
<1> QED BY <1>4 DEF T

\* The sum of f over S.
Over(f, S) == SumFunction([x \in S |-> f[x]])

LEMMA OverIs ==
    ASSUME NEW S, IsFiniteSet(S), NEW f, \A x \in S : f[x] \in Int
    PROVE  \E g : Sums(g, [x \in S |-> f[x]], S) /\ Over(f, S) = g[S]
<1> DEFINE e == [x \in S |-> f[x]]
<1>1. e \in [S -> Int] /\ DOMAIN e = S
    OBVIOUS
<1> HIDE DEF e
<1>2. SumFunction(e) = (CHOOSE g : Sums(g, e, S))[S]
    BY <1>1 DEF SumFunction, SumFunctionOnSet, FoldFunctionOnSet, MapThenFoldSet, Sums
<1>3. Sums(CHOOSE g : Sums(g, e, S), e, S)
    BY <1>1, SumsExist
<1> QED BY <1>2, <1>3 DEF e, Over

\* The sum over nothing.
LEMMA OverEmpty ==
    ASSUME NEW f
    PROVE  Over(f, {}) = 0
<1>1. IsFiniteSet({}) /\ \A x \in {} : f[x] \in Int
    BY FS_EmptySet
<1>2. PICK g : Sums(g, [x \in {} |-> f[x]], {}) /\ Over(f, {}) = g[{}]
    BY <1>1, OverIs
<1> QED BY <1>2 DEF Sums

LEMMA OverTyped ==
    ASSUME NEW S, IsFiniteSet(S), NEW f, \A x \in S : f[x] \in Int
    PROVE  Over(f, S) \in Int
<1> DEFINE e == [x \in S |-> f[x]]
<1>1. e \in [S -> Int]
    OBVIOUS
<1>2. PICK g : Sums(g, e, S) /\ Over(f, S) = g[S]
    BY OverIs
<1> HIDE DEF e
<1>3. g \in [SUBSET S -> Int]
    BY <1>1, <1>2, SumsTyped
<1> QED BY <1>2, <1>3

\* One member taken out.
LEMMA OverRemove ==
    ASSUME NEW S, IsFiniteSet(S), NEW f, \A x \in S : f[x] \in Int, NEW c \in S
    PROVE  Over(f, S) = f[c] + Over(f, S \ {c})
<1> DEFINE R == S \ {c}
           e == [x \in S |-> f[x]]
           d == [x \in R |-> f[x]]
<1>1. /\ e \in [S -> Int] /\ d \in [R -> Int] /\ R \in SUBSET S /\ \A x \in R : d[x] = e[x]
      /\ e[c] = f[c]
    OBVIOUS
<1>2. IsFiniteSet(R)
    BY FS_Subset
<1>3. PICK g : Sums(g, e, S) /\ Over(f, S) = g[S]
    BY OverIs
<1>4. PICK h : Sums(h, d, R) /\ Over(f, R) = h[R]
    BY <1>2, OverIs
<1> HIDE DEF e, d, R
<1>5. h[R] = g[R]
    BY <1>1, <1>3, <1>4, SumsAgree
<1>6. g[S] = e[c] + g[S \ {c}]
    <2>1. \A s \in SUBSET S : g[s] \in Int /\ \A x \in s : g[s] = e[x] + g[s \ {x}]
        BY <1>1, <1>3, SumsRemove
    <2> QED BY <2>1
<1> QED BY <1>1, <1>3, <1>4, <1>5, <1>6 DEF R

\* Equal functions, equal sums.
LEMMA OverSame ==
    ASSUME NEW S, NEW f, NEW e, \A x \in S : f[x] = e[x]
    PROVE  Over(f, S) = Over(e, S)
<1>1. [x \in S |-> f[x]] = [x \in S |-> e[x]]
    OBVIOUS
<1> QED BY <1>1 DEF Over

\* A sum grows with what is summed.
LEMMA OverGrows ==
    ASSUME NEW S, IsFiniteSet(S), NEW f, NEW e,
           \A x \in S : f[x] \in Int /\ e[x] \in Int /\ f[x] <= e[x]
    PROVE  Over(f, S) <= Over(e, S)
<1> DEFINE T == {s \in SUBSET S : Over(f, s) <= Over(e, s)}
<1>1. {} \in T
    BY OverEmpty
<1>2. ASSUME NEW s \in SUBSET S, s \in T, NEW x \in S \ s PROVE s \union {x} \in T
    <2> DEFINE r == s \union {x}
    <2>1. r \in SUBSET S /\ x \in r /\ r \ {x} = s
        BY <1>2
    <2>2. IsFiniteSet(r) /\ IsFiniteSet(s)
        BY <2>1, FS_Subset
    <2> HIDE DEF r
    <2>3. Over(f, r) = f[x] + Over(f, s)
        BY <2>1, <2>2, OverRemove
    <2>4. Over(e, r) = e[x] + Over(e, s)
        BY <2>1, <2>2, OverRemove
    <2>5. Over(f, s) \in Int /\ Over(e, s) \in Int
        BY <2>2, OverTyped
    <2>6. f[x] \in Int /\ e[x] \in Int /\ f[x] <= e[x] /\ Over(f, s) <= Over(e, s)
        BY <1>2
    <2>7. Over(f, r) <= Over(e, r)
        BY <2>3, <2>4, <2>5, <2>6
    <2> QED BY <2>1, <2>7 DEF r
<1> HIDE DEF T
<1>3. S \in T
    BY <1>1, <1>2, SubsetsInductive
<1> QED BY <1>3 DEF T

\* Without some members, none of them negative, it is no larger.
LEMMA OverPart ==
    ASSUME NEW S, IsFiniteSet(S), NEW f, \A x \in S : f[x] \in Nat, NEW R \in SUBSET S
    PROVE  Over(f, R) <= Over(f, S) /\ Over(f, R) \in Nat /\ Over(f, S) \in Nat
<1> DEFINE T == {s \in SUBSET (S \ R) : Over(f, R) <= Over(f, R \union s)}
           N == {s \in SUBSET S : Over(f, s) >= 0}
<1>0. \A s \in SUBSET S : IsFiniteSet(s) /\ Over(f, s) \in Int
    <2>1. \A s \in SUBSET S : IsFiniteSet(s)
        BY FS_Subset
    <2> QED BY <2>1, OverTyped
<1>1. IsFiniteSet(S \ R)
    BY FS_Subset
<1>2. {} \in T
    <2>1. R \union {} = R
        OBVIOUS
    <2> QED BY <1>0, <2>1
<1>3. ASSUME NEW s \in SUBSET (S \ R), s \in T, NEW x \in (S \ R) \ s PROVE s \union {x} \in T
    <2> DEFINE r == R \union (s \union {x})
    <2>1. r \in SUBSET S /\ x \in r /\ r \ {x} = R \union s /\ R \union s \in SUBSET S
        BY <1>3
    <2> HIDE DEF r
    <2>2. Over(f, r) = f[x] + Over(f, R \union s)
        BY <1>0, <2>1, OverRemove
    <2>3. f[x] \in Nat /\ Over(f, R \union s) \in Int /\ Over(f, R) <= Over(f, R \union s) /\ Over(f, R) \in Int
        BY <1>0, <1>3, <2>1
    <2>4. Over(f, R) <= Over(f, r)
        BY <2>2, <2>3
    <2> QED BY <2>4 DEF r
<1>4. {} \in N
    BY OverEmpty
<1>5. ASSUME NEW s \in SUBSET S, s \in N, NEW x \in S \ s PROVE s \union {x} \in N
    <2> DEFINE r == s \union {x}
    <2>1. r \in SUBSET S /\ x \in r /\ r \ {x} = s
        BY <1>5
    <2> HIDE DEF r
    <2>2. Over(f, r) = f[x] + Over(f, s)
        BY <1>0, <2>1, OverRemove
    <2>3. f[x] \in Nat /\ Over(f, s) \in Int /\ Over(f, s) >= 0
        BY <1>0, <1>5
    <2>4. Over(f, r) >= 0
        BY <2>2, <2>3
    <2> QED BY <2>1, <2>4 DEF r
<1>6. \A s \in SUBSET S : s \in N
    <2> TAKE s \in SUBSET S
    <2>1. IsFiniteSet(s)
        BY <1>0
    <2>2. \A r \in SUBSET s : r \in N => \A x \in s \ r : r \union {x} \in N
        BY <1>5
    <2> HIDE DEF N
    <2> QED BY <1>4, <2>1, <2>2, SubsetsInductive
<1> HIDE DEF T
<1>7. S \ R \in T
    BY <1>1, <1>2, <1>3, SubsetsInductive
<1>8. R \union (S \ R) = S
    OBVIOUS
<1> QED BY <1>0, <1>6, <1>7, <1>8 DEF T
=============================================================================
