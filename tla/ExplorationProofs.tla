-------------------------- MODULE ExplorationProofs --------------------------
(***************************************************************************)
(* Theorems of Exploration, for any snapshots, goals, plans and limits.    *)
(*                                                                         *)
(* The fusion folds the entries of an answer into the bundle, and the      *)
(* builder and the plan are recursive functions.  Recursion says that such *)
(* a function exists, NatInductive is the induction over its arguments.    *)
(***************************************************************************)
EXTENDS Exploration, InductionLemmas, SequenceTheorems

-----------------------------------------------------------------------------
(* The fusion of an answer *)

Folds(f, n, start, answer) ==
    f = [s \in SUBSET (1..n) |->
            IF s = {} THEN start ELSE Fuse(f[s \ {Max(s)}], answer[Max(s)])]

\* A fold over the numbers up to n has a value.
LEMMA FoldExists ==
    ASSUME NEW start, NEW answer, NEW n \in Nat
    PROVE  \E f : Folds(f, n, start, answer)
<1> DEFINE T == {k \in Nat : \E f : Folds(f, k, start, answer)}
<1>1. 0 \in T
    <2> DEFINE f == [s \in SUBSET (1..0) |-> start]
    <2>1. \A s \in SUBSET (1..0) : s = {}
        OBVIOUS
    <2>2. Folds(f, 0, start, answer)
        BY <2>1 DEF Folds
    <2> QED BY <2>2
<1>2. ASSUME NEW k \in Nat, k \in T PROVE k + 1 \in T
    <2>1. PICK f : Folds(f, k, start, answer)
        BY <1>2
    <2> DEFINE g == [s \in SUBSET (1..(k + 1)) |->
                        IF k + 1 \in s THEN Fuse(f[s \ {k + 1}], answer[k + 1]) ELSE f[s]]
    <2>2. ASSUME NEW s \in SUBSET (1..(k + 1))
          PROVE  g[s] = IF s = {} THEN start ELSE Fuse(g[s \ {Max(s)}], answer[Max(s)])
        <3>1. CASE k + 1 \in s
            <4>1. Max(s) = k + 1 /\ s # {}
                BY <3>1, MaxIs
            <4>2. s \ {k + 1} \in SUBSET (1..(k + 1)) /\ k + 1 \notin s \ {k + 1}
                OBVIOUS
            <4>3. g[s \ {k + 1}] = f[s \ {k + 1}]
                BY <4>2
            <4>4. g[s] = Fuse(f[s \ {k + 1}], answer[k + 1])
                BY <3>1
            <4> HIDE DEF g
            <4> QED BY <4>1, <4>3, <4>4
        <3>2. CASE k + 1 \notin s
            <4>1. s \in SUBSET (1..k)
                BY <3>2
            <4>2. s \ {Max(s)} \in SUBSET (1..(k + 1)) /\ k + 1 \notin s \ {Max(s)}
                BY <3>2
            <4>3. g[s] = f[s] /\ g[s \ {Max(s)}] = f[s \ {Max(s)}]
                BY <3>2, <4>2
            <4>4. f[s] = IF s = {} THEN start ELSE Fuse(f[s \ {Max(s)}], answer[Max(s)])
                BY <2>1, <4>1 DEF Folds
            <4> HIDE DEF g
            <4> QED BY <4>3, <4>4
        <3> QED BY <3>1, <3>2
    <2>3. g = [s \in SUBSET (1..(k + 1)) |-> g[s]]
        OBVIOUS
    <2> HIDE DEF g
    <2>4. Folds(g, k + 1, start, answer)
        BY <2>2, <2>3 DEF Folds
    <2> QED BY <2>4
<1> HIDE DEF T
<1>3. Nat \subseteq T
    BY <1>1, <1>2, NatInductive
<1> QED BY <1>3 DEF T

\* What every step of the fusion keeps, its result has.
LEMMA FoldKeeps ==
    ASSUME NEW G, NEW start \in G, NEW n \in Nat, NEW answer, DOMAIN answer = 1..n,
           \A state \in G, i \in 1..n : Fuse(state, answer[i]) \in G
    PROVE  FoldLeft(Fuse, start, answer) \in G
<1> DEFINE fold == CHOOSE f : Folds(f, n, start, answer)
<1>1. Folds(fold, n, start, answer)
    BY FoldExists
<1>2. FoldLeft(Fuse, start, answer) = fold[1..n]
    BY DEF FoldLeft, MapThenFoldSet, Folds
<1> HIDE DEF fold
<1> DEFINE T == {k \in Nat : k <= n => fold[1..k] \in G}
<1>3. 0 \in T
    <2>1. 1..0 = {}
        OBVIOUS
    <2>2. {} \in SUBSET (1..n)
        OBVIOUS
    <2>3. fold[{}] = start
        BY <1>1, <2>2 DEF Folds
    <2> QED BY <2>1, <2>3
<1>4. ASSUME NEW k \in Nat, k \in T PROVE k + 1 \in T
    <2>1. CASE k + 1 <= n
        <3>1. 1..(k + 1) \in SUBSET (1..n) /\ 1..(k + 1) # {}
            <4>1. 1 \in 1..(k + 1) /\ \A j \in 1..(k + 1) : j \in 1..n
                BY <2>1
            <4> QED BY <4>1
        <3>2. Max(1..(k + 1)) = k + 1
            BY MaxIs
        <3>3. (1..(k + 1)) \ {k + 1} = 1..k
            OBVIOUS
        <3>4. fold[1..(k + 1)] = Fuse(fold[1..k], answer[k + 1])
            BY <1>1, <3>1, <3>2, <3>3 DEF Folds
        <3>5. fold[1..k] \in G
            BY <1>4, <2>1
        <3>6. k + 1 \in 1..n
            BY <2>1
        <3> QED BY <3>4, <3>5, <3>6
    <2>2. CASE ~(k + 1 <= n)
        BY <2>2
    <2> QED BY <2>1, <2>2
<1> HIDE DEF T
<1>5. n \in T
    BY <1>3, <1>4, NatInductive
<1> QED BY <1>2, <1>5 DEF T

-----------------------------------------------------------------------------
(* The builder *)

OpenAfter(entries, t)  == Required(Goals) \ UNION {entries[i].shows : i \in t}
Gain(entries, t, i)    == Cardinality(entries[i].shows \intersect OpenAfter(entries, t))
NextBest(entries, t) ==
    {i \in DOMAIN entries \ t :
        \A j \in DOMAIN entries \ t :
            \/ Gain(entries, t, j) < Gain(entries, t, i)
            \/ Gain(entries, t, j) = Gain(entries, t, i) /\ i <= j}
Takes(f, entries) ==
    f = [k \in 0..MaxItems |->
            IF k = 0 THEN {} ELSE f[k - 1] \union NextBest(entries, f[k - 1])]

\* Goals are finitely many numbers.
LEMMA GoalsFinite == IsFiniteSet(Goals) /\ Goals \subseteq Nat
<1>1. PICK n \in Nat : Goals = 1..n
    BY GoalsAssumption, LenProperties DEF Goals
<1> QED BY <1>1, FS_Interval

\* At most one entry is the next one to take.
LEMMA OneNext ==
    ASSUME NEW entries \in Seq(Entries), NEW t
    PROVE  /\ NextBest(entries, t) \subseteq DOMAIN entries
           /\ IsFiniteSet(NextBest(entries, t))
           /\ Cardinality(NextBest(entries, t)) <= 1
<1>1. DOMAIN entries = 1..Len(entries) /\ Len(entries) \in Nat
    BY LenProperties
<1>2. ASSUME NEW i \in DOMAIN entries PROVE Gain(entries, t, i) \in Nat
    <2>1. entries[i].shows \in SUBSET Goals
        BY <1>1, ElementOfSeq DEF Entries
    <2>2. IsFiniteSet(entries[i].shows \intersect OpenAfter(entries, t))
        BY <2>1, GoalsFinite, FS_Subset
    <2> QED BY <2>2, FS_CardinalityType DEF Gain
<1>3. ASSUME NEW i \in NextBest(entries, t), NEW j \in NextBest(entries, t) PROVE i = j
    <2>1. i \in Nat /\ j \in Nat
        BY <1>1 DEF NextBest
    <2>2. Gain(entries, t, i) \in Nat /\ Gain(entries, t, j) \in Nat
        BY <1>2 DEF NextBest
    <2> QED BY <2>1, <2>2 DEF NextBest
<1>4. NextBest(entries, t) = {} \/ \E i : NextBest(entries, t) = {i}
    BY <1>3
<1>5. IsFiniteSet(NextBest(entries, t)) /\ Cardinality(NextBest(entries, t)) <= 1
    <2>1. CASE NextBest(entries, t) = {}
        BY <2>1, FS_EmptySet
    <2>2. CASE \E i : NextBest(entries, t) = {i}
        <3>1. PICK i : NextBest(entries, t) = {i}
            BY <2>2
        <3>2. IsFiniteSet({i}) /\ Cardinality({i}) = 1
            BY FS_Singleton
        <3> QED BY <3>1, <3>2
    <2> QED BY <1>4, <2>1, <2>2
<1> QED BY <1>5 DEF NextBest

\* The greedy choice of the pack has a value at each size.
LEMMA TakesExists ==
    ASSUME NEW entries \in Seq(Entries)
    PROVE  \E f : Takes(f, entries)
<1> DEFINE S == SUBSET DOMAIN entries
           F == [x \in Nat \X S |-> x[2] \union NextBest(entries, x[2])]
<1>1. F \in [Nat \X S -> S]
    BY OneNext
<1>2. {} \in S
    OBVIOUS
<1>3. \A k \in Nat, t \in S : F[<<k, t>>] = t \union NextBest(entries, t)
    OBVIOUS
<1> HIDE DEF F
<1>4. PICK f : Recursive(f, MaxItems, S, {}, F)
    <2> HIDE DEF S
    <2> QED BY <1>1, <1>2, Recursion, BoundsAssumption
<1>5. ASSUME NEW k \in 0..MaxItems
      PROVE  f[k] = IF k = 0 THEN {} ELSE f[k - 1] \union NextBest(entries, f[k - 1])
    <2>1. CASE k = 0
        BY <1>4, <2>1 DEF Recursive
    <2>2. CASE k # 0
        <3>1. k \in 1..MaxItems /\ k - 1 \in 0..MaxItems /\ k \in Nat
            BY <2>2, BoundsAssumption
        <3>2. f[k] = F[<<k, f[k - 1]>>] /\ f[k - 1] \in S
            BY <1>4, <3>1 DEF Recursive
        <3> QED BY <1>3, <2>2, <3>1, <3>2
    <2> QED BY <2>1, <2>2
<1>6. f = [k \in 0..MaxItems |-> f[k]]
    BY <1>4 DEF Recursive
<1>7. Takes(f, entries)
    BY <1>5, <1>6 DEF Takes
<1> QED BY <1>7

\* The builder takes entries of the bundle, as many as there are items at most.
LEMMA PackTakes ==
    ASSUME NEW entries \in Seq(Entries)
    PROVE  /\ Pack(entries) \subseteq ToSet(entries)
           /\ Pack(entries) \subseteq Entries
           /\ IsFiniteSet(Pack(entries)) /\ Cardinality(Pack(entries)) <= MaxItems
<1> DEFINE taken == CHOOSE f : Takes(f, entries)
<1>1. Takes(taken, entries)
    BY TakesExists
<1>2. Pack(entries) = {entries[i] : i \in taken[MaxItems]}
    BY DEF Pack, Takes, NextBest, Gain, OpenAfter
<1> HIDE DEF taken
<1> DEFINE T == {k \in Nat : k <= MaxItems => /\ taken[k] \subseteq DOMAIN entries
                                              /\ IsFiniteSet(taken[k])
                                              /\ Cardinality(taken[k]) <= k}
<1>3. 0 \in T
    <2>1. taken[0] = {}
        BY <1>1, BoundsAssumption DEF Takes
    <2>2. IsFiniteSet(taken[0]) /\ Cardinality(taken[0]) = 0 /\ taken[0] \subseteq DOMAIN entries
        BY <2>1, FS_EmptySet
    <2> QED BY <2>2
<1>4. ASSUME NEW k \in Nat, k \in T PROVE k + 1 \in T
    <2>1. SUFFICES ASSUME k + 1 <= MaxItems
                   PROVE  /\ taken[k + 1] \subseteq DOMAIN entries
                          /\ IsFiniteSet(taken[k + 1])
                          /\ Cardinality(taken[k + 1]) <= k + 1
        OBVIOUS
    <2>2. /\ taken[k] \subseteq DOMAIN entries /\ IsFiniteSet(taken[k])
          /\ Cardinality(taken[k]) <= k
        BY <1>4, <2>1, BoundsAssumption
    <2>3. taken[k + 1] = taken[k] \union NextBest(entries, taken[k])
        <3>1. k + 1 \in 0..MaxItems /\ k + 1 # 0 /\ (k + 1) - 1 = k
            BY <2>1, BoundsAssumption
        <3> QED BY <1>1, <3>1 DEF Takes
    <2>4. /\ NextBest(entries, taken[k]) \subseteq DOMAIN entries
          /\ IsFiniteSet(NextBest(entries, taken[k]))
          /\ Cardinality(NextBest(entries, taken[k])) <= 1
        BY OneNext
    <2>5. /\ Cardinality(taken[k + 1]) <= Cardinality(taken[k]) + Cardinality(NextBest(entries, taken[k]))
          /\ IsFiniteSet(taken[k + 1])
        <3> DEFINE A == taken[k]  B == NextBest(entries, taken[k])
        <3>1. IsFiniteSet(A) /\ IsFiniteSet(B)
            BY <2>2, <2>4
        <3> HIDE DEF A, B
        <3>2. Cardinality(A \union B) = Cardinality(A) + Cardinality(B) - Cardinality(A \intersect B)
            BY <3>1, FS_Union
        <3>3. /\ Cardinality(A) \in Nat /\ Cardinality(B) \in Nat
              /\ Cardinality(A \intersect B) \in Nat
            BY <3>1, FS_Intersection, FS_CardinalityType
        <3>4. Cardinality(A \union B) <= Cardinality(A) + Cardinality(B)
            BY <3>2, <3>3
        <3>5. IsFiniteSet(A \union B)
            BY <3>1, FS_Union
        <3> QED BY <2>3, <3>4, <3>5 DEF A, B
    <2>6. IsFiniteSet(taken[k + 1])
        BY <2>5
    <2>7. Cardinality(taken[k + 1]) <= k + 1
        BY <2>2, <2>4, <2>5, <2>6, FS_CardinalityType
    <2> QED BY <2>2, <2>3, <2>4, <2>6, <2>7
<1> HIDE DEF T
<1>5. MaxItems \in T
    BY <1>3, <1>4, NatInductive, BoundsAssumption
<1>6. /\ taken[MaxItems] \subseteq DOMAIN entries /\ IsFiniteSet(taken[MaxItems])
      /\ Cardinality(taken[MaxItems]) <= MaxItems
    BY <1>5, BoundsAssumption DEF T
<1>7. IsFiniteSet(Pack(entries)) /\ Cardinality(Pack(entries)) <= MaxItems
    <2> DEFINE f == [i \in taken[MaxItems] |-> entries[i]]
    <2>1. f \in Surjection(taken[MaxItems], Pack(entries))
        BY <1>2 DEF Surjection
    <2>2. IsFiniteSet(Pack(entries)) /\ Cardinality(Pack(entries)) <= Cardinality(taken[MaxItems])
        BY <1>6, <2>1, FS_Surjection
    <2> QED BY <1>6, <2>2, FS_CardinalityType, BoundsAssumption
<1>8. Pack(entries) \subseteq ToSet(entries)
    BY <1>2, <1>6 DEF ToSet
<1>9. Pack(entries) \subseteq Entries
    BY <1>2, <1>6, LenProperties, ElementOfSeq
<1> QED BY <1>7, <1>8, <1>9

-----------------------------------------------------------------------------
(* What a probe leaves of the bundle *)

\* The paths keep their places, and what the user named is not replaced.
Extends(entries, more) ==
    \A i \in DOMAIN entries : /\ i \in DOMAIN more
                              /\ more[i].path = entries[i].path
                              /\ entries[i].protected => more[i] = entries[i]

States == [bundle : Seq(Entries), pack : SUBSET Entries, satisfied : SUBSET Goals]

Fused(state) ==
    /\ state.pack = Pack(state.bundle) /\ state.satisfied = Satisfied(state.pack)
    /\ Len(state.bundle) <= MaxFused

\* The states that the fusion of an answer may pass.
Reachable(entries, done) ==
    {state \in States : Fused(state) /\ done \subseteq state.satisfied /\ Extends(entries, state.bundle)}

\* A state built from a bundle is of one piece.
LEMMA BuiltIsFused ==
    ASSUME NEW entries \in Seq(Entries), Len(entries) <= MaxFused, ToSet(frozen) \subseteq Goals
    PROVE  Built(entries) \in States /\ Fused(Built(entries))
<1>1. Pack(entries) \subseteq Entries
    BY PackTakes
<1>2. Satisfied(Pack(entries)) \subseteq Goals
    BY DEF Satisfied
<1> QED BY <1>1, <1>2 DEF Built, States, Fused

\* What a fusion proposes extends the bundle.
LEMMA ProposalsExtend ==
    ASSUME NEW entries \in Seq(Entries), Len(entries) <= MaxFused, NEW e \in Entries,
           NEW more \in Proposals(entries, e)
    PROVE  more \in Seq(Entries) /\ Len(more) <= MaxFused /\ Extends(entries, more)
<1>1. DOMAIN entries = 1..Len(entries) /\ Len(entries) \in Nat
    BY LenProperties
<1>2. CASE more = Append(entries, e) /\ Len(entries) < MaxFused
    <2>1. /\ more \in Seq(Entries) /\ Len(more) = Len(entries) + 1
          /\ \A i \in 1..Len(entries) : more[i] = entries[i]
        BY <1>2, AppendProperties
    <2>2. DOMAIN more = 1..Len(more)
        BY <2>1, LenProperties
    <2>3. \A i \in DOMAIN entries : i \in DOMAIN more
        BY <1>1, <2>1, <2>2
    <2> QED BY <1>1, <1>2, <2>1, <2>3, BoundsAssumption DEF Extends
<1>3. CASE \E i \in At(entries, e.path) : ~entries[i].protected /\ more = [entries EXCEPT ![i] = e]
    <2>1. PICK i \in DOMAIN entries : /\ entries[i].path = e.path /\ ~entries[i].protected
                                      /\ more = [entries EXCEPT ![i] = e]
        BY <1>3 DEF At
    <2>2. /\ more \in Seq(Entries) /\ Len(more) = Len(entries)
          /\ \A j \in 1..Len(entries) : more[j] = IF j = i THEN e ELSE entries[j]
        BY <1>1, <2>1, ExceptSeq
    <2>3. DOMAIN more = DOMAIN entries
        BY <1>1, <2>2, LenProperties
    <2> QED BY <1>1, <2>1, <2>2, <2>3 DEF Extends
<1> QED BY <1>2, <1>3 DEF Proposals

\* An extension of an extension is one.
LEMMA ExtendsFurther ==
    ASSUME NEW a, NEW b, NEW c, Extends(a, b), Extends(b, c)
    PROVE  Extends(a, c)
BY DEF Extends

\* One entry: the bundle is extended and no satisfied goal is lost.
LEMMA FuseKeeps ==
    ASSUME NEW entries, NEW done, NEW state \in Reachable(entries, done), NEW e \in Entries,
           ToSet(frozen) \subseteq Goals
    PROVE  Fuse(state, e) \in Reachable(entries, done)
<1> DEFINE good == {n \in {Built(b) : b \in Proposals(state.bundle, e)} :
                        Accepts(state.satisfied, n.satisfied)}
<1>1. state \in States /\ Fused(state) /\ done \subseteq state.satisfied /\ Extends(entries, state.bundle)
    BY DEF Reachable
<1>2. CASE Fuse(state, e) = state
    BY <1>2
<1>3. CASE Fuse(state, e) \in good
    <2>1. PICK b \in Proposals(state.bundle, e) :
              Fuse(state, e) = Built(b) /\ Accepts(state.satisfied, Built(b).satisfied)
        BY <1>3
    <2>2. b \in Seq(Entries) /\ Len(b) <= MaxFused /\ Extends(state.bundle, b)
        BY <1>1, ProposalsExtend DEF States, Fused
    <2>3. Built(b) \in States /\ Fused(Built(b)) /\ Built(b).bundle = b
        BY <2>2, BuiltIsFused DEF Built
    <2>4. Extends(entries, b)
        BY <1>1, <2>2, ExtendsFurther
    <2>5. done \subseteq Built(b).satisfied
        BY <1>1, <2>1 DEF Accepts
    <2> QED BY <2>1, <2>3, <2>4, <2>5 DEF Reachable
<1>4. Fuse(state, e) = state \/ Fuse(state, e) \in good
    BY DEF Fuse
<1> QED BY <1>2, <1>3, <1>4

\* A whole answer.
LEMMA AnswerIsKept ==
    ASSUME NEW answer \in Seq(Entries), ToSet(frozen) \subseteq Goals,
           bundle \in Seq(Entries), Len(bundle) <= MaxFused, pack \subseteq Entries,
           pack = Pack(bundle), satisfied = Satisfied(pack)
    PROVE  AddProbeEvidence(answer) \in Reachable(bundle, satisfied)
<1> DEFINE start == [bundle |-> bundle, pack |-> pack, satisfied |-> satisfied]
<1>1. start \in Reachable(bundle, satisfied)
    <2>1. satisfied \subseteq Goals
        BY DEF Satisfied
    <2> QED BY <2>1 DEF Reachable, States, Fused, Extends
<1>2. DOMAIN answer = 1..Len(answer) /\ Len(answer) \in Nat
    BY LenProperties
<1>3. \A state \in Reachable(bundle, satisfied), i \in 1..Len(answer) :
          Fuse(state, answer[i]) \in Reachable(bundle, satisfied)
    BY FuseKeeps, ElementOfSeq
<1> HIDE DEF start
<1>4. FoldLeft(Fuse, start, answer) \in Reachable(bundle, satisfied)
    BY <1>1, <1>2, <1>3, FoldKeeps
<1>5. Built(bundle) = start
    BY DEF Built, start
<1> QED BY <1>1, <1>4, <1>5 DEF AddProbeEvidence, start

-----------------------------------------------------------------------------
(* Goals and plans *)

\* A sequence that is cut off.
LEMMA UpToTyped ==
    ASSUME NEW S, NEW seq \in Seq(S), NEW n \in Nat
    PROVE  UpTo(seq, n) \in Seq(S) /\ Len(UpTo(seq, n)) <= n
<1>1. Len(seq) \in Nat /\ DOMAIN seq = 1..Len(seq)
    BY LenProperties
<1>2. CASE Len(seq) <= n
    BY <1>2 DEF UpTo
<1>3. CASE ~(Len(seq) <= n)
    <2>1. \A i \in 1..n : seq[i] \in S
        BY <1>1, <1>3, ElementOfSeq
    <2>2. /\ SubSeq(seq, 1, n) \in Seq(S)
          /\ Len(SubSeq(seq, 1, n)) = IF 1 <= n THEN n - 1 + 1 ELSE 0
        BY <2>1, SubSeqProperties
    <2> QED BY <1>3, <2>2 DEF UpTo
<1> QED BY <1>2, <1>3

Raised(shown) == {g \in Goals : Kind[g] \in {"role", "structural"} => g \notin shown}
Class(shown, g) ==
    CASE Kind[g] = "required"    -> IF g \in shown THEN 3 ELSE 1
      [] Kind[g] = "role"        -> 2
      [] Kind[g] = "recommended" -> IF g \in shown THEN 6 ELSE 4
      [] Kind[g] = "structural"  -> 5
Earlier(shown, g, h) ==
    Class(shown, g) < Class(shown, h) \/ (Class(shown, g) = Class(shown, h) /\ g < h)

\* The frozen goals are at most MaxFrozen of the goals.
LEMMA FrozenTyped ==
    ASSUME NEW shown
    PROVE  FreezeGoals(shown) \in Seq(Goals) /\ Len(FreezeGoals(shown)) <= MaxFrozen
<1> DEFINE S == Raised(shown)
           R == {x \in S \X S : Earlier(shown, x[1], x[2])}
           order == [k \in 1..Cardinality(S) |->
                        CHOOSE x \in S : Cardinality({y \in S : Earlier(shown, y, x)}) = k - 1]
<1>1. FreezeGoals(shown) = UpTo(order, MaxFrozen)
    BY DEF FreezeGoals, Ordered, Raised, Class, Earlier
<1>2. S \subseteq Goals /\ IsFiniteSet(S) /\ S \subseteq Nat
    <2>1. S \subseteq Goals
        BY DEF Raised
    <2> HIDE DEF S
    <2> QED BY <2>1, GoalsFinite, FS_Subset
<1>3. ASSUME NEW g \in S PROVE Class(shown, g) \in Nat
    <2>1. Kind[g] \in {"required", "role", "recommended", "structural"}
        BY <1>2, GoalsAssumption, LenProperties DEF Goals
    <2> QED BY <2>1 DEF Class
<1>4. \A x, y \in S : <<x, y>> \in R <=> Earlier(shown, x, y)
    OBVIOUS
<1> HIDE DEF S, R
<1>5. StrictOrder(R, S)
    <2>1. \A x \in S : x \in Nat /\ Class(shown, x) \in Nat
        BY <1>2, <1>3
    <2> QED BY <1>4, <2>1 DEF Earlier, StrictOrder
<1>6. ASSUME NEW k \in 1..Cardinality(S) PROVE order[k] \in S
    <2>1. PICK x \in S : Place(R, S, x) = k - 1
        BY <1>2, <1>5, EveryPlaceTaken
    <2>2. {y \in S : <<y, x>> \in R} = {y \in S : Earlier(shown, y, x)}
        BY <1>4
    <2>3. \E z \in S : Cardinality({y \in S : Earlier(shown, y, z)}) = k - 1
        BY <2>1, <2>2 DEF Place
    <2> QED BY <2>3
<1>7. Cardinality(S) \in Nat
    BY <1>2, FS_CardinalityType
<1>8. order = [k \in 1..Cardinality(S) |-> order[k]]
    OBVIOUS
<1> HIDE DEF order
<1>9. order \in Seq(Goals)
    BY <1>2, <1>6, <1>7, <1>8
<1> QED BY <1>1, <1>9, UpToTyped, BoundsAssumption

\* The candidates chosen after the k-th goal.
Chosen(f, raw) ==
    f = [k \in 0..Len(frozen) |->
            IF k = 0 THEN <<>>
            ELSE LET g == frozen[k]
                     done == f[k - 1]
                     new == {i \in DOMAIN raw : g \in raw[i] /\ \A j \in 1..(i - 1) : g \notin raw[j]}
                 IN  IF ~(frozen[k] \notin satisfied) \/ new = {} \/ \E i \in ToSet(done) : g \in raw[i]
                     THEN done ELSE Append(done, CHOOSE i \in new : TRUE)]

\* The choice of candidates goal by goal has a value.
LEMMA ChosenExists ==
    ASSUME NEW raw \in Seq(SUBSET Goals), frozen \in Seq(Goals)
    PROVE  \E f \in [0..Len(frozen) -> Seq(DOMAIN raw)] : Chosen(f, raw)
<1> DEFINE S == Seq(DOMAIN raw)
           new(k) == {i \in DOMAIN raw : frozen[k] \in raw[i] /\ \A j \in 1..(i - 1) : frozen[k] \notin raw[j]}
           more(k, done) ==
               IF ~(frozen[k] \notin satisfied) \/ new(k) = {} \/ \E i \in ToSet(done) : frozen[k] \in raw[i]
               THEN done ELSE Append(done, CHOOSE i \in new(k) : TRUE)
           F == [x \in Nat \X S |-> more(x[1], x[2])]
<1>1. ASSUME NEW k \in Nat, NEW done \in S PROVE more(k, done) \in S
    <2>1. CASE new(k) = {}
        BY <2>1
    <2>2. CASE new(k) # {}
        <3>1. (CHOOSE i \in new(k) : TRUE) \in DOMAIN raw
            BY <2>2
        <3>2. Append(done, CHOOSE i \in new(k) : TRUE) \in S
            BY <3>1
        <3> QED BY <3>2
    <2> QED BY <2>1, <2>2
<1>2. ASSUME NEW k \in Nat, NEW done \in S PROVE F[<<k, done>>] = more(k, done)
    <2> HIDE DEF more, S
    <2>1. <<k, done>> \in Nat \X S
        OBVIOUS
    <2> QED BY <2>1
<1>3. F \in [Nat \X S -> S]
    <2> HIDE DEF more
    <2> QED BY <1>1
<1>4. <<>> \in S /\ Len(frozen) \in Nat
    BY EmptySeq, LenProperties
<1> HIDE DEF F
<1>5. PICK f : Recursive(f, Len(frozen), S, <<>>, F)
    <2> HIDE DEF S
    <2> QED BY <1>3, <1>4, Recursion
<1>6. f \in [0..Len(frozen) -> S]
    BY <1>5 DEF Recursive
<1>7. ASSUME NEW k \in 0..Len(frozen)
      PROVE  f[k] = IF k = 0 THEN <<>> ELSE more(k, f[k - 1])
    <2>1. CASE k = 0
        BY <1>5, <2>1 DEF Recursive
    <2>2. CASE k # 0
        <3>1. k \in 1..Len(frozen) /\ k - 1 \in 0..Len(frozen) /\ k \in Nat
            BY <1>4, <2>2
        <3>2. f[k] = F[<<k, f[k - 1]>>] /\ f[k - 1] \in S
            BY <1>5, <1>6, <3>1 DEF Recursive
        <3> HIDE DEF more
        <3> QED BY <1>2, <2>2, <3>1, <3>2
    <2> QED BY <2>1, <2>2
<1>8. f = [k \in 0..Len(frozen) |-> f[k]]
    BY <1>6
<1>9. Chosen(f, raw)
    BY <1>7, <1>8 DEF Chosen
<1> QED BY <1>6, <1>9

\* The plan is made of the candidates, at most MaxPlanned of them.
LEMMA PlanTyped ==
    ASSUME NEW raw \in Seq(SUBSET Goals), frozen \in Seq(Goals)
    PROVE  OrderCandidates(raw) \in Seq(SUBSET Goals) /\ Len(OrderCandidates(raw)) <= MaxPlanned
<1> DEFINE chosen == CHOOSE f : Chosen(f, raw)
<1>1. Chosen(chosen, raw)
    BY ChosenExists
<1> DEFINE S == DOMAIN raw \ ToSet(chosen[Len(frozen)])
           R == {x \in S \X S : x[1] < x[2]}
           pick(k) == CHOOSE x \in S : Cardinality({y \in S : y < x}) = k - 1
           rest == [k \in 1..Cardinality(S) |-> pick(k)]
           order == UpTo(chosen[Len(frozen)] \o rest, MaxPlanned)
<1>2. OrderCandidates(raw) = [k \in DOMAIN order |-> raw[order[k]]]
    BY DEF OrderCandidates, Ordered, Chosen
<1>3. chosen[Len(frozen)] \in Seq(DOMAIN raw)
    <2> DEFINE T == {k \in Nat : k <= Len(frozen) => chosen[k] \in Seq(DOMAIN raw)}
    <2>1. Len(frozen) \in Nat
        BY LenProperties
    <2>2. 0 \in T
        <3> HIDE DEF chosen
        <3>2. 0 \in 0..Len(frozen)
            BY <2>1
        <3>1. chosen[0] = <<>>
            BY <1>1, <3>2 DEF Chosen
        <3> QED BY <3>1, EmptySeq
    <2>3. ASSUME NEW k \in Nat, k \in T PROVE k + 1 \in T
        <3>1. SUFFICES ASSUME k + 1 <= Len(frozen) PROVE chosen[k + 1] \in Seq(DOMAIN raw)
            OBVIOUS
        <3> DEFINE new == {i \in DOMAIN raw : /\ frozen[k + 1] \in raw[i]
                                              /\ \A j \in 1..(i - 1) : frozen[k + 1] \notin raw[j]}
        <3>2. chosen[k] \in Seq(DOMAIN raw)
            BY <2>1, <2>3, <3>1
        <3>3. k + 1 \in 0..Len(frozen) /\ k + 1 # 0 /\ (k + 1) - 1 = k
            BY <2>1, <3>1
        <3>4. \/ chosen[k + 1] = chosen[k]
              \/ new # {} /\ chosen[k + 1] = Append(chosen[k], CHOOSE i \in new : TRUE)
            BY <1>1, <3>3 DEF Chosen
        <3>5. new # {} => (CHOOSE i \in new : TRUE) \in DOMAIN raw
            OBVIOUS
        <3> HIDE DEF new, chosen
        <3>6. CASE new # {} /\ chosen[k + 1] = Append(chosen[k], CHOOSE i \in new : TRUE)
            <4>1. Append(chosen[k], CHOOSE i \in new : TRUE) \in Seq(DOMAIN raw)
                BY <3>2, <3>5, <3>6, AppendProperties
            <4> QED BY <3>6, <4>1
        <3> QED BY <3>2, <3>4, <3>6, SMTT(40)
    <2> HIDE DEF T
    <2>4. Len(frozen) \in T
        BY <2>1, <2>2, <2>3, NatInductive
    <2> QED BY <2>1, <2>4 DEF T
<1> HIDE DEF chosen
<1>4. S \subseteq DOMAIN raw /\ S \subseteq Nat /\ IsFiniteSet(S)
    <2>1. DOMAIN raw = 1..Len(raw) /\ Len(raw) \in Nat
        BY LenProperties
    <2>2. S \in SUBSET (1..Len(raw))
        BY <2>1
    <2> HIDE DEF S
    <2>3. IsFiniteSet(1..Len(raw))
        BY <2>1, FS_Interval
    <2>4. IsFiniteSet(S)
        BY <2>2, <2>3, FS_Subset
    <2> QED BY <2>1, <2>2, <2>4
<1>5. \A x, y \in S : <<x, y>> \in R <=> x < y
    OBVIOUS
<1> HIDE DEF S, R
<1>6. StrictOrder(R, S)
    <2>1. \A x \in S : x \in Nat
        BY <1>4
    <2> QED BY <1>5, <2>1 DEF StrictOrder
<1>7. ASSUME NEW k \in 1..Cardinality(S) PROVE pick(k) \in S
    <2>1. PICK x \in S : Place(R, S, x) = k - 1
        BY <1>4, <1>6, EveryPlaceTaken
    <2>2. {y \in S : <<y, x>> \in R} = {y \in S : y < x}
        BY <1>5
    <2>3. \E z \in S : Cardinality({y \in S : y < z}) = k - 1
        BY <2>1, <2>2 DEF Place
    <2> QED BY <2>3
<1>8. Cardinality(S) \in Nat
    BY <1>4, FS_CardinalityType
<1>13. rest \in [1..Cardinality(S) -> S]
    <2> HIDE DEF pick
    <2> QED BY <1>7
<1> HIDE DEF rest
<1>9. rest \in Seq(DOMAIN raw)
    BY <1>4, <1>8, <1>13
<1>10. order \in Seq(DOMAIN raw) /\ Len(order) <= MaxPlanned
    <2>1. chosen[Len(frozen)] \o rest \in Seq(DOMAIN raw)
        BY <1>3, <1>9, ConcatProperties
    <2> QED BY <2>1, UpToTyped, BoundsAssumption
<1> HIDE DEF order
<1>11. DOMAIN order = 1..Len(order) /\ Len(order) \in Nat /\ \A k \in DOMAIN order : order[k] \in DOMAIN raw
    BY <1>10, LenProperties, ElementOfSeq
<1>12. \A i \in DOMAIN raw : raw[i] \in SUBSET Goals
    BY LenProperties, ElementOfSeq
<1>14. [k \in 1..Len(order) |-> raw[order[k]]] \in Seq(SUBSET Goals)
    BY <1>11, <1>12
<1> QED BY <1>2, <1>10, <1>11, <1>14

\* Every query returns entries of the snapshot it reads.
LEMMA AnswersTyped ==
    ASSUME index \in Snapshots, NEW n \in Nat, NEW direct, NEW answer \in Answers(n, direct)
    PROVE  answer \in Seq(Entries) /\ Len(answer) <= n
<1>1. PICK s \in SeqOf(DOMAIN index, n) :
          answer = [i \in DOMAIN s |-> [path |-> s[i], shows |-> index[s[i]], protected |-> s[i] \in direct]]
    BY DEF Answers
<1>2. PICK m \in 0..n : s \in [1..m -> DOMAIN index]
    BY <1>1 DEF SeqOf
<1>3. ASSUME NEW i \in 1..m PROVE answer[i] \in Entries
    <2>1. s[i] \in DOMAIN index /\ index[s[i]] \in SUBSET Goals
        BY <1>2, GoalsAssumption
    <2>2. answer[i] = [path |-> s[i], shows |-> index[s[i]], protected |-> s[i] \in direct]
        BY <1>1, <1>2
    <2>3. s[i] \in UNION {DOMAIN t : t \in Snapshots}
        BY <2>1
    <2> QED BY <2>1, <2>2, <2>3 DEF Entries
<1>4. DOMAIN answer = 1..m /\ m \in Nat
    BY <1>1, <1>2
<1>5. answer = [i \in 1..m |-> answer[i]]
    BY <1>1, <1>2
<1>6. answer \in Seq(Entries)
    BY <1>3, <1>4, <1>5
<1> QED BY <1>2, <1>4, <1>6, LenProperties

-----------------------------------------------------------------------------
(* The inductive invariant *)

\* The pack is always the one of the bundle, and its goals the satisfied ones, before the
\* first query as well as after an exception; only a step that ends the exploration gives
\* a reason, and no probe runs before the plan.
EInv ==
    /\ TypeOK
    /\ bundle \in Seq(Entries) /\ frozen \in Seq(Goals) /\ planned \in Seq(SUBSET Goals)
    /\ skipped \in Nat
    /\ pack = Pack(bundle) /\ satisfied = Satisfied(pack)
    /\ step \in {"query", "plan", "probe"} => reason = "none"
    /\ step \in {"query", "plan"} => executed = 0 /\ skipped = 0
    /\ reason # "lost_goal_coverage"
    /\ reason = "satisfied" => Enough(Shown(pack))

\* What the members of a sequence are.
LEMMA MembersTyped ==
    ASSUME NEW S, NEW seq \in Seq(S)
    PROVE  ToSet(seq) \subseteq S /\ Len(seq) \in Nat
BY LenProperties, ElementOfSeq DEF ToSet

\* Nothing is packed of an empty bundle.
LEMMA EmptyPack == Pack(<<>>) = {} /\ Satisfied({}) = {} /\ <<>> \in Seq(Entries)
<1>1. <<>> \in Seq(Entries) /\ ToSet(<<>>) = {}
    BY DEF ToSet
<1>2. Pack(<<>>) = {}
    BY <1>1, PackTakes
<1>3. Satisfied({}) = {}
    BY DEF Satisfied, Shown
<1> QED BY <1>1, <1>2, <1>3

\* The initial states.
LEMMA EInvInit == Init => EInv
<1> SUFFICES ASSUME Init PROVE EInv
    OBVIOUS
<1>1. Pack(bundle) = {} /\ Satisfied(pack) = {}
    BY EmptyPack DEF Init
<1>2. bundle \in Seq(Entries) /\ frozen \in Seq(Goals) /\ planned \in Seq(SUBSET Goals)
    BY DEF Init
<1>3. ToSet(bundle) = {} /\ ToSet(frozen) = {} /\ Len(bundle) = 0 /\ Len(frozen) = 0 /\ Len(planned) = 0
    BY DEF Init, ToSet
<1>4. Cardinality(pack) = 0
    BY FS_EmptySet DEF Init
<1>5. TypeOK
    BY <1>3, <1>4, BoundsAssumption DEF TypeOK, Init
<1> QED BY <1>1, <1>2, <1>5 DEF EInv, Init

\* The initial query: the limit of the fusion cuts nothing off.
LEMMA InitialQueryKeeps == EInv /\ InitialQuery => EInv'
<1> SUFFICES ASSUME EInv, InitialQuery PROVE EInv'
    OBVIOUS
<1> DEFINE ends ==
               \/ Stop("initial_missing_index") \/ Stop("initial_empty")
               \/ Stop("initial_retrieval_incomplete")
               \/ Stop("exact_satisfied") \/ Stop("initial_satisfied")
               \/ step' = "plan" /\ UNCHANGED reason
<1>0. PICK direct \in SUBSET DOMAIN index : \E answer \in Answers(InitialTopK, direct) :
          /\ bundle' = InitializeFusion(answer)
          /\ pack' = Pack(answer)
          /\ frozen' = FreezeGoals(Shown(Pack(answer)))
          /\ satisfied' = ToSet(FreezeGoals(Shown(Pack(answer)))) \intersect Shown(Pack(answer))
          /\ \/ answer = <<>> /\ \/ Stop("initial_missing_index")
                                 \/ Stop("initial_empty")
             \/ Stop("initial_retrieval_incomplete")
             \/ /\ answer # <<>>
                /\ \/ Exact(answer, ToSet(frozen'), satisfied') /\ Stop("exact_satisfied")
                   \/ ToSet(frozen') \subseteq satisfied' /\ Stop("initial_satisfied")
                   \/ /\ ~(ToSet(frozen') \subseteq satisfied')
                      /\ step' = "plan" /\ UNCHANGED reason
    BY Zenon DEF InitialQuery
<1>1. PICK answer \in Answers(InitialTopK, direct) :
          /\ bundle' = InitializeFusion(answer)
          /\ pack' = Pack(answer)
          /\ frozen' = FreezeGoals(Shown(Pack(answer)))
          /\ satisfied' = ToSet(FreezeGoals(Shown(Pack(answer)))) \intersect Shown(Pack(answer))
          /\ ends
    BY <1>0, Zenon
<1>2. UNCHANGED <<index, published, planned, executed, skipped>> /\ step = "query"
    BY DEF InitialQuery
<1>3. answer \in Seq(Entries) /\ Len(answer) <= InitialTopK
    BY AnswersTyped, BoundsAssumption DEF EInv, TypeOK
<1>4. bundle' = answer /\ Len(answer) <= MaxFused
    <2>1. MaxProbes * FollowupTopK \in Nat
        BY BoundsAssumption
    <2>2. Len(answer) \in Nat
        BY <1>3, LenProperties
    <2> DEFINE more == MaxProbes * FollowupTopK
    <2> HIDE DEF more
    <2>3. more \in Nat /\ InitialTopK + more <= MaxFused
        BY <2>1, LimitsAssumption DEF more
    <2>4. Len(answer) <= MaxFused
        BY <1>3, <2>2, <2>3, BoundsAssumption
    <2> QED BY <1>1, <2>4 DEF InitializeFusion, UpTo
<1>5. pack' = Pack(bundle') /\ pack' \subseteq Entries /\ Cardinality(pack') <= MaxItems
    BY <1>1, <1>3, <1>4, PackTakes
<1>6. frozen' \in Seq(Goals) /\ Len(frozen') <= MaxFrozen
    BY <1>1, FrozenTyped
<1>7. satisfied' = Satisfied(pack)' /\ satisfied' \subseteq ToSet(frozen')
    BY <1>1 DEF Satisfied
<1>8. ToSet(bundle') \subseteq Entries /\ ToSet(frozen') \subseteq Goals
    BY <1>3, <1>4, <1>6, MembersTyped
<1>9. /\ step' \in {"plan", "done"} /\ (step' = "plan" => reason' = "none")
      /\ reason' # "lost_goal_coverage" /\ reason' # "satisfied"
    BY <1>1, <1>2 DEF Stop, EInv
<1>10. TypeOK'
    BY <1>2, <1>4, <1>5, <1>6, <1>7, <1>8, <1>9 DEF TypeOK, EInv
<1>11. (pack = Pack(bundle))'
    BY <1>1, <1>4
<1> QED BY <1>2, <1>3, <1>4, <1>6, <1>7, <1>9, <1>10, <1>11 DEF EInv

\* A step that leaves the evidence and the frozen goals alone, and ends the exploration if
\* it gives a reason, which is neither of the two that speak of the evidence.
LEMMA EvidenceLeft ==
    ASSUME EInv, TypeOK', UNCHANGED <<evidenceVars, frozen>>,
           planned' \in Seq(SUBSET Goals), skipped' \in Nat,
           step' \in {"query", "plan"} => executed' = 0 /\ skipped' = 0,
           \/ UNCHANGED reason /\ (step' \in {"query", "plan", "probe"} => step \in {"query", "plan", "probe"})
           \/ step' \in {"done", "error"} /\ reason' \notin {"lost_goal_coverage", "satisfied"}
    PROVE  EInv'
<1>1. (pack = Pack(bundle))' /\ (satisfied = Satisfied(pack))'
    BY DEF EInv, evidenceVars, Satisfied, Pack
<1>2. bundle' \in Seq(Entries) /\ frozen' \in Seq(Goals)
    BY DEF EInv, evidenceVars
<1>3. Enough(Shown(pack))' <=> Enough(Shown(pack))
    BY DEF evidenceVars, Enough, Shown
<1> QED BY <1>1, <1>2, <1>3 DEF EInv

\* The plan.
LEMMA PlanKeeps == EInv /\ PlanProbes => EInv'
<1> SUFFICES ASSUME EInv, PlanProbes PROVE EInv'
    OBVIOUS
<1>1. PICK raw \in Rankings :
          /\ planned' = OrderCandidates(raw)
          /\ IF raw = <<>> THEN Stop("no_grounded_probe") ELSE step' = "probe" /\ UNCHANGED reason
    BY DEF PlanProbes
<1>2. /\ UNCHANGED <<index, published, evidenceVars, frozen, executed, skipped>>
      /\ step = "plan" /\ executed = 0 /\ skipped = 0
    BY DEF PlanProbes, EInv
<1>3. planned' \in Seq(SUBSET Goals) /\ Len(planned') <= MaxPlanned
    <2>1. raw \in Seq(SUBSET Goals)
        BY GoalsAssumption
    <2> QED BY <1>1, <2>1, PlanTyped DEF EInv
<1>4. Len(planned') \in Nat
    BY <1>3, LenProperties
<1>5. TypeOK'
    BY <1>1, <1>2, <1>3, <1>4, BoundsAssumption DEF TypeOK, EInv, evidenceVars, Stop
<1> QED BY <1>1, <1>2, <1>3, <1>5, EvidenceLeft DEF EInv, Stop

\* A probe.  The fusion keeps the satisfied goals, so its last guard never fails.
LEMMA ProbeKeeps ==
    ASSUME EInv, Probe
    PROVE  EInv' /\ satisfied \subseteq satisfied' /\ Extends(bundle, bundle')
<1>1. PICK answer \in Answers(FollowupTopK, {}) : \E new \in {AddProbeEvidence(answer)} :
          IF ~(satisfied \subseteq new.satisfied)
          THEN /\ step' = "error" /\ reason' = "lost_goal_coverage"
               /\ UNCHANGED evidenceVars
          ELSE /\ bundle' = new.bundle /\ pack' = new.pack /\ satisfied' = new.satisfied
               /\ IF Enough(satisfied') THEN Stop("satisfied")
                  ELSE IF satisfied' = satisfied THEN Stop("no_marginal_gain")
                  ELSE UNCHANGED <<step, reason>>
    BY DEF Probe
<1> DEFINE new == AddProbeEvidence(answer)
<1>2. /\ UNCHANGED <<index, published, frozen, planned, skipped>>
      /\ step = "probe" /\ MoreProbes /\ executed' = executed + 1
    BY DEF Probe
<1>3. answer \in Seq(Entries)
    BY AnswersTyped, BoundsAssumption DEF EInv, TypeOK
<1>4. new \in Reachable(bundle, satisfied)
    BY <1>3, AnswerIsKept DEF EInv, TypeOK
<1>5. /\ new.bundle \in Seq(Entries) /\ Len(new.bundle) <= MaxFused
      /\ new.pack = Pack(new.bundle) /\ new.satisfied = Satisfied(new.pack)
      /\ satisfied \subseteq new.satisfied /\ Extends(bundle, new.bundle)
    BY <1>4 DEF Reachable, States, Fused
<1> HIDE DEF new
<1>6. /\ bundle' = new.bundle /\ pack' = new.pack /\ satisfied' = new.satisfied
      /\ \/ Enough(satisfied') /\ Stop("satisfied")
         \/ Stop("no_marginal_gain")
         \/ UNCHANGED <<step, reason>>
    BY <1>1, <1>5 DEF new
<1>7. satisfied' = ToSet(frozen) \intersect Shown(pack')
    BY <1>5, <1>6 DEF Satisfied
<1>8. /\ (pack = Pack(bundle))' /\ (satisfied = Satisfied(pack))'
    BY <1>2, <1>5, <1>6, <1>7 DEF Satisfied
<1>9. pack' \subseteq Entries /\ Cardinality(pack') <= MaxItems
    BY <1>5, <1>6, PackTakes
<1>10. /\ executed' \in 0..MaxProbes /\ executed' + skipped' <= Len(planned')
    <2>1. Len(planned) \in Nat
        BY LenProperties DEF EInv
    <2> QED BY <1>2, <2>1, BoundsAssumption DEF EInv, TypeOK, MoreProbes
<1>11. ToSet(bundle') \subseteq Entries
    BY <1>5, <1>6, MembersTyped
<1>12. TypeOK'
    BY <1>2, <1>5, <1>6, <1>7, <1>9, <1>10, <1>11 DEF TypeOK, EInv, Stop
<1>13. Enough(satisfied') /\ UNCHANGED frozen => Enough(Shown(pack))'
    BY <1>7 DEF Enough
<1>14. /\ reason' # "lost_goal_coverage"
       /\ step' \in {"query", "plan", "probe"} => reason' = "none"
       /\ step' \notin {"query", "plan"}
       /\ reason' = "satisfied" => Enough(Shown(pack))'
    BY <1>2, <1>6, <1>13 DEF Stop, EInv
<1>15. EInv'
    BY <1>2, <1>5, <1>6, <1>8, <1>12, <1>14 DEF EInv
<1> QED BY <1>5, <1>6, <1>15

\* The other steps.
LEMMA OthersKeep ==
    ASSUME EInv, Publish \/ SkipStale \/ ProbeFails \/ EndOfPlan \/ Break
    PROVE  EInv' /\ UNCHANGED evidenceVars
<1>1. Len(planned) \in Nat
    BY LenProperties DEF EInv
<1>2. CASE Publish
    <2>1. TypeOK'
        BY <1>2, BoundsAssumption DEF Publish, TypeOK, EInv, evidenceVars
    <2> QED BY <1>2, <2>1, EvidenceLeft DEF Publish, EInv
<1>3. CASE SkipStale
    <2>1. TypeOK' /\ skipped' \in Nat
        BY <1>1, <1>3, BoundsAssumption DEF SkipStale, MoreProbes, TypeOK, EInv, evidenceVars
    <2> QED BY <1>3, <2>1, EvidenceLeft DEF SkipStale, EInv
<1>4. CASE ProbeFails
    <2>1. TypeOK'
        BY <1>1, <1>4, BoundsAssumption DEF ProbeFails, Stop, MoreProbes, TypeOK, EInv, evidenceVars
    <2> QED BY <1>4, <2>1, EvidenceLeft DEF ProbeFails, Stop, EInv
<1>5. CASE EndOfPlan
    <2>1. TypeOK'
        BY <1>5 DEF EndOfPlan, Stop, TypeOK, EInv, evidenceVars
    <2> QED BY <1>5, <2>1, EvidenceLeft DEF EndOfPlan, Stop, EInv
<1>6. CASE Break
    <2>1. TypeOK'
        BY <1>6 DEF Break, TypeOK, EInv, evidenceVars
    <2> QED BY <1>6, <2>1, EvidenceLeft DEF Break, EInv
<1>7. UNCHANGED evidenceVars
    BY DEF Publish, SkipStale, ProbeFails, EndOfPlan, Break
<1> QED BY <1>2, <1>3, <1>4, <1>5, <1>6, <1>7

\* A step that changes nothing keeps the invariant.
LEMMA EInvStutter == EInv /\ UNCHANGED exploreVars => EInv'
<1> SUFFICES ASSUME EInv, UNCHANGED exploreVars PROVE EInv'
    OBVIOUS
<1>1. TypeOK'
    BY DEF TypeOK, EInv, exploreVars
<1> QED BY <1>1, EvidenceLeft DEF EInv, exploreVars, evidenceVars

\* Every step keeps the invariant.
LEMMA EInvNext == EInv /\ [Next]_exploreVars => EInv'
BY InitialQueryKeeps, PlanKeeps, ProbeKeeps, OthersKeep, EInvStutter DEF Next, Ended

\* What holds along every exploration.
LEMMA Explored == Spec => []EInv
BY EInvInit, EInvNext, PTL DEF Spec

-----------------------------------------------------------------------------
(* Theorems *)

\* Every variable keeps its type, the plan and the pack their limits, and an exploration
\* its budgets: it never runs more probes than max_probes nor past the end of its plan.
THEOREM ExplorationTyped == Spec => []TypeOK
<1>1. EInv => TypeOK
    BY DEF EInv
<1> QED BY <1>1, Explored, PTL

\* The answer is of one piece, however the exploration ended: its pack is the one built
\* from the fused bundle and shows exactly the goals that are reported, and the check that
\* ends an exploration which lost a goal never finds one.
THEOREM AnswerOfOnePiece == Spec => []AnswerIsFused
<1>1. EInv => AnswerIsFused
    BY DEF EInv, AnswerIsFused
<1> QED BY <1>1, Explored, PTL

\* Follow-ups only add: a goal once shown stays shown, the paths keep their slots, and a
\* path the user named is never replaced, whatever the index runs in between publish and
\* however the builder of the pack ranks.
THEOREM CoverageNeverLost == Spec => CoverageKept
<1> DEFINE Kept == step # "query" =>
               /\ satisfied \subseteq satisfied'
               /\ \A i \in DOMAIN bundle : /\ bundle'[i].path = bundle[i].path
                                           /\ bundle[i].protected => bundle'[i] = bundle[i]
<1>1. EInv /\ [Next]_exploreVars => [Kept]_exploreVars
    <2> SUFFICES ASSUME EInv, [Next]_exploreVars, step # "query" PROVE Kept \/ UNCHANGED exploreVars
        OBVIOUS
    <2>1. CASE UNCHANGED evidenceVars
        BY <2>1 DEF evidenceVars
    <2>2. CASE Probe
        BY <2>2, ProbeKeeps DEF Extends
    <2>3. CASE PlanProbes
        BY <2>1, <2>3 DEF PlanProbes
    <2>4. CASE Publish \/ SkipStale \/ ProbeFails \/ EndOfPlan \/ Break
        BY <2>1, <2>4, OthersKeep
    <2>5. CASE InitialQuery
        BY <2>5 DEF InitialQuery
    <2> QED BY <2>2, <2>3, <2>4, <2>5 DEF Next, Ended
<1>2. Spec => [][Kept]_exploreVars
    BY <1>1, Explored, PTL DEF Spec
<1> QED BY <1>2 DEF CoverageKept
=============================================================================
