-------------------------- MODULE RetrySkipsProofs --------------------------
(***************************************************************************)
(* Theorems of RetrySkips, for any number of files, any retry limit and    *)
(* any number of changes.                                                  *)
(*                                                                         *)
(* The bound on the delay is an account: what a waiting file has waited,   *)
(* two for each file that is to be tried before it and one for each file   *)
(* that can be read, together never exceed two for each other file and one *)
(* for each change.  A refresh that puts the file off tries one before it, *)
(* which is then behind it or can be read; a change adds one at most.      *)
(***************************************************************************)
EXTENDS RetrySkips, FiniteSetTheorems, TLAPS

\* A skipped file has no source row; a retry is of a file that was unreadable once.
SkipInv ==
    \A p \in Paths : skips[p] # None =>
        /\ sources[p] = None
        /\ skips[p].retryable /\ file[p] # "unreadable" => stamp[p] # 0
        
\* Only a recorded retry is put off.
WaitingInv ==
    \A p \in Paths : passed[p] > 0 => skips[p] # None /\ skips[p].retryable

ChangedInv == Cardinality({p \in Paths : stamp[p] # 0}) <= changes

\* A file whose retry comes after that of p.
Behind(q, p) == skips[q] # None /\ RetryOrder(p, q)

\* A file that is waiting or will be.
Pressing(q) == file[q] = "unreadable" \/ (skips[q] # None /\ skips[q].retryable)

Ahead(p) == {q \in Paths \ {p} : Pressing(q) /\ ~Behind(q, p)}
Able(p)  == {q \in Paths \ {p} : file[q] # "unreadable"}

DelayInv ==
    \A p \in Paths : passed[p] > 0 =>
        2 * passed[p] + 2 * Cardinality(Ahead(p)) + Cardinality(Able(p)) <= 2 * (N - 1) + changes

RetryInv == TypeOK /\ SkipInv /\ EveryFileAccounted /\ WaitingInv /\ ChangedInv /\ DelayInv

-----------------------------------------------------------------------------
(* The queue *)

Comes(a, b, p, q) ==
    \/ a.last < b.last
    \/ a.last = b.last /\ a.first < b.first
    \/ a.last = b.last /\ a.first = b.first /\ p < q

LEMMA NumbersOfPaths == IsFiniteSet(Paths) /\ N \in Nat /\ \A p \in Paths : p \in Nat
BY PathsAssumption, FS_CardinalityType DEF N

LEMMA FinitePaths ==
    ASSUME NEW S \in SUBSET Paths
    PROVE  IsFiniteSet(S) /\ Cardinality(S) \in Nat /\ Cardinality(S) <= N
BY NumbersOfPaths, FS_Subset, FS_CardinalityType DEF N

LEMMA RowFields ==
    ASSUME TypeOK, NEW p \in Paths, skips[p] # None
    PROVE  /\ skips[p] \in Skip /\ skips[p].retryable \in BOOLEAN
           /\ skips[p].first \in Nat /\ skips[p].first >= 1 /\ skips[p].first <= N
           /\ skips[p].last \in Nat /\ skips[p].last <= N
<1>1. skips[p] \in Skip
    BY DEF TypeOK
<1>2. QED
    BY <1>1, NumbersOfPaths DEF Skip

\* The queue orders the files that have a row.
LEMMA OrderIsTotal ==
    ASSUME TypeOK, NEW p \in Paths, NEW q \in Paths, skips[p] # None, skips[q] # None
    PROVE  /\ ~RetryOrder(p, p)
           /\ p # q => RetryOrder(p, q) \/ RetryOrder(q, p)
           /\ ~(RetryOrder(p, q) /\ RetryOrder(q, p))
BY RowFields, NumbersOfPaths DEF RetryOrder

LEMMA OrderIsTransitive ==
    ASSUME TypeOK, NEW p \in Paths, NEW q \in Paths, NEW r \in Paths,
           skips[p] # None, skips[q] # None, skips[r] # None,
           RetryOrder(p, q), RetryOrder(q, r)
    PROVE  RetryOrder(p, r)
BY RowFields, NumbersOfPaths DEF RetryOrder

\* Whoever is put off has somebody before him who is tried.
LEMMA SomebodyIsTried ==
    ASSUME TypeOK, NEW p \in Deferred
    PROVE  \E q \in RetryCandidates \ Deferred : RetryOrder(q, p)
<1> DEFINE Pred(q) == {r \in RetryCandidates : RetryOrder(r, q)}
           Preds == {Pred(q) : q \in Pred(p)}
<1>1. \A q \in RetryCandidates : q \in Paths /\ skips[q] # None
    BY DEF RetryCandidates
<1>2. p \in RetryCandidates /\ Cardinality(Pred(p)) >= RetryLimit
    BY DEF Deferred
<1>3. Pred(p) \in SUBSET Paths
    BY <1>1
<1>4. Pred(p) # {}
    BY <1>2, <1>3, FS_EmptySet, LimitAssumption
<1>5. \A q : Pred(q) \in FiniteSubsetsOf(Paths)
    BY <1>1, FinitePaths DEF FiniteSubsetsOf
<1>6. Preds \subseteq FiniteSubsetsOf(Paths) /\ Preds # {}
    BY <1>4, <1>5
<1>7. PICK X \in Preds : \A Y \in Preds : <<Y, X>> \notin StrictSubsetOrdering(Paths)
    BY <1>6, FS_StrictSubsetOrderingWellFounded, WFMin
<1>8. PICK q \in Pred(p) : X = Pred(q)
    OBVIOUS
<1>9. q \in RetryCandidates /\ RetryOrder(q, p)
    OBVIOUS
<1>10. ASSUME NEW r \in Pred(q)
       PROVE  FALSE
    <2>1. r \in RetryCandidates /\ RetryOrder(r, q)
        OBVIOUS
    <2>2. RetryOrder(r, p)
        BY <1>1, <1>2, <1>9, <2>1, OrderIsTransitive
    <2>3. Pred(r) \in Preds
        BY <2>1, <2>2
    <2>4. \A s \in Pred(r) : s \in Pred(q)
        BY <1>1, <1>9, <2>1, OrderIsTransitive
    <2>5. r \notin Pred(r)
        BY <1>1, <2>1, OrderIsTotal
    <2>6. <<Pred(r), Pred(q)>> \in StrictSubsetOrdering(Paths)
        BY <1>1, <2>4, <2>5 DEF StrictSubsetOrdering
    <2>7. QED
        BY <1>7, <1>8, <2>3, <2>6
<1>11. Pred(q) = {}
    BY <1>10
<1>12. ~(Cardinality(Pred(q)) >= RetryLimit)
    BY <1>11, FS_EmptySet, LimitAssumption
<1>13. q \notin Deferred
    BY <1>12 DEF Deferred
<1>14. QED
    BY <1>9, <1>13

-----------------------------------------------------------------------------
(* Ranks keep the order of what they rank *)

LEMMA Ranks ==
    ASSUME NEW S \in SUBSET Nat, IsFiniteSet(S), NEW v \in Nat
    PROVE  /\ Rank(S, v) \in Nat /\ Rank(S, v) <= Cardinality(S)
           /\ v \in S => Rank(S, v) >= 1
           /\ \A u \in Nat : u < v /\ v \in S => Rank(S, u) < Rank(S, v)
           /\ 0 \notin S => Rank(S, 0) = 0
<1> DEFINE Low(x) == {u \in S : u <= x}
<1>1. \A x : /\ Low(x) \in SUBSET S /\ IsFiniteSet(Low(x))
             /\ Cardinality(Low(x)) \in Nat /\ Cardinality(Low(x)) <= Cardinality(S)
    BY FS_Subset, FS_CardinalityType
<1>2. v \in S => Low(v) # {}
    OBVIOUS
<1>3. v \in S => Cardinality(Low(v)) # 0
    BY <1>1, <1>2, FS_EmptySet
<1>4. ASSUME NEW u \in Nat, u < v, v \in S
      PROVE  Cardinality(Low(u)) < Cardinality(Low(v))
    <2>1. \A x \in Low(u) : x \in Low(v)
        <3>1. ASSUME NEW x \in S, x <= u PROVE x <= v
            BY <1>4, <3>1
        <3>2. QED
            BY <3>1
    <2>2. v \in Low(v) /\ v \notin Low(u)
        <3>1. v <= v /\ ~(v <= u)
            BY <1>4
        <3>2. QED
            BY <1>4, <3>1
    <2>3. Low(u) \in SUBSET Low(v) /\ Low(u) # Low(v)
        BY <2>1, <2>2
    <2>4. Cardinality(Low(u)) <= Cardinality(Low(v)) /\ Cardinality(Low(u)) # Cardinality(Low(v))
        BY <1>1, <2>3, FS_Subset
    <2>5. QED
        BY <1>1, <2>4
<1>5. 0 \notin S => Low(0) = {}
    <2>1. ASSUME NEW x \in S, x <= 0 PROVE x = 0
        BY <2>1
    <2>2. QED
        BY <2>1
<1>6. QED
    BY <1>1, <1>3, <1>4, <1>5, FS_EmptySet DEF Rank

\* The generations from which the skip rows of a run are made.
FirstOf(p) == IF skips[p] # None THEN skips[p].first ELSE N + 1
LastOf(p, attempted) ==
    IF p \in attempted THEN N + 1 ELSE IF skips[p] # None THEN skips[p].last ELSE 0
Firsts(R) == {FirstOf(p) : p \in R}
Lasts(R, attempted) == {LastOf(p, attempted) : p \in R} \ {0}

LEMMA Generations ==
    ASSUME TypeOK, NEW R \in SUBSET Paths, NEW attempted
    PROVE  /\ \A p \in R : FirstOf(p) \in Nat \ {0} /\ LastOf(p, attempted) \in Nat
           /\ Firsts(R) \in SUBSET (Nat \ {0}) /\ Lasts(R, attempted) \in SUBSET (Nat \ {0})
           /\ IsFiniteSet(Firsts(R)) /\ Cardinality(Firsts(R)) \in Nat
           /\ Cardinality(Firsts(R)) <= N
           /\ IsFiniteSet(Lasts(R, attempted)) /\ Cardinality(Lasts(R, attempted)) \in Nat
           /\ Cardinality(Lasts(R, attempted)) <= N
<1> DEFINE f == [p \in R |-> FirstOf(p)]
           g == [p \in R |-> LastOf(p, attempted)]
           L == {LastOf(p, attempted) : p \in R}
<1>1. \A p \in R : FirstOf(p) \in Nat \ {0} /\ LastOf(p, attempted) \in Nat
    BY RowFields, NumbersOfPaths DEF FirstOf, LastOf
<1>2. f \in Surjection(R, Firsts(R)) /\ g \in Surjection(R, L)
    BY DEF Surjection, Firsts
<1>3. IsFiniteSet(R) /\ Cardinality(R) \in Nat /\ Cardinality(R) <= N
    BY FinitePaths
<1>4. IsFiniteSet(Firsts(R)) /\ Cardinality(Firsts(R)) <= Cardinality(R)
    BY <1>2, <1>3, FS_Surjection
<1>5. IsFiniteSet(L) /\ Cardinality(L) <= Cardinality(R)
    BY <1>2, <1>3, FS_Surjection
<1>6. Lasts(R, attempted) \in SUBSET L
    BY DEF Lasts
<1>7. IsFiniteSet(Lasts(R, attempted)) /\ Cardinality(Lasts(R, attempted)) <= Cardinality(L)
    BY <1>5, <1>6, FS_Subset
<1>8. Firsts(R) \in SUBSET (Nat \ {0}) /\ Lasts(R, attempted) \in SUBSET (Nat \ {0})
    BY <1>1 DEF Firsts, Lasts
<1>9. QED
    BY <1>1, <1>3, <1>4, <1>5, <1>7, <1>8, NumbersOfPaths, FS_CardinalityType

LEMMA SkipRow ==
    ASSUME NEW failed, NEW kept, NEW attempted, NEW p \in Paths
    PROVE  SkipRows(failed, kept, attempted)[p] =
               IF p \notin failed \union kept THEN None
               ELSE [retryable |-> p \in kept \/ file[p] = "unreadable", stamp |-> stamp[p],
                     first |-> Rank(Firsts(failed \union kept), FirstOf(p)),
                     last  |-> Rank(Lasts(failed \union kept, attempted), LastOf(p, attempted))]
BY DEF SkipRows, Firsts, Lasts, FirstOf, LastOf

LEMMA SkipRowsTyped ==
    ASSUME TypeOK, NEW failed \in SUBSET Paths, NEW kept \in SUBSET Paths, NEW attempted,
           NEW new, new = SkipRows(failed, kept, attempted)
    PROVE  /\ new \in [Paths -> Skip \union {None}]
           /\ \A p \in Paths : new[p] # None <=> p \in failed \union kept
           /\ \A p \in failed \union kept : new[p].retryable = (p \in kept \/ file[p] = "unreadable")
<1> DEFINE R == failed \union kept
<1>1. DOMAIN new = Paths /\ new = [p \in Paths |-> new[p]]
    BY DEF SkipRows
<1>2. ASSUME NEW p \in R
      PROVE  /\ new[p] \in Skip
             /\ new[p].retryable = (p \in kept \/ file[p] = "unreadable")
    <2>1. Rank(Firsts(R), FirstOf(p)) \in 1..N
        <3>1. FirstOf(p) \in Firsts(R)
            BY DEF Firsts
        <3>2. FirstOf(p) \in Nat /\ Firsts(R) \in SUBSET Nat /\ IsFiniteSet(Firsts(R))
            BY Generations
        <3>3. /\ Rank(Firsts(R), FirstOf(p)) \in Nat /\ Rank(Firsts(R), FirstOf(p)) >= 1
              /\ Rank(Firsts(R), FirstOf(p)) <= Cardinality(Firsts(R))
            BY <3>1, <3>2, Ranks
        <3>4. Cardinality(Firsts(R)) \in Nat /\ Cardinality(Firsts(R)) <= N
            BY Generations
        <3>5. QED
            BY <3>3, <3>4, NumbersOfPaths
    <2>2. Rank(Lasts(R, attempted), LastOf(p, attempted)) \in 0..N
        <3>1. /\ LastOf(p, attempted) \in Nat /\ Lasts(R, attempted) \in SUBSET Nat
              /\ IsFiniteSet(Lasts(R, attempted))
            BY Generations
        <3>2. /\ Rank(Lasts(R, attempted), LastOf(p, attempted)) \in Nat
              /\ Rank(Lasts(R, attempted), LastOf(p, attempted)) <= Cardinality(Lasts(R, attempted))
            BY <3>1, Ranks
        <3>3. Cardinality(Lasts(R, attempted)) \in Nat /\ Cardinality(Lasts(R, attempted)) <= N
            BY Generations
        <3>4. QED
            BY <3>2, <3>3, NumbersOfPaths
    <2>3. stamp[p] \in 0..MaxChanges
        BY DEF TypeOK
    <2>4. new[p] = [retryable |-> p \in kept \/ file[p] = "unreadable", stamp |-> stamp[p],
                    first |-> Rank(Firsts(R), FirstOf(p)),
                    last  |-> Rank(Lasts(R, attempted), LastOf(p, attempted))]
        <3>1. p \in Paths /\ ~(p \notin failed \union kept)
            OBVIOUS
        <3>2. QED
            BY <3>1, SkipRow, SMTT(40)
    <2>5. (p \in kept \/ file[p] = "unreadable") \in BOOLEAN
        OBVIOUS
    <2>6. QED
        BY <2>1, <2>2, <2>3, <2>4, <2>5 DEF Skip
<1>3. \A x \in Skip : x # None
    BY SkipAssumption
<1>4. \A p \in Paths : p \notin R => new[p] = None
    BY SkipRow
<1>5. QED
    BY <1>1, <1>2, <1>3, <1>4

\* Who was behind a file that is put off, or has been tried, is behind it afterwards.
LEMMA SkipRowsOrdered ==
    ASSUME TypeOK, NEW failed \in SUBSET Paths, NEW kept \in SUBSET Paths, NEW attempted,
           NEW new, new = SkipRows(failed, kept, attempted),
           NEW p \in kept, p \notin attempted, skips[p] # None,
           NEW q \in failed \union kept, skips[q] # None,
           q \in attempted \/ RetryOrder(p, q)
    PROVE  Comes(new[p], new[q], p, q)
<1> DEFINE R  == failed \union kept
           fs == Firsts(R)
           ls == Lasts(R, attempted)
           fp == FirstOf(p)
           fq == FirstOf(q)
           lp == LastOf(p, attempted)
           lq == LastOf(q, attempted)
<1>1. p \in Paths /\ q \in Paths /\ p \in R /\ q \in R
    OBVIOUS
<1>2. /\ fp = skips[p].first /\ fq = skips[q].first /\ lp = skips[p].last
      /\ q \notin attempted => lq = skips[q].last
      /\ q \in attempted => lq = N + 1
    BY DEF FirstOf, LastOf
<1>3. /\ fp \in Nat \ {0} /\ fq \in Nat \ {0} /\ lp \in Nat /\ lq \in Nat
      /\ fs \in SUBSET Nat /\ ls \in SUBSET Nat /\ IsFiniteSet(fs) /\ IsFiniteSet(ls)
      /\ 0 \notin ls
    BY <1>1, Generations
<1>4. fp \in fs /\ fq \in fs /\ (lp # 0 => lp \in ls) /\ (lq # 0 => lq \in ls)
    BY <1>1 DEF Firsts, Lasts
<1>5. new[p].first = Rank(fs, fp) /\ new[p].last = Rank(ls, lp)
    <2>1. p \in Paths /\ ~(p \notin failed \union kept)
        BY <1>1
    <2>2. new[p] = [retryable |-> p \in kept \/ file[p] = "unreadable", stamp |-> stamp[p],
                    first |-> Rank(fs, fp), last |-> Rank(ls, lp)]
        BY <2>1, SkipRow
    <2>3. QED
        BY <2>2
<1>6. new[q].first = Rank(fs, fq) /\ new[q].last = Rank(ls, lq)
    <2>1. q \in Paths /\ ~(q \notin failed \union kept)
        BY <1>1
    <2>2. new[q] = [retryable |-> q \in kept \/ file[q] = "unreadable", stamp |-> stamp[q],
                    first |-> Rank(fs, fq), last |-> Rank(ls, lq)]
        BY <2>1, SkipRow
    <2>3. QED
        BY <2>2
<1>7. skips[p].last <= N /\ lp < N + 1
    BY <1>1, <1>2, RowFields, NumbersOfPaths
<1>8. \/ lp < lq
      \/ lp = lq /\ fp < fq
      \/ lp = lq /\ fp = fq /\ p < q
    BY <1>2, <1>7 DEF RetryOrder
<1> HIDE DEF R, fs, ls, fp, fq, lp, lq
<1>9. lp < lq => Rank(ls, lp) < Rank(ls, lq)
    <2>1. ASSUME lp < lq PROVE lq \in ls
        BY <1>3, <1>4, <2>1
    <2>2. QED
        BY <1>3, <2>1, Ranks
<1>10. fp < fq => Rank(fs, fp) < Rank(fs, fq)
    BY <1>3, <1>4, Ranks
<1>11. QED
    BY <1>5, <1>6, <1>8, <1>9, <1>10 DEF Comes

-----------------------------------------------------------------------------
(* Types and accounting *)

LEMMA Queue ==
    /\ RetryCandidates \in SUBSET Paths /\ Deferred \in SUBSET RetryCandidates
    /\ \A p \in RetryCandidates : file[p] # "gone" /\ skips[p] # None /\ skips[p].retryable
    /\ \A p \in DirectPaths(Deferred) :
           p \in Paths /\ file[p] # "gone" /\ p \notin Deferred /\ sources[p] # stamp[p]
    /\ DirectPaths(Deferred) \in SUBSET Paths
BY DEF RetryCandidates, Deferred, DirectPaths

LEMMA SourceRow ==
    ASSUME NEW read, NEW p \in Paths
    PROVE  /\ DOMAIN SourceRows(read) = Paths
           /\ p \in read => SourceRows(read)[p] = IF file[p] = "text" THEN stamp[p] ELSE None
           /\ p \notin read => SourceRows(read)[p] = IF file[p] = "gone" THEN None ELSE sources[p]
BY DEF SourceRows

LEMMA SourceRowsTyped ==
    ASSUME TypeOK, NEW read
    PROVE  SourceRows(read) \in [Paths -> (0..MaxChanges) \union {None}]
BY DEF TypeOK, SourceRows

LEMMA PutOffTyped ==
    ASSUME TypeOK, NEW put
    PROVE  /\ PutOff(put) \in [Paths -> 0..DelayCap]
           /\ \A p \in Paths : /\ PutOff(put)[p] <= passed[p] + 1
                               /\ p \notin put => PutOff(put)[p] = 0
<1>1. DelayCap \in Nat
    BY NumbersOfPaths, ChangesAssumption DEF DelayCap
<1>2. ASSUME NEW p \in Paths
      PROVE  /\ PutOff(put)[p] \in 0..DelayCap /\ PutOff(put)[p] <= passed[p] + 1
             /\ p \notin put => PutOff(put)[p] = 0
    BY <1>1 DEF TypeOK, PutOff
<1>3. PutOff(put) = [p \in Paths |-> PutOff(put)[p]]
    BY DEF PutOff
<1>4. QED
    BY <1>2, <1>3

\* A refresh and an index run, as the sources they read and the retries they put off.
Run(read, put, attempted) ==
    /\ read \in SUBSET Paths /\ put \in SUBSET RetryCandidates
    /\ ran' = TRUE
    /\ sources' = SourceRows(read)
    /\ skips' = SkipRows(Failing(read), put, attempted)
    /\ UNCHANGED <<file, stamp, changes>>
    /\ \A p \in read : p \in Paths /\ file[p] # "gone" /\ p \notin put
    /\ \A p \in Paths \ (read \union put) : file[p] = "gone" \/ sources[p] = stamp[p]

LEMMA RefreshRuns ==
    ASSUME TypeOK, Refresh
    PROVE  /\ Run(DirectPaths(Deferred), Deferred, DirectPaths(Deferred) \intersect RetryCandidates)
           /\ passed' = PutOff(Deferred)
<1>1. \A p \in Paths \ (DirectPaths(Deferred) \union Deferred) : file[p] = "gone" \/ sources[p] = stamp[p]
    BY DEF DirectPaths
<1>2. QED
    BY <1>1, Queue DEF Refresh, Run

LEMMA IndexRuns ==
    ASSUME Index
    PROVE  Run(Eligible, {}, {}) /\ passed' = [p \in Paths |-> 0]
BY DEF Index, Run, Eligible

\* What a run leaves of each file.
LEMMA RunLeaves ==
    ASSUME TypeOK, SkipInv, NEW read, NEW put, NEW attempted, Run(read, put, attempted)
    PROVE  /\ sources' \in [Paths -> (0..MaxChanges) \union {None}]
           /\ skips' \in [Paths -> Skip \union {None}]
           /\ \A p \in Paths : skips'[p] # None <=> p \in Failing(read) \union put
           /\ \A p \in Failing(read) \union put :
                  skips'[p].retryable = (p \in put \/ file[p] = "unreadable")
           /\ SkipInv'
           /\ EveryFileAccounted'
<1>1. Failing(read) \in SUBSET Paths /\ put \in SUBSET Paths /\ put \in SUBSET RetryCandidates
    BY Queue DEF Run, Failing
<1>2. /\ skips' \in [Paths -> Skip \union {None}]
      /\ \A p \in Paths : skips'[p] # None <=> p \in Failing(read) \union put
      /\ \A p \in Failing(read) \union put :
             skips'[p].retryable = (p \in put \/ file[p] = "unreadable")
    BY <1>1, SkipRowsTyped DEF Run
<1>3. sources' \in [Paths -> (0..MaxChanges) \union {None}]
    BY SourceRowsTyped DEF Run
<1>4. \A p \in put : p \in Paths /\ file[p] # "gone" /\ skips[p] # None /\ skips[p].retryable
                     /\ p \notin read
    BY <1>1, Queue DEF Run
<1>5. \A p \in Failing(read) : p \in read /\ file[p] # "text"
    BY DEF Failing
<1>6. /\ \A p \in read : sources'[p] = IF file[p] = "text" THEN stamp[p] ELSE None
      /\ \A p \in Paths : p \notin read =>
             sources'[p] = IF file[p] = "gone" THEN None ELSE sources[p]
    BY SourceRow DEF Run
<1>7. file' = file /\ stamp' = stamp /\ ran'
    BY DEF Run
<1>8. ASSUME NEW p \in Paths, skips'[p] # None
      PROVE  /\ sources'[p] = None
             /\ skips'[p].retryable /\ file[p] # "unreadable" => stamp[p] # 0
    <2>1. CASE p \in put
        BY <1>4, <1>6, <2>1 DEF SkipInv
    <2>2. CASE p \in Failing(read)
        BY <1>2, <1>4, <1>5, <1>6, <2>2
    <2>3. QED
        BY <1>2, <1>8, <2>1, <2>2
<1>9. SkipInv'
    BY <1>7, <1>8 DEF SkipInv
<1>10. ASSUME NEW p \in Paths
       PROVE  IF file[p] = "gone" THEN sources'[p] = None /\ skips'[p] = None
              ELSE (sources'[p] = stamp[p]) # (skips'[p] # None)
    <2>1. stamp[p] # None
        BY NoneAssumption DEF TypeOK
    <2>2. CASE p \in put
        <3>1. skips'[p] # None /\ sources'[p] = None
            BY <1>2, <1>8, <2>2
        <3>2. QED
            BY <1>4, <2>1, <2>2, <3>1
    <2>3. CASE p \in read
        <3>1. file[p] # "gone" /\ p \notin put
            BY <2>3 DEF Run
        <3>2. p \in Failing(read) <=> file[p] # "text"
            BY <2>3 DEF Failing
        <3>3. skips'[p] # None <=> file[p] # "text"
            BY <1>2, <3>1, <3>2
        <3>4. sources'[p] = IF file[p] = "text" THEN stamp[p] ELSE None
            BY <1>6, <2>3
        <3>5. QED
            BY <2>1, <3>1, <3>3, <3>4
    <2>4. CASE p \notin read \union put
        <3>1. skips'[p] = None
            BY <1>2, <1>5, <2>4
        <3>2. file[p] = "gone" \/ sources[p] = stamp[p]
            BY <2>4 DEF Run
        <3>3. QED
            BY <1>6, <2>4, <3>1, <3>2
    <2>5. QED
        BY <2>2, <2>3, <2>4
<1>11. EveryFileAccounted'
    BY <1>7, <1>10 DEF EveryFileAccounted
<1>12. QED
    BY <1>2, <1>3, <1>9, <1>11

-----------------------------------------------------------------------------
(* The account of a waiting file *)

LEMMA OneMore ==
    ASSUME NEW S, IsFiniteSet(S), NEW x
    PROVE  Cardinality(S \union {x}) <= Cardinality(S) + 1
<1>1. Cardinality(S) \in Nat
    BY FS_CardinalityType
<1>2. CASE x \in S
    <2>1. S \union {x} = S
        BY <1>2
    <2>2. QED
        BY <1>1, <2>1
<1>3. CASE x \notin S
    <2>1. Cardinality(S \union {x}) = Cardinality(S) + 1
        BY <1>3, FS_AddElement
    <2>2. QED
        BY <1>1, <2>1
<1>4. QED
    BY <1>2, <1>3

LEMMA AccountTyped ==
    ASSUME NEW p \in Paths
    PROVE  /\ N >= 1 /\ IsFiniteSet(Paths \ {p}) /\ Cardinality(Paths \ {p}) = N - 1
           /\ Ahead(p) \in SUBSET (Paths \ {p}) /\ Able(p) \in SUBSET (Paths \ {p})
           /\ IsFiniteSet(Ahead(p)) /\ IsFiniteSet(Able(p))
           /\ Cardinality(Ahead(p)) \in Nat /\ Cardinality(Able(p)) \in Nat
<1>1. IsFiniteSet(Paths \ {p}) /\ Cardinality(Paths \ {p}) = N - 1
    BY PathsAssumption, FS_RemoveElement DEF N
<1>2. Ahead(p) \in SUBSET (Paths \ {p}) /\ Able(p) \in SUBSET (Paths \ {p})
    BY DEF Ahead, Able
<1>3. Cardinality(Paths \ {p}) \in Nat
    BY <1>1, FS_CardinalityType
<1>4. QED
    BY <1>1, <1>2, <1>3, FS_Subset, FS_CardinalityType, NumbersOfPaths

\* A file that has not waited yet can be charged for whatever is before it.
LEMMA OpeningAccount ==
    ASSUME TypeOK, SkipInv, ChangedInv, NEW p \in Paths
    PROVE  2 * Cardinality(Ahead(p)) + Cardinality(Able(p)) <= 2 * (N - 1) + changes
<1> DEFINE O == Paths \ {p}
           A == Ahead(p)
           B == Able(p)
           C == {q \in Paths : stamp[q] # 0}
<1>1. /\ IsFiniteSet(O) /\ Cardinality(O) = N - 1 /\ A \in SUBSET O /\ B \in SUBSET O
      /\ IsFiniteSet(A) /\ IsFiniteSet(B) /\ Cardinality(A) \in Nat /\ Cardinality(B) \in Nat
    BY AccountTyped
<1>2. IsFiniteSet(C) /\ Cardinality(C) \in Nat /\ Cardinality(C) <= changes
    BY FinitePaths DEF ChangedInv
<1>3. A \intersect B \in SUBSET C
    BY DEF Ahead, Able, Pressing, SkipInv
<1>4. changes \in Nat
    BY ChangesAssumption DEF TypeOK
<1> HIDE DEF O, A, B, C
<1>5. A \union B \in SUBSET O
    BY <1>1
<1>6. Cardinality(A \union B) = Cardinality(A) + Cardinality(B) - Cardinality(A \intersect B)
    BY <1>1, FS_Union
<1>7. /\ Cardinality(A \union B) <= N - 1 /\ Cardinality(A) <= N - 1
    BY <1>1, <1>5, FS_Subset
<1>8. Cardinality(A \intersect B) <= Cardinality(C) /\ Cardinality(A \intersect B) \in Nat
    BY <1>2, <1>3, FS_Subset, FS_CardinalityType
<1>9. N \in Nat
    BY NumbersOfPaths
<1>10. QED
    BY <1>1, <1>2, <1>4, <1>6, <1>7, <1>8, <1>9 DEF A, B

\* A refresh that puts a file off brings nobody before it, and tries somebody who was.
LEMMA RefreshServes ==
    ASSUME TypeOK, SkipInv, Refresh, NEW p \in Deferred
    PROVE  Cardinality(Ahead(p)') <= Cardinality(Ahead(p)) - 1
<1> DEFINE direct == DirectPaths(Deferred)
           tried  == direct \intersect RetryCandidates
<1>1. Run(direct, Deferred, tried)
    BY RefreshRuns
<1>2. /\ \A q \in Paths : skips'[q] # None <=> q \in Failing(direct) \union Deferred
      /\ \A q \in Failing(direct) \union Deferred :
             skips'[q].retryable = (q \in Deferred \/ file[q] = "unreadable")
    BY <1>1, RunLeaves
<1>3. p \in Paths /\ skips[p] # None /\ file[p] # "gone" /\ p \notin direct
    BY Queue
<1>4. file' = file /\ skips' = SkipRows(Failing(direct), Deferred, tried)
    BY <1>1 DEF Run
<1>5. /\ Failing(direct) \in SUBSET Paths /\ Deferred \in SUBSET Paths
      /\ \A q \in Failing(direct) : q \in direct /\ file[q] # "text"
    BY Queue DEF Failing
<1>6. \A q : Behind(q, p)' <=> skips'[q] # None /\ Comes(skips'[p], skips'[q], p, q)
    BY DEF Behind, RetryOrder, Comes
<1>7. ASSUME NEW q \in Failing(direct) \union Deferred, skips[q] # None, q \in tried \/ RetryOrder(p, q)
      PROVE  Behind(q, p)'
    <2>1. Comes(skips'[p], skips'[q], p, q)
        <3>1. p \notin tried
            BY <1>3
        <3> HIDE DEF direct, tried
        <3>2. QED
            BY <1>3, <1>4, <1>5, <1>7, <3>1, SkipRowsOrdered
    <2>2. q \in Paths /\ skips'[q] # None
        BY <1>2, <1>5
    <2>3. QED
        BY <1>6, <2>1, <2>2
<1>8. PICK t \in RetryCandidates \ Deferred : RetryOrder(t, p)
    BY SomebodyIsTried
<1>9. t \in Paths /\ skips[t] # None /\ file[t] # "gone" /\ skips[t].retryable
    BY <1>8, Queue
<1>10. t \in Ahead(p)
    <2>1. t # p /\ ~RetryOrder(p, t)
        BY <1>3, <1>8, <1>9, OrderIsTotal
    <2>2. QED
        BY <1>9, <2>1 DEF Ahead, Pressing, Behind
<1>11. t \in tried
    <2>1. sources[t] = None /\ stamp[t] # None
        BY <1>9, NoneAssumption DEF SkipInv, TypeOK
    <2>2. QED
        BY <1>8, <1>9, <2>1 DEF DirectPaths
<1>12. \A q \in Ahead(p)' : q \in Paths /\ q # p /\ Pressing(q)' /\ ~Behind(q, p)'
    BY DEF Ahead
<1>13. t \notin Ahead(p)'
    <2>1. CASE file[t] = "text"
        <3>1. t \notin Failing(direct) \union Deferred
            BY <1>5, <1>8, <2>1
        <3>2. skips'[t] = None /\ file'[t] # "unreadable"
            BY <1>2, <1>4, <1>9, <2>1, <3>1
        <3>3. QED
            BY <1>12, <3>2 DEF Pressing
    <2>2. CASE file[t] # "text"
        <3>1. t \in Failing(direct)
            BY <1>11, <2>2 DEF Failing
        <3>2. QED
            BY <1>7, <1>9, <1>11, <1>12, <3>1
    <2>3. QED
        BY <2>1, <2>2
<1>14. ASSUME NEW q \in Ahead(p)'
       PROVE  q \in Ahead(p)
    <2>1. q \in Paths /\ q # p /\ ~Behind(q, p)' /\ (file[q] = "unreadable" \/ (skips'[q] # None /\ skips'[q].retryable))
        BY <1>4, <1>12 DEF Pressing
    <2>2. Pressing(q)
        <3>1. CASE file[q] = "unreadable"
            BY <3>1 DEF Pressing
        <3>2. CASE file[q] # "unreadable"
            <4>1. q \in Failing(direct) \union Deferred
                BY <1>2, <2>1, <3>2
            <4>2. q \in Deferred
                BY <1>2, <2>1, <3>2, <4>1
            <4>3. QED
                BY <4>2, Queue DEF Pressing
        <3>3. QED
            BY <3>1, <3>2
    <2>3. ASSUME Behind(q, p)
          PROVE  FALSE
        <3>1. skips[q] # None /\ RetryOrder(p, q)
            BY <2>3 DEF Behind
        <3>2. q \notin Failing(direct) \union Deferred
            BY <1>7, <2>1, <3>1
        <3>3. file[q] = "unreadable"
            BY <1>2, <2>1, <3>2
        <3>4. sources[q] = None /\ stamp[q] # None
            BY <2>1, <3>1, NoneAssumption DEF SkipInv, TypeOK
        <3>5. q \in direct /\ file[q] # "text"
            BY <2>1, <3>2, <3>3, <3>4 DEF DirectPaths
        <3>6. QED
            BY <3>2, <3>5 DEF Failing
    <2>4. QED
        BY <2>1, <2>2, <2>3 DEF Ahead
<1>15. Ahead(p)' \in SUBSET (Ahead(p) \ {t})
    BY <1>13, <1>14
<1>16. IsFiniteSet(Ahead(p) \ {t}) /\ Cardinality(Ahead(p) \ {t}) = Cardinality(Ahead(p)) - 1
    BY <1>3, <1>10, AccountTyped, FS_RemoveElement
<1>17. QED
    BY <1>15, <1>16, FS_Subset

\* A change brings one file more before a waiting one at the price of a readable one,
\* or makes one readable.
LEMMA ChangeCharges ==
    ASSUME TypeOK, NEW c \in Paths, Change(c), NEW p \in Paths
    PROVE  /\ 2 * Cardinality(Ahead(p)') + Cardinality(Able(p)')
                  <= 2 * Cardinality(Ahead(p)) + Cardinality(Able(p)) + 1
           /\ Cardinality(Ahead(p)') \in Nat /\ Cardinality(Able(p)') \in Nat
<1> DEFINE A == Ahead(p)
           B == Able(p)
           An == Ahead(p)'
           Bn == Able(p)'
<1>1. /\ IsFiniteSet(A) /\ IsFiniteSet(B) /\ Cardinality(A) \in Nat /\ Cardinality(B) \in Nat
    BY AccountTyped
<1>2. PICK f \in Files : file' = [file EXCEPT ![c] = f]
    BY DEF Change
<1>3. skips' = skips /\ file' = [file EXCEPT ![c] = f] /\ file \in [Paths -> Files]
    BY <1>2 DEF Change, TypeOK
<1>4. \A q : Behind(q, p)' <=> Behind(q, p)
    BY <1>3 DEF Behind, RetryOrder
<1>5. \A q \in Paths : /\ q # c => file'[q] = file[q]
                       /\ q = c => file'[q] = f
    BY <1>3
<1>6. /\ \A q : q \in A <=> /\ q \in Paths \ {p} /\ ~Behind(q, p)
                            /\ file[q] = "unreadable" \/ (skips[q] # None /\ skips[q].retryable)
      /\ \A q : q \in B <=> q \in Paths \ {p} /\ file[q] # "unreadable"
    BY DEF Ahead, Able, Pressing
<1>7. /\ \A q : q \in An <=> /\ q \in Paths \ {p} /\ ~Behind(q, p)
                             /\ file'[q] = "unreadable" \/ (skips[q] # None /\ skips[q].retryable)
      /\ \A q : q \in Bn <=> q \in Paths \ {p} /\ file'[q] # "unreadable"
    BY <1>3, <1>4 DEF Ahead, Able, Pressing
<1> HIDE DEF A, B, An, Bn
<1>8. CASE f = "unreadable" /\ c \in B
    <2>1. An \in SUBSET (A \union {c}) /\ Bn \in SUBSET (B \ {c})
        BY <1>5, <1>6, <1>7, <1>8
    <2>2. /\ IsFiniteSet(A \union {c}) /\ Cardinality(A \union {c}) <= Cardinality(A) + 1
          /\ IsFiniteSet(B \ {c}) /\ Cardinality(B \ {c}) = Cardinality(B) - 1
          /\ Cardinality(A \union {c}) \in Nat /\ Cardinality(B \ {c}) \in Nat
        <3>1. IsFiniteSet(A \union {c}) /\ Cardinality(A \union {c}) \in Nat
            BY <1>1, FS_AddElement, FS_CardinalityType
        <3>2. Cardinality(A \union {c}) <= Cardinality(A) + 1
            BY <1>1, OneMore
        <3>3. /\ IsFiniteSet(B \ {c}) /\ Cardinality(B \ {c}) = Cardinality(B) - 1
              /\ Cardinality(B \ {c}) \in Nat
            BY <1>1, <1>8, FS_RemoveElement, FS_CardinalityType
        <3>4. QED
            BY <3>1, <3>2, <3>3
    <2>3. /\ Cardinality(An) <= Cardinality(A \union {c}) /\ Cardinality(An) \in Nat
          /\ Cardinality(Bn) <= Cardinality(B \ {c}) /\ Cardinality(Bn) \in Nat
        BY <2>1, <2>2, FS_Subset, FS_CardinalityType
    <2>4. QED
        BY <1>1, <2>2, <2>3 DEF A, B, An, Bn
<1>9. CASE f = "unreadable" /\ c \notin B
    <2>1. An \in SUBSET A /\ Bn \in SUBSET B
        BY <1>5, <1>6, <1>7, <1>9
    <2>2. /\ Cardinality(An) <= Cardinality(A) /\ Cardinality(An) \in Nat
          /\ Cardinality(Bn) <= Cardinality(B) /\ Cardinality(Bn) \in Nat
        BY <1>1, <2>1, FS_Subset, FS_CardinalityType
    <2>3. QED
        BY <1>1, <2>2 DEF A, B, An, Bn
<1>10. CASE f # "unreadable"
    <2>1. An \in SUBSET A /\ Bn \in SUBSET (B \union {c})
        BY <1>5, <1>6, <1>7, <1>10
    <2>2. /\ IsFiniteSet(B \union {c}) /\ Cardinality(B \union {c}) <= Cardinality(B) + 1
          /\ Cardinality(B \union {c}) \in Nat
        <3>1. IsFiniteSet(B \union {c}) /\ Cardinality(B \union {c}) \in Nat
            BY <1>1, FS_AddElement, FS_CardinalityType
        <3>2. Cardinality(B \union {c}) <= Cardinality(B) + 1
            BY <1>1, OneMore
        <3>3. QED
            BY <3>1, <3>2
    <2>3. /\ Cardinality(An) <= Cardinality(A) /\ Cardinality(An) \in Nat
          /\ Cardinality(Bn) <= Cardinality(B \union {c}) /\ Cardinality(Bn) \in Nat
        BY <1>1, <2>1, <2>2, FS_Subset, FS_CardinalityType
    <2>4. QED
        BY <1>1, <2>2, <2>3 DEF A, B, An, Bn
<1>11. QED
    BY <1>8, <1>9, <1>10

-----------------------------------------------------------------------------
(* The invariant *)

LEMMA InitRetry ==
    ASSUME Init
    PROVE  RetryInv
<1>0. ASSUME NEW p \in Paths, file[p] \notin {"text", "gone"}
      PROVE  skips[p] \in Skip
    <2>1. skips[p] = [retryable |-> file[p] = "unreadable", stamp |-> 0, first |-> 1, last |-> 0]
        BY <1>0 DEF Init
    <2>2. N >= 1 /\ N \in Nat
        BY AccountTyped, NumbersOfPaths
    <2>3. (file[p] = "unreadable") \in BOOLEAN
        OBVIOUS
    <2>4. QED
        BY <2>1, <2>2, <2>3, ChangesAssumption DEF Skip
<1>1. stamp = [p \in Paths |-> 0] /\ changes = 0 /\ passed = [p \in Paths |-> 0]
    BY DEF Init
<1>2. TypeOK
    <2>2. skips \in [Paths -> Skip \union {None}]
        <3>1. ASSUME NEW p \in Paths PROVE skips[p] \in Skip \union {None}
            BY <1>0 DEF Init
        <3>2. QED
            BY <3>1 DEF Init
    <2>3. DelayCap \in Nat
        BY NumbersOfPaths, ChangesAssumption DEF DelayCap
    <2>4. QED
        BY <2>2, <2>3, ChangesAssumption DEF Init, TypeOK
<1>3. SkipInv
    <2>1. ASSUME NEW p \in Paths, skips[p] # None
          PROVE  /\ sources[p] = None
                 /\ skips[p].retryable /\ file[p] # "unreadable" => stamp[p] # 0
        <3>1. file[p] \notin {"text", "gone"}
            BY <2>1 DEF Init
        <3>2. skips[p] = [retryable |-> file[p] = "unreadable", stamp |-> 0, first |-> 1, last |-> 0]
            BY <3>1 DEF Init
        <3>3. QED
            BY <3>1, <3>2 DEF Init
    <2>2. QED
        BY <2>1 DEF SkipInv
<1>4. EveryFileAccounted
    <2>1. ASSUME NEW p \in Paths
          PROVE  IF file[p] = "gone" THEN sources[p] = None /\ skips[p] = None
                 ELSE (sources[p] = stamp[p]) # (skips[p] # None)
        <3>1. file[p] \in Files /\ None # 0
            BY NoneAssumption DEF Init
        <3>2. file[p] \notin {"text", "gone"} => skips[p] # None
            BY <1>0, SkipAssumption
        <3>3. file[p] \in {"text", "gone"} => skips[p] = None
            BY DEF Init
        <3>4. sources[p] = IF file[p] = "text" THEN 0 ELSE None
            BY DEF Init
        <3>5. stamp[p] = 0
            BY <1>1
        <3>6. CASE file[p] = "gone"
            BY <3>3, <3>4, <3>6
        <3>7. CASE file[p] = "text"
            BY <3>3, <3>4, <3>5, <3>7
        <3>8. CASE file[p] \notin {"text", "gone"}
            BY <3>1, <3>2, <3>4, <3>5, <3>8
        <3>9. QED
            BY <3>6, <3>7, <3>8
    <2>2. QED
        BY <2>1 DEF EveryFileAccounted
<1>5. WaitingInv /\ DelayInv
    BY <1>1 DEF WaitingInv, DelayInv
<1>6. ChangedInv
    <2>1. {p \in Paths : stamp[p] # 0} = {}
        BY <1>1
    <2>2. QED
        BY <1>1, <2>1, FS_EmptySet DEF ChangedInv
<1>7. QED
    BY <1>2, <1>3, <1>4, <1>5, <1>6 DEF RetryInv

LEMMA RefreshStep ==
    ASSUME RetryInv, Refresh
    PROVE  RetryInv'
<1>1. TypeOK /\ SkipInv /\ ChangedInv /\ DelayInv
    BY DEF RetryInv
<1>2. /\ Run(DirectPaths(Deferred), Deferred, DirectPaths(Deferred) \intersect RetryCandidates)
      /\ passed' = PutOff(Deferred)
    BY <1>1, RefreshRuns
<1>3. file' = file /\ stamp' = stamp /\ changes' = changes /\ ran' = TRUE
    BY <1>2 DEF Run
<1>4. Deferred \in SUBSET Paths
    BY Queue
<1>5. /\ sources' \in [Paths -> (0..MaxChanges) \union {None}]
      /\ skips' \in [Paths -> Skip \union {None}]
      /\ \A p \in Paths : p \in Deferred => skips'[p] # None /\ skips'[p].retryable
      /\ SkipInv'
      /\ EveryFileAccounted'
    BY <1>1, <1>2, RunLeaves
<1>6. /\ passed' \in [Paths -> 0..DelayCap]
      /\ \A p \in Paths : passed'[p] <= passed[p] + 1 /\ (p \notin Deferred => passed'[p] = 0)
    BY <1>1, <1>2, PutOffTyped
<1>7. TypeOK'
    BY <1>1, <1>3, <1>5, <1>6 DEF TypeOK
<1>8. WaitingInv'
    BY <1>5, <1>6 DEF WaitingInv
<1>9. ChangedInv'
    BY <1>1, <1>3 DEF ChangedInv
<1>10. ASSUME NEW p \in Paths, passed'[p] > 0
       PROVE  2 * passed'[p] + 2 * Cardinality(Ahead(p)') + Cardinality(Able(p)')
                  <= 2 * (N - 1) + changes
    <2>1. p \in Deferred
        BY <1>6, <1>10
    <2>2. Cardinality(Ahead(p)') <= Cardinality(Ahead(p)) - 1
        BY <1>1, <2>1, RefreshServes
    <2>3. Able(p)' = Able(p)
        BY <1>3 DEF Able
    <2>4. 2 * passed[p] + 2 * Cardinality(Ahead(p)) + Cardinality(Able(p)) <= 2 * (N - 1) + changes
        <3>1. passed[p] \in Nat
            BY <1>1, NumbersOfPaths, ChangesAssumption DEF TypeOK, DelayCap
        <3>2. CASE passed[p] = 0
            <4>1. 2 * Cardinality(Ahead(p)) + Cardinality(Able(p)) <= 2 * (N - 1) + changes
                BY <1>1, OpeningAccount
            <4>2. Cardinality(Ahead(p)) \in Nat /\ Cardinality(Able(p)) \in Nat
                BY AccountTyped
            <4>3. QED
                BY <3>2, <4>1, <4>2
        <3>3. CASE passed[p] > 0
            BY <1>1, <3>3 DEF DelayInv
        <3>4. QED
            BY <3>1, <3>2, <3>3
    <2>5. passed[p] \in Nat /\ passed'[p] \in Nat /\ changes \in Nat /\ N \in Nat
        BY <1>1, <1>6, NumbersOfPaths, ChangesAssumption DEF TypeOK, DelayCap
    <2>6. /\ Cardinality(Ahead(p)) \in Nat /\ Cardinality(Able(p)) \in Nat
          /\ Cardinality(Ahead(p)') \in Nat
        <3>1. skips' \in [Paths -> Skip \union {None}] /\ Ahead(p)' \in SUBSET Paths
            BY <1>5 DEF Ahead
        <3>2. QED
            BY <3>1, AccountTyped, FinitePaths
    <2>7. passed'[p] <= passed[p] + 1
        BY <1>6
    <2>8. QED
        BY <2>2, <2>3, <2>4, <2>5, <2>6, <2>7
<1>11. DelayInv'
    BY <1>3, <1>10 DEF DelayInv
<1>12. QED
    BY <1>5, <1>7, <1>8, <1>9, <1>11 DEF RetryInv

LEMMA IndexStep ==
    ASSUME RetryInv, Index
    PROVE  RetryInv'
<1>1. TypeOK /\ SkipInv /\ ChangedInv
    BY DEF RetryInv
<1>2. Run(Eligible, {}, {}) /\ passed' = [p \in Paths |-> 0]
    BY IndexRuns
<1>3. file' = file /\ stamp' = stamp /\ changes' = changes /\ ran' = TRUE
    BY <1>2 DEF Run
<1>4. /\ sources' \in [Paths -> (0..MaxChanges) \union {None}]
      /\ skips' \in [Paths -> Skip \union {None}]
      /\ SkipInv'
      /\ EveryFileAccounted'
    BY <1>1, <1>2, RunLeaves
<1>5. DelayCap \in Nat
    BY NumbersOfPaths, ChangesAssumption DEF DelayCap
<1>6. TypeOK'
    BY <1>1, <1>2, <1>3, <1>4, <1>5 DEF TypeOK
<1>7. WaitingInv' /\ DelayInv'
    BY <1>2 DEF WaitingInv, DelayInv
<1>8. ChangedInv'
    BY <1>1, <1>3 DEF ChangedInv
<1>9. QED
    BY <1>4, <1>6, <1>7, <1>8 DEF RetryInv

LEMMA QuietStep ==
    ASSUME RetryInv, QuietRefresh
    PROVE  RetryInv'
<1>1. UNCHANGED <<file, stamp, changes, sources, skips, passed>> /\ ran' = TRUE
    BY DEF QuietRefresh
<1>2. ASSUME NEW p \in Paths
      PROVE  IF file[p] = "gone" THEN sources[p] = None /\ skips[p] = None
             ELSE (sources[p] = stamp[p]) # (skips[p] # None)
    BY DEF QuietRefresh, Quiet, Eligible, Indexed, Skipped
<1>3. EveryFileAccounted'
    BY <1>1, <1>2 DEF EveryFileAccounted
<1>4. TypeOK' /\ SkipInv' /\ WaitingInv' /\ ChangedInv'
    BY <1>1 DEF RetryInv, TypeOK, SkipInv, WaitingInv, ChangedInv
<1>5. DelayInv'
    BY <1>1 DEF RetryInv, DelayInv, Ahead, Able, Pressing, Behind, RetryOrder
<1>6. QED
    BY <1>3, <1>4, <1>5 DEF RetryInv

LEMMA ChangeStep ==
    ASSUME RetryInv, NEW c \in Paths, Change(c)
    PROVE  RetryInv'
<1>1. /\ TypeOK /\ SkipInv /\ ChangedInv /\ DelayInv /\ WaitingInv
    BY DEF RetryInv
<1>2. PICK f \in Files : file' = [file EXCEPT ![c] = f]
    BY DEF Change
<1>3. /\ changes < MaxChanges /\ changes' = changes + 1 /\ changes \in 0..MaxChanges
      /\ stamp' = [stamp EXCEPT ![c] = changes + 1] /\ ran' = FALSE
      /\ UNCHANGED <<sources, skips, passed>>
    BY <1>1 DEF Change, TypeOK
<1>4. /\ file \in [Paths -> Files] /\ stamp \in [Paths -> 0..MaxChanges]
      /\ passed \in [Paths -> 0..DelayCap]
    BY <1>1 DEF TypeOK
<1>5. changes \in Nat /\ changes' \in 0..MaxChanges /\ changes + 1 \in 0..MaxChanges
    BY <1>3, ChangesAssumption
<1>6. TypeOK'
    BY <1>1, <1>2, <1>3, <1>5 DEF TypeOK
<1>7. SkipInv'
    <2>1. ASSUME NEW p \in Paths, skips[p] # None
          PROVE  /\ sources[p] = None
                 /\ skips[p].retryable /\ file'[p] # "unreadable" => stamp'[p] # 0
        <3>1. CASE p = c
            BY <1>1, <1>3, <1>4, <1>5, <2>1, <3>1 DEF SkipInv
        <3>2. CASE p # c
            BY <1>1, <1>2, <1>3, <1>4, <2>1, <3>2 DEF SkipInv
        <3>3. QED
            BY <3>1, <3>2
    <2>2. QED
        BY <1>3, <2>1 DEF SkipInv
<1>8. EveryFileAccounted' /\ WaitingInv'
    BY <1>1, <1>3 DEF EveryFileAccounted, WaitingInv
<1>9. ChangedInv'
    <2> DEFINE C  == {p \in Paths : stamp[p] # 0}
               Cn == {p \in Paths : stamp'[p] # 0}
    <2>1. IsFiniteSet(C) /\ Cardinality(C) \in Nat /\ Cardinality(C) <= changes
        BY <1>1, FinitePaths DEF ChangedInv
    <2>2. Cn \in SUBSET (C \union {c})
        BY <1>3, <1>4
    <2>3. IsFiniteSet(C \union {c}) /\ Cardinality(C \union {c}) <= Cardinality(C) + 1
        BY <2>1, OneMore, FS_AddElement
    <2>4. Cardinality(C \union {c}) \in Nat /\ Cardinality(Cn) \in Nat
          /\ Cardinality(Cn) <= Cardinality(C \union {c})
        BY <2>2, <2>3, FS_Subset, FS_CardinalityType
    <2>5. Cardinality(Cn) <= changes'
        <3> HIDE DEF C, Cn
        <3>1. QED
            BY <1>3, <1>5, <2>1, <2>3, <2>4
    <2>6. QED
        BY <2>5 DEF ChangedInv
<1>10. ASSUME NEW p \in Paths, passed'[p] > 0
       PROVE  2 * passed'[p] + 2 * Cardinality(Ahead(p)') + Cardinality(Able(p)')
                  <= 2 * (N - 1) + changes'
    <2>1. 2 * passed[p] + 2 * Cardinality(Ahead(p)) + Cardinality(Able(p)) <= 2 * (N - 1) + changes
        BY <1>1, <1>3, <1>10 DEF DelayInv
    <2>2. /\ 2 * Cardinality(Ahead(p)') + Cardinality(Able(p)')
                  <= 2 * Cardinality(Ahead(p)) + Cardinality(Able(p)) + 1
          /\ Cardinality(Ahead(p)') \in Nat /\ Cardinality(Able(p)') \in Nat
        BY <1>1, ChangeCharges
    <2>3. Cardinality(Ahead(p)) \in Nat /\ Cardinality(Able(p)) \in Nat
        BY AccountTyped
    <2>4. passed[p] \in Nat /\ N \in Nat
        BY <1>4, NumbersOfPaths, ChangesAssumption DEF DelayCap
    <2>5. QED
        BY <1>3, <1>5, <2>1, <2>2, <2>3, <2>4
<1>11. DelayInv'
    BY <1>10 DEF DelayInv
<1>12. QED
    BY <1>6, <1>7, <1>8, <1>9, <1>11 DEF RetryInv

LEMMA StutterStep ==
    ASSUME RetryInv, UNCHANGED vars
    PROVE  RetryInv'
<1>1. UNCHANGED <<file, stamp, changes, sources, skips, passed, ran>>
    BY DEF vars
<1>2. TypeOK' /\ SkipInv' /\ WaitingInv' /\ ChangedInv' /\ EveryFileAccounted'
    BY <1>1 DEF RetryInv, TypeOK, SkipInv, WaitingInv, ChangedInv, EveryFileAccounted
<1>3. DelayInv'
    BY <1>1 DEF RetryInv, DelayInv, Ahead, Able, Pressing, Behind, RetryOrder
<1>4. QED
    BY <1>2, <1>3 DEF RetryInv

\* The retry queue keeps its account, in every reachable state.
THEOREM RetryInvariance == Spec => []RetryInv
<1>1. Init => RetryInv
    BY InitRetry
<1>2. RetryInv /\ [Next]_vars => RetryInv'
    BY RefreshStep, IndexStep, QuietStep, ChangeStep, StutterStep DEF Next
<1>3. QED
    BY <1>1, <1>2, PTL DEF Spec

\* Every variable of the retry queue keeps its type.
THEOREM RetryTypeCorrect == Spec => []TypeOK
<1>1. RetryInv => TypeOK
    BY DEF RetryInv
<1>2. QED
    BY <1>1, RetryInvariance, PTL

\* After a run every eligible file is indexed as it is or a recorded skip, never both.
THEOREM AllAccounted == Spec => []EveryFileAccounted
<1>1. RetryInv => EveryFileAccounted
    BY DEF RetryInv
<1>2. QED
    BY <1>1, RetryInvariance, PTL

\* No retry is put off more often than once for each other file and once for every
\* second change.
THEOREM DelayIsBounded == Spec => []BoundedDelay
<1>1. ASSUME RetryInv, NEW p \in Paths
      PROVE  passed[p] <= (N - 1) + changes \div 2
    <2>1. passed[p] \in Nat /\ N \in Nat /\ N >= 1 /\ changes \in Nat
        <3>1. passed[p] \in 0..(N + MaxChanges) /\ changes \in 0..MaxChanges
            BY <1>1 DEF RetryInv, TypeOK, DelayCap
        <3>2. N >= 1 /\ N \in Nat
            BY AccountTyped, NumbersOfPaths
        <3>3. QED
            BY <3>1, <3>2, ChangesAssumption
    <2>2. CASE passed[p] = 0
        BY <2>1, <2>2
    <2>3. CASE passed[p] > 0
        <3>1. 2 * passed[p] + 2 * Cardinality(Ahead(p)) + Cardinality(Able(p)) <= 2 * (N - 1) + changes
            BY <1>1, <2>3 DEF RetryInv, DelayInv
        <3>2. Cardinality(Ahead(p)) \in Nat /\ Cardinality(Able(p)) \in Nat
            BY AccountTyped
        <3>3. 2 * passed[p] <= 2 * (N - 1) + changes
            BY <2>1, <3>1, <3>2
        <3>4. QED
            BY <2>1, <3>3
    <2>4. QED
        BY <2>1, <2>2, <2>3
<1>2. RetryInv => BoundedDelay
    BY <1>1 DEF BoundedDelay
<1>3. QED
    BY <1>2, RetryInvariance, PTL
=============================================================================
