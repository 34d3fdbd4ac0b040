----------------------------- MODULE RetrySkips -----------------------------
(***************************************************************************)
(* Coverage under read failures: which source files a quick refresh reads, *)
(* and in which order it retries the files it could not read.              *)
(*                                                                         *)
(* A file that cannot be read leaves the index and becomes a scan skip.  A *)
(* transient ("retryable") skip is tried again by later refreshes, at most *)
(* RetryLimit of them per refresh, although its metadata does not change.  *)
(*                                                                         *)
(* A run is one step here: the workspace is fixed between the inventory    *)
(* fences, and what happens between them is modelled in IndexPublication.  *)
(***************************************************************************)
EXTENDS Naturals, FiniteSets

CONSTANTS
    Paths,       \* source paths; their numeric order stands for the path order
    RetryLimit,  \* _QUICK_RETRY_LIMIT, 32 in the code
    None,        \* no row
    MaxChanges   \* bound: changes of the workspace

ASSUME PathsAssumption == Paths \subseteq Nat /\ IsFiniteSet(Paths)
ASSUME LimitAssumption == RetryLimit \in Nat \ {0}
ASSUME ChangesAssumption == MaxChanges \in Nat
ASSUME NoneAssumption == None \notin Nat

VARIABLES
    file,     \* what reading each path gives: "text", "binary", "unreadable" or "gone"
    stamp,    \* metadata identity of each path
    changes,
    sources,  \* stamp of each indexed source row, or None
    skips,    \* scan skip row of each path, or None
    passed,   \* history: refreshes in a row that put a path's retry off
    ran       \* history: the last step was a run

vars == <<file, stamp, changes, sources, skips, passed, ran>>

Files == {"text", "binary", "unreadable", "gone"}
N     == Cardinality(Paths)

\* Observation generations are only compared with each other, so each column of
\* the skip rows keeps ranks; a retry generation of 0 is NULL.
Skip == [retryable : BOOLEAN, stamp : 0..MaxChanges, first : 1..N, last : 0..N]
ASSUME SkipAssumption == None \notin Skip

Eligible  == {p \in Paths : file[p] # "gone"}
Skipped   == {p \in Paths : skips[p] # None}
Indexed   == {p \in Paths : sources[p] # None}

-----------------------------------------------------------------------------
(* The retry queue *)

RetryCandidates == {p \in Paths : /\ file[p] # "gone"
                                  /\ skips[p] # None
                                  /\ skips[p].retryable}
\* Mutant: the queue is in path order.
PathOrder(p, q) == p < q

\* _retryable_skip_order: never retried first, then the oldest retry, then the
\* oldest skip, then the path.
RetryOrder(p, q) ==
    LET a == skips[p]  b == skips[q]
    IN  \/ a.last < b.last
        \/ a.last = b.last /\ a.first < b.first
        \/ a.last = b.last /\ a.first = b.first /\ p < q

\* The candidates that do not come among the first RetryLimit.
Deferred ==
    LET candidates == RetryCandidates
    IN  {p \in candidates :
            Cardinality({q \in candidates : RetryOrder(q, p)}) >= RetryLimit}

-----------------------------------------------------------------------------
(* Runs *)

\* Mutant: ranks begin at zero, which means "never retried".
RankBelow(S, v) == Cardinality({u \in S : u < v})

Rank(S, v) == Cardinality({u \in S : u <= v})

\* The skip rows of a run: `failed` was read and failed, `kept` was put off, and
\* `attempted` are retries made by this run.
SkipRows(failed, kept, attempted) ==
    LET rows     == failed \union kept
        First(p) == IF skips[p] # None THEN skips[p].first ELSE N + 1
        Last(p)  == IF p \in attempted THEN N + 1
                    ELSE IF skips[p] # None THEN skips[p].last ELSE 0
        firsts   == {First(p) : p \in rows}
        lasts    == {Last(p) : p \in rows} \ {0}
    IN  [p \in Paths |->
            IF p \notin rows THEN None
            ELSE [retryable |-> p \in kept \/ file[p] = "unreadable", stamp |-> stamp[p],
                  first |-> Rank(firsts, First(p)), last |-> Rank(lasts, Last(p))]]

\* Rows are rewritten from what this run observed.
SourceRows(read) == [p \in Paths |->
    IF p \in read THEN (IF file[p] = "text" THEN stamp[p] ELSE None)
    ELSE IF file[p] = "gone" THEN None ELSE sources[p]]

Failing(S) == {p \in S : file[p] # "text"}

\* A refresh of a ready index is quiet when the eligible paths are exactly the
\* indexed ones, untouched, and no skip is recorded.
Quiet == /\ Eligible = Indexed
         /\ \A p \in Eligible : sources[p] = stamp[p]
         /\ Skipped = {}

QuietRefresh ==
    /\ Quiet
    /\ ran' = TRUE
    /\ UNCHANGED <<file, stamp, changes, sources, skips, passed>>

\* Touched sources, eligible paths that are neither indexed nor put off (a stable
\* skip among them), and the selected retries.
DirectPaths(deferred) ==
    {p \in Paths : /\ file[p] # "gone"
                   /\ p \notin deferred
                   /\ sources[p] # stamp[p]}

\* The delay counter saturates beyond every delay that can occur.
DelayCap == N + MaxChanges
PutOff(put) == [p \in Paths |->
    IF p \notin put THEN 0 ELSE IF passed[p] < DelayCap THEN passed[p] + 1 ELSE DelayCap]
\* Mutant: the retries put off are not written back.
RefreshForgets ==
    /\ ~Quiet
    /\ LET put == Deferred  direct == DirectPaths(put)
       IN  /\ ran' = TRUE
           /\ sources' = SourceRows(direct)
           /\ skips' = SkipRows(Failing(direct), {}, direct \intersect RetryCandidates)
           /\ passed' = PutOff(put)
    /\ UNCHANGED <<file, stamp, changes>>

Refresh ==
    /\ ~Quiet
    /\ LET put == Deferred  direct == DirectPaths(put)
       IN  /\ ran' = TRUE
           /\ sources' = SourceRows(direct)
           /\ skips' = SkipRows(Failing(direct), put, direct \intersect RetryCandidates)
           /\ passed' = PutOff(put)
    /\ UNCHANGED <<file, stamp, changes>>

\* `cst index` reads every eligible file, and leaves the retry generations alone.
Index ==
    /\ ran' = TRUE
    /\ sources' = SourceRows(Eligible)
    /\ skips' = SkipRows(Failing(Eligible), {}, {})
    /\ passed' = [p \in Paths |-> 0]
    /\ UNCHANGED <<file, stamp, changes>>

\* The user edits, removes or restores a file, or its permissions change: every
\* such change moves its metadata.
Change(p) ==
    /\ changes < MaxChanges
    /\ changes' = changes + 1
    /\ \E f \in Files :
        /\ ~(f = "gone" /\ file[p] = "gone")
        /\ file' = [file EXCEPT ![p] = f]
    /\ stamp' = [stamp EXCEPT ![p] = changes + 1]
    /\ ran' = FALSE
    /\ UNCHANGED <<sources, skips, passed>>

\* After a first index.  (Retryable skips of an `index` run have no metadata in the
\* code; nothing reads it.)  Between runs the index is ready.
Init ==
    /\ file \in [Paths -> Files]
    /\ stamp = [p \in Paths |-> 0]
    /\ changes = 0
    /\ sources = [p \in Paths |-> IF file[p] = "text" THEN 0 ELSE None]
    /\ skips = [p \in Paths |->
           IF file[p] \in {"text", "gone"} THEN None
           ELSE [retryable |-> file[p] = "unreadable", stamp |-> 0, first |-> 1, last |-> 0]]
    /\ ran = TRUE
    /\ passed = [p \in Paths |-> 0]

Next == QuietRefresh \/ Refresh \/ Index \/ \E p \in Paths : Change(p)

Spec == Init /\ [][Next]_vars

\* Somebody keeps asking for a refresh.
FairSpec == Spec /\ WF_vars(Refresh)

-----------------------------------------------------------------------------
(* Properties *)

\* Every variable keeps its range.
TypeOK ==
    /\ file \in [Paths -> Files]
    /\ stamp \in [Paths -> 0..MaxChanges] /\ changes \in 0..MaxChanges
    /\ sources \in [Paths -> (0..MaxChanges) \union {None}]
    /\ skips \in [Paths -> Skip \union {None}]
    /\ ran \in BOOLEAN
    /\ passed \in [Paths -> 0..DelayCap]

\* A run accounts for every eligible file: it is indexed as it is now, or it is a
\* recorded skip, never both and never neither.  A retry that was put off is
\* still owed afterwards.
EveryFileAccounted ==
    ran => \A p \in Paths :
        IF file[p] = "gone" THEN sources[p] = None /\ skips[p] = None
        ELSE (sources[p] = stamp[p]) # (skips[p] # None)

\* No retry is put off without end: at most once for each other file, and once
\* more for each file that was repaired and broke again meanwhile (two changes),
\* because a failure never retried goes before every older one.
BoundedDelay == \A p \in Paths : passed[p] <= (N - 1) + changes \div 2

\* When the workspace stops changing, refreshes alone bring the index to exactly
\* the readable text files, however many unreadable ones stand before them.
EventuallyCovered ==
    <>[](\A p \in Paths : sources[p] = IF file[p] = "text" THEN stamp[p] ELSE None)
=============================================================================
