-------------------------- MODULE IndexRefinement --------------------------
(***************************************************************************)
(* The four artifacts together implement the atomic index.                 *)
(***************************************************************************)
EXTENDS IndexPublication

FencedSteps == {"materialize", "markStale"} \union MarkedSteps

\* What a query reads: the text comes from the chunks, the time from the row.
ReaderView ==
    IF graph # "ready" THEN None
    ELSE [p \in Paths |-> IF rows[p] = Absent \/ chunks[p] = Absent THEN Absent
                          ELSE [c |-> chunks[p], t |-> rows[p].t]]

Candidate == IF pc \in FencedSteps THEN fence ELSE None

Atomic == INSTANCE AtomicIndex WITH
    Unavailable <- None, NoCandidate <- None,
    candidate <- Candidate, view <- ReaderView, reading <- session # None

\* Crashes, partial batches, orphaned files and retries are invisible to a
\* query: every step of the writer is a step of the atomic index or none.
ImplementsAtomicIndex == Atomic!Spec
=============================================================================
