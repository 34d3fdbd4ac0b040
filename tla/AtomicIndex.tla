---------------------------- MODULE AtomicIndex ----------------------------
(***************************************************************************)
(* What the index promises to a query, whatever its artifacts are.         *)
(*                                                                         *)
(* A query sees either no graph-ready index or one whole snapshot, and that *)
(* snapshot is the workspace exactly as it stood at one moment: the moment  *)
(* the writer that published it closed its fence.  The snapshot is never    *)
(* withdrawn or replaced under an open read.                                *)
(***************************************************************************)
CONSTANTS
    Unavailable,   \* there is no ready snapshot
    NoCandidate    \* no writer has fixed the workspace

VARIABLES
    ws,            \* the workspace
    candidate,     \* the workspace a writer has fixed
    view,          \* the snapshot a query would read
    reading        \* a read is open

vars == <<ws, candidate, view, reading>>

Change ==
    /\ ws' # ws
    /\ UNCHANGED <<candidate, view, reading>>

Capture ==
    /\ candidate = NoCandidate
    /\ candidate' = ws
    /\ UNCHANGED <<ws, view, reading>>

Discard ==
    /\ candidate' = NoCandidate
    /\ UNCHANGED <<ws, view, reading>>

\* A writer that has fixed the workspace takes the old snapshot away ...
Withdraw ==
    /\ candidate # NoCandidate
    /\ ~reading
    /\ view' = Unavailable
    /\ UNCHANGED <<ws, candidate, reading>>

\* ... and puts the one it fixed in its place.
Publish ==
    /\ candidate # NoCandidate
    /\ view = Unavailable
    /\ view' = candidate
    /\ candidate' = NoCandidate
    /\ UNCHANGED <<ws, reading>>

BeginRead ==
    /\ view # Unavailable
    /\ reading' = TRUE
    /\ UNCHANGED <<ws, candidate, view>>

EndRead ==
    /\ reading' = FALSE
    /\ UNCHANGED <<ws, candidate, view>>

Init ==
    /\ candidate = NoCandidate
    /\ view = Unavailable
    /\ reading = FALSE

Next == Change \/ Capture \/ Discard \/ Withdraw \/ Publish \/ BeginRead \/ EndRead

Spec == Init /\ [][Next]_vars
=============================================================================
