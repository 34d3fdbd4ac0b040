------------------------------ MODULE Retrieval ------------------------------
(***************************************************************************)
(* One query of a structured index: the evidence its channels recall, the  *)
(* best-first expansion over resolved relations, and what becomes of an    *)
(* error met in the graph.                                                 *)
(*                                                                         *)
(* The query reads in one transaction, so the graph is fixed.  Damage done *)
(* to the database from outside is part of the initial state: a relation   *)
(* may have lost its target or its source, or hold a confidence that is    *)
(* none.  A score is a product of factors below one and is kept as a sum   *)
(* of costs: the best path has the least key.                              *)
(***************************************************************************)
EXTENDS Integers, FiniteSets, Sequences, SequencesExt

CONSTANTS
    Chunks, Signals,        \* numbered in the order of their rows
    FileOf, ChunkOf,        \* file of a chunk, chunk a signal is attached to
    Modules,                \* the signals that stand for a whole file
    Relations,              \* every relation a graph may hold: see LimitsAssumption
    Graphs,                 \* sets of relations
    SeedCost,               \* cost of each chunk as a seed
    Recalls,                \* what the channels may recall: chunk -> channels
    MaxHops, MaxPopped, MaxExamined, MaxEntries, MaxExpanded

VARIABLES
    status,      \* "ready" or "stale", as the session read it
    graph,       \* active resolved relations
    damage,      \* [edge, kind]: the damaged relation, if any
    testIntent,  \* the query asks for tests
    step,        \* "open", "recall", "seed", "expand", "rank", "close" or "done"
    fault,       \* "none", "early" (found by the end of the expansion) or "late"
    recalled,    \* evidence before the expansion: chunk -> channels
    evidence,    \* evidence that is ranked
    protected,   \* chunks with strong evidence of their own
    frontier, best, entries,       \* states to visit, best key per signal, states made
    popped, examined, truncated, halted,
    expanded,    \* best key per chunk reached
    outcome      \* "none", "recorded", "unrecorded" or "busy"

givenVars == <<status, graph, damage, testIntent>>
workVars == <<frontier, best, entries, popped, examined, truncated, halted, expanded>>
retrievalVars == <<givenVars, workVars, step, fault, recalled, evidence, protected, outcome>>

GraphChannels == {"signal", "plannerSignal", "relation"}
Channels == GraphChannels \union {"plain", "text", "anchor"}

Unreached == 1000000
NoDamage == [edge |-> 0, kind |-> "none"]

ASSUME LimitsAssumption ==
    /\ Chunks \subseteq Nat /\ Signals \subseteq 1..9
    /\ \A r \in Relations : r.id \in 1..40 /\ r.src \in Signals /\ r.dst \in Signals
                            /\ r.cost \in 1..20 /\ r.dir \in {"outgoing", "both", "tests", "weak"}
    /\ MaxHops \in 1..9

\* The order of paths: score, hops, then what is fixed by the last relation.  The
\* least confidence on the path, which breaks ties in the code, is left out.
Key(cost, hops, rank) == cost * 1000 + hops * 100 + rank

Ascending(S) == [i \in 1..Cardinality(S) |->
                    CHOOSE x \in S : Cardinality({y \in S : y <= x}) = i]
ByKey(S) == [i \in 1..Cardinality(S) |->
                CHOOSE x \in S : Cardinality({y \in S : y.key <= x.key}) = i]

UpTo(seq, n) == IF Len(seq) <= n THEN seq ELSE SubSeq(seq, 1, n)

Neighbour(x) == IF x.out THEN x.rel.dst ELSE x.rel.src
Damaged(r, kind) == damage = [edge |-> r.id, kind |-> kind]

\* Canonical kinds of a relation and the direction it is followed in; weak ones are not.
Followed(x) ==
    \/ x.rel.dir = "both"
    \/ x.rel.dir = "outgoing" /\ x.out
    \/ x.rel.dir = "tests" /\ testIntent

-----------------------------------------------------------------------------
(* Recall *)

\* validate_ready_targets looks at every resolved relation before anything else.
Open ==
    /\ step = "open"
    /\ fault' = IF status = "ready" /\ damage.kind = "dangling" THEN "early" ELSE "none"
    /\ step' = "recall"
    /\ UNCHANGED <<givenVars, workVars, recalled, evidence, protected, outcome>>

Trusted == status = "ready" /\ fault = "none"

\* Signals are recalled from a trusted graph only.
Readable(channels) == IF Trusted THEN channels ELSE channels \ GraphChannels

\* Chunks of the files that hold a literal match.  For a document or a configuration
\* file the code also takes its directory; it skips templates and generated files, and has a limit.
Anchors(hits) ==
    LET text == {c \in Chunks : "text" \in hits[c]}
    IN  {c \in Chunks \ text : \E t \in text : FileOf[t] = FileOf[c]}

\* Any chunk may hold enough words of the query to be protected.
Recall ==
    /\ step = "recall"
    /\ \E hits \in Recalls :
          recalled' = [c \in Chunks |-> Readable(hits[c])
                                        \union IF c \in Anchors(hits) THEN {"anchor"} ELSE {}]
    /\ evidence' = recalled'
    /\ protected' \in SUBSET {c \in Chunks : recalled'[c] # {}}
    /\ step' = "seed"
    /\ UNCHANGED <<givenVars, workVars, fault, outcome>>

-----------------------------------------------------------------------------
(* Expansion *)

\* The first of these channels makes a chunk a seed and gives its score.
Priority(c) ==
    IF "signal" \in recalled[c] THEN 1
    ELSE IF "text" \in recalled[c] THEN 2
    ELSE IF "anchor" \in recalled[c] THEN 3
    ELSE IF "plannerSignal" \in recalled[c] THEN 4 ELSE 0

Seeds == {c \in Chunks : Priority(c) # 0}
CostAsSeed(c) == SeedCost[c] + (IF Priority(c) = 4 THEN 1 ELSE 0)
SeedRank(c) == Priority(c) * 1000 + CostAsSeed(c) * 20 + c

\* A seed brings the signals of its chunk and the module of its file.
Brings(c, s) == ChunkOf[s] = c \/ (s \in Modules /\ FileOf[ChunkOf[s]] = FileOf[c])

\* A signal that several seeds bring has the score of the first of them.
InitialSignals == {s \in Signals : \E c \in Seeds : Brings(c, s)}
SeedOf(s) == CHOOSE c \in Seeds : Brings(c, s) /\ \A d \in Seeds : Brings(d, s) => SeedRank(c) <= SeedRank(d)
InitialState(s) ==
    [signal |-> s, cost |-> CostAsSeed(SeedOf(s)), hops |-> 0,
     key |-> Key(CostAsSeed(SeedOf(s)), 0, s), root |-> ChunkOf[s]]

\* Mutant: a signal keeps the first path that reached it.
PushFirst(work, state) ==
    IF work.refused \/ work.best[state.signal] # Unreached THEN work
    ELSE IF work.entries >= MaxEntries THEN [work EXCEPT !.refused = TRUE, !.truncated = TRUE]
    ELSE [work EXCEPT !.best[state.signal] = state.key,
                      !.frontier = @ \union {state}, !.entries = @ + 1]

\* Mutant: the limit is looked at after the entry.
PushPastLimit(work, state) ==
    IF work.refused \/ work.best[state.signal] <= state.key THEN work
    ELSE IF work.entries > MaxEntries THEN [work EXCEPT !.refused = TRUE, !.truncated = TRUE]
    ELSE [work EXCEPT !.best[state.signal] = state.key,
                      !.frontier = @ \union {state}, !.entries = @ + 1]

\* Only a strictly better path puts a signal on the frontier again.
Push(work, state) ==
    IF work.refused \/ work.best[state.signal] <= state.key THEN work
    ELSE IF work.entries >= MaxEntries THEN [work EXCEPT !.refused = TRUE, !.truncated = TRUE]
    ELSE [work EXCEPT !.best[state.signal] = state.key,
                      !.frontier = @ \union {state}, !.entries = @ + 1]

Nothing == [c \in Chunks |-> Unreached]
Work == [frontier |-> frontier, best |-> best, entries |-> entries, examined |-> examined,
         truncated |-> truncated, halted |-> halted, expanded |-> expanded, refused |-> FALSE]

Becomes(work) ==
    /\ frontier' = work.frontier /\ best' = work.best /\ entries' = work.entries
    /\ examined' = work.examined /\ truncated' = work.truncated /\ halted' = work.halted
    /\ expanded' = work.expanded

\* A frontier too small for the seeds expands nothing.
Seed ==
    /\ step = "seed"
    /\ LET order == Ascending(InitialSignals)
           work == IF Trusted
                   THEN FoldLeft(Push, Work, [i \in DOMAIN order |-> InitialState(order[i])])
                   ELSE Work
       IN  Becomes(IF work.refused THEN [work EXCEPT !.frontier = {}] ELSE work)
    /\ step' = "expand"
    /\ UNCHANGED <<givenVars, popped, fault, recalled, evidence, protected, outcome>>

\* The relations at a signal; for the order, a confidence that cannot be read is zero.
Edge(state, r, out) ==
    [rel |-> r, out |-> out, cost |-> state.cost + r.cost,
     key |-> Key(IF Damaged(r, "bad") THEN 900 ELSE state.cost + r.cost,
                 state.hops + 1, 10 + 2 * r.id + (IF out THEN 0 ELSE 1))]
EdgesAt(state) ==
    {Edge(state, r, TRUE) : r \in {q \in graph : q.src = state.signal}}
        \union {Edge(state, r, FALSE) : r \in {q \in graph : q.dst = state.signal}}

\* The neighbour or the confidence of an edge is gone.
Broken(x) == \/ Damaged(x.rel, "bad")
             \/ Damaged(x.rel, "orphan") /\ ~x.out
             \/ Damaged(x.rel, "dangling") /\ x.out

\* A reached chunk becomes a candidate unless it is protected or the root of the path.
Expands(work, state, x) ==
    LET c == ChunkOf[Neighbour(x)]
        adds == c \notin protected /\ c # state.root /\ x.key < work.expanded[c]
        found == {d \in Chunks : work.expanded[d] # Unreached} \union {c}
    IN  IF ~adds THEN work
        ELSE [work EXCEPT !.expanded[c] = x.key,
                          !.halted = @ \/ Cardinality(found) >= MaxExpanded,
                          !.truncated = @ \/ Cardinality(found) >= MaxExpanded]

\* One followed edge: the candidate, then the signals of its chunk, which share its key.
\* The last hop visits nothing further, and does not look whether a limit was reached.
Reach(item, x) ==
    LET state == item.state
        order == Ascending({s \in Signals : ChunkOf[s] = ChunkOf[Neighbour(x)]})
        onward == [i \in DOMAIN order |->
                      [signal |-> order[i], cost |-> x.cost, hops |-> state.hops + 1,
                       key |-> x.key, root |-> state.root]]
        added == Expands(item.work, state, x)
        pushed == FoldLeft(Push, added, onward)
        ends == pushed.halted \/ pushed.refused
    IN  IF item.ended THEN item
        ELSE IF state.hops + 1 >= MaxHops THEN [item EXCEPT !.work = added]
        ELSE [item EXCEPT !.work = [pushed EXCEPT !.halted = ends], !.ended = ends]

\* A state whose signal has a better path by now, or which is at the last hop, is dropped.
Visit(state) ==
    LET order == ByKey(EdgesAt(state))
        seen == UpTo(order, MaxExamined - examined)
        cut == Len(seen) < Len(order)
        start == [Work EXCEPT !.frontier = @ \ {state}, !.examined = @ + Len(seen),
                              !.truncated = @ \/ cut, !.halted = @ \/ cut]
        walked == FoldLeft(Reach, [state |-> state, work |-> start, ended |-> FALSE],
                           SelectSeq(seen, Followed)).work
    IN  IF best[state.signal] # state.key \/ state.hops >= MaxHops
        THEN Becomes([Work EXCEPT !.frontier = @ \ {state}]) /\ UNCHANGED fault
        ELSE IF \E i \in DOMAIN seen : Broken(seen[i])
        THEN Becomes([start EXCEPT !.frontier = {}, !.expanded = Nothing]) /\ fault' = "early"
        ELSE Becomes(walked) /\ UNCHANGED fault

Cheapest == {state \in frontier : \A other \in frontier : state.key <= other.key}

Pop ==
    /\ step = "expand" /\ ~halted /\ popped < MaxPopped
    /\ \E state \in Cheapest : Visit(state)
    /\ popped' = popped + 1
    /\ UNCHANGED <<givenVars, step, recalled, evidence, protected, outcome>>

\* The popped limit is looked at with something left to pop.
PopLimit ==
    /\ step = "expand" /\ ~halted /\ frontier # {} /\ popped >= MaxPopped
    /\ halted' = TRUE /\ truncated' = TRUE
    /\ UNCHANGED <<givenVars, step, frontier, best, entries, popped, examined, expanded, fault,
                   recalled, evidence, protected, outcome>>

\* After an error met so far the recall of signals is taken back as well.
Merge ==
    /\ step = "expand" /\ (frontier = {} \/ halted)
    /\ evidence' = [c \in Chunks |->
           IF fault # "none" THEN recalled[c] \ GraphChannels
           ELSE recalled[c] \union (IF expanded[c] # Unreached THEN {"relation"} ELSE {})]
    /\ step' = "rank"
    /\ UNCHANGED <<givenVars, workVars, fault, recalled, protected, outcome>>

-----------------------------------------------------------------------------
(* Results *)

EdgesOfChunk(c) ==
    UNION {EdgesAt([signal |-> s, cost |-> 0, hops |-> 0]) : s \in {t \in Signals : ChunkOf[t] = c}}

\* The summary looks for a relation that supports a result and may meet a damaged one
\* first: the evidence that was ranked stays.
Summarize ==
    /\ step = "rank"
    /\ LET shown == {c \in Chunks : evidence[c] # {}}
           met == {x \in UNION {EdgesOfChunk(c) : c \in shown} : Broken(x)}
       IN  fault' \in {fault} \union (IF Trusted /\ met # {} THEN {"late"} ELSE {})
    /\ step' = "close"
    /\ UNCHANGED <<givenVars, workVars, recalled, evidence, protected, outcome>>

\* The session is closed; then a transaction of its own marks the graph stale.  Its
\* errors are logged, but a database busy with another transaction ends the query.
Close ==
    /\ step = "close"
    /\ outcome' \in IF fault = "none" THEN {"none"} ELSE {"recorded", "unrecorded", "busy"}
    /\ step' = "done"
    /\ UNCHANGED <<givenVars, workVars, fault, recalled, evidence, protected>>

Init ==
    /\ status \in {"ready", "stale"}
    /\ graph \in Graphs
    /\ damage \in {NoDamage}
           \union {[edge |-> r.id, kind |-> k] : r \in graph, k \in {"dangling", "orphan", "bad"}}
    /\ testIntent \in BOOLEAN
    /\ step = "open" /\ fault = "none"
    /\ recalled = [c \in Chunks |-> {}] /\ evidence = recalled /\ protected = {}
    /\ frontier = {} /\ best = [s \in Signals |-> Unreached] /\ entries = 0
    /\ popped = 0 /\ examined = 0 /\ truncated = FALSE /\ halted = FALSE
    /\ expanded = Nothing
    /\ outcome = "none"

Done == step = "done" /\ UNCHANGED retrievalVars

Next == Open \/ Recall \/ Seed \/ Pop \/ PopLimit \/ Merge \/ Summarize \/ Close \/ Done

Spec == Init /\ [][Next]_retrievalVars

-----------------------------------------------------------------------------
(* Properties *)

\* Every variable keeps its range, and the work its limits.
TypeOK ==
    /\ status \in {"ready", "stale"} /\ graph \subseteq Relations
    /\ step \in {"open", "recall", "seed", "expand", "rank", "close", "done"}
    /\ fault \in {"none", "early", "late"}
    /\ recalled \in [Chunks -> SUBSET Channels] /\ evidence \in [Chunks -> SUBSET Channels]
    /\ protected \subseteq Chunks
    /\ \A state \in frontier : state.signal \in Signals /\ state.hops \in 0..(MaxHops - 1)
    /\ popped \in 0..MaxPopped /\ examined \in 0..MaxExamined /\ entries \in 0..MaxEntries
    /\ outcome \in {"none", "recorded", "unrecorded", "busy"}
    /\ halted => truncated

\* The paths the expansion is to find, without a queue: round by round, each signal has
\* the best of its seed and of the edges from the best paths of the round before.
Better(S) == CHOOSE x \in S : \A y \in S : x.key <= y.key
Lost == [signal |-> 0, cost |-> 0, hops |-> MaxHops, key |-> Unreached, root |-> 0]

Onward(state, s) ==
    {[signal |-> s, cost |-> x.cost, hops |-> state.hops + 1, key |-> x.key, root |-> state.root] :
        x \in {y \in EdgesAt(state) : Followed(y) /\ ChunkOf[Neighbour(y)] = ChunkOf[s]}}

BestPaths[n \in 0..Cardinality(Signals)] ==
    LET before == BestPaths[n - 1]
        further == IF n = 0 THEN {} ELSE {before[t] : t \in {u \in Signals : before[u].hops + 1 < MaxHops}}
    IN  [s \in Signals |->
            Better({Lost}
                   \union (IF s \in InitialSignals THEN {InitialState(s)} ELSE {})
                   \union UNION {Onward(state, s) : state \in further})]

\* The best end of a path on each chunk.
BestEnds ==
    LET paths == BestPaths[Cardinality(Signals)]
        ends(c) == UNION {{x.key : x \in {y \in EdgesAt(paths[s]) : Followed(y) /\ ChunkOf[Neighbour(y)] = c}} :
                             s \in {t \in Signals : paths[t].hops < MaxHops /\ paths[t].root # c}}
    IN  [c \in Chunks |-> IF c \in protected \/ ends(c) = {} THEN Unreached
                          ELSE CHOOSE k \in ends(c) : \A l \in ends(c) : k <= l]

\* "Arrival order cannot change reasons": the queue finds for every chunk the best path, in
\* whatever order equal ones are visited; when a limit cuts it short, what it has found are
\* chunks of the full answer.  Graph evidence stays apart: it comes from a ready graph in
\* which no error was met, and without it the other evidence is left as it was.
EvidenceIsBest ==
    step = "rank" =>
        /\ \A c \in Chunks : evidence[c] \ GraphChannels = recalled[c] \ GraphChannels
        /\ IF ~Trusted THEN \A c \in Chunks : evidence[c] \intersect GraphChannels = {}
           ELSE LET ends == BestEnds
                IN  IF truncated THEN \A c \in Chunks : expanded[c] # Unreached => ends[c] <= expanded[c]
                                 ELSE expanded = ends
=============================================================================
