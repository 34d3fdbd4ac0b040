------------------------------ MODULE GraphStore ------------------------------
(***************************************************************************)
(* The code graph in SQLite: signals, relations and tombstones.            *)
(*                                                                         *)
(* A run rewrites the chunks, signals and relations of some files, deletes *)
(* those of vanished ones, and then derives everything that crosses files  *)
(* again: it resolves every producer relation against the live signals,    *)
(* advances the producer generation, regenerates the test associations     *)
(* from the resolved imports, resolves those, and commits.  Each of these  *)
(* steps is a transaction of its own, and the process may die between any  *)
(* two.  Rows are never removed but marked dead; a quick refresh purges    *)
(* some of the dead ones inside its ready commit.                          *)
(*                                                                         *)
(* The observation, vector and manifest sides of a run are in              *)
(* IndexPublication; here a run starts from the snapshot it has read.      *)
(* There is one project unit, and one import specifier, whose candidate    *)
(* paths are Candidates; a content says whether it imports it, declares    *)
(* the imported symbol, or refers to a type by its name.                   *)
(***************************************************************************)
EXTENDS Naturals, FiniteSets, FiniteSetsExt

CONSTANTS
    Paths,            \* naturals, in the order of the file names
    Texts,            \* [Paths -> the contents a file takes]
    Blank,            \* the content without chunks
    Importers,        \* contents that import the symbol from the specifier
    Users,            \* contents that refer to the type by name
    Declarers,        \* contents that declare symbol and type
    Candidates,       \* paths the specifier may stand for
    TestPaths,        \* test files
    Conventions,      \* the production candidates of every test name
    MaxTargets,       \* MAX_TEST_TARGETS_PER_FILE
    BatchSize,        \* files of one write transaction
    MinTombstones,    \* dead rows a table always tolerates
    PurgeLimit,       \* dead rows one commit may purge from a table
    MaxRuns,          \* bound: runs started
    MaxDeaths,        \* bound: deaths of the process
    Absent,           \* no file at a path
    NoSignal          \* no target

VARIABLES
    rows,             \* source_files: content of the last write, or Absent
    chunks,           \* live and dead rows of the chunk table
    signals,          \* live and dead code signals
    rels,             \* live and dead code relations
    graph,            \* "ready" or "stale"
    full,             \* full_reindex_required
    prodGen,          \* producer_resolution_generation
    assocGen,         \* the producer generation the associations were made from
    pc,               \* the writer's next step
    run,              \* what the run read and prepared
    runs, deaths      \* counters of the bounds

dbVars == <<rows, chunks, signals, rels, graph, full, prodGen, assocGen>>
vars   == <<rows, chunks, signals, rels, graph, full, prodGen, assocGen, pc, run, runs, deaths>>

Contents  == UNION {Texts[p] : p \in Paths}

ASSUME PathsAssumption == Paths \subseteq Nat /\ IsFiniteSet(Paths)
ASSUME TextsAssumption ==
    /\ Absent \notin Contents
    /\ {Absent, Blank} \intersect (Importers \union Users \union Declarers) = {}
ASSUME LimitsAssumption == MaxTargets \in Nat \ {0} /\ MaxRuns \in Nat
ASSUME SignalAssumption ==
    NoSignal \notin [path : Paths, text : Contents, kind : {"module", "declaration"}]

Snapshots == {s \in [Paths -> Contents \union {Absent}] :
                  \A p \in Paths : s[p] \in Texts[p] \union {Absent}}
Present(s)  == {p \in Paths : s[p] # Absent}
NonBlank(s) == {p \in Paths : s[p] \notin {Absent, Blank}}

-----------------------------------------------------------------------------
(* Rows and their identifiers *)

\* Identifiers are hashes over path and line ranges: another content of a file
\* has other chunks and signals, an old content has its old ones back.
ChunkId(p, c)      == [path |-> p, text |-> c]
Signal(p, c, kind) == [path |-> p, text |-> c, kind |-> kind]
ChunkOf(s)         == ChunkId(s.path, s.text)

Emitted(p, c) ==
    IF c = Blank THEN {}
    ELSE {Signal(p, c, "module")}
         \union (IF c \in Declarers THEN {Signal(p, c, "declaration")} ELSE {})

Relation(src, kind, tkind, name, state) ==
    [src |-> src, kind |-> kind, tkind |-> tkind, name |-> name, state |-> state,
     res |-> "unresolved", target |-> NoSignal]

\* Mutant: the id leaves out the kind of the target.
IdWithoutTarget(r) == <<r.src, r.kind, r.name>>

\* The relation id: every field but the selector's state and the resolution.
IdOf(r) == <<r.src, r.kind, r.tkind, r.name>>

\* python_module_selector: the candidates that are active paths.
Selector(active) ==
    LET found == Candidates \intersect active
    IN  [state |-> IF found = {} THEN "external"
                   ELSE IF Cardinality(found) = 1 THEN "exact" ELSE "candidates",
         first |-> IF found = {} THEN 0 ELSE Min(found)]

\* The symbol is a relation of its own only when the module is exact.
EmittedRelations(p, c, active) ==
    LET src == Signal(p, c, "module")
        sel == Selector(active)
    IN  (IF c \in Importers
         THEN {Relation(src, "imports", "module", sel.first, sel.state)}
              \union (IF sel.state = "exact"
                      THEN {Relation(src, "imports", "declaration", sel.first, "exact")}
                      ELSE {})
         ELSE {})
        \union (IF c \in Users THEN {Relation(src, "uses_type", "type", 0, "name")} ELSE {})

\* Replaced rows are marked dead; an upsert brings a dead row back.
Replaced(t, gone, new) ==
    [live |-> (t.live \ gone) \union new,
     dead |-> (t.dead \union gone) \ new]

\* An upsert of a relation overwrites the row with its id, whatever is in it.
ReplacedRelations(t, gone, new) ==
    LET ids == {IdOf(r) : r \in new}
    IN  [live |-> {r \in t.live \ gone : IdOf(r) \notin ids} \union new,
         dead |-> {r \in t.dead \union gone : IdOf(r) \notin ids}]

-----------------------------------------------------------------------------
(* Resolution of relations against the live signals *)

\* The row keeps everything but its resolution.
Updated(r, res, target) ==
    [src |-> r.src, kind |-> r.kind, tkind |-> r.tkind, name |-> r.name, state |-> r.state,
     res |-> res, target |-> target]

Target(r, matches, resolved) ==
    IF matches = {} THEN Updated(r, "unresolved", NoSignal)
    ELSE IF Cardinality(matches) > 1 THEN Updated(r, "ambiguous", NoSignal)
    ELSE Updated(r, resolved, CHOOSE s \in matches : TRUE)

LiveAt(p, kind) == {s \in signals.live : s.path = p /\ s.kind = kind}

\* Several candidate paths are ambiguous even if only one of them has a module.
ResolveModule(r) ==
    CASE r.state = "external"   -> Updated(r, "external", NoSignal)
      [] r.state = "candidates" -> Updated(r, "ambiguous", NoSignal)
      [] r.state = "exact"      -> Target(r, LiveAt(r.name, "module"), "resolved_exact")

\* A symbol needs the exact module relation of the same source to be resolved
\* to the same file.
ResolveDeclaration(r, modules) ==
    LET bound == \E m \in modules :
                     /\ m.src = r.src
                     /\ m.name = r.name
                     /\ m.res = "resolved_exact"
                     /\ m.target.path = r.name
    IN  Target(r, IF bound THEN LiveAt(r.name, "declaration") ELSE {}, "resolved_exact")

ResolveName(r) ==
    Target(r, {s \in signals.live : s.kind = "declaration"}, "resolved_unique")

ModuleRelations(rs) == {r \in rs : r.tkind = "module"}

\* Mutant: symbols are looked up before the modules of the same pass are.
ResolvedUnordered(rs) ==
    {ResolveModule(r) : r \in ModuleRelations(rs)}
    \union {ResolveDeclaration(r, ModuleRelations(rs)) : r \in {x \in rs : x.tkind = "declaration"}}
    \union {ResolveName(r) : r \in {x \in rs : x.tkind = "type"}}

\* Relations of a source are visited by target kind, modules before symbols.
Resolved(rs) ==
    LET modules == {ResolveModule(r) : r \in ModuleRelations(rs)}
    IN  modules
        \union {ResolveDeclaration(r, modules) : r \in {x \in rs : x.tkind = "declaration"}}
        \union {ResolveName(r) : r \in {x \in rs : x.tkind = "type"}}

-----------------------------------------------------------------------------
(* Test associations *)

\* Both evidences lead to modules of production files.
Legal(p) == rows[p] # Absent /\ p \notin TestPaths

UniqueModules == {s \in signals.live :
                     s.kind = "module" /\ Cardinality(LiveAt(s.path, "module")) = 1}

ImportEvidence(src) ==
    {r.target.path : r \in {x \in rels.live : /\ x.kind = "imports"
                                              /\ x.src = src
                                              /\ x.target # NoSignal}}
    \intersect {s.path : s \in UniqueModules}

ConventionEvidence ==
    LET found == {s.path : s \in UniqueModules} \intersect {p \in Conventions : Legal(p)}
    IN  IF Cardinality(found) = 1 THEN found ELSE {}

\* The strongest targets first, and at most MaxTargets.
TargetsOf(src) ==
    LET byImport == {p \in ImportEvidence(src) : Legal(p)}
        byName   == ConventionEvidence \ byImport
        all      == byImport \union byName
        before(q, p) == IF q \in byImport THEN p \in byImport => q < p
                        ELSE p \in byName /\ q < p
    IN  {p \in all : Cardinality({q \in all : before(q, p)}) < MaxTargets}

Associations ==
    UNION {{Relation(s, "tests", "module", p, "exact") : p \in TargetsOf(s)} :
           s \in {x \in UniqueModules : x.path \in TestPaths}}

-----------------------------------------------------------------------------
(* A run: preparation *)

Changed(target)  == {p \in Present(target) : rows[p] # target[p]}
Vanished(target) == Present(rows) \ Present(target)

\* Mutant: a new or vanished path does not re-read the files that import.
NoSources(target) == {}

\* When the set of paths changed, every file with an import is read again.
RelationSources(target) ==
    IF Present(rows) = Present(target) THEN {}
    ELSE {r.src.path : r \in {x \in rels.live : x.kind = "imports"}} \intersect Present(target)

Run(kind, target, force) ==
    [kind   |-> kind,
     target |-> target,
     force  |-> force,
     quiet  |-> /\ kind = "index" /\ graph = "ready" /\ ~force
                /\ Changed(target) = {} /\ Vanished(target) = {},
     todo   |-> IF force THEN Present(target)
                ELSE Changed(target) \union (IF graph = "stale" THEN NonBlank(target)
                                             ELSE RelationSources(target)),
     del    |-> Vanished(target)]

NoRun == [kind |-> "none", target |-> [p \in Paths |-> Absent], force |-> FALSE,
          quiet |-> FALSE, todo |-> {}, del |-> {}]

\* Besides the flag, a lost vector generation or another artifact forces all
\* files; a refresh leaves those cases to `cst index`.
Start(kind) ==
    /\ pc = "idle"
    /\ runs < MaxRuns
    /\ kind = "refresh" => ~full
    /\ \E target \in Snapshots, force \in BOOLEAN :
           /\ full => force
           /\ kind = "refresh" => ~force
           /\ run' = Run(kind, target, force)
    /\ runs' = runs + 1
    /\ pc' = "markStale"
    /\ UNCHANGED <<dbVars, deaths>>

-----------------------------------------------------------------------------
(* A run: persistence, one transaction each *)

MarkStale ==
    /\ pc = "markStale"
    /\ graph' = "stale"
    /\ full' = (full \/ run.force)
    /\ pc' = "write"
    /\ UNCHANGED <<rows, chunks, signals, rels, prodGen, assocGen, run, runs, deaths>>

FirstFiles(n, S) == {p \in S : Cardinality({q \in S : q < p}) < n}

\* write_v5_file_batch: chunks, signals, relations and row of each file.
WriteBatch ==
    /\ pc = "write"
    /\ run.todo # {}
    /\ LET B     == FirstFiles(BatchSize, run.todo)
           fresh == {p \in B : run.target[p] # Blank}
       IN  /\ rows' = [p \in Paths |-> IF p \in B THEN run.target[p] ELSE rows[p]]
           /\ chunks' = Replaced(chunks, {c \in chunks.live : c.path \in B},
                                 {ChunkId(p, run.target[p]) : p \in fresh})
           /\ signals' = Replaced(signals, {s \in signals.live : s.path \in B},
                                  UNION {Emitted(p, run.target[p]) : p \in fresh})
           /\ rels' = ReplacedRelations(rels, {r \in rels.live : r.src.path \in B},
                          UNION {EmittedRelations(p, run.target[p], Present(run.target)) :
                                 p \in fresh})
           /\ run' = [run EXCEPT !.todo = @ \ B]
    /\ UNCHANGED <<graph, full, prodGen, assocGen, pc, runs, deaths>>

\* Mutant: the signals of a vanished file stay live.
DeleteKeepsSignals(p) ==
    /\ pc = "write"
    /\ run.todo = {}
    /\ p \in run.del
    /\ chunks' = Replaced(chunks, {c \in chunks.live : c.path = p}, {})
    /\ rels' = Replaced(rels, {r \in rels.live : r.src.path = p}, {})
    /\ rows' = [rows EXCEPT ![p] = Absent]
    /\ run' = [run EXCEPT !.del = @ \ {p}]
    /\ UNCHANGED <<signals, graph, full, prodGen, assocGen, pc, runs, deaths>>

DeleteFile(p) ==
    /\ pc = "write"
    /\ run.todo = {}
    /\ p \in run.del
    /\ chunks' = Replaced(chunks, {c \in chunks.live : c.path = p}, {})
    /\ signals' = Replaced(signals, {s \in signals.live : s.path = p}, {})
    /\ rels' = Replaced(rels, {r \in rels.live : r.src.path = p}, {})
    /\ rows' = [rows EXCEPT ![p] = Absent]
    /\ run' = [run EXCEPT !.del = @ \ {p}]
    /\ UNCHANGED <<graph, full, prodGen, assocGen, pc, runs, deaths>>

\* A verified no-op keeps the relations as they are.
Written ==
    /\ pc = "write"
    /\ run.todo = {} /\ run.del = {}
    /\ pc' = IF run.quiet THEN "commit" ELSE "resolve"
    /\ UNCHANGED <<dbVars, run, runs, deaths>>

Of(kinds) == {r \in rels.live : r.kind \in kinds}

\* resolve_graph_relations, producers: all of them, not only the written ones.
ResolveProducers ==
    /\ pc = "resolve"
    /\ rels' = [rels EXCEPT !.live = Of({"tests"}) \union Resolved(Of({"imports", "uses_type"}))]
    /\ pc' = "advance"
    /\ UNCHANGED <<rows, chunks, signals, graph, full, prodGen, assocGen, run, runs, deaths>>

AdvanceGeneration ==
    /\ pc = "advance"
    /\ prodGen' = prodGen + 1
    /\ pc' = "associate"
    /\ UNCHANGED <<rows, chunks, signals, rels, graph, full, assocGen, run, runs, deaths>>

\* Mutant: associations of a generation already seen are not made again.
AssociateOnce ==
    /\ pc = "associate"
    /\ rels' = IF Of({"tests"}) = {} THEN ReplacedRelations(rels, {}, Associations) ELSE rels
    /\ assocGen' = prodGen
    /\ pc' = "resolveTests"
    /\ UNCHANGED <<rows, chunks, signals, graph, full, prodGen, run, runs, deaths>>

Associate ==
    /\ pc = "associate"
    /\ rels' = ReplacedRelations(rels, Of({"tests"}), Associations)
    /\ assocGen' = prodGen
    /\ pc' = "resolveTests"
    /\ UNCHANGED <<rows, chunks, signals, graph, full, prodGen, run, runs, deaths>>

ResolveTests ==
    /\ pc = "resolveTests"
    /\ rels' = [rels EXCEPT !.live = Of({"imports", "uses_type"}) \union Resolved(Of({"tests"}))]
    /\ pc' = "commit"
    /\ UNCHANGED <<rows, chunks, signals, graph, full, prodGen, assocGen, run, runs, deaths>>

-----------------------------------------------------------------------------
(* The ready commit *)

\* _graph_integrity.
GraphIntegrity ==
    /\ \A r \in rels.live :
        /\ r.src \in signals.live
        /\ r.target # NoSignal <=> r.res \in {"resolved_exact", "resolved_unique"}
        /\ r.target # NoSignal => r.target \in signals.live
        /\ r.target # NoSignal /\ r.tkind = "declaration" =>
               \E m \in ModuleRelations(rels.live) :
                   /\ m.src = r.src
                   /\ m.res = "resolved_exact"
                   /\ m.target \in signals.live
                   /\ m.target.path = r.target.path
    /\ \A c \in chunks.live : Cardinality(LiveAt(c.path, "module")) = 1

\* _validate_v5_snapshot, with the counts the preparation expects.
SnapshotValid ==
    /\ \A c \in chunks.live : rows[c.path] # Absent
    /\ \A s \in signals.live : ChunkOf(s) \in chunks.live /\ rows[s.path] # Absent
    /\ Cardinality(Present(rows)) = Cardinality(Present(run.target))
    /\ chunks.live = {ChunkId(p, run.target[p]) : p \in NonBlank(run.target)}

CommitValid == run.quiet \/ (GraphIntegrity /\ SnapshotValid)

Threshold(active) == Max({MinTombstones, (active + 19) \div 20})
Excess(t, limit) ==
    IF Cardinality(t.dead) <= Threshold(Cardinality(t.live)) THEN 0
    ELSE Min({limit, Cardinality(t.dead)})

TestRows == [live |-> Of({"tests"}), dead |-> {r \in rels.dead : r.kind = "tests"}]
MaintenanceRequired == \E t \in {chunks, signals, rels, TestRows} : Excess(t, 1) > 0

Without(t, gone) == [live |-> t.live \ gone, dead |-> t.dead \ gone]

\* Mutant: dead relations are only looked up by their source.
PurgeBySource(A, R, S, C) ==
    LET bySignal == {r \in rels.dead \ (A \union R) : r.src \in S}
        orphans  == {s \in signals.dead \ S : ChunkOf(s) \in C}
        byChunk  == {r \in rels.dead \ (A \union R) : ChunkOf(r.src) \in C}
    IN  /\ rels' = Without(rels, A \union R \union bySignal \union byChunk)
        /\ signals' = Without(signals, S \union orphans)
        /\ chunks' = Without(chunks, C)

\* Dead relations that name a purged signal go with it, dead signals and
\* relations of a purged chunk go with that.
Purge(A, R, S, C) ==
    LET names(X)  == {r \in rels.dead : r.src \in X \/ r.target \in X}
        owned     == {s \in (signals.live \union signals.dead) \ S : ChunkOf(s) \in C}
        byChunk   == {r \in rels.dead : ChunkOf(r.src) \in C \/ r.target \in owned}
    IN  /\ rels' = Without(rels, A \union R \union names(S) \union byChunk)
        /\ signals' = Without(signals, S \union (owned \intersect signals.dead))
        /\ chunks' = Without(chunks, C)

\* _purge_tombstones: the oldest dead rows of each table beyond its threshold,
\* associations first; which are the oldest is left open.
PurgeTombstones ==
    \E A \in kSubset(Excess(TestRows, PurgeLimit), TestRows.dead) :
    \E R \in kSubset(Excess(Without(rels, A), PurgeLimit - Cardinality(A)), rels.dead \ A) :
    \E S \in kSubset(Excess(signals, PurgeLimit), signals.dead) :
    \E C \in kSubset(Excess(chunks, PurgeLimit), chunks.dead) :
        Purge(A, R, S, C)

\* A run whose commit is rejected ends with an error, and changes nothing.
Commit ==
    /\ pc = "commit"
    /\ IF CommitValid
       THEN /\ IF run.kind = "refresh" /\ MaintenanceRequired
               THEN PurgeTombstones
               ELSE UNCHANGED <<chunks, signals, rels>>
            /\ graph' = "ready"
            /\ full' = FALSE
       ELSE UNCHANGED <<chunks, signals, rels, graph, full>>
    /\ pc' = "idle"
    /\ run' = NoRun
    /\ UNCHANGED <<rows, prodGen, assocGen, runs, deaths>>

Die ==
    /\ pc # "idle"
    /\ deaths < MaxDeaths
    /\ deaths' = deaths + 1
    /\ pc' = "idle"
    /\ run' = NoRun
    /\ UNCHANGED <<dbVars, runs>>

-----------------------------------------------------------------------------
Empty == [live |-> {}, dead |-> {}]

Init ==
    /\ rows = [p \in Paths |-> Absent]
    /\ chunks = Empty /\ signals = Empty /\ rels = Empty
    /\ graph = "stale" /\ full = TRUE
    /\ prodGen = 0 /\ assocGen = 0
    /\ pc = "idle" /\ run = NoRun
    /\ runs = 0 /\ deaths = 0

Step ==
    \/ MarkStale \/ WriteBatch \/ Written
    \/ \E p \in Paths : DeleteFile(p)
    \/ ResolveProducers \/ AdvanceGeneration \/ Associate \/ ResolveTests
    \/ Commit

Next == (\E kind \in {"index", "refresh"} : Start(kind)) \/ Step \/ Die

Spec == Init /\ [][Next]_vars

-----------------------------------------------------------------------------
(* Properties *)

\* Every variable keeps its type: a row is live or dead, never both, and the live relations
\* have identities of their own.
TypeOK ==
    /\ rows \in Snapshots
    /\ \A t \in {chunks, signals, rels} : t.live \intersect t.dead = {}
    /\ \A r1, r2 \in rels.live : IdOf(r1) = IdOf(r2) => r1 = r2
    /\ graph \in {"ready", "stale"} /\ full \in BOOLEAN
    /\ prodGen \in 0..MaxRuns /\ assocGen \in 0..prodGen
    /\ run.target \in Snapshots
    /\ run.todo \subseteq Present(run.target)
    /\ run.del \intersect Present(run.target) = {}

\* The graph of a snapshot, said of the snapshot alone.
ModuleOf(s, p) == IF p \in NonBlank(s) THEN Signal(p, s[p], "module") ELSE NoSignal

Import(s, p) ==
    LET found == Candidates \intersect Present(s)
        src   == Signal(p, s[p], "module")
        rel(tkind, name, state, res, t) ==
            [src |-> src, kind |-> "imports", tkind |-> tkind, name |-> name,
             state |-> state, res |-> res, target |-> t]
    IN  IF found = {} THEN {rel("module", 0, "external", "external", NoSignal)}
        ELSE IF Cardinality(found) > 1
             THEN {rel("module", Min(found), "candidates", "ambiguous", NoSignal)}
        ELSE LET q == Min(found)
             IN  {rel("module", q, "exact",
                      IF s[q] = Blank THEN "unresolved" ELSE "resolved_exact", ModuleOf(s, q)),
                  IF s[q] \in Declarers
                  THEN rel("declaration", q, "exact", "resolved_exact",
                           Signal(q, s[q], "declaration"))
                  ELSE rel("declaration", q, "exact", "unresolved", NoSignal)}

Use(s, p) ==
    LET decls == {Signal(q, s[q], "declaration") : q \in {x \in Paths : s[x] \in Declarers}}
    IN  [src |-> Signal(p, s[p], "module"), kind |-> "uses_type", tkind |-> "type",
         name |-> 0, state |-> "name",
         res |-> CASE Cardinality(decls) = 0 -> "unresolved"
                   [] Cardinality(decls) = 1 -> "resolved_unique"
                   [] OTHER -> "ambiguous",
         target |-> IF Cardinality(decls) = 1 THEN CHOOSE d \in decls : TRUE ELSE NoSignal]

\* A test is associated with the production file it imports, and with the one
\* its name points to, in this order.
Tested(s, p) ==
    LET code      == NonBlank(s) \ TestPaths
        found     == Candidates \intersect Present(s)
        imported  == IF s[p] \in Importers /\ Cardinality(found) = 1 THEN found \intersect code
                     ELSE {}
        named     == Conventions \intersect code
        byName    == IF Cardinality(named) = 1 THEN named \ imported ELSE {}
    IN  IF Cardinality(imported) >= MaxTargets THEN imported ELSE imported \union byName

Test(s, p, q) ==
    [src |-> Signal(p, s[p], "module"), kind |-> "tests", tkind |-> "module", name |-> q,
     state |-> "exact", res |-> "resolved_exact", target |-> ModuleOf(s, q)]

FullSignals(s) == UNION {Emitted(p, s[p]) : p \in NonBlank(s)}
FullProducers(s) ==
    (UNION {Import(s, p) : p \in {x \in Paths : s[x] \in Importers}})
    \union {Use(s, p) : p \in {x \in Paths : s[x] \in Users}}
FullTests(s) ==
    UNION {{Test(s, p, q) : q \in Tested(s, p)} : p \in NonBlank(s) \intersect TestPaths}
FullRelations(s) == FullProducers(s) \union FullTests(s)

\* An incrementally maintained graph that says ready is the one a build of the
\* same files from nothing would give, relation by relation, whatever was
\* edited, deleted, brought back, interrupted or purged before; and its
\* associations come from the last producer resolution, which the ready commit
\* does not look at and validate_ready_v5_snapshot demands.
ReadyGraphIsFull ==
    graph = "ready" =>
        /\ chunks.live = {ChunkId(p, rows[p]) : p \in NonBlank(rows)}
        /\ signals.live = FullSignals(rows)
        /\ rels.live = FullRelations(rows)
        /\ assocGen = prodGen

\* The validation in the ready commit never rejects what a run wrote: every
\* index and refresh that reaches the commit ends ready.
CommitAccepted == pc = "commit" => CommitValid

\* There are no foreign keys: no row, live or dead, names a row that was
\* purged, so that a dead row that comes back finds its owner.
PurgeLeavesNoOrphans ==
    /\ \A r \in rels.live \union rels.dead :
        /\ r.src \in signals.live \union signals.dead
        /\ r.target # NoSignal => r.target \in signals.live \union signals.dead
    /\ \A s \in signals.live \union signals.dead : ChunkOf(s) \in chunks.live \union chunks.dead
=============================================================================
