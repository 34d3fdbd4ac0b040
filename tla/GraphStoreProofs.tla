-------------------------- MODULE GraphStoreProofs --------------------------
(***************************************************************************)
(* Theorems of GraphStore, for any paths, contents and limits.             *)
(*                                                                         *)
(* The inductive invariant says what a run may rely on between two of its  *)
(* transactions: chunks and signals are those of the rows; the files that  *)
(* are not left to write have the relations of the run's target, resolved  *)
(* or not; from the producer resolution on, the producers are those of a   *)
(* full build; and no row, live or dead, names a row that is gone.         *)
(***************************************************************************)
EXTENDS GraphStore, FiniteSetTheorems, TLAPS

IsTable(t) == t = [live |-> t.live, dead |-> t.dead]

\* The kinds of target a kind of relation may have, and its selector's state.
Shaped(r) ==
    /\ r.kind \in {"imports", "uses_type", "tests"}
    /\ r.kind = "imports" => r.tkind \in {"module", "declaration"}
    /\ r.kind = "uses_type" => r.tkind = "type"
    /\ r.kind = "tests" => r.tkind = "module" /\ r.state = "exact"
    /\ r.tkind = "module" => r.state \in {"external", "candidates", "exact"}

Types ==
    /\ rows \in Snapshots
    /\ IsTable(chunks) /\ IsTable(signals) /\ IsTable(rels)
    /\ \A r \in rels.live : Shaped(r)
    /\ graph \in {"ready", "stale"} /\ full \in BOOLEAN
    /\ prodGen \in Nat /\ assocGen \in Nat
    /\ runs \in 0..MaxRuns

\* A live row and a dead one never have the same identifier.
Disjoint(t) == t.live \intersect t.dead = {}
Identified(t) ==
    /\ \A r1, r2 \in t.live : IdOf(r1) = IdOf(r2) => r1 = r2
    /\ \A r1 \in t.live, r2 \in t.dead : IdOf(r1) # IdOf(r2)
Separate == Disjoint(chunks) /\ Disjoint(signals) /\ Identified(rels)

\* Chunks and signals change with the row of their file.
FullChunks(s) == {ChunkId(p, s[p]) : p \in NonBlank(s)}
RowsLive ==
    /\ chunks.live = FullChunks(rows)
    /\ signals.live = FullSignals(rows)
    /\ \A r \in rels.live : r.src \in signals.live

RunSteps == {"markStale", "write", "resolve", "advance", "associate", "resolveTests", "commit"}
RunType ==
    [kind : {"none", "index", "refresh"}, target : Snapshots, force : BOOLEAN,
     quiet : BOOLEAN, todo : SUBSET Paths, del : SUBSET Paths]

\* What a run has still to do, and what it must not.
RunShape ==
    /\ pc \in {"idle"} \union RunSteps
    /\ run \in RunType
    /\ pc = "idle" => run = NoRun
    /\ pc # "idle" =>
           /\ run.todo \subseteq Present(run.target)
           /\ run.del \intersect Present(run.target) = {}
           /\ \A p \in Paths \ (run.todo \union run.del) : rows[p] = run.target[p]
    /\ pc \in RunSteps \ {"markStale", "write"} => run.todo = {} /\ run.del = {}
    /\ run.quiet => /\ run.kind = "index" /\ run.todo = {} /\ run.del = {}
                    /\ pc \in {"markStale", "write", "commit"}
    /\ graph = "ready" => pc \in {"idle", "markStale"}

\* Each run advances the producer generation once at most.
Generations ==
    /\ prodGen + (IF pc \in {"markStale", "write", "resolve", "advance"} THEN 1 ELSE 0) <= runs
    /\ assocGen <= prodGen
    /\ pc \in {"resolveTests", "commit"} /\ ~run.quiet => assocGen = prodGen

Producers == Of({"imports", "uses_type"})
Plain(r) == Updated(r, "unresolved", NoSignal)
PlainOf(p) == {Plain(r) : r \in {x \in Producers : x.src.path = p}}

\* The relations a file has before their resolution, in a given set of paths.
EmittedBy(s, p) == IF s[p] \in {Absent, Blank} THEN {} ELSE EmittedRelations(p, s[p], Present(s))

\* Files that are written, or that need not be, have the relations of the target.
Pending ==
    pc \in {"markStale", "write", "resolve"} /\ ~run.quiet =>
        \A p \in Paths \ (run.todo \union run.del) : PlainOf(p) = EmittedBy(run.target, p)

Produced ==
    pc \in {"advance", "associate", "resolveTests", "commit"} /\ ~run.quiet =>
        Producers = FullProducers(rows)

Associated ==
    /\ pc = "resolveTests" => {Plain(r) : r \in Of({"tests"})} = {Plain(r) : r \in FullTests(rows)}
    /\ pc = "commit" /\ ~run.quiet => Of({"tests"}) = FullTests(rows)

\* A run that found nothing to do leaves a whole graph.
Whole == rels.live = FullRelations(rows) /\ assocGen = prodGen
ReadyWhole == graph = "ready" \/ run.quiet => Whole

\* What holds of the tables whatever a run does.
StoreInv ==
    /\ Types
    /\ Separate
    /\ RowsLive
    /\ RunShape
    /\ Generations
    /\ PurgeLeavesNoOrphans

\* What a run relies on.
GraphInv == Pending /\ Produced /\ Associated /\ ReadyWhole

-----------------------------------------------------------------------------
(* Lemmas on the operators of the model *)

LEMMA UpdatedFields ==
    ASSUME NEW r, NEW x, NEW t
    PROVE  /\ Updated(r, x, t).src = r.src /\ Updated(r, x, t).kind = r.kind
           /\ Updated(r, x, t).tkind = r.tkind /\ Updated(r, x, t).name = r.name
           /\ Updated(r, x, t).state = r.state
           /\ Updated(r, x, t).res = x /\ Updated(r, x, t).target = t
           /\ IdOf(Updated(r, x, t)) = IdOf(r)
           /\ Plain(Updated(r, x, t)) = Plain(r)
BY DEF Updated, IdOf, Plain

LEMMA CardinalityOne ==
    ASSUME NEW x
    PROVE  IsFiniteSet({x}) /\ Cardinality({x}) = 1 /\ (CHOOSE y \in {x} : TRUE) = x
BY FS_Singleton

LEMMA TargetOf ==
    ASSUME NEW r, NEW x, NEW res
    PROVE  /\ Target(r, {x}, res) = Updated(r, res, x)
           /\ Target(r, {}, res) = Updated(r, "unresolved", NoSignal)
<1>1. {x} # {} /\ ~(Cardinality({x}) > 1) /\ (CHOOSE y \in {x} : TRUE) = x
    BY CardinalityOne
<1>2. Target(r, {x}, res) = Updated(r, res, x)
    BY <1>1 DEF Target
<1>3. Target(r, {}, res) = Updated(r, "unresolved", NoSignal)
    BY DEF Target
<1>4. QED
    BY <1>2, <1>3

\* A content declares at most one symbol, next to its module.
SignalAt(p, kind) == Signal(p, rows[p], kind)
HasSignal(p, kind) == p \in NonBlank(rows) /\ (kind = "module" \/ rows[p] \in Declarers)

LEMMA LiveSignals ==
    ASSUME signals.live = FullSignals(rows), NEW p, NEW kind \in {"module", "declaration"}
    PROVE  LiveAt(p, kind) = IF HasSignal(p, kind) THEN {SignalAt(p, kind)} ELSE {}
BY DEF FullSignals, LiveAt, HasSignal, SignalAt, Emitted, Signal, NonBlank

LEMMA SignalMember ==
    ASSUME signals.live = FullSignals(rows), NEW s
    PROVE  s \in signals.live <=>
               \E p \in Paths, kind \in {"module", "declaration"} :
                   HasSignal(p, kind) /\ s = SignalAt(p, kind)
BY DEF FullSignals, HasSignal, SignalAt, Emitted, Signal, NonBlank

-----------------------------------------------------------------------------
(* Resolution gives the graph of a full build *)

\* What the import specifier may stand for.
Found == Candidates \intersect Present(rows)

LEMMA FoundCases ==
    \/ Found = {}
    \/ \E q \in Paths : Found = {q} /\ Cardinality(Found) = 1 /\ Min(Found) = q
    \/ Found # {} /\ Cardinality(Found) > 1 /\ Cardinality(Found) # 1
<1>1. Found \subseteq Paths /\ IsFiniteSet(Found)
    <2>1. Found \in SUBSET Paths
        BY DEF Found, Present
    <2>2. QED
        BY <2>1, PathsAssumption, FS_Subset
<1>2. Cardinality(Found) \in Nat /\ (Cardinality(Found) = 0 <=> Found = {})
    BY <1>1, FS_CardinalityType, FS_EmptySet
<1>3. CASE Cardinality(Found) = 1
    <2>1. PICK q : Found = {q}
        BY <1>1, <1>3, FS_Singleton
    <2>2. q \in Paths /\ q \in Nat
        BY <1>1, <2>1, PathsAssumption
    <2>3. Min(Found) = q
        BY <2>1, <2>2 DEF Min
    <2>4. QED
        BY <1>3, <2>1, <2>2, <2>3
<1>4. QED
    BY <1>2, <1>3

Importing(p) == p \in Paths /\ rows[p] \in Importers
Using(p)     == p \in Paths /\ rows[p] \in Users
Exact        == Selector(Present(rows)).state = "exact"
ModuleSrc(p) == Signal(p, rows[p], "module")

\* The three relations a file may emit.
ModuleRow(p) == Relation(ModuleSrc(p), "imports", "module", Selector(Present(rows)).first,
                         Selector(Present(rows)).state)
SymbolRow(p) == Relation(ModuleSrc(p), "imports", "declaration", Selector(Present(rows)).first,
                         "exact")
UseRow(p)    == Relation(ModuleSrc(p), "uses_type", "type", 0, "name")

LEMMA EmittedForms ==
    ASSUME NEW p \in Paths, NEW e
    PROVE  e \in EmittedBy(rows, p) <=>
               \/ Importing(p) /\ (e = ModuleRow(p) \/ (Exact /\ e = SymbolRow(p)))
               \/ Using(p) /\ e = UseRow(p)
<1>1. {Absent, Blank} \intersect (Importers \union Users) = {}
    BY TextsAssumption
<1>2. QED
    BY <1>1 DEF EmittedBy, EmittedRelations, Importing, Using, Exact, ModuleRow, SymbolRow, UseRow,
       ModuleSrc

LEMMA SelectorForms ==
    /\ Found = {} => /\ Selector(Present(rows)).state = "external"
                     /\ Selector(Present(rows)).first = 0
    /\ Found # {} => /\ Selector(Present(rows)).first = Min(Found)
                     /\ Selector(Present(rows)).state =
                            IF Cardinality(Found) = 1 THEN "exact" ELSE "candidates"
BY DEF Selector, Found

\* A module relation finds the one signal of the exact file, if it has one.
LEMMA ModuleResolved ==
    ASSUME signals.live = FullSignals(rows), NEW p \in Paths
    PROVE  /\ Found = {} => ResolveModule(ModuleRow(p)) =
                  Updated(ModuleRow(p), "external", NoSignal)
           /\ Found # {} /\ Cardinality(Found) # 1 => ResolveModule(ModuleRow(p)) =
                  Updated(ModuleRow(p), "ambiguous", NoSignal)
           /\ \A q \in Paths : Found = {q} /\ Cardinality(Found) = 1 /\ Min(Found) = q =>
                  ResolveModule(ModuleRow(p)) =
                      IF q \in NonBlank(rows)
                      THEN Updated(ModuleRow(p), "resolved_exact", ModuleSrc(q))
                      ELSE Updated(ModuleRow(p), "unresolved", NoSignal)
<1>1. /\ ModuleRow(p).state = Selector(Present(rows)).state
      /\ ModuleRow(p).name = Selector(Present(rows)).first
    BY DEF ModuleRow, Relation
<1>2. ASSUME NEW q \in Paths, Found = {q}, Cardinality(Found) = 1, Min(Found) = q
      PROVE  ResolveModule(ModuleRow(p)) =
                 IF q \in NonBlank(rows)
                 THEN Updated(ModuleRow(p), "resolved_exact", ModuleSrc(q))
                 ELSE Updated(ModuleRow(p), "unresolved", NoSignal)
    <2>1. ResolveModule(ModuleRow(p)) =
              Target(ModuleRow(p), LiveAt(q, "module"), "resolved_exact")
        BY <1>1, <1>2, SelectorForms DEF ResolveModule
    <2>2. LiveAt(q, "module") = IF q \in NonBlank(rows) THEN {ModuleSrc(q)} ELSE {}
        BY LiveSignals DEF HasSignal, SignalAt, ModuleSrc
    <2>3. QED
        BY <2>1, <2>2, TargetOf
<1>3. QED
    BY <1>1, <1>2, SelectorForms DEF ResolveModule

Modules == {ResolveModule(ModuleRow(p)) : p \in {x \in Paths : rows[x] \in Importers}}

\* A symbol is found exactly if the file its source's module relation leads to
\* declares it.
LEMMA SymbolResolved ==
    ASSUME signals.live = FullSignals(rows), NEW p \in Paths, Importing(p),
           NEW q \in Paths, Found = {q}, Cardinality(Found) = 1, Min(Found) = q
    PROVE  ResolveDeclaration(SymbolRow(p), Modules) =
               IF rows[q] \in Declarers
               THEN Updated(SymbolRow(p), "resolved_exact", Signal(q, rows[q], "declaration"))
               ELSE Updated(SymbolRow(p), "unresolved", NoSignal)
<1> DEFINE r     == SymbolRow(p)
           bound == \E m \in Modules : /\ m.src = r.src
                                       /\ m.name = r.name
                                       /\ m.res = "resolved_exact"
                                       /\ m.target.path = r.name
<1>1. r.src = ModuleSrc(p) /\ r.name = q
    BY SelectorForms DEF SymbolRow, Relation
<1>2. LiveAt(q, "declaration") =
          IF q \in NonBlank(rows) /\ rows[q] \in Declarers
          THEN {Signal(q, rows[q], "declaration")} ELSE {}
    BY LiveSignals DEF HasSignal, SignalAt
<1>3. rows[q] \in Declarers => q \in NonBlank(rows)
    BY TextsAssumption DEF NonBlank
<1>4. ResolveDeclaration(r, Modules) =
          Target(r, IF bound THEN LiveAt(q, "declaration") ELSE {}, "resolved_exact")
    BY <1>1 DEF ResolveDeclaration
<1>5. rows[q] \in Declarers => bound
    <2>1. SUFFICES ASSUME rows[q] \in Declarers PROVE bound
        OBVIOUS
    <2>2. ResolveModule(ModuleRow(p)) = Updated(ModuleRow(p), "resolved_exact", ModuleSrc(q))
        BY <1>3, <2>1, ModuleResolved
    <2>3. ModuleRow(p).src = ModuleSrc(p) /\ ModuleRow(p).name = q
        BY SelectorForms DEF ModuleRow, Relation
    <2>4. ModuleSrc(q).path = q
        BY DEF ModuleSrc, Signal
    <2>5. ResolveModule(ModuleRow(p)) \in Modules
        BY DEF Modules, Importing
    <2>6. QED
        BY <1>1, <2>2, <2>3, <2>4, <2>5, UpdatedFields
<1> HIDE DEF r, bound
<1>6. CASE rows[q] \in Declarers
    BY <1>2, <1>3, <1>4, <1>5, <1>6, TargetOf DEF r
<1>7. CASE rows[q] \notin Declarers
    BY <1>2, <1>4, <1>7, TargetOf DEF r
<1>8. QED
    BY <1>6, <1>7

LEMMA ImportForms ==
    ASSUME signals.live = FullSignals(rows), NEW p \in Paths, Importing(p)
    PROVE  Import(rows, p) =
               {ResolveModule(ModuleRow(p))}
               \union (IF Exact THEN {ResolveDeclaration(SymbolRow(p), Modules)} ELSE {})
<1> DEFINE row(tkind, name, state, res, t) ==
               [src |-> ModuleSrc(p), kind |-> "imports", tkind |-> tkind, name |-> name,
                state |-> state, res |-> res, target |-> t]
<1>1. /\ \A res, t : Updated(ModuleRow(p), res, t) =
             row("module", Selector(Present(rows)).first, Selector(Present(rows)).state, res, t)
      /\ \A res, t : Updated(SymbolRow(p), res, t) =
             row("declaration", Selector(Present(rows)).first, "exact", res, t)
    BY DEF Updated, ModuleRow, SymbolRow, Relation
<1>2. Import(rows, p) =
          IF Found = {} THEN {row("module", 0, "external", "external", NoSignal)}
          ELSE IF Cardinality(Found) > 1
               THEN {row("module", Min(Found), "candidates", "ambiguous", NoSignal)}
          ELSE {row("module", Min(Found), "exact",
                    IF rows[Min(Found)] = Blank THEN "unresolved" ELSE "resolved_exact",
                    ModuleOf(rows, Min(Found))),
                IF rows[Min(Found)] \in Declarers
                THEN row("declaration", Min(Found), "exact", "resolved_exact",
                         Signal(Min(Found), rows[Min(Found)], "declaration"))
                ELSE row("declaration", Min(Found), "exact", "unresolved", NoSignal)}
    BY DEF Import, Found, ModuleSrc
<1> HIDE DEF row
<1>3. CASE Found = {}
    BY <1>1, <1>2, <1>3, ModuleResolved, SelectorForms DEF Exact
<1>4. CASE Found # {} /\ Cardinality(Found) > 1 /\ Cardinality(Found) # 1
    BY <1>1, <1>2, <1>4, ModuleResolved, SelectorForms DEF Exact
<1>5. ASSUME NEW q \in Paths, Found = {q}, Cardinality(Found) = 1, Min(Found) = q
      PROVE  Import(rows, p) =
                 {ResolveModule(ModuleRow(p))}
                 \union (IF Exact THEN {ResolveDeclaration(SymbolRow(p), Modules)} ELSE {})
    <2>1. Exact /\ Selector(Present(rows)).first = q
          /\ Selector(Present(rows)).state = "exact"
        BY <1>5, SelectorForms DEF Exact
    <2>2. q \in Present(rows)
        BY <1>5 DEF Found
    <2>3. ResolveModule(ModuleRow(p)) =
              row("module", q, "exact",
                  IF rows[q] = Blank THEN "unresolved" ELSE "resolved_exact", ModuleOf(rows, q))
        BY <1>1, <1>5, <2>1, <2>2, ModuleResolved DEF ModuleOf, NonBlank, Present, ModuleSrc
    <2>4. ResolveDeclaration(SymbolRow(p), Modules) =
              IF rows[q] \in Declarers
              THEN row("declaration", q, "exact", "resolved_exact",
                       Signal(q, rows[q], "declaration"))
              ELSE row("declaration", q, "exact", "unresolved", NoSignal)
        BY <1>1, <1>5, <2>1, SymbolResolved
    <2>5. QED
        BY <1>2, <1>5, <2>1, <2>3, <2>4
<1>6. QED
    BY <1>3, <1>4, <1>5, FoundCases

LEMMA UseForm ==
    ASSUME signals.live = FullSignals(rows), NEW p \in Paths, Using(p)
    PROVE  Use(rows, p) = ResolveName(UseRow(p))
<1> DEFINE declarers == {x \in Paths : rows[x] \in Declarers}
           decls     == {Signal(q, rows[q], "declaration") : q \in declarers}
<1>1. {s \in signals.live : s.kind = "declaration"} = decls
    BY TextsAssumption DEF FullSignals, Emitted, Signal, NonBlank
<1>2. IsFiniteSet(decls)
    <2> DEFINE f == [q \in declarers |-> Signal(q, rows[q], "declaration")]
    <2>1. IsFiniteSet(declarers)
        BY PathsAssumption, FS_Subset
    <2>2. f \in Surjection(declarers, decls)
        BY DEF Surjection
    <2>3. QED
        BY <2>1, <2>2, FS_Surjection
<1>3. Cardinality(decls) \in Nat /\ (Cardinality(decls) = 0 <=> decls = {})
    BY <1>2, FS_CardinalityType, FS_EmptySet
<1>4. \A res, t : Updated(UseRow(p), res, t) =
          [src |-> ModuleSrc(p), kind |-> "uses_type", tkind |-> "type", name |-> 0,
           state |-> "name", res |-> res, target |-> t]
    BY DEF Updated, UseRow, Relation
<1>5. ResolveName(UseRow(p)) = Target(UseRow(p), decls, "resolved_unique")
    BY <1>1 DEF ResolveName
<1>6. Use(rows, p) =
          [src |-> ModuleSrc(p), kind |-> "uses_type", tkind |-> "type",
           name |-> 0, state |-> "name",
           res |-> CASE Cardinality(decls) = 0 -> "unresolved"
                     [] Cardinality(decls) = 1 -> "resolved_unique"
                     [] OTHER -> "ambiguous",
           target |-> IF Cardinality(decls) = 1 THEN CHOOSE d \in decls : TRUE ELSE NoSignal]
    BY DEF Use, ModuleSrc
<1> HIDE DEF decls
<1>7. CASE decls = {}
    BY <1>3, <1>4, <1>5, <1>6, <1>7 DEF Target
<1>8. CASE decls # {} /\ Cardinality(decls) = 1
    <2>1. ~(Cardinality(decls) > 1)
        BY <1>8
    <2>2. ResolveName(UseRow(p)) =
              Updated(UseRow(p), "resolved_unique", CHOOSE d \in decls : TRUE)
        BY <1>5, <1>8, <2>1 DEF Target
    <2>3. Use(rows, p) =
              [src |-> ModuleSrc(p), kind |-> "uses_type", tkind |-> "type", name |-> 0,
               state |-> "name", res |-> "resolved_unique",
               target |-> CHOOSE d \in decls : TRUE]
        BY <1>6, <1>8
    <2>4. QED
        BY <1>4, <2>2, <2>3
<1>9. CASE decls # {} /\ Cardinality(decls) # 1
    <2>1. Cardinality(decls) > 1 /\ Cardinality(decls) # 0
        BY <1>3, <1>9
    <2>2. QED
        BY <1>4, <1>5, <1>6, <1>9, <2>1 DEF Target
<1>10. QED
    BY <1>7, <1>8, <1>9

\* What a relation was resolved to before does not matter.
LEMMA ResolvePlain ==
    ASSUME NEW r, NEW m
    PROVE  /\ r.state \in {"external", "candidates", "exact"} =>
                  ResolveModule(Plain(r)) = ResolveModule(r)
           /\ ResolveDeclaration(Plain(r), m) = ResolveDeclaration(r, m)
           /\ ResolveName(Plain(r)) = ResolveName(r)
<1>1. /\ Plain(r).src = r.src /\ Plain(r).name = r.name /\ Plain(r).state = r.state
      /\ \A x, t : Updated(Plain(r), x, t) = Updated(r, x, t)
    BY DEF Plain, Updated
<1>2. \A matches, x : Target(Plain(r), matches, x) = Target(r, matches, x)
    BY <1>1 DEF Target
<1>3. r.state = "external" => ResolveModule(Plain(r)) = ResolveModule(r)
    BY <1>1 DEF ResolveModule
<1>4. r.state = "candidates" => ResolveModule(Plain(r)) = ResolveModule(r)
    BY <1>1 DEF ResolveModule
<1>5. r.state = "exact" => ResolveModule(Plain(r)) = ResolveModule(r)
    BY <1>1, <1>2 DEF ResolveModule
<1>6. ResolveDeclaration(Plain(r), m) = ResolveDeclaration(r, m)
    BY <1>1, <1>2 DEF ResolveDeclaration
<1>7. ResolveName(Plain(r)) = ResolveName(r)
    BY <1>2 DEF ResolveName
<1>8. QED
    BY <1>3, <1>4, <1>5, <1>6, <1>7

LEMMA RowFields ==
    ASSUME NEW p
    PROVE  /\ ModuleRow(p).tkind = "module" /\ SymbolRow(p).tkind = "declaration"
           /\ UseRow(p).tkind = "type"
           /\ ModuleRow(p).kind = "imports" /\ SymbolRow(p).kind = "imports"
           /\ UseRow(p).kind = "uses_type"
           /\ ModuleRow(p).src = ModuleSrc(p) /\ SymbolRow(p).src = ModuleSrc(p)
           /\ UseRow(p).src = ModuleSrc(p) /\ ModuleSrc(p).path = p
           /\ ModuleRow(p).state \in {"external", "candidates", "exact"}
BY SelectorForms DEF ModuleRow, SymbolRow, UseRow, Relation, ModuleSrc, Signal

\* Relations that are, but for their resolution, the ones of all files are resolved
\* to those of a full build.
LEMMA ResolvedIsFull ==
    ASSUME signals.live = FullSignals(rows), NEW X,
           \A r \in X : \E p \in Paths : Plain(r) \in EmittedBy(rows, p),
           \A p \in Paths : \A e \in EmittedBy(rows, p) : \E r \in X : Plain(r) = e
    PROVE  Resolved(X) = FullProducers(rows)
<1> DEFINE symbols == {r \in X : r.tkind = "declaration"}
           names   == {r \in X : r.tkind = "type"}
           importers == {x \in Paths : rows[x] \in Importers}
           users     == {x \in Paths : rows[x] \in Users}
<1>1. \A r \in X : /\ r.tkind = Plain(r).tkind /\ r.state = Plain(r).state
                   /\ r.src = Plain(r).src
    BY DEF Plain, Updated
<1>2. {ResolveModule(r) : r \in ModuleRelations(X)} = Modules
    <2>1. ASSUME NEW r \in X, r.tkind = "module" PROVE ResolveModule(r) \in Modules
        <3>1. PICK p \in Paths : Plain(r) \in EmittedBy(rows, p)
            OBVIOUS
        <3>2. Plain(r) = ModuleRow(p) /\ Importing(p)
            BY <1>1, <2>1, <3>1, EmittedForms, RowFields
        <3>3. ResolveModule(r) = ResolveModule(ModuleRow(p))
            BY <1>1, <3>2, ResolvePlain, RowFields
        <3>4. QED
            BY <3>2, <3>3 DEF Modules, Importing
    <2>2. ASSUME NEW p \in importers
          PROVE  \E r \in ModuleRelations(X) : ResolveModule(ModuleRow(p)) = ResolveModule(r)
        <3>1. ModuleRow(p) \in EmittedBy(rows, p)
            BY EmittedForms DEF Importing
        <3>2. PICK r \in X : Plain(r) = ModuleRow(p)
            BY <3>1
        <3>3. r.tkind = "module" /\ ResolveModule(r) = ResolveModule(ModuleRow(p))
            BY <1>1, <3>2, ResolvePlain, RowFields
        <3>4. QED
            BY <3>3 DEF ModuleRelations
    <2>3. QED
        BY <2>1, <2>2 DEF Modules, ModuleRelations
<1>3. Resolved(X) = Modules \union {ResolveDeclaration(r, Modules) : r \in symbols}
                            \union {ResolveName(r) : r \in names}
    BY <1>2 DEF Resolved
<1>4. {ResolveDeclaration(r, Modules) : r \in symbols} =
          {ResolveDeclaration(SymbolRow(p), Modules) : p \in {x \in importers : Exact}}
    <2>1. ASSUME NEW r \in symbols
          PROVE  \E p \in {x \in importers : Exact} :
                     ResolveDeclaration(r, Modules) = ResolveDeclaration(SymbolRow(p), Modules)
        <3>1. PICK p \in Paths : Plain(r) \in EmittedBy(rows, p)
            OBVIOUS
        <3>2. Plain(r) = SymbolRow(p) /\ Importing(p) /\ Exact
            BY <1>1, <2>1, <3>1, EmittedForms, RowFields
        <3>3. QED
            BY <3>2, ResolvePlain DEF Importing
    <2>2. ASSUME NEW p \in {x \in importers : Exact}
          PROVE  \E r \in symbols :
                     ResolveDeclaration(SymbolRow(p), Modules) = ResolveDeclaration(r, Modules)
        <3>1. SymbolRow(p) \in EmittedBy(rows, p)
            BY EmittedForms DEF Importing
        <3>2. PICK r \in X : Plain(r) = SymbolRow(p)
            BY <3>1
        <3>3. r.tkind = "declaration"
            BY <1>1, <3>2, RowFields
        <3>4. QED
            BY <3>2, <3>3, ResolvePlain
    <2>3. QED
        BY <2>1, <2>2
<1>5. {ResolveName(r) : r \in names} = {Use(rows, p) : p \in users}
    <2>1. ASSUME NEW r \in names
          PROVE  \E p \in users : ResolveName(r) = Use(rows, p)
        <3>1. PICK p \in Paths : Plain(r) \in EmittedBy(rows, p)
            OBVIOUS
        <3>2. Plain(r) = UseRow(p) /\ Using(p)
            BY <1>1, <2>1, <3>1, EmittedForms, RowFields
        <3>3. QED
            BY <3>2, ResolvePlain, UseForm DEF Using
    <2>2. ASSUME NEW p \in users
          PROVE  \E r \in names : Use(rows, p) = ResolveName(r)
        <3>1. UseRow(p) \in EmittedBy(rows, p)
            BY EmittedForms DEF Using
        <3>2. PICK r \in X : Plain(r) = UseRow(p)
            BY <3>1
        <3>3. r.tkind = "type"
            BY <1>1, <3>2, RowFields
        <3>4. QED
            BY <3>2, <3>3, ResolvePlain, UseForm DEF Using
    <2>3. QED
        BY <2>1, <2>2
<1>6. (UNION {Import(rows, p) : p \in importers}) =
          Modules \union {ResolveDeclaration(SymbolRow(p), Modules) : p \in {x \in importers : Exact}}
    <2>1. \A p \in importers :
              Import(rows, p) =
                  {ResolveModule(ModuleRow(p))}
                  \union (IF Exact THEN {ResolveDeclaration(SymbolRow(p), Modules)} ELSE {})
        BY ImportForms DEF Importing
    <2>2. Modules = {ResolveModule(ModuleRow(p)) : p \in importers}
        BY DEF Modules
    <2> DEFINE symbol(p) == ResolveDeclaration(SymbolRow(p), Modules)
               imported  == UNION {Import(rows, p) : p \in importers}
    <2> HIDE DEF importers, symbol
    <2>3. \A x : x \in imported <=> \E p \in importers : x \in Import(rows, p)
        OBVIOUS
    <2>4. \A p \in importers :
              Import(rows, p) = {ResolveModule(ModuleRow(p))}
                                \union (IF Exact THEN {symbol(p)} ELSE {})
        BY <2>1 DEF symbol
    <2>5. \A x : x \in imported <=>
              \/ \E p \in importers : x = ResolveModule(ModuleRow(p))
              \/ \E p \in importers : Exact /\ x = symbol(p)
        BY <2>3, <2>4
    <2>6. imported = Modules \union {symbol(p) : p \in {x \in importers : Exact}}
        BY <2>2, <2>5
    <2>7. QED
        BY <2>6 DEF symbol
<1> DEFINE all  == UNION {Import(rows, p) : p \in importers}
           used == {Use(rows, p) : p \in users}
           syms == {ResolveDeclaration(r, Modules) : r \in symbols}
           nams == {ResolveName(r) : r \in names}
<1>7. all = Modules \union syms
    BY <1>4, <1>6
<1>8. Resolved(X) = Modules \union syms \union nams /\ nams = used
    BY <1>3, <1>5
<1>9. FullProducers(rows) = all \union used
    BY DEF FullProducers
<1> HIDE DEF all, used, syms, nams
<1>10. QED
    BY <1>7, <1>8, <1>9

-----------------------------------------------------------------------------
(* Lemmas on tables *)

LEMMA ReplacedTable ==
    ASSUME NEW t, NEW gone, NEW new, Disjoint(t), gone \subseteq t.live
    PROVE  /\ IsTable(Replaced(t, gone, new)) /\ Disjoint(Replaced(t, gone, new))
           /\ Replaced(t, gone, new).live = (t.live \ gone) \union new
           /\ \A x : x \in Replaced(t, gone, new).live \union Replaced(t, gone, new).dead <=>
                         x \in t.live \union t.dead \union new
<1>1. /\ Replaced(t, gone, new).live = (t.live \ gone) \union new
      /\ Replaced(t, gone, new).dead = (t.dead \union gone) \ new
      /\ IsTable(Replaced(t, gone, new))
    BY DEF Replaced, IsTable
<1>2. QED
    BY <1>1 DEF Disjoint

LEMMA ReplacedIdentified ==
    ASSUME NEW t, NEW gone, NEW new, Identified(t), gone \subseteq t.live,
           \A r1, r2 \in new : IdOf(r1) = IdOf(r2) => r1 = r2
    PROVE  /\ IsTable(ReplacedRelations(t, gone, new))
           /\ Identified(ReplacedRelations(t, gone, new))
           /\ \A x \in ReplacedRelations(t, gone, new).live : x \in t.live \ gone \/ x \in new
           /\ \A x \in ReplacedRelations(t, gone, new).dead : x \in t.live \union t.dead
<1> DEFINE ids == {IdOf(r) : r \in new}
           u   == ReplacedRelations(t, gone, new)
<1>1. /\ u.live = {r \in t.live \ gone : IdOf(r) \notin ids} \union new
      /\ u.dead = {r \in t.dead \union gone : IdOf(r) \notin ids}
      /\ IsTable(u)
    BY DEF ReplacedRelations, IsTable
<1>2. \A r \in new : IdOf(r) \in ids
    OBVIOUS
<1> HIDE DEF u, ids
<1>3. ASSUME NEW r1 \in u.live, NEW r2 \in u.live, IdOf(r1) = IdOf(r2) PROVE r1 = r2
    BY <1>1, <1>2, <1>3 DEF Identified
<1>4. ASSUME NEW r1 \in u.live, NEW r2 \in u.dead PROVE IdOf(r1) # IdOf(r2)
    BY <1>1, <1>2, <1>4 DEF Identified
<1>5. Identified(u)
    BY <1>3, <1>4 DEF Identified
<1>6. (\A x \in u.live : x \in t.live \ gone \/ x \in new)
      /\ (\A x \in u.dead : x \in t.live \union t.dead)
    BY <1>1
<1>7. QED
    BY <1>1, <1>5, <1>6 DEF u

\* When files are given new rows, so are their chunks and signals.
FreshIn(s, B) == {p \in B : s[p] \notin {Absent, Blank}}

LEMMA ChunksRewritten ==
    ASSUME NEW s, NEW s2, NEW B \in SUBSET Paths, \A p \in Paths \ B : s2[p] = s[p],
           NEW fresh, fresh = FreshIn(s2, B)
    PROVE  \A x : x \in FullChunks(s2) <=> \/ x \in FullChunks(s) /\ x.path \notin B
                                           \/ \E p \in fresh : x = ChunkId(p, s2[p])
<1>1. \A p \in fresh : p \in NonBlank(s2)
    BY DEF NonBlank, FreshIn
<1>2. \A p \in NonBlank(s2) : p \in fresh \/ (p \in NonBlank(s) /\ p \notin B /\ s2[p] = s[p])
    BY DEF NonBlank, FreshIn
<1>3. \A p \in NonBlank(s) : p \in B \/ (p \in NonBlank(s2) /\ s2[p] = s[p])
    BY DEF NonBlank, FreshIn
<1>4. \A p \in fresh : p \in B
    BY DEF FreshIn
<1>5. \A p, c : ChunkId(p, c).path = p
    BY DEF ChunkId
<1>6. \A x : x \in FullChunks(s) <=> \E p \in NonBlank(s) : x = ChunkId(p, s[p])
    BY DEF FullChunks
<1>7. \A x : x \in FullChunks(s2) <=> \E p \in NonBlank(s2) : x = ChunkId(p, s2[p])
    BY DEF FullChunks
<1>8. QED
    BY <1>1, <1>2, <1>3, <1>4, <1>5, <1>6, <1>7

LEMMA SignalsRewritten ==
    ASSUME NEW s, NEW s2, NEW B \in SUBSET Paths, \A p \in Paths \ B : s2[p] = s[p],
           NEW fresh, fresh = FreshIn(s2, B)
    PROVE  \A x : x \in FullSignals(s2) <=> \/ x \in FullSignals(s) /\ x.path \notin B
                                            \/ \E p \in fresh : x \in Emitted(p, s2[p])
<1>1. \A p \in fresh : p \in NonBlank(s2)
    BY DEF NonBlank, FreshIn
<1>2. \A p \in NonBlank(s2) : p \in fresh \/ (p \in NonBlank(s) /\ p \notin B /\ s2[p] = s[p])
    BY DEF NonBlank, FreshIn
<1>3. \A p \in NonBlank(s) : p \in B \/ (p \in NonBlank(s2) /\ s2[p] = s[p])
    BY DEF NonBlank, FreshIn
<1>4. \A p \in fresh : p \in B
    BY DEF FreshIn
<1>5. \A p, c : \A x \in Emitted(p, c) : x.path = p
    BY DEF Emitted, Signal
<1>6. \A x : x \in FullSignals(s) <=> \E p \in NonBlank(s) : x \in Emitted(p, s[p])
    BY DEF FullSignals
<1>7. \A x : x \in FullSignals(s2) <=> \E p \in NonBlank(s2) : x \in Emitted(p, s2[p])
    BY DEF FullSignals
<1>8. QED
    BY <1>1, <1>2, <1>3, <1>4, <1>5, <1>6, <1>7

\* A content's signals name its chunk, and its relations its module.
LEMMA EmittedOwners ==
    ASSUME NEW p, NEW c, NEW active
    PROVE  /\ \A s \in Emitted(p, c) : ChunkOf(s) = ChunkId(p, c)
           /\ c # Blank => Signal(p, c, "module") \in Emitted(p, c)
           /\ \A r \in EmittedRelations(p, c, active) :
                  r.src = Signal(p, c, "module") /\ r.src.path = p /\ r.target = NoSignal
                  /\ Shaped(r) /\ r.kind \in {"imports", "uses_type"}
<1>1. \A s \in Emitted(p, c) : ChunkOf(s) = ChunkId(p, c)
    BY DEF Emitted, ChunkOf, ChunkId, Signal
<1>2. c # Blank => Signal(p, c, "module") \in Emitted(p, c)
    BY DEF Emitted
<1>3. Selector(active).state \in {"external", "exact", "candidates"}
    BY DEF Selector
<1>4. \A r \in EmittedRelations(p, c, active) :
          r.src = Signal(p, c, "module") /\ r.target = NoSignal
          /\ Shaped(r) /\ r.kind \in {"imports", "uses_type"}
    BY <1>3 DEF EmittedRelations, Relation, Shaped
<1>5. Signal(p, c, "module").path = p
    BY DEF Signal
<1>6. QED
    BY <1>1, <1>2, <1>4, <1>5

LEMMA EmittedDistinct ==
    ASSUME NEW p, NEW c, NEW active
    PROVE  \A r1, r2 \in EmittedRelations(p, c, active) : IdOf(r1) = IdOf(r2) => r1 = r2
BY DEF EmittedRelations, Relation, IdOf

-----------------------------------------------------------------------------
(* The tables are well kept, whatever the run does *)

LEMMA StoreInit == Init => StoreInv
<1> SUFFICES ASSUME Init PROVE StoreInv
    OBVIOUS
<1>1. [p \in Paths |-> Absent] \in Snapshots /\ NonBlank(rows) = {} /\ rows \in Snapshots
    BY DEF Init, Snapshots, NonBlank
<1>2. Types
    BY <1>1, LimitsAssumption DEF Init, Types, IsTable, Empty
<1>3. Separate
    BY DEF Init, Separate, Empty, Disjoint, Identified
<1>4. RowsLive
    BY <1>1 DEF Init, RowsLive, Empty, FullChunks, FullSignals
<1>5. RunShape
    BY <1>1 DEF Init, RunShape, RunType, NoRun, RunSteps
<1>6. Generations
    BY DEF Init, Generations
<1>7. PurgeLeavesNoOrphans
    BY DEF Init, PurgeLeavesNoOrphans, Empty
<1>8. QED
    BY <1>2, <1>3, <1>4, <1>5, <1>6, <1>7 DEF StoreInv

LEMMA TablesUntouched ==
    ASSUME StoreInv, UNCHANGED <<rows, chunks, signals, rels>>
    PROVE  /\ Separate' /\ RowsLive' /\ PurgeLeavesNoOrphans'
           /\ rows' \in Snapshots
           /\ IsTable(chunks') /\ IsTable(signals') /\ IsTable(rels')
           /\ \A r \in rels'.live : Shaped(r)
<1>1. Separate'
    BY DEF StoreInv, Separate
<1>2. RowsLive'
    BY DEF StoreInv, RowsLive
<1>3. PurgeLeavesNoOrphans'
    BY DEF StoreInv, PurgeLeavesNoOrphans
<1>4. QED
    BY <1>1, <1>2, <1>3 DEF StoreInv, Types

LEMMA RunTyped ==
    ASSUME NEW kind \in {"index", "refresh"}, NEW target \in Snapshots, NEW force \in BOOLEAN
    PROVE  Run(kind, target, force) \in RunType
<1>1. /\ Present(target) \in SUBSET Paths /\ Changed(target) \in SUBSET Paths
      /\ Vanished(target) \in SUBSET Paths /\ NonBlank(target) \in SUBSET Paths
      /\ RelationSources(target) \in SUBSET Paths
    BY DEF Present, Changed, Vanished, NonBlank, RelationSources
<1>2. (IF force THEN Present(target)
       ELSE Changed(target) \union (IF graph = "stale" THEN NonBlank(target)
                                    ELSE RelationSources(target))) \in SUBSET Paths
    BY <1>1
<1>3. (/\ kind = "index" /\ graph = "ready" /\ ~force
       /\ Changed(target) = {} /\ Vanished(target) = {}) \in BOOLEAN
    OBVIOUS
<1>4. QED
    BY <1>1, <1>2, <1>3 DEF Run, RunType

\* The files that are neither written nor deleted are those of the target.
LEMMA RunCovers ==
    ASSUME NEW kind, NEW target \in Snapshots, NEW force \in BOOLEAN,
           NEW r, r = Run(kind, target, force)
    PROVE  /\ r.todo \subseteq Present(target) /\ r.del \intersect Present(target) = {}
           /\ \A p \in Paths \ (r.todo \union r.del) : rows[p] = target[p]
           /\ r.quiet => r.kind = "index" /\ r.todo = {} /\ r.del = {} /\ graph = "ready"
           /\ r.target = target /\ r.kind = kind
<1>1. /\ r.todo = IF force THEN Present(target)
                  ELSE Changed(target) \union (IF graph = "stale" THEN NonBlank(target)
                                               ELSE RelationSources(target))
      /\ r.del = Vanished(target) /\ r.target = target /\ r.kind = kind
      /\ r.quiet = (/\ kind = "index" /\ graph = "ready" /\ ~force
                    /\ Changed(target) = {} /\ Vanished(target) = {})
    BY DEF Run
<1>2. r.todo \subseteq Present(target)
    BY <1>1 DEF Present, Changed, NonBlank, RelationSources
<1>3. r.del \intersect Present(target) = {}
    BY <1>1 DEF Vanished
<1>4. ASSUME NEW p \in Paths \ (r.todo \union r.del) PROVE rows[p] = target[p]
    BY <1>1, <1>4 DEF Present, Changed, Vanished
<1>5. ASSUME r.quiet PROVE r.kind = "index" /\ r.todo = {} /\ r.del = {} /\ graph = "ready"
    <2>1. kind = "index" /\ graph = "ready" /\ ~force /\ Changed(target) = {} /\ Vanished(target) = {}
        BY <1>1, <1>5
    <2>2. Present(rows) = Present(target)
        BY <2>1 DEF Present, Changed, Vanished
    <2>3. QED
        BY <1>1, <2>1, <2>2 DEF RelationSources
<1>6. QED
    BY <1>1, <1>2, <1>3, <1>4, <1>5

LEMMA StartStore ==
    ASSUME StoreInv, NEW kind \in {"index", "refresh"}, Start(kind)
    PROVE  StoreInv'
<1>1. PICK target \in Snapshots, force \in BOOLEAN : run' = Run(kind, target, force)
    BY DEF Start
<1>2. /\ pc = "idle" /\ pc' = "markStale" /\ runs < MaxRuns /\ runs' = runs + 1
      /\ UNCHANGED <<rows, chunks, signals, rels, graph, full, prodGen, assocGen>>
    BY DEF Start, dbVars
<1>3. Separate' /\ RowsLive' /\ PurgeLeavesNoOrphans'
    BY <1>2, TablesUntouched
<1>4. Types'
    BY <1>2, TablesUntouched, LimitsAssumption DEF StoreInv, Types
<1>5. RunShape'
    <2>1. run' \in RunType
        BY <1>1, RunTyped
    <2>2. /\ run'.todo \subseteq Present(target) /\ run'.del \intersect Present(target) = {}
          /\ \A p \in Paths \ (run'.todo \union run'.del) : rows[p] = target[p]
          /\ run'.quiet => run'.kind = "index" /\ run'.todo = {} /\ run'.del = {}
          /\ run'.target = target
        <3> DEFINE r == Run(kind, target, force)
        <3>1. /\ r.todo \subseteq Present(target) /\ r.del \intersect Present(target) = {}
              /\ \A p \in Paths \ (r.todo \union r.del) : rows[p] = target[p]
              /\ r.quiet => r.kind = "index" /\ r.todo = {} /\ r.del = {} /\ graph = "ready"
              /\ r.target = target
            BY RunCovers
        <3> HIDE DEF r
        <3>2. run' = r
            BY <1>1 DEF r
        <3>3. QED
            BY <3>1, <3>2
    <2>3. QED
        BY <1>2, <2>1, <2>2 DEF RunShape, RunSteps
<1>6. Generations'
    BY <1>2 DEF StoreInv, Types, Generations
<1>7. QED
    BY <1>3, <1>4, <1>5, <1>6 DEF StoreInv

LEMMA MarkStaleStore == StoreInv /\ MarkStale => StoreInv'
<1> SUFFICES ASSUME StoreInv, MarkStale PROVE StoreInv'
    OBVIOUS
<1>1. /\ pc = "markStale" /\ pc' = "write" /\ graph' = "stale" /\ full' = (full \/ run.force)
      /\ UNCHANGED <<rows, chunks, signals, rels, prodGen, assocGen, run, runs>>
    BY DEF MarkStale
<1>2. Separate' /\ RowsLive' /\ PurgeLeavesNoOrphans'
    BY <1>1, TablesUntouched
<1>3. full' \in BOOLEAN
    BY <1>1
<1>4. Types'
    BY <1>1, <1>3, TablesUntouched DEF StoreInv, Types
<1>5. RunShape'
    BY <1>1 DEF StoreInv, RunShape, RunSteps
<1>6. Generations'
    BY <1>1 DEF StoreInv, Generations
<1>7. QED
    BY <1>2, <1>4, <1>5, <1>6 DEF StoreInv

LEMMA WrittenStore == StoreInv /\ Written => StoreInv'
<1> SUFFICES ASSUME StoreInv, Written PROVE StoreInv'
    OBVIOUS
<1>1. /\ pc = "write" /\ pc' = (IF run.quiet THEN "commit" ELSE "resolve")
      /\ run.todo = {} /\ run.del = {}
      /\ UNCHANGED <<rows, chunks, signals, rels, graph, full, prodGen, assocGen, run, runs>>
    BY DEF Written, dbVars
<1>2. Separate' /\ RowsLive' /\ PurgeLeavesNoOrphans'
    BY <1>1, TablesUntouched
<1>3. Types'
    BY <1>1, TablesUntouched DEF StoreInv, Types
<1>4. RunShape'
    BY <1>1 DEF StoreInv, RunShape, RunSteps
<1>5. Generations'
    BY <1>1 DEF StoreInv, Types, Generations
<1>6. QED
    BY <1>2, <1>3, <1>4, <1>5 DEF StoreInv

LEMMA AdvanceStore == StoreInv /\ AdvanceGeneration => StoreInv'
<1> SUFFICES ASSUME StoreInv, AdvanceGeneration PROVE StoreInv'
    OBVIOUS
<1>1. /\ pc = "advance" /\ pc' = "associate" /\ prodGen' = prodGen + 1
      /\ UNCHANGED <<rows, chunks, signals, rels, graph, full, assocGen, run, runs>>
    BY DEF AdvanceGeneration
<1>2. Separate' /\ RowsLive' /\ PurgeLeavesNoOrphans'
    BY <1>1, TablesUntouched
<1>3. Types'
    BY <1>1, TablesUntouched DEF StoreInv, Types
<1>4. RunShape'
    BY <1>1 DEF StoreInv, RunShape, RunSteps
<1>5. Generations'
    <2>1. prodGen + 1 <= runs /\ assocGen <= prodGen
        BY <1>1 DEF StoreInv, Generations
    <2>2. prodGen \in Nat /\ assocGen \in Nat /\ runs \in Int
        BY DEF StoreInv, Types
    <2>3. prodGen' + 0 <= runs' /\ assocGen' <= prodGen'
        BY <1>1, <2>1, <2>2
    <2>4. pc' \notin {"markStale", "write", "resolve", "advance", "resolveTests", "commit"}
        BY <1>1
    <2>5. QED
        BY <2>3, <2>4 DEF Generations
<1>6. QED
    BY <1>2, <1>3, <1>4, <1>5 DEF StoreInv

LEMMA NoRunShaped == NoRun \in RunType
BY DEF NoRun, RunType, Snapshots

LEMMA DieStore == StoreInv /\ Die => StoreInv'
<1> SUFFICES ASSUME StoreInv, Die PROVE StoreInv'
    OBVIOUS
<1>1. /\ pc' = "idle" /\ run' = NoRun
      /\ UNCHANGED <<rows, chunks, signals, rels, graph, full, prodGen, assocGen, runs>>
    BY DEF Die, dbVars
<1>2. Separate' /\ RowsLive' /\ PurgeLeavesNoOrphans'
    BY <1>1, TablesUntouched
<1>3. Types'
    BY <1>1, TablesUntouched DEF StoreInv, Types
<1>4. RunShape'
    <2>1. ~NoRun.quiet
        BY DEF NoRun
    <2>2. QED
        BY <1>1, <2>1, NoRunShaped DEF RunShape, RunSteps
<1>5. Generations'
    BY <1>1 DEF StoreInv, Types, Generations
<1>6. QED
    BY <1>2, <1>3, <1>4, <1>5 DEF StoreInv

\* A resolution changes nothing but the resolution, and targets live signals.
Resolve(r, modules) ==
    IF r.tkind = "module" THEN ResolveModule(r)
    ELSE IF r.tkind = "declaration" THEN ResolveDeclaration(r, modules)
    ELSE ResolveName(r)

LEMMA TargetKeeps ==
    ASSUME NEW r, NEW matches, NEW resolved
    PROVE  \E res, t : /\ Target(r, matches, resolved) = Updated(r, res, t)
                       /\ t # NoSignal => t \in matches
<1>1. CASE matches = {}
    BY <1>1 DEF Target
<1>2. CASE matches # {} /\ Cardinality(matches) > 1
    BY <1>2 DEF Target
<1>3. CASE matches # {} /\ ~(Cardinality(matches) > 1)
    <2>1. (CHOOSE s \in matches : TRUE) \in matches
        BY <1>3
    <2>2. Target(r, matches, resolved) = Updated(r, resolved, CHOOSE s \in matches : TRUE)
        BY <1>3 DEF Target
    <2>3. QED
        BY <2>1, <2>2
<1>4. QED
    BY <1>1, <1>2, <1>3

LEMMA ResolveKeeps ==
    ASSUME NEW r, NEW modules, Shaped(r)
    PROVE  \E res, t : /\ Resolve(r, modules) = Updated(r, res, t)
                       /\ t # NoSignal => t \in signals.live
<1>1. CASE r.tkind = "module"
    <2>1. r.state \in {"external", "candidates", "exact"}
        BY <1>1 DEF Shaped
    <2>2. CASE r.state = "external"
        BY <1>1, <2>2 DEF Resolve, ResolveModule
    <2>3. CASE r.state = "candidates"
        BY <1>1, <2>3 DEF Resolve, ResolveModule
    <2>4. CASE r.state = "exact"
        <3>1. Resolve(r, modules) = Target(r, LiveAt(r.name, "module"), "resolved_exact")
            BY <1>1, <2>4 DEF Resolve, ResolveModule
        <3>2. LiveAt(r.name, "module") \subseteq signals.live
            BY DEF LiveAt
        <3>3. QED
            BY <3>1, <3>2, TargetKeeps
    <2>5. QED
        BY <2>1, <2>2, <2>3, <2>4
<1>2. CASE r.tkind = "declaration"
    <2> DEFINE bound == \E m \in modules :
                            /\ m.src = r.src
                            /\ m.name = r.name
                            /\ m.res = "resolved_exact"
                            /\ m.target.path = r.name
               matches == IF bound THEN LiveAt(r.name, "declaration") ELSE {}
    <2>1. Resolve(r, modules) = Target(r, matches, "resolved_exact")
        BY <1>2 DEF Resolve, ResolveDeclaration
    <2>2. matches \subseteq signals.live
        BY DEF LiveAt
    <2>3. QED
        BY <2>1, <2>2, TargetKeeps
<1>3. CASE r.tkind \notin {"module", "declaration"}
    <2> DEFINE matches == {s \in signals.live : s.kind = "declaration"}
    <2>1. Resolve(r, modules) = Target(r, matches, "resolved_unique")
        BY <1>3 DEF Resolve, ResolveName
    <2>2. matches \subseteq signals.live
        OBVIOUS
    <2>3. QED
        BY <2>1, <2>2, TargetKeeps
<1>4. QED
    BY <1>1, <1>2, <1>3

ModulesOf(X) == {ResolveModule(r) : r \in ModuleRelations(X)}

LEMMA ResolvedMember ==
    ASSUME NEW X, \A r \in X : Shaped(r), NEW x
    PROVE  x \in Resolved(X) <=> \E r \in X : x = Resolve(r, ModulesOf(X))
<1>1. \A r \in X : r.tkind \in {"module", "declaration", "type"}
    BY DEF Shaped
<1>2. Resolved(X) = ModulesOf(X)
          \union {ResolveDeclaration(r, ModulesOf(X)) : r \in {z \in X : z.tkind = "declaration"}}
          \union {ResolveName(r) : r \in {z \in X : z.tkind = "type"}}
    BY DEF Resolved, ModulesOf
<1>3. \A z : z \in ModulesOf(X) <=> \E r \in X : r.tkind = "module" /\ z = ResolveModule(r)
    BY DEF ModulesOf, ModuleRelations
<1> DEFINE M == ModulesOf(X)
<1>4. x \in Resolved(X) <=>
          \/ \E r \in X : r.tkind = "module" /\ x = ResolveModule(r)
          \/ \E r \in X : r.tkind = "declaration" /\ x = ResolveDeclaration(r, M)
          \/ \E r \in X : r.tkind = "type" /\ x = ResolveName(r)
    BY <1>2, <1>3
<1> HIDE DEF M
<1>5. x \in Resolved(X) <=> \E r \in X : x = Resolve(r, M)
    BY <1>1, <1>4 DEF Resolve
<1>6. QED
    BY <1>5 DEF M

LEMMA ResolvedRows ==
    ASSUME NEW X, \A r \in X : Shaped(r), NEW x \in Resolved(X)
    PROVE  \E r \in X : /\ x = Resolve(r, ModulesOf(X))
                        /\ IdOf(x) = IdOf(r) /\ Plain(x) = Plain(r)
                        /\ x.src = r.src /\ x.kind = r.kind /\ Shaped(x)
                        /\ x.target # NoSignal => x.target \in signals.live
<1>1. PICK r \in X : x = Resolve(r, ModulesOf(X))
    BY ResolvedMember
<1>2. PICK res, t : /\ x = Updated(r, res, t)
                    /\ t # NoSignal => t \in signals.live
    BY <1>1, ResolveKeeps
<1>3. /\ x.src = r.src /\ x.kind = r.kind /\ x.tkind = r.tkind /\ x.name = r.name
      /\ x.state = r.state /\ x.target = t /\ IdOf(x) = IdOf(r) /\ Plain(x) = Plain(r)
    BY <1>2, UpdatedFields
<1>4. Shaped(x)
    BY <1>3 DEF Shaped
<1>5. QED
    BY <1>1, <1>2, <1>3, <1>4

\* Some of the live relations are resolved in place.
LEMMA ResolvedInPlace ==
    ASSUME StoreInv, NEW done, NEW X, rels.live = done \union X, done \intersect X = {},
           NEW t, t = [live |-> done \union Resolved(X), dead |-> rels.dead]
    PROVE  /\ IsTable(t) /\ Identified(t)
           /\ \A r \in t.live : Shaped(r) /\ r.src \in signals.live
           /\ \A r \in t.live \union t.dead :
                  /\ r.src \in signals.live \union signals.dead
                  /\ r.target # NoSignal => r.target \in signals.live \union signals.dead
<1>1. /\ \A r \in rels.live : Shaped(r) /\ r.src \in signals.live
      /\ Identified(rels)
    BY DEF StoreInv, Types, RowsLive, Separate
<1>2. \A r \in rels.live \union rels.dead :
          /\ r.src \in signals.live \union signals.dead
          /\ r.target # NoSignal => r.target \in signals.live \union signals.dead
    BY DEF StoreInv, PurgeLeavesNoOrphans
<1>3. \A x \in Resolved(X) : \E r \in X :
          /\ x = Resolve(r, ModulesOf(X)) /\ IdOf(x) = IdOf(r) /\ x.src = r.src /\ Shaped(x)
          /\ x.target # NoSignal => x.target \in signals.live
    BY <1>1, ResolvedRows
<1>4. t.live = done \union Resolved(X) /\ t.dead = rels.dead /\ IsTable(t)
    BY DEF IsTable
<1>5. ASSUME NEW x \in Resolved(X), NEW y \in t.live, IdOf(x) = IdOf(y) PROVE x = y
    <2>1. PICK r \in X : x = Resolve(r, ModulesOf(X)) /\ IdOf(x) = IdOf(r)
        BY <1>3
    <2>2. CASE y \in done
        BY <1>1, <1>5, <2>1, <2>2 DEF Identified
    <2>3. CASE y \in Resolved(X)
        <3>1. PICK q \in X : y = Resolve(q, ModulesOf(X)) /\ IdOf(y) = IdOf(q)
            BY <1>3, <2>3
        <3>2. r = q
            BY <1>1, <1>5, <2>1, <3>1 DEF Identified
        <3>3. QED
            BY <2>1, <3>1, <3>2
    <2>4. QED
        BY <1>4, <2>2, <2>3
<1>6. ASSUME NEW x \in t.live, NEW y \in t.live, IdOf(x) = IdOf(y) PROVE x = y
    BY <1>1, <1>4, <1>5, <1>6 DEF Identified
<1>7. ASSUME NEW x \in t.live, NEW y \in t.dead PROVE IdOf(x) # IdOf(y)
    BY <1>1, <1>3, <1>4, <1>7 DEF Identified
<1>8. Identified(t)
    BY <1>6, <1>7 DEF Identified
<1>9. \A r \in t.live : Shaped(r) /\ r.src \in signals.live
    BY <1>1, <1>3, <1>4
<1>10. \A r \in t.live \union t.dead :
           /\ r.src \in signals.live \union signals.dead
           /\ r.target # NoSignal => r.target \in signals.live \union signals.dead
    BY <1>2, <1>3, <1>4
<1>11. QED
    BY <1>4, <1>8, <1>9, <1>10

\* Producers and associations share no relation.
LEMMA OfParts ==
    ASSUME Types
    PROVE  /\ rels.live = Of({"tests"}) \union Producers
           /\ Of({"tests"}) \intersect Producers = {}
BY DEF Types, Shaped, Of, Producers

\* The chunks and signals are not touched by what rewrites relations alone.
LEMMA RelationsRewritten ==
    ASSUME StoreInv, UNCHANGED <<rows, chunks, signals>>, IsTable(rels'), Identified(rels'),
           \A r \in rels'.live : Shaped(r) /\ r.src \in signals.live,
           \A r \in rels'.live \union rels'.dead :
               /\ r.src \in signals.live \union signals.dead
               /\ r.target # NoSignal => r.target \in signals.live \union signals.dead
    PROVE  /\ Separate' /\ RowsLive' /\ PurgeLeavesNoOrphans'
           /\ rows' \in Snapshots
           /\ IsTable(chunks') /\ IsTable(signals') /\ IsTable(rels')
           /\ \A r \in rels'.live : Shaped(r)
<1>1. Separate'
    BY DEF StoreInv, Separate
<1>2. RowsLive'
    BY DEF StoreInv, RowsLive
<1>3. PurgeLeavesNoOrphans'
    BY DEF StoreInv, PurgeLeavesNoOrphans
<1>4. QED
    BY <1>1, <1>2, <1>3 DEF StoreInv, Types

LEMMA ResolveProducersStore == StoreInv /\ ResolveProducers => StoreInv'
<1> SUFFICES ASSUME StoreInv, ResolveProducers PROVE StoreInv'
    OBVIOUS
<1>1. /\ pc = "resolve" /\ pc' = "advance"
      /\ UNCHANGED <<rows, chunks, signals, graph, full, prodGen, assocGen, run, runs>>
      /\ rels' = [live |-> Of({"tests"}) \union Resolved(Producers), dead |-> rels.dead]
    BY DEF ResolveProducers, StoreInv, Types, IsTable, Producers
<1>2. /\ IsTable(rels') /\ Identified(rels')
      /\ \A r \in rels'.live : Shaped(r) /\ r.src \in signals.live
      /\ \A r \in rels'.live \union rels'.dead :
             /\ r.src \in signals.live \union signals.dead
             /\ r.target # NoSignal => r.target \in signals.live \union signals.dead
    BY <1>1, OfParts, ResolvedInPlace DEF StoreInv
<1>3. /\ Separate' /\ RowsLive' /\ PurgeLeavesNoOrphans'
      /\ rows' \in Snapshots
      /\ IsTable(chunks') /\ IsTable(signals') /\ IsTable(rels')
      /\ \A r \in rels'.live : Shaped(r)
    BY <1>1, <1>2, RelationsRewritten
<1>4. Types'
    BY <1>1, <1>3 DEF StoreInv, Types
<1>5. RunShape'
    BY <1>1 DEF StoreInv, RunShape, RunSteps
<1>6. Generations'
    BY <1>1 DEF StoreInv, Types, Generations
<1>7. QED
    BY <1>3, <1>4, <1>5, <1>6 DEF StoreInv

LEMMA ResolveTestsStore == StoreInv /\ ResolveTests => StoreInv'
<1> SUFFICES ASSUME StoreInv, ResolveTests PROVE StoreInv'
    OBVIOUS
<1>1. /\ pc = "resolveTests" /\ pc' = "commit"
      /\ UNCHANGED <<rows, chunks, signals, graph, full, prodGen, assocGen, run, runs>>
      /\ rels' = [live |-> Producers \union Resolved(Of({"tests"})), dead |-> rels.dead]
    BY DEF ResolveTests, StoreInv, Types, IsTable, Producers
<1>2. rels.live = Producers \union Of({"tests"}) /\ Producers \intersect Of({"tests"}) = {}
    BY OfParts DEF StoreInv
<1>3. /\ IsTable(rels') /\ Identified(rels')
      /\ \A r \in rels'.live : Shaped(r) /\ r.src \in signals.live
      /\ \A r \in rels'.live \union rels'.dead :
             /\ r.src \in signals.live \union signals.dead
             /\ r.target # NoSignal => r.target \in signals.live \union signals.dead
    BY <1>1, <1>2, ResolvedInPlace
<1>4. /\ Separate' /\ RowsLive' /\ PurgeLeavesNoOrphans'
      /\ rows' \in Snapshots
      /\ IsTable(chunks') /\ IsTable(signals') /\ IsTable(rels')
      /\ \A r \in rels'.live : Shaped(r)
    BY <1>1, <1>3, RelationsRewritten
<1>5. Types'
    BY <1>1, <1>4 DEF StoreInv, Types
<1>6. RunShape'
    BY <1>1 DEF StoreInv, RunShape, RunSteps
<1>7. Generations'
    BY <1>1 DEF StoreInv, Types, Generations
<1>8. QED
    BY <1>4, <1>5, <1>6, <1>7 DEF StoreInv

\* An association starts at a live module and has an identity of its own.
LEMMA AssociationRows ==
    /\ \A r \in Associations : /\ r.src \in signals.live /\ r.target = NoSignal /\ r.kind = "tests"
                               /\ Shaped(r)
    /\ \A r1, r2 \in Associations : IdOf(r1) = IdOf(r2) => r1 = r2
<1>1. \A r \in Associations : \E s \in signals.live : \E p : r = Relation(s, "tests", "module", p, "exact")
    BY DEF Associations, UniqueModules
<1>2. \A s, p : LET r == Relation(s, "tests", "module", p, "exact")
                IN  /\ r.src = s /\ r.target = NoSignal /\ r.kind = "tests" /\ Shaped(r)
                    /\ IdOf(r) = <<s, "tests", "module", p>>
    BY DEF Relation, Shaped, IdOf
<1>3. QED
    BY <1>1, <1>2

LEMMA AssociateStore == StoreInv /\ Associate => StoreInv'
<1> SUFFICES ASSUME StoreInv, Associate PROVE StoreInv'
    OBVIOUS
<1>1. /\ pc = "associate" /\ pc' = "resolveTests" /\ assocGen' = prodGen
      /\ UNCHANGED <<rows, chunks, signals, graph, full, prodGen, run, runs>>
      /\ rels' = ReplacedRelations(rels, Of({"tests"}), Associations)
    BY DEF Associate
<1>2. /\ IsTable(rels') /\ Identified(rels')
      /\ \A x \in rels'.live : x \in rels.live \ Of({"tests"}) \/ x \in Associations
      /\ \A x \in rels'.dead : x \in rels.live \union rels.dead
    <2>1. Of({"tests"}) \subseteq rels.live /\ Identified(rels)
        BY DEF Of, StoreInv, Separate
    <2>2. QED
        BY <1>1, <2>1, AssociationRows, ReplacedIdentified
<1>3. /\ \A r \in rels'.live : Shaped(r) /\ r.src \in signals.live
      /\ \A r \in rels'.live \union rels'.dead :
             /\ r.src \in signals.live \union signals.dead
             /\ r.target # NoSignal => r.target \in signals.live \union signals.dead
    BY <1>2, AssociationRows DEF StoreInv, Types, RowsLive, PurgeLeavesNoOrphans
<1>4. /\ Separate' /\ RowsLive' /\ PurgeLeavesNoOrphans'
      /\ rows' \in Snapshots
      /\ IsTable(chunks') /\ IsTable(signals') /\ IsTable(rels')
      /\ \A r \in rels'.live : Shaped(r)
    BY <1>1, <1>2, <1>3, RelationsRewritten
<1>5. Types'
    BY <1>1, <1>4 DEF StoreInv, Types
<1>6. RunShape'
    BY <1>1 DEF StoreInv, RunShape, RunSteps
<1>7. Generations'
    BY <1>1 DEF StoreInv, Types, Generations
<1>8. QED
    BY <1>4, <1>5, <1>6, <1>7 DEF StoreInv

\* A file written or deleted takes its chunks, signals and relations along.
FilesWritten(B, fresh) ==
    /\ rows' \in Snapshots
    /\ \A p \in Paths \ B : rows'[p] = rows[p]
    /\ fresh = FreshIn(rows', B)
NewRelations(fresh, new) ==
    /\ \A r \in new : /\ \E p \in fresh : r.src = Signal(p, rows'[p], "module")
                      /\ r.target = NoSignal /\ Shaped(r)
    /\ \A r1, r2 \in new : IdOf(r1) = IdOf(r2) => r1 = r2
TablesReplaced(B, fresh, new) ==
    /\ chunks' = Replaced(chunks, {c \in chunks.live : c.path \in B},
                          {ChunkId(p, rows'[p]) : p \in fresh})
    /\ signals' = Replaced(signals, {s \in signals.live : s.path \in B},
                           UNION {Emitted(p, rows'[p]) : p \in fresh})
    /\ rels' = ReplacedRelations(rels, {r \in rels.live : r.src.path \in B}, new)

LEMMA FilesRewritten ==
    ASSUME StoreInv, NEW B \in SUBSET Paths, NEW fresh, NEW newRels,
           FilesWritten(B, fresh), NewRelations(fresh, newRels),
           TablesReplaced(B, fresh, newRels)
    PROVE  /\ Separate' /\ RowsLive' /\ PurgeLeavesNoOrphans'
           /\ IsTable(chunks') /\ IsTable(signals') /\ IsTable(rels')
           /\ \A r \in rels'.live : Shaped(r)
<1> DEFINE goneC == {c \in chunks.live : c.path \in B}
           newC  == {ChunkId(p, rows'[p]) : p \in fresh}
           goneS == {s \in signals.live : s.path \in B}
           newS  == UNION {Emitted(p, rows'[p]) : p \in fresh}
           goneR == {r \in rels.live : r.src.path \in B}
<1>1. /\ Disjoint(chunks) /\ Disjoint(signals) /\ Identified(rels)
      /\ chunks.live = FullChunks(rows) /\ signals.live = FullSignals(rows)
      /\ \A r \in rels.live : r.src \in signals.live /\ Shaped(r)
    BY DEF StoreInv, Separate, RowsLive, Types
<1>2. /\ IsTable(chunks') /\ Disjoint(chunks')
      /\ chunks'.live = (chunks.live \ goneC) \union newC
      /\ \A x : x \in chunks'.live \union chunks'.dead <=>
                    x \in chunks.live \union chunks.dead \union newC
    <2>1. goneC \subseteq chunks.live
        OBVIOUS
    <2>2. chunks' = Replaced(chunks, goneC, newC)
        BY DEF TablesReplaced
    <2> HIDE DEF goneC, newC
    <2>3. QED
        BY <1>1, <2>1, <2>2, ReplacedTable
<1>3. /\ IsTable(signals') /\ Disjoint(signals')
      /\ signals'.live = (signals.live \ goneS) \union newS
      /\ \A x : x \in signals'.live \union signals'.dead <=>
                    x \in signals.live \union signals.dead \union newS
    <2>1. goneS \subseteq signals.live
        OBVIOUS
    <2>2. signals' = Replaced(signals, goneS, newS)
        BY DEF TablesReplaced
    <2> HIDE DEF goneS, newS
    <2>3. QED
        BY <1>1, <2>1, <2>2, ReplacedTable
<1>4. /\ IsTable(rels') /\ Identified(rels')
      /\ \A x \in rels'.live : x \in rels.live \ goneR \/ x \in newRels
      /\ \A x \in rels'.dead : x \in rels.live \union rels.dead
    <2>1. goneR \subseteq rels.live
        OBVIOUS
    <2>2. rels' = ReplacedRelations(rels, goneR, newRels)
        BY DEF TablesReplaced
    <2> HIDE DEF goneR
    <2>3. QED
        BY <1>1, <2>1, <2>2, ReplacedIdentified DEF NewRelations
<1>5. chunks'.live = FullChunks(rows')
    <2>1. \A x : x \in FullChunks(rows') <=> \/ x \in FullChunks(rows) /\ x.path \notin B
                                             \/ \E p \in fresh : x = ChunkId(p, rows'[p])
        BY ChunksRewritten DEF FilesWritten
    <2>2. \A x : x \in chunks'.live <=> \/ x \in FullChunks(rows) /\ x.path \notin B
                                        \/ \E p \in fresh : x = ChunkId(p, rows'[p])
        BY <1>1, <1>2
    <2>3. QED
        BY <2>1, <2>2
<1>6. signals'.live = FullSignals(rows')
    <2>1. \A x : x \in FullSignals(rows') <=> \/ x \in FullSignals(rows) /\ x.path \notin B
                                              \/ \E p \in fresh : x \in Emitted(p, rows'[p])
        BY SignalsRewritten DEF FilesWritten
    <2>2. \A x : x \in signals'.live <=> \/ x \in FullSignals(rows) /\ x.path \notin B
                                         \/ \E p \in fresh : x \in Emitted(p, rows'[p])
        BY <1>1, <1>3
    <2>3. QED
        BY <2>1, <2>2
<1>7. \A r \in newRels : r.src \in newS
    <2>1. ASSUME NEW r \in newRels PROVE r.src \in newS
        <3>1. PICK p \in fresh : r.src = Signal(p, rows'[p], "module")
            BY DEF NewRelations
        <3>2. rows'[p] # Blank
            BY DEF FilesWritten, FreshIn
        <3>3. r.src \in Emitted(p, rows'[p])
            BY <3>1, <3>2 DEF Emitted
        <3>4. QED
            BY <3>3
    <2>2. QED
        BY <2>1
<1>8. \A r \in rels.live \ goneR : r.src \in signals.live \ goneS
    BY <1>1
<1>9. \A s \in newS : ChunkOf(s) \in newC
    <2>1. ASSUME NEW p \in fresh, NEW s \in Emitted(p, rows'[p]) PROVE ChunkOf(s) \in newC
        <3>1. ChunkOf(s) = ChunkId(p, rows'[p])
            BY DEF Emitted, ChunkOf, ChunkId, Signal
        <3>2. QED
            BY <3>1
    <2>2. QED
        BY <2>1
<1> HIDE DEF goneC, newC, goneS, newS, goneR
<1>10. Separate'
    BY <1>2, <1>3, <1>4 DEF Separate
<1>11. RowsLive'
    BY <1>3, <1>4, <1>5, <1>6, <1>7, <1>8 DEF RowsLive
<1>12. PurgeLeavesNoOrphans'
    <2>1. /\ \A r \in rels.live \union rels.dead :
                 /\ r.src \in signals.live \union signals.dead
                 /\ r.target # NoSignal => r.target \in signals.live \union signals.dead
          /\ \A s \in signals.live \union signals.dead : ChunkOf(s) \in chunks.live \union chunks.dead
        BY DEF StoreInv, PurgeLeavesNoOrphans
    <2>2. \A r \in rels'.live \union rels'.dead :
              /\ r.src \in signals'.live \union signals'.dead
              /\ r.target # NoSignal => r.target \in signals'.live \union signals'.dead
        BY <1>3, <1>4, <1>7, <2>1 DEF NewRelations
    <2>3. \A s \in signals'.live \union signals'.dead : ChunkOf(s) \in chunks'.live \union chunks'.dead
        BY <1>2, <1>3, <1>9, <2>1
    <2>4. QED
        BY <2>2, <2>3 DEF PurgeLeavesNoOrphans
<1>13. \A r \in rels'.live : Shaped(r)
    BY <1>1, <1>4 DEF NewRelations
<1>14. QED
    BY <1>2, <1>3, <1>4, <1>10, <1>11, <1>12, <1>13

\* The relations of a batch.
BatchRelations(B) ==
    UNION {EmittedRelations(p, run.target[p], Present(run.target)) :
           p \in {q \in B : run.target[q] # Blank}}

LEMMA WriteBatchFacts ==
    ASSUME StoreInv, WriteBatch
    PROVE  \E B \in SUBSET Paths :
               /\ B \subseteq run.todo
               /\ rows' = [p \in Paths |-> IF p \in B THEN run.target[p] ELSE rows[p]]
               /\ chunks' = Replaced(chunks, {c \in chunks.live : c.path \in B},
                      {ChunkId(p, run.target[p]) : p \in {q \in B : run.target[q] # Blank}})
               /\ signals' = Replaced(signals, {s \in signals.live : s.path \in B},
                      UNION {Emitted(p, run.target[p]) : p \in {q \in B : run.target[q] # Blank}})
               /\ rels' = ReplacedRelations(rels, {r \in rels.live : r.src.path \in B},
                                            BatchRelations(B))
               /\ run' = [run EXCEPT !.todo = @ \ B]
               /\ pc = "write" /\ pc' = "write" /\ run.todo # {}
               /\ UNCHANGED <<graph, full, prodGen, assocGen, runs>>
<1> DEFINE B == FirstFiles(BatchSize, run.todo)
<1>1. run.todo \in SUBSET Paths
    BY DEF StoreInv, RunShape, RunType
<1>2. B \in SUBSET Paths /\ B \subseteq run.todo
    BY <1>1 DEF FirstFiles
<1>3. /\ rows' = [p \in Paths |-> IF p \in B THEN run.target[p] ELSE rows[p]]
      /\ chunks' = Replaced(chunks, {c \in chunks.live : c.path \in B},
             {ChunkId(p, run.target[p]) : p \in {q \in B : run.target[q] # Blank}})
      /\ signals' = Replaced(signals, {s \in signals.live : s.path \in B},
             UNION {Emitted(p, run.target[p]) : p \in {q \in B : run.target[q] # Blank}})
      /\ rels' = ReplacedRelations(rels, {r \in rels.live : r.src.path \in B}, BatchRelations(B))
      /\ run' = [run EXCEPT !.todo = @ \ B]
      /\ pc = "write" /\ pc' = "write" /\ run.todo # {}
      /\ UNCHANGED <<graph, full, prodGen, assocGen, runs>>
    BY DEF WriteBatch, BatchRelations
<1> HIDE DEF B
<1>4. QED
    BY <1>2, <1>3

LEMMA WriteBatchStore == StoreInv /\ WriteBatch => StoreInv'
<1> SUFFICES ASSUME StoreInv, WriteBatch PROVE StoreInv'
    OBVIOUS
<1>1. PICK B \in SUBSET Paths :
          /\ B \subseteq run.todo
          /\ rows' = [p \in Paths |-> IF p \in B THEN run.target[p] ELSE rows[p]]
          /\ chunks' = Replaced(chunks, {c \in chunks.live : c.path \in B},
                 {ChunkId(p, run.target[p]) : p \in {q \in B : run.target[q] # Blank}})
          /\ signals' = Replaced(signals, {s \in signals.live : s.path \in B},
                 UNION {Emitted(p, run.target[p]) : p \in {q \in B : run.target[q] # Blank}})
          /\ rels' = ReplacedRelations(rels, {r \in rels.live : r.src.path \in B},
                                       BatchRelations(B))
          /\ run' = [run EXCEPT !.todo = @ \ B]
          /\ pc = "write" /\ pc' = "write" /\ run.todo # {}
          /\ UNCHANGED <<graph, full, prodGen, assocGen, runs>>
    BY WriteBatchFacts
<1>2. /\ run \in RunType /\ run.todo \subseteq Present(run.target)
      /\ run.del \intersect Present(run.target) = {}
      /\ \A p \in Paths \ (run.todo \union run.del) : rows[p] = run.target[p]
      /\ ~run.quiet /\ graph # "ready"
    BY <1>1 DEF StoreInv, RunShape, RunSteps
<1>3. /\ rows' \in Snapshots
      /\ \A p \in B : rows'[p] = run.target[p] /\ run.target[p] # Absent
      /\ \A p \in Paths \ B : rows'[p] = rows[p]
    <2>1. run.target \in Snapshots /\ rows \in Snapshots
        BY <1>2 DEF RunType, StoreInv, Types
    <2>2. \A p \in B : run.target[p] # Absent
        BY <1>1, <1>2 DEF Present
    <2>3. QED
        BY <1>1, <2>1, <2>2 DEF Snapshots
<1> DEFINE fresh == {q \in B : run.target[q] # Blank}
<1>4. /\ fresh = {p \in B : rows'[p] \notin {Absent, Blank}}
      /\ {ChunkId(p, run.target[p]) : p \in fresh} = {ChunkId(p, rows'[p]) : p \in fresh}
      /\ (UNION {Emitted(p, run.target[p]) : p \in fresh}) = UNION {Emitted(p, rows'[p]) : p \in fresh}
    BY <1>3
<1>5. \A r \in BatchRelations(B) :
          /\ \E p \in fresh : r.src = Signal(p, rows'[p], "module")
          /\ r.target = NoSignal /\ Shaped(r)
    <2>1. \A r \in BatchRelations(B) : \E p \in fresh :
              r \in EmittedRelations(p, run.target[p], Present(run.target))
        BY DEF BatchRelations
    <2> HIDE DEF fresh
    <2>2. \A p \in fresh : rows'[p] = run.target[p]
        BY <1>3 DEF fresh
    <2>3. QED
        BY <2>1, <2>2, EmittedOwners
<1>6. \A r1, r2 \in BatchRelations(B) : IdOf(r1) = IdOf(r2) => r1 = r2
    <2>1. ASSUME NEW r1 \in BatchRelations(B), NEW r2 \in BatchRelations(B), IdOf(r1) = IdOf(r2)
          PROVE  r1 = r2
        <3>1. PICK p1 \in fresh : r1 \in EmittedRelations(p1, run.target[p1], Present(run.target))
            BY DEF BatchRelations
        <3>2. PICK p2 \in fresh : r2 \in EmittedRelations(p2, run.target[p2], Present(run.target))
            BY DEF BatchRelations
        <3>3. r1.src = r2.src
            BY <2>1 DEF IdOf
        <3>4. p1 = p2
            BY <3>1, <3>2, <3>3, EmittedOwners
        <3>5. QED
            BY <2>1, <3>1, <3>2, <3>4, EmittedDistinct
    <2>2. QED
        BY <2>1
<1> HIDE DEF fresh
<1>7. /\ Separate' /\ RowsLive' /\ PurgeLeavesNoOrphans'
      /\ IsTable(chunks') /\ IsTable(signals') /\ IsTable(rels')
      /\ \A r \in rels'.live : Shaped(r)
    <2>1. /\ chunks' = Replaced(chunks, {c \in chunks.live : c.path \in B},
                                {ChunkId(p, rows'[p]) : p \in fresh})
          /\ signals' = Replaced(signals, {s \in signals.live : s.path \in B},
                                 UNION {Emitted(p, rows'[p]) : p \in fresh})
        BY <1>1, <1>4 DEF fresh
    <2>2. rels' = ReplacedRelations(rels, {r \in rels.live : r.src.path \in B}, BatchRelations(B))
        BY <1>1
    <2>3. FilesWritten(B, fresh)
        BY <1>3, <1>4 DEF FilesWritten, FreshIn
    <2>4. NewRelations(fresh, BatchRelations(B))
        BY <1>5, <1>6 DEF NewRelations
    <2>5. TablesReplaced(B, fresh, BatchRelations(B))
        BY <2>1, <2>2 DEF TablesReplaced
    <2>6. QED
        BY <2>3, <2>4, <2>5, FilesRewritten
<1>8. Types'
    BY <1>1, <1>3, <1>7 DEF StoreInv, Types
<1>9. RunShape'
    <2>1. /\ run' \in RunType /\ run'.todo = run.todo \ B /\ run'.del = run.del
          /\ run'.target = run.target /\ run'.quiet = run.quiet
        BY <1>1, <1>2 DEF RunType
    <2>2. \A p \in Paths \ (run'.todo \union run'.del) : rows'[p] = run'.target[p]
        BY <1>2, <1>3, <2>1
    <2>3. QED
        BY <1>1, <1>2, <2>1, <2>2 DEF RunShape, RunSteps
<1>10. Generations'
    <2>1. run'.quiet = run.quiet
        BY <1>1, <1>2 DEF RunType
    <2>2. QED
        BY <1>1, <2>1 DEF StoreInv, Generations
<1>11. QED
    BY <1>7, <1>8, <1>9, <1>10 DEF StoreInv

LEMMA DeleteFileStore ==
    ASSUME StoreInv, NEW p \in Paths, DeleteFile(p)
    PROVE  StoreInv'
<1>1. /\ pc = "write" /\ pc' = "write" /\ run.todo = {} /\ p \in run.del
      /\ chunks' = Replaced(chunks, {c \in chunks.live : c.path = p}, {})
      /\ signals' = Replaced(signals, {s \in signals.live : s.path = p}, {})
      /\ rels' = Replaced(rels, {r \in rels.live : r.src.path = p}, {})
      /\ rows' = [rows EXCEPT ![p] = Absent]
      /\ run' = [run EXCEPT !.del = @ \ {p}]
      /\ UNCHANGED <<graph, full, prodGen, assocGen, runs>>
    BY DEF DeleteFile
<1>2. /\ run \in RunType /\ run.todo \subseteq Present(run.target)
      /\ run.del \intersect Present(run.target) = {}
      /\ \A q \in Paths \ (run.todo \union run.del) : rows[q] = run.target[q]
      /\ ~run.quiet /\ graph # "ready"
    BY <1>1 DEF StoreInv, RunShape, RunSteps
<1>3. rows' \in Snapshots /\ rows'[p] = Absent /\ \A q \in Paths \ {p} : rows'[q] = rows[q]
    BY <1>1 DEF StoreInv, Types, Snapshots
<1>4. rels' = ReplacedRelations(rels, {r \in rels.live : r.src.path \in {p}}, {})
    BY <1>1 DEF Replaced, ReplacedRelations
<1>5. /\ chunks' = Replaced(chunks, {c \in chunks.live : c.path \in {p}},
                            {ChunkId(q, rows'[q]) : q \in {}})
      /\ signals' = Replaced(signals, {s \in signals.live : s.path \in {p}},
                             UNION {Emitted(q, rows'[q]) : q \in {}})
    BY <1>1
<1>6. {} = {q \in {p} : rows'[q] \notin {Absent, Blank}} /\ {p} \in SUBSET Paths
    BY <1>3
<1>7. /\ Separate' /\ RowsLive' /\ PurgeLeavesNoOrphans'
      /\ IsTable(chunks') /\ IsTable(signals') /\ IsTable(rels')
      /\ \A r \in rels'.live : Shaped(r)
    <2>1. FilesWritten({p}, {})
        BY <1>3, <1>6 DEF FilesWritten, FreshIn
    <2>2. NewRelations({}, {})
        BY DEF NewRelations
    <2>3. TablesReplaced({p}, {}, {})
        BY <1>4, <1>5 DEF TablesReplaced
    <2>4. QED
        BY <1>6, <2>1, <2>2, <2>3, FilesRewritten
<1>8. Types'
    BY <1>1, <1>3, <1>7 DEF StoreInv, Types
<1>9. RunShape'
    <2>1. /\ run' \in RunType /\ run'.todo = run.todo /\ run'.del = run.del \ {p}
          /\ run'.target = run.target /\ run'.quiet = run.quiet
        BY <1>1, <1>2 DEF RunType
    <2>2. run.target[p] = Absent
        BY <1>1, <1>2 DEF Present
    <2>3. \A q \in Paths \ (run'.todo \union run'.del) : rows'[q] = run'.target[q]
        BY <1>2, <1>3, <2>1, <2>2
    <2>4. QED
        BY <1>1, <1>2, <2>1, <2>3 DEF RunShape, RunSteps
<1>10. Generations'
    <2>1. run'.quiet = run.quiet
        BY <1>1, <1>2 DEF RunType
    <2>2. QED
        BY <1>1, <2>1 DEF StoreInv, Generations
<1>11. QED
    BY <1>7, <1>8, <1>9, <1>10 DEF StoreInv

\* What is purged was dead: the excess is a set of dead rows of the table.
LEMMA PurgeSets ==
    ASSUME PurgeTombstones
    PROVE  \E A, R, S, C :
               /\ A \subseteq rels.dead /\ R \subseteq rels.dead
               /\ S \subseteq signals.dead /\ C \subseteq chunks.dead
               /\ Purge(A, R, S, C)
<1>1. \A k, T : \A X \in kSubset(k, T) : X \subseteq T
    BY DEF kSubset
<1>2. PICK A \in kSubset(Excess(TestRows, PurgeLimit), TestRows.dead) :
          \E R \in kSubset(Excess(Without(rels, A), PurgeLimit - Cardinality(A)), rels.dead \ A) :
          \E S \in kSubset(Excess(signals, PurgeLimit), signals.dead) :
          \E C \in kSubset(Excess(chunks, PurgeLimit), chunks.dead) : Purge(A, R, S, C)
    BY DEF PurgeTombstones
<1>3. PICK R \in kSubset(Excess(Without(rels, A), PurgeLimit - Cardinality(A)), rels.dead \ A),
           S \in kSubset(Excess(signals, PurgeLimit), signals.dead),
           C \in kSubset(Excess(chunks, PurgeLimit), chunks.dead) : Purge(A, R, S, C)
    BY <1>2
<1>4. A \subseteq rels.dead
    BY <1>1, <1>2 DEF TestRows
<1>5. R \subseteq rels.dead
    BY <1>1, <1>3
<1>6. S \subseteq signals.dead /\ C \subseteq chunks.dead
    BY <1>1, <1>3
<1>7. QED
    BY <1>3, <1>4, <1>5, <1>6

LEMMA WithoutDead ==
    ASSUME NEW t, NEW gone, gone \subseteq t.dead, t.live \intersect t.dead = {}
    PROVE  /\ IsTable(Without(t, gone)) /\ Without(t, gone).live = t.live
           /\ Without(t, gone).dead = t.dead \ gone
BY DEF Without, IsTable

\* No live row is purged, and no row that stays names one that goes.
LEMMA PurgeStore ==
    ASSUME StoreInv, PurgeTombstones, UNCHANGED rows,
           \A r \in rels.live : r.target # NoSignal => r.target \in signals.live
    PROVE  /\ chunks'.live = chunks.live /\ signals'.live = signals.live /\ rels'.live = rels.live
           /\ IsTable(chunks') /\ IsTable(signals') /\ IsTable(rels')
           /\ Separate' /\ PurgeLeavesNoOrphans'
<1>1. PICK A, R, S, C :
          /\ A \subseteq rels.dead /\ R \subseteq rels.dead
          /\ S \subseteq signals.dead /\ C \subseteq chunks.dead
          /\ Purge(A, R, S, C)
    BY PurgeSets
<1> DEFINE names   == {r \in rels.dead : r.src \in S \/ r.target \in S}
           owned   == {s \in (signals.live \union signals.dead) \ S : ChunkOf(s) \in C}
           byChunk == {r \in rels.dead : ChunkOf(r.src) \in C \/ r.target \in owned}
           goneR   == A \union R \union names \union byChunk
           goneS   == S \union (owned \intersect signals.dead)
<1>2. /\ rels' = Without(rels, goneR) /\ signals' = Without(signals, goneS)
      /\ chunks' = Without(chunks, C)
    BY <1>1 DEF Purge
<1>3. /\ Disjoint(chunks) /\ Disjoint(signals) /\ Identified(rels)
      /\ signals.live = FullSignals(rows) /\ chunks.live = FullChunks(rows)
      /\ \A r \in rels.live : r.src \in signals.live
    BY DEF StoreInv, Separate, RowsLive
<1>4. goneR \subseteq rels.dead /\ goneS \subseteq signals.dead /\ C \subseteq chunks.dead
    BY <1>1
<1>5. /\ \A r \in rels.dead \ goneR : /\ r.src \notin S /\ r.target \notin S
                                      /\ ChunkOf(r.src) \notin C /\ r.target \notin owned
      /\ \A s \in signals.dead \ goneS : ChunkOf(s) \notin C
      /\ \A s \in goneS : s \in S \/ (s \in owned /\ ChunkOf(s) \in C)
    OBVIOUS
<1>6. \A s \in signals.live : ChunkOf(s) \in chunks.live
    <2>1. ASSUME NEW s \in signals.live PROVE ChunkOf(s) \in FullChunks(rows)
        <3>1. PICK p \in NonBlank(rows) : s \in Emitted(p, rows[p])
            BY <1>3 DEF FullSignals
        <3>2. ChunkOf(s) = ChunkId(p, rows[p])
            BY <3>1 DEF Emitted, ChunkOf, ChunkId, Signal
        <3>3. QED
            BY <3>2 DEF FullChunks
    <2>2. QED
        BY <1>3, <2>1
<1> HIDE DEF names, owned, byChunk, goneR, goneS
<1>7. rels.live \intersect rels.dead = {}
    BY <1>3 DEF Identified
<1>8. /\ IsTable(rels') /\ rels'.live = rels.live /\ rels'.dead = rels.dead \ goneR
    BY <1>2, <1>4, <1>7, WithoutDead
<1>9. /\ IsTable(signals') /\ signals'.live = signals.live /\ signals'.dead = signals.dead \ goneS
    BY <1>2, <1>3, <1>4, WithoutDead DEF Disjoint
<1>10. /\ IsTable(chunks') /\ chunks'.live = chunks.live /\ chunks'.dead = chunks.dead \ C
    BY <1>2, <1>3, <1>4, WithoutDead DEF Disjoint
<1>11. Separate'
    BY <1>3, <1>8, <1>9, <1>10 DEF Separate, Disjoint, Identified
<1>12. PurgeLeavesNoOrphans'
    <2>1. /\ \A r \in rels.live \union rels.dead :
                 /\ r.src \in signals.live \union signals.dead
                 /\ r.target # NoSignal => r.target \in signals.live \union signals.dead
          /\ \A s \in signals.live \union signals.dead : ChunkOf(s) \in chunks.live \union chunks.dead
        BY DEF StoreInv, PurgeLeavesNoOrphans
    <2>2. \A r \in rels'.live : /\ r.src \in signals'.live
                                /\ r.target # NoSignal => r.target \in signals'.live
        BY <1>3, <1>8, <1>9
    <2>3. \A r \in rels'.dead : /\ r.src \in signals'.live \union signals'.dead
                                /\ r.target # NoSignal => r.target \in signals'.live \union signals'.dead
        BY <1>5, <1>8, <1>9, <2>1
    <2>4. \A s \in signals'.live : ChunkOf(s) \in chunks'.live
        BY <1>6, <1>9, <1>10
    <2>5. \A s \in signals'.dead : ChunkOf(s) \in chunks'.live \union chunks'.dead
        BY <1>5, <1>9, <1>10, <2>1
    <2>6. QED
        BY <2>2, <2>3, <2>4, <2>5 DEF PurgeLeavesNoOrphans
<1>13. QED
    BY <1>8, <1>9, <1>10, <1>11, <1>12

\* A commit changes the live rows of no table.
LEMMA CommitTables ==
    ASSUME StoreInv, Commit
    PROVE  /\ chunks'.live = chunks.live /\ signals'.live = signals.live /\ rels'.live = rels.live
           /\ IsTable(chunks') /\ IsTable(signals') /\ IsTable(rels')
           /\ Separate' /\ PurgeLeavesNoOrphans'
<1>1. CASE CommitValid /\ run.kind = "refresh" /\ MaintenanceRequired
    <2>1. ~run.quiet
        BY <1>1 DEF StoreInv, RunShape
    <2>2. \A r \in rels.live : r.target # NoSignal => r.target \in signals.live
        BY <1>1, <2>1 DEF CommitValid, GraphIntegrity
    <2>3. PurgeTombstones /\ UNCHANGED rows
        BY <1>1 DEF Commit
    <2>4. QED
        BY <2>2, <2>3, PurgeStore
<1>2. CASE ~(CommitValid /\ run.kind = "refresh" /\ MaintenanceRequired)
    <2>1. UNCHANGED <<rows, chunks, signals, rels>>
        BY <1>2 DEF Commit
    <2>2. QED
        BY <2>1, TablesUntouched
<1>3. QED
    BY <1>1, <1>2

LEMMA CommitStore == StoreInv /\ Commit => StoreInv'
<1> SUFFICES ASSUME StoreInv, Commit PROVE StoreInv'
    OBVIOUS
<1>1. /\ chunks'.live = chunks.live /\ signals'.live = signals.live /\ rels'.live = rels.live
      /\ IsTable(chunks') /\ IsTable(signals') /\ IsTable(rels')
      /\ Separate' /\ PurgeLeavesNoOrphans'
    BY CommitTables
<1>2. /\ pc = "commit" /\ pc' = "idle" /\ run' = NoRun
      /\ UNCHANGED <<rows, prodGen, assocGen, runs>>
      /\ CommitValid => graph' = "ready" /\ full' = FALSE
      /\ ~CommitValid => UNCHANGED <<graph, full>>
    BY DEF Commit
<1>3. graph' \in {"ready", "stale"} /\ full' \in BOOLEAN
    BY <1>2 DEF StoreInv, Types
<1>4. Types'
    BY <1>1, <1>2, <1>3 DEF StoreInv, Types
<1>5. RowsLive'
    BY <1>1, <1>2 DEF StoreInv, RowsLive
<1>6. RunShape'
    <2>1. ~NoRun.quiet
        BY DEF NoRun
    <2>2. QED
        BY <1>2, <2>1, NoRunShaped DEF RunShape, RunSteps
<1>7. Generations'
    BY <1>2 DEF StoreInv, Generations
<1>8. QED
    BY <1>1, <1>4, <1>5, <1>6, <1>7 DEF StoreInv

LEMMA StoreStep == StoreInv /\ [Next]_vars => StoreInv'
<1> SUFFICES ASSUME StoreInv, [Next]_vars PROVE StoreInv'
    OBVIOUS
<1>1. ASSUME NEW kind \in {"index", "refresh"}, Start(kind) PROVE StoreInv'
    BY <1>1, StartStore
<1>2. CASE MarkStale
    BY <1>2, MarkStaleStore
<1>3. CASE WriteBatch
    BY <1>3, WriteBatchStore
<1>4. CASE Written
    BY <1>4, WrittenStore
<1>5. ASSUME NEW p \in Paths, DeleteFile(p) PROVE StoreInv'
    BY <1>5, DeleteFileStore
<1>6. CASE ResolveProducers
    BY <1>6, ResolveProducersStore
<1>7. CASE AdvanceGeneration
    BY <1>7, AdvanceStore
<1>8. CASE Associate
    BY <1>8, AssociateStore
<1>9. CASE ResolveTests
    BY <1>9, ResolveTestsStore
<1>10. CASE Commit
    BY <1>10, CommitStore
<1>11. CASE Die
    BY <1>11, DieStore
<1>12. CASE UNCHANGED vars
    <2>1. Separate' /\ RowsLive' /\ PurgeLeavesNoOrphans'
        BY <1>12, TablesUntouched DEF vars
    <2>2. Types' /\ RunShape' /\ Generations'
        BY <1>12 DEF vars, StoreInv, Types, RunShape, Generations
    <2>3. QED
        BY <2>1, <2>2 DEF StoreInv
<1>13. QED
    BY <1>1, <1>2, <1>3, <1>4, <1>5, <1>6, <1>7, <1>8, <1>9, <1>10, <1>11, <1>12 DEF Next, Step

\* The tables are kept as they should be, for any files and limits.
THEOREM StoreInvariance == Spec => []StoreInv
<1>1. Init => StoreInv
    BY StoreInit
<1>2. StoreInv /\ [Next]_vars => StoreInv'
    BY StoreStep
<1>3. QED
    BY <1>1, <1>2, PTL DEF Spec

\* Every variable keeps its type, whatever is edited, deleted or interrupted.
THEOREM TypeCorrect == Spec => []TypeOK
<1>1. StoreInv => TypeOK
    <2> SUFFICES ASSUME StoreInv PROVE TypeOK
        OBVIOUS
    <2>1. /\ rows \in Snapshots /\ graph \in {"ready", "stale"} /\ full \in BOOLEAN
          /\ \A t \in {chunks, signals, rels} : t.live \intersect t.dead = {}
          /\ \A r1, r2 \in rels.live : IdOf(r1) = IdOf(r2) => r1 = r2
        BY DEF StoreInv, Types, Separate, Disjoint, Identified
    <2>2. prodGen \in 0..MaxRuns /\ assocGen \in 0..prodGen
        <3>1. prodGen \in Nat /\ assocGen \in Nat /\ runs \in 0..MaxRuns /\ assocGen <= prodGen
              /\ prodGen + (IF pc \in {"markStale", "write", "resolve", "advance"} THEN 1 ELSE 0)
                     <= runs
            BY DEF StoreInv, Types, Generations
        <3>2. prodGen <= runs
            BY <3>1, LimitsAssumption
        <3>3. QED
            BY <3>1, <3>2, LimitsAssumption
    <2>3. /\ run.target \in Snapshots /\ run.todo \subseteq Present(run.target)
          /\ run.del \intersect Present(run.target) = {}
        <3>1. run \in RunType
            BY DEF StoreInv, RunShape
        <3>2. CASE pc = "idle"
            BY <3>2, NoRunShaped DEF StoreInv, RunShape, NoRun, RunType
        <3>3. CASE pc # "idle"
            BY <3>1, <3>3 DEF StoreInv, RunShape, RunType
        <3>4. QED
            BY <3>2, <3>3
    <2>4. QED
        BY <2>1, <2>2, <2>3 DEF TypeOK
<1>2. QED
    BY <1>1, StoreInvariance, PTL

\* No row, live or dead, ever names a row that a refresh has purged.
THEOREM NoOrphans == Spec => []PurgeLeavesNoOrphans
<1>1. StoreInv => PurgeLeavesNoOrphans
    BY DEF StoreInv
<1>2. QED
    BY <1>1, StoreInvariance, PTL

-----------------------------------------------------------------------------
(* The producers of a full build, row by row *)

LEMMA NoSignalApart ==
    ASSUME rows \in Snapshots, NEW p \in NonBlank(rows), NEW kind \in {"module", "declaration"}
    PROVE  Signal(p, rows[p], kind) # NoSignal
<1>1. p \in Paths /\ rows[p] \in Texts[p]
    BY DEF Snapshots, NonBlank
<1>2. rows[p] \in Contents
    BY <1>1 DEF Contents
<1>3. Signal(p, rows[p], kind) \in [path : Paths, text : Contents, kind : {"module", "declaration"}]
    BY <1>1, <1>2 DEF Signal
<1>4. QED
    BY <1>3, SignalAssumption

LEMMA ProducerMember ==
    ASSUME signals.live = FullSignals(rows), NEW x
    PROVE  x \in FullProducers(rows) <=> \E p \in Paths :
               \/ Importing(p) /\ x = ResolveModule(ModuleRow(p))
               \/ Importing(p) /\ Exact /\ x = ResolveDeclaration(SymbolRow(p), Modules)
               \/ Using(p) /\ x = ResolveName(UseRow(p))
<1> DEFINE importers == {z \in Paths : rows[z] \in Importers}
           users     == {z \in Paths : rows[z] \in Users}
           imports   == UNION {Import(rows, p) : p \in importers}
           uses      == {Use(rows, p) : p \in users}
<1>1. FullProducers(rows) = imports \union uses
    BY DEF FullProducers
<1>2. x \in imports <=> \E p \in Paths : Importing(p) /\ x \in Import(rows, p)
    BY DEF Importing
<1>3. x \in uses <=> \E p \in Paths : Using(p) /\ x = Use(rows, p)
    BY DEF Using
<1> HIDE DEF imports, uses
<1>4. \A p \in Paths : Importing(p) =>
          (x \in Import(rows, p) <=>
               \/ x = ResolveModule(ModuleRow(p))
               \/ Exact /\ x = ResolveDeclaration(SymbolRow(p), Modules))
    BY ImportForms
<1>5. \A p \in Paths : Using(p) => Use(rows, p) = ResolveName(UseRow(p))
    BY UseForm
<1>6. QED
    BY <1>1, <1>2, <1>3, <1>4, <1>5

LEMMA RowsShaped ==
    ASSUME NEW p
    PROVE  /\ Shaped(ModuleRow(p)) /\ Shaped(SymbolRow(p)) /\ Shaped(UseRow(p))
           /\ Plain(ModuleRow(p)) = ModuleRow(p) /\ Plain(SymbolRow(p)) = SymbolRow(p)
           /\ Plain(UseRow(p)) = UseRow(p)
           /\ \A m : /\ Resolve(ModuleRow(p), m) = ResolveModule(ModuleRow(p))
                     /\ Resolve(SymbolRow(p), m) = ResolveDeclaration(SymbolRow(p), m)
                     /\ Resolve(UseRow(p), m) = ResolveName(UseRow(p))
<1>1. Shaped(ModuleRow(p)) /\ Shaped(SymbolRow(p)) /\ Shaped(UseRow(p))
    BY RowFields DEF Shaped, SymbolRow, Relation
<1>2. /\ Plain(ModuleRow(p)) = ModuleRow(p) /\ Plain(SymbolRow(p)) = SymbolRow(p)
      /\ Plain(UseRow(p)) = UseRow(p)
    BY DEF Plain, Updated, ModuleRow, SymbolRow, UseRow, Relation
<1>3. \A m : /\ Resolve(ModuleRow(p), m) = ResolveModule(ModuleRow(p))
             /\ Resolve(SymbolRow(p), m) = ResolveDeclaration(SymbolRow(p), m)
             /\ Resolve(UseRow(p), m) = ResolveName(UseRow(p))
    BY RowFields DEF Resolve
<1>4. QED
    BY <1>1, <1>2, <1>3

\* A resolved row keeps its source and kind, and is plainly what was emitted.
LEMMA ResolvedPlain ==
    ASSUME NEW r, NEW m, Shaped(r), Plain(r) = r
    PROVE  /\ Plain(Resolve(r, m)) = r
           /\ Resolve(r, m).src = r.src /\ Resolve(r, m).kind = r.kind
           /\ Resolve(r, m).tkind = r.tkind
<1>1. PICK res, t : Resolve(r, m) = Updated(r, res, t)
    BY ResolveKeeps
<1>2. QED
    BY <1>1, UpdatedFields

\* Every producer of a full build is, unresolved, what its file emits; and back.
LEMMA ProducersArePlain ==
    ASSUME signals.live = FullSignals(rows), NEW p \in Paths
    PROVE  /\ \A x \in FullProducers(rows) :
                  /\ x.kind \in {"imports", "uses_type"}
                  /\ x.src.path = p => Plain(x) \in EmittedBy(rows, p)
           /\ \A e \in EmittedBy(rows, p) :
                  \E x \in FullProducers(rows) : x.src.path = p /\ x.kind = e.kind /\ Plain(x) = e
<1>1. \A q : /\ Plain(ResolveModule(ModuleRow(q))) = ModuleRow(q)
             /\ ResolveModule(ModuleRow(q)).src.path = q
             /\ ResolveModule(ModuleRow(q)).kind = "imports"
    BY ResolvedPlain, RowsShaped, RowFields
<1>2. \A q : /\ Plain(ResolveDeclaration(SymbolRow(q), Modules)) = SymbolRow(q)
             /\ ResolveDeclaration(SymbolRow(q), Modules).src.path = q
             /\ ResolveDeclaration(SymbolRow(q), Modules).kind = "imports"
    BY ResolvedPlain, RowsShaped, RowFields
<1>3. \A q : /\ Plain(ResolveName(UseRow(q))) = UseRow(q)
             /\ ResolveName(UseRow(q)).src.path = q
             /\ ResolveName(UseRow(q)).kind = "uses_type"
    BY ResolvedPlain, RowsShaped, RowFields
<1>4. \A x \in FullProducers(rows) :
          /\ x.kind \in {"imports", "uses_type"}
          /\ x.src.path = p => Plain(x) \in EmittedBy(rows, p)
    BY <1>1, <1>2, <1>3, ProducerMember, EmittedForms
<1>5. ASSUME NEW e \in EmittedBy(rows, p)
      PROVE  \E x \in FullProducers(rows) : x.src.path = p /\ x.kind = e.kind /\ Plain(x) = e
    BY <1>1, <1>2, <1>3, ProducerMember, EmittedForms, RowFields
<1>6. QED
    BY <1>4, <1>5

\* The relations of an unwritten file are those of the target, when the graph
\* is whole and the set of paths is the same or the file imports nothing.
LEMMA WholePending ==
    ASSUME StoreInv, Whole, NEW p \in Paths
    PROVE  PlainOf(p) = EmittedBy(rows, p)
<1>1. signals.live = FullSignals(rows)
    BY DEF StoreInv, RowsLive
<1>2. \A x \in FullTests(rows) : x.kind = "tests"
    BY DEF FullTests, Test
<1>3. Producers = FullProducers(rows)
    <2>1. rels.live = FullProducers(rows) \union FullTests(rows)
        BY DEF Whole, FullRelations
    <2>2. \A x \in FullProducers(rows) : x.kind \in {"imports", "uses_type"}
        BY <1>1, ProducersArePlain
    <2>3. QED
        BY <1>2, <2>1, <2>2 DEF Producers, Of
<1>4. PlainOf(p) \subseteq EmittedBy(rows, p)
    BY <1>1, <1>3, ProducersArePlain DEF PlainOf
<1>5. ASSUME NEW e \in EmittedBy(rows, p) PROVE e \in PlainOf(p)
    <2>1. PICK x \in FullProducers(rows) : x.src.path = p /\ Plain(x) = e
        BY <1>1, ProducersArePlain
    <2>2. QED
        BY <1>3, <2>1 DEF PlainOf
<1>6. QED
    BY <1>4, <1>5

-----------------------------------------------------------------------------
(* What a run relies on, kept by each of its steps *)

LEMMA StoreFacts ==
    ASSUME StoreInv
    PROVE  /\ rows \in Snapshots /\ signals.live = FullSignals(rows)
           /\ \A r \in rels.live : Shaped(r) /\ r.src.path \in NonBlank(rows)
<1>1. /\ rows \in Snapshots /\ signals.live = FullSignals(rows)
      /\ \A r \in rels.live : Shaped(r) /\ r.src \in signals.live
    BY DEF StoreInv, Types, RowsLive
<1>2. ASSUME NEW s \in signals.live PROVE s.path \in NonBlank(rows)
    BY <1>1, <1>2, SignalMember DEF HasSignal, SignalAt, Signal
<1>3. QED
    BY <1>1, <1>2

LEMMA NothingPlain ==
    ASSUME StoreInv, NEW p \in Paths, p \notin NonBlank(rows)
    PROVE  PlainOf(p) = {}
BY StoreFacts DEF PlainOf, Producers, Of

\* The paths enter a file's relations through its import alone.
LEMMA EmittedElsewhere ==
    ASSUME NEW s, NEW p, NEW t, t[p] = s[p],
           s[p] \in Importers => Present(s) = Present(t)
    PROVE  EmittedBy(s, p) = EmittedBy(t, p)
BY DEF EmittedBy, EmittedRelations

LEMMA StartPending ==
    ASSUME StoreInv, ReadyWhole, NEW kind, NEW target \in Snapshots, NEW force \in BOOLEAN,
           NEW r, r = Run(kind, target, force), NEW p \in Paths \ (r.todo \union r.del)
    PROVE  PlainOf(p) = EmittedBy(target, p)
<1>1. rows[p] = target[p]
    <2>1. \A q \in Paths \ (r.todo \union r.del) : rows[q] = target[q]
        BY RunCovers
    <2>2. QED
        BY <2>1
<1>2. r.todo = IF force THEN Present(target)
               ELSE Changed(target) \union (IF graph = "stale" THEN NonBlank(target)
                                            ELSE RelationSources(target))
    BY DEF Run
<1>3. CASE p \notin NonBlank(rows)
    BY <1>1, <1>3, NothingPlain DEF EmittedBy, NonBlank
<1>4. CASE p \in NonBlank(rows)
    <2>1. p \in Present(target) /\ p \in NonBlank(target)
        BY <1>1, <1>4 DEF Present, NonBlank
    <2>2. ~force /\ graph # "stale" /\ p \notin RelationSources(target)
        BY <1>2, <2>1
    <2>3. Whole
        BY <2>2 DEF ReadyWhole, StoreInv, Types
    <2>4. PlainOf(p) = EmittedBy(rows, p)
        BY <2>3, WholePending
    <2>5. rows[p] \in Importers => Present(rows) = Present(target)
        <3>1. SUFFICES ASSUME rows[p] \in Importers, Present(rows) # Present(target) PROVE FALSE
            OBVIOUS
        <3>2. ModuleRow(p) \in EmittedBy(rows, p)
            BY <3>1, EmittedForms DEF Importing
        <3>3. PICK x \in FullProducers(rows) : x.src.path = p /\ x.kind = "imports"
            BY <3>2, StoreFacts, ProducersArePlain, RowFields
        <3>4. x \in rels.live
            BY <2>3 DEF Whole, FullRelations
        <3>5. p \in RelationSources(target)
            BY <2>1, <3>1, <3>3, <3>4 DEF RelationSources
        <3>6. QED
            BY <2>2, <3>5
    <2>6. QED
        BY <1>1, <2>4, <2>5, EmittedElsewhere
<1>5. QED
    BY <1>3, <1>4

\* The producers of a file, and the rest of the graph, when no relation changes.
LEMMA GraphUntouched ==
    ASSUME GraphInv, UNCHANGED <<rows, rels, graph, prodGen, assocGen, pc, run>>
    PROVE  GraphInv'
<1>1. Pending' /\ Produced'
    BY DEF GraphInv, Pending, Produced, PlainOf, Producers, Of
<1>2. Associated'
    BY DEF GraphInv, Associated, Of
<1>3. ReadyWhole'
    BY DEF GraphInv, ReadyWhole, Whole
<1>4. QED
    BY <1>1, <1>2, <1>3 DEF GraphInv

LEMMA StartGraph ==
    ASSUME StoreInv, GraphInv, NEW kind \in {"index", "refresh"}, Start(kind)
    PROVE  GraphInv'
<1>1. PICK target \in Snapshots, force \in BOOLEAN : run' = Run(kind, target, force)
    BY DEF Start
<1>2. /\ pc' = "markStale"
      /\ UNCHANGED <<rows, chunks, signals, rels, graph, full, prodGen, assocGen>>
    BY DEF Start, dbVars
<1>3. Pending'
    <2> DEFINE r == Run(kind, target, force)
    <2>1. \A p \in Paths \ (r.todo \union r.del) : PlainOf(p) = EmittedBy(target, p)
        BY StartPending DEF GraphInv
    <2>2. r.target = target
        BY DEF Run
    <2> HIDE DEF r
    <2>3. run' = r
        BY <1>1 DEF r
    <2>4. \A p : PlainOf(p)' = PlainOf(p)
        BY <1>2 DEF PlainOf, Producers, Of
    <2>5. \A p \in Paths \ (run'.todo \union run'.del) : PlainOf(p)' = EmittedBy(run'.target, p)
        BY <2>1, <2>2, <2>3, <2>4
    <2>6. QED
        BY <2>5 DEF Pending
<1>4. Produced' /\ Associated'
    BY <1>2 DEF Produced, Associated
<1>5. ReadyWhole'
    <2> DEFINE r == Run(kind, target, force)
    <2>1. r.quiet => graph = "ready"
        BY RunCovers
    <2> HIDE DEF r
    <2>2. run' = r
        BY <1>1 DEF r
    <2>3. (graph' = "ready" \/ run'.quiet) => Whole
        BY <1>2, <2>1, <2>2 DEF GraphInv, ReadyWhole
    <2>4. Whole' <=> Whole
        BY <1>2 DEF Whole
    <2>5. QED
        BY <2>3, <2>4 DEF ReadyWhole
<1>6. QED
    BY <1>3, <1>4, <1>5 DEF GraphInv

LEMMA MarkStaleGraph == StoreInv /\ GraphInv /\ MarkStale => GraphInv'
<1> SUFFICES ASSUME StoreInv, GraphInv, MarkStale PROVE GraphInv'
    OBVIOUS
<1>1. /\ pc = "markStale" /\ pc' = "write" /\ graph' = "stale"
      /\ UNCHANGED <<rows, chunks, signals, rels, prodGen, assocGen, run>>
    BY DEF MarkStale
<1>2. Pending'
    BY <1>1 DEF GraphInv, Pending, PlainOf, Producers, Of
<1>3. Produced' /\ Associated'
    BY <1>1 DEF Produced, Associated
<1>4. ReadyWhole'
    BY <1>1 DEF GraphInv, ReadyWhole, Whole
<1>5. QED
    BY <1>2, <1>3, <1>4 DEF GraphInv

LEMMA WrittenGraph == StoreInv /\ GraphInv /\ Written => GraphInv'
<1> SUFFICES ASSUME StoreInv, GraphInv, Written PROVE GraphInv'
    OBVIOUS
<1>1. /\ pc = "write" /\ pc' = (IF run.quiet THEN "commit" ELSE "resolve")
      /\ UNCHANGED <<rows, chunks, signals, rels, graph, full, prodGen, assocGen, run>>
    BY DEF Written, dbVars
<1>2. Pending'
    BY <1>1 DEF GraphInv, Pending, PlainOf, Producers, Of
<1>3. Produced' /\ Associated'
    BY <1>1 DEF Produced, Associated
<1>4. ReadyWhole'
    BY <1>1 DEF GraphInv, ReadyWhole, Whole
<1>5. QED
    BY <1>2, <1>3, <1>4 DEF GraphInv

LEMMA AdvanceGraph == StoreInv /\ GraphInv /\ AdvanceGeneration => GraphInv'
<1> SUFFICES ASSUME StoreInv, GraphInv, AdvanceGeneration PROVE GraphInv'
    OBVIOUS
<1>1. /\ pc = "advance" /\ pc' = "associate"
      /\ UNCHANGED <<rows, chunks, signals, rels, graph, full, assocGen, run>>
    BY DEF AdvanceGeneration
<1>2. Pending' /\ Associated'
    BY <1>1 DEF Pending, Associated
<1>3. Produced'
    BY <1>1 DEF GraphInv, Produced, Producers, Of
<1>4. ReadyWhole'
    BY <1>1 DEF StoreInv, RunShape, RunSteps, ReadyWhole
<1>5. QED
    BY <1>2, <1>3, <1>4 DEF GraphInv

LEMMA DieGraph == StoreInv /\ GraphInv /\ Die => GraphInv'
<1> SUFFICES ASSUME StoreInv, GraphInv, Die PROVE GraphInv'
    OBVIOUS
<1>1. /\ pc' = "idle" /\ run' = NoRun
      /\ UNCHANGED <<rows, chunks, signals, rels, graph, full, prodGen, assocGen>>
    BY DEF Die, dbVars
<1>2. Pending' /\ Produced' /\ Associated'
    BY <1>1 DEF Pending, Produced, Associated
<1>3. ~NoRun.quiet
    BY DEF NoRun
<1>4. ReadyWhole'
    BY <1>1, <1>3 DEF GraphInv, ReadyWhole, Whole
<1>5. QED
    BY <1>2, <1>4 DEF GraphInv

\* The rewritten relations, file by file.
RelationsIn(t, B) == {r \in t.live : r.src.path \in B}

LEMMA ReplacedByFile ==
    ASSUME NEW t, NEW B, NEW new, NEW u,
           u = ReplacedRelations(t, RelationsIn(t, B), new),
           \A r \in new : r.src.path \in B
    PROVE  \A r : r \in u.live <=> \/ r \in t.live /\ r.src.path \notin B
                                   \/ r \in new
<1> DEFINE ids == {IdOf(r) : r \in new}
<1>1. u.live = {r \in t.live \ {z \in t.live : z.src.path \in B} : IdOf(r) \notin ids} \union new
    BY DEF ReplacedRelations, RelationsIn
<1>2. ASSUME NEW r, r.src.path \notin B PROVE IdOf(r) \notin ids
    <2>1. SUFFICES ASSUME NEW z \in new, IdOf(r) = IdOf(z) PROVE FALSE
        OBVIOUS
    <2>2. r.src = z.src
        BY <2>1 DEF IdOf
    <2>3. QED
        BY <1>2, <2>1, <2>2
<1> HIDE DEF ids
<1>3. QED
    BY <1>1, <1>2

LEMMA EmittedPlain ==
    ASSUME NEW p, NEW c, NEW active, NEW e \in EmittedRelations(p, c, active)
    PROVE  Plain(e) = e /\ e.kind \in {"imports", "uses_type"}
BY DEF EmittedRelations, Relation, Plain, Updated

LEMMA WriteBatchGraph == StoreInv /\ GraphInv /\ WriteBatch => GraphInv'
<1> SUFFICES ASSUME StoreInv, GraphInv, WriteBatch PROVE GraphInv'
    OBVIOUS
<1>1. PICK B \in SUBSET Paths :
          /\ B \subseteq run.todo
          /\ rels' = ReplacedRelations(rels, RelationsIn(rels, B), BatchRelations(B))
          /\ run' = [run EXCEPT !.todo = @ \ B]
          /\ pc = "write" /\ pc' = "write" /\ run.todo # {}
          /\ UNCHANGED <<graph, full, prodGen, assocGen, runs>>
    BY WriteBatchFacts DEF RelationsIn
<1>2. /\ run \in RunType /\ run.todo \subseteq Present(run.target) /\ ~run.quiet /\ graph # "ready"
    BY <1>1 DEF StoreInv, RunShape, RunSteps
<1>3. /\ run'.todo = run.todo \ B /\ run'.del = run.del
      /\ run'.target = run.target /\ run'.quiet = run.quiet
    BY <1>1, <1>2 DEF RunType
<1>4. \A r \in BatchRelations(B) :
          \E p \in B : /\ run.target[p] # Blank
                       /\ r \in EmittedRelations(p, run.target[p], Present(run.target))
    BY DEF BatchRelations
<1>5. \A r \in BatchRelations(B) : r.src.path \in B
    BY <1>4, EmittedOwners
<1>6. \A r : r \in rels'.live <=> \/ r \in rels.live /\ r.src.path \notin B
                                  \/ r \in BatchRelations(B)
    BY <1>1, <1>5, ReplacedByFile
<1>7. \A r : r \in Producers' <=> r \in rels'.live /\ r.kind \in {"imports", "uses_type"}
    BY DEF Producers, Of
<1>8. ASSUME NEW p \in Paths \ B PROVE PlainOf(p)' = PlainOf(p)
    <2>1. \A r : r \in Producers' /\ r.src.path = p <=> r \in Producers /\ r.src.path = p
        BY <1>5, <1>6, <1>7, <1>8 DEF Producers, Of
    <2>2. QED
        BY <2>1 DEF PlainOf
<1>9. ASSUME NEW p \in B PROVE PlainOf(p)' = EmittedBy(run.target, p)
    <2>1. run.target[p] # Absent
        BY <1>1, <1>2, <1>9 DEF Present
    <2>2. ASSUME NEW r \in BatchRelations(B), r.src.path = p
          PROVE  r \in EmittedBy(run.target, p) /\ Plain(r) = r
        <3>1. PICK q \in B : /\ run.target[q] # Blank
                             /\ r \in EmittedRelations(q, run.target[q], Present(run.target))
            BY <1>4
        <3>2. q = p
            BY <2>2, <3>1, EmittedOwners
        <3>3. QED
            BY <2>1, <3>1, <3>2, EmittedPlain DEF EmittedBy
    <2>3. ASSUME NEW e \in EmittedBy(run.target, p)
          PROVE  e \in Producers' /\ e.src.path = p /\ Plain(e) = e
        <3>1. run.target[p] # Blank /\ e \in EmittedRelations(p, run.target[p], Present(run.target))
            BY DEF EmittedBy
        <3>2. e \in BatchRelations(B)
            BY <1>9, <3>1 DEF BatchRelations
        <3>3. QED
            BY <1>6, <1>7, <3>1, <3>2, EmittedPlain, EmittedOwners
    <2>4. \A r \in Producers' : r.src.path = p => r \in EmittedBy(run.target, p) /\ Plain(r) = r
        BY <1>6, <1>7, <1>9, <2>2
    <2>5. \A x \in PlainOf(p)' : x \in EmittedBy(run.target, p)
        BY <2>4 DEF PlainOf
    <2>6. \A x \in EmittedBy(run.target, p) : x \in PlainOf(p)'
        BY <2>3 DEF PlainOf
    <2>7. QED
        BY <2>5, <2>6
<1>10. Pending'
    <2>1. \A p \in Paths \ (run.todo \union run.del) : PlainOf(p) = EmittedBy(run.target, p)
        BY <1>1, <1>2 DEF GraphInv, Pending
    <2>2. \A p \in Paths \ (run'.todo \union run'.del) : PlainOf(p)' = EmittedBy(run'.target, p)
        BY <1>3, <1>8, <1>9, <2>1
    <2>3. QED
        BY <2>2 DEF Pending
<1>11. Produced' /\ Associated'
    BY <1>1 DEF Produced, Associated
<1>12. ReadyWhole'
    BY <1>1, <1>2, <1>3 DEF ReadyWhole
<1>13. QED
    BY <1>10, <1>11, <1>12 DEF GraphInv

LEMMA DeleteFileGraph ==
    ASSUME StoreInv, GraphInv, NEW p \in Paths, DeleteFile(p)
    PROVE  GraphInv'
<1>1. /\ pc = "write" /\ pc' = "write" /\ run.todo = {} /\ p \in run.del
      /\ rels' = Replaced(rels, {r \in rels.live : r.src.path = p}, {})
      /\ run' = [run EXCEPT !.del = @ \ {p}]
      /\ UNCHANGED <<graph, full, prodGen, assocGen, runs>>
    BY DEF DeleteFile
<1>2. /\ run \in RunType /\ run.del \intersect Present(run.target) = {}
      /\ ~run.quiet /\ graph # "ready"
    BY <1>1 DEF StoreInv, RunShape, RunSteps
<1>3. /\ run'.todo = run.todo /\ run'.del = run.del \ {p}
      /\ run'.target = run.target /\ run'.quiet = run.quiet
    BY <1>1, <1>2 DEF RunType
<1>4. \A r : r \in rels'.live <=> r \in rels.live /\ r.src.path # p
    BY <1>1 DEF Replaced
<1>5. ASSUME NEW q \in Paths \ {p} PROVE PlainOf(q)' = PlainOf(q)
    <2>1. \A r : r \in Producers' /\ r.src.path = q <=> r \in Producers /\ r.src.path = q
        BY <1>4, <1>5 DEF Producers, Of
    <2>2. QED
        BY <2>1 DEF PlainOf
<1>6. PlainOf(p)' = {} /\ EmittedBy(run.target, p) = {}
    <2>1. run.target[p] = Absent
        BY <1>1, <1>2 DEF Present
    <2>2. QED
        BY <1>4, <2>1 DEF PlainOf, Producers, Of, EmittedBy
<1>7. Pending'
    <2>1. \A q \in Paths \ (run.todo \union run.del) : PlainOf(q) = EmittedBy(run.target, q)
        BY <1>1, <1>2 DEF GraphInv, Pending
    <2>2. \A q \in Paths \ (run'.todo \union run'.del) : PlainOf(q)' = EmittedBy(run'.target, q)
        BY <1>3, <1>5, <1>6, <2>1
    <2>3. QED
        BY <2>2 DEF Pending
<1>8. Produced' /\ Associated'
    BY <1>1 DEF Produced, Associated
<1>9. ReadyWhole'
    BY <1>1, <1>2, <1>3 DEF ReadyWhole
<1>10. QED
    BY <1>7, <1>8, <1>9 DEF GraphInv

\* With nothing left to write, the files are those of the target.
LEMMA AllWritten ==
    ASSUME StoreInv, pc \in RunSteps \ {"markStale", "write"} \/ (pc # "idle" /\ run.quiet)
    PROVE  rows = run.target
<1>1. pc \in RunSteps
    BY DEF StoreInv, RunShape
<1>2. run.todo = {} /\ run.del = {} /\ \A p \in Paths : rows[p] = run.target[p]
    BY <1>1 DEF StoreInv, RunShape, RunSteps
<1>3. rows \in Snapshots /\ run.target \in Snapshots
    BY DEF StoreInv, Types, RunShape, RunType
<1>4. QED
    BY <1>2, <1>3 DEF Snapshots

LEMMA ResolveProducersGraph == StoreInv /\ GraphInv /\ ResolveProducers => GraphInv'
<1> SUFFICES ASSUME StoreInv, GraphInv, ResolveProducers PROVE GraphInv'
    OBVIOUS
<1>1. /\ pc = "resolve" /\ pc' = "advance"
      /\ UNCHANGED <<rows, chunks, signals, graph, full, prodGen, assocGen, run, runs>>
      /\ rels'.live = Of({"tests"}) \union Resolved(Producers)
    BY DEF ResolveProducers, StoreInv, Types, IsTable, Producers
<1>2. run.todo = {} /\ run.del = {} /\ ~run.quiet /\ graph # "ready"
    BY <1>1 DEF StoreInv, RunShape, RunSteps
<1>3. rows = run.target
    BY <1>1, AllWritten DEF RunSteps
<1>4. \A p \in Paths : PlainOf(p) = EmittedBy(rows, p)
    BY <1>1, <1>2, <1>3 DEF GraphInv, Pending
<1>5. \A r \in Producers : /\ Shaped(r) /\ r.src.path \in Paths
                           /\ r.kind \in {"imports", "uses_type"}
    BY StoreFacts DEF Producers, Of, NonBlank
<1>6. Resolved(Producers) = FullProducers(rows)
    <2>1. \A r \in Producers : \E p \in Paths : Plain(r) \in EmittedBy(rows, p)
        <3>1. \A r \in Producers : Plain(r) \in PlainOf(r.src.path)
            BY DEF PlainOf
        <3>2. QED
            BY <1>4, <1>5, <3>1
    <2>2. \A p \in Paths : \A e \in EmittedBy(rows, p) : \E r \in Producers : Plain(r) = e
        BY <1>4 DEF PlainOf
    <2>3. QED
        BY <2>1, <2>2, StoreFacts, ResolvedIsFull
<1>7. \A x \in Resolved(Producers) : x.kind \in {"imports", "uses_type"}
    BY <1>5, ResolvedRows
<1>8. Producers' = FullProducers(rows)
    <2>1. \A x : x \in Producers' <=> x \in rels'.live /\ x.kind \in {"imports", "uses_type"}
        BY DEF Producers, Of
    <2>2. \A x \in Of({"tests"}) : x.kind = "tests"
        BY DEF Of
    <2>3. \A x : x \in Producers' <=> x \in Resolved(Producers)
        BY <1>1, <1>7, <2>1, <2>2
    <2>4. QED
        BY <1>6, <2>3
<1>9. Produced'
    BY <1>1, <1>8 DEF Produced
<1>10. Pending' /\ Associated'
    BY <1>1 DEF Pending, Associated
<1>11. ReadyWhole'
    BY <1>1, <1>2 DEF ReadyWhole
<1>12. QED
    BY <1>9, <1>10, <1>11 DEF GraphInv

-----------------------------------------------------------------------------
(* Test associations *)

Code == NonBlank(rows) \ TestPaths

LEMMA UniqueForm ==
    ASSUME signals.live = FullSignals(rows), NEW s
    PROVE  s \in UniqueModules <=> \E p \in NonBlank(rows) : s = ModuleSrc(p)
<1>1. \A p : LiveAt(p, "module") = IF p \in NonBlank(rows) THEN {ModuleSrc(p)} ELSE {}
    BY LiveSignals DEF HasSignal, SignalAt, ModuleSrc
<1>2. \A p \in NonBlank(rows) : /\ Cardinality(LiveAt(p, "module")) = 1
                                /\ ModuleSrc(p) \in signals.live
                                /\ ModuleSrc(p).kind = "module" /\ ModuleSrc(p).path = p
    <2>1. \A p \in NonBlank(rows) : ModuleSrc(p) \in signals.live
        BY <1>1 DEF LiveAt
    <2>2. \A p \in NonBlank(rows) : Cardinality(LiveAt(p, "module")) = 1
        BY <1>1, CardinalityOne
    <2>3. QED
        BY <2>1, <2>2 DEF ModuleSrc, Signal
<1>3. ASSUME s \in UniqueModules PROVE \E p \in NonBlank(rows) : s = ModuleSrc(p)
    <2>1. s \in signals.live /\ s.kind = "module"
        BY <1>3 DEF UniqueModules
    <2>2. s \in LiveAt(s.path, "module")
        BY <2>1 DEF LiveAt
    <2>3. QED
        BY <1>1, <2>2
<1>4. ASSUME NEW p \in NonBlank(rows), s = ModuleSrc(p) PROVE s \in UniqueModules
    BY <1>2, <1>4 DEF UniqueModules
<1>5. QED
    BY <1>3, <1>4

LEMMA UniquePaths ==
    ASSUME signals.live = FullSignals(rows)
    PROVE  {s.path : s \in UniqueModules} = NonBlank(rows)
<1>1. \A p : ModuleSrc(p).path = p
    BY DEF ModuleSrc, Signal
<1>2. \A q : q \in {s.path : s \in UniqueModules} <=> \E s \in UniqueModules : q = s.path
    OBVIOUS
<1>3. QED
    BY <1>1, <1>2, UniqueForm

LEMMA ConventionForm ==
    ASSUME signals.live = FullSignals(rows)
    PROVE  ConventionEvidence = IF Cardinality(Conventions \intersect Code) = 1
                                THEN Conventions \intersect Code ELSE {}
<1>1. {s.path : s \in UniqueModules} \intersect {p \in Conventions : Legal(p)} =
          Conventions \intersect Code
    <2>1. NonBlank(rows) \intersect {p \in Conventions : Legal(p)} = Conventions \intersect Code
        BY DEF Legal, Code, NonBlank
    <2>2. QED
        BY <2>1, UniquePaths
<1>2. QED
    BY <1>1 DEF ConventionEvidence

\* What a live import of a file points to is the only candidate that is present.
ImportTarget(x, t, q) ==
    /\ x \in rels.live /\ x.kind = "imports" /\ x.src = ModuleSrc(t)
    /\ x.target # NoSignal /\ x.target.path = q

LEMMA ImportTargetForm ==
    ASSUME StoreInv, Producers = FullProducers(rows), NEW t \in NonBlank(rows),
           NEW q \in NonBlank(rows)
    PROVE  (\E x : ImportTarget(x, t, q)) <=>
               rows[t] \in Importers /\ Cardinality(Found) = 1 /\ q \in Found
<1>1. signals.live = FullSignals(rows) /\ rows \in Snapshots
    BY StoreFacts
<1>2. t \in Paths /\ q \in Paths /\ ModuleSrc(t).path = t /\ ModuleSrc(q).path = q
    BY DEF NonBlank, ModuleSrc, Signal
<1>3. ASSUME rows[t] \in Importers, Cardinality(Found) = 1, q \in Found
      PROVE  \E x : ImportTarget(x, t, q)
    <2>1. Found = {q} /\ Min(Found) = q
        BY <1>3, FoundCases
    <2>2. ResolveModule(ModuleRow(t)) = Updated(ModuleRow(t), "resolved_exact", ModuleSrc(q))
        BY <1>1, <1>2, <1>3, <2>1, ModuleResolved
    <2>3. ResolveModule(ModuleRow(t)) \in rels.live
        BY <1>1, <1>2, <1>3, ProducerMember DEF Importing, Producers, Of
    <2>4. ModuleSrc(q) # NoSignal
        BY <1>1, NoSignalApart DEF ModuleSrc
    <2>5. ImportTarget(ResolveModule(ModuleRow(t)), t, q)
        BY <1>2, <2>2, <2>3, <2>4, UpdatedFields, RowFields DEF ImportTarget
    <2>6. QED
        BY <2>5
<1>4. ASSUME NEW x, ImportTarget(x, t, q)
      PROVE  rows[t] \in Importers /\ Cardinality(Found) = 1 /\ q \in Found
    <2>1. x \in FullProducers(rows) /\ x.kind = "imports" /\ x.src = ModuleSrc(t)
          /\ x.target # NoSignal /\ x.target.path = q
        BY <1>4 DEF ImportTarget, Producers, Of
    <2>2. PICK p \in Paths :
              /\ Importing(p)
              /\ \/ x = ResolveModule(ModuleRow(p))
                 \/ Exact /\ x = ResolveDeclaration(SymbolRow(p), Modules)
        <3>1. \A z \in Paths : ResolveName(UseRow(z)).kind = "uses_type"
            BY ResolvedPlain, RowsShaped, RowFields
        <3>2. QED
            BY <1>1, <2>1, <3>1, ProducerMember
    <2>3. p = t
        <3>1. x.src.path = p
            BY <2>2, ResolvedPlain, RowsShaped, RowFields
        <3>2. QED
            BY <1>2, <2>1, <3>1
    <2>4. rows[t] \in Importers
        BY <2>2, <2>3 DEF Importing
    <2>5. CASE Found = {}
        <3>1. ~Exact
            BY <2>5, SelectorForms DEF Exact
        <3>2. x = Updated(ModuleRow(p), "external", NoSignal)
            BY <1>1, <2>2, <2>5, <3>1, ModuleResolved
        <3>3. QED
            BY <2>1, <3>2, UpdatedFields
    <2>6. CASE Found # {} /\ Cardinality(Found) # 1
        <3>1. ~Exact
            BY <2>6, SelectorForms DEF Exact
        <3>2. x = Updated(ModuleRow(p), "ambiguous", NoSignal)
            BY <1>1, <2>2, <2>6, <3>1, ModuleResolved
        <3>3. QED
            BY <2>1, <3>2, UpdatedFields
    <2>7. ASSUME NEW f \in Paths, Found = {f}, Cardinality(Found) = 1, Min(Found) = f
          PROVE  q \in Found
        <3>1. x.target \in {NoSignal, ModuleSrc(f), Signal(f, rows[f], "declaration")}
            <4>1. \/ x = Updated(ModuleRow(p), "resolved_exact", ModuleSrc(f))
                  \/ x = Updated(ModuleRow(p), "unresolved", NoSignal)
                  \/ x = Updated(SymbolRow(p), "resolved_exact", Signal(f, rows[f], "declaration"))
                  \/ x = Updated(SymbolRow(p), "unresolved", NoSignal)
                BY <1>1, <2>2, <2>7, ModuleResolved, SymbolResolved
            <4>2. QED
                BY <4>1, UpdatedFields
        <3>2. QED
            BY <2>1, <2>7, <3>1 DEF ModuleSrc, Signal
    <2>8. QED
        BY <2>4, <2>5, <2>6, <2>7, FoundCases
<1>5. QED
    BY <1>3, <1>4

LEMMA ImportEvidenceForm ==
    ASSUME StoreInv, Producers = FullProducers(rows), NEW t \in NonBlank(rows)
    PROVE  {q \in ImportEvidence(ModuleSrc(t)) : Legal(q)} =
               IF rows[t] \in Importers /\ Cardinality(Found) = 1 THEN Found \intersect Code ELSE {}
<1>1. signals.live = FullSignals(rows)
    BY StoreFacts
<1>2. \A q : q \in ImportEvidence(ModuleSrc(t)) <=>
          q \in NonBlank(rows) /\ \E x : ImportTarget(x, t, q)
    <2> DEFINE X == {x \in rels.live : /\ x.kind = "imports" /\ x.src = ModuleSrc(t)
                                       /\ x.target # NoSignal}
    <2>1. ImportEvidence(ModuleSrc(t)) = {r.target.path : r \in X} \intersect NonBlank(rows)
        BY <1>1, UniquePaths DEF ImportEvidence
    <2>2. \A q : q \in {r.target.path : r \in X} <=> \E x : ImportTarget(x, t, q)
        BY DEF ImportTarget
    <2> HIDE DEF X
    <2>3. QED
        BY <2>1, <2>2
<1>3. \A q \in NonBlank(rows) : Legal(q) <=> q \in Code
    BY DEF Legal, Code, NonBlank
<1>4. Code \subseteq NonBlank(rows)
    BY DEF Code
<1>5. QED
    BY <1>2, <1>3, <1>4, ImportTargetForm
\* A target by import comes before one by name, and the first ones are kept.
Before(byImport, byName, q, p) ==
    IF q \in byImport THEN p \in byImport => q < p ELSE p \in byName /\ q < p
Strongest(byImport, byName) ==
    {p \in byImport \union byName :
         Cardinality({q \in byImport \union byName : Before(byImport, byName, q, p)}) < MaxTargets}

LEMMA StrongestFirst ==
    ASSUME NEW byImport, NEW byName,
           byImport = {} \/ \E a \in Nat : byImport = {a},
           byName = {} \/ \E b \in Nat : byName = {b},
           byImport \intersect byName = {}
    PROVE  Strongest(byImport, byName) =
               IF Cardinality(byImport) >= MaxTargets THEN byImport ELSE byImport \union byName
<1> DEFINE ahead(p) == {q \in byImport \union byName : Before(byImport, byName, q, p)}
<1>1. Cardinality({}) = 0 /\ MaxTargets \in Nat /\ MaxTargets >= 1
    BY FS_EmptySet, LimitsAssumption
<1>2. \A p : p \in Strongest(byImport, byName) <=>
          p \in byImport \union byName /\ Cardinality(ahead(p)) < MaxTargets
    BY DEF Strongest
<1>3. \A p \in byImport : ahead(p) = {}
    BY DEF Before
<1>4. CASE byImport = {}
    <2>1. \A p \in byName : ahead(p) = {}
        BY <1>4 DEF Before
    <2> HIDE DEF ahead
    <2>2. \A p \in byName : Cardinality(ahead(p)) < MaxTargets
        BY <1>1, <2>1
    <2>3. \A p : p \in Strongest(byImport, byName) <=> p \in byName
        BY <1>2, <1>4, <2>2
    <2>4. ~(Cardinality(byImport) >= MaxTargets)
        BY <1>1, <1>4
    <2>5. QED
        BY <1>4, <2>3, <2>4
<1>5. ASSUME NEW a \in Nat, byImport = {a}
      PROVE  Strongest(byImport, byName) =
                 IF Cardinality(byImport) >= MaxTargets THEN byImport ELSE byImport \union byName
    <2>1. Cardinality(byImport) = 1
        BY <1>5, CardinalityOne
    <2>2. \A p \in byName : ahead(p) = {a}
        BY <1>5 DEF Before
    <2>3. Cardinality({a}) = 1
        BY CardinalityOne
    <2> HIDE DEF ahead
    <2>4. \A p \in byImport : Cardinality(ahead(p)) < MaxTargets
        BY <1>1, <1>3
    <2>5. \A p \in byName : Cardinality(ahead(p)) < MaxTargets <=> ~(1 >= MaxTargets)
        BY <1>1, <2>2, <2>3
    <2>6. \A p : p \in Strongest(byImport, byName) <=>
              p \in byImport \/ (p \in byName /\ ~(1 >= MaxTargets))
        BY <1>2, <2>4, <2>5
    <2>7. QED
        BY <2>1, <2>6
<1>6. QED
    BY <1>4, <1>5

LEMMA TargetsAreTested ==
    ASSUME StoreInv, Producers = FullProducers(rows), NEW t \in NonBlank(rows)
    PROVE  TargetsOf(ModuleSrc(t)) = Tested(rows, t)
<1> DEFINE imported == IF rows[t] \in Importers /\ Cardinality(Found) = 1
                       THEN Found \intersect Code ELSE {}
           named    == Conventions \intersect Code
           byName   == IF Cardinality(named) = 1 THEN named \ imported ELSE {}
<1>1. signals.live = FullSignals(rows) /\ Code \subseteq Nat
    BY StoreFacts, PathsAssumption DEF Code, NonBlank
<1>2. {q \in ImportEvidence(ModuleSrc(t)) : Legal(q)} = imported
    BY ImportEvidenceForm
<1>3. ConventionEvidence \ imported = byName
    BY <1>1, ConventionForm
<1>4. TargetsOf(ModuleSrc(t)) = Strongest(imported, byName)
    <2>1. TargetsOf(ModuleSrc(t)) =
              Strongest({q \in ImportEvidence(ModuleSrc(t)) : Legal(q)},
                        ConventionEvidence \ {q \in ImportEvidence(ModuleSrc(t)) : Legal(q)})
        BY DEF TargetsOf, Strongest, Before
    <2> HIDE DEF imported, byName
    <2>2. QED
        BY <1>2, <1>3, <2>1
<1>5. Tested(rows, t) = IF Cardinality(imported) >= MaxTargets THEN imported
                        ELSE imported \union byName
    BY DEF Tested, Found, Code
<1>6. imported = {} \/ \E a \in Nat : imported = {a}
    <2>1. Cardinality(Found) = 1 => \E f : Found = {f}
        BY FoundCases, FS_EmptySet
    <2>2. QED
        BY <1>1, <2>1
<1>7. byName = {} \/ \E b \in Nat : byName = {b}
    <2>1. IsFiniteSet(named)
        <3>1. named \in SUBSET Paths
            BY DEF Code, NonBlank
        <3>2. QED
            BY <3>1, PathsAssumption, FS_Subset
    <2>2. Cardinality(named) = 1 => \E b : named = {b}
        BY <2>1, FS_Singleton
    <2> HIDE DEF imported
    <2>3. named \subseteq Nat
        BY <1>1
    <2>4. QED
        BY <2>2, <2>3
<1>8. imported \intersect byName = {}
    OBVIOUS
<1> HIDE DEF imported, byName
<1>9. QED
    BY <1>4, <1>5, <1>6, <1>7, <1>8, StrongestFirst

LEMMA TestPlain ==
    ASSUME NEW t, NEW q
    PROVE  /\ Plain(Test(rows, t, q)) = Relation(ModuleSrc(t), "tests", "module", q, "exact")
           /\ Plain(Relation(ModuleSrc(t), "tests", "module", q, "exact")) =
                  Relation(ModuleSrc(t), "tests", "module", q, "exact")
BY DEF Plain, Updated, Relation, Test, ModuleSrc

LEMMA FullTestMember ==
    /\ \A x \in FullTests(rows) : \E t \in NonBlank(rows) \intersect TestPaths :
           \E q \in Tested(rows, t) : x = Test(rows, t, q)
    /\ \A t \in NonBlank(rows) \intersect TestPaths : \A q \in Tested(rows, t) :
           Test(rows, t, q) \in FullTests(rows)
BY DEF FullTests

\* The associations are the tests of a full build, before their resolution.
LEMMA AssociationsAreTests ==
    ASSUME StoreInv, Producers = FullProducers(rows)
    PROVE  {Plain(r) : r \in Associations} = {Plain(r) : r \in FullTests(rows)}
<1>1. signals.live = FullSignals(rows)
    BY StoreFacts
<1>2. \A t : ModuleSrc(t).path = t
    BY DEF ModuleSrc, Signal
<1>3. \A x : x \in Associations <=> \E t \in NonBlank(rows) \intersect TestPaths :
          \E q \in Tested(rows, t) : x = Relation(ModuleSrc(t), "tests", "module", q, "exact")
    <2>1. \A x : x \in Associations <=> \E s \in UniqueModules : s.path \in TestPaths /\
              \E q \in TargetsOf(s) : x = Relation(s, "tests", "module", q, "exact")
        BY DEF Associations
    <2>2. \A x : x \in Associations <=> \E t \in NonBlank(rows) : t \in TestPaths /\
              \E q \in TargetsOf(ModuleSrc(t)) :
                  x = Relation(ModuleSrc(t), "tests", "module", q, "exact")
        BY <1>1, <1>2, <2>1, UniqueForm
    <2>3. QED
        BY <2>2, TargetsAreTested
<1>4. ASSUME NEW x \in Associations PROVE \E y \in FullTests(rows) : Plain(x) = Plain(y)
    <2>1. PICK t, q : /\ t \in NonBlank(rows) \intersect TestPaths /\ q \in Tested(rows, t)
                        /\ x = Relation(ModuleSrc(t), "tests", "module", q, "exact")
        BY <1>3
    <2>2. Test(rows, t, q) \in FullTests(rows)
        BY <2>1, FullTestMember
    <2>3. QED
        BY <2>1, <2>2, TestPlain
<1>5. ASSUME NEW y \in FullTests(rows) PROVE \E x \in Associations : Plain(y) = Plain(x)
    <2>1. PICK t, q : /\ t \in NonBlank(rows) \intersect TestPaths /\ q \in Tested(rows, t)
                        /\ y = Test(rows, t, q)
        BY FullTestMember
    <2>2. Relation(ModuleSrc(t), "tests", "module", q, "exact") \in Associations
        BY <1>3, <2>1
    <2>3. QED
        BY <2>1, <2>2, TestPlain
<1>6. QED
    BY <1>4, <1>5

\* An association resolves to the module of its target, which is not blank.
LEMMA TestsResolved ==
    ASSUME StoreInv, NEW X, \A r \in X : Shaped(r) /\ r.kind = "tests",
           \A r \in X : \E y \in FullTests(rows) : Plain(r) = Plain(y),
           \A y \in FullTests(rows) : \E r \in X : Plain(r) = Plain(y)
    PROVE  Resolved(X) = FullTests(rows)
<1>1. signals.live = FullSignals(rows)
    BY StoreFacts
<1>2. ASSUME NEW r \in X, NEW t \in NonBlank(rows), NEW q \in Tested(rows, t),
             Plain(r) = Plain(Test(rows, t, q))
      PROVE  Resolve(r, ModulesOf(X)) = Test(rows, t, q)
    <2>1. q \in NonBlank(rows)
        BY DEF Tested
    <2>2. /\ r.src = ModuleSrc(t) /\ r.kind = "tests" /\ r.tkind = "module" /\ r.name = q
          /\ r.state = "exact"
        <3>1. /\ Plain(r).src = r.src /\ Plain(r).kind = r.kind /\ Plain(r).tkind = r.tkind
              /\ Plain(r).name = r.name /\ Plain(r).state = r.state
            BY DEF Plain, Updated
        <3>2. Plain(r) = Relation(ModuleSrc(t), "tests", "module", q, "exact")
            BY <1>2, TestPlain
        <3>3. QED
            BY <3>1, <3>2 DEF Relation
    <2>3. LiveAt(q, "module") = {ModuleSrc(q)}
        BY <1>1, <2>1, LiveSignals DEF HasSignal, SignalAt, ModuleSrc
    <2>4. Resolve(r, ModulesOf(X)) = Updated(r, "resolved_exact", ModuleSrc(q))
        <3>1. ResolveModule(r) = Target(r, LiveAt(q, "module"), "resolved_exact")
            BY <2>2 DEF ResolveModule
        <3>2. QED
            BY <2>2, <2>3, <3>1, TargetOf DEF Resolve
    <2>5. QED
        BY <2>1, <2>2, <2>4 DEF Updated, Test, ModuleOf, ModuleSrc
<1>3. ASSUME NEW x \in Resolved(X) PROVE x \in FullTests(rows)
    <2>1. PICK r \in X : x = Resolve(r, ModulesOf(X))
        BY ResolvedMember
    <2>2. PICK y \in FullTests(rows) : Plain(r) = Plain(y)
        OBVIOUS
    <2>3. PICK t, q : /\ t \in NonBlank(rows) \intersect TestPaths /\ q \in Tested(rows, t)
                        /\ y = Test(rows, t, q)
        BY FullTestMember
    <2>4. x = y
        BY <1>2, <2>1, <2>2, <2>3
    <2>5. QED
        BY <2>4
<1>4. ASSUME NEW y \in FullTests(rows) PROVE y \in Resolved(X)
    <2>1. PICK r \in X : Plain(r) = Plain(y)
        OBVIOUS
    <2>2. PICK t, q : /\ t \in NonBlank(rows) \intersect TestPaths /\ q \in Tested(rows, t)
                        /\ y = Test(rows, t, q)
        BY FullTestMember
    <2>3. y = Resolve(r, ModulesOf(X))
        BY <1>2, <2>1, <2>2
    <2>4. QED
        BY <2>3, ResolvedMember
<1>5. QED
    BY <1>3, <1>4

LEMMA AssociateGraph == StoreInv /\ GraphInv /\ Associate => GraphInv'
<1> SUFFICES ASSUME StoreInv, GraphInv, Associate PROVE GraphInv'
    OBVIOUS
<1>1. /\ pc = "associate" /\ pc' = "resolveTests"
      /\ UNCHANGED <<rows, chunks, signals, graph, full, prodGen, run, runs>>
      /\ rels' = ReplacedRelations(rels, Of({"tests"}), Associations)
    BY DEF Associate
<1>2. ~run.quiet /\ graph # "ready"
    BY <1>1 DEF StoreInv, RunShape, RunSteps
<1>3. Producers = FullProducers(rows)
    BY <1>1, <1>2 DEF GraphInv, Produced
<1> DEFINE ids == {IdOf(r) : r \in Associations}
<1>4. rels'.live = {r \in rels.live \ Of({"tests"}) : IdOf(r) \notin ids} \union Associations
    BY <1>1 DEF ReplacedRelations
<1>5. /\ \A r \in Associations : r.kind = "tests" /\ IdOf(r)[2] = "tests"
      /\ \A r \in Producers : IdOf(r)[2] # "tests" /\ r.kind # "tests"
    BY AssociationRows DEF IdOf, Producers, Of
<1>6. \A r \in Producers : IdOf(r) \notin ids
    BY <1>5
<1> HIDE DEF ids
<1>7. rels.live = Of({"tests"}) \union Producers /\ Of({"tests"}) \intersect Producers = {}
    BY OfParts DEF StoreInv
<1>8. \A r : r \in rels'.live <=> r \in Producers \/ r \in Associations
    BY <1>4, <1>6, <1>7
<1>9. Producers' = Producers
    <2>1. \A r : r \in Producers' <=> r \in rels'.live /\ r.kind \in {"imports", "uses_type"}
        BY DEF Producers, Of
    <2>2. \A r \in Producers : r.kind \in {"imports", "uses_type"}
        BY DEF Producers, Of
    <2>3. \A r : r \in Producers' <=> r \in Producers
        BY <1>5, <1>8, <2>1, <2>2
    <2>4. QED
        BY <2>3
<1>10. Of({"tests"})' = Associations
    <2>1. \A r : r \in Of({"tests"})' <=> r \in rels'.live /\ r.kind = "tests"
        BY DEF Of
    <2>2. QED
        BY <1>5, <1>8, <2>1
<1>11. Pending'
    BY <1>1 DEF Pending
<1>12. Produced'
    BY <1>1, <1>3, <1>9 DEF Produced
<1>13. Associated'
    <2>1. {Plain(r) : r \in Of({"tests"})'} = {Plain(r) : r \in FullTests(rows)}
        BY <1>3, <1>10, AssociationsAreTests
    <2>2. FullTests(rows)' = FullTests(rows)
        BY <1>1 DEF FullTests, Test, Tested, ModuleOf, NonBlank, Present
    <2>3. QED
        BY <1>1, <2>1, <2>2 DEF Associated
<1>14. ReadyWhole'
    BY <1>1, <1>2 DEF ReadyWhole
<1>15. QED
    BY <1>11, <1>12, <1>13, <1>14 DEF GraphInv

LEMMA ResolveTestsGraph == StoreInv /\ GraphInv /\ ResolveTests => GraphInv'
<1> SUFFICES ASSUME StoreInv, GraphInv, ResolveTests PROVE GraphInv'
    OBVIOUS
<1>1. /\ pc = "resolveTests" /\ pc' = "commit"
      /\ UNCHANGED <<rows, chunks, signals, graph, full, prodGen, assocGen, run, runs>>
      /\ rels'.live = Producers \union Resolved(Of({"tests"}))
    BY DEF ResolveTests, StoreInv, Types, IsTable, Producers
<1>2. ~run.quiet /\ graph # "ready"
    BY <1>1 DEF StoreInv, RunShape, RunSteps
<1>3. Producers = FullProducers(rows)
    BY <1>1, <1>2 DEF GraphInv, Produced
<1> DEFINE X == Of({"tests"})
<1>4. \A r \in X : Shaped(r) /\ r.kind = "tests"
    BY StoreFacts DEF Of
<1>5. {Plain(r) : r \in X} = {Plain(r) : r \in FullTests(rows)}
    BY <1>1 DEF GraphInv, Associated
<1> HIDE DEF X
<1>6. /\ \A r \in X : \E y \in FullTests(rows) : Plain(r) = Plain(y)
      /\ \A y \in FullTests(rows) : \E r \in X : Plain(r) = Plain(y)
    BY <1>5
<1>7. Resolved(X) = FullTests(rows)
    BY <1>4, <1>6, TestsResolved
<1>8. \A x \in FullTests(rows) : x.kind = "tests"
    BY DEF FullTests, Test
<1>9. \A r \in Producers : r.kind \in {"imports", "uses_type"}
    BY DEF Producers, Of
<1>10. rels'.live = Producers \union FullTests(rows)
    BY <1>1, <1>7 DEF X
<1>11. Producers' = Producers
    <2>1. \A r : r \in Producers' <=> r \in rels'.live /\ r.kind \in {"imports", "uses_type"}
        BY DEF Producers, Of
    <2>2. \A r : r \in Producers' <=> r \in Producers
        BY <1>8, <1>9, <1>10, <2>1
    <2>3. QED
        BY <2>2
<1>12. Of({"tests"})' = FullTests(rows)
    <2>1. \A r : r \in Of({"tests"})' <=> r \in rels'.live /\ r.kind = "tests"
        BY DEF Of
    <2>2. \A r : r \in Of({"tests"})' <=> r \in FullTests(rows)
        BY <1>8, <1>9, <1>10, <2>1
    <2>3. QED
        BY <2>2
<1>13. Pending'
    BY <1>1 DEF Pending
<1>14. Produced'
    BY <1>1, <1>3, <1>11 DEF Produced
<1>15. Associated'
    BY <1>1, <1>12 DEF Associated
<1>16. ReadyWhole'
    BY <1>1, <1>2 DEF ReadyWhole
<1>17. QED
    BY <1>13, <1>14, <1>15, <1>16 DEF GraphInv

\* What reaches the commit is whole.
LEMMA CommitWhole ==
    ASSUME StoreInv, GraphInv, pc = "commit"
    PROVE  Whole
<1>1. CASE run.quiet
    BY <1>1 DEF GraphInv, ReadyWhole
<1>2. CASE ~run.quiet
    <2>1. Producers = FullProducers(rows) /\ Of({"tests"}) = FullTests(rows)
        BY <1>2 DEF GraphInv, Produced, Associated
    <2>2. rels.live = Of({"tests"}) \union Producers
        BY OfParts DEF StoreInv
    <2>3. assocGen = prodGen
        BY <1>2 DEF StoreInv, Generations
    <2>4. QED
        BY <2>1, <2>2, <2>3 DEF Whole, FullRelations
<1>3. QED
    BY <1>1, <1>2

LEMMA CommitGraph == StoreInv /\ GraphInv /\ Commit => GraphInv'
<1> SUFFICES ASSUME StoreInv, GraphInv, Commit PROVE GraphInv'
    OBVIOUS
<1>1. /\ pc = "commit" /\ pc' = "idle" /\ run' = NoRun
      /\ UNCHANGED <<rows, prodGen, assocGen, runs>>
    BY DEF Commit
<1>2. rels'.live = rels.live
    BY CommitTables
<1>3. Whole'
    BY <1>1, <1>2, CommitWhole DEF Whole
<1>4. Pending' /\ Produced' /\ Associated'
    BY <1>1 DEF Pending, Produced, Associated
<1>5. QED
    BY <1>3, <1>4 DEF GraphInv, ReadyWhole

LEMMA GraphInit == Init => GraphInv
<1> SUFFICES ASSUME Init PROVE GraphInv
    OBVIOUS
<1>1. pc = "idle" /\ graph = "stale" /\ ~run.quiet
    BY DEF Init, NoRun
<1>2. QED
    BY <1>1 DEF GraphInv, Pending, Produced, Associated, ReadyWhole

LEMMA GraphStep == StoreInv /\ GraphInv /\ [Next]_vars => GraphInv'
<1> SUFFICES ASSUME StoreInv, GraphInv, [Next]_vars PROVE GraphInv'
    OBVIOUS
<1>1. ASSUME NEW kind \in {"index", "refresh"}, Start(kind) PROVE GraphInv'
    BY <1>1, StartGraph
<1>2. CASE MarkStale
    BY <1>2, MarkStaleGraph
<1>3. CASE WriteBatch
    BY <1>3, WriteBatchGraph
<1>4. CASE Written
    BY <1>4, WrittenGraph
<1>5. ASSUME NEW p \in Paths, DeleteFile(p) PROVE GraphInv'
    BY <1>5, DeleteFileGraph
<1>6. CASE ResolveProducers
    BY <1>6, ResolveProducersGraph
<1>7. CASE AdvanceGeneration
    BY <1>7, AdvanceGraph
<1>8. CASE Associate
    BY <1>8, AssociateGraph
<1>9. CASE ResolveTests
    BY <1>9, ResolveTestsGraph
<1>10. CASE Commit
    BY <1>10, CommitGraph
<1>11. CASE Die
    BY <1>11, DieGraph
<1>12. CASE UNCHANGED vars
    BY <1>12, GraphUntouched DEF vars
<1>13. QED
    BY <1>1, <1>2, <1>3, <1>4, <1>5, <1>6, <1>7, <1>8, <1>9, <1>10, <1>11, <1>12 DEF Next, Step

\* Between any two transactions, the files that are not left to write have the
\* relations of the run's target, and what is resolved is resolved in full.
THEOREM GraphInvariance == Spec => [](StoreInv /\ GraphInv)
<1>1. Init => StoreInv /\ GraphInv
    BY StoreInit, GraphInit
<1>2. StoreInv /\ GraphInv /\ [Next]_vars => StoreInv' /\ GraphInv'
    BY StoreStep, GraphStep
<1>3. QED
    BY <1>1, <1>2, PTL DEF Spec

\* A graph that says ready is the one a build of the same files from nothing
\* would give, whatever was edited, deleted, interrupted or purged before.
THEOREM ReadyIsFull == Spec => []ReadyGraphIsFull
<1>1. StoreInv /\ GraphInv => ReadyGraphIsFull
    <2> SUFFICES ASSUME StoreInv, GraphInv, graph = "ready"
                 PROVE  /\ chunks.live = FullChunks(rows)
                        /\ signals.live = FullSignals(rows)
                        /\ rels.live = FullRelations(rows)
                        /\ assocGen = prodGen
        BY DEF ReadyGraphIsFull, FullChunks
    <2>1. Whole
        BY DEF GraphInv, ReadyWhole
    <2>2. QED
        BY <2>1 DEF Whole, StoreInv, RowsLive
<1>2. QED
    BY <1>1, GraphInvariance, PTL

-----------------------------------------------------------------------------
(* The commit's validation *)

\* A relation has a target exactly if it is resolved, and the target is live.
WholeTarget(x) ==
    /\ x.target # NoSignal <=> x.res \in {"resolved_exact", "resolved_unique"}
    /\ x.target # NoSignal => x.target \in signals.live

LEMMA TargetWhole ==
    ASSUME NoSignal \notin signals.live, NEW r, NEW matches, matches \subseteq signals.live,
           NEW resolved \in {"resolved_exact", "resolved_unique"}
    PROVE  WholeTarget(Target(r, matches, resolved))
<1>1. \A res, t : Updated(r, res, t).res = res /\ Updated(r, res, t).target = t
    BY UpdatedFields
<1>2. CASE matches = {} \/ Cardinality(matches) > 1
    BY <1>1, <1>2 DEF Target, WholeTarget
<1>3. CASE matches # {} /\ ~(Cardinality(matches) > 1)
    <2>1. Target(r, matches, resolved) = Updated(r, resolved, CHOOSE s \in matches : TRUE)
        BY <1>3 DEF Target
    <2>2. (CHOOSE s \in matches : TRUE) \in signals.live
        BY <1>3
    <2>3. QED
        BY <1>1, <2>1, <2>2 DEF WholeTarget
<1>4. QED
    BY <1>2, <1>3

LEMMA ResolveWhole ==
    ASSUME NoSignal \notin signals.live, NEW r, NEW m, Shaped(r)
    PROVE  WholeTarget(Resolve(r, m))
<1>1. \A res, t : Updated(r, res, t).res = res /\ Updated(r, res, t).target = t
    BY UpdatedFields
<1>2. \A p, kind : LiveAt(p, kind) \subseteq signals.live
    BY DEF LiveAt
<1>3. CASE r.tkind = "module"
    <2>1. r.state \in {"external", "candidates", "exact"}
        BY <1>3 DEF Shaped
    <2>2. CASE r.state = "external"
        BY <1>1, <1>3, <2>2 DEF Resolve, ResolveModule, WholeTarget
    <2>3. CASE r.state = "candidates"
        BY <1>1, <1>3, <2>3 DEF Resolve, ResolveModule, WholeTarget
    <2>4. CASE r.state = "exact"
        <3>1. Resolve(r, m) = Target(r, LiveAt(r.name, "module"), "resolved_exact")
            BY <1>3, <2>4 DEF Resolve, ResolveModule
        <3>2. QED
            BY <1>2, <3>1, TargetWhole
    <2>5. QED
        BY <2>1, <2>2, <2>3, <2>4
<1>4. CASE r.tkind = "declaration"
    <2> DEFINE bound == \E x \in m : /\ x.src = r.src
                                     /\ x.name = r.name
                                     /\ x.res = "resolved_exact"
                                     /\ x.target.path = r.name
               matches == IF bound THEN LiveAt(r.name, "declaration") ELSE {}
    <2>1. Resolve(r, m) = Target(r, matches, "resolved_exact")
        BY <1>4 DEF Resolve, ResolveDeclaration
    <2>2. matches \subseteq signals.live
        BY <1>2
    <2>3. QED
        BY <2>1, <2>2, TargetWhole
<1>5. CASE r.tkind \notin {"module", "declaration"}
    <2> DEFINE matches == {s \in signals.live : s.kind = "declaration"}
    <2>1. Resolve(r, m) = Target(r, matches, "resolved_unique")
        BY <1>5 DEF Resolve, ResolveName
    <2>2. matches \subseteq signals.live
        OBVIOUS
    <2>3. QED
        BY <2>1, <2>2, TargetWhole
<1>6. QED
    BY <1>3, <1>4, <1>5

LEMMA NoSignalDead ==
    ASSUME StoreInv
    PROVE  NoSignal \notin signals.live
<1>1. signals.live = FullSignals(rows) /\ rows \in Snapshots
    BY StoreFacts
<1>2. ASSUME NEW s \in signals.live PROVE s # NoSignal
    <2>1. PICK p \in Paths, kind \in {"module", "declaration"} :
              HasSignal(p, kind) /\ s = SignalAt(p, kind)
        BY <1>1, SignalMember
    <2>2. QED
        BY <1>1, <2>1, NoSignalApart DEF HasSignal, SignalAt
<1>3. QED
    BY <1>2

\* Every relation of a full build passes _graph_integrity.
LEMMA FullIntegrity ==
    ASSUME StoreInv, Whole
    PROVE  GraphIntegrity
<1>1. signals.live = FullSignals(rows) /\ rows \in Snapshots /\ chunks.live = FullChunks(rows)
      /\ \A r \in rels.live : r.src \in signals.live
    BY StoreFacts DEF StoreInv, RowsLive
<1>2. \A x : x \in rels.live <=> x \in FullProducers(rows) \/ x \in FullTests(rows)
    BY DEF Whole, FullRelations
<1>3. ASSUME NEW x \in FullProducers(rows) PROVE WholeTarget(x)
    <2>1. PICK p \in Paths :
              \/ x = ResolveModule(ModuleRow(p))
              \/ x = ResolveDeclaration(SymbolRow(p), Modules)
              \/ x = ResolveName(UseRow(p))
        BY <1>1, <1>3, ProducerMember
    <2>2. \E r : Shaped(r) /\ x = Resolve(r, Modules)
        BY <2>1, RowsShaped
    <2>3. QED
        BY <2>2, NoSignalDead, ResolveWhole
<1>4. ASSUME NEW x \in FullTests(rows) PROVE WholeTarget(x) /\ x.tkind = "module"
    <2>1. PICK t, q : /\ t \in NonBlank(rows) \intersect TestPaths /\ q \in Tested(rows, t)
                      /\ x = Test(rows, t, q)
        BY FullTestMember
    <2>2. q \in NonBlank(rows)
        BY <2>1 DEF Tested
    <2>3. x.target = ModuleSrc(q) /\ x.res = "resolved_exact" /\ x.tkind = "module"
        BY <2>1, <2>2 DEF Test, ModuleOf, ModuleSrc
    <2>4. ModuleSrc(q) \in LiveAt(q, "module")
        BY <1>1, <2>2, LiveSignals DEF HasSignal, SignalAt, ModuleSrc
    <2>5. ModuleSrc(q) \in signals.live
        BY <2>4 DEF LiveAt
    <2>6. ModuleSrc(q) # NoSignal
        BY <2>5, NoSignalDead
    <2>7. QED
        BY <2>3, <2>5, <2>6 DEF WholeTarget
<1>5. ASSUME NEW x \in rels.live, x.target # NoSignal, x.tkind = "declaration"
      PROVE  \E m \in ModuleRelations(rels.live) : /\ m.src = x.src
                                                   /\ m.res = "resolved_exact"
                                                   /\ m.target \in signals.live
                                                   /\ m.target.path = x.target.path
    <2>1. x \in FullProducers(rows)
        BY <1>2, <1>4, <1>5
    <2>2. PICK p \in Paths : Importing(p) /\ Exact /\ x = ResolveDeclaration(SymbolRow(p), Modules)
        <3>1. \A p : /\ ResolveModule(ModuleRow(p)).tkind = "module"
                     /\ ResolveName(UseRow(p)).tkind = "type"
            BY ResolvedPlain, RowsShaped, RowFields
        <3>2. QED
            BY <1>1, <1>5, <2>1, <3>1, ProducerMember
    <2>3. PICK q \in Paths : Found = {q} /\ Cardinality(Found) = 1 /\ Min(Found) = q
        BY <2>2, FoundCases, SelectorForms DEF Exact
    <2>4. /\ rows[q] \in Declarers
          /\ x = Updated(SymbolRow(p), "resolved_exact", Signal(q, rows[q], "declaration"))
        <3>1. x = IF rows[q] \in Declarers
                  THEN Updated(SymbolRow(p), "resolved_exact", Signal(q, rows[q], "declaration"))
                  ELSE Updated(SymbolRow(p), "unresolved", NoSignal)
            BY <1>1, <2>2, <2>3, SymbolResolved
        <3>2. Updated(SymbolRow(p), "unresolved", NoSignal).target = NoSignal
            BY UpdatedFields
        <3>3. QED
            BY <1>5, <3>1, <3>2
    <2>5. q \in NonBlank(rows)
        BY <2>4, TextsAssumption DEF NonBlank
    <2> DEFINE m == ResolveModule(ModuleRow(p))
    <2>6. m = Updated(ModuleRow(p), "resolved_exact", ModuleSrc(q))
        BY <1>1, <2>3, <2>5, ModuleResolved
    <2>7. m \in rels.live /\ m.tkind = "module"
        BY <1>1, <1>2, <2>2, ProducerMember, ResolvedPlain, RowsShaped, RowFields
    <2> HIDE DEF m
    <2>8. m.src = x.src /\ m.res = "resolved_exact" /\ m.target = ModuleSrc(q)
        BY <2>4, <2>6, UpdatedFields, RowFields
    <2>9. m.target.path = x.target.path
        <3>1. x.target = Signal(q, rows[q], "declaration")
            BY <2>4, UpdatedFields
        <3>2. QED
            BY <2>8, <3>1 DEF ModuleSrc, Signal
    <2>10. m.target \in signals.live
        <3>1. ModuleSrc(q) \in LiveAt(q, "module")
            BY <1>1, <2>5, LiveSignals DEF HasSignal, SignalAt, ModuleSrc
        <3>2. QED
            BY <2>8, <3>1 DEF LiveAt
    <2>11. QED
        BY <2>7, <2>8, <2>9, <2>10 DEF ModuleRelations
<1>6. ASSUME NEW c \in chunks.live PROVE Cardinality(LiveAt(c.path, "module")) = 1
    <2>1. PICK p \in NonBlank(rows) : c = ChunkId(p, rows[p])
        BY <1>1 DEF FullChunks
    <2>2. LiveAt(p, "module") = {ModuleSrc(p)}
        BY <1>1, <2>1, LiveSignals DEF HasSignal, SignalAt, ModuleSrc
    <2>3. c.path = p
        BY <2>1 DEF ChunkId
    <2>4. QED
        BY <2>2, <2>3, CardinalityOne
<1>7. \A x \in rels.live : WholeTarget(x)
    BY <1>2, <1>3, <1>4
<1>8. QED
    BY <1>1, <1>5, <1>6, <1>7 DEF GraphIntegrity, WholeTarget

LEMMA SnapshotIsValid ==
    ASSUME StoreInv, rows = run.target
    PROVE  SnapshotValid
<1>1. chunks.live = FullChunks(rows) /\ signals.live = FullSignals(rows)
    BY DEF StoreInv, RowsLive
<1>2. \A c \in chunks.live : rows[c.path] # Absent
    BY <1>1 DEF FullChunks, ChunkId, NonBlank
<1>3. ASSUME NEW s \in signals.live PROVE ChunkOf(s) \in chunks.live /\ rows[s.path] # Absent
    <2>1. PICK p \in NonBlank(rows) : s \in Emitted(p, rows[p])
        BY <1>1 DEF FullSignals
    <2>2. ChunkOf(s) = ChunkId(p, rows[p]) /\ s.path = p
        BY <2>1 DEF Emitted, ChunkOf, ChunkId, Signal
    <2>3. QED
        BY <1>1, <2>1, <2>2 DEF FullChunks, NonBlank
<1>4. Cardinality(Present(rows)) = Cardinality(Present(run.target))
    OBVIOUS
<1>5. chunks.live = {ChunkId(p, run.target[p]) : p \in NonBlank(run.target)}
    BY <1>1 DEF FullChunks
<1>6. QED
    BY <1>2, <1>3, <1>4, <1>5 DEF SnapshotValid

\* The validation in the ready commit accepts what every run wrote.
THEOREM CommitNeverFails == Spec => []CommitAccepted
<1>1. StoreInv /\ GraphInv => CommitAccepted
    <2> SUFFICES ASSUME StoreInv, GraphInv, pc = "commit" PROVE CommitValid
        BY DEF CommitAccepted
    <2>1. GraphIntegrity
        BY CommitWhole, FullIntegrity
    <2>2. SnapshotValid
        BY AllWritten, SnapshotIsValid DEF RunSteps
    <2>3. QED
        BY <2>1, <2>2 DEF CommitValid
<1>2. QED
    BY <1>1, GraphInvariance, PTL
=============================================================================
