-------------------------- MODULE IndexPublication --------------------------
(***************************************************************************)
(* How `cst index` and `cst refresh` publish an index snapshot.            *)
(*                                                                         *)
(* One snapshot is spread over four artifacts that no transaction spans:   *)
(* the SQLite database, the manifest, the vector descriptor and the pair   *)
(* of files of a vector generation.  A writer holds the index lock, fixes  *)
(* the workspace between two inventory fences, then persists step by step; *)
(* it may die or fail between any two steps, the user may edit the         *)
(* workspace at any time, and a query may hold a read session open.        *)
(*                                                                         *)
(* Each action is one commit or one atomic file operation of the code.     *)
(***************************************************************************)
EXTENDS Naturals, FiniteSets

CONSTANTS
    Paths,          \* eligible source paths
    Contents,       \* what a source file may hold
    Blank,          \* the content that yields no chunk (a file of size 0)
    Gens,           \* vector generation names (fresh uuids in the code)
    ManifestIds,    \* manifest generation names (fresh uuids in the code)
    Absent,         \* no file, no row
    None,           \* no artifact, no run
    MaxEdits,       \* bound: workspace edits
    MaxCrashes,     \* bound: deaths or failures of a writer
    MaxEvents,      \* bound: edits, deaths and failures together
    MaxObservation  \* bound: observation generations wrap here

ASSUME BlankAssumption == Blank \in Contents
ASSUME BoundsAssumption ==
    MaxEdits \in Nat /\ MaxCrashes \in Nat /\ MaxEvents \in Nat /\ MaxObservation \in Nat \ {0, 1}
ASSUME SentinelAssumption ==
    /\ None \notin Gens
    /\ Absent \notin Contents
    /\ Absent \notin [c : Contents, t : Nat]
    /\ Absent \notin [c : Contents, t : Nat, og : Nat]

VARIABLES
    ws,          \* workspace: Paths -> file or Absent
    edits,       \* edits made so far, the source of fresh change tokens
    graph,       \* "none" (no schema yet), "stale" or "ready"
    reason,      \* stale reason
    full,        \* full_reindex_required
    rows,        \* source_files rows, with the observation columns
    chunks,      \* content whose active chunks the database holds
    marker,      \* file_write_in_progress is set
    binding,     \* operational ready binding
    manifest,    \* manifest.json
    descriptor,  \* generation named by vector_snapshot.json
    vecs, idfs,  \* generations whose vectors file / ids file exists
    genIds,      \* embedding ids in each ids file
    pc, op,      \* the writer's step and command; "idle" is lock free
    opening,     \* opening inventory
    prep,        \* prepared snapshot
    fence,       \* workspace when the closing fence passed (history)
    crashes,
    session      \* generation bound by an open ready read session, or None

wsVars   == <<ws, edits>>
dbVars   == <<graph, reason, full, rows, chunks, marker, binding>>
genVars  == <<vecs, idfs, genIds>>
fileVars == <<manifest, descriptor, vecs, idfs, genIds>>
runVars  == <<op, opening, prep, fence>>
vars     == <<wsVars, dbVars, fileVars, pc, runVars, crashes, session>>

-----------------------------------------------------------------------------
(* Data *)

File     == [c : Contents, t : 0..MaxEdits]
Snapshot == [Paths -> File \union {Absent}]
Row      == [c : Contents, t : 0..MaxEdits, og : 0..MaxObservation]
Ids      == Paths \X Contents

Manifests == [mid : ManifestIds, og : 1..MaxObservation, obs : Snapshot, gen : Gens]
Bindings  == [mid : ManifestIds, og : 1..MaxObservation, obs : Snapshot,
              gen : Gens, ids : SUBSET Ids]

ASSUME BindingAssumption == None \notin Bindings
ASSUME SnapshotAssumption == None \notin Snapshot
ASSUME ManifestAssumption == None \notin Manifests

\* The reasons the indexer stores; the last one after a failed BGE restoration.
IndexReasons == {"", "full_reindex", "integrity_check_failed", "files_changed",
                 "path_inventory_changed", "stale_on_entry", "bge_reindex_required"}

\* Reasons a quick refresh may recover from.
QuickAllowedStaleReasons == {"files_changed", "path_inventory_changed", "stale_on_entry"}

Prepared == [obs : Snapshot, og : 1..MaxObservation, mid : ManifestIds, gen : Gens,
             ids : SUBSET Ids, publish : BOOLEAN, force : BOOLEAN, reason : IndexReasons,
             unchanged : BOOLEAN, todo : SUBSET Paths, del : SUBSET Paths]

Steps == {"idle", "cleanup", "sweep", "inspect", "opened", "prepared", "materialize",
          "markStale", "clear", "write", "batch", "publish", "manifest", "commit",
          "finalSweep"}

Present(f)   == {p \in Paths : f[p] # Absent}
ContentOf(f) == [p \in Paths |-> IF f[p] = Absent THEN Absent ELSE f[p].c]
NonEmpty(f)  == {p \in Present(f) : f[p].c # Blank}

\* Chunk ids hash the path and the chunk text: one id per non-blank content.
IdsIn(g, S) == {<<p, g[p]>> : p \in {q \in S : g[q] \notin {Absent, Blank}}}
IdsOf(g)    == IdsIn(g, Paths)

Observed == [p \in Paths |->
    IF rows[p] = Absent THEN Absent ELSE [c |-> rows[p].c, t |-> rows[p].t]]

NextObservation(g) == IF g = MaxObservation THEN 1 ELSE g + 1

NoWorkspace == [p \in Paths |-> Absent]

-----------------------------------------------------------------------------
(* What a writer reads back from the artifacts *)

\* The observation rows still are the ones the binding was committed with.
OperationalReadable ==
    /\ binding # None
    /\ \A p \in Present(rows) : rows[p].og = binding.og
    /\ Observed = binding.obs
    /\ IdsOf(chunks) = binding.ids

DescriptorReadable == descriptor # None /\ descriptor \in vecs \cap idfs

BoundIdentityMatches ==
    /\ manifest.mid = binding.mid
    /\ manifest.og = binding.og
    /\ manifest.obs = binding.obs
    /\ manifest.gen = binding.gen
    /\ descriptor = binding.gen

\* The authoritative path trusts the published vectors only with exactly the
\* embedding ids of the database.
VectorSnapshotValid ==
    /\ graph # "none"
    /\ ~full
    /\ DescriptorReadable
    /\ genIds[descriptor] = IdsOf(chunks)

OperationalIntegrityFailed == graph # "none" /\ binding # None /\ ~OperationalReadable

BindingIntegrityFailed ==
    /\ manifest # None
    /\ IF OperationalReadable THEN ~(VectorSnapshotValid /\ BoundIdentityMatches)
                              ELSE graph = "ready"

ForceFullReindex ==
    \/ graph = "none"
    \/ full
    \/ ~VectorSnapshotValid
    \/ OperationalIntegrityFailed
    \/ BindingIntegrityFailed

QuickBaselineUsable ==
    /\ manifest # None
    /\ graph # "none"
    /\ OperationalReadable
    /\ ~full
    /\ graph = "stale" => reason \in QuickAllowedStaleReasons
    /\ DescriptorReadable
    /\ BoundIdentityMatches
    /\ Cardinality(genIds[descriptor]) = Cardinality(IdsOf(chunks))
    /\ ~marker

-----------------------------------------------------------------------------
(* The two preparations: what a run will write, frozen before the fence *)

Fresh(S, used) == CHOOSE x \in S \ used : TRUE

UsedGens == vecs \union idfs \union
    {g \in Gens : g = descriptor \/ g = session
                  \/ (binding # None /\ g = binding.gen)
                  \/ (manifest # None /\ g = manifest.gen)}
UsedManifestIds ==
    {m \in ManifestIds : \/ (binding # None /\ m = binding.mid)
                         \/ (manifest # None /\ m = manifest.mid)}

NextOg == IF OperationalReadable THEN NextObservation(binding.og) ELSE 1
\* Mutant: a new vector set is written under the published generation's name.
PrepareReusesName(ids, vectorChanged, force, why, unchanged, todo, del) ==
    [obs |-> opening, og |-> NextOg, mid |-> Fresh(ManifestIds, UsedManifestIds),
     gen |-> descriptor, ids |-> ids, publish |-> vectorChanged, force |-> force,
     reason |-> why, unchanged |-> unchanged, todo |-> todo, del |-> del]

Prepare(ids, vectorChanged, force, why, unchanged, todo, del) ==
    [obs       |-> opening,
     og        |-> NextOg,
     mid       |-> Fresh(ManifestIds, UsedManifestIds),
     gen       |-> IF vectorChanged THEN Fresh(Gens, UsedGens) ELSE descriptor,
     ids       |-> ids,
     publish   |-> vectorChanged,
     force     |-> force,
     reason    |-> why,
     unchanged |-> unchanged,
     todo      |-> todo,
     del       |-> del]
\* Mutant: only new files count as changed.
ContentChangedIfNew == {p \in Present(opening) : rows[p] = Absent}

ContentChanged ==
    {p \in Present(opening) : rows[p] = Absent \/ rows[p].c # opening[p].c}
Deleted == Present(rows) \ Present(opening)
PathInventoryChanged == Present(rows) # Present(opening)

\* Sources of import and route relations are rebuilt when the path inventory
\* changed; which files those are depends on their text, so any set of them.
RelationSources == IF PathInventoryChanged THEN SUBSET Present(opening) ELSE {{}}

AuthoritativeReason ==
    IF graph = "none" \/ full THEN "full_reindex"
    ELSE IF ForceFullReindex THEN "integrity_check_failed"
    ELSE IF ContentChanged # {} \/ Deleted # {} THEN "files_changed"
    ELSE "stale_on_entry"

AuthoritativeTodo(sources) ==
    IF ForceFullReindex THEN Present(opening)
    ELSE IF graph = "stale" THEN ContentChanged \union NonEmpty(opening)
    ELSE ContentChanged \union sources

PrepareAuthoritative(sources) ==
    LET force   == ForceFullReindex
        todo    == AuthoritativeTodo(sources)
        fresh   == ContentOf(opening)
        revec   == IF force THEN todo
                   ELSE {p \in todo : p \in ContentChanged
                                      \/ IdsIn(chunks, {p}) # IdsIn(fresh, {p})}
        kept    == IF force THEN {}
                   ELSE genIds[descriptor] \ IdsIn(chunks, revec \union Deleted)
        quiet   == graph = "ready" /\ ~force /\ todo = {} /\ Deleted = {}
    IN  Prepare(kept \union IdsIn(fresh, revec), force \/ revec # {} \/ Deleted # {},
                force, AuthoritativeReason, quiet, todo, Deleted)

RefreshReason ==
    IF PathInventoryChanged THEN "path_inventory_changed"
    ELSE IF Observed # opening THEN "files_changed"
    ELSE "stale_on_entry"

PrepareQuick(sources) ==
    LET dependent == sources \union (IF graph = "stale" THEN NonEmpty(opening) ELSE {})
        removed   == IdsIn(chunks, ContentChanged \union Deleted)
        added     == IdsIn(ContentOf(opening), ContentChanged)
    IN  Prepare((IdsOf(chunks) \ removed) \union added, removed \union added # {},
                FALSE, RefreshReason, FALSE, ContentChanged \union dependent, Deleted)

-----------------------------------------------------------------------------
(* Environment: the user's edits and a query's read session *)

Edit(p) ==
    /\ edits < MaxEdits /\ edits + crashes < MaxEvents
    /\ edits' = edits + 1
    /\ \/ \E c \in Contents : ws' = [ws EXCEPT ![p] = [c |-> c, t |-> edits + 1]]
       \/ ws[p] # Absent /\ ws' = [ws EXCEPT ![p] = Absent]
    /\ UNCHANGED <<dbVars, fileVars, pc, runVars, crashes, session>>
\* Mutant: a query also binds the vectors of a stale index.
OpenStaleSession ==
    /\ session = None
    /\ graph # "none" /\ binding # None
    /\ session' = binding.gen
    /\ UNCHANGED <<wsVars, dbVars, fileVars, pc, runVars, crashes>>

\* A read session is one SQLite read transaction.  In rollback-journal mode a
\* writer's commit waits for it, so every database commit below needs NoReader.
OpenSession ==
    /\ session = None
    /\ graph = "ready" /\ ~full
    /\ session' = binding.gen
    /\ UNCHANGED <<wsVars, dbVars, fileVars, pc, runVars, crashes>>

CloseSession ==
    /\ session # None
    /\ session' = None
    /\ UNCHANGED <<wsVars, dbVars, fileVars, pc, runVars, crashes>>

NoReader == session = None

-----------------------------------------------------------------------------
(* A run takes the lock, tidies up and fixes the workspace *)

NoRun == /\ pc' = "idle"
         /\ op' = None
         /\ opening' = NoWorkspace
         /\ prep' = None
         /\ fence' = NoWorkspace

Keep == UNCHANGED <<wsVars, dbVars, fileVars, crashes, session>>

StartIndex ==
    /\ pc = "idle"
    /\ pc' = "cleanup"
    /\ op' = "index"
    /\ Keep /\ UNCHANGED <<opening, prep, fence>>

StartRefresh ==
    /\ pc = "idle"
    /\ QuickBaselineUsable
    /\ pc' = "sweep"
    /\ op' = "refresh"
    /\ Keep /\ UNCHANGED <<opening, prep, fence>>

\* _retry_existing_vector_generation_cleanup: with at most one complete pair
\* nothing is done; otherwise a readable descriptor says which pair to keep.
CompletePairs == vecs \cap idfs

SkipCleanup ==
    /\ pc = "cleanup"
    /\ Cardinality(CompletePairs) <= 1
    /\ pc' = "inspect"
    /\ Keep /\ UNCHANGED runVars

BeginCleanup ==
    /\ pc = "cleanup"
    /\ Cardinality(CompletePairs) > 1
    /\ DescriptorReadable
    /\ pc' = "sweep"
    /\ Keep /\ UNCHANGED runVars

RefuseCleanup ==
    /\ pc = "cleanup"
    /\ Cardinality(CompletePairs) > 1
    /\ ~DescriptorReadable
    /\ NoRun /\ Keep
\* Mutant: the sweep keeps the generation of the last ready commit.
UnlinkUnbound(g) ==
    /\ pc \in {"sweep", "finalSweep"}
    /\ binding = None \/ g # binding.gen
    /\ g \in idfs
    /\ idfs' = idfs \ {g}
    /\ genIds' = [genIds EXCEPT ![g] = {}]
    /\ UNCHANGED <<wsVars, dbVars, manifest, descriptor, vecs, pc, runVars, crashes, session>>

\* Unlinked one by one in name order: every vector_ids.* before any vectors.*.
UnlinkOrphan(g) ==
    /\ pc \in {"sweep", "finalSweep"}
    /\ g # descriptor
    /\ \/ /\ g \in idfs
          /\ idfs' = idfs \ {g}
          /\ genIds' = [genIds EXCEPT ![g] = {}]
          /\ UNCHANGED vecs
       \/ /\ idfs \subseteq {descriptor}
          /\ g \in vecs
          /\ vecs' = vecs \ {g}
          /\ UNCHANGED <<idfs, genIds>>
    /\ UNCHANGED <<wsVars, dbVars, manifest, descriptor, pc, runVars, crashes, session>>

NoOrphan == vecs \union idfs \subseteq {descriptor}

SweepDone ==
    /\ pc = "sweep"
    /\ NoOrphan
    /\ pc' = "inspect"
    /\ Keep /\ UNCHANGED runVars

\* The final sweep ends the run; its failure is only logged.
FinishRun ==
    /\ pc = "finalSweep"
    /\ NoRun /\ Keep

OpenInventory ==
    /\ pc = "inspect"
    /\ pc' = "opened"
    /\ opening' = ws
    /\ Keep /\ UNCHANGED <<op, prep, fence>>

-----------------------------------------------------------------------------
(* Preparation: every read happens before the closing fence *)

NamesLeft == UsedGens # Gens /\ UsedManifestIds # ManifestIds

\* A refresh of a ready index that finds nothing changed writes nothing, and
\* reports drift if its closing inventory differs.
QuietRefresh ==
    /\ pc = "opened"
    /\ op = "refresh"
    /\ graph = "ready"
    /\ Observed = opening
    /\ ws = opening
    /\ NoRun /\ Keep

PrepareIndex ==
    /\ pc = "opened"
    /\ op = "index"
    /\ NamesLeft
    /\ \A p \in Present(opening) : ws[p] = opening[p]
    /\ \E sources \in RelationSources : prep' = PrepareAuthoritative(sources)
    /\ pc' = "prepared"
    /\ Keep /\ UNCHANGED <<op, opening, fence>>

\* Only new, touched and dependent files are read.  Vectors are carried over
\* only from a generation that holds the ids the database was bound with; else
\* the run ends with "authoritative_index_required".
PrepareRefresh ==
    /\ pc = "opened"
    /\ op = "refresh"
    /\ ~(graph = "ready" /\ Observed = opening)
    /\ NamesLeft
    /\ \E sources \in RelationSources :
           LET p    == PrepareQuick(sources)
               read == p.todo \union {q \in Present(opening) : Observed[q] # opening[q]}
           IN  /\ \A f \in read : ws[f] = opening[f]
               /\ IF p.publish /\ genIds[descriptor] # IdsOf(chunks)
                  THEN NoRun
                  ELSE prep' = p /\ pc' = "prepared" /\ UNCHANGED <<op, opening, fence>>
    /\ Keep
\* Mutant: the closing inventory is not compared with the opening one.
CloseFenceUnchecked ==
    /\ pc = "prepared"
    /\ fence' = ws
    /\ pc' = IF op = "refresh" /\ prep.publish THEN "materialize" ELSE "markStale"
    /\ Keep /\ UNCHANGED <<op, opening, prep>>

CloseFence ==
    /\ pc = "prepared"
    /\ ws = opening
    /\ fence' = ws
    /\ pc' = IF op = "refresh" /\ prep.publish THEN "materialize" ELSE "markStale"
    /\ Keep /\ UNCHANGED <<op, opening, prep>>

\* WorkspaceChangedError: the inventories differ, or a read was interrupted.
FenceDrift ==
    /\ pc \in {"opened", "prepared"}
    /\ ws # opening
    /\ NoRun /\ Keep

-----------------------------------------------------------------------------
(* Persistence *)

MaterializeVectors ==
    /\ pc = "materialize"
    /\ prep.gen \notin vecs
    /\ vecs' = vecs \union {prep.gen}
    /\ UNCHANGED <<wsVars, dbVars, manifest, descriptor, idfs, genIds,
                   pc, runVars, crashes, session>>

MaterializeIds ==
    /\ pc = "materialize"
    /\ prep.gen \in vecs
    /\ idfs' = idfs \union {prep.gen}
    /\ genIds' = [genIds EXCEPT ![prep.gen] = prep.ids]
    /\ pc' = IF op = "refresh" THEN "markStale" ELSE "publish"
    /\ UNCHANGED <<wsVars, dbVars, manifest, descriptor, vecs, runVars, crashes, session>>
\* Mutant: a run without files to write leaves a ready index ready.
MarkStaleIfWriting ==
    /\ pc = "markStale"
    /\ NoReader
    /\ graph' = IF graph = "ready" /\ prep.todo = {} /\ prep.del = {} THEN graph ELSE "stale"
    /\ reason' = prep.reason
    /\ full' = (full \/ prep.force)
    /\ pc' = "clear"
    /\ UNCHANGED <<wsVars, rows, chunks, marker, binding, fileVars, runVars, crashes, session>>

\* Mutant: the stale mark does not wait for open read sessions.
MarkStaleUnderReader ==
    /\ pc = "markStale"
    /\ graph' = "stale"
    /\ reason' = prep.reason
    /\ full' = (full \/ prep.force)
    /\ pc' = "clear"
    /\ UNCHANGED <<wsVars, rows, chunks, marker, binding, fileVars, runVars, crashes, session>>

\* initialize_v5 on a database without the schema, mark_graph_stale otherwise,
\* which only ever raises the full-reindex flag.
MarkStale ==
    /\ pc = "markStale"
    /\ NoReader
    /\ graph' = "stale"
    /\ reason' = prep.reason
    /\ full' = (full \/ prep.force)
    /\ pc' = "clear"
    /\ UNCHANGED <<wsVars, rows, chunks, marker, binding, fileVars, runVars, crashes, session>>
\* Mutant: the marker that a dead batch left is not cleared.
KeepMarker ==
    /\ pc = "clear"
    /\ NoReader
    /\ pc' = "write"
    /\ UNCHANGED <<wsVars, dbVars, fileVars, runVars, crashes, session>>

ClearMarker ==
    /\ pc = "clear"
    /\ NoReader
    /\ marker' = FALSE
    /\ pc' = "write"
    /\ UNCHANGED <<wsVars, graph, reason, full, rows, chunks, binding, fileVars, runVars,
                   crashes, session>>

\* A batch commits its in-progress marker first, then the files and the cleared
\* marker in one transaction.
BeginBatch ==
    /\ pc = "write"
    /\ prep.todo # {}
    /\ NoReader
    /\ marker' = TRUE
    /\ pc' = "batch"
    /\ UNCHANGED <<wsVars, graph, reason, full, rows, chunks, binding, fileVars, runVars,
                   crashes, session>>

\* The row takes hash and time at once; its observation generation waits for
\* ReplaceObservations (a new row has the column default 0).
CommitBatch ==
    /\ pc = "batch"
    /\ NoReader
    /\ \E B \in (SUBSET prep.todo) \ {{}} :
        /\ rows' = [p \in Paths |->
               IF p \notin B THEN rows[p]
               ELSE [c |-> prep.obs[p].c, t |-> prep.obs[p].t,
                     og |-> IF rows[p] = Absent THEN 0 ELSE rows[p].og]]
        /\ chunks' = [p \in Paths |-> IF p \in B THEN prep.obs[p].c ELSE chunks[p]]
        /\ prep' = [prep EXCEPT !.todo = @ \ B]
    /\ marker' = FALSE
    /\ pc' = "write"
    /\ UNCHANGED <<wsVars, graph, reason, full, binding, fileVars, op, opening, fence,
                   crashes, session>>
\* Mutant: the row goes, its chunks stay active.
DeleteRowOnly(p) ==
    /\ pc = "write"
    /\ prep.todo = {}
    /\ p \in prep.del
    /\ NoReader
    /\ rows' = [rows EXCEPT ![p] = Absent]
    /\ prep' = [prep EXCEPT !.del = @ \ {p}]
    /\ UNCHANGED <<wsVars, graph, reason, full, chunks, marker, binding, fileVars, pc, op,
                   opening, fence, crashes, session>>

DeleteFile(p) ==
    /\ pc = "write"
    /\ prep.todo = {}
    /\ p \in prep.del
    /\ NoReader
    /\ rows' = [rows EXCEPT ![p] = Absent]
    /\ chunks' = [chunks EXCEPT ![p] = Absent]
    /\ prep' = [prep EXCEPT !.del = @ \ {p}]
    /\ UNCHANGED <<wsVars, graph, reason, full, marker, binding, fileVars, pc, op, opening,
                   fence, crashes, session>>

\* Every row gets the columns of its observation; the paths must be the same.
ReplaceObservations ==
    /\ pc = "write"
    /\ prep.todo = {} /\ prep.del = {}
    /\ Present(rows) = Present(prep.obs)
    /\ NoReader
    /\ rows' = [p \in Paths |->
           IF prep.obs[p] = Absent THEN Absent
           ELSE [c |-> prep.obs[p].c, t |-> prep.obs[p].t, og |-> prep.og]]
    /\ pc' = IF op = "index" /\ prep.publish THEN "materialize" ELSE "publish"
    /\ UNCHANGED <<wsVars, graph, reason, full, chunks, marker, binding, fileVars, runVars,
                   crashes, session>>

\* An unchanged vector set keeps the descriptor: prep.gen then is the current one.
PublishDescriptor ==
    /\ pc = "publish"
    /\ descriptor' = prep.gen
    /\ pc' = "manifest"
    /\ UNCHANGED <<wsVars, dbVars, manifest, genVars, runVars, crashes, session>>

PublishManifest ==
    /\ pc = "manifest"
    /\ manifest' = [mid |-> prep.mid, og |-> prep.og, obs |-> prep.obs, gen |-> prep.gen]
    /\ pc' = "commit"
    /\ UNCHANGED <<wsVars, dbVars, descriptor, genVars, runVars, crashes, session>>

-----------------------------------------------------------------------------
(* The ready commit, or the end of the run *)

GraphValid == ~marker /\ IdsOf(chunks) = prep.ids

ArtifactsValid ==
    /\ manifest.mid = prep.mid
    /\ descriptor = prep.gen
    /\ DescriptorReadable
    /\ genIds[descriptor] = prep.ids

ObservationsBound ==
    /\ Observed = prep.obs
    /\ \A p \in Present(rows) : rows[p].og = prep.og

\* A verified no-op of `index` skips the check of the graph itself.
CommitValid ==
    /\ prep.unchanged \/ GraphValid
    /\ ObservationsBound
    /\ ArtifactsValid

CommitReady ==
    /\ pc = "commit"
    /\ NoReader
    /\ IF CommitValid
       THEN /\ graph' = "ready"
            /\ reason' = ""
            /\ full' = FALSE
            /\ binding' = [mid |-> prep.mid, og |-> prep.og, obs |-> prep.obs,
                           gen |-> prep.gen, ids |-> prep.ids]
            /\ pc' = "finalSweep"
            /\ UNCHANGED runVars
       ELSE NoRun /\ UNCHANGED <<graph, reason, full, binding>>
    /\ UNCHANGED <<wsVars, rows, chunks, marker, fileVars, crashes, session>>

\* The process dies, or a step raises: what was committed stays, the lock goes.
Crash ==
    /\ pc # "idle"
    /\ crashes < MaxCrashes /\ edits + crashes < MaxEvents
    /\ crashes' = crashes + 1
    /\ NoRun
    /\ UNCHANGED <<wsVars, dbVars, fileVars, session>>

-----------------------------------------------------------------------------
Init ==
    /\ ws \in [Paths -> [c : Contents, t : {0}] \union {Absent}]
    /\ edits = 0
    /\ graph = "none" /\ reason = "" /\ full = FALSE
    /\ rows = NoWorkspace /\ chunks = NoWorkspace
    /\ marker = FALSE
    /\ binding = None /\ manifest = None /\ descriptor = None
    /\ vecs = {} /\ idfs = {} /\ genIds = [g \in Gens |-> {}]
    /\ pc = "idle" /\ op = None /\ opening = NoWorkspace /\ prep = None /\ fence = NoWorkspace
    /\ crashes = 0
    /\ session = None

Environment == (\E p \in Paths : Edit(p)) \/ OpenSession \/ CloseSession \/ Crash

WriterStep ==
    \/ SkipCleanup \/ BeginCleanup \/ RefuseCleanup
    \/ \E g \in Gens : UnlinkOrphan(g)
    \/ SweepDone \/ FinishRun
    \/ OpenInventory
    \/ QuietRefresh \/ PrepareIndex \/ PrepareRefresh
    \/ CloseFence \/ FenceDrift
    \/ MaterializeVectors \/ MaterializeIds
    \/ MarkStale \/ ClearMarker \/ BeginBatch \/ CommitBatch
    \/ \E p \in Paths : DeleteFile(p)
    \/ ReplaceObservations
    \/ PublishDescriptor \/ PublishManifest
    \/ CommitReady

Next == Environment \/ StartIndex \/ StartRefresh \/ WriterStep

Spec == Init /\ [][Next]_vars

\* A running writer keeps stepping (SQLite admits no new reader while a commit is
\* pending, so queries cannot starve it: strong fairness), a query ends, and the
\* user runs `cst index` again and again.
LiveSpec ==
    /\ Spec
    /\ SF_vars(WriterStep)
    /\ WF_vars(CloseSession)
    /\ SF_vars(StartIndex)

-----------------------------------------------------------------------------
(* Properties *)

MarkedSteps == {"clear", "write", "batch", "publish", "manifest", "commit"}
PreparedSteps == MarkedSteps \union {"prepared", "materialize", "markStale", "finalSweep"}

\* Every variable keeps its range, and a run past its preparation has one.
TypeOK ==
    /\ ws \in Snapshot /\ edits \in 0..MaxEdits
    /\ graph \in {"none", "stale", "ready"}
    /\ reason \in IndexReasons
    /\ full \in BOOLEAN /\ marker \in BOOLEAN
    /\ rows \in [Paths -> Row \union {Absent}]
    /\ chunks \in [Paths -> Contents \union {Absent}]
    /\ binding \in Bindings \union {None}
    /\ manifest \in Manifests \union {None}
    /\ descriptor \in Gens \union {None}
    /\ vecs \subseteq Gens /\ idfs \subseteq Gens
    /\ genIds \in [Gens -> SUBSET Ids]
    /\ pc \in Steps /\ op \in {"index", "refresh", None}
    /\ opening \in Snapshot /\ fence \in Snapshot
    /\ prep \in Prepared \union {None}
    /\ pc \in PreparedSteps => prep \in Prepared
    /\ crashes \in 0..MaxCrashes
    /\ session \in Gens \union {None}

\* A database that says "ready" agrees with all three of the files beside it:
\* the ready commit is the only step that ties the four artifacts together, and
\* no later crash, sweep or unfinished run may untie them while it says so.
ReadyBound ==
    graph = "ready" =>
        /\ OperationalReadable
        /\ BoundIdentityMatches
        /\ DescriptorReadable
        /\ genIds[descriptor] = IdsOf(chunks)
        /\ ~full

\* The searchable chunks of a ready index are the text of exactly the files its
\* rows describe, also when only part of the files was rewritten by this run.
ReadyContentExact == graph = "ready" => chunks = ContentOf(Observed)

\* A query that opened a ready session finds on disk the vectors of the very
\* embedding ids its transaction reads, whatever writers do meanwhile.
ReadyReaderLoads ==
    session # None =>
        /\ session = descriptor
        /\ DescriptorReadable
        /\ genIds[session] = IdsOf(chunks)

\* No sequence of deaths, sweeps and retries removes a file of the generation
\* that the published descriptor names.
PublishedGenerationKept == descriptor # None => DescriptorReadable

\* The final validation never fails: whatever state the run started from, what
\* it prepared before the fence is what its batches left in the database.
CommitNeverRejected == pc = "commit" => CommitValid

\* The index that becomes ready is the workspace as it was when the closing
\* fence passed, in the rows, in the chunks and in the vector ids.
CommitMatchesFence ==
    [][graph # "ready" /\ graph' = "ready" =>
           /\ Observed' = fence
           /\ chunks' = ContentOf(fence)
           /\ genIds'[descriptor'] = IdsOf(ContentOf(fence))]_vars

\* Nothing a ready index consists of changes before the index is marked stale.
StaleBeforeMutation ==
    [][<<rows, chunks, marker, binding, manifest, descriptor>>'
           # <<rows, chunks, marker, binding, manifest, descriptor>>
       => graph # "ready"]_vars

-----------------------------------------------------------------------------
(* What the documents claim and the code does not keep *)

\* `cst index` is the "authoritative initial index, audit, recovery" command:
\* while the user keeps running it, the first index eventually becomes ready.
FirstIndexRecovers == <>(graph = "ready")
=============================================================================
