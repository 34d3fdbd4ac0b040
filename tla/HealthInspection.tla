-------------------------- MODULE HealthInspection --------------------------
(***************************************************************************)
(* `cst status` beside a writer: what a read-only inspection may report.   *)
(*                                                                         *)
(* The inspection takes no lock.  A preflight looks at the raw manifest    *)
(* and at the raw database and answers at once when one of them fails.     *)
(* Then it reads the manifest, the database, the vector descriptor and the *)
(* workspace one after the other, looks at them a second time, probes the  *)
(* writer lock last, and derives a report from the two looks.  A writer,   *)
(* its death and the user's edits interleave with every one of these.      *)
(***************************************************************************)
EXTENDS IndexPublication

VARIABLES
    step,     \* next step of the inspection; "off" or "report" between two
    mode,     \* "quick" or "verified"
    look,     \* the artifacts read so far by the snapshot being read
    first,    \* opening snapshot
    inv,      \* opening inventory
    unread,   \* files the verified mode still has to read
    checks,   \* what the inspection noted on the way
    report,
    truth,    \* history: what held at the closing inventory, and since the start
    journal,  \* a commit that died left its rollback journal
    runsLeft  \* bound: runs that may start before the inspection ends

healthVars == <<step, mode, look, first, inv, unread, checks, report, truth, journal,
                runsLeft>>
allVars    == <<vars, healthVars>>

PreflightSteps == {"rawManifest", "rawSchema"}

InspectionSteps == {"manifest", "database", "descriptor", "inventory", "files", "vectors",
                    "closing", "quickManifest", "quickDescriptor", "quickIdentity",
                    "writer"}

NoLook   == [mf |-> None, db |-> None, again |-> FALSE]
NoChecks == [vectors |-> "none", changed |-> {}, inventory |-> TRUE, snapshot |-> TRUE]
NoTruth  == [intact |-> FALSE, fresh |-> FALSE, ready |-> FALSE]
NoReport == [health |-> "none", integrity |-> "unchecked", freshness |-> "unknown",
             queryable |-> FALSE, inspected |-> "none"]

-----------------------------------------------------------------------------
(* One committed snapshot: manifest, database and descriptor *)

Generations == vecs \union idfs
GenerationCount(kept) == Cardinality(Generations \ {kept})
SeenDescriptor == IF DescriptorReadable THEN descriptor ELSE None

\* Rows and ids were checked against the binding by the transaction that read it.
DatabaseSeen == [graph |-> graph, reason |-> reason, binding |-> binding]

ManifestValid(mf, db) ==
    /\ mf.mid = db.binding.mid
    /\ mf.og = db.binding.og
    /\ mf.obs = db.binding.obs
    /\ mf.gen = db.binding.gen

\* The identity and the row count only; the ids are for the verified mode.
VectorValid(mf, db, desc) ==
    /\ desc # None
    /\ desc = db.binding.gen
    /\ desc = mf.gen
    /\ Cardinality(genIds[desc]) = Cardinality(db.binding.ids)

\* The SQLite change counter is the one the ready commit bound: nothing was
\* committed since.
CounterBound(db) == db.graph = "ready"

BoundSnapshot(mf, db, desc) ==
    LET count == GenerationCount(IF desc # None THEN desc ELSE mf.gen)
    IN  [mid |-> db.binding.mid, graph |-> db.graph, reason |-> db.reason,
         files |-> db.binding.obs, ids |-> db.binding.ids,
         gen |-> IF desc # None THEN desc ELSE db.binding.gen,
         manifest |-> ManifestValid(mf, db), sqlite |-> TRUE,
         vector |-> VectorValid(mf, db, desc), count |-> count,
         token |-> IF desc # None /\ CounterBound(db)
                   THEN <<mf, db, desc, count>> ELSE <<>>]

\* A database without binding beside a manifest.  The code reads the graph state in
\* a transaction of its own here; a snapshot without binding is neither valid nor
\* fresh whichever state it carries.
UnboundSnapshot(mf, db) ==
    [mid |-> mf.mid, graph |-> db.graph, reason |-> db.reason, files |-> NoWorkspace,
     ids |-> {}, gen |-> mf.gen, manifest |-> TRUE, sqlite |-> FALSE, vector |-> FALSE,
     count |-> GenerationCount(mf.gen), token |-> <<>>]

SnapshotOf(mf, db, desc) ==
    IF db.binding = None THEN UnboundSnapshot(mf, db) ELSE BoundSnapshot(mf, db, desc)

Queryable(s) == s.graph = "ready" /\ s.manifest /\ s.vector

-----------------------------------------------------------------------------
(* The writer's steps, with the history they leave *)

Inspecting == step \in InspectionSteps

\* The database was read for the last time.
DatabaseDone == step = "writer" \/ (step = "descriptor" /\ look.again)

Watched ==
    IF Inspecting /\ step # "manifest"
    THEN [truth EXCEPT !.ready = @ \/ (graph' = "ready" /\ ~DatabaseDone)]
    ELSE truth

Beside == truth' = Watched
          /\ UNCHANGED <<step, mode, look, first, inv, unread, checks, report>>

\* Steps of a run that commit: the commit shuts readers out of the database, and
\* a death in it may leave the journal.
CommitSteps == {"markStale", "clear", "write", "batch", "commit"}

\* Names are uuids in the code: the bound keeps a second run from reusing one
\* that this inspection has seen.  `index` opens the database read-write, which
\* rolls the journal back; `refresh` has a preflight that refuses it.
StartRun ==
    /\ \/ StartIndex /\ journal' = FALSE
       \/ StartRefresh /\ ~journal /\ UNCHANGED journal
    /\ Inspecting => runsLeft > 0
    /\ runsLeft' = IF Inspecting THEN runsLeft - 1 ELSE runsLeft
    /\ Beside

Others ==
    /\ \/ Crash /\ journal' \in {FALSE, (pc \in CommitSteps)}
       \/ (WriterStep \/ \E p \in Paths : Edit(p)) /\ UNCHANGED journal
    /\ Beside /\ UNCHANGED runsLeft

-----------------------------------------------------------------------------
(* The inspection *)

Still == UNCHANGED vars

Answer(r) ==
    /\ step' = "report"
    /\ report' = r
    /\ look' = NoLook /\ first' = None /\ inv' = NoWorkspace /\ unread' = {}
    /\ checks' = NoChecks
    /\ runsLeft' = 0
    /\ UNCHANGED mode

PreflightAnswer(health) == Answer([NoReport EXCEPT !.health = health])

\* Mutant: a database without manifest passes the preflight.
StatusStartUnprobed ==
    /\ ~Inspecting /\ step \notin PreflightSteps
    /\ mode' \in {"quick", "verified"}
    /\ truth' = NoTruth
    /\ first' = None /\ inv' = NoWorkspace /\ unread' = {} /\ checks' = NoChecks
    /\ runsLeft' = 0
    /\ report' = NoReport
    /\ graph # "none"
    /\ look' = [NoLook EXCEPT !.mf = manifest]
    /\ step' = "rawManifest"
    /\ UNCHANGED journal
    /\ Still

\* probe_raw_index_capability: neither file, a database without manifest, or a
\* manifest that is read.
StatusStart ==
    /\ ~Inspecting /\ step \notin PreflightSteps
    /\ mode' \in {"quick", "verified"}
    /\ truth' = NoTruth
    /\ first' = None /\ inv' = NoWorkspace /\ unread' = {} /\ checks' = NoChecks
    /\ runsLeft' = 0
    /\ IF manifest = None
       THEN /\ report' = [NoReport EXCEPT
                  !.health = IF graph = "none" /\ ~journal THEN "missing" ELSE "corrupt"]
            /\ look' = NoLook
            /\ step' = "report"
       ELSE /\ report' = NoReport
            /\ look' = [NoLook EXCEPT !.mf = manifest]
            /\ step' = "rawManifest"
    /\ UNCHANGED journal
    /\ Still

\* A manifest replaced while it was read is corruption ("manifest_changed").
InspectRawManifest ==
    /\ step = "rawManifest"
    /\ IF manifest # look.mf
       THEN PreflightAnswer("corrupt")
       ELSE /\ step' = "rawSchema"
            /\ look' = NoLook
            /\ UNCHANGED <<mode, first, inv, unread, checks, report, runsLeft>>
    /\ UNCHANGED <<truth, journal>>
    /\ Still

\* A read-only connection that waits for nobody: the lock of a commit, or a
\* journal it may not roll back, is "malformed_sqlite", hence corruption.
InspectRawSchema ==
    /\ step = "rawSchema"
    /\ \/ /\ ~journal
          /\ step' = "manifest"
          /\ runsLeft' = IF pc = "idle" THEN 1 ELSE 0
          /\ UNCHANGED <<mode, look, first, inv, unread, checks, report>>
       \/ /\ journal \/ pc \in CommitSteps
          /\ PreflightAnswer("corrupt")
    /\ UNCHANGED <<truth, journal>>
    /\ Still

\* From here on the history counts: the first artifact is read.
ReadManifest ==
    /\ step = "manifest"
    /\ look' = [look EXCEPT !.mf = manifest]
    /\ step' = "database"
    /\ truth' = [truth EXCEPT !.ready = @ \/ graph = "ready"]
    /\ UNCHANGED <<mode, first, inv, unread, checks, report, journal, runsLeft>>
    /\ Still

\* One read transaction of a connection that rolls a journal back; observations
\* that are not the bound ones raise, and the command answers status_failed.
ReadDatabase ==
    /\ step = "database"
    /\ IF binding # None /\ ~OperationalReadable
       THEN Answer([NoReport EXCEPT !.health = "failed"])
       ELSE /\ look' = [look EXCEPT !.db = DatabaseSeen]
            /\ step' = "descriptor"
            /\ UNCHANGED <<mode, first, inv, unread, checks, report, runsLeft>>
    /\ journal' = FALSE
    /\ UNCHANGED truth
    /\ Still

ReadDescriptor ==
    /\ step = "descriptor"
    /\ LET s == SnapshotOf(look.mf, look.db, SeenDescriptor)
       IN  IF look.again
           THEN /\ checks' = [checks EXCEPT !.snapshot = (s = first)]
                /\ step' = "writer"
                /\ UNCHANGED first
           ELSE /\ first' = s
                /\ step' = "inventory"
                /\ UNCHANGED checks
    /\ look' = NoLook
    /\ UNCHANGED <<mode, inv, unread, report, truth, journal, runsLeft>>
    /\ Still

OpeningInventory ==
    /\ step = "inventory"
    /\ inv' = ws
    /\ unread' = IF mode = "verified" THEN Present(ws) ELSE {}
    /\ step' = IF mode = "verified" THEN "files" ELSE "closing"
    /\ UNCHANGED <<mode, look, first, checks, report, truth, journal, runsLeft>>
    /\ Still

\* A file that is no longer the one of the inventory was changed during the read.
ReadFile(p) ==
    /\ step = "files"
    /\ p \in unread
    /\ unread' = unread \ {p}
    /\ checks' = [checks EXCEPT !.changed = IF ws[p] # inv[p] THEN @ \union {p} ELSE @]
    /\ UNCHANGED <<step, mode, look, first, inv, report, truth, journal, runsLeft>>
    /\ Still

FilesRead ==
    /\ step = "files"
    /\ unread = {}
    /\ step' = "vectors"
    /\ UNCHANGED <<mode, look, first, inv, unread, checks, report, truth, journal, runsLeft>>
    /\ Still

\* The ids of whatever generation is published now, against the ids seen.
VerifyVectors ==
    /\ step = "vectors"
    /\ checks' = [checks EXCEPT !.vectors =
           IF ~first.vector \/ ~DescriptorReadable THEN "invalid"
           ELSE IF genIds[descriptor] # first.ids THEN "invalid"
           ELSE IF descriptor # first.gen THEN "interrupted"
           ELSE "valid"]
    /\ step' = "closing"
    /\ UNCHANGED <<mode, look, first, inv, unread, report, truth, journal, runsLeft>>
    /\ Still

ArtifactsAgree ==
    /\ OperationalReadable
    /\ BoundIdentityMatches
    /\ DescriptorReadable
    /\ Cardinality(genIds[descriptor]) = Cardinality(binding.ids)
    /\ mode = "verified" => genIds[descriptor] = binding.ids

\* Mutant: the closing inventory is not compared with the opening one.
ClosingInventoryUnchecked ==
    /\ step = "closing"
    /\ truth' = [truth EXCEPT !.intact = ArtifactsAgree,
                              !.fresh = (graph = "ready" /\ Observed = ws)]
    /\ step' = IF first.token = <<>> THEN "manifest" ELSE "quickManifest"
    /\ look' = [NoLook EXCEPT !.again = TRUE]
    /\ UNCHANGED <<mode, first, inv, unread, checks, report, journal, runsLeft>>
    /\ Still

ClosingInventory ==
    /\ step = "closing"
    /\ checks' = [checks EXCEPT !.inventory = (ws = inv)]
    /\ truth' = [truth EXCEPT !.intact = ArtifactsAgree,
                              !.fresh = (graph = "ready" /\ Observed = ws)]
    /\ step' = IF first.token = <<>> THEN "manifest" ELSE "quickManifest"
    /\ look' = [NoLook EXCEPT !.again = TRUE]
    /\ UNCHANGED <<mode, first, inv, unread, report, journal, runsLeft>>
    /\ Still

\* recheck_committed_index_snapshot: with a token, three short reads; any
\* difference or error is followed by a whole second snapshot.
RecheckManifest ==
    /\ step = "quickManifest"
    /\ look' = [look EXCEPT !.mf = manifest]
    /\ step' = "quickDescriptor"
    /\ UNCHANGED <<mode, first, inv, unread, checks, report, truth, journal, runsLeft>>
    /\ Still

RecheckDescriptor ==
    /\ step = "quickDescriptor"
    /\ IF SeenDescriptor = None
       THEN step' = "manifest" /\ UNCHANGED look
       ELSE /\ look' = [look EXCEPT !.db = <<descriptor, GenerationCount(descriptor)>>]
            /\ step' = "quickIdentity"
    /\ UNCHANGED <<mode, first, inv, unread, checks, report, truth, journal, runsLeft>>
    /\ Still

TokenNow == <<look.mf, DatabaseSeen, look.db[1], look.db[2]>>
\* Mutant: the binding alone is compared.
RecheckBindingOnly ==
    /\ step = "quickIdentity"
    /\ step' = IF binding = first.token[2].binding THEN "writer" ELSE "manifest"
    /\ look' = [NoLook EXCEPT !.again = TRUE]
    /\ journal' = FALSE
    /\ UNCHANGED <<mode, first, inv, unread, checks, report, truth, runsLeft>>
    /\ Still

RecheckIdentity ==
    /\ step = "quickIdentity"
    /\ step' = IF TokenNow = first.token THEN "writer" ELSE "manifest"
    /\ look' = [NoLook EXCEPT !.again = TRUE]
    /\ journal' = FALSE
    /\ UNCHANGED <<mode, first, inv, unread, checks, report, truth, runsLeft>>
    /\ Still

-----------------------------------------------------------------------------
(* The report *)

Stable == checks.snapshot /\ checks.inventory
Interrupted(active) ==
    \/ ~Stable
    \/ active
    \/ checks.changed # {}
    \/ checks.vectors = "interrupted"

\* Added, deleted and touched files; an indexed file that changed while it was
\* read counts as neither.
Delta == \E p \in Paths : /\ first.files[p] # inv[p]
                          /\ first.files[p] # Absent => p \notin checks.changed

ArtifactInvalid ==
    \/ ~(first.manifest /\ first.sqlite /\ first.vector)
    \/ checks.vectors = "invalid"
\* Mutant: an invalid artifact is corruption however unstable the two looks were.
CorruptAnyway(active) == ArtifactInvalid /\ ~active

ConfirmedCorrupt(active) == ArtifactInvalid /\ ~Interrupted(active)

Freshness(active) ==
    IF ConfirmedCorrupt(active) THEN "unknown"
    ELSE IF first.graph = "stale" \/ Delta THEN "stale"
    ELSE IF Interrupted(active) THEN "unknown"
    ELSE "fresh"

Integrity(active) ==
    IF ConfirmedCorrupt(active) THEN "invalid"
    ELSE IF Interrupted(active) THEN "unchecked"
    ELSE "valid"

Health(active) ==
    IF ConfirmedCorrupt(active) THEN "corrupt"
    ELSE IF first.graph = "stale" \/ Freshness(active) = "stale" THEN "stale"
    ELSE IF Interrupted(active) THEN "degraded"
    ELSE "healthy"

\* The writer probe comes last; the report is derived from what was noted.
ProbeWriter ==
    /\ step = "writer"
    /\ LET active == pc # "idle"
       IN  Answer([health    |-> Health(active),
                   integrity |-> Integrity(active),
                   freshness |-> Freshness(active),
                   queryable |-> Queryable(first) /\ ~ConfirmedCorrupt(active),
                   inspected |-> mode])
    /\ UNCHANGED <<truth, journal>>
    /\ Still

-----------------------------------------------------------------------------
Inspection ==
    \/ StatusStart \/ InspectRawManifest \/ InspectRawSchema
    \/ ReadManifest \/ ReadDatabase \/ ReadDescriptor
    \/ OpeningInventory
    \/ \E p \in Paths : ReadFile(p)
    \/ FilesRead \/ VerifyVectors
    \/ ClosingInventory
    \/ RecheckManifest \/ RecheckDescriptor \/ RecheckIdentity
    \/ ProbeWriter

HealthInit ==
    /\ Init
    /\ step = "off" /\ mode = "quick" /\ look = NoLook /\ first = None
    /\ inv = NoWorkspace /\ unread = {} /\ checks = NoChecks /\ report = NoReport
    /\ truth = NoTruth /\ journal = FALSE /\ runsLeft = 0

HealthNext == StartRun \/ Others \/ Inspection

HealthSpec == HealthInit /\ [][HealthNext]_allVars

-----------------------------------------------------------------------------
(* Properties *)

\* An inspection past its opening snapshot holds one of a present index, and
\* every report has a health of its own.
HealthTypeOK ==
    /\ step \in InspectionSteps \union PreflightSteps \union {"off", "report"}
    /\ mode \in {"quick", "verified"}
    /\ step \in {"rawManifest", "database", "descriptor", "quickDescriptor",
                 "quickIdentity"} => look.mf \in Manifests
    /\ step = "descriptor" => look.db.graph \in {"stale", "ready"}
    /\ Inspecting /\ (look.again \/ step \in {"inventory", "files", "vectors", "closing",
                                              "writer"}) =>
           /\ first.graph \in {"stale", "ready"}
           /\ first.gen \in Gens
    /\ inv \in Snapshot /\ unread \subseteq Present(inv)
    /\ checks.vectors \in {"none", "valid", "invalid", "interrupted"}
    /\ step = "report" => report.health # "none"

\* What a report asserts without reservation was true at one instant, that of
\* the closing inventory: integrity "valid" means that manifest, database and
\* vector files agreed then, and "fresh" that the ready index was also that
\* workspace, although every artifact was read at a time of its own.
ReportWasTrue ==
    step = "report" =>
        /\ report.integrity = "valid" => truth.intact
        /\ report.freshness = "fresh" => truth.intact /\ truth.fresh

\* The two looks protect a ready index from a slander: a report that was derived
\* from them does not call an index corrupt that was ready at any instant from the
\* first read of the snapshot to the second read of the database.  A preflight
\* answers without them ("inspected" is "none") and is no part of this: it calls a
\* ready index corrupt beside a commit, and after a death in one (InspectRawSchema).
CorruptNeverReady ==
    step = "report" /\ report.health = "corrupt" /\ report.inspected # "none" => ~truth.ready
=============================================================================
