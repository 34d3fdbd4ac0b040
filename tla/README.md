# A TLA+ verification of Context Search Tool

Context Search Tool (`cst`) indexes a source repository on the local disk and
answers code queries from that index, on the command line and as an MCP server.
This directory holds TLA+ models of the parts of it whose correctness depends on
order, interleaving, failure and recovery, the TLC configurations that check
them, and TLAPS proofs of their main safety properties.

`PROJECT.json` maps every definition to source lines, lists the runs, the
mutants that show each property can fail, the hazards and the theorems.

    tlc -config IndexRefinement.cfg IndexRefinement      # one run
    tlapm IndexPublicationProofs.tla                     # one proof module

## 1. Inventory of the system

All state is in `<repo>/.context-search/`: `index.lock`, `config.toml`,
`index.sqlite`, `manifest.json`, `vector_snapshot.json` (the descriptor), pairs
`vectors.<gen>.npy` / `vector_ids.<gen>.json`, and `mcp_calls.jsonl`. Processes
share nothing else. Paths below are under `src/src/context_search_tool/`.

| Part | State it keeps | Operations | Talks to | Hard behaviour | What makes it correct |
|---|---|---|---|---|---|
| Index and refresh runs (`indexer.py`) | the run's frozen plan | `index` (reads everything), `refresh` (reads what changed) | lock, scanner, store, vectors, manifest | four artifacts and no common transaction; death at any step; edits during a run | a ready index is one snapshot of one moment; every interrupted state is recoverable |
| SQLite store (`sqlite_store.py`) | source, chunk, signal, relation and skip rows; graph status; ready binding; write marker | batches, deletions, observation replacement, ready commit, read sessions, tombstone purge | runs, queries, status | several transactions per run; readers between them | stale before the first change, ready after the last |
| Vector store (`vector_store.py`) | generations on disk, descriptor | freeze, materialise, publish, verify, sweep | runs, queries | half pairs, sweeps against readers | the published pair is never removed |
| Manifest (`manifest.py`) | `manifest.json` | publish, load, fingerprints | runs, status | published before the commit that binds it | matches the binding whenever the index is ready |
| Lock and probe (`index_lock.py`, `index_health.py`, `cli.py` clean) | an flock on an inode | acquire, release, probe, remove | all processes | the path may name another inode | one writer |
| Scanner (`scanner.py`) | none | inventories, observed reads | runs, status | files change while they are read | what was read is what the inventory described |
| Retry of unreadable files (`indexer.py`) | scan-skip rows with generations | choose, defer, record | scanner, store | the retry limit; flapping files | nobody is forgotten or starved |
| Health (`index_health.py`) | none | `status`, `stats`, reports | every artifact | reads artifacts one by one beside a writer | never reports a mixture as fresh |
| Retrieval (`retrieval.py`, `retrieval_core/`) | a read session | channels, fusion, ranking | store, vectors | late stale mark after a fault | reads one snapshot |
| Text of answers (`context_expansion.py`, `chunker.py`) | none | chunk, expand, merge | files at query time | files changed since the index, or between two reads | every line at its reported place |
| Graph (`graph_*.py`, `test_association.py`) | relations, associations, tombstones | resolve, associate, purge, validate | store | derived in batches after partial rewrites | is what a build from nothing gives |
| Language plugins | none | parse | runs | - | pure |
| Embeddings, query planner | none | HTTP calls | runs, queries | timeouts, fallback | a failure changes nothing |
| Exploration (`exploration/`) | one request | plan, probe, fuse | retrieval, context pack | several sessions per answer, budgets, failing probes | coverage only grows, the answer is of one piece |
| Context pack (`context_pack/`) | one request | select, allocate, compact, retry | retrieval results | cuts that undo each other, retries | ends, claims only what it shows |
| Quality, trace, benchmarks | reports | offline evaluation | - | - | out of scope |
| MCP server | feedback log | tools | retrieval | log rotation | - |

The hazards in `PROJECT.json` list, line by line, what can go wrong in these
parts that a test hardly reaches, and which property watches it.

## 2. Modules

| Module | Contents |
|---|---|
| `IndexPublication` | the publication protocol of `index` and `refresh`, with edits, deaths and a query session |
| `AtomicIndex` | what an index promises a query: one snapshot, replaced in one step |
| `IndexRefinement` | the refinement mapping from the first to the second |
| `IndexPublicationProofs` | the theorems of the protocol and of the modules that extend it: its inductive invariant; that the final validation never fails and the protocol implements the atomic index; the rollback; the status reports |
| `IndexLock` | the lock file, the probe and `cst clean` |
| `IndexLockProofs` | mutual exclusion and truth of the probe, proved |
| `RetrySkips` | which files a refresh reads, and the retry queue |
| `RetrySkipsProofs` | its theorems: every file accounted for, the bound on the delay |
| `BgeRollback` | EXTENDS `IndexPublication`: capture and restoration around a BGE rebuild |
| `HealthInspection` | EXTENDS `IndexPublication`: `cst status` beside a writer |
| `GraphStore`, `MCGraphStore` | signals, relations, test associations, tombstones and their purge |
| `GraphStoreProofs` | its theorems: a ready graph is a full build, the commit is accepted |
| `ObservedRead` | inventories and file reads, one look at one file at a time; shows what `IndexPublication` may take as one look at the workspace |
| `AnswerText`, `MCAnswerText` | EXTENDS `ObservedRead`: the index goes on to a query, which reads the files again and shows their text |
| `ObservedReadProofs` | the theorems of both: a body is one file of one moment, an accepted run one workspace of one moment; every line of an answer is at its place, what was recalled is shown |
| `Retrieval`, `MCRetrieval` | one query: recall, best-first expansion over relations, graph faults |
| `Exploration`, `MCExploration` | follow-up probes and the fusion of what they return |
| `ExplorationProofs` | its theorems: follow-ups only add, the answer is of one piece |
| `ContextPack`, `MCContextPack` | fitting evidence into a byte budget |
| `ContextPackProofs` | its theorems: no need is given up, a ready pack shows what it claims |
| `InductionLemmas` | what the proofs need of numbers and finite sets: induction, recursive functions, places in an order |

### IndexPublication

One action is one commit, one atomic file operation, or one read phase. The
variable `pc` is where the running writer stands; `pc = "idle"` means that the
index lock is free.

| State | Code |
|---|---|
| `ws`, `edits` | the user's files; an edit gives a file a fresh change token (`t`, which stands for mtime, size and change token together) |
| `graph`, `reason`, `full` | graph status row and its stale reason, `full_reindex_required` |
| `rows`, `chunks` | `source_files` with the observation columns (`og` is the observation generation), and the active chunks by the content they were cut from |
| `marker` | `file_write_in_progress` |
| `binding`, `manifest`, `descriptor` | the operational ready binding, `manifest.json`, `vector_snapshot.json`; fingerprints are kept as what they hash |
| `vecs`, `idfs`, `genIds` | the two files of each generation and the embedding ids in it |
| `opening`, `prep`, `fence` | the opening inventory, `PreparedIndexSnapshot`, and, as history, the workspace when the closing fence passed |

| Actions | Code |
|---|---|
| `StartIndex`, `SkipCleanup`, `BeginCleanup`, `RefuseCleanup`, `StartRefresh`, `UnlinkOrphan`, `SweepDone` | taking the lock; the baseline a refresh demands; the retry of an earlier cleanup; unlinking one file at a time in name order |
| `OpenInventory`, `QuietRefresh`, `PrepareIndex`, `PrepareRefresh`, `CloseFence`, `FenceDrift` | everything before persistence: inventories, reads, the choice of what to rebuild and re-embed |
| `MarkStale`, `ClearMarker`, `BeginBatch`, `CommitBatch`, `DeleteFile`, `ReplaceObservations` | the database transactions, in the code's order |
| `MaterializeVectors`, `MaterializeIds`, `PublishDescriptor`, `PublishManifest` | the file operations; a refresh materialises before the stale mark, an index run after its rows |
| `CommitReady`, `FinishRun` | the validating ready commit, which ends the run as an error when validation fails; the last sweep, which may give up at any point |
| `Crash` | the process dies, or any step raises: what was committed stays and the lock goes |
| `Edit`, `OpenSession`, `CloseSession` | the user and a query |

Abstractions, each with its reason:

- A content is a model value; `Blank` is the one that yields no chunk. Chunk ids
  are hashes of path and text, so a pair of path and content stands for them.
- Which sources own import or route relations depends on text; any subset is allowed.
- There is one writer because the lock excludes others; `IndexLock` models the
  lock, and its one exception is reported below.
- SQLite runs in its default rollback-journal mode: a commit waits for open read
  transactions (`NoReader`); when the busy timeout ends the wait it raises, which
  is `Crash`. A session stands for one query on a ready index. A query on a stale
  index answers with a warning and without a promise, and is left out.
- Names of generations and manifests are fresh uuids. A finite instance reuses
  the names that no artifact mentions; the preparations wait for a free one
  (`NamesLeft`).
- Observation generations wrap at `MaxObservation`. They are only compared for
  equality, and restart at one in the code too when the old snapshot is unreadable.
- An inventory and the reads of a run are one look at the workspace each;
  `ObservedRead` shows that the code may be taken so.
- Left out: relations, their resolution and tombstones (they are in
  `GraphStore`), scan skips (in `RetrySkips`), the BGE rollback (in
  `BgeRollback`; a failure here is that of the other providers), schema
  migration, the legacy layout reset and the SQLite change counter.

### IndexLock

`path` is the inode behind `index.lock`, `fd` what each process has open,
`holder` who has the flock on each inode. Inode numbers are reused as soon as
neither the path nor a descriptor refers to them. `Release` is the orderly end
and also the kernel's release at death. `cst clean` (`BeginClean`, `UnlinkLock`,
`RemoveDirectory`) takes no lock. `removed` is a history flag: a clean unlinked
the file under a process that had passed its inode check. Mode, owner and
symlink checks are abstracted, and one clean runs at a time.

### RetrySkips

A run is one step, because `IndexPublication` shows that the workspace is fixed
between the fences. The generations of skip rows are ranks, since the order is
all that is used. `RetryLimit` 1 stands for the code's 32: what matters is that
there are more candidates than places. The history
counter `passed` saturates at `DelayCap`, above every delay that occurs. The initial states are those after a
first index, and the index is ready between runs; the reads a stale graph adds
are those of dependents, in `IndexPublication`. An `index` run stores no metadata
for a file it could not read; nothing reads that column for such files.

### BgeRollback

Continues `IndexPublication` with the failure handler of a BGE run. `Captured` is
the copy of a ready index taken before the first persisted step; `Fail` is any
step that raises; then `restore` walks through the handler: is the new snapshot
already committed (`CheckCommitted`, `CheckUnreadable`), the database, the
descriptor, the manifest, the new generation files one by one, the verification,
and, when that or a step before it raises, the mark that asks for a full reindex. `Die` is the
end of the process at any of these points, and queries open and close between
them. Two things the code cannot do are kept as history, and the properties name
them: `torn`, a process that died between the restored database and the end,
which leaves a database that says ready beside new files until the next index;
and `undone`, a committed snapshot that is rolled back because the handler could
not read an artifact. One path is enough, since batches do not matter to a copy
of everything.

### GraphStore

The rows of chunks, signals and relations, live and dead, and what is derived
across files. A run marks the graph stale, writes batches, deletes vanished
files, resolves all producer relations, advances the producer generation,
regenerates and resolves the test associations, and commits; each is a
transaction and the process may die between any two. Rows that come back revive
dead ones; `PurgeTombstones` removes any choice of the oldest dead rows, within
the limits. Here a run starts from a snapshot it has read. A content says
whether it imports, declares or refers by name; there is one specifier and one
project unit. Left out: routes, SQL mappings and other relation kinds (they
resolve through the same operators), confidences, the language filter, topology,
and the search payload tables.

### HealthInspection

Continues `IndexPublication` with one `cst status`: each of its reads is an
action (`ReadManifest`, `ReadDatabase`, `ReadDescriptor`, the opening inventory,
one file at a time, the vectors, the closing inventory, the second look in its
short form, the writer probe), and a writer, its death and edits interleave with
every one. The preflight comes before them: `StatusStart` finds neither file, a
database without manifest, or a manifest; `InspectRawManifest` ends the read of that
manifest; `InspectRawSchema` asks the database for its versions, through a read-only
connection that waits for nobody. A commit that holds the database (`CommitSteps`), a
`journal` that a commit left when its process died, or a manifest replaced while it
was read make the preflight answer "corrupt" at once, without a second look or a
probe. The journal is rolled back by the next read-write open: of an index run or of
another reader. A report says in `inspected` whether the two looks were made.

`truth` is what held at the closing inventory. `runsLeft` bounds the runs that
start during the two looks: one if none is under way, else none. The names of the
code are uuids; the model may reuse a name that no artifact holds any more, and a
second run could take one that this inspection has seen. Left out: coverage counts, skips, the configuration
hash, embedding upgrades, legacy manifests, files that are not what they should be
(links, unreadable or malformed ones). A database file without the schema counts as none.

### ObservedRead and AnswerText

`ObservedRead` takes apart what `IndexPublication` takes as one look. The control
file is opened, read block by block, looked at again and compared; the directory
is listed; each file is looked at; then each body is opened, read to the end or
one block past the limit, looked at, compared with its observation, and the whole
inventory is made once more. Between any two of these steps the user may write
one file, put another one (with a number that was in use before) in its place, or
remove it. A file is a sequence of lines, a line a block. The design counts on
change tokens that move with each change, and so does the model. Left out:
symbolic links, encodings, several directories, the match of ignore patterns.

`AnswerText` goes on from the accepted run: its chunks are the index, a query
ranks some of them in any order, reads their files again one after the other,
widens the ranges, and merges what touches within the size limit. Left out:
whole-file answers, the raw content of results and the last choice per file. A
read of one file is one step, as the code compares nothing there.

### Retrieval

One query: what the channels recall, the anchors of their files, the seeds, the
best-first expansion with its five limits, the summary of relations, the ranking
and the late stale mark. The session reads in one transaction, so the graph does
not change; damage is part of the initial state. A score is a product of factors
below one and is kept as a sum of costs. Left out: the channels' own matching and
scores, ranking arithmetic, legacy relations, scope filters, the anchors of a
directory, the skip of templates and generated files, the limit on anchors, the least
confidence of a path as a tie-break, the 512-seed and
64-per-direction caps, the planner's HTTP call. The arrival order of equal scores is the code's tie-break.

### Exploration and ContextPack

`Exploration` is the loop of `explore_repository`: the initial query, goals frozen
with their limit, the plan, stale, failing and executed probes, and the fusion of
each entry into the bundle, while index runs publish in between. How texts make
goals and probes is any choice from `Rankings`. `Pack` stands for the builder: a
greedy deterministic one that, like the real one, is not monotone. The bundle is one
list, where the code keeps results and anchors apart with a limit each; which of them
an entry is depends on its path. Left out: the stop of a request for no items
(`runner.py:421`).

`ContextPack` is that builder: selection for required needs, recommended needs and
as filler, the three turns of allocation, and the compaction with previews, reasons, content,
items and restoration, links made again, lost needs, blocked pairs and retries. A
content line is one unit and an excerpt of its own; JSON has a price per item,
reason, link and omission. Left out: needs of several terms, cropping and scores
of excerpts, the pruning of the reservations that are compared, the deferral of lockfiles.

## 3. Runs

| Run | Instance | Result |
|---|---|---|
| `publication` | 2 paths, a blank and a non-blank content, 5 generations, up to 2 edits and 2 deaths (3 of both together), 1 session | 6 invariants, an action property and the refinement of `AtomicIndex` hold; 1.6 million states |
| `bge_rollback` | 1 path, 1 edit, 2 failures or deaths, 1 session, `BgeSpec` | a failed run gives the old index back or withdraws it, and `cst index` repairs it |
| `graph_store` | a test and two files it may import, 3 runs, 1 death, purges of up to 2 rows | a ready graph is the one a build from nothing gives |
| `health` | 1 path, 1 edit, 1 death, quick and verified | what a report of the two looks asserts was true at one instant |
| `index_lock` | 2 writers, 1 probe, 2 cleans, 4 inodes | exclusion and truth of the probe; 81 thousand states |
| `retry_skips` | 3 files, 2 changes, 1 retry per refresh, `FairSpec` | accounting, the delay bound, and every readable file is indexed in the end |
| `context_pack` | 3 candidates of 7 shapes, 1 or 2 required needs, 7 budgets, and two builds pressed by the limits of items alone | needs, links and the end of the loop |
| `exploration` | 3 paths, 4 goals of all kinds, 4 snapshots, 2 index runs, 2 probes; 195 thousand states | coverage only grows, the answer is of one piece |
| `retrieval` | 4 chunks, 5 signals, up to 5 relations, every place of damage | the expansion finds the best paths; graph evidence stays apart |
| `observed_read` | 2 files, a control file, 5 inodes, 2 edits, then a query of 2 chunks; 3.0 million states | a body is one file of one moment, an accepted run one workspace of one moment, lines stand where the answer says |
| `first_index_wedge`, `emptied_file` | as small as shows it | violated: section 5 |

**The properties.** `ReadyBound`, `ReadyContentExact` and `ReadyReaderLoads` relate
the database to the three files beside it, the chunks to the rows, and an open
query to the disk. `PublishedGenerationKept` is about sweeps that are
interrupted and repeated. `CommitNeverRejected` says that what a run prepared
before its fence is what its transactions really leave behind, from every state
an earlier death can have left: otherwise the final validation would fail, and
fail again in every retry. `CommitMatchesFence` is about the step that commits.
`ImplementsAtomicIndex` says all of it as one refinement: a query sees nothing,
or the workspace of one moment. `FailureAtomic`, `RestorationComplete`,
`RestoringReaderLoads` and `CommitIsFinal` say what a BGE run may leave when any
of its steps, and any step of the repair, fails. `ReadyGraphIsFull` compares the
increments with a reference definition of the full build; `CommitAccepted` and
`PurgeLeavesNoOrphans` keep the next run possible. `ReportWasTrue` and
`CorruptNeverReady` give reports a meaning although every artifact was read at a
time of its own. The second speaks of reports that were derived from the two looks,
and of the time until the second one has read the database. What it leaves open, the
preflight and a writer that ends just before the probe, is where the code breaks its
design (section 5): stated of the instant of the answer, that a step which reports
"corrupt" leaves a `graph` that is not ready, it is violated for either within seconds.

For the lock, `WritersExclude` and `IdleReportTrue` say exactly which event can
break them. For retries, `EveryFileAccounted` excludes a file that is neither
indexed nor a recorded skip, and `BoundedDelay` bounds the refreshes a retry can
be put off. `ReadIsWhole` and `AcceptedIsOneMoment` are the ground the
publication protocol stands on. `LinesInPlace` and `RecalledIsShown` compare an
answer with what its reads found. `EvidenceIsBest` compares the best-first queue
with the best paths of a relaxation that knows no order, and bounds what a limit
may cut. `CoverageKept` and `AnswerIsFused` hold across sessions of different
snapshots. `NoNeedGivenUp`, `ReadyIsShown` and `LoopEnds` are about cuts that
undo each other.

**Why these bounds.** Two paths let a batch be partial and one file be changed
while the other is kept or deleted. One death reaches every interrupted state
from a fresh index and from a published one; two let the retry die as well. Two
edits put one before and one after a fence, or restore an earlier content under a
new time. Five names are the published pair, two orphans, a new one and a spare.
`MaxEvents` keeps edits and deaths together at three: each pair of kinds occurs,
and no property relates four of them. In `graph_store` three runs make a file
appear, vanish and come back, and a purge can fall between. In `health` one edit
and one run put a change between any two reads. In `observed_read` one edit can
fall in a read and one after it, or a number can come back; two files are the
fewest that can disagree, and the control file may hide one of them. A limit of two lines has files
below, at and above it. The limits of `retrieval` and `exploration` are within
reach, so that each is met in some behaviour and not in others. The budgets of
`context_pack` go from one that holds nothing to one that cuts nothing.

**Fairness.** `LiveSpec` (in `first_index_wedge`) asks for strong fairness of the
writer's steps: a process that runs keeps running, and SQLite admits no new
reader while a commit is pending, so queries cannot hold it off for ever; weak
fairness of the end of a query; and strong fairness of `StartIndex`: the user
goes on running `cst index`. `BgeSpec` asks the same of the BGE run, and of its
handler, which is part of the process. Nothing makes a refresh, an edit or a
death happen, and deaths are bounded, as an index that always dies cannot finish.
`FairSpec` of `RetrySkips` asks only that somebody keeps refreshing.

**Deadlock** is checked in every run but `graph_store`, where `MaxRuns` ends the
behaviours.

## 4. Proofs

TLAPS checks these for every value of the constants that satisfies the named
assumptions of the modules, which say that sentinels are none of the values
(`SentinelAssumption`, `BindingAssumption`, `ManifestAssumption` and the like), that
bounds, limits and costs are numbers, that contents are sequences (`ObservedRead`), that paths and
places are numbers, that there are finitely many paths (`GraphStore`,
`RetrySkips`) or needs (`ContextPack`), and what the arguments of an exploration,
a query or a build look like (`GoalsAssumption`, `QueriesAssumption`,
`InputsAssumption`):

- `IndexPublicationProofs`: of the protocol, `TypeCorrect`, `ReadyIsBound`,
  `ReadyIsExact`, `ReaderLoads`, `PublishedKept`, `StaleFirst`, `CommitIsTheFence`,
  `NeverRejected`, and `Refinement`: it implements `AtomicIndex`; of the rollback,
  `AtomicOnFailure`, `RestorationIsComplete`, `ReaderLoadsWhileRestoring`,
  `CommitStays`; of the status, `HealthTypeCorrect`, `ReportIsTrue`,
  `ReadyIsNotCorrupt`.
- `GraphStoreProofs`: `TypeCorrect`, `NoOrphans`, `ReadyIsFull`, `CommitNeverFails`.
- `RetrySkipsProofs`: `RetryTypeCorrect`, `AllAccounted`, `DelayIsBounded`.
- `IndexLockProofs`: `LockTypeCorrect`, `WritersAreExclusive`, `IdleReportsAreTrue`.
- `ObservedReadProofs`: of the reads alone, `ReadsAreTyped`, `ReadsAreWhole`,
  `AcceptedIsTheMoment`; of reads and query together, `RunsAnswered`,
  `LinesKeepTheirPlace`, `RecalledStaysShown`.
- `ExplorationProofs`: `ExplorationTyped`, `AnswerOfOnePiece`, `CoverageNeverLost`.
- `ContextPackProofs`: `LastProviderStays`, `ReadyMeansShown`, `CompactionEnds`.

TLC checked each inductive invariant on the run's instance before it was proved.

**Publication.** None of the safety properties is inductive alone. `IInv`
strengthens them with facts about a run in progress, each a named conjunct:
`MarkedStale`, which steps have a stale index; `PrepShape` and `UnwrittenAgree`,
that whatever the plan will not write or delete already is what the plan
describes; `FenceKept`, that past the fence the plan is the fenced workspace;
`GenFresh` and `GenWritten`, that the new generation is nobody's before it is
written and whole afterwards; `ManifestWritten`; `ChunksFollowRows`, that rows and
chunks of a path tell the same content in stale states too; and `SessionReady`,
that the index cannot leave the ready state under an open session. The proof has
one lemma per group of actions, and `NextIInv` combines them. The lemmas on the
two preparations (`PrepareAuthoritativeWell`, `PrepareQuickWell`) carry the
argument that a partial rewrite is enough. `StaleBeforeMutation`, that nothing a
ready index consists of changes before the stale mark, is proved and in no run.

`Core` is the part of it that ties nothing to the files beside the database; it
holds of a BGE run too, until something fails, and the proofs of the rollback
reuse its lemmas.

**Validation and refinement.** `CommitNeverRejected` compares what different steps
of a run produced from different sources. `CInv` says where each comes from: the
prepared ids are those of the prepared snapshot however a preparation put them
together (`IdsPrepared`), a vector set that is kept already holds them
(`VectorsHold`), every row is an observation's once the observations are replaced
(`RowsReplaced`), the marker is down outside batches, the generation of the last
commit is intact as long as it is published and no run reuses its name
(`BindingIntact`, `NewGenUnbound`). The quick preparation is the hard case: it takes the
ids of the files it does not read from the old vector set. With `CInv` each action
maps to a step of `AtomicIndex` or to a stutter: the fence is `Capture`, the stale
mark `Withdraw`, the ready commit `Publish`, the end of a run `Discard`.

**Rollback.** A run is as before as long as no handler is at work (`Running`). For
the handler, `BgeInv` has one conjunct per artifact: what was captured is one whole
ready index (`Saved`), none of its files goes before a commit (`CapturedKept`), and
what a restoring step put back stays (`DatabaseBack`, `DescriptorBack`,
`ManifestBack`, `FilesBack`); the database and the files agree until the first
restoring step (`FilesTied`). The verification can then only find the captured
index, and a process that dies on the way leaves `torn`.

**Status.** A report is about the instant of the closing inventory, and `HealthInv`
ties what was read before and after it to that instant. `NameInv` adds to the
invariant of the writer that the names of a run are new, that a manifest with the
name of the binding is the manifest of the binding, and that a run publishes
vectors only for an observation that differs. Of each artifact there is one step of
a run that replaces it, and one run at most publishes while an inspection looks. So
an artifact that was seen is as it was seen, or that step is past and it will not be
so again before the inspection ends (`ManifestLost`, `DescriptorLost`,
`DatabaseLost`; `ManifestStep`, `DescriptorStep` and `DatabaseStep` are the three
lemmas). The database is the hard one: between the stale mark and the ready commit
it keeps its name, and is told apart by its status, or by a row that a run has
written and will not write back (`Rewritten`). `GoodLook` then says that a first
look without faults that is no longer true differs from what the second look can
find; `BadLook` says the same of a look with faults at an index that was ready,
where a manifest may also have been read before its binding was there (`Outrun`)
or a ready index may have left its state between two reads (`NoLonger`). A report
trusts the first look only if the second one is equal. The short form of the second look compares
less: `Token` says why that is enough. The preflight adds only that its answers are
marked as such (`Outside`, `PreflightAnswerHealth`): nothing is proved of them, and
nothing could be. TLC checked the whole invariant on the
instance of `health`, in 2.8 million states, before it was proved.

**Graph.** `StoreInv` says that the tables agree with each other in every state:
live and dead rows have separate identifiers, chunks and signals are those of the
rows, no row names one that a purge removed, and what a run has still to write.
`GraphInv` adds what each transaction relies on: files that are not pending have
the relations of the run's target, resolved or not; from the producer resolution
on the producers are those of a full build, from the last resolution on the tests
too. That a partial rewrite is enough has two reasons: when the set of paths
changes, every file whose relations depend on it is written again (`StartPending`),
and resolving a relation that was resolved before gives what resolving it fresh
would give (`ResolvePlain`, `ResolvedIsFull`). `FullIntegrity` then has the checks of
the commit pass on any full build.

**Retries.** `BoundedDelay` is an account (`DelayInv`): for a file that waits, two
for each refresh it has waited, two for each file that is or will be tried before
it and one for each file that can be read, never exceed two for each other file and one
for each change. A refresh that puts the file off tries one before it, which is then
behind it or can be read. That somebody is tried before it needs the first of the
queue, which the well-foundedness of strict inclusion on finite sets gives.

**Lock.** `HolderInv` says that a holder has its inode open and that who runs
holds it, and `AtPathInv` that, unless a clean removed the file, every process
past its check has the inode at the path; two holders then would hold one inode.

**Reads.** `ReadInv` rests on one idea: what was recorded of a file is a token,
and a token names lines for ever (`Recorded`), so a file that has the recorded
token again never was anything else meanwhile (`Unchanged`, which an edit can end and
nothing can bring back: `EditKeepsRecords`). `FdInv` says that as long as the open
file has the token it was opened with, the lines read are the beginning of the
lines of that token; equal metadata on both sides then make them all
(`VerdictIsFate`). `ResultsInv` gives every observed file its fate. `LateInv`
compares with the moment the closing inventory begins: a file still unchanged
there held its recorded lines at that moment, so each file that the closing
inventory finds as the opening one recorded it was the same in between, the
control file included, whose tokens its own read does not compare. That moment
must be the one at which the closing inventory looks for the control file, not
the end of the reads: a control file may come and go before it.
The first three theorems are about `Spec` of `ObservedRead`; `RunsAnswered` has
the same of `AnswerSpec`, which the run checks.

**Folds, choices and sorted sequences.** The induction theorems of the library
take an operator as a parameter, which no installed prover can instantiate.
`InductionLemmas` has the forms with sets that the proofs use instead: a set of
numbers with zero and successors has all numbers (`NatInductive`), from which
follow that a recursive function exists (`Recursion`), so that a fold defined by
CHOOSE has the values its equations give, and that in a strict order of a finite
set each place has exactly one member (`PlacesDiffer`, `EveryPlaceTaken`), so that
what the models define by counting predecessors is a sorted sequence without
repetition or loss.

**Answers.** Every result is `Placed`: its lines are as many as its range says and
each is that line of the file in some read. Widening takes lines of one read;
`JoinPlaced` is the merge of two ranges, whose overlap is dropped from the second:
what remains begins exactly behind the first, because merged ranges touch.
`InOrderSorted` says that the ranges of a file come in the order of their first
lines, none missing, and `MergesKeep`, along the fold, that every part so far is
covered by a result (`Covers`) and the last result starts before every part to come.
That is why a merge never needs to look further back than the last result.

**Exploration.** `EInv` ties bundle, pack and reported goals in every state but the
first, and says that no probe runs before the plan. What is hard is the operators:
`Pack` is a fold over a greedy choice among the entries (`TakesExists`, `OneNext`:
at most one entry is next), the plan a fold over the goals (`ChosenExists`). What a
fusion proposes extends the bundle (`ProposalsExtend`), and it is taken only if no
goal is lost (`FuseKeeps`). Nothing is assumed of the index runs in between.

**Context pack.** A retry blocks a candidate at a need only if the candidate is the
first that was selected for it and another one covers it. `LastProviderStays` then
needs that two candidates are never both the first: priorities differ, as each is a
number whose remainder is the number of its candidate (`OneRemainder`,
`PrioUnique`). `ReadyMeansShown` needs that the links were made again after the last
cut, restoration included, and that neither review nor retry changes an item.
`CompactionEnds` is an account (`CutsInv`): the turns of a round, the preview limit
and what is left to cut (`ToCut`) never exceed what the round began with. `ToCut` counts the
reasons and lines the items retain, one for links that are not those of the text,
and `MaxContent + 2` for each item. Every turn but an omission lowers one of the
first three and raises none: content is fitted to a target below what there is
(`FitBounded`), since the binary search for the minimum ends with a number
(`MinimumTyped`). An omission restores excerpts and may leave links stale again, but
all allocations of a round share out no more than `MaxContent` (`AllocationBounded`,
from `SharedOut`: askers served in a strict order, each as far as there is something
left, together get no more than there is), so the item it leaves out pays for it.
The sums are those of the community modules, which TLC runs; `InductionLemmas` proves
what is used of them (`OverRemove`, `OverGrows`, `OverPart`).

**Only model-checked**: all liveness (the prover handles neither fairness nor
`ENABLED`), and the two invariants of `Retrieval`: that the queue finds what the
round-by-round reference finds needs the whole argument of a best-first search with
ties, a hop limit and four limits on work, which is not attempted, and the filter of its
edges (`SelectSeq`) takes an operator, which the provers do not expand.

## 5. Where the code and its documents disagree

Two runs show a disagreement; `PROJECT.json` quotes the documents.

| Run | What happens |
|---|---|
| `first_index_wedge` | A first index that dies twice between writing its vector files and publishing the first descriptor leaves two complete generations and no descriptor. Every later `cst index` refuses with "vector generation cleanup requires a readable descriptor"; only `cst clean` helps. |
| `emptied_file` | A file truncated to nothing after it was indexed makes every query that ranks one of its chunks fail on an assertion of the text expansion. |

These were found while reading and modelling, and have no run (paths under
`src/src/context_search_tool/`; the designs are in `src/docs/superpowers/specs/`):

- `cst clean` takes no lock (`cli.py:826`): a clean during a run unlinks the lock
  file, and a second writer runs beside the first. The lock's properties name this
  as their one exception.
- `cst status` holds the writers' lock for an instant, and a writer that starts
  then is refused as busy.
- Half-written generations are not counted by the cleanup retry
  (`indexer.py:3479`), so deaths accumulate them until a run succeeds.
- A binary file makes every refresh read it again and republish, while the design
  promises no reads.
- `cst status` calls a ready index corrupt when its preflight meets the commit of a
  writer: `sqlite_store.py:259` connects with a timeout of zero and takes "database is
  locked" for a malformed database (`:278`), and `index_health.py:1557` answers at once.
  The journal of a writer that died in a commit does the same, until something opens the
  database read-write. The P6 design (lines 301-305) has corruption confirmed while the
  index stays stable, and says that writer activity "cannot derive `corrupt`". In
  `HealthInspection` this is `InspectRawSchema`.
- `index_health.py:1534` probes the writer once, after both looks. When both fall between
  the publication of a descriptor or a manifest and the ready commit, and the writer
  commits and ends before the probe, a ready index is called corrupt (`:2304`), against
  the same lines of the design.
- `cst status` validates the rows of a stale database against its old binding
  (`sqlite_store.py:5032`) and ends with `status_failed` (`cli.py:555`) after a
  writer's first batch. `HealthInspection` has such a status answer "failed".
- `mark_graph_stale` turns "database is locked" into `IndexBusyError`
  (`sqlite_store.py:1335`, `:6242`), which `retrieval.py:233` and
  `exploration/probes.py:358` do not catch: a query that meets a graph fault
  beside another transaction fails (`busy` in `Retrieval`). A late mark may also
  withdraw an index published meanwhile, and replace the reason that asks for a
  BGE reindex.
- `context_pack/builder.py:160`: the build runs one round more than there are
  candidates and then raises, although more pairs may have to be blocked and a
  pack fits. Three candidates whose lines show 1, 2, 3; 2, 3, {1, 4}; and 2, 4, 3,
  for two items of two excerpts, are an example.
- `exploration/runner.py:379` stops on any probe without a new goal, where the
  design also asks for no novel path or a duplicate ratio (unused in `models.py:25`);
  `:383` reports an exhausted budget also when the plan ended early.
- `retrieval_core/expansion.py:702` goes on past the candidate cap within the last hop.
- A longer path of a better score displaces a shorter one before the hop limit ends
  it, so that a target within reach of the shorter one is missed; the reference in
  `EvidenceIsBest` has this dominance too.
- `retrieval_core/context_expansion.py:68`: when a file is gone, the chunk's text
  is taken for the file and cut by the chunk's line numbers, so that lines are
  lost or numbered wrongly (the exception in `LinesInPlace`).
- `retrieval_core/context_expansion.py:418`: the merged raw content loses a blank
  line at the end of the left window; the context content does not.
- A file that comes after the first listing and goes before the second is in no
  inventory (`left` in `AcceptedIsOneMoment`); the design accepts that.

## 6. Plan

Done: the publication protocol and its refinement, the BGE rollback, the graph,
status, the lock, the retry queue, the reads, the text of answers, retrieval,
exploration and the context pack. What is left, most important first:

1. Proof of `EvidenceIsBest` of `Retrieval`, by an invariant of its queue.
2. The legacy layout reset and schema migration, composed with publication.
3. The late stale mark of a query composed with a writer's commit.
4. Several project units and the topology of the graph.

## 7. Not modelled

- Language plugins (`java_ast.py`, `frontend_graph.py` and others): stateless
  parsers over text. `GraphStore` has what matters of them, which rows depend on
  which other files.
- Ranking arithmetic, channel scores, intent detection, embeddings and their
  nearest-neighbour search: real-valued functions of text, without order or failure.
- The query planner and the BGE client: one HTTP call each; their failure is a
  failed preparation or a fallback.
- Quality evaluation, traces and benchmark scripts: offline, over finished results.
  They are a fifth of the code.
- The MCP server: an adapter over retrieval, with a log nothing reads back.
- Configuration parsing, formatting, JSON encodings, legacy manifests and layouts.

What is missing inside a modelled part is in section 2 and in the notes of
`PROJECT.json`.
