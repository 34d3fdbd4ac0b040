----------------------- MODULE IndexPublicationProofs -----------------------
(***************************************************************************)
(* Theorems of IndexPublication and of the modules that extend it, for any  *)
(* set of paths, contents and names and any bounds, in four parts: the     *)
(* invariant of a run; that the index implements AtomicIndex; BgeRollback; *)
(* HealthInspection.                                                       *)
(*                                                                         *)
(* IInv is the inductive invariant.  Besides types it says what a run knows *)
(* at each step: the prepared snapshot still describes what is left to do,  *)
(* the index is stale while anything of it changes, the new generation is   *)
(* untouched until it is written and whole afterwards, rows and chunks      *)
(* always tell the same content.                                           *)
(***************************************************************************)
EXTENDS IndexRefinement, BgeRollback, HealthInspection, TLAPS

\* A run has a command; a refresh that has not prepared yet has a baseline.
RunShape ==
    /\ pc # "idle" => op \in {"index", "refresh"}
    /\ pc = "cleanup" => op = "index"
    /\ op = "refresh" /\ pc \in {"sweep", "inspect", "opened"} =>
           descriptor # None /\ OperationalReadable

\* The prepared snapshot describes the opening inventory and what is left to do.
PrepShape ==
    pc \in PreparedSteps =>
        /\ prep.obs = opening
        /\ prep.todo \subseteq Present(prep.obs)
        /\ prep.publish \/ prep.gen = descriptor
        /\ prep.unchanged => /\ prep.todo = {} /\ prep.del = {}
                             /\ IdsOf(chunks) = prep.ids

\* Past the fence, what was prepared is the workspace the fence saw.
FenceKept == pc \in PreparedSteps \ {"prepared"} => fence = prep.obs

\* Every step that changes the index works on a stale one.
MarkedStale == pc \in MarkedSteps \/ (pc = "materialize" /\ op = "index") => graph = "stale"

\* The new generation is nobody's before it is written ...
GenFresh ==
    /\ \/ pc \in {"prepared", "materialize"}
       \/ op = "index" /\ pc \in {"markStale", "clear", "write", "batch"}
    /\ prep.publish
    => /\ prep.gen \notin idfs
       /\ prep.gen # descriptor
       /\ pc # "materialize" => prep.gen \notin vecs

\* ... and whole from then until it is published.
GenWritten ==
    /\ \/ pc \in {"publish", "manifest", "commit"}
       \/ op = "refresh" /\ pc \in {"markStale", "clear", "write", "batch"}
    /\ prep.publish
    => prep.gen \in vecs \cap idfs

MaterializePublishes == pc = "materialize" => prep.publish

ManifestWritten ==
    pc = "commit" =>
        manifest = [mid |-> prep.mid, og |-> prep.og, obs |-> prep.obs, gen |-> prep.gen]

\* Rows and chunks of a path tell the same content, in ready and stale states.
ChunksFollowRows ==
    \A p \in Paths : chunks[p] = IF rows[p] = Absent THEN Absent ELSE rows[p].c

\* What a run need not write already is what it prepared.
UnwrittenAgree ==
    pc \in PreparedSteps =>
        \A p \in Paths \ (prep.todo \union prep.del) :
            chunks[p] = IF prep.obs[p] = Absent THEN Absent ELSE prep.obs[p].c

\* The files to delete are not part of the prepared snapshot.
DeletedAbsent ==
    pc \in PreparedSteps => \A p \in Paths \cap prep.del : prep.obs[p] = Absent

SessionReady == session # None => graph = "ready" /\ session = binding.gen

TypeInv == TypeOK /\ RunShape /\ PrepShape

-----------------------------------------------------------------------------
(* Lemmas on the operators of the model *)

LEMMA FreshIn ==
    ASSUME NEW S, NEW used, used \subseteq S, used # S
    PROVE  Fresh(S, used) \in S /\ Fresh(S, used) \notin used
BY DEF Fresh

LEMMA UsedNames ==
    ASSUME TypeOK
    PROVE  UsedGens \subseteq Gens /\ UsedManifestIds \subseteq ManifestIds
BY DEF TypeOK, UsedGens, UsedManifestIds

LEMMA IdsInTyped ==
    ASSUME NEW g \in [Paths -> Contents \union {Absent}], NEW S \in SUBSET Paths
    PROVE  IdsIn(g, S) \in SUBSET Ids
BY DEF IdsIn, Ids

LEMMA ContentOfTyped ==
    ASSUME NEW f \in Snapshot
    PROVE  ContentOf(f) \in [Paths -> Contents \union {Absent}]
BY DEF ContentOf, Snapshot, File

LEMMA NextOgTyped ==
    ASSUME TypeOK
    PROVE  NextOg \in 1..MaxObservation
<1>1. CASE OperationalReadable
    <2>1. binding.og \in 1..MaxObservation
        BY <1>1 DEF TypeOK, OperationalReadable, Bindings
    <2>2. QED
        BY <1>1, <2>1, BoundsAssumption DEF NextOg, NextObservation
<1>2. CASE ~OperationalReadable
    BY <1>2, BoundsAssumption DEF NextOg
<1>3. QED
    BY <1>1, <1>2

\* What both preparations produce, whatever they decided to write.
LEMMA PrepareTyped ==
    ASSUME TypeOK, NamesLeft,
           NEW ids \in SUBSET Ids, NEW vectorChanged \in BOOLEAN, NEW force \in BOOLEAN,
           NEW why \in IndexReasons, NEW unchanged \in BOOLEAN,
           NEW todo \in SUBSET Paths, NEW del \in SUBSET Paths,
           vectorChanged \/ descriptor \in Gens
    PROVE  LET p == Prepare(ids, vectorChanged, force, why, unchanged, todo, del)
           IN  /\ p \in Prepared
               /\ p.obs = opening
               /\ p.ids = ids
               /\ p.publish = vectorChanged
               /\ p.unchanged = unchanged
               /\ p.todo = todo
               /\ p.del = del
               /\ ~vectorChanged => p.gen = descriptor
               /\ vectorChanged => /\ p.gen \notin vecs \union idfs
                                   /\ p.gen # descriptor
<1> DEFINE p == Prepare(ids, vectorChanged, force, why, unchanged, todo, del)
<1>1. NextOg \in 1..MaxObservation
    BY NextOgTyped
<1>2. /\ Fresh(ManifestIds, UsedManifestIds) \in ManifestIds
      /\ Fresh(Gens, UsedGens) \in Gens
      /\ Fresh(Gens, UsedGens) \notin UsedGens
    BY UsedNames, FreshIn DEF NamesLeft
<1>3. opening \in Snapshot
    BY DEF TypeOK
<1>4. /\ Fresh(Gens, UsedGens) \notin vecs \union idfs
      /\ Fresh(Gens, UsedGens) # descriptor
    BY <1>2 DEF UsedGens
<1>5. (IF vectorChanged THEN Fresh(Gens, UsedGens) ELSE descriptor) \in Gens
    BY <1>2
<1>6. p = [obs |-> opening, og |-> NextOg, mid |-> Fresh(ManifestIds, UsedManifestIds),
           gen |-> IF vectorChanged THEN Fresh(Gens, UsedGens) ELSE descriptor,
           ids |-> ids, publish |-> vectorChanged, force |-> force, reason |-> why,
           unchanged |-> unchanged, todo |-> todo, del |-> del]
    BY DEF Prepare
<1>7. p \in Prepared
    BY <1>1, <1>2, <1>3, <1>5, <1>6 DEF Prepared
<1>8. QED
    BY <1>4, <1>6, <1>7

LEMMA PathSets ==
    ASSUME TypeOK
    PROVE  /\ ContentChanged \subseteq Present(opening)
           /\ NonEmpty(opening) \subseteq Present(opening)
           /\ Deleted \subseteq Paths
           /\ Present(opening) \subseteq Paths
           /\ \A sources \in RelationSources : sources \subseteq Present(opening)
BY DEF ContentChanged, NonEmpty, Deleted, Present, RelationSources

\* What the rest of a run relies on, of either preparation.
PreparedWell(p) ==
    /\ p \in Prepared
    /\ p.obs = opening
    /\ p.todo \subseteq Present(opening)
    /\ ContentChanged \subseteq p.todo
    /\ p.del = Deleted
    /\ p.publish \/ p.gen = descriptor
    /\ p.unchanged => p.todo = {} /\ p.del = {} /\ p.ids = IdsOf(chunks)
    /\ p.publish => p.gen \notin vecs \union idfs /\ p.gen # descriptor

LEMMA PrepareAuthoritativeWell ==
    ASSUME TypeOK, NamesLeft, NEW sources \in RelationSources
    PROVE  PreparedWell(PrepareAuthoritative(sources))
<1> DEFINE force   == ForceFullReindex
           todo    == AuthoritativeTodo(sources)
           fresh   == ContentOf(opening)
           revec   == IF force THEN todo
                      ELSE {p \in todo : p \in ContentChanged
                                         \/ IdsIn(chunks, {p}) # IdsIn(fresh, {p})}
           kept    == IF force THEN {}
                      ELSE genIds[descriptor] \ IdsIn(chunks, revec \union Deleted)
           quiet   == graph = "ready" /\ ~force /\ todo = {} /\ Deleted = {}
           changed == force \/ revec # {} \/ Deleted # {}
           ids     == kept \union IdsIn(fresh, revec)
<1>1. todo \subseteq Present(opening) /\ ContentChanged \subseteq todo /\ todo \subseteq Paths
    BY PathSets DEF AuthoritativeTodo
<1>2. revec \subseteq Paths /\ Deleted \subseteq Paths
    BY <1>1, PathSets
<1>3. fresh \in [Paths -> Contents \union {Absent}]
    BY ContentOfTyped DEF TypeOK
<1>4. ~force => descriptor \in Gens /\ genIds[descriptor] = IdsOf(chunks)
    BY DEF TypeOK, ForceFullReindex, VectorSnapshotValid, DescriptorReadable
<1>5. ids \in SUBSET Ids
    <2>1. IdsIn(fresh, revec) \in SUBSET Ids
        BY <1>2, <1>3, IdsInTyped
    <2>2. kept \in SUBSET Ids
        BY <1>4 DEF TypeOK
    <2>3. QED
        BY <2>1, <2>2
<1>6. changed \/ descriptor \in Gens
    BY <1>4
<1>7. AuthoritativeReason \in IndexReasons
    BY DEF AuthoritativeReason, IndexReasons
<1>8. force \in BOOLEAN /\ changed \in BOOLEAN /\ quiet \in BOOLEAN
    BY DEF ForceFullReindex, VectorSnapshotValid, OperationalIntegrityFailed,
           BindingIntegrityFailed
<1>9. quiet => ids = IdsOf(chunks) /\ ~changed
    <2> SUFFICES ASSUME quiet PROVE ids = IdsOf(chunks) /\ ~changed
        OBVIOUS
    <2>1. revec = {} /\ ~force
        OBVIOUS
    <2>2. IdsIn(fresh, {}) = {} /\ IdsIn(chunks, {}) = {}
        BY DEF IdsIn
    <2>3. revec \union Deleted = {}
        BY <2>1
    <2>4. QED
        BY <2>1, <2>2, <2>3, <1>4
<1> DEFINE pp == Prepare(ids, changed, force, AuthoritativeReason, quiet, todo, Deleted)
<1>10. PrepareAuthoritative(sources) = pp
    BY DEF PrepareAuthoritative
<1> HIDE DEF force, todo, revec, kept, quiet, changed, ids, fresh
<1>11. /\ pp \in Prepared /\ pp.obs = opening /\ pp.ids = ids
       /\ pp.publish = changed /\ pp.unchanged = quiet
       /\ pp.todo = todo /\ pp.del = Deleted
       /\ ~changed => pp.gen = descriptor
       /\ changed => pp.gen \notin vecs \union idfs /\ pp.gen # descriptor
    BY <1>1, <1>2, <1>5, <1>6, <1>7, <1>8, PrepareTyped
<1>12. quiet => todo = {} /\ Deleted = {}
    BY DEF quiet
<1> HIDE DEF pp
<1>13. QED
    BY <1>1, <1>8, <1>9, <1>10, <1>11, <1>12 DEF PreparedWell

LEMMA PrepareQuickWell ==
    ASSUME TypeOK, NamesLeft, descriptor \in Gens, NEW sources \in RelationSources
    PROVE  PreparedWell(PrepareQuick(sources))
<1> DEFINE dependent == sources \union (IF graph = "stale" THEN NonEmpty(opening) ELSE {})
           removed   == IdsIn(chunks, ContentChanged \union Deleted)
           added     == IdsIn(ContentOf(opening), ContentChanged)
           ids       == (IdsOf(chunks) \ removed) \union added
           changed   == removed \union added # {}
           todo      == ContentChanged \union dependent
           no        == FALSE
           pp == Prepare(ids, changed, no, RefreshReason, no, todo, Deleted)
<1>1. todo \subseteq Present(opening) /\ todo \subseteq Paths /\ Deleted \subseteq Paths
    BY PathSets
<1>2. ids \in SUBSET Ids
    <2>1. ContentOf(opening) \in [Paths -> Contents \union {Absent}]
        BY ContentOfTyped DEF TypeOK
    <2>2. added \in SUBSET Ids
        BY <2>1, PathSets, IdsInTyped
    <2>3. IdsOf(chunks) \in SUBSET Ids
        BY IdsInTyped DEF TypeOK, IdsOf
    <2>4. QED
        BY <2>2, <2>3
<1>3. RefreshReason \in IndexReasons
    BY DEF RefreshReason, IndexReasons
<1>4. PrepareQuick(sources) = pp
    BY DEF PrepareQuick
<1>5. ContentChanged \subseteq todo
    OBVIOUS
<1> HIDE DEF ids, changed, todo, no
<1>6. changed \in BOOLEAN /\ no \in BOOLEAN /\ ~no
    BY DEF changed, no
<1>7. /\ pp \in Prepared /\ pp.obs = opening
      /\ pp.publish = changed /\ pp.unchanged = no
      /\ pp.todo = todo /\ pp.del = Deleted
      /\ ~changed => pp.gen = descriptor
      /\ changed => pp.gen \notin vecs \union idfs /\ pp.gen # descriptor
    BY <1>1, <1>2, <1>3, <1>6, PrepareTyped
<1> HIDE DEF pp
<1>8. QED
    BY <1>1, <1>4, <1>5, <1>6, <1>7 DEF PreparedWell

-----------------------------------------------------------------------------
(* The inductive invariant *)

\* What the step of a run says about the rest.
RunInv ==
    /\ RunShape
    /\ PrepShape
    /\ FenceKept
    /\ MarkedStale
    /\ GenFresh
    /\ GenWritten
    /\ MaterializePublishes
    /\ ManifestWritten
    /\ UnwrittenAgree
    /\ DeletedAbsent

\* What the database alone says at every step; it is one transactional store.
ReadyOperational == graph = "ready" => OperationalReadable /\ ~full
DatabaseInv ==
    /\ ChunksFollowRows
    /\ SessionReady
    /\ ReadyOperational

\* The part that needs nothing of the files beside the database ...
Core == TypeOK /\ RunInv /\ DatabaseInv

\* ... and the part that ties them to it.
ArtifactInv ==
    /\ ChunksFollowRows
    /\ SessionReady
    /\ ReadyBound
    /\ PublishedGenerationKept

IInv == TypeOK /\ RunInv /\ ArtifactInv

LEMMA InvariantParts == IInv <=> Core /\ ReadyBound /\ PublishedGenerationKept
BY DEF IInv, Core, ArtifactInv, DatabaseInv, ReadyOperational, ReadyBound

LEMMA DatabaseUntouched ==
    ASSUME DatabaseInv, UNCHANGED <<dbVars, session>>
    PROVE  DatabaseInv'
BY DEF DatabaseInv, dbVars, ChunksFollowRows, SessionReady, ReadyOperational,
       OperationalReadable, Present, Observed, IdsOf, IdsIn

LEMMA InitCore == Init => Core
<1> SUFFICES ASSUME Init PROVE Core
    OBVIOUS
<1>1. NoWorkspace \in Snapshot
    BY DEF NoWorkspace, Snapshot
<1>2. TypeOK
    <2>1. ws \in Snapshot
        <3> DEFINE early == [c : Contents, t : {0}]
        <3>1. early \subseteq File
            BY BoundsAssumption DEF File
        <3>2. ws \in [Paths -> early \union {Absent}]
            BY DEF Init
        <3> HIDE DEF early
        <3>3. QED
            BY <3>1, <3>2 DEF Snapshot
    <2>2. chunks \in [Paths -> Contents \union {Absent}] /\ rows \in [Paths -> Row \union {Absent}]
        BY DEF Init, NoWorkspace
    <2>3. edits \in 0..MaxEdits /\ crashes \in 0..MaxCrashes /\ genIds \in [Gens -> SUBSET Ids]
        <3>1. 0 \in 0..MaxEdits /\ 0 \in 0..MaxCrashes
            BY BoundsAssumption
        <3>2. [g \in Gens |-> {}] \in [Gens -> SUBSET Ids]
            OBVIOUS
        <3>3. QED
            BY <3>1, <3>2 DEF Init
    <2>4. pc \in Steps /\ pc \notin PreparedSteps /\ reason \in IndexReasons
        BY DEF Init, Steps, PreparedSteps, MarkedSteps, IndexReasons
    <2>5. QED
        BY <1>1, <2>1, <2>2, <2>3, <2>4 DEF Init, TypeOK
<1>3. RunInv
    BY DEF Init, RunInv, RunShape, PrepShape, FenceKept, MarkedStale, GenFresh, GenWritten,
           MaterializePublishes, ManifestWritten, UnwrittenAgree, DeletedAbsent, PreparedSteps, MarkedSteps
<1>4. DatabaseInv
    BY DEF Init, DatabaseInv, ChunksFollowRows, SessionReady, ReadyOperational, NoWorkspace
<1>5. QED
    BY <1>2, <1>3, <1>4 DEF Core

\* The end of a run, by success, refusal, drift or death, keeps the invariant.
LEMMA NoRunStep ==
    ASSUME Core, NoRun, UNCHANGED <<wsVars, dbVars, fileVars, session>>,
           crashes' \in 0..MaxCrashes
    PROVE  Core'
<1>1. TypeOK'
    <2>1. NoWorkspace \in Snapshot
        BY DEF NoWorkspace, Snapshot
    <2>2. QED
        BY <2>1 DEF Core, TypeOK, NoRun, wsVars, dbVars, fileVars, Steps, PreparedSteps,
                    MarkedSteps
<1>2. RunInv'
    BY DEF NoRun, RunInv, RunShape, PrepShape, FenceKept, MarkedStale, GenFresh, GenWritten,
           MaterializePublishes, ManifestWritten, UnwrittenAgree, DeletedAbsent, PreparedSteps, MarkedSteps
<1>3. DatabaseInv'
    BY DatabaseUntouched DEF Core
<1>4. QED
    BY <1>1, <1>2, <1>3 DEF Core

-----------------------------------------------------------------------------
(* The environment and the steps before the preparation *)

\* An edit, or the start or end of a read, whatever a writer is doing.
LEMMA UserStep ==
    ASSUME TypeOK, DatabaseInv,
           (\E p \in Paths : Edit(p)) \/ OpenSession \/ CloseSession
    PROVE  TypeOK' /\ DatabaseInv'
<1>1. ASSUME NEW p \in Paths, Edit(p) PROVE TypeOK' /\ DatabaseInv'
    <2>1. ws' \in Snapshot /\ edits' \in 0..MaxEdits
        <3>1. edits + 1 \in 0..MaxEdits /\ ws \in [Paths -> File \union {Absent}]
            BY <1>1, BoundsAssumption DEF Edit, TypeOK, Snapshot
        <3>2. ASSUME NEW c \in Contents
              PROVE  [ws EXCEPT ![p] = [c |-> c, t |-> edits + 1]] \in Snapshot
            <4>1. [c |-> c, t |-> edits + 1] \in File
                BY <3>1 DEF File
            <4>2. QED
                BY <3>1, <4>1 DEF Snapshot
        <3>3. [ws EXCEPT ![p] = Absent] \in Snapshot
            BY <3>1 DEF Snapshot
        <3>4. QED
            BY <1>1, <3>1, <3>2, <3>3 DEF Edit
    <2>2. TypeOK'
        BY <1>1, <2>1 DEF Edit, TypeOK, dbVars, fileVars, runVars
    <2>3. QED
        BY <1>1, <2>2, DatabaseUntouched DEF Edit
<1>2. CASE OpenSession \/ CloseSession
    <2>1. TypeOK'
        BY <1>2 DEF OpenSession, CloseSession, TypeOK, wsVars, dbVars, fileVars, runVars,
           DatabaseInv, ReadyOperational, OperationalReadable, Bindings
    <2>2. DatabaseInv'
        BY <1>2 DEF OpenSession, CloseSession, DatabaseInv, ChunksFollowRows,
           SessionReady, ReadyOperational, OperationalReadable, Observed, dbVars
    <2>3. QED
        BY <2>1, <2>2
<1>3. QED
    BY <1>1, <1>2

LEMMA RunUntouched ==
    ASSUME RunInv, UNCHANGED <<dbVars, fileVars, pc, runVars>>
    PROVE  RunInv'
BY DEF RunInv, RunShape, PrepShape, FenceKept, MarkedStale, GenFresh, GenWritten,
   MaterializePublishes, ManifestWritten, UnwrittenAgree, DeletedAbsent, dbVars, fileVars,
   runVars, OperationalReadable, Observed

LEMMA EnvironmentStep ==
    ASSUME Core, Environment
    PROVE  Core'
<1>1. CASE (\E p \in Paths : Edit(p)) \/ OpenSession \/ CloseSession
    <2>1. TypeOK' /\ DatabaseInv'
        BY <1>1, UserStep DEF Core
    <2>2. RunInv'
        BY <1>1, RunUntouched DEF Edit, OpenSession, CloseSession, Core
    <2>3. QED
        BY <2>1, <2>2 DEF Core
<1>2. CASE Crash
    <2>1. crashes' \in 0..MaxCrashes
        BY <1>2, BoundsAssumption DEF Crash, Core, TypeOK
    <2>2. QED
        BY <1>2, <2>1, NoRunStep DEF Crash
<1>3. QED
    BY <1>1, <1>2 DEF Environment

\* The steps that move a run without touching an artifact or the run's record.
LEMMA ControlStep ==
    ASSUME Core, Keep, UNCHANGED <<prep, fence>>, opening' \in Snapshot,
           op' \in {"index", "refresh"}, pc' \in {"cleanup", "sweep", "inspect", "opened"},
           pc' = "cleanup" => op' = "index",
           op' = "refresh" => descriptor # None /\ OperationalReadable
    PROVE  Core'
<1>1. TypeOK'
    BY DEF Core, TypeOK, Keep, wsVars, dbVars, fileVars, Steps, PreparedSteps, MarkedSteps
<1>2. RunInv'
    BY DEF Core, Keep, RunInv, RunShape, PrepShape, FenceKept, MarkedStale, GenFresh,
       GenWritten, MaterializePublishes, ManifestWritten, UnwrittenAgree, DeletedAbsent, dbVars, fileVars,
       OperationalReadable, Observed, PreparedSteps, MarkedSteps
<1>3. QED
    BY <1>1, <1>2, DatabaseUntouched DEF Core, Keep

LEMMA OpeningStep ==
    ASSUME Core,
           \/ StartIndex \/ StartRefresh
           \/ SkipCleanup \/ BeginCleanup \/ RefuseCleanup
           \/ SweepDone \/ FinishRun
           \/ OpenInventory
    PROVE  Core'
<1>1. CASE StartIndex
    BY <1>1, ControlStep DEF StartIndex, Core, TypeOK
<1>2. CASE StartRefresh
    BY <1>2, ControlStep
       DEF StartRefresh, Core, TypeOK, QuickBaselineUsable, DescriptorReadable
<1>3. CASE SkipCleanup \/ BeginCleanup \/ SweepDone \/ OpenInventory
    <2>1. pc \in {"cleanup", "sweep", "inspect"}
        BY <1>3 DEF SkipCleanup, BeginCleanup, SweepDone, OpenInventory
    <2>2. op \in {"index", "refresh"} /\ op' = op
        BY <1>3, <2>1 DEF SkipCleanup, BeginCleanup, SweepDone, OpenInventory, Core, RunInv,
           RunShape, runVars
    <2>3. op = "refresh" => descriptor # None /\ OperationalReadable
        BY <2>1 DEF Core, RunInv, RunShape
    <2>4. opening' \in Snapshot
        BY <1>3 DEF SkipCleanup, BeginCleanup, SweepDone, OpenInventory, Core, TypeOK, runVars
    <2>5. QED
        BY <1>3, <2>2, <2>3, <2>4, ControlStep
           DEF SkipCleanup, BeginCleanup, SweepDone, OpenInventory, runVars
<1>4. CASE RefuseCleanup \/ FinishRun
    BY <1>4, NoRunStep DEF RefuseCleanup, FinishRun, Keep, Core, TypeOK
<1>5. QED
    BY <1>1, <1>2, <1>3, <1>4

\* A sweep touches no file of the published generation.
LEMMA UnlinkStep ==
    ASSUME Core, NEW g \in Gens, UnlinkOrphan(g)
    PROVE  Core'
<1>1. TypeOK'
    BY DEF UnlinkOrphan, Core, TypeOK, wsVars, dbVars, runVars
<1>2. RunInv'
    BY DEF UnlinkOrphan, Core, RunInv, RunShape, PrepShape, FenceKept, MarkedStale, GenFresh,
       GenWritten, MaterializePublishes, ManifestWritten, UnwrittenAgree, DeletedAbsent, dbVars, runVars,
       OperationalReadable, Observed, PreparedSteps, MarkedSteps
<1>3. DatabaseInv'
    BY DatabaseUntouched DEF UnlinkOrphan, Core
<1>4. QED
    BY <1>1, <1>2, <1>3 DEF Core

-----------------------------------------------------------------------------
(* Preparation and the closing fence *)

\* A preparation that is well formed starts the second half of the run.
LEMMA PreparedStep ==
    ASSUME Core, pc = "opened", Keep, UNCHANGED <<op, opening, fence>>,
           pc' = "prepared", PreparedWell(prep')
    PROVE  Core'
<1>1. TypeOK'
    BY DEF Core, TypeOK, Keep, wsVars, dbVars, fileVars, Steps, PreparedSteps, MarkedSteps,
       PreparedWell
<1>2. op' \in {"index", "refresh"} /\ RunShape'
    BY DEF Core, RunInv, RunShape
<1>3. PrepShape' /\ FenceKept' /\ GenFresh' /\ GenWritten'
    BY DEF Keep, PrepShape, FenceKept, GenFresh, GenWritten, PreparedWell, fileVars, dbVars,
       PreparedSteps, MarkedSteps
<1>4. MarkedStale' /\ MaterializePublishes' /\ ManifestWritten'
    BY DEF MarkedStale, MaterializePublishes, ManifestWritten, MarkedSteps
<1>5. UnwrittenAgree'
    <2>1. SUFFICES ASSUME NEW p \in Paths, p \notin prep'.todo, p \notin prep'.del
                   PROVE  chunks[p] = IF opening[p] = Absent THEN Absent ELSE opening[p].c
        BY DEF UnwrittenAgree, PreparedWell, Keep, dbVars
    <2>2. p \notin ContentChanged /\ p \notin Deleted
        BY <2>1 DEF PreparedWell
    <2>3. chunks[p] = IF rows[p] = Absent THEN Absent ELSE rows[p].c
        BY DEF Core, DatabaseInv, ChunksFollowRows
    <2>4. QED
        BY <2>2, <2>3 DEF ContentChanged, Deleted, Present
<1>6. DeletedAbsent'
    BY DEF PreparedWell, DeletedAbsent, Deleted, Present
<1>7. QED
    BY <1>1, <1>2, <1>3, <1>4, <1>5, <1>6, DatabaseUntouched DEF Core, RunInv, Keep

LEMMA PreparationStep ==
    ASSUME Core, QuietRefresh \/ PrepareIndex \/ PrepareRefresh \/ FenceDrift
    PROVE  Core'
<1>1. CASE QuietRefresh \/ FenceDrift
    BY <1>1, NoRunStep DEF QuietRefresh, FenceDrift, Keep, Core, TypeOK
<1>2. CASE PrepareIndex
    <2>1. PICK sources \in RelationSources : prep' = PrepareAuthoritative(sources)
        BY <1>2 DEF PrepareIndex
    <2>2. PreparedWell(prep')
        BY <1>2, <2>1, PrepareAuthoritativeWell DEF PrepareIndex, Core
    <2>3. QED
        BY <1>2, <2>2, PreparedStep DEF PrepareIndex
<1>3. CASE PrepareRefresh
    <2>1. descriptor \in Gens
        BY <1>3 DEF PrepareRefresh, Core, RunInv, RunShape, TypeOK
    <2>2. PICK sources \in RelationSources :
              \/ NoRun
              \/ /\ prep' = PrepareQuick(sources)
                 /\ pc' = "prepared"
                 /\ UNCHANGED <<op, opening, fence>>
        BY <1>3 DEF PrepareRefresh
    <2>3. CASE NoRun
        BY <1>3, <2>3, NoRunStep DEF PrepareRefresh, Keep, Core, TypeOK
    <2>4. CASE prep' = PrepareQuick(sources) /\ pc' = "prepared"
                   /\ UNCHANGED <<op, opening, fence>>
        <3>1. PreparedWell(prep')
            BY <1>3, <2>1, <2>4, PrepareQuickWell DEF PrepareRefresh, Core
        <3>2. QED
            BY <1>3, <2>4, <3>1, PreparedStep DEF PrepareRefresh
    <2>5. QED
        BY <2>2, <2>3, <2>4
<1>4. QED
    BY <1>1, <1>2, <1>3

LEMMA CloseFenceStep ==
    ASSUME Core, CloseFence
    PROVE  Core'
<1>1. TypeOK' /\ prep \in Prepared
    BY DEF CloseFence, Core, TypeOK, Keep, wsVars, dbVars, fileVars, Steps, PreparedSteps,
       MarkedSteps
<1>2. RunShape' /\ PrepShape' /\ FenceKept'
    BY DEF CloseFence, Keep, Core, RunInv, RunShape, PrepShape, FenceKept, dbVars, fileVars,
       PreparedSteps, MarkedSteps
<1>3. MarkedStale' /\ GenFresh' /\ GenWritten' /\ MaterializePublishes' /\ ManifestWritten'
    BY DEF CloseFence, Keep, Core, RunInv, RunShape, MarkedStale, GenFresh, GenWritten,
       MaterializePublishes, ManifestWritten, fileVars, MarkedSteps
<1>4. UnwrittenAgree' /\ DeletedAbsent'
    BY DEF CloseFence, Keep, Core, RunInv, UnwrittenAgree, DeletedAbsent, dbVars, PreparedSteps,
       MarkedSteps
<1>5. QED
    BY <1>1, <1>2, <1>3, <1>4, DatabaseUntouched DEF Core, RunInv, CloseFence, Keep

-----------------------------------------------------------------------------
(* Persistence *)

\* The new generation's files are nobody's while they are written.
LEMMA MaterializeStep ==
    ASSUME Core, MaterializeVectors \/ MaterializeIds
    PROVE  Core'
<1>1. /\ prep \in Prepared /\ prep.gen \in Gens /\ prep.ids \in SUBSET Ids /\ prep.publish
      /\ prep.gen \notin idfs /\ prep.gen # descriptor
    <2>1. pc = "materialize"
        BY DEF MaterializeVectors, MaterializeIds
    <2>2. prep \in Prepared /\ prep.publish
        BY <2>1 DEF Core, TypeOK, RunInv, MaterializePublishes, PreparedSteps
    <2>3. QED
        BY <2>1, <2>2 DEF Core, RunInv, GenFresh, Prepared
<1>2. TypeOK'
    BY <1>1 DEF MaterializeVectors, MaterializeIds, Core, TypeOK, wsVars, dbVars, runVars,
       Steps, PreparedSteps, MarkedSteps
<1>3. RunShape' /\ PrepShape' /\ FenceKept' /\ UnwrittenAgree' /\ DeletedAbsent'
    BY DEF MaterializeVectors, MaterializeIds, Core, RunInv, RunShape, PrepShape, FenceKept,
       UnwrittenAgree, DeletedAbsent, dbVars, runVars, PreparedSteps, MarkedSteps
<1>4. MarkedStale' /\ GenFresh' /\ GenWritten' /\ MaterializePublishes' /\ ManifestWritten'
    BY <1>1 DEF MaterializeVectors, MaterializeIds, Core, RunInv, RunShape, MarkedStale,
       GenFresh, GenWritten, MaterializePublishes, ManifestWritten, dbVars, runVars,
       MarkedSteps
<1>5. DatabaseInv'
    BY DatabaseUntouched DEF MaterializeVectors, MaterializeIds, Core
<1>6. QED
    BY <1>2, <1>3, <1>4, <1>5 DEF Core, RunInv

\* The stale mark and the marker do not concern what the run prepared.
LEMMA MarkStep ==
    ASSUME Core, MarkStale \/ ClearMarker \/ BeginBatch
    PROVE  Core'
<1>1. prep \in Prepared /\ prep.reason \in IndexReasons /\ prep.force \in BOOLEAN
    BY DEF MarkStale, ClearMarker, BeginBatch, Core, TypeOK, Prepared, PreparedSteps,
       MarkedSteps
<1>2. TypeOK'
    BY <1>1 DEF MarkStale, ClearMarker, BeginBatch, Core, TypeOK, wsVars, fileVars, runVars,
       Steps, PreparedSteps, MarkedSteps
<1>3. RunShape' /\ PrepShape' /\ FenceKept' /\ UnwrittenAgree' /\ DeletedAbsent'
    BY DEF MarkStale, ClearMarker, BeginBatch, Core, RunInv, RunShape, PrepShape, FenceKept,
       UnwrittenAgree, DeletedAbsent, fileVars, runVars, PreparedSteps, MarkedSteps
<1>4. MarkedStale' /\ GenFresh' /\ GenWritten' /\ MaterializePublishes' /\ ManifestWritten'
    BY DEF MarkStale, ClearMarker, BeginBatch, Core, RunInv, RunShape, MarkedStale,
       GenFresh, GenWritten, MaterializePublishes, ManifestWritten, fileVars, runVars,
       MarkedSteps
<1>5. DatabaseInv'
    <2>1. graph' = "stale" /\ session' = None
        BY DEF MarkStale, ClearMarker, BeginBatch, Core, RunInv, MarkedStale, MarkedSteps,
           NoReader
    <2>2. QED
        BY <2>1 DEF MarkStale, ClearMarker, BeginBatch, Core, DatabaseInv, ChunksFollowRows,
           SessionReady, ReadyOperational
<1>6. QED
    BY <1>2, <1>3, <1>4, <1>5 DEF Core, RunInv

LEMMA ObsTyped ==
    ASSUME prep \in Prepared, NEW p \in Present(prep.obs)
    PROVE  prep.obs[p].c \in Contents /\ prep.obs[p].t \in 0..MaxEdits
BY DEF Prepared, Snapshot, File, Present

LEMMA RowTyped ==
    ASSUME TypeOK, NEW p \in Paths, rows[p] # Absent
    PROVE  rows[p].og \in 0..MaxObservation
BY DEF TypeOK, Row

\* A batch brings a part of the unwritten files to what was prepared.
LEMMA CommitBatchStep ==
    ASSUME Core, CommitBatch
    PROVE  Core'
<1>1. pc = "batch" /\ prep \in Prepared /\ graph = "stale" /\ session = None
    BY DEF CommitBatch, Core, TypeOK, RunInv, MarkedStale, MarkedSteps, PreparedSteps, NoReader
<1>2. PICK B \in (SUBSET prep.todo) \ {{}} :
        /\ rows' = [p \in Paths |->
               IF p \notin B THEN rows[p]
               ELSE [c |-> prep.obs[p].c, t |-> prep.obs[p].t,
                     og |-> IF rows[p] = Absent THEN 0 ELSE rows[p].og]]
        /\ chunks' = [p \in Paths |-> IF p \in B THEN prep.obs[p].c ELSE chunks[p]]
        /\ prep' = [prep EXCEPT !.todo = @ \ B]
    BY DEF CommitBatch
<1>3. B \subseteq prep.todo /\ B \subseteq Present(prep.obs) /\ prep.todo # {}
    <2>1. B \subseteq prep.todo /\ B # {}
        BY <1>2
    <2>2. prep.todo \subseteq Present(prep.obs)
        BY <1>1 DEF Core, RunInv, PrepShape, PreparedSteps, MarkedSteps
    <2>3. QED
        BY <2>1, <2>2
<1>4. /\ prep' \in Prepared
      /\ prep'.todo = prep.todo \ B
      /\ prep'.obs = prep.obs /\ prep'.gen = prep.gen /\ prep'.publish = prep.publish
      /\ prep'.unchanged = prep.unchanged /\ prep'.del = prep.del /\ prep'.ids = prep.ids
    BY <1>1, <1>2 DEF Prepared
<1>5. \A p \in B : p \in Paths /\ prep.obs[p] # Absent
    BY <1>3 DEF Present
<1>6. rows' \in [Paths -> Row \union {Absent}]
    <2>1. ASSUME NEW p \in Paths, p \in B
          PROVE  [c |-> prep.obs[p].c, t |-> prep.obs[p].t,
                  og |-> IF rows[p] = Absent THEN 0 ELSE rows[p].og] \in Row
        <3>1. (IF rows[p] = Absent THEN 0 ELSE rows[p].og) \in 0..MaxObservation
            BY RowTyped, BoundsAssumption DEF Core
        <3>2. prep.obs[p].c \in Contents /\ prep.obs[p].t \in 0..MaxEdits
            BY <1>1, <1>3, <2>1, ObsTyped
        <3>3. QED
            BY <3>1, <3>2 DEF Row
    <2>2. rows \in [Paths -> Row \union {Absent}]
        BY DEF Core, TypeOK
    <2>3. QED
        BY <1>2, <2>1, <2>2
<1>7. chunks' \in [Paths -> Contents \union {Absent}]
    <2>1. \A p \in B : prep.obs[p].c \in Contents
        BY <1>1, <1>3, ObsTyped
    <2>2. chunks \in [Paths -> Contents \union {Absent}]
        BY DEF Core, TypeOK
    <2>3. QED
        BY <1>2, <2>1, <2>2
<1>8. TypeOK'
    BY <1>4, <1>6, <1>7 DEF CommitBatch, Core, TypeOK, wsVars, fileVars, Steps
<1>9. RunShape' /\ FenceKept' /\ PrepShape'
    BY <1>1, <1>3, <1>4 DEF CommitBatch, Core, RunInv, RunShape, FenceKept, PrepShape, fileVars,
       PreparedSteps, MarkedSteps
<1>10. MarkedStale' /\ GenFresh' /\ GenWritten' /\ MaterializePublishes' /\ ManifestWritten'
    BY <1>1, <1>4 DEF CommitBatch, Core, RunInv, MarkedStale, GenFresh, GenWritten,
       MaterializePublishes, ManifestWritten, fileVars
<1>11. UnwrittenAgree'
    <2>1. ASSUME NEW p \in Paths, p \notin prep.todo \ B, p \notin prep.del
          PROVE  chunks'[p] = IF prep.obs[p] = Absent THEN Absent ELSE prep.obs[p].c
        BY <1>1, <1>2, <1>5, <2>1 DEF Core, RunInv, UnwrittenAgree, PreparedSteps, MarkedSteps
    <2>2. QED
        BY <1>4, <2>1 DEF UnwrittenAgree
<1>12. DatabaseInv'
    <2>1. ChunksFollowRows'
        <3>1. ASSUME NEW p \in Paths
              PROVE  chunks'[p] = IF rows'[p] = Absent THEN Absent ELSE rows'[p].c
            <4>1. CASE p \in B
                <5>1. rows'[p] = [c |-> prep.obs[p].c, t |-> prep.obs[p].t,
                                  og |-> IF rows[p] = Absent THEN 0 ELSE rows[p].og]
                    BY <1>2, <4>1
                <5>2. rows'[p].c = prep.obs[p].c /\ chunks'[p] = prep.obs[p].c
                    BY <1>2, <4>1, <5>1
                <5>3. rows'[p] # Absent
                    <6>1. prep.obs[p].c \in Contents /\ prep.obs[p].t \in Nat
                        BY <1>1, <1>3, <4>1, ObsTyped, BoundsAssumption
                    <6>2. (IF rows[p] = Absent THEN 0 ELSE rows[p].og) \in Nat
                        BY RowTyped, BoundsAssumption DEF Core
                    <6>3. rows'[p] \in [c : Contents, t : Nat, og : Nat]
                        BY <5>1, <6>1, <6>2
                    <6>4. QED
                        BY <6>3, SentinelAssumption
                <5>4. QED
                    BY <5>2, <5>3
            <4>2. CASE p \notin B
                BY <1>2, <4>2 DEF Core, DatabaseInv, ChunksFollowRows
            <4>3. QED
                BY <4>1, <4>2
        <3>2. QED
            BY <3>1 DEF ChunksFollowRows
    <2>2. QED
        BY <1>1, <2>1 DEF CommitBatch, Core, DatabaseInv, SessionReady, ReadyOperational
<1>13. DeletedAbsent'
    BY <1>1, <1>4 DEF Core, RunInv, DeletedAbsent, PreparedSteps, MarkedSteps
<1>14. QED
    BY <1>8, <1>9, <1>10, <1>11, <1>12, <1>13 DEF Core, RunInv

LEMMA DeleteFileStep ==
    ASSUME Core, NEW p \in Paths, DeleteFile(p)
    PROVE  Core'
<1>1. /\ pc = "write" /\ prep \in Prepared /\ graph = "stale" /\ session = None
      /\ prep.todo = {} /\ p \in prep.del
    BY DEF DeleteFile, Core, TypeOK, RunInv, MarkedStale, MarkedSteps, PreparedSteps, NoReader
<1>2. /\ prep' \in Prepared
      /\ prep'.del = prep.del \ {p}
      /\ prep'.obs = prep.obs /\ prep'.gen = prep.gen /\ prep'.publish = prep.publish
      /\ prep'.unchanged = prep.unchanged /\ prep'.todo = prep.todo /\ prep'.ids = prep.ids
    BY <1>1 DEF DeleteFile, Prepared
<1>3. /\ rows' = [rows EXCEPT ![p] = Absent] /\ chunks' = [chunks EXCEPT ![p] = Absent]
      /\ rows \in [Paths -> Row \union {Absent}] /\ chunks \in [Paths -> Contents \union {Absent}]
    BY DEF DeleteFile, Core, TypeOK
<1>4. TypeOK'
    BY <1>2, <1>3 DEF DeleteFile, Core, TypeOK, wsVars, fileVars
<1>5. RunShape' /\ FenceKept' /\ PrepShape'
    BY <1>1, <1>2 DEF DeleteFile, Core, RunInv, RunShape, FenceKept, PrepShape, fileVars,
       PreparedSteps, MarkedSteps
<1>6. MarkedStale' /\ GenFresh' /\ GenWritten' /\ MaterializePublishes' /\ ManifestWritten'
    BY <1>1, <1>2 DEF DeleteFile, Core, RunInv, MarkedStale, GenFresh, GenWritten,
       MaterializePublishes, ManifestWritten, fileVars
<1>7. UnwrittenAgree'
    <2>1. \A q \in Paths \ prep.del :
              chunks[q] = IF prep.obs[q] = Absent THEN Absent ELSE prep.obs[q].c
        BY <1>1 DEF Core, RunInv, UnwrittenAgree, PreparedSteps, MarkedSteps
    <2>2. prep.obs[p] = Absent
        BY <1>1 DEF Core, RunInv, DeletedAbsent, PreparedSteps, MarkedSteps
    <2>3. \A q \in Paths \ (prep.del \ {p}) :
              chunks'[q] = IF prep.obs[q] = Absent THEN Absent ELSE prep.obs[q].c
        BY <1>3, <2>1, <2>2
    <2>4. QED
        BY <1>1, <1>2, <2>3 DEF UnwrittenAgree
<1>8. DatabaseInv'
    BY <1>1, <1>3 DEF DeleteFile, Core, DatabaseInv, ChunksFollowRows, SessionReady,
       ReadyOperational
<1>9. DeletedAbsent'
    BY <1>1, <1>2 DEF DeleteFile, Core, RunInv, DeletedAbsent, PreparedSteps, MarkedSteps
<1>10. QED
    BY <1>4, <1>5, <1>6, <1>7, <1>8, <1>9 DEF Core, RunInv

\* All that was prepared is written, so the new rows tell what the chunks hold.
LEMMA ReplaceObservationsStep ==
    ASSUME Core, ReplaceObservations
    PROVE  Core'
<1>1. /\ pc = "write" /\ prep \in Prepared /\ graph = "stale" /\ session = None
      /\ prep.todo = {} /\ prep.del = {}
    BY DEF ReplaceObservations, Core, TypeOK, RunInv, MarkedStale, MarkedSteps, PreparedSteps,
       NoReader
<1>2. rows' = [p \in Paths |->
           IF prep.obs[p] = Absent THEN Absent
           ELSE [c |-> prep.obs[p].c, t |-> prep.obs[p].t, og |-> prep.og]]
    BY DEF ReplaceObservations
<1>3. ASSUME NEW p \in Paths, prep.obs[p] # Absent
      PROVE  /\ rows'[p] \in Row /\ rows'[p] # Absent
             /\ rows'[p].c = prep.obs[p].c
    <2>1. prep.obs[p].c \in Contents /\ prep.obs[p].t \in 0..MaxEdits
        BY <1>1, <1>3, ObsTyped DEF Present
    <2>2. prep.og \in 1..MaxObservation
        BY <1>1 DEF Prepared
    <2>3. rows'[p] = [c |-> prep.obs[p].c, t |-> prep.obs[p].t, og |-> prep.og]
        BY <1>2, <1>3
    <2>4. rows'[p] \in Row /\ rows'[p] \in [c : Contents, t : Nat, og : Nat]
        BY <2>1, <2>2, <2>3, BoundsAssumption DEF Row
    <2>5. QED
        BY <2>3, <2>4, SentinelAssumption
<1>4. rows' \in [Paths -> Row \union {Absent}]
    <2>1. \A p \in Paths : rows'[p] \in Row \union {Absent}
        BY <1>2, <1>3
    <2>2. QED
        BY <1>2, <2>1
<1>5. TypeOK'
    BY <1>4 DEF ReplaceObservations, Core, TypeOK, wsVars, fileVars, runVars, Steps,
       PreparedSteps, MarkedSteps
<1>6. RunShape' /\ FenceKept' /\ PrepShape' /\ UnwrittenAgree' /\ DeletedAbsent'
    BY DEF ReplaceObservations, Core, RunInv, RunShape, FenceKept, PrepShape, UnwrittenAgree,
       DeletedAbsent, fileVars, runVars, PreparedSteps, MarkedSteps
<1>7. MarkedStale' /\ GenFresh' /\ GenWritten' /\ MaterializePublishes' /\ ManifestWritten'
    BY <1>1 DEF ReplaceObservations, Core, RunInv, RunShape, MarkedStale, GenFresh, GenWritten,
       MaterializePublishes, ManifestWritten, fileVars, runVars, MarkedSteps
<1>8. DatabaseInv'
    <2>1. \A p \in Paths : chunks[p] = IF prep.obs[p] = Absent THEN Absent ELSE prep.obs[p].c
        BY <1>1 DEF Core, RunInv, UnwrittenAgree, PreparedSteps, MarkedSteps
    <2>2. ChunksFollowRows'
        <3>1. \A p \in Paths : chunks[p] = IF rows'[p] = Absent THEN Absent ELSE rows'[p].c
            BY <1>2, <1>3, <2>1
        <3>2. QED
            BY <3>1 DEF ReplaceObservations, ChunksFollowRows
    <2>3. QED
        BY <1>1, <2>2 DEF ReplaceObservations, Core, DatabaseInv, SessionReady, ReadyOperational
<1>9. QED
    BY <1>5, <1>6, <1>7, <1>8 DEF Core, RunInv

\* The two files that name the generation are replaced while the index is stale.
LEMMA PublishStep ==
    ASSUME Core, PublishDescriptor \/ PublishManifest
    PROVE  Core'
<1>1. /\ pc \in {"publish", "manifest"} /\ prep \in Prepared /\ graph = "stale"
      /\ session = None
    BY DEF PublishDescriptor, PublishManifest, Core, TypeOK, RunInv, MarkedStale, MarkedSteps,
       PreparedSteps, DatabaseInv, SessionReady
<1>2. prep.gen \in Gens /\ prep.mid \in ManifestIds /\ prep.og \in 1..MaxObservation
      /\ prep.obs \in Snapshot
    BY <1>1 DEF Prepared
<1>3. TypeOK'
    BY <1>1, <1>2 DEF PublishDescriptor, PublishManifest, Core, TypeOK, wsVars, dbVars, genVars,
       runVars, Manifests, Steps
<1>4. RunShape' /\ FenceKept' /\ PrepShape' /\ UnwrittenAgree' /\ DeletedAbsent'
    BY DEF PublishDescriptor, PublishManifest, Core, RunInv, RunShape, FenceKept, PrepShape,
       UnwrittenAgree, DeletedAbsent, dbVars, runVars, PreparedSteps, MarkedSteps
<1>5. MarkedStale' /\ GenFresh' /\ GenWritten' /\ MaterializePublishes' /\ ManifestWritten'
    BY DEF PublishDescriptor, PublishManifest, Core, RunInv, MarkedStale, GenFresh, GenWritten,
       MaterializePublishes, ManifestWritten, dbVars, genVars, runVars, MarkedSteps
<1>6. DatabaseInv'
    BY DatabaseUntouched DEF PublishDescriptor, PublishManifest, Core
<1>7. QED
    BY <1>3, <1>4, <1>5, <1>6 DEF Core, RunInv

\* The validation is what makes the database agree with its new binding.
LEMMA CommitReadyStep ==
    ASSUME Core, CommitReady
    PROVE  Core'
<1>1. CASE ~CommitValid
    <2>1. NoRun /\ UNCHANGED <<wsVars, dbVars, fileVars, crashes, session>>
        BY <1>1 DEF CommitReady, dbVars
    <2>2. QED
        BY <2>1, NoRunStep DEF Core, TypeOK
<1>2. CASE CommitValid
    <2>1. pc = "commit" /\ prep \in Prepared /\ session = None
        BY DEF CommitReady, NoReader, Core, TypeOK, PreparedSteps, MarkedSteps
    <2>2. /\ graph' = "ready" /\ reason' = "" /\ full' = FALSE /\ pc' = "finalSweep"
          /\ binding' = [mid |-> prep.mid, og |-> prep.og, obs |-> prep.obs, gen |-> prep.gen,
                         ids |-> prep.ids]
          /\ UNCHANGED <<wsVars, rows, chunks, marker, fileVars, crashes, session, runVars>>
        BY <1>2 DEF CommitReady
    <2>3. IdsOf(chunks) = prep.ids
        BY <1>2, <2>1 DEF CommitValid, GraphValid, Core, RunInv, PrepShape, PreparedSteps,
           MarkedSteps
    <2>5. binding' \in Bindings
        BY <2>1, <2>2 DEF Prepared, Bindings
    <2>6. TypeOK'
        BY <2>1, <2>2, <2>5 DEF Core, TypeOK, wsVars, fileVars, runVars, IndexReasons, Steps
    <2>7. RunShape' /\ FenceKept' /\ PrepShape' /\ UnwrittenAgree' /\ DeletedAbsent'
        BY <2>1, <2>2 DEF Core, RunInv, RunShape, FenceKept, PrepShape, UnwrittenAgree,
           DeletedAbsent, fileVars, runVars, PreparedSteps, MarkedSteps
    <2>8. MarkedStale' /\ GenFresh' /\ GenWritten' /\ MaterializePublishes' /\ ManifestWritten'
        BY <2>2 DEF MarkedStale, GenFresh, GenWritten, MaterializePublishes, ManifestWritten,
           MarkedSteps
    <2>9. OperationalReadable'
        <3>1. binding' # None => OperationalReadable'
            BY <1>2, <2>2, <2>3 DEF CommitValid, ObservationsBound, OperationalReadable,
               Observed, Present, IdsOf, IdsIn
        <3>2. binding' # None
            BY <2>5, BindingAssumption
        <3>3. QED
            BY <3>1, <3>2
    <2>10. DatabaseInv'
        BY <2>1, <2>2, <2>9 DEF Core, DatabaseInv, ChunksFollowRows, SessionReady,
           ReadyOperational
    <2>11. QED
        BY <2>6, <2>7, <2>8, <2>10 DEF Core, RunInv
<1>3. QED
    BY <1>1, <1>2

LEMMA NextCore ==
    ASSUME Core, [Next]_vars
    PROVE  Core'
<1>1. CASE Environment
    BY <1>1, EnvironmentStep
<1>2. CASE StartIndex \/ StartRefresh
    BY <1>2, OpeningStep
<1>3. CASE WriterStep
    <2>1. CASE \E g \in Gens : UnlinkOrphan(g)
        BY <2>1, UnlinkStep
    <2>2. CASE SkipCleanup \/ BeginCleanup \/ RefuseCleanup \/ SweepDone \/ FinishRun
               \/ OpenInventory
        BY <2>2, OpeningStep
    <2>3. CASE QuietRefresh \/ PrepareIndex \/ PrepareRefresh \/ FenceDrift
        BY <2>3, PreparationStep
    <2>4. CASE CloseFence
        BY <2>4, CloseFenceStep
    <2>5. CASE MaterializeVectors \/ MaterializeIds
        BY <2>5, MaterializeStep
    <2>6. CASE MarkStale \/ ClearMarker \/ BeginBatch
        BY <2>6, MarkStep
    <2>7. CASE CommitBatch
        BY <2>7, CommitBatchStep
    <2>8. CASE \E p \in Paths : DeleteFile(p)
        BY <2>8, DeleteFileStep
    <2>9. CASE ReplaceObservations
        BY <2>9, ReplaceObservationsStep
    <2>10. CASE PublishDescriptor \/ PublishManifest
        BY <2>10, PublishStep
    <2>11. CASE CommitReady
        BY <2>11, CommitReadyStep
    <2>12. QED
        BY <1>3, <2>1, <2>2, <2>3, <2>4, <2>5, <2>6, <2>7, <2>8, <2>9, <2>10, <2>11
           DEF WriterStep
<1>4. CASE UNCHANGED vars
    <2>1. TypeOK'
        BY <1>4 DEF vars, wsVars, dbVars, fileVars, runVars, Core, TypeOK
    <2>2. QED
        BY <1>4, <2>1, RunUntouched, DatabaseUntouched DEF Core, vars
<1>5. QED
    BY <1>1, <1>2, <1>3, <1>4 DEF Next

-----------------------------------------------------------------------------
(* The files stay tied to the database *)

\* What a step does to them, on its own.
FilesKept ==
    /\ ReadyBound => ReadyBound'
    /\ PublishedGenerationKept => PublishedGenerationKept'

LEMMA FilesUntouched ==
    ASSUME UNCHANGED <<dbVars, fileVars>>
    PROVE  FilesKept
BY DEF FilesKept, dbVars, fileVars, ReadyBound, PublishedGenerationKept, OperationalReadable,
       BoundIdentityMatches, DescriptorReadable, Present, Observed, IdsOf, IdsIn

\* Other generations may come and go.
LEMMA OtherGenerations ==
    ASSUME UNCHANGED <<dbVars, manifest, descriptor>>,
           descriptor # None =>
               /\ descriptor \in vecs \cap idfs => descriptor \in vecs' \cap idfs'
               /\ genIds'[descriptor] = genIds[descriptor]
    PROVE  FilesKept
BY DEF FilesKept, dbVars, ReadyBound, PublishedGenerationKept, OperationalReadable,
       BoundIdentityMatches, DescriptorReadable, Present, Observed, IdsOf, IdsIn

\* A stale index owes the files nothing but the generation it names.
LEMMA StaleFiles ==
    ASSUME graph' = "stale",
           PublishedGenerationKept => PublishedGenerationKept'
    PROVE  FilesKept
BY DEF FilesKept, ReadyBound

LEMMA PublishFiles ==
    ASSUME Core, PublishDescriptor
    PROVE  FilesKept
<1>1. graph' = "stale"
    BY DEF PublishDescriptor, dbVars, Core, RunInv, MarkedStale, MarkedSteps
<1>2. PublishedGenerationKept => PublishedGenerationKept'
    <2>1. CASE prep.publish
        BY <2>1 DEF PublishDescriptor, genVars, Core, RunInv, GenWritten,
           PublishedGenerationKept, DescriptorReadable
    <2>2. CASE ~prep.publish
        <3>1. descriptor' = descriptor
            BY <2>2 DEF PublishDescriptor, Core, RunInv, PrepShape, PreparedSteps, MarkedSteps
        <3>2. QED
            BY <3>1 DEF PublishDescriptor, genVars, PublishedGenerationKept, DescriptorReadable
    <2>3. QED
        BY <2>1, <2>2
<1>3. QED
    BY <1>1, <1>2, StaleFiles

\* The validation and the prepared manifest give the four artifacts one identity.
LEMMA CommitFiles ==
    ASSUME Core, CommitReady
    PROVE  FilesKept
<1>1. CASE ~CommitValid
    BY <1>1, FilesUntouched DEF CommitReady, dbVars
<1>2. CASE CommitValid
    <2>1. /\ graph' = "ready" /\ full' = FALSE
          /\ binding' = [mid |-> prep.mid, og |-> prep.og, obs |-> prep.obs, gen |-> prep.gen,
                         ids |-> prep.ids]
          /\ UNCHANGED <<rows, chunks, fileVars>> /\ pc = "commit"
        BY <1>2 DEF CommitReady
    <2>2. manifest = [mid |-> prep.mid, og |-> prep.og, obs |-> prep.obs, gen |-> prep.gen]
        BY <2>1 DEF Core, RunInv, ManifestWritten
    <2>3. IdsOf(chunks) = prep.ids
        BY <1>2, <2>1 DEF CommitValid, GraphValid, Core, RunInv, PrepShape, PreparedSteps,
           MarkedSteps
    <2>4. Core'
        BY CommitReadyStep
    <2>5. OperationalReadable' /\ ~full'
        BY <2>1, <2>4 DEF Core, DatabaseInv, ReadyOperational
    <2>6. DescriptorReadable' /\ BoundIdentityMatches' /\ genIds'[descriptor'] = IdsOf(chunks')
        BY <1>2, <2>1, <2>2, <2>3 DEF CommitValid, ArtifactsValid, DescriptorReadable,
           BoundIdentityMatches, fileVars
    <2>7. QED
        BY <2>5, <2>6 DEF FilesKept, ReadyBound, PublishedGenerationKept
<1>3. QED
    BY <1>1, <1>2

LEMMA NextFiles ==
    ASSUME Core, [Next]_vars
    PROVE  FilesKept
<1>1. CASE UNCHANGED vars \/ Environment \/ StartIndex \/ StartRefresh
    BY <1>1, FilesUntouched DEF vars, Environment, Edit, OpenSession, CloseSession, Crash,
       StartIndex, StartRefresh, Keep
<1>2. CASE \/ SkipCleanup \/ BeginCleanup \/ RefuseCleanup \/ SweepDone \/ FinishRun
           \/ OpenInventory \/ QuietRefresh \/ PrepareIndex \/ PrepareRefresh \/ FenceDrift
           \/ CloseFence
    BY <1>2, FilesUntouched DEF SkipCleanup, BeginCleanup, RefuseCleanup, SweepDone, FinishRun,
       OpenInventory, QuietRefresh, PrepareIndex, PrepareRefresh, FenceDrift, CloseFence, Keep
<1>3. ASSUME NEW g \in Gens, UnlinkOrphan(g) PROVE FilesKept
    BY <1>3, OtherGenerations DEF UnlinkOrphan, Core, TypeOK
<1>4. CASE MaterializeVectors \/ MaterializeIds
    <2>1. pc = "materialize" /\ prep \in Prepared /\ prep.publish
        BY <1>4 DEF MaterializeVectors, MaterializeIds, Core, TypeOK, RunInv,
           MaterializePublishes, PreparedSteps
    <2>2. prep.gen # descriptor
        BY <2>1 DEF Core, RunInv, GenFresh
    <2>3. QED
        BY <1>4, <2>2, OtherGenerations DEF MaterializeVectors, MaterializeIds, Core, TypeOK
<1>5. CASE \/ MarkStale \/ ClearMarker \/ BeginBatch \/ CommitBatch
           \/ (\E p \in Paths : DeleteFile(p)) \/ ReplaceObservations \/ PublishManifest
    <2>1. graph' = "stale"
        BY <1>5 DEF MarkStale, ClearMarker, BeginBatch, CommitBatch, DeleteFile, PublishManifest,
           ReplaceObservations, dbVars, Core, RunInv, MarkedStale, MarkedSteps
    <2>2. UNCHANGED <<descriptor, vecs, idfs>>
        BY <1>5 DEF MarkStale, ClearMarker, BeginBatch, CommitBatch, DeleteFile, PublishManifest,
           ReplaceObservations, fileVars, genVars
    <2>3. QED
        BY <2>1, <2>2, StaleFiles DEF PublishedGenerationKept, DescriptorReadable
<1>6. CASE PublishDescriptor
    BY <1>6, PublishFiles
<1>7. CASE CommitReady
    BY <1>7, CommitFiles
<1>8. QED
    BY <1>1, <1>2, <1>3, <1>4, <1>5, <1>6, <1>7 DEF Next, WriterStep

-----------------------------------------------------------------------------
(* The theorems *)

LEMMA InitIInv == Init => IInv
<1>1. Init => ReadyBound /\ PublishedGenerationKept
    BY DEF Init, ReadyBound, PublishedGenerationKept
<1>2. QED
    BY <1>1, InitCore, InvariantParts

LEMMA NextIInv ==
    ASSUME IInv, [Next]_vars
    PROVE  IInv'
<1>1. Core /\ ReadyBound /\ PublishedGenerationKept
    BY InvariantParts
<1>2. Core'
    BY <1>1, NextCore
<1>3. ReadyBound' /\ PublishedGenerationKept'
    BY <1>1, NextFiles DEF FilesKept
<1>4. QED
    BY <1>2, <1>3 DEF IInv, Core, ArtifactInv, DatabaseInv

THEOREM Invariance == Spec => []IInv
BY InitIInv, NextIInv, PTL DEF Spec

\* Every variable keeps its range in every reachable state.
THEOREM TypeCorrect == Spec => []TypeOK
<1>1. IInv => TypeOK
    BY DEF IInv
<1>2. QED
    BY <1>1, Invariance, PTL

\* Whatever dies, fails, is edited or retried: an index that says "ready" agrees
\* with the manifest, the descriptor and the vector files that it was bound to.
THEOREM ReadyIsBound == Spec => []ReadyBound
<1>1. IInv => ReadyBound
    BY DEF IInv, ArtifactInv
<1>2. QED
    BY <1>1, Invariance, PTL

\* In every state, ready or not, the chunks are the content the rows describe.
LEMMA ChunksExact ==
    ASSUME TypeOK, ChunksFollowRows
    PROVE  chunks = ContentOf(Observed)
<1>1. chunks \in [Paths -> Contents \union {Absent}]
    BY DEF TypeOK
<1>2. ASSUME NEW p \in Paths PROVE chunks[p] = ContentOf(Observed)[p]
    <2>1. chunks[p] = IF rows[p] = Absent THEN Absent ELSE rows[p].c
        BY DEF ChunksFollowRows
    <2>2. CASE rows[p] = Absent
        BY <2>1, <2>2 DEF ContentOf, Observed
    <2>3. CASE rows[p] # Absent
        <3>1. rows[p].c \in Contents /\ rows[p].t \in Nat
            BY <2>3, BoundsAssumption DEF TypeOK, Row
        <3>2. [c |-> rows[p].c, t |-> rows[p].t] # Absent
            BY <3>1, SentinelAssumption
        <3>3. QED
            BY <2>1, <2>3, <3>2 DEF ContentOf, Observed
    <2>4. QED
        BY <2>2, <2>3
<1>3. QED
    BY <1>1, <1>2 DEF ContentOf

\* The chunks of a ready index are the content its rows describe.
THEOREM ReadyIsExact == Spec => []ReadyContentExact
<1>1. IInv => ReadyContentExact
    BY ChunksExact DEF ReadyContentExact, IInv, ArtifactInv
<1>2. QED
    BY <1>1, Invariance, PTL

\* A query that holds a ready session loads the vectors of exactly its chunks.
THEOREM ReaderLoads == Spec => []ReadyReaderLoads
<1>1. IInv => ReadyReaderLoads
    BY DEF IInv, ArtifactInv, SessionReady, ReadyBound, BoundIdentityMatches, ReadyReaderLoads
<1>2. QED
    BY <1>1, Invariance, PTL

\* No sweep of any run takes a file from the generation the descriptor names.
THEOREM PublishedKept == Spec => []PublishedGenerationKept
<1>1. IInv => PublishedGenerationKept
    BY DEF IInv, ArtifactInv
<1>2. QED
    BY <1>1, Invariance, PTL

\* Nothing a ready index consists of changes before it is marked stale.
THEOREM StaleFirst == Spec => StaleBeforeMutation
<1> DEFINE whole == <<rows, chunks, marker, binding, manifest, descriptor>>
<1>1. ASSUME IInv, [Next]_vars, whole' # whole
      PROVE  graph # "ready"
    <2>1. pc \in MarkedSteps
        <3>1. CASE UNCHANGED vars
            BY <1>1, <3>1 DEF vars, dbVars, fileVars
        <3>2. CASE Environment
            BY <1>1, <3>2 DEF Environment, Edit, OpenSession, CloseSession, Crash, dbVars,
               fileVars
        <3>3. CASE StartIndex \/ StartRefresh
            BY <1>1, <3>3 DEF StartIndex, StartRefresh, Keep, dbVars, fileVars
        <3>4. CASE \E g \in Gens : UnlinkOrphan(g)
            BY <1>1, <3>4 DEF UnlinkOrphan, dbVars
        <3>5. CASE SkipCleanup \/ BeginCleanup \/ RefuseCleanup \/ SweepDone \/ FinishRun
                   \/ OpenInventory \/ QuietRefresh \/ PrepareIndex \/ PrepareRefresh
                   \/ FenceDrift \/ CloseFence
            BY <1>1, <3>5 DEF SkipCleanup, BeginCleanup, RefuseCleanup, SweepDone, FinishRun,
               OpenInventory, QuietRefresh, PrepareIndex, PrepareRefresh, FenceDrift,
               CloseFence, Keep, dbVars, fileVars
        <3>6. CASE MaterializeVectors \/ MaterializeIds \/ MarkStale
            BY <1>1, <3>6 DEF MaterializeVectors, MaterializeIds, MarkStale, dbVars, fileVars
        <3>7. CASE ClearMarker \/ BeginBatch \/ CommitBatch \/ (\E p \in Paths : DeleteFile(p))
                   \/ ReplaceObservations \/ PublishDescriptor \/ PublishManifest \/ CommitReady
            BY <3>7 DEF ClearMarker, BeginBatch, CommitBatch, DeleteFile, ReplaceObservations,
               PublishDescriptor, PublishManifest, CommitReady, MarkedSteps
        <3>8. QED
            BY <1>1, <3>1, <3>2, <3>3, <3>4, <3>5, <3>6, <3>7 DEF Next, WriterStep
    <2>2. QED
        BY <1>1, <2>1 DEF IInv, RunInv, MarkedStale
<1>2. IInv /\ [Next]_vars => [whole' # whole => graph # "ready"]_vars
    BY <1>1
<1>3. QED
    BY <1>2, Invariance, PTL DEF Spec, StaleBeforeMutation

\* Only the ready commit makes an index ready.
LEMMA OnlyCommitMakesReady ==
    ASSUME [Next]_vars, graph # "ready", graph' = "ready"
    PROVE  CommitReady
<1>1. CASE UNCHANGED vars \/ Environment \/ StartIndex \/ StartRefresh
    BY <1>1 DEF vars, dbVars, Environment, Edit, OpenSession, CloseSession, Crash, StartIndex,
       StartRefresh, Keep
<1>2. CASE \E g \in Gens : UnlinkOrphan(g)
    BY <1>2 DEF UnlinkOrphan, dbVars
<1>3. CASE SkipCleanup \/ BeginCleanup \/ RefuseCleanup \/ SweepDone \/ FinishRun
           \/ OpenInventory \/ QuietRefresh \/ PrepareIndex \/ PrepareRefresh
           \/ FenceDrift \/ CloseFence
    BY <1>3 DEF SkipCleanup, BeginCleanup, RefuseCleanup, SweepDone, FinishRun,
       OpenInventory, QuietRefresh, PrepareIndex, PrepareRefresh, FenceDrift,
       CloseFence, Keep, dbVars
<1>4. CASE MaterializeVectors \/ MaterializeIds \/ MarkStale \/ ClearMarker \/ BeginBatch
           \/ CommitBatch \/ (\E p \in Paths : DeleteFile(p)) \/ ReplaceObservations
           \/ PublishDescriptor \/ PublishManifest
    BY <1>4 DEF MaterializeVectors, MaterializeIds, MarkStale, ClearMarker, BeginBatch,
       CommitBatch, DeleteFile, ReplaceObservations, PublishDescriptor, PublishManifest, dbVars
<1>5. QED
    BY <1>1, <1>2, <1>3, <1>4 DEF Next, WriterStep

\* What becomes ready is the workspace of the closing fence, edits and crashes
\* before, between and after notwithstanding.
THEOREM CommitIsTheFence == Spec => CommitMatchesFence
<1> DEFINE exact == /\ Observed' = fence
                    /\ chunks' = ContentOf(fence)
                    /\ genIds'[descriptor'] = IdsOf(ContentOf(fence))
<1>1. ASSUME IInv, [Next]_vars, graph # "ready", graph' = "ready"
      PROVE  exact
    <2>1. CommitReady
        BY <1>1, OnlyCommitMakesReady
    <2>2. CommitValid /\ pc = "commit"
        BY <1>1, <2>1 DEF CommitReady, NoRun
    <2>3. UNCHANGED <<rows, chunks, descriptor, genIds>>
        BY <2>1 DEF CommitReady, fileVars
    <2>4. Observed = prep.obs /\ prep.obs = fence
        BY <1>1, <2>2 DEF CommitValid, ObservationsBound, IInv, RunInv, FenceKept,
           PreparedSteps, MarkedSteps
    <2>5. chunks = ContentOf(fence)
        BY <1>1, <2>4, ChunksExact DEF IInv, ArtifactInv
    <2>6. prep.ids = IdsOf(chunks)
        BY <1>1, <2>2 DEF CommitValid, GraphValid, IInv, RunInv, PrepShape, PreparedSteps,
           MarkedSteps
    <2>7. genIds[descriptor] = prep.ids
        BY <2>2 DEF CommitValid, ArtifactsValid
    <2>8. Observed' = Observed
        BY <2>3 DEF Observed
    <2>9. QED
        BY <2>3, <2>4, <2>5, <2>6, <2>7, <2>8
<1>2. IInv /\ [Next]_vars => [graph # "ready" /\ graph' = "ready" => exact]_vars
    BY <1>1
<1>3. QED
    BY <1>2, Invariance, PTL DEF Spec, CommitMatchesFence

-----------------------------------------------------------------------------
(***************************************************************************)
(* Two theorems of the publication protocol on top of its invariant: the   *)
(* final validation of a run never fails, and the index implements the     *)
(* atomic index, both for any instance of the model.                       *)
(*                                                                         *)
(* What `_validate_commit` compares was produced by different steps of the *)
(* run, from different sources: the prepared ids from the observations or  *)
(* from the old vector set, the rows from the batches, the ids file from   *)
(* the new vector set or from an older run.  CInv says, beyond the         *)
(* invariant of a run, where each of them comes from.                      *)
(*                                                                         *)
(* Under the mapping of IndexRefinement the closing fence is Capture, the  *)
(* stale mark is Withdraw, the ready commit is Publish and the end of a    *)
(* run is Discard; every other step of a writer is invisible.              *)
(***************************************************************************)
\* The marker is down whenever no batch is open.
MarkerCleared ==
    \/ pc \in {"write", "publish", "manifest", "commit"}
    \/ pc = "materialize" /\ op = "index"
    => ~marker

\* After the observations are replaced every row is an observation's row.
RowsReplaced ==
    \/ pc \in {"publish", "manifest", "commit"}
    \/ pc = "materialize" /\ op = "index"
    => \A p \in Paths :
           rows[p] = IF prep.obs[p] = Absent THEN Absent
                     ELSE [c |-> prep.obs[p].c, t |-> prep.obs[p].t, og |-> prep.og]

\* However a preparation put its ids together, they are those of its snapshot.
IdsPrepared == pc \in PreparedSteps => prep.ids = IdsOf(ContentOf(prep.obs))

RunningSteps == PreparedSteps \ {"finalSweep"}

\* A kept vector set already holds the prepared ids, a new one from its writing on.
VectorsHold ==
    /\ pc \in RunningSteps
    /\ \/ ~prep.publish
       \/ pc \in {"publish", "manifest", "commit"}
       \/ op = "refresh" /\ pc \in {"markStale", "clear", "write", "batch"}
    => genIds[prep.gen] = prep.ids

\* The generation of the last ready commit is intact as long as it is published,
\* and no run reuses its name.
BindingIntact == binding # None /\ descriptor = binding.gen => genIds[descriptor] = binding.ids
NewGenUnbound ==
    pc \in RunningSteps /\ prep.publish /\ binding # None => prep.gen # binding.gen

\* A refresh starts from the generation its baseline was bound to.
RefreshBaseline ==
    op = "refresh" /\ pc \in {"sweep", "inspect", "opened"} =>
        binding # None /\ descriptor = binding.gen

DescriptorPublished == pc \in {"manifest", "commit"} => descriptor = prep.gen

CInv ==
    /\ MarkerCleared
    /\ RowsReplaced
    /\ IdsPrepared
    /\ VectorsHold
    /\ BindingIntact
    /\ NewGenUnbound
    /\ RefreshBaseline
    /\ DescriptorPublished

-----------------------------------------------------------------------------
(* Sets of embedding ids *)

LEMMA IdsInMember ==
    ASSUME NEW g, NEW S, NEW p, NEW c
    PROVE  <<p, c>> \in IdsIn(g, S) <=> p \in S /\ g[p] = c /\ c \notin {Absent, Blank}
BY DEF IdsIn

LEMMA IdsEqual ==
    ASSUME NEW A \in SUBSET Ids, NEW B \in SUBSET Ids,
           \A p \in Paths, c \in Contents : <<p, c>> \in A <=> <<p, c>> \in B
    PROVE  A = B
BY DEF Ids

\* The ids of an index whose paths "out" were taken out and "in" read anew.
Patched(old, new, out, in) == (IdsOf(old) \ IdsIn(old, out)) \union IdsIn(new, in)

\* What is left of an index after the ids of the changed paths went is right
\* when it agrees with the new content everywhere else.
LEMMA IdsPatched ==
    ASSUME NEW old \in [Paths -> Contents \union {Absent}],
           NEW new \in [Paths -> Contents \union {Absent}],
           NEW out \in SUBSET Paths, NEW in \in SUBSET Paths,
           in \subseteq out,
           \A p \in Paths \ out : IdsIn(old, {p}) = IdsIn(new, {p}),
           \A p \in out \ in : new[p] = Absent
    PROVE  Patched(old, new, out, in) = IdsOf(new)
<1> DEFINE left == (IdsOf(old) \ IdsIn(old, out)) \union IdsIn(new, in)
<1>1. left \in SUBSET Ids /\ IdsOf(new) \in SUBSET Ids
    BY IdsInTyped DEF IdsOf
<1>2. ASSUME NEW p \in Paths, NEW c \in Contents
      PROVE  <<p, c>> \in left <=> <<p, c>> \in IdsOf(new)
    <2>1. <<p, c>> \in left <=>
              \/ <<p, c>> \in IdsOf(old) /\ <<p, c>> \notin IdsIn(old, out)
              \/ <<p, c>> \in IdsIn(new, in)
        OBVIOUS
    <2>2. /\ <<p, c>> \in IdsOf(old) <=> old[p] = c /\ c \notin {Absent, Blank}
          /\ <<p, c>> \in IdsOf(new) <=> new[p] = c /\ c \notin {Absent, Blank}
          /\ <<p, c>> \in IdsIn(old, out) <=> p \in out /\ old[p] = c /\ c \notin {Absent, Blank}
          /\ <<p, c>> \in IdsIn(new, in) <=> p \in in /\ new[p] = c /\ c \notin {Absent, Blank}
        BY IdsInMember DEF IdsOf
    <2>3. CASE p \notin out
        <3>1. <<p, c>> \in IdsIn(old, {p}) <=> <<p, c>> \in IdsIn(new, {p})
            BY <2>3
        <3>2. (old[p] = c /\ c \notin {Absent, Blank}) <=> (new[p] = c /\ c \notin {Absent, Blank})
            BY <3>1, IdsInMember
        <3>3. QED
            BY <2>1, <2>2, <2>3, <3>2
    <2>4. CASE p \in out
        <3>1. p \notin in => new[p] = Absent
            BY <2>4
        <3>2. QED
            BY <2>1, <2>2, <2>4, <3>1
    <2>5. QED
        BY <2>3, <2>4
<1> HIDE DEF left
<1>3. left = IdsOf(new)
    BY <1>1, <1>2, IdsEqual
<1>4. QED
    BY <1>3 DEF left, Patched

-----------------------------------------------------------------------------
(* What the two preparations put into the prepared ids *)

\* A path whose content did not change has the ids of the opening inventory.
LEMMA UnchangedPath ==
    ASSUME IInv, NEW p \in Paths, p \notin ContentChanged, p \notin Deleted
    PROVE  IdsIn(chunks, {p}) = IdsIn(ContentOf(opening), {p})
<1>1. chunks[p] = IF rows[p] = Absent THEN Absent ELSE rows[p].c
    BY DEF IInv, ArtifactInv, ChunksFollowRows
<1>2. ContentOf(opening)[p] = IF opening[p] = Absent THEN Absent ELSE opening[p].c
    BY DEF ContentOf
<1>3. chunks[p] = ContentOf(opening)[p]
    BY <1>1, <1>2 DEF ContentChanged, Deleted, Present
<1>4. QED
    BY <1>3 DEF IdsIn

LEMMA OpeningTyped ==
    ASSUME IInv
    PROVE  /\ chunks \in [Paths -> Contents \union {Absent}]
           /\ ContentOf(opening) \in [Paths -> Contents \union {Absent}]
           /\ \A p \in Paths \ Present(opening) : ContentOf(opening)[p] = Absent
           /\ Present(opening) \subseteq Paths
BY ContentOfTyped DEF IInv, TypeOK, ContentOf, Present

\* The ids of the snapshot, under a new name or that of the vector set they are in.
PreparedExactly(p) ==
    /\ p.obs = opening
    /\ p.ids = IdsOf(ContentOf(opening))
    /\ p.publish \in BOOLEAN
    /\ ~p.publish => p.gen = descriptor /\ genIds[descriptor] = p.ids
    /\ p.publish => p.gen \in Gens /\ p.gen \notin UsedGens

LEMMA PrepareNames ==
    ASSUME TypeOK, NamesLeft,
           NEW ids, NEW vectorChanged \in BOOLEAN, NEW force, NEW why, NEW unchanged,
           NEW todo, NEW del,
           ids = IdsOf(ContentOf(opening)),
           ~vectorChanged => genIds[descriptor] = ids
    PROVE  PreparedExactly(Prepare(ids, vectorChanged, force, why, unchanged, todo, del))
<1>1. Fresh(Gens, UsedGens) \in Gens /\ Fresh(Gens, UsedGens) \notin UsedGens
    BY UsedNames, FreshIn DEF NamesLeft
<1> DEFINE p == Prepare(ids, vectorChanged, force, why, unchanged, todo, del)
<1>2. /\ p.obs = opening /\ p.ids = ids /\ p.publish = vectorChanged
      /\ p.gen = IF vectorChanged THEN Fresh(Gens, UsedGens) ELSE descriptor
    BY DEF Prepare
<1> HIDE DEF p
<1>3. PreparedExactly(p)
    BY <1>1, <1>2 DEF PreparedExactly
<1>4. QED
    BY <1>3 DEF p

LEMMA PrepareAuthoritativeExact ==
    ASSUME IInv, NamesLeft, NEW sources \in RelationSources
    PROVE  PreparedExactly(PrepareAuthoritative(sources))
<1> DEFINE force   == ForceFullReindex
           todo    == AuthoritativeTodo(sources)
           fresh   == ContentOf(opening)
           revec   == IF force THEN todo
                      ELSE {p \in todo : p \in ContentChanged
                                         \/ IdsIn(chunks, {p}) # IdsIn(fresh, {p})}
           kept    == IF force THEN {}
                      ELSE genIds[descriptor] \ IdsIn(chunks, revec \union Deleted)
           quiet   == graph = "ready" /\ ~force /\ todo = {} /\ Deleted = {}
           changed == force \/ revec # {} \/ Deleted # {}
           ids     == kept \union IdsIn(fresh, revec)
<1>1. TypeOK /\ todo \subseteq Present(opening) /\ ContentChanged \subseteq todo
    BY PathSets DEF AuthoritativeTodo, IInv
<1>2. Deleted \subseteq Paths /\ revec \subseteq todo /\ todo \subseteq Paths
    BY <1>1, PathSets
<1>3. ~force => genIds[descriptor] = IdsOf(chunks)
    BY DEF ForceFullReindex, VectorSnapshotValid
<1>4. PrepareAuthoritative(sources)
          = Prepare(ids, changed, force, AuthoritativeReason, quiet, todo, Deleted)
    BY DEF PrepareAuthoritative
<1>5. ids = IdsOf(fresh)
    <2>1. CASE force
        <3>1. todo = Present(opening)
            BY <2>1 DEF AuthoritativeTodo
        <3>2. ids = IdsIn(fresh, Present(opening))
            BY <2>1, <3>1
        <3>3. IdsIn(fresh, Present(opening)) = IdsIn(fresh, Paths)
            BY OpeningTyped DEF IdsIn
        <3>4. QED
            BY <3>2, <3>3 DEF IdsOf
    <2>2. CASE ~force
        <3>1. ids = (IdsOf(chunks) \ IdsIn(chunks, revec \union Deleted)) \union IdsIn(fresh, revec)
            BY <1>3, <2>2
        <3>2. \A p \in Paths \ (revec \union Deleted) : IdsIn(chunks, {p}) = IdsIn(fresh, {p})
            <4>1. SUFFICES ASSUME NEW p \in Paths, p \notin revec, p \notin Deleted
                           PROVE  IdsIn(chunks, {p}) = IdsIn(fresh, {p})
                OBVIOUS
            <4>2. CASE p \in todo
                BY <2>2, <4>1, <4>2
            <4>3. CASE p \notin todo
                BY <1>1, <4>1, <4>3, UnchangedPath
            <4>4. QED
                BY <4>2, <4>3
        <3>3. \A p \in (revec \union Deleted) \ revec : fresh[p] = Absent
            BY OpeningTyped DEF Deleted, Present
        <3> HIDE DEF revec, fresh, ids
        <3>4. /\ chunks \in [Paths -> Contents \union {Absent}]
              /\ fresh \in [Paths -> Contents \union {Absent}]
            BY OpeningTyped DEF fresh
        <3>5. revec \in SUBSET Paths /\ revec \union Deleted \in SUBSET Paths
              /\ revec \subseteq revec \union Deleted
            BY <1>2
        <3>6. Patched(chunks, fresh, revec \union Deleted, revec) = IdsOf(fresh)
            BY <3>2, <3>3, <3>4, <3>5, IdsPatched
        <3>7. QED
            BY <3>1, <3>6 DEF Patched
    <2>3. QED
        BY <2>1, <2>2
<1>6. ~changed => genIds[descriptor] = ids
    <2> SUFFICES ASSUME ~changed PROVE genIds[descriptor] = ids
        OBVIOUS
    <2>1. ~force /\ revec = {} /\ Deleted = {}
        OBVIOUS
    <2>2. IdsIn(fresh, {}) = {} /\ IdsIn(chunks, {}) = {}
        BY DEF IdsIn
    <2>3. revec \union Deleted = {}
        BY <2>1
    <2>4. QED
        BY <1>3, <2>1, <2>2, <2>3
<1>7. changed \in BOOLEAN
    BY DEF ForceFullReindex, VectorSnapshotValid, OperationalIntegrityFailed,
           BindingIntegrityFailed
<1> HIDE DEF force, todo, revec, kept, quiet, changed, ids
<1>8. QED
    BY <1>1, <1>4, <1>5, <1>6, <1>7, PrepareNames

LEMMA PrepareQuickExact ==
    ASSUME IInv, NamesLeft, genIds[descriptor] = IdsOf(chunks), NEW sources \in RelationSources
    PROVE  PreparedExactly(PrepareQuick(sources))
<1> DEFINE dependent == sources \union (IF graph = "stale" THEN NonEmpty(opening) ELSE {})
           fresh     == ContentOf(opening)
           removed   == IdsIn(chunks, ContentChanged \union Deleted)
           added     == IdsIn(fresh, ContentChanged)
           ids       == (IdsOf(chunks) \ removed) \union added
           changed   == removed \union added # {}
           todo      == ContentChanged \union dependent
           no        == FALSE
<1>1. TypeOK /\ ContentChanged \subseteq Present(opening) /\ ContentChanged \subseteq Paths
      /\ Deleted \subseteq Paths
    BY PathSets DEF IInv
<1>2. PrepareQuick(sources) = Prepare(ids, changed, no, RefreshReason, no, todo, Deleted)
    BY DEF PrepareQuick
<1>3. ids = IdsOf(fresh)
    <2> DEFINE in  == ContentChanged
               out == ContentChanged \union Deleted
    <2>1. \A p \in Paths \ out : IdsIn(chunks, {p}) = IdsIn(fresh, {p})
        BY UnchangedPath
    <2>2. \A p \in out \ in : fresh[p] = Absent
        BY OpeningTyped DEF Deleted, Present
    <2>3. ids = (IdsOf(chunks) \ IdsIn(chunks, out)) \union IdsIn(fresh, in)
        OBVIOUS
    <2> HIDE DEF fresh, ids
    <2>4. /\ chunks \in [Paths -> Contents \union {Absent}]
          /\ fresh \in [Paths -> Contents \union {Absent}]
        BY OpeningTyped DEF fresh
    <2>5. in \in SUBSET Paths /\ out \in SUBSET Paths /\ in \subseteq out
        BY <1>1
    <2> HIDE DEF in, out
    <2>6. Patched(chunks, fresh, out, in) = IdsOf(fresh)
        BY <2>1, <2>2, <2>4, <2>5, IdsPatched
    <2>7. QED
        BY <2>3, <2>6 DEF Patched
<1>4. ~changed => genIds[descriptor] = ids
    OBVIOUS
<1>5. changed \in BOOLEAN
    OBVIOUS
<1> HIDE DEF ids, changed, todo, no
<1>6. QED
    BY <1>1, <1>2, <1>3, <1>4, <1>5, PrepareNames

-----------------------------------------------------------------------------
(* CInv is preserved *)

\* What CInv is about does not change in a step of the user or of a query.
LEMMA OutsideCommit ==
    ASSUME CInv, UNCHANGED <<marker, rows, binding, descriptor, genIds, pc, op, prep>>
    PROVE  CInv'
BY DEF CInv, MarkerCleared, RowsReplaced, IdsPrepared, VectorsHold, BindingIntact,
       NewGenUnbound, RefreshBaseline, DescriptorPublished, IdsOf, IdsIn, ContentOf

\* A run that has prepared nothing, or has ended, leaves only the binding to keep.
LEMMA UnpreparedCommit ==
    ASSUME pc' \in {"idle", "cleanup", "sweep", "inspect", "opened"},
           BindingIntact', RefreshBaseline'
    PROVE  CInv'
BY DEF CInv, MarkerCleared, RowsReplaced, IdsPrepared, VectorsHold, NewGenUnbound,
       DescriptorPublished, PreparedSteps, MarkedSteps, RunningSteps

LEMMA BindingKept ==
    ASSUME BindingIntact, UNCHANGED <<binding, descriptor, genIds>>
    PROVE  BindingIntact'
BY DEF BindingIntact

LEMMA NoRunCommit ==
    ASSUME CInv, NoRun, UNCHANGED <<binding, descriptor, genIds>>
    PROVE  CInv'
<1>1. BindingIntact'
    BY BindingKept DEF CInv
<1>2. RefreshBaseline' /\ pc' = "idle"
    BY DEF NoRun, RefreshBaseline
<1>3. QED
    BY <1>1, <1>2, UnpreparedCommit

LEMMA EnvironmentCommit ==
    ASSUME IInv, CInv, Environment
    PROVE  CInv'
<1>1. CASE (\E p \in Paths : Edit(p)) \/ OpenSession \/ CloseSession
    BY <1>1, OutsideCommit DEF Edit, OpenSession, CloseSession, dbVars, fileVars, runVars
<1>2. CASE Crash
    BY <1>2, NoRunCommit DEF Crash, dbVars, fileVars
<1>3. QED
    BY <1>1, <1>2 DEF Environment

LEMMA OpeningCommit ==
    ASSUME IInv, CInv,
           \/ StartIndex \/ StartRefresh
           \/ SkipCleanup \/ BeginCleanup \/ RefuseCleanup
           \/ SweepDone \/ FinishRun
           \/ OpenInventory
    PROVE  CInv'
<1>1. UNCHANGED <<binding, descriptor, genIds>>
    BY DEF StartIndex, StartRefresh, SkipCleanup, BeginCleanup, RefuseCleanup, SweepDone,
       FinishRun, OpenInventory, Keep, dbVars, fileVars
<1>2. BindingIntact'
    BY <1>1, BindingKept DEF CInv
<1>3. CASE StartIndex \/ SkipCleanup \/ BeginCleanup
    <2>1. op' = "index" /\ pc' \in {"cleanup", "sweep", "inspect"}
        BY <1>3 DEF StartIndex, SkipCleanup, BeginCleanup, IInv, RunInv, RunShape, runVars
    <2>2. RefreshBaseline'
        BY <2>1 DEF RefreshBaseline
    <2>3. QED
        BY <1>2, <2>1, <2>2, UnpreparedCommit
<1>4. CASE StartRefresh
    <2>1. binding # None /\ descriptor = binding.gen
        BY <1>4 DEF StartRefresh, QuickBaselineUsable, OperationalReadable, BoundIdentityMatches
    <2>2. RefreshBaseline' /\ pc' = "sweep"
        BY <1>1, <1>4, <2>1 DEF StartRefresh, RefreshBaseline
    <2>3. QED
        BY <1>2, <2>2, UnpreparedCommit
<1>5. CASE SweepDone \/ OpenInventory
    <2>1. op' = op /\ pc \in {"sweep", "inspect"} /\ pc' \in {"inspect", "opened"}
        BY <1>5 DEF SweepDone, OpenInventory, runVars
    <2>2. RefreshBaseline'
        BY <1>1, <2>1 DEF CInv, RefreshBaseline
    <2>3. QED
        BY <1>2, <2>1, <2>2, UnpreparedCommit
<1>6. CASE RefuseCleanup \/ FinishRun
    BY <1>1, <1>6, NoRunCommit DEF RefuseCleanup, FinishRun
<1>7. QED
    BY <1>3, <1>4, <1>5, <1>6

\* A sweep keeps the ids of the published generation, and runs while nothing
\* is prepared or after everything is committed.
LEMMA UnlinkCommit ==
    ASSUME IInv, CInv, NEW g \in Gens, UnlinkOrphan(g)
    PROVE  CInv'
<1>1. /\ UNCHANGED <<marker, rows, binding, descriptor, pc, op, prep>>
      /\ pc \in {"sweep", "finalSweep"}
    BY DEF UnlinkOrphan, dbVars, runVars
<1>2. descriptor # None => genIds'[descriptor] = genIds[descriptor]
    BY DEF UnlinkOrphan, IInv, TypeOK
<1>3. BindingIntact'
    <2>1. ASSUME binding # None, descriptor = binding.gen PROVE descriptor # None
        <3>1. binding \in Bindings
            BY <2>1 DEF IInv, TypeOK
        <3>2. descriptor \in Gens
            BY <2>1, <3>1 DEF Bindings
        <3>3. QED
            BY <3>2, SentinelAssumption
    <2>2. QED
        BY <1>1, <1>2, <2>1 DEF CInv, BindingIntact
<1>4. IdsPrepared' /\ RefreshBaseline'
    BY <1>1 DEF CInv, IdsPrepared, RefreshBaseline, IdsOf, IdsIn, ContentOf
<1>5. MarkerCleared' /\ RowsReplaced' /\ VectorsHold' /\ NewGenUnbound' /\ DescriptorPublished'
    BY <1>1 DEF MarkerCleared, RowsReplaced, VectorsHold, NewGenUnbound, DescriptorPublished,
       RunningSteps, PreparedSteps, MarkedSteps
<1>6. QED
    BY <1>3, <1>4, <1>5 DEF CInv

LEMMA PreparedCommit ==
    ASSUME IInv, CInv, pc' = "prepared", Keep, PreparedExactly(prep')
    PROVE  CInv'
<1>1. UNCHANGED <<binding, descriptor, genIds>>
    BY DEF Keep, dbVars, fileVars
<1>2. BindingIntact'
    BY <1>1, BindingKept DEF CInv
<1>3. IdsPrepared'
    BY DEF IdsPrepared, PreparedExactly
<1>4. VectorsHold'
    BY <1>1 DEF VectorsHold, PreparedExactly
<1>5. NewGenUnbound'
    <2>1. SUFFICES ASSUME prep'.publish, binding # None PROVE prep'.gen # binding.gen
        BY <1>1 DEF NewGenUnbound
    <2>2. prep'.gen \in Gens /\ prep'.gen \notin UsedGens
        BY <2>1 DEF PreparedExactly
    <2>3. QED
        BY <2>1, <2>2 DEF UsedGens
<1>6. MarkerCleared' /\ RowsReplaced' /\ RefreshBaseline' /\ DescriptorPublished'
    BY DEF MarkerCleared, RowsReplaced, RefreshBaseline, DescriptorPublished
<1>7. QED
    BY <1>2, <1>3, <1>4, <1>5, <1>6 DEF CInv

LEMMA PreparationCommit ==
    ASSUME IInv, CInv, QuietRefresh \/ PrepareIndex \/ PrepareRefresh \/ FenceDrift
    PROVE  CInv'
<1>1. CASE QuietRefresh \/ FenceDrift
    BY <1>1, NoRunCommit DEF QuietRefresh, FenceDrift, Keep, dbVars, fileVars
<1>2. CASE PrepareIndex
    <2>1. PICK sources \in RelationSources : prep' = PrepareAuthoritative(sources)
        BY <1>2 DEF PrepareIndex
    <2>2. NamesLeft /\ Keep /\ pc' = "prepared"
        BY <1>2 DEF PrepareIndex
    <2>3. PreparedExactly(PrepareAuthoritative(sources))
        BY <2>2, PrepareAuthoritativeExact
    <2>4. QED
        BY <2>1, <2>2, <2>3, PreparedCommit
<1>3. CASE PrepareRefresh
    <2>1. pc = "opened" /\ op = "refresh" /\ NamesLeft /\ Keep
        BY <1>3 DEF PrepareRefresh
    <2>2. genIds[descriptor] = IdsOf(chunks)
        <3>1. OperationalReadable
            BY <2>1 DEF IInv, RunInv, RunShape
        <3>2. binding # None /\ descriptor = binding.gen
            BY <2>1 DEF CInv, RefreshBaseline
        <3>3. QED
            BY <3>1, <3>2 DEF CInv, BindingIntact, OperationalReadable
    <2>3. PICK sources \in RelationSources :
              \/ NoRun
              \/ prep' = PrepareQuick(sources) /\ pc' = "prepared"
        BY <1>3 DEF PrepareRefresh
    <2>4. CASE NoRun
        BY <2>1, <2>4, NoRunCommit DEF Keep, dbVars, fileVars
    <2>5. CASE prep' = PrepareQuick(sources) /\ pc' = "prepared"
        <3>1. PreparedExactly(PrepareQuick(sources))
            BY <2>1, <2>2, PrepareQuickExact
        <3>2. QED
            BY <2>1, <2>5, <3>1, PreparedCommit
    <2>6. QED
        BY <2>3, <2>4, <2>5
<1>4. QED
    BY <1>1, <1>2, <1>3

LEMMA CloseFenceCommit ==
    ASSUME IInv, CInv, CloseFence
    PROVE  CInv'
<1>1. /\ UNCHANGED <<marker, rows, binding, descriptor, genIds, op, prep>>
      /\ pc = "prepared" /\ pc' = IF op = "refresh" /\ prep.publish THEN "materialize" ELSE "markStale"
    BY DEF CloseFence, Keep, dbVars, fileVars
<1>2. BindingIntact'
    BY <1>1, BindingKept DEF CInv
<1>3. IdsPrepared' /\ NewGenUnbound'
    BY <1>1 DEF CInv, IdsPrepared, NewGenUnbound, IdsOf, IdsIn, ContentOf, RunningSteps,
       PreparedSteps, MarkedSteps
<1>4. VectorsHold'
    BY <1>1 DEF CInv, VectorsHold, RunningSteps, PreparedSteps, MarkedSteps
<1>5. MarkerCleared' /\ RowsReplaced' /\ RefreshBaseline' /\ DescriptorPublished'
    BY <1>1 DEF MarkerCleared, RowsReplaced, RefreshBaseline, DescriptorPublished
<1>6. QED
    BY <1>2, <1>3, <1>4, <1>5 DEF CInv

\* Vector files are written beside the published generation, with the prepared ids.
LEMMA MaterializeCommit ==
    ASSUME IInv, CInv, MaterializeVectors \/ MaterializeIds
    PROVE  CInv'
<1>1. pc = "materialize" /\ UNCHANGED <<marker, rows, binding, descriptor, op, prep>>
    BY DEF MaterializeVectors, MaterializeIds, dbVars, runVars
<1>2. prep.publish /\ prep.gen # descriptor /\ prep.gen \in Gens
    <2>1. prep \in Prepared /\ prep.publish
        BY <1>1 DEF IInv, TypeOK, RunInv, MaterializePublishes, PreparedSteps
    <2>2. QED
        BY <1>1, <2>1 DEF IInv, RunInv, GenFresh, Prepared
<1>3. CASE MaterializeVectors
    BY <1>1, <1>3, OutsideCommit DEF MaterializeVectors, runVars
<1>4. CASE MaterializeIds
    <2>1. /\ genIds' = [genIds EXCEPT ![prep.gen] = prep.ids]
          /\ pc' = IF op = "refresh" THEN "markStale" ELSE "publish"
        BY <1>4 DEF MaterializeIds
    <2>2. genIds \in [Gens -> SUBSET Ids] /\ op \in {"index", "refresh"}
        BY <1>1 DEF IInv, TypeOK, RunInv, RunShape
    <2>3. genIds'[prep.gen] = prep.ids /\ \A g \in Gens : g # prep.gen => genIds'[g] = genIds[g]
        BY <1>2, <2>1, <2>2
    <2>4. BindingIntact'
        <3>1. binding # None => binding.gen \in Gens
            BY DEF IInv, TypeOK, Bindings
        <3>2. QED
            BY <1>1, <1>2, <2>3, <3>1 DEF CInv, BindingIntact
    <2>5. IdsPrepared' /\ NewGenUnbound'
        BY <1>1, <2>1 DEF CInv, IdsPrepared, NewGenUnbound, IdsOf, IdsIn, ContentOf,
           RunningSteps, PreparedSteps, MarkedSteps
    <2>6. VectorsHold'
        BY <1>1, <2>3 DEF VectorsHold
    <2>7. MarkerCleared' /\ RowsReplaced'
        BY <1>1, <2>1, <2>2 DEF CInv, MarkerCleared, RowsReplaced
    <2>8. RefreshBaseline' /\ DescriptorPublished'
        BY <2>1 DEF RefreshBaseline, DescriptorPublished
    <2>9. QED
        BY <2>4, <2>5, <2>6, <2>7, <2>8 DEF CInv
<1>5. QED
    BY <1>3, <1>4

\* The batches and deletes only strike paths off the lists of the prepared run.
LEMMA WritingCommit ==
    ASSUME IInv, CInv, pc \in {"markStale", "clear", "write", "batch"},
           pc' \in {"clear", "write", "batch"}, pc' = "write" => ~marker',
           UNCHANGED <<binding, descriptor, genIds, op>>,
           prep'.obs = prep.obs, prep'.og = prep.og, prep'.gen = prep.gen,
           prep'.ids = prep.ids, prep'.publish = prep.publish
    PROVE  CInv'
<1>1. BindingIntact'
    BY BindingKept DEF CInv
<1>2. IdsPrepared' /\ NewGenUnbound'
    BY DEF CInv, IdsPrepared, NewGenUnbound, IdsOf, IdsIn, ContentOf,
       RunningSteps, PreparedSteps, MarkedSteps
<1>3. VectorsHold'
    BY DEF CInv, VectorsHold, RunningSteps, PreparedSteps, MarkedSteps
<1>4. MarkerCleared' /\ RowsReplaced' /\ RefreshBaseline' /\ DescriptorPublished'
    BY DEF MarkerCleared, RowsReplaced, RefreshBaseline, DescriptorPublished
<1>5. QED
    BY <1>1, <1>2, <1>3, <1>4 DEF CInv

LEMMA PersistCommit ==
    ASSUME IInv, CInv,
           \/ MarkStale \/ ClearMarker \/ BeginBatch \/ CommitBatch
           \/ \E p \in Paths : DeleteFile(p)
    PROVE  CInv'
<1>1. pc \in {"markStale", "clear", "write", "batch"} /\ prep \in Prepared
    BY DEF MarkStale, ClearMarker, BeginBatch, CommitBatch, DeleteFile, IInv, TypeOK,
       PreparedSteps, MarkedSteps
<1>2. UNCHANGED <<binding, descriptor, genIds, op>>
    BY DEF MarkStale, ClearMarker, BeginBatch, CommitBatch, DeleteFile, runVars, fileVars
<1>3. /\ prep'.obs = prep.obs /\ prep'.og = prep.og /\ prep'.gen = prep.gen
      /\ prep'.ids = prep.ids /\ prep'.publish = prep.publish
    BY <1>1 DEF MarkStale, ClearMarker, BeginBatch, CommitBatch, DeleteFile, runVars, Prepared
<1>4. pc' \in {"clear", "write", "batch"}
    BY DEF MarkStale, ClearMarker, BeginBatch, CommitBatch, DeleteFile
<1>5. pc' = "write" => ~marker'
    BY DEF MarkStale, ClearMarker, BeginBatch, CommitBatch, DeleteFile, CInv, MarkerCleared
<1>6. QED
    BY <1>1, <1>2, <1>3, <1>4, <1>5, WritingCommit

LEMMA ReplaceObservationsCommit ==
    ASSUME IInv, CInv, ReplaceObservations
    PROVE  CInv'
<1>1. /\ UNCHANGED <<marker, binding, descriptor, genIds, op, prep>>
      /\ pc = "write" /\ op \in {"index", "refresh"}
      /\ pc' = IF op = "index" /\ prep.publish THEN "materialize" ELSE "publish"
    BY DEF ReplaceObservations, fileVars, runVars, IInv, RunInv, RunShape
<1>2. BindingIntact'
    BY <1>1, BindingKept DEF CInv
<1>3. IdsPrepared' /\ NewGenUnbound'
    BY <1>1 DEF CInv, IdsPrepared, NewGenUnbound, IdsOf, IdsIn, ContentOf,
       RunningSteps, PreparedSteps, MarkedSteps
<1>4. VectorsHold'
    BY <1>1 DEF CInv, VectorsHold, RunningSteps, PreparedSteps, MarkedSteps
<1>5. MarkerCleared'
    BY <1>1 DEF CInv, MarkerCleared
<1>6. RowsReplaced'
    <2>1. rows' = [p \in Paths |->
              IF prep.obs[p] = Absent THEN Absent
              ELSE [c |-> prep.obs[p].c, t |-> prep.obs[p].t, og |-> prep.og]]
        BY DEF ReplaceObservations
    <2>2. QED
        BY <1>1, <2>1 DEF RowsReplaced
<1>7. RefreshBaseline' /\ DescriptorPublished'
    BY <1>1 DEF RefreshBaseline, DescriptorPublished
<1>8. QED
    BY <1>2, <1>3, <1>4, <1>5, <1>6, <1>7 DEF CInv

\* From here the descriptor names the prepared generation, new or kept.
LEMMA PublishCommit ==
    ASSUME IInv, CInv, PublishDescriptor \/ PublishManifest
    PROVE  CInv'
<1>1. /\ UNCHANGED <<marker, rows, binding, genIds, op, prep>>
      /\ \/ pc = "publish" /\ pc' = "manifest" /\ descriptor' = prep.gen
         \/ pc = "manifest" /\ pc' = "commit" /\ descriptor' = descriptor
    BY DEF PublishDescriptor, PublishManifest, dbVars, genVars, runVars
<1>2. descriptor' = prep.gen
    BY <1>1 DEF CInv, DescriptorPublished
<1>3. BindingIntact'
    <2>1. CASE prep.publish
        BY <1>1, <1>2, <2>1 DEF CInv, NewGenUnbound, BindingIntact, RunningSteps,
           PreparedSteps, MarkedSteps
    <2>2. CASE ~prep.publish
        <3>1. descriptor' = descriptor
            BY <1>1, <1>2, <2>2 DEF IInv, RunInv, PrepShape, PreparedSteps, MarkedSteps
        <3>2. QED
            BY <1>1, <3>1 DEF CInv, BindingIntact
    <2>3. QED
        BY <2>1, <2>2
<1>4. IdsPrepared' /\ NewGenUnbound'
    BY <1>1 DEF CInv, IdsPrepared, NewGenUnbound, IdsOf, IdsIn, ContentOf,
       RunningSteps, PreparedSteps, MarkedSteps
<1>5. VectorsHold' /\ MarkerCleared' /\ RowsReplaced'
    BY <1>1 DEF CInv, VectorsHold, MarkerCleared, RowsReplaced, RunningSteps, PreparedSteps,
       MarkedSteps
<1>6. RefreshBaseline' /\ DescriptorPublished'
    BY <1>1, <1>2 DEF RefreshBaseline, DescriptorPublished
<1>7. QED
    BY <1>3, <1>4, <1>5, <1>6 DEF CInv

\* The five comparisons of the final validation, each from where its sides came.
LEMMA ValidationPasses ==
    ASSUME IInv, CInv, pc = "commit"
    PROVE  CommitValid
<1>1. prep \in Prepared /\ pc \in RunningSteps
    BY DEF IInv, TypeOK, RunningSteps, PreparedSteps, MarkedSteps
<1>2. \A p \in Paths :
          rows[p] = IF prep.obs[p] = Absent THEN Absent
                    ELSE [c |-> prep.obs[p].c, t |-> prep.obs[p].t, og |-> prep.og]
    BY DEF CInv, RowsReplaced
<1>3. ASSUME NEW p \in Paths, prep.obs[p] # Absent
      PROVE  rows[p] # Absent /\ rows[p].c = prep.obs[p].c /\ rows[p].t = prep.obs[p].t
             /\ rows[p].og = prep.og
    <2>1. prep.obs[p].c \in Contents /\ prep.obs[p].t \in Nat
        BY <1>1, <1>3, ObsTyped, BoundsAssumption DEF Present
    <2>2. prep.og \in Nat
        BY <1>1, BoundsAssumption DEF Prepared
    <2>3. rows[p] = [c |-> prep.obs[p].c, t |-> prep.obs[p].t, og |-> prep.og]
        BY <1>2, <1>3
    <2>4. rows[p] \in [c : Contents, t : Nat, og : Nat]
        BY <2>1, <2>2, <2>3
    <2>5. QED
        BY <2>3, <2>4, SentinelAssumption
<1>4. Observed = prep.obs
    <2>1. ASSUME NEW p \in Paths PROVE Observed[p] = prep.obs[p]
        <3>1. CASE prep.obs[p] = Absent
            BY <1>2, <3>1 DEF Observed
        <3>2. CASE prep.obs[p] # Absent
            <4>1. prep.obs[p] \in File
                BY <1>1, <3>2 DEF Prepared, Snapshot
            <4>2. prep.obs[p] = [c |-> prep.obs[p].c, t |-> prep.obs[p].t]
                BY <4>1 DEF File
            <4>3. QED
                BY <1>3, <3>2, <4>2 DEF Observed
        <3>3. QED
            BY <3>1, <3>2
    <2>2. prep.obs \in [Paths -> File \union {Absent}]
        BY <1>1 DEF Prepared, Snapshot
    <2>3. QED
        BY <2>1, <2>2 DEF Observed
<1>5. \A p \in Present(rows) : rows[p].og = prep.og
    BY <1>2, <1>3 DEF Present
<1>6. IdsOf(chunks) = prep.ids
    <2>1. chunks = ContentOf(prep.obs)
        BY <1>4, ChunksExact DEF IInv, ArtifactInv
    <2>2. QED
        BY <1>1, <2>1 DEF CInv, IdsPrepared, RunningSteps
<1>7. ~marker
    BY DEF CInv, MarkerCleared
<1>8. manifest.mid = prep.mid
    BY DEF IInv, RunInv, ManifestWritten
<1>9. descriptor = prep.gen /\ descriptor # None
    BY <1>1, SentinelAssumption DEF CInv, DescriptorPublished, Prepared
<1>10. DescriptorReadable
    BY <1>9 DEF IInv, ArtifactInv, PublishedGenerationKept
<1>11. genIds[descriptor] = prep.ids
    BY <1>1, <1>9 DEF CInv, VectorsHold
<1>12. QED
    BY <1>4, <1>5, <1>6, <1>7, <1>8, <1>9, <1>10, <1>11
       DEF CommitValid, GraphValid, ObservationsBound, ArtifactsValid

LEMMA CommitReadyCommit ==
    ASSUME IInv, CInv, CommitReady
    PROVE  CInv'
<1>1. CommitValid /\ pc = "commit" /\ prep \in Prepared
    BY ValidationPasses DEF CommitReady, IInv, TypeOK, PreparedSteps, MarkedSteps
<1>2. /\ UNCHANGED <<descriptor, genIds, op, prep>> /\ pc' = "finalSweep"
      /\ binding' = [mid |-> prep.mid, og |-> prep.og, obs |-> prep.obs,
                     gen |-> prep.gen, ids |-> prep.ids]
    BY <1>1 DEF CommitReady, fileVars, runVars
<1>3. BindingIntact'
    BY <1>1, <1>2 DEF BindingIntact, CommitValid, ArtifactsValid
<1>4. IdsPrepared'
    BY <1>1, <1>2 DEF CInv, IdsPrepared, IdsOf, IdsIn, ContentOf, PreparedSteps, MarkedSteps
<1>5. /\ MarkerCleared' /\ RowsReplaced' /\ VectorsHold' /\ NewGenUnbound'
      /\ RefreshBaseline' /\ DescriptorPublished'
    BY <1>2 DEF MarkerCleared, RowsReplaced, VectorsHold, NewGenUnbound, RefreshBaseline,
       DescriptorPublished, RunningSteps
<1>6. QED
    BY <1>3, <1>4, <1>5 DEF CInv

LEMMA InitCInv == Init => CInv
BY DEF Init, CInv, MarkerCleared, RowsReplaced, IdsPrepared, VectorsHold, BindingIntact,
   NewGenUnbound, RefreshBaseline, DescriptorPublished, RunningSteps, PreparedSteps, MarkedSteps

LEMMA NextCInv ==
    ASSUME IInv, CInv, [Next]_vars
    PROVE  CInv'
<1>1. CASE Environment
    BY <1>1, EnvironmentCommit
<1>2. CASE StartIndex \/ StartRefresh
    BY <1>2, OpeningCommit
<1>3. CASE WriterStep
    <2>1. CASE \E g \in Gens : UnlinkOrphan(g)
        BY <2>1, UnlinkCommit
    <2>2. CASE SkipCleanup \/ BeginCleanup \/ RefuseCleanup \/ SweepDone \/ FinishRun
               \/ OpenInventory
        BY <2>2, OpeningCommit
    <2>3. CASE QuietRefresh \/ PrepareIndex \/ PrepareRefresh \/ FenceDrift
        BY <2>3, PreparationCommit
    <2>4. CASE CloseFence
        BY <2>4, CloseFenceCommit
    <2>5. CASE MaterializeVectors \/ MaterializeIds
        BY <2>5, MaterializeCommit
    <2>6. CASE MarkStale \/ ClearMarker \/ BeginBatch \/ CommitBatch
               \/ \E p \in Paths : DeleteFile(p)
        BY <2>6, PersistCommit
    <2>7. CASE ReplaceObservations
        BY <2>7, ReplaceObservationsCommit
    <2>8. CASE PublishDescriptor \/ PublishManifest
        BY <2>8, PublishCommit
    <2>9. CASE CommitReady
        BY <2>9, CommitReadyCommit
    <2>10. QED
        BY <1>3, <2>1, <2>2, <2>3, <2>4, <2>5, <2>6, <2>7, <2>8, <2>9 DEF WriterStep
<1>4. CASE UNCHANGED vars
    BY <1>4, OutsideCommit DEF vars, dbVars, fileVars, runVars
<1>5. QED
    BY <1>1, <1>2, <1>3, <1>4 DEF Next

-----------------------------------------------------------------------------
(* The theorems *)

\* What a run prepared, wrote and published agree from the preparation on.
THEOREM CommitInvariance == Spec => [](IInv /\ CInv)
<1>1. Init => IInv /\ CInv
    BY InitIInv, InitCInv
<1>2. IInv /\ CInv /\ [Next]_vars => (IInv /\ CInv)'
    BY NextIInv, NextCInv
<1>3. QED
    BY <1>1, <1>2, PTL DEF Spec

\* A run that reaches its final validation passes it, whatever index, partial
\* run or vector set it started from: the rejection branch is dead code as long
\* as nobody but a writer under the lock touches the artifacts.
THEOREM NeverRejected == Spec => []CommitNeverRejected
<1>1. IInv /\ CInv => CommitNeverRejected
    BY ValidationPasses DEF CommitNeverRejected
<1>2. QED
    BY <1>1, CommitInvariance, PTL

-----------------------------------------------------------------------------
(* The refinement *)

\* What the atomic index is about.
atomicVars == <<ws, Candidate, ReaderView, session # None>>

LEMMA ReaderViewKept ==
    ASSUME UNCHANGED <<graph, rows, chunks>>
    PROVE  ReaderView' = ReaderView
BY DEF ReaderView

\* Between the stale mark and the ready commit a query sees nothing.
LEMMA StaleView ==
    ASSUME graph # "ready", graph' # "ready"
    PROVE  ReaderView' = ReaderView /\ ReaderView = None
BY DEF ReaderView

LEMMA FencedCandidate ==
    ASSUME IInv, pc \in FencedSteps
    PROVE  Candidate = fence /\ Candidate # None
BY SnapshotAssumption DEF Candidate, IInv, TypeOK

\* The rows with their text, what a query reads of an index that is ready.
RowsText == [p \in Paths |-> IF rows[p] = Absent \/ chunks[p] = Absent THEN Absent
                             ELSE [c |-> chunks[p], t |-> rows[p].t]]

\* In every state that text is a whole snapshot, the one the rows describe.
LEMMA TextIsObserved ==
    ASSUME IInv
    PROVE  RowsText = Observed /\ RowsText \in Snapshot
<1>1. ASSUME NEW p \in Paths
      PROVE  RowsText[p] = Observed[p] /\ Observed[p] \in File \union {Absent}
    <2>1. chunks[p] = IF rows[p] = Absent THEN Absent ELSE rows[p].c
        BY DEF IInv, ArtifactInv, ChunksFollowRows
    <2>2. CASE rows[p] = Absent
        BY <2>1, <2>2 DEF RowsText, Observed
    <2>3. CASE rows[p] # Absent
        <3>1. rows[p] \in Row
            BY <2>3 DEF IInv, TypeOK
        <3>2. rows[p].c \in Contents /\ rows[p].t \in 0..MaxEdits
            BY <3>1 DEF Row
        <3>3. chunks[p] = rows[p].c /\ chunks[p] # Absent
            BY <2>1, <2>3, <3>2, SentinelAssumption
        <3>4. [c |-> rows[p].c, t |-> rows[p].t] \in File
            BY <3>2 DEF File
        <3>5. QED
            BY <2>3, <3>3, <3>4 DEF RowsText, Observed
    <2>4. QED
        BY <2>2, <2>3
<1>2. RowsText = Observed
    BY <1>1 DEF RowsText, Observed
<1>3. Observed \in Snapshot
    BY <1>1 DEF Observed, Snapshot
<1>4. QED
    BY <1>2, <1>3

LEMMA ReadyView ==
    ASSUME graph = "ready"
    PROVE  ReaderView = RowsText
BY DEF ReaderView, RowsText

LEMMA InitRefines == Init => Atomic!Init
BY DEF Init, Atomic!Init, Candidate, ReaderView, FencedSteps, MarkedSteps

-----------------------------------------------------------------------------
(* Every step is a step of the atomic index or none *)

\* The end of a run gives up what it had fixed and leaves the view alone.
LEMMA NoRunRefines ==
    ASSUME NoRun, UNCHANGED <<ws, session, graph, rows, chunks>>
    PROVE  Atomic!Discard
<1>1. Candidate' = None
    BY DEF NoRun, Candidate, FencedSteps, MarkedSteps
<1>2. ReaderView' = ReaderView
    BY ReaderViewKept
<1>3. QED
    BY <1>1, <1>2 DEF Atomic!Discard

\* A run that has not passed its fence has fixed nothing.
LEMMA UnfencedRefines ==
    ASSUME pc \notin FencedSteps, pc' \notin FencedSteps,
           UNCHANGED <<ws, session, graph, rows, chunks>>
    PROVE  UNCHANGED atomicVars
<1>1. Candidate' = Candidate
    BY DEF Candidate
<1>2. QED
    BY <1>1, ReaderViewKept DEF atomicVars

\* A fenced run keeps what it has fixed, and the view is kept or stays absent.
LEMMA FencedRefines ==
    ASSUME pc \in FencedSteps, pc' \in FencedSteps, UNCHANGED <<ws, fence, session>>,
           \/ UNCHANGED <<graph, rows, chunks>>
           \/ graph # "ready" /\ graph' # "ready"
    PROVE  UNCHANGED atomicVars
<1>1. Candidate' = Candidate
    BY DEF Candidate
<1>2. ReaderView' = ReaderView
    BY ReaderViewKept, StaleView
<1>3. QED
    BY <1>1, <1>2 DEF atomicVars

LEMMA EnvironmentRefines ==
    ASSUME IInv, Environment
    PROVE  Atomic!Next \/ UNCHANGED atomicVars
<1>1. CASE \E p \in Paths : Edit(p)
    <2>1. UNCHANGED <<graph, rows, chunks, pc, fence, session>>
        BY <1>1 DEF Edit, dbVars, runVars
    <2>2. Candidate' = Candidate /\ ReaderView' = ReaderView
        BY <2>1, ReaderViewKept DEF Candidate
    <2>3. CASE ws' = ws
        BY <2>1, <2>2, <2>3 DEF atomicVars
    <2>4. CASE ws' # ws
        <3>1. Atomic!Change
            BY <2>1, <2>2, <2>4 DEF Atomic!Change
        <3>2. QED
            BY <3>1 DEF Atomic!Next
    <2>5. QED
        BY <2>3, <2>4
<1>2. CASE OpenSession \/ CloseSession
    <2>1. UNCHANGED <<ws, graph, rows, chunks, pc, fence>>
        BY <1>2 DEF OpenSession, CloseSession, wsVars, dbVars, runVars
    <2>2. Candidate' = Candidate /\ ReaderView' = ReaderView
        BY <2>1, ReaderViewKept DEF Candidate
    <2>3. CASE OpenSession
        <3>1. ReaderView # None /\ session' # None
            <4>1. graph = "ready" /\ session' = binding.gen /\ binding # None
                BY <2>3 DEF OpenSession, IInv, ArtifactInv, ReadyBound, OperationalReadable
            <4>2. binding.gen \in Gens
                BY <4>1 DEF IInv, TypeOK, Bindings
            <4>3. QED
                BY <4>1, <4>2, ReadyView, TextIsObserved, SentinelAssumption, SnapshotAssumption
        <3>2. (session # None)' = TRUE
            BY <3>1
        <3>3. Atomic!BeginRead
            BY <2>1, <2>2, <3>1, <3>2 DEF Atomic!BeginRead
        <3>4. QED
            BY <3>3 DEF Atomic!Next
    <2>4. CASE CloseSession
        <3>1. (session # None)' = FALSE
            BY <2>4 DEF CloseSession
        <3>2. Atomic!EndRead
            BY <2>1, <2>2, <3>1 DEF Atomic!EndRead
        <3>3. QED
            BY <3>2 DEF Atomic!Next
    <2>5. QED
        BY <1>2, <2>3, <2>4
<1>3. CASE Crash
    BY <1>3, NoRunRefines DEF Crash, wsVars, dbVars, Atomic!Next
<1>4. QED
    BY <1>1, <1>2, <1>3 DEF Environment

\* Up to the fence a run is invisible.
LEMMA BeforeFenceRefines ==
    ASSUME \/ StartIndex \/ StartRefresh
           \/ SkipCleanup \/ BeginCleanup \/ RefuseCleanup \/ SweepDone \/ FinishRun
           \/ OpenInventory \/ QuietRefresh \/ PrepareIndex \/ PrepareRefresh \/ FenceDrift
           \/ \E g \in Gens : UnlinkOrphan(g)
    PROVE  Atomic!Next \/ UNCHANGED atomicVars
<1>1. UNCHANGED <<ws, session, graph, rows, chunks>>
    BY DEF StartIndex, StartRefresh, SkipCleanup, BeginCleanup, RefuseCleanup, SweepDone,
       FinishRun, OpenInventory, QuietRefresh, PrepareIndex, PrepareRefresh, FenceDrift,
       UnlinkOrphan, Keep, wsVars, dbVars
<1>2. CASE NoRun
    BY <1>1, <1>2, NoRunRefines DEF Atomic!Next
<1>3. CASE ~NoRun
    <2>1. /\ pc \in {"idle", "cleanup", "sweep", "inspect", "opened", "finalSweep"}
          /\ pc' \in {"cleanup", "sweep", "inspect", "opened", "prepared", "finalSweep"}
        BY <1>3 DEF StartIndex, StartRefresh, SkipCleanup, BeginCleanup, RefuseCleanup,
           SweepDone, FinishRun, OpenInventory, QuietRefresh, PrepareIndex, PrepareRefresh,
           FenceDrift, UnlinkOrphan
    <2>2. pc \notin FencedSteps /\ pc' \notin FencedSteps
        BY <2>1 DEF FencedSteps, MarkedSteps
    <2>3. QED
        BY <1>1, <2>2, UnfencedRefines
<1>4. QED
    BY <1>2, <1>3

LEMMA CloseFenceRefines ==
    ASSUME CloseFence
    PROVE  Atomic!Capture
<1>1. /\ UNCHANGED <<ws, session, graph, rows, chunks>>
      /\ pc = "prepared" /\ pc' \in {"materialize", "markStale"} /\ fence' = ws
    BY DEF CloseFence, Keep, wsVars, dbVars
<1>2. Candidate = None /\ Candidate' = ws
    BY <1>1 DEF Candidate, FencedSteps, MarkedSteps
<1>3. QED
    BY <1>1, <1>2, ReaderViewKept DEF Atomic!Capture

LEMMA MarkStaleRefines ==
    ASSUME IInv, MarkStale
    PROVE  Atomic!Withdraw
<1>1. /\ UNCHANGED <<ws, session, fence>> /\ session = None
      /\ pc = "markStale" /\ pc' = "clear" /\ graph' = "stale"
    BY DEF MarkStale, NoReader, wsVars, runVars
<1>2. Candidate' = Candidate /\ Candidate # None
    BY <1>1, FencedCandidate DEF Candidate, FencedSteps, MarkedSteps
<1>3. ReaderView' = None
    BY <1>1 DEF ReaderView
<1>4. QED
    BY <1>1, <1>2, <1>3 DEF Atomic!Withdraw

\* Batches, deletions, vector files and the two pointer files.
LEMMA FencedWorkRefines ==
    ASSUME IInv,
           \/ MaterializeVectors \/ MaterializeIds \/ ClearMarker \/ BeginBatch \/ CommitBatch
           \/ (\E p \in Paths : DeleteFile(p)) \/ ReplaceObservations
           \/ PublishDescriptor \/ PublishManifest
    PROVE  UNCHANGED atomicVars
<1>1. UNCHANGED <<ws, session, fence, graph>>
    BY DEF MaterializeVectors, MaterializeIds, ClearMarker, BeginBatch, CommitBatch, DeleteFile,
       ReplaceObservations, PublishDescriptor, PublishManifest, wsVars, dbVars, runVars
<1>2. pc \in FencedSteps /\ pc' \in FencedSteps
    BY DEF MaterializeVectors, MaterializeIds, ClearMarker, BeginBatch, CommitBatch, DeleteFile,
       ReplaceObservations, PublishDescriptor, PublishManifest, FencedSteps, MarkedSteps
<1>3. CASE MaterializeVectors \/ MaterializeIds
    <2>1. UNCHANGED <<graph, rows, chunks>>
        BY <1>3 DEF MaterializeVectors, MaterializeIds, dbVars
    <2>2. QED
        BY <1>1, <1>2, <2>1, FencedRefines
<1>4. CASE ~(MaterializeVectors \/ MaterializeIds)
    <2>1. graph = "stale"
        BY <1>4 DEF ClearMarker, BeginBatch, CommitBatch, DeleteFile, ReplaceObservations,
           PublishDescriptor, PublishManifest, IInv, RunInv, MarkedStale, MarkedSteps
    <2>2. QED
        BY <1>1, <1>2, <2>1, FencedRefines
<1>5. QED
    BY <1>3, <1>4

\* The commit publishes the whole candidate at once.
LEMMA CommitReadyRefines ==
    ASSUME IInv, CInv, CommitReady
    PROVE  Atomic!Publish
<1>1. CommitValid /\ pc = "commit" /\ graph = "stale" /\ session = None
    BY ValidationPasses DEF CommitReady, NoReader, IInv, RunInv, MarkedStale, MarkedSteps
<1>2. /\ graph' = "ready" /\ pc' = "finalSweep"
      /\ UNCHANGED <<ws, session, rows, chunks>>
    BY <1>1 DEF CommitReady, wsVars
<1>3. Candidate = fence /\ Candidate # None
    BY <1>1, FencedCandidate DEF FencedSteps, MarkedSteps
<1>4. Candidate' = None /\ ReaderView = None
    BY <1>1, <1>2 DEF Candidate, FencedSteps, MarkedSteps, ReaderView
<1>5. ReaderView' = fence
    <2>1. Observed = fence
        BY <1>1 DEF CommitValid, ObservationsBound, IInv, RunInv, FenceKept, PreparedSteps,
           MarkedSteps
    <2>2. ReaderView' = RowsText
        BY <1>2 DEF ReaderView, RowsText
    <2>3. QED
        BY <2>1, <2>2, TextIsObserved
<1>6. QED
    BY <1>2, <1>3, <1>4, <1>5 DEF Atomic!Publish

LEMMA StepRefines ==
    ASSUME IInv, CInv, [Next]_vars
    PROVE  Atomic!Next \/ UNCHANGED atomicVars
<1>1. CASE Environment
    BY <1>1, EnvironmentRefines
<1>2. CASE StartIndex \/ StartRefresh
    BY <1>2, BeforeFenceRefines
<1>3. CASE WriterStep
    <2>1. CASE \/ SkipCleanup \/ BeginCleanup \/ RefuseCleanup \/ SweepDone \/ FinishRun
               \/ OpenInventory \/ QuietRefresh \/ PrepareIndex \/ PrepareRefresh \/ FenceDrift
               \/ \E g \in Gens : UnlinkOrphan(g)
        BY <2>1, BeforeFenceRefines
    <2>2. CASE CloseFence
        BY <2>2, CloseFenceRefines DEF Atomic!Next
    <2>3. CASE MarkStale
        BY <2>3, MarkStaleRefines DEF Atomic!Next
    <2>4. CASE \/ MaterializeVectors \/ MaterializeIds \/ ClearMarker \/ BeginBatch
               \/ CommitBatch \/ (\E p \in Paths : DeleteFile(p)) \/ ReplaceObservations
               \/ PublishDescriptor \/ PublishManifest
        BY <2>4, FencedWorkRefines
    <2>5. CASE CommitReady
        BY <2>5, CommitReadyRefines DEF Atomic!Next
    <2>6. QED
        BY <1>3, <2>1, <2>2, <2>3, <2>4, <2>5 DEF WriterStep
<1>4. CASE UNCHANGED vars
    <2>1. Candidate' = Candidate /\ ReaderView' = ReaderView
        BY <1>4, ReaderViewKept DEF vars, dbVars, runVars, Candidate
    <2>2. QED
        BY <1>4, <2>1 DEF vars, wsVars, atomicVars
<1>5. QED
    BY <1>1, <1>2, <1>3, <1>4 DEF Next

-----------------------------------------------------------------------------
(* The theorem *)

\* Four artifacts that no transaction spans, written step by step by runs that
\* may die anywhere, behave to a query as one snapshot that is withdrawn and
\* replaced atomically, never under an open read, and always with the workspace
\* as it stood at the closing fence.
THEOREM Refinement == Spec => ImplementsAtomicIndex
<1>1. IInv /\ CInv /\ [Next]_vars => [Atomic!Next]_(Atomic!vars)
    BY StepRefines DEF Atomic!vars, atomicVars
<1>2. QED
    BY <1>1, InitRefines, CommitInvariance, PTL DEF Spec, ImplementsAtomicIndex, Atomic!Spec

-----------------------------------------------------------------------------
(***************************************************************************)
(* Theorems of BgeRollback, for any instance of the model.                 *)
(*                                                                         *)
(* The invariant of a run (Core) holds as long as no failure handler is at *)
(* work.  The handler has one of its own: what was captured is one whole   *)
(* index, every restoring step that is done shows in                       *)
(* the artifacts, and no captured file is lost before the commit.          *)
(***************************************************************************)

SavedObserved == [p \in Paths |->
    IF rollback.rows[p] = Absent THEN Absent
    ELSE [c |-> rollback.rows[p].c, t |-> rollback.rows[p].t]]

\* What was captured has its types ...
SavedTyped ==
    /\ rollback.graph = "ready" /\ rollback.full = FALSE
    /\ rollback.reason \in IndexReasons /\ rollback.marker \in BOOLEAN
    /\ rollback.rows \in [Paths -> Row \union {Absent}]
    /\ rollback.chunks \in [Paths -> Contents \union {Absent}]
    /\ rollback.binding \in Bindings /\ rollback.manifest \in Manifests
    /\ rollback.descriptor \in Gens
    /\ rollback.vecs \subseteq Gens /\ rollback.idfs \subseteq Gens

\* ... and is a ready index with all its files.
SavedReady ==
    /\ \A p \in Present(rollback.rows) : rollback.rows[p].og = rollback.binding.og
    /\ SavedObserved = rollback.binding.obs
    /\ IdsOf(rollback.chunks) = rollback.binding.ids
    /\ \A p \in Paths : rollback.chunks[p] =
           IF rollback.rows[p] = Absent THEN Absent ELSE rollback.rows[p].c
    /\ rollback.manifest.mid = rollback.binding.mid
    /\ rollback.manifest.og = rollback.binding.og
    /\ rollback.manifest.obs = rollback.binding.obs
    /\ rollback.manifest.gen = rollback.binding.gen
    /\ rollback.descriptor = rollback.binding.gen
    /\ rollback.descriptor \in rollback.vecs \cap rollback.idfs
    /\ rollback.genIds[rollback.descriptor] = rollback.binding.ids

Saved == rollback # None => SavedTyped /\ SavedReady

\* Only a run past its fence has something to roll back, and the handler only
\* restores what was captured.
HandlerShape ==
    /\ restore \in RestoreSteps \union {"off"}
    /\ rollback # None => pc \in PersistSteps
    /\ restore # "off" => pc \in PersistSteps
    /\ restore \notin {"off", "check"} => rollback # None

Running == restore = "off" => RunInv

\* Ready and files agree up to the first restoring step.
FilesTied == restore \in {"off", "check", "database"} /\ ~torn => ReadyBound

\* No captured file goes before the final sweep of a committed run.
CapturedKept == rollback # None /\ pc # "finalSweep" => Preserved

\* What each restoring step put back stays until the handler is done.
DatabaseBack ==
    restore \in {"descriptor", "manifest", "artifacts", "verify"} =>
        /\ graph = rollback.graph /\ full = rollback.full
        /\ rows = rollback.rows /\ chunks = rollback.chunks /\ binding = rollback.binding
DescriptorBack ==
    restore \in {"manifest", "artifacts", "verify"} => descriptor = rollback.descriptor
ManifestBack == restore \in {"artifacts", "verify"} => manifest = rollback.manifest
FilesBack == restore = "verify" => Preserved /\ NothingNew

\* A failure after the commit finds the prepared snapshot committed.
FinalCommitted ==
    pc = "finalSweep" => IF restore \in {"off", "check"} THEN PreparedCommitted ELSE undone

HandlerInv ==
    /\ Saved
    /\ HandlerShape
    /\ Running
    /\ FilesTied
    /\ CapturedKept
    /\ DatabaseBack
    /\ DescriptorBack
    /\ ManifestBack
    /\ FilesBack
    /\ FinalCommitted

BgeInv == TypeOK /\ DatabaseInv /\ HandlerInv /\ RestoringReaderLoads

-----------------------------------------------------------------------------
(* Initial states, queries and edits *)

LEMMA InitBgeInv == BgeInit => BgeInv
<1> SUFFICES ASSUME BgeInit PROVE BgeInv
    OBVIOUS
<1>1. Init /\ rollback = None /\ restore = "off" /\ torn = FALSE /\ undone = FALSE
    BY DEF BgeInit
<1>2. Core
    BY <1>1, InitCore
<1>3. ReadyBound /\ RestoringReaderLoads /\ pc = "idle"
    BY <1>1 DEF Init, ReadyBound, RestoringReaderLoads
<1>4. HandlerInv
    BY <1>1, <1>2, <1>3 DEF Core, HandlerInv, Saved, HandlerShape, Running, FilesTied, CapturedKept,
       DatabaseBack, DescriptorBack, ManifestBack, FilesBack, FinalCommitted
<1>5. QED
    BY <1>2, <1>3, <1>4 DEF BgeInv, Core

\* What depends on the database and the files alone stays with them.
LEMMA PredicatesUntouched ==
    ASSUME UNCHANGED <<dbVars, fileVars>>
    PROVE  /\ ReadyBound' <=> ReadyBound
           /\ UNCHANGED <<rollback, prep>> =>
                  /\ Preserved' <=> Preserved
                  /\ NothingNew' <=> NothingNew
                  /\ PreparedCommitted' <=> PreparedCommitted
BY DEF dbVars, fileVars, ReadyBound, OperationalReadable, BoundIdentityMatches,
       DescriptorReadable, Present, Observed, IdsOf, IdsIn, Preserved, NothingNew,
       PreparedCommitted

LEMMA SavedUntouched ==
    ASSUME Saved, UNCHANGED rollback
    PROVE  Saved'
BY DEF Saved, SavedTyped, SavedReady, SavedObserved, Present, IdsOf, IdsIn

LEMMA HandlerUntouched ==
    ASSUME HandlerInv,
           UNCHANGED <<dbVars, fileVars, pc, runVars, rollback, restore, histVars>>
    PROVE  HandlerInv'
<1>1. Saved' /\ Running'
    BY SavedUntouched, RunUntouched DEF HandlerInv, Running
<1>2. HandlerShape' /\ DatabaseBack' /\ DescriptorBack' /\ ManifestBack'
    BY DEF HandlerInv, HandlerShape, DatabaseBack, DescriptorBack, ManifestBack, dbVars, fileVars
<1>3. FilesTied' /\ CapturedKept' /\ FilesBack' /\ FinalCommitted'
    BY PredicatesUntouched DEF HandlerInv, FilesTied, CapturedKept, FilesBack, FinalCommitted,
       runVars, histVars
<1>4. QED
    BY <1>1, <1>2, <1>3 DEF HandlerInv

LEMMA ReaderUntouched ==
    ASSUME RestoringReaderLoads, UNCHANGED <<chunks, descriptor, vecs, idfs, genIds, session>>
    PROVE  RestoringReaderLoads'
BY DEF RestoringReaderLoads, DescriptorReadable, IdsOf, IdsIn

LEMMA UserBge ==
    ASSUME BgeInv, (\E p \in Paths : BgeEdit(p)) \/ BgeOpenSession \/ BgeCloseSession
    PROVE  BgeInv'
<1>1. (\E p \in Paths : Edit(p)) \/ OpenSession \/ CloseSession
    BY DEF BgeEdit, BgeOpenSession, BgeCloseSession
<1>2. TypeOK' /\ DatabaseInv'
    BY <1>1, UserStep DEF BgeInv
<1>3. UNCHANGED <<dbVars, fileVars, pc, runVars, rollback, restore, histVars>>
    BY DEF BgeEdit, BgeOpenSession, BgeCloseSession, Edit, OpenSession, CloseSession
<1>4. HandlerInv'
    BY <1>3, HandlerUntouched DEF BgeInv
<1>5. RestoringReaderLoads'
    <2>1. CASE \E p \in Paths : BgeEdit(p)
        BY <1>3, <2>1, ReaderUntouched DEF BgeEdit, Edit, BgeInv, dbVars, fileVars
    <2>2. CASE BgeOpenSession
        <3>1. OperationalReadable
            BY <2>2 DEF BgeOpenSession, OpenSession, BgeInv, DatabaseInv, ReadyOperational
        <3>2. session' = descriptor /\ DescriptorReadable /\ genIds[descriptor] = IdsOf(chunks)
            BY <2>2, <3>1 DEF BgeOpenSession, OpenSession, OperationalReadable
        <3>3. QED
            BY <1>3, <3>2 DEF RestoringReaderLoads, DescriptorReadable, IdsOf, IdsIn, dbVars,
               fileVars
    <2>3. CASE BgeCloseSession
        BY <2>3 DEF BgeCloseSession, CloseSession, RestoringReaderLoads
    <2>4. QED
        BY <2>1, <2>2, <2>3
<1>6. QED
    BY <1>2, <1>4, <1>5 DEF BgeInv

-----------------------------------------------------------------------------
(* The steps of a run *)

\* What is captured is a whole ready index.
LEMMA CaptureSaves ==
    ASSUME TypeOK, DatabaseInv, rollback' = Captured
    PROVE  Saved'
<1>1. CASE ~Capturable
    BY <1>1 DEF Captured, Saved
<1>2. CASE Capturable
    <2>1. /\ rollback'.graph = graph /\ rollback'.reason = reason /\ rollback'.full = full
          /\ rollback'.rows = rows /\ rollback'.chunks = chunks /\ rollback'.marker = marker
          /\ rollback'.binding = binding /\ rollback'.manifest = manifest
          /\ rollback'.descriptor = descriptor /\ rollback'.vecs = vecs
          /\ rollback'.idfs = idfs /\ rollback'.genIds = genIds
        BY <1>2 DEF Captured
    <2>2. graph = "ready" /\ full = FALSE
        BY <1>2 DEF Capturable, DatabaseInv, ReadyOperational, TypeOK
    <2>3. binding # None /\ manifest # None /\ descriptor # None
        BY <1>2 DEF Capturable, OperationalReadable, DescriptorReadable
    <2>4. SavedTyped'
        BY <2>1, <2>2, <2>3 DEF SavedTyped, TypeOK
    <2>5. SavedReady'
        <3>1. SavedObserved' = Observed
            BY <2>1 DEF SavedObserved, Observed
        <3>2. /\ OperationalReadable /\ DescriptorReadable /\ BoundIdentityMatches
              /\ genIds[descriptor] = IdsOf(chunks) /\ ChunksFollowRows
            BY <1>2 DEF Capturable, DatabaseInv
        <3>3. /\ \A p \in Present(rows) : rows[p].og = binding.og
              /\ Observed = binding.obs /\ IdsOf(chunks) = binding.ids
              /\ manifest.mid = binding.mid /\ manifest.og = binding.og
              /\ manifest.obs = binding.obs /\ manifest.gen = binding.gen
              /\ descriptor = binding.gen /\ descriptor \in vecs \cap idfs
            BY <3>2 DEF OperationalReadable, DescriptorReadable, BoundIdentityMatches
        <3>4. \A p \in Paths : chunks[p] = IF rows[p] = Absent THEN Absent ELSE rows[p].c
            BY <3>2 DEF ChunksFollowRows
        <3>5. IdsOf(rollback.chunks)' = IdsOf(chunks) /\ Present(rollback.rows)' = Present(rows)
            BY <2>1 DEF IdsOf, IdsIn, Present
        <3>6. QED
            BY <2>1, <3>1, <3>2, <3>3, <3>4, <3>5 DEF SavedReady
    <2>6. QED
        BY <2>4, <2>5, SMTT(40) DEF Saved
<1>3. QED
    BY <1>1, <1>2

\* A run never takes a file from an open read.
LEMMA WriterKeepsReader ==
    ASSUME Core, RestoringReaderLoads, StartIndex \/ StartRefresh \/ WriterStep
    PROVE  RestoringReaderLoads'
<1>1. CASE StartIndex \/ StartRefresh
    BY <1>1, ReaderUntouched DEF StartIndex, StartRefresh, Keep, dbVars, fileVars
<1>2. CASE \/ SkipCleanup \/ BeginCleanup \/ RefuseCleanup \/ SweepDone \/ FinishRun
           \/ OpenInventory \/ QuietRefresh \/ PrepareIndex \/ PrepareRefresh \/ FenceDrift
           \/ CloseFence
    BY <1>2, ReaderUntouched DEF SkipCleanup, BeginCleanup, RefuseCleanup, SweepDone, FinishRun,
       OpenInventory, QuietRefresh, PrepareIndex, PrepareRefresh, FenceDrift, CloseFence, Keep,
       dbVars, fileVars
<1>3. ASSUME NEW g \in Gens, UnlinkOrphan(g) PROVE RestoringReaderLoads'
    <2>1. UNCHANGED <<chunks, descriptor, session>>
        BY <1>3 DEF UnlinkOrphan, dbVars
    <2>2. descriptor # None => /\ descriptor \in vecs \cap idfs => descriptor \in vecs' \cap idfs'
                               /\ genIds'[descriptor] = genIds[descriptor]
        BY <1>3 DEF UnlinkOrphan, Core, TypeOK
    <2>3. QED
        BY <2>1, <2>2 DEF RestoringReaderLoads, DescriptorReadable, IdsOf, IdsIn
<1>4. CASE MaterializeVectors \/ MaterializeIds
    <2>1. pc = "materialize" /\ prep \in Prepared /\ prep.publish
        BY <1>4 DEF MaterializeVectors, MaterializeIds, Core, TypeOK, RunInv,
           MaterializePublishes, PreparedSteps
    <2>2. prep.gen # descriptor
        BY <2>1 DEF Core, RunInv, GenFresh
    <2>3. UNCHANGED <<chunks, descriptor, session>>
        BY <1>4 DEF MaterializeVectors, MaterializeIds, dbVars
    <2>4. descriptor # None => /\ descriptor \in vecs \cap idfs => descriptor \in vecs' \cap idfs'
                               /\ genIds'[descriptor] = genIds[descriptor]
        BY <1>4, <2>2 DEF MaterializeVectors, MaterializeIds, Core, TypeOK
    <2>5. QED
        BY <2>3, <2>4 DEF RestoringReaderLoads, DescriptorReadable, IdsOf, IdsIn
<1>5. CASE \/ MarkStale \/ ClearMarker \/ BeginBatch \/ CommitBatch
           \/ (\E p \in Paths : DeleteFile(p)) \/ ReplaceObservations \/ CommitReady
    <2>1. session = None /\ session' = session
        BY <1>5 DEF MarkStale, ClearMarker, BeginBatch, CommitBatch, DeleteFile, CommitReady,
           ReplaceObservations, NoReader
    <2>2. QED
        BY <2>1 DEF RestoringReaderLoads
<1>6. CASE PublishDescriptor \/ PublishManifest
    <2>1. session = None /\ session' = session
        BY <1>6 DEF PublishDescriptor, PublishManifest, Core, RunInv, MarkedStale, MarkedSteps,
           DatabaseInv, SessionReady
    <2>2. QED
        BY <2>1 DEF RestoringReaderLoads
<1>7. QED
    BY <1>1, <1>2, <1>3, <1>4, <1>5, <1>6 DEF WriterStep

\* A run past its fence stays there to its end.
LEMMA PersistStepsKept ==
    ASSUME Core, WriterStep, pc \in PersistSteps \union {"prepared"}
    PROVE  pc' \in PersistSteps \union {"idle"}
BY DEF WriterStep, PersistSteps, SkipCleanup, BeginCleanup, RefuseCleanup, UnlinkOrphan,
   SweepDone, FinishRun, OpenInventory, QuietRefresh, PrepareIndex, PrepareRefresh, CloseFence,
   FenceDrift, MaterializeVectors, MaterializeIds, MarkStale, ClearMarker, BeginBatch,
   CommitBatch, DeleteFile, ReplaceObservations, PublishDescriptor, PublishManifest,
   CommitReady, NoRun

\* Before its commit a run writes only files that were not there.
LEMMA CapturedFilesKept ==
    ASSUME Core, Preserved, WriterStep, UNCHANGED rollback,
           pc \in PersistSteps \ {"finalSweep"}
    PROVE  Preserved'
<1>1. CASE MaterializeVectors \/ MaterializeIds
    <2>1. pc = "materialize" /\ prep \in Prepared /\ prep.publish
        BY <1>1 DEF MaterializeVectors, MaterializeIds, Core, TypeOK, RunInv,
           MaterializePublishes, PreparedSteps
    <2>2. prep.gen \notin idfs
        BY <2>1 DEF Core, RunInv, GenFresh
    <2>3. vecs \subseteq vecs' /\ idfs \subseteq idfs' /\ idfs \subseteq Gens
        BY <1>1 DEF MaterializeVectors, MaterializeIds, Core, TypeOK
    <2>4. \A g \in Gens : g # prep.gen => genIds'[g] = genIds[g]
        BY <1>1 DEF MaterializeVectors, MaterializeIds, Core, TypeOK
    <2>5. QED
        BY <2>2, <2>3, <2>4 DEF Preserved
<1>2. CASE ~(MaterializeVectors \/ MaterializeIds)
    <2>1. UNCHANGED <<vecs, idfs, genIds>>
        BY <1>2 DEF WriterStep, PersistSteps, SkipCleanup, BeginCleanup, RefuseCleanup,
           UnlinkOrphan, SweepDone, FinishRun, OpenInventory, QuietRefresh, PrepareIndex,
           PrepareRefresh, CloseFence, FenceDrift, MarkStale, ClearMarker, BeginBatch,
           CommitBatch, DeleteFile, ReplaceObservations, PublishDescriptor, PublishManifest,
           CommitReady, Keep, fileVars, genVars
    <2>2. QED
        BY <2>1 DEF Preserved
<1>3. QED
    BY <1>1, <1>2

\* After the commit a sweep keeps what the handler would look for.
LEMMA CommitStaysPrepared ==
    ASSUME Core, WriterStep, pc' = "finalSweep", pc = "commit" => CommitValid,
           pc = "finalSweep" => PreparedCommitted
    PROVE  PreparedCommitted'
<1>1. pc \in {"commit", "finalSweep"}
    BY DEF WriterStep, SkipCleanup, BeginCleanup, RefuseCleanup, UnlinkOrphan,
       SweepDone, FinishRun, OpenInventory, QuietRefresh, PrepareIndex, PrepareRefresh,
       CloseFence, FenceDrift, MaterializeVectors, MaterializeIds, MarkStale, ClearMarker,
       BeginBatch, CommitBatch, DeleteFile, ReplaceObservations, PublishDescriptor,
       PublishManifest, CommitReady, NoRun
<1>2. CASE pc = "commit"
    <2>1. CommitReady
        BY <1>2 DEF WriterStep, SkipCleanup, BeginCleanup, RefuseCleanup, UnlinkOrphan,
           SweepDone, FinishRun, OpenInventory, QuietRefresh, PrepareIndex, PrepareRefresh,
           CloseFence, FenceDrift, MaterializeVectors, MaterializeIds, MarkStale, ClearMarker,
           BeginBatch, CommitBatch, DeleteFile, ReplaceObservations, PublishDescriptor,
           PublishManifest
    <2>2. /\ graph' = "ready" /\ UNCHANGED <<fileVars, prep>>
          /\ binding' = [mid |-> prep.mid, og |-> prep.og, obs |-> prep.obs,
                         gen |-> prep.gen, ids |-> prep.ids]
        BY <1>2, <2>1 DEF CommitReady, runVars
    <2>3. OperationalReadable'
        BY <2>1, <2>2, CommitReadyStep DEF Core, DatabaseInv, ReadyOperational
    <2>4. QED
        BY <1>2, <2>2, <2>3 DEF PreparedCommitted, CommitValid, ArtifactsValid,
           DescriptorReadable, fileVars
<1>3. CASE pc = "finalSweep"
    <2>1. PICK g \in Gens : UnlinkOrphan(g)
        BY <1>3 DEF WriterStep, SkipCleanup, BeginCleanup, RefuseCleanup,
           SweepDone, FinishRun, OpenInventory, QuietRefresh, PrepareIndex, PrepareRefresh,
           CloseFence, FenceDrift, MaterializeVectors, MaterializeIds, MarkStale, ClearMarker,
           BeginBatch, CommitBatch, DeleteFile, ReplaceObservations, PublishDescriptor,
           PublishManifest, CommitReady, NoRun
    <2>2. UNCHANGED <<dbVars, manifest, descriptor, prep>>
        BY <2>1 DEF UnlinkOrphan, runVars
    <2>3. DescriptorReadable => DescriptorReadable'
        BY <2>1 DEF UnlinkOrphan, DescriptorReadable
    <2>4. OperationalReadable => OperationalReadable'
        BY <2>2 DEF dbVars, OperationalReadable, Observed, Present, IdsOf, IdsIn
    <2>5. QED
        BY <1>3, <2>2, <2>3, <2>4 DEF PreparedCommitted, dbVars
<1>4. QED
    BY <1>1, <1>2, <1>3

\* A step of the run itself keeps everything, as long as no step failed.
LEMMA WriterBge ==
    ASSUME BgeInv, BgeStartIndex \/ BgeStartRefresh \/ BgeWriterStep
    PROVE  BgeInv'
<1>1. /\ restore = "off" /\ restore' = "off"
      /\ StartIndex \/ StartRefresh \/ WriterStep
    BY DEF BgeStartIndex, BgeStartRefresh, BgeWriterStep
<1>2. Core
    BY <1>1 DEF BgeInv, HandlerInv, Running, Core
<1>3. [Next]_vars
    BY <1>1 DEF Next
<1>4. Core' /\ FilesKept
    BY <1>2, <1>3, NextCore, NextFiles
<1>5. RestoringReaderLoads'
    BY <1>1, <1>2, WriterKeepsReader DEF BgeInv
<1>6. Saved /\ HandlerShape /\ FilesTied /\ CapturedKept /\ FinalCommitted
    BY DEF BgeInv, HandlerInv
<1>7. FilesTied'
    <2>1. ReadyBound \/ torn
        BY <1>1, <1>6 DEF FilesTied
    <2>2. CASE ReadyBound
        BY <2>2, <1>4 DEF FilesKept, FilesTied
    <2>3. CASE torn /\ ~ReadyBound
        <3>1. pc # "commit"
            BY <2>3, <1>2 DEF Core, RunInv, MarkedStale, MarkedSteps, ReadyBound
        <3>2. torn'
            BY <2>3, <3>1 DEF BgeStartIndex, BgeStartRefresh, BgeWriterStep, histVars
        <3>3. QED
            BY <3>2 DEF FilesTied
    <2>4. QED
        BY <2>1, <2>2, <2>3
<1>8. Running' /\ DatabaseBack' /\ DescriptorBack' /\ ManifestBack' /\ FilesBack'
    BY <1>1, <1>4 DEF Core, Running, DatabaseBack, DescriptorBack, ManifestBack, FilesBack
<1>9. Saved' /\ HandlerShape' /\ CapturedKept' /\ FinalCommitted'
    <2>1. CASE BgeStartIndex \/ BgeStartRefresh
        <3>1. pc = "idle" /\ pc' \in {"cleanup", "sweep"} /\ UNCHANGED rollback
            BY <2>1 DEF BgeStartIndex, BgeStartRefresh, StartIndex, StartRefresh
        <3>2. rollback = None
            BY <3>1, <1>6 DEF HandlerShape, PersistSteps
        <3>3. QED
            BY <1>1, <3>1, <3>2 DEF Saved, HandlerShape, CapturedKept, FinalCommitted
    <2>2. CASE BgeWriterStep
        <3>1. /\ WriterStep
              /\ pc = "commit" => CommitValid
              /\ rollback' = IF pc' = "idle" THEN None
                             ELSE IF pc = "prepared" THEN Captured ELSE rollback
            BY <2>2 DEF BgeWriterStep
        <3>2. Saved'
            <4>1. CASE rollback' = None
                BY <4>1 DEF Saved
            <4>2. CASE rollback' = Captured
                BY <4>2, CaptureSaves DEF BgeInv
            <4>3. CASE rollback' = rollback
                BY <4>3, <1>6, SavedUntouched
            <4>4. QED
                BY <3>1, <4>1, <4>2, <4>3
        <3>3. HandlerShape'
            <4>1. rollback' # None => pc' # "idle" /\ pc \in PersistSteps \union {"prepared"}
                BY <3>1, <1>6 DEF HandlerShape
            <4>2. rollback' # None => pc' \in PersistSteps
                BY <3>1, <4>1, <1>2, PersistStepsKept
            <4>3. QED
                BY <1>1, <4>2 DEF HandlerShape
        <3>4. CapturedKept'
            <4>1. SUFFICES ASSUME rollback' # None, pc' # "finalSweep" PROVE Preserved'
                BY DEF CapturedKept
            <4>2. pc' # "idle"
                BY <3>1, <4>1
            <4>3. CASE pc = "prepared"
                <5>1. rollback' = Captured /\ Captured # None
                    BY <3>1, <4>1, <4>2, <4>3
                <5>2. /\ rollback'.vecs = vecs /\ rollback'.idfs = idfs
                      /\ rollback'.genIds = genIds
                    BY <5>1 DEF Captured
                <5>3. UNCHANGED <<vecs, idfs, genIds>>
                    BY <3>1, <4>3 DEF WriterStep, SkipCleanup, BeginCleanup, RefuseCleanup,
                       UnlinkOrphan, SweepDone, FinishRun, OpenInventory, QuietRefresh,
                       PrepareIndex, PrepareRefresh, CloseFence, FenceDrift,
                       MaterializeVectors, MaterializeIds, MarkStale, ClearMarker,
                       BeginBatch, CommitBatch, DeleteFile, ReplaceObservations,
                       PublishDescriptor, PublishManifest, CommitReady, Keep, fileVars,
                       genVars
                <5>4. QED
                    BY <5>2, <5>3 DEF Preserved
            <4>4. CASE pc # "prepared"
                <5>1. rollback' = rollback /\ rollback # None /\ pc \in PersistSteps
                    BY <3>1, <4>1, <4>2, <4>4, <1>6 DEF HandlerShape
                <5>2. pc # "finalSweep"
                    BY <3>1, <4>1, <4>2 DEF WriterStep, SkipCleanup, BeginCleanup,
                       RefuseCleanup, UnlinkOrphan, SweepDone, FinishRun, OpenInventory,
                       QuietRefresh, PrepareIndex, PrepareRefresh, CloseFence, FenceDrift,
                       MaterializeVectors, MaterializeIds, MarkStale, ClearMarker,
                       BeginBatch, CommitBatch, DeleteFile, ReplaceObservations,
                       PublishDescriptor, PublishManifest, CommitReady, NoRun
                <5>3. Preserved
                    BY <5>1, <5>2, <1>6 DEF CapturedKept
                <5>4. QED
                    BY <1>2, <3>1, <5>1, <5>2, <5>3, CapturedFilesKept
            <4>5. QED
                BY <4>3, <4>4
        <3>5. FinalCommitted'
            <4>1. SUFFICES ASSUME pc' = "finalSweep" PROVE PreparedCommitted'
                BY <1>1 DEF FinalCommitted
            <4>2. pc = "finalSweep" => PreparedCommitted
                BY <1>1, <1>6 DEF FinalCommitted
            <4>3. QED
                BY <1>2, <3>1, <4>1, <4>2, CommitStaysPrepared
        <3>6. QED
            BY <3>2, <3>3, <3>4, <3>5
    <2>3. QED
        BY <2>1, <2>2
<1>10. QED
    BY <1>4, <1>5, <1>7, <1>8, <1>9 DEF BgeInv, HandlerInv, Core

-----------------------------------------------------------------------------
(* The steps of the failure handler *)

\* What an end of the run has to find.
LEMMA EndRunBge ==
    ASSUME EndRun, TypeOK', DatabaseInv', RestoringReaderLoads', ~torn' => ReadyBound'
    PROVE  BgeInv'
<1>1. pc' = "idle" /\ rollback' = None /\ restore' = "off"
    BY DEF EndRun, NoRun
<1>2. RunInv'
    BY <1>1 DEF RunInv, RunShape, PrepShape, FenceKept, MarkedStale, GenFresh, GenWritten,
       MaterializePublishes, ManifestWritten, UnwrittenAgree, DeletedAbsent, PreparedSteps,
       MarkedSteps
<1>3. HandlerInv'
    BY <1>1, <1>2 DEF HandlerInv, Saved, HandlerShape, Running, FilesTied, CapturedKept,
       DatabaseBack, DescriptorBack, ManifestBack, FilesBack, FinalCommitted
<1>4. QED
    BY <1>3 DEF BgeInv

\* The run ends and leaves the artifacts as they are.
LEMMA EndRunAsIs ==
    ASSUME BgeInv, EndRun, UNCHANGED <<wsVars, dbVars, fileVars, session>>,
           crashes' \in 0..MaxCrashes, ~torn' => ReadyBound
    PROVE  BgeInv'
<1>1. TypeOK'
    <2>1. NoWorkspace \in Snapshot
        BY DEF NoWorkspace, Snapshot
    <2>2. QED
        BY <2>1 DEF BgeInv, TypeOK, EndRun, NoRun, wsVars, dbVars, fileVars, Steps,
           PreparedSteps, MarkedSteps
<1>2. DatabaseInv'
    BY DatabaseUntouched DEF BgeInv
<1>3. RestoringReaderLoads'
    BY ReaderUntouched DEF BgeInv, dbVars, fileVars
<1>4. ~torn' => ReadyBound'
    BY PredicatesUntouched
<1>5. QED
    BY <1>1, <1>2, <1>3, <1>4, EndRunBge

\* A step of the handler that only decides what is next.
LEMMA DecisionStep ==
    ASSUME BgeInv, crashes' \in 0..MaxCrashes,
           UNCHANGED <<wsVars, dbVars, fileVars, runVars, pc, session, rollback, torn>>
    PROVE  /\ TypeOK' /\ DatabaseInv' /\ RestoringReaderLoads' /\ Saved'
           /\ ReadyBound' <=> ReadyBound
           /\ Preserved' <=> Preserved
           /\ NothingNew' <=> NothingNew
           /\ PreparedCommitted' <=> PreparedCommitted
<1>1. TypeOK'
    BY DEF BgeInv, TypeOK, wsVars, dbVars, fileVars, runVars
<1>2. DatabaseInv' /\ RestoringReaderLoads'
    BY DatabaseUntouched, ReaderUntouched DEF BgeInv, dbVars, fileVars
<1>3. Saved'
    BY SavedUntouched DEF BgeInv, HandlerInv
<1>4. QED
    BY <1>1, <1>2, <1>3, PredicatesUntouched DEF runVars

LEMMA SpendTyped ==
    ASSUME TypeOK, Spend
    PROVE  crashes' \in 0..MaxCrashes
BY BoundsAssumption DEF TypeOK, Spend

LEMMA FailBge ==
    ASSUME BgeInv, Fail
    PROVE  BgeInv'
<1>1. /\ restore = "off" /\ restore' = "check" /\ pc \in PersistSteps
      /\ UNCHANGED <<wsVars, dbVars, fileVars, runVars, pc, session, rollback, torn>>
      /\ crashes' \in 0..MaxCrashes
    BY SpendTyped DEF Fail, Persistence, histVars, BgeInv, TypeOK
<1>2. HandlerInv'
    BY <1>1, DecisionStep DEF BgeInv, HandlerInv, HandlerShape, RestoreSteps, Running,
       FilesTied, CapturedKept, DatabaseBack, DescriptorBack, ManifestBack, FilesBack,
       FinalCommitted
<1>3. QED
    BY <1>1, <1>2, DecisionStep DEF BgeInv

LEMMA CheckBge ==
    ASSUME BgeInv, CheckCommitted \/ CheckUnreadable
    PROVE  BgeInv'
<1>1. restore = "check" /\ pc \in PersistSteps /\ (~torn => ReadyBound)
      /\ (pc = "finalSweep" => PreparedCommitted)
    BY DEF CheckCommitted, CheckUnreadable, BgeInv, HandlerInv, HandlerShape, FilesTied,
       FinalCommitted
<1>2. CASE CheckCommitted /\ (rollback = None \/ PreparedCommitted)
    <2>1. /\ EndRun /\ UNCHANGED <<wsVars, dbVars, fileVars, session, torn>>
          /\ crashes' \in 0..MaxCrashes
        BY <1>2 DEF CheckCommitted, histVars, BgeInv, TypeOK
    <2>2. QED
        BY <1>1, <2>1, EndRunAsIs
<1>3. CASE CheckUnreadable \/ (CheckCommitted /\ ~(rollback = None \/ PreparedCommitted))
    <2>1. /\ restore' = "database" /\ rollback # None
          /\ UNCHANGED <<wsVars, dbVars, fileVars, runVars, pc, session, rollback, torn>>
          /\ crashes' \in 0..MaxCrashes
        BY <1>3, SpendTyped DEF CheckCommitted, CheckUnreadable, Persistence, histVars, BgeInv,
           TypeOK
    <2>2. pc = "finalSweep" => undone'
        BY <1>1, <1>3 DEF CheckCommitted, CheckUnreadable
    <2>3. HandlerInv'
        BY <1>1, <2>1, <2>2, DecisionStep DEF BgeInv, HandlerInv, HandlerShape, RestoreSteps,
           Running, FilesTied, CapturedKept, DatabaseBack, DescriptorBack, ManifestBack,
           FilesBack, FinalCommitted
    <2>4. QED
        BY <2>1, <2>3, DecisionStep DEF BgeInv
<1>4. QED
    BY <1>2, <1>3

\* The database of the captured index is a whole ready one.
LEMMA RestoreDatabaseBge ==
    ASSUME BgeInv, RestoreDatabase
    PROVE  BgeInv'
<1>1. /\ restore = "database" /\ restore' = "descriptor" /\ rollback # None
      /\ pc \in PersistSteps
      /\ graph' = rollback.graph /\ reason' = rollback.reason /\ full' = rollback.full
      /\ rows' = rollback.rows /\ chunks' = rollback.chunks
      /\ marker' = rollback.marker /\ binding' = rollback.binding
      /\ session = None
      /\ UNCHANGED <<wsVars, fileVars, runVars, pc, session, rollback, crashes, torn, undone>>
    BY DEF RestoreDatabase, Persistence, histVars, NoReader, BgeInv, HandlerInv, HandlerShape
<1>2. SavedTyped /\ SavedReady
    BY <1>1 DEF BgeInv, HandlerInv, Saved
<1>3. TypeOK'
    BY <1>1, <1>2 DEF SavedTyped, BgeInv, TypeOK, wsVars, fileVars, runVars
<1>4. ChunksFollowRows' /\ SessionReady'
    BY <1>1, <1>2 DEF ChunksFollowRows, SessionReady, SavedReady
<1>5. ReadyOperational'
    <2>1. binding' # None
        BY <1>1, <1>2, BindingAssumption DEF SavedTyped
    <2>2. Observed' = SavedObserved /\ Present(rows)' = Present(rollback.rows)
          /\ IdsOf(chunks)' = IdsOf(rollback.chunks)
        BY <1>1 DEF Observed, SavedObserved, Present, IdsOf, IdsIn
    <2>3. OperationalReadable'
        BY <1>1, <1>2, <2>1, <2>2 DEF OperationalReadable, SavedReady
    <2>4. QED
        BY <1>1, <1>2, <2>3 DEF ReadyOperational, SavedTyped
<1>6. Saved' /\ RestoringReaderLoads'
    BY <1>1, SavedUntouched DEF BgeInv, HandlerInv, RestoringReaderLoads
<1>7. CapturedKept'
    BY <1>1 DEF BgeInv, HandlerInv, CapturedKept, Preserved, fileVars
<1>8. HandlerInv'
    BY <1>1, <1>6, <1>7 DEF BgeInv, HandlerInv, HandlerShape, RestoreSteps, Running, FilesTied,
       DatabaseBack, DescriptorBack, ManifestBack, FilesBack, FinalCommitted
<1>9. QED
    BY <1>3, <1>4, <1>5, <1>6, <1>8 DEF BgeInv, DatabaseInv

\* Once the database is back, an open read is bound to the captured generation.
LEMMA RestoredReader ==
    ASSUME BgeInv, restore \in {"descriptor", "manifest", "artifacts", "verify"},
           session # None
    PROVE  session = rollback.descriptor /\ session = descriptor
BY DEF BgeInv, DatabaseInv, SessionReady, HandlerInv, HandlerShape, Saved, SavedReady,
   DatabaseBack, RestoringReaderLoads

LEMMA RestoreFilesBge ==
    ASSUME BgeInv, RestoreDescriptor \/ RestoreManifest
    PROVE  BgeInv'
<1>1. /\ restore \in {"descriptor", "manifest"} /\ rollback # None /\ pc \in PersistSteps
      /\ restore' = IF restore = "descriptor" THEN "manifest" ELSE "artifacts"
      /\ UNCHANGED <<wsVars, dbVars, genVars, runVars, pc, session, rollback, crashes, torn,
                     undone>>
    BY DEF RestoreDescriptor, RestoreManifest, Persistence, histVars, BgeInv, HandlerInv,
       HandlerShape
<1>2. /\ descriptor' = rollback.descriptor
      /\ manifest' = manifest \/ manifest' = rollback.manifest
      /\ restore = "manifest" => manifest' = rollback.manifest
    BY DEF RestoreDescriptor, RestoreManifest, BgeInv, HandlerInv, DescriptorBack
<1>3. SavedTyped /\ SavedReady
    BY <1>1 DEF BgeInv, HandlerInv, Saved
<1>4. TypeOK'
    BY <1>1, <1>2, <1>3 DEF SavedTyped, BgeInv, TypeOK, wsVars, dbVars, genVars, runVars
<1>5. DatabaseInv' /\ Saved'
    BY <1>1, DatabaseUntouched, SavedUntouched DEF BgeInv, HandlerInv
<1>6. RestoringReaderLoads'
    <2>1. CASE session = None
        BY <1>1, <2>1 DEF RestoringReaderLoads
    <2>2. CASE session # None
        <3>1. UNCHANGED <<chunks, descriptor, vecs, idfs, genIds, session>>
            BY <1>1, <1>2, <2>2, RestoredReader DEF dbVars, genVars
        <3>2. QED
            BY <3>1, ReaderUntouched DEF BgeInv
    <2>3. QED
        BY <2>1, <2>2
<1>7. CapturedKept'
    BY <1>1 DEF BgeInv, HandlerInv, CapturedKept, Preserved, genVars
<1>8. DatabaseBack'
    BY <1>1 DEF BgeInv, HandlerInv, DatabaseBack, dbVars
<1>9. HandlerInv'
    BY <1>1, <1>2, <1>5, <1>7, <1>8 DEF BgeInv, HandlerInv, HandlerShape, RestoreSteps,
       Running, FilesTied, DescriptorBack, ManifestBack, FilesBack, FinalCommitted
<1>10. QED
    BY <1>4, <1>5, <1>6, <1>9 DEF BgeInv

\* Removing new files takes none from the captured index or an open read.
LEMMA RemoveNewBge ==
    ASSUME BgeInv, NEW g \in Gens, RemoveNew(g)
    PROVE  BgeInv'
<1>1. /\ restore = "artifacts" /\ restore' = "artifacts" /\ rollback # None
      /\ pc \in PersistSteps /\ Preserved
      /\ UNCHANGED <<wsVars, dbVars, manifest, descriptor, runVars, pc, session, rollback,
                     crashes, torn, undone>>
    BY DEF RemoveNew, Persistence, histVars, BgeInv, HandlerInv, HandlerShape
<1>2. SavedTyped /\ SavedReady
    BY <1>1 DEF BgeInv, HandlerInv, Saved
<1>3. TypeOK'
    BY <1>1 DEF RemoveNew, BgeInv, TypeOK, wsVars, dbVars, runVars
<1>4. DatabaseInv' /\ Saved'
    BY <1>1, DatabaseUntouched, SavedUntouched DEF BgeInv, HandlerInv
<1>5. Preserved'
    BY <1>1, <1>2 DEF RemoveNew, Preserved, SavedTyped, BgeInv, TypeOK
<1>6. RestoringReaderLoads'
    <2>1. CASE session = None
        BY <1>1, <2>1 DEF RestoringReaderLoads
    <2>2. CASE session # None
        <3>1. session = rollback.descriptor /\ session = descriptor
            BY <1>1, <2>2, RestoredReader
        <3>2. session \in rollback.vecs \cap rollback.idfs
            BY <1>2, <3>1 DEF SavedReady
        <3>3. session \in vecs' \cap idfs' /\ genIds'[session] = genIds[session]
            BY <1>1, <1>5, <3>2 DEF Preserved
        <3>4. genIds[session] = IdsOf(chunks)
            BY <2>2 DEF BgeInv, RestoringReaderLoads
        <3>5. QED
            BY <1>1, <2>2, <3>1, <3>3, <3>4 DEF RestoringReaderLoads, DescriptorReadable, IdsOf,
               IdsIn, dbVars
    <2>3. QED
        BY <2>1, <2>2
<1>7. HandlerInv'
    BY <1>1, <1>4, <1>5 DEF BgeInv, HandlerInv, HandlerShape, RestoreSteps, Running, FilesTied,
       CapturedKept, DatabaseBack, DescriptorBack, ManifestBack, FilesBack, FinalCommitted, dbVars
<1>8. QED
    BY <1>3, <1>4, <1>6, <1>7 DEF BgeInv

LEMMA ArtifactsDoneBge ==
    ASSUME BgeInv, ArtifactsDone
    PROVE  BgeInv'
<1>1. /\ restore = "artifacts" /\ rollback # None /\ pc \in PersistSteps
      /\ restore' = IF Preserved /\ NothingNew THEN "verify" ELSE "mark"
      /\ UNCHANGED <<wsVars, dbVars, fileVars, runVars, pc, session, rollback, torn, undone>>
      /\ crashes' \in 0..MaxCrashes
    BY DEF ArtifactsDone, Persistence, histVars, BgeInv, TypeOK, HandlerInv, HandlerShape
<1>2. DatabaseBack' /\ DescriptorBack' /\ ManifestBack'
    BY <1>1 DEF BgeInv, HandlerInv, DatabaseBack, DescriptorBack, ManifestBack, dbVars, fileVars
<1>3. HandlerInv'
    BY <1>1, <1>2, DecisionStep DEF BgeInv, HandlerInv, HandlerShape, RestoreSteps, Running,
       FilesTied, CapturedKept, FilesBack, FinalCommitted
<1>4. QED
    BY <1>1, <1>3, DecisionStep DEF BgeInv

\* What the verification lets pass is a ready index bound to all its files.
LEMMA RestoredIsBound ==
    ASSUME BgeInv, rollback # None, Restored
    PROVE  ReadyBound
<1>1. SavedReady
    BY DEF BgeInv, HandlerInv, Saved
<1>2. OperationalReadable /\ DescriptorReadable /\ ~full
    BY DEF Restored, BgeInv, DatabaseInv, ReadyOperational
<1>3. BoundIdentityMatches
    BY <1>1 DEF Restored, SavedReady, BoundIdentityMatches
<1>4. genIds[descriptor] = IdsOf(chunks)
    BY <1>2 DEF Restored, OperationalReadable
<1>5. QED
    BY <1>2, <1>3, <1>4 DEF ReadyBound

\* Nothing of a restoration that came to its end is missing.
LEMMA VerifyFinds ==
    ASSUME BgeInv, restore = "verify"
    PROVE  Restored
<1>1. /\ graph = rollback.graph /\ rows = rollback.rows
      /\ chunks = rollback.chunks /\ binding = rollback.binding
      /\ descriptor = rollback.descriptor /\ manifest = rollback.manifest
      /\ Preserved /\ NothingNew
    BY DEF BgeInv, HandlerInv, DatabaseBack, DescriptorBack, ManifestBack, FilesBack
<1>2. SavedTyped /\ SavedReady
    BY DEF BgeInv, HandlerInv, HandlerShape, Saved
<1>3. graph = "ready" /\ OperationalReadable
    BY <1>1, <1>2 DEF SavedTyped, BgeInv, DatabaseInv, ReadyOperational
<1>4. DescriptorReadable
    <2>1. descriptor # None
        BY <1>1, <1>2, SentinelAssumption DEF SavedTyped
    <2>2. QED
        BY <1>1, <1>2, <2>1 DEF DescriptorReadable, SavedReady, Preserved
<1>5. genIds[descriptor] = rollback.binding.ids
    BY <1>1, <1>2 DEF SavedReady, Preserved
<1>6. QED
    BY <1>1, <1>3, <1>4, <1>5 DEF Restored

LEMMA VerifyBge ==
    ASSUME BgeInv, VerifyRestored
    PROVE  BgeInv'
<1>1. restore = "verify" /\ rollback # None
    BY DEF VerifyRestored, BgeInv, HandlerInv, HandlerShape
<1>2. Restored /\ ReadyBound
    BY <1>1, VerifyFinds, RestoredIsBound
<1>3. /\ EndRun /\ UNCHANGED <<wsVars, dbVars, fileVars, session>>
      /\ crashes' \in 0..MaxCrashes
    BY <1>2 DEF VerifyRestored, BgeInv, TypeOK
<1>4. QED
    BY <1>2, <1>3, EndRunAsIs

LEMMA RestoreFailsBge ==
    ASSUME BgeInv, RestoreFails
    PROVE  BgeInv'
<1>1. /\ restore \in RestoreSteps \ {"check", "mark"} /\ restore' = "mark" /\ rollback # None
      /\ pc \in PersistSteps
      /\ UNCHANGED <<wsVars, dbVars, fileVars, runVars, pc, session, rollback, torn, undone>>
      /\ crashes' \in 0..MaxCrashes
    BY SpendTyped DEF RestoreFails, RestoreSteps, Persistence, histVars, BgeInv, HandlerInv,
       HandlerShape
<1>2. HandlerInv'
    BY <1>1, DecisionStep DEF BgeInv, HandlerInv, HandlerShape, RestoreSteps, Running,
       FilesTied, CapturedKept, DatabaseBack, DescriptorBack, ManifestBack, FilesBack,
       FinalCommitted
<1>3. QED
    BY <1>1, <1>2, DecisionStep DEF BgeInv

\* The failed restoration is marked, the mark fails, or the process dies.
LEMMA LostRunBge ==
    ASSUME BgeInv, MarkReindexRequired \/ MarkFails \/ Die
    PROVE  BgeInv'
<1>1. CASE MarkReindexRequired
    <2>1. /\ graph' = "stale" /\ reason' = "bge_reindex_required" /\ full' = TRUE
          /\ session = None /\ session' = None /\ EndRun
          /\ UNCHANGED <<wsVars, rows, chunks, marker, binding, fileVars, crashes>>
        BY <1>1 DEF MarkReindexRequired, NoReader
    <2>2. TypeOK'
        <3>1. NoWorkspace \in Snapshot /\ reason' \in IndexReasons
            BY <2>1 DEF NoWorkspace, Snapshot, IndexReasons
        <3>2. QED
            BY <2>1, <3>1 DEF BgeInv, TypeOK, EndRun, NoRun, wsVars, fileVars, Steps,
               PreparedSteps, MarkedSteps
    <2>3. DatabaseInv'
        BY <2>1 DEF BgeInv, DatabaseInv, ChunksFollowRows, SessionReady, ReadyOperational
    <2>4. RestoringReaderLoads' /\ ReadyBound'
        BY <2>1 DEF RestoringReaderLoads, ReadyBound
    <2>5. QED
        BY <2>1, <2>2, <2>3, <2>4, EndRunBge
<1>2. CASE MarkFails
    <2>1. /\ EndRun /\ UNCHANGED <<wsVars, dbVars, fileVars, session>> /\ torn'
          /\ crashes' \in 0..MaxCrashes
        BY <1>2 DEF MarkFails, BgeInv, TypeOK
    <2>2. QED
        BY <2>1, EndRunAsIs
<1>3. CASE Die
    <2>1. /\ EndRun /\ UNCHANGED <<wsVars, dbVars, fileVars, session>>
          /\ crashes' \in 0..MaxCrashes
        BY <1>3, SpendTyped DEF Die, BgeInv
    <2>2. ~torn' => ReadyBound
        BY <1>3 DEF Die, BgeInv, HandlerInv, HandlerShape, FilesTied, RestoreSteps
    <2>3. QED
        BY <2>1, <2>2, EndRunAsIs
<1>4. QED
    BY <1>1, <1>2, <1>3

LEMMA NextBgeInv ==
    ASSUME BgeInv, [BgeNext]_bgeVars
    PROVE  BgeInv'
<1>1. CASE UNCHANGED bgeVars
    <2>1. /\ crashes' \in 0..MaxCrashes /\ UNCHANGED <<restore, histVars>>
          /\ UNCHANGED <<wsVars, dbVars, fileVars, runVars, pc, session, rollback, torn>>
        BY <1>1 DEF bgeVars, vars, histVars, BgeInv, TypeOK
    <2>2. HandlerInv'
        BY <2>1, HandlerUntouched DEF BgeInv
    <2>3. QED
        BY <2>1, <2>2, DecisionStep DEF BgeInv
<1>2. CASE (\E p \in Paths : BgeEdit(p)) \/ BgeOpenSession \/ BgeCloseSession
    BY <1>2, UserBge
<1>3. CASE BgeStartIndex \/ BgeStartRefresh \/ BgeWriterStep
    BY <1>3, WriterBge
<1>4. CASE Handler
    BY <1>4, CheckBge, RestoreDatabaseBge, RestoreFilesBge, RemoveNewBge, ArtifactsDoneBge,
       VerifyBge, LostRunBge DEF Handler
<1>5. CASE BgeFault
    BY <1>5, FailBge, CheckBge, RestoreFailsBge, LostRunBge DEF BgeFault
<1>6. QED
    BY <1>1, <1>2, <1>3, <1>4, <1>5 DEF BgeNext

THEOREM BgeInvariance == BgeSpec => []BgeInv
BY InitBgeInv, NextBgeInv, PTL DEF BgeSpec

-----------------------------------------------------------------------------
(* The properties of the runs *)

\* Whichever step of the run, of the restoration or of the mark failed: a database
\* that says ready outside the handler agrees with its files, unless the process
\* died between restoring steps.
THEOREM AtomicOnFailure == BgeSpec => []FailureAtomic
<1>1. ASSUME BgeInv PROVE FailureAtomic
    <2>1. SUFFICES ASSUME graph = "ready", restore = "off", ~torn
                   PROVE  ReadyBound /\ chunks = ContentOf(Observed)
        BY DEF FailureAtomic, ReadyBound
    <2>2. ReadyBound
        BY <1>1, <2>1 DEF BgeInv, HandlerInv, FilesTied
    <2>3. chunks = ContentOf(Observed)
        BY <1>1, ChunksExact DEF BgeInv, DatabaseInv
    <2>4. QED
        BY <2>2, <2>3
<1>2. QED
    BY <1>1, BgeInvariance, PTL

\* When the handler comes to remove the new files, all captured ones are there, and
\* when it comes to verify, what it reads is the captured index.
THEOREM RestorationIsComplete == BgeSpec => []RestorationComplete
<1>1. ASSUME BgeInv PROVE RestorationComplete
    <2>1. ASSUME restore = "artifacts", ~undone PROVE Preserved
        <3>1. rollback # None /\ pc # "finalSweep"
            BY <1>1, <2>1 DEF BgeInv, HandlerInv, HandlerShape, FinalCommitted
        <3>2. QED
            BY <1>1, <3>1 DEF BgeInv, HandlerInv, CapturedKept
    <2>2. QED
        BY <1>1, <2>1, VerifyFinds DEF RestorationComplete
<1>2. QED
    BY <1>1, BgeInvariance, PTL

\* A read that opens while the handler works, or on what it left, reads vectors and
\* text of one snapshot to its end.
THEOREM ReaderLoadsWhileRestoring == BgeSpec => []RestoringReaderLoads
<1>1. BgeInv => RestoringReaderLoads
    BY DEF BgeInv
<1>2. QED
    BY <1>1, BgeInvariance, PTL

\* No failure after the commit takes it back, as long as the artifacts are readable.
THEOREM CommitStays == BgeSpec => CommitIsFinal
<1> DEFINE kept == pc = "finalSweep" /\ ~undone' => binding' = binding /\ graph' = graph
<1>1. ASSUME BgeInv, [BgeNext]_bgeVars PROVE kept
    <2>1. SUFFICES ASSUME pc = "finalSweep", ~undone'
                   PROVE  UNCHANGED <<binding, graph>>
        OBVIOUS
    <2>2. CASE UNCHANGED bgeVars
        BY <2>2 DEF bgeVars, vars, dbVars
    <2>3. CASE \/ (\E p \in Paths : BgeEdit(p)) \/ BgeOpenSession \/ BgeCloseSession
               \/ BgeStartIndex \/ BgeStartRefresh
        BY <2>3 DEF BgeEdit, BgeOpenSession, BgeCloseSession, BgeStartIndex, BgeStartRefresh,
           Edit, OpenSession, CloseSession, StartIndex, StartRefresh, Keep, dbVars
    <2>4. CASE BgeWriterStep
        BY <2>1, <2>4 DEF BgeWriterStep, WriterStep, SkipCleanup, BeginCleanup, RefuseCleanup,
           UnlinkOrphan, SweepDone, FinishRun, OpenInventory, QuietRefresh, PrepareIndex,
           PrepareRefresh, CloseFence, FenceDrift, MaterializeVectors, MaterializeIds,
           MarkStale, ClearMarker, BeginBatch, CommitBatch, DeleteFile, ReplaceObservations,
           PublishDescriptor, PublishManifest, CommitReady, Keep, dbVars
    <2>5. CASE BgeFault \/ CheckCommitted \/ VerifyRestored
        BY <2>5 DEF BgeFault, Fail, CheckUnreadable, RestoreFails, MarkFails, Die,
           CheckCommitted, VerifyRestored, dbVars
    <2>6. CASE \/ RestoreDatabase \/ RestoreDescriptor \/ RestoreManifest
               \/ (\E g \in Gens : RemoveNew(g)) \/ ArtifactsDone \/ MarkReindexRequired
        <3>1. undone' = undone
            BY <2>6 DEF RestoreDatabase, RestoreDescriptor, RestoreManifest, RemoveNew,
               ArtifactsDone, MarkReindexRequired, Persistence, histVars
        <3>2. restore \in {"off", "check"}
            BY <1>1, <2>1, <3>1 DEF BgeInv, HandlerInv, FinalCommitted
        <3>3. QED
            BY <2>6, <3>2 DEF RestoreDatabase, RestoreDescriptor, RestoreManifest, RemoveNew,
               ArtifactsDone, MarkReindexRequired
    <2>7. QED
        BY <1>1, <2>2, <2>3, <2>4, <2>5, <2>6 DEF BgeNext, Handler
<1>2. BgeInv /\ [BgeNext]_bgeVars => [kept]_bgeVars
    BY <1>1
<1>3. QED
    BY <1>2, BgeInvariance, PTL DEF BgeSpec, CommitIsFinal

-----------------------------------------------------------------------------
(***************************************************************************)
(* Theorems of HealthInspection, for any instance of the model.            *)
(*                                                                         *)
(* A report says that something was so at one instant, although each       *)
(* artifact was read at a time of its own.  The argument: names are fresh, *)
(* one run at most publishes while an inspection looks, and each artifact   *)
(* has one step of a run that replaces it.  So an artifact that was seen   *)
(* either is as it was seen or is past that step, and then it never is     *)
(* again as it was seen (ManifestLost, DescriptorLost, DatabaseLost), which *)
(* the second look finds.                                                  *)
(***************************************************************************)
-----------------------------------------------------------------------------
(* What a writer keeps of names *)

\* The name of a run is new until its manifest, and then its binding, has it.
FreshMid ==
    pc \in RunningSteps =>
        /\ binding # None => prep.mid # binding.mid
        /\ pc # "commit" /\ manifest # None => prep.mid # manifest.mid

Tells(mf, b) == mf.og = b.og /\ mf.obs = b.obs /\ mf.gen = b.gen

\* A manifest with the name of the binding is the manifest of the binding.
NamesTell ==
    binding # None /\ manifest # None /\ manifest.mid = binding.mid => Tells(manifest, binding)

BindingIds == binding # None => binding.ids = IdsOf(ContentOf(binding.obs))

ArtifactsOrdered ==
    /\ manifest # None => graph # "none"
    /\ binding # None => manifest # None

\* A run writes a new vector set because a file differs from the binding, unless
\* it rebuilds everything; and it does not rebuild a ready index.
PublishDiffers ==
    pc \in RunningSteps /\ prep.publish /\ ~prep.force /\ binding # None =>
        prep.obs # binding.obs
ReadyUnforced ==
    pc \in {"prepared", "materialize", "markStale"} /\ graph = "ready" => ~prep.force

NameInv ==
    FreshMid /\ NamesTell /\ BindingIds /\ ArtifactsOrdered /\ PublishDiffers /\ ReadyUnforced

WriterInv == IInv /\ CInv /\ NameInv

-----------------------------------------------------------------------------
(* What was seen, and is so still or never again *)

\* The running writer is at one of these steps, or no run can start any more.
Reached(S) == pc \in S \/ (pc = "idle" /\ runsLeft = 0)
Marked     == Reached(MarkedSteps) \/ (pc = "materialize" /\ op = "index")

ManifestLost(m)   == manifest.mid # m /\ Reached({"commit", "finalSweep"})
DescriptorLost(d) == descriptor # d /\ Reached({"manifest", "commit", "finalSweep"})

\* A row that the run has written is not the bound one.
Rewritten ==
    \/ /\ pc \in {"write", "batch"}
       /\ \E p \in Paths \ (prep.todo \union prep.del) :
              Observed[p] = prep.obs[p] /\ prep.obs[p] # binding.obs[p]
    \/ /\ \/ Reached({"publish", "manifest", "commit"})
          \/ pc = "materialize" /\ op = "index"
       /\ ~OperationalReadable

DatabaseLost(m, g) ==
    IF binding.mid = m
    THEN \/ g = "ready" /\ graph = "stale" /\ Marked
         \/ Rewritten
    ELSE Reached({"finalSweep"})
DatabaseKept(m, g) == binding.mid = m /\ graph = g /\ OperationalReadable

SeenManifest(m)   == manifest.mid = m \/ ManifestLost(m)
SeenGeneration(d) == descriptor = d \/ DescriptorLost(d)
SeenDatabase(m, g) == binding # None /\ (DatabaseKept(m, g) \/ DatabaseLost(m, g))

-----------------------------------------------------------------------------
(* The phases of an inspection *)

Opened == step \in {"database", "descriptor"} /\ ~look.again
Looked == Inspecting /\ (look.again \/ step \notin {"manifest", "database", "descriptor"})
Closed == look.again \/ step = "writer"

FirstGood == first.manifest /\ first.sqlite /\ first.vector

Records ==
    /\ step \in InspectionSteps \union PreflightSteps \union {"off", "report"}
    /\ mode \in {"quick", "verified"}
    /\ look = [mf |-> look.mf, db |-> look.db, again |-> look.again]
    /\ look.again \in BOOLEAN
    /\ look.again => step \in {"manifest", "database", "descriptor", "quickManifest",
                               "quickDescriptor", "quickIdentity", "writer"}
    /\ step \in {"quickManifest", "quickDescriptor", "quickIdentity"} => look.again
    /\ step \in {"rawManifest", "database", "descriptor", "quickDescriptor",
                 "quickIdentity"} => look.mf \in Manifests
    /\ inv \in Snapshot /\ unread \subseteq Present(inv)
    /\ checks = [vectors |-> checks.vectors, changed |-> checks.changed,
                 inventory |-> checks.inventory, snapshot |-> checks.snapshot]
    /\ checks.vectors \in {"none", "valid", "invalid", "interrupted"}
    /\ checks.changed \subseteq Paths
    /\ checks.inventory \in BOOLEAN /\ checks.snapshot \in BOOLEAN
    /\ Inspecting /\ ~Looked => checks = NoChecks
    /\ truth = [intact |-> truth.intact, fresh |-> truth.fresh, ready |-> truth.ready]
    /\ truth.intact \in BOOLEAN /\ truth.fresh \in BOOLEAN /\ truth.ready \in BOOLEAN
    /\ step \in PreflightSteps => checks = NoChecks /\ truth.ready = FALSE
    /\ runsLeft \in {0, 1}
    /\ Inspecting \/ step \in PreflightSteps => manifest # None
    /\ Inspecting /\ pc # "idle" => runsLeft = 0

SeenRow == [graph : {"stale", "ready"}, reason : IndexReasons, binding : Bindings \union {None}]

\* What the database said, and what the manifest read before tells of it.
DatabaseRead ==
    /\ step = "database" /\ ~look.again /\ binding # None /\ look.mf.mid = binding.mid =>
           Tells(look.mf, binding)
    /\ step = "descriptor" =>
           /\ look.db \in SeenRow
           /\ look.db.binding # None => binding # None
    /\ step = "descriptor" /\ ~look.again /\ look.db.binding # None =>
           /\ look.mf.mid = look.db.binding.mid => Tells(look.mf, look.db.binding)
           /\ SeenDatabase(look.db.binding.mid, look.db.graph)
           /\ binding.mid = look.db.binding.mid => binding = look.db.binding

ManifestRead == Opened => manifest = look.mf \/ ManifestLost(look.mf.mid)

\* The graph was ready since the manifest was read, and no more.
NoLonger ==
    /\ graph = "stale" /\ Marked
    /\ pc # "idle" => ~prep.force
    /\ binding # None /\ binding.mid = look.mf.mid
    /\ \/ descriptor = binding.gen
       \/ ~OperationalReadable /\ Reached({"manifest", "commit"})
ReadyOnce ==
    /\ step = "manifest" /\ ~look.again => ~truth.ready
    /\ Inspecting /\ truth.ready => binding # None
    /\ Opened /\ truth.ready => graph = "ready" \/ NoLonger

FirstLook ==
    Looked =>
        /\ first.graph \in {"stale", "ready"} /\ first.gen \in Gens
        /\ first.manifest \in BOOLEAN /\ first.sqlite \in BOOLEAN /\ first.vector \in BOOLEAN
        /\ first.sqlite =>
               /\ SeenDatabase(first.mid, first.graph)
               /\ first.files \in Snapshot
               /\ binding.mid = first.mid =>
                      binding.obs = first.files /\ binding.ids = first.ids
        /\ FirstGood =>
               /\ SeenManifest(first.mid)
               /\ SeenGeneration(first.gen)
               /\ binding.mid = first.mid => binding.gen = first.gen

Token ==
    Looked /\ first.token # <<>> =>
        /\ first.sqlite /\ first.graph = "ready"
        /\ first.token[2].graph = "ready" /\ first.token[2].binding # None
        /\ first.token[2].binding.mid = first.mid
        /\ first.token[3] = first.gen
        /\ first.manifest <=> first.token[1].mid = first.mid
Shortened ==
    step \in {"quickManifest", "quickDescriptor", "quickIdentity"} => first.token # <<>>

-----------------------------------------------------------------------------
(* What the second look finds *)

\* A valid first look that a report may not trust.
Suspect ==
    \/ checks.vectors = "invalid"
    \/ /\ Closed
       /\ ~ /\ truth.intact
            /\ first.graph = "ready" /\ first.files = inv /\ checks.inventory => truth.fresh

ReadManifestSteps == {"quickDescriptor", "quickIdentity", "database", "descriptor"}
ManifestDiffers ==
    /\ ManifestLost(first.mid)
    /\ look.again /\ step \in ReadManifestSteps => look.mf.mid # first.mid
DescriptorDiffers ==
    /\ DescriptorLost(first.gen)
    /\ step = "quickIdentity" => look.db[1] # first.gen
RowDiffers ==
    \/ look.db.binding = None
    \/ look.db.binding.mid # first.mid
    \/ look.db.graph # first.graph
DatabaseDiffers ==
    IF look.again /\ step = "descriptor" THEN RowDiffers
    ELSE DatabaseLost(first.mid, first.graph)

\* After a first look without faults: whatever could make a report false is something
\* that the second look finds.
GoodLook ==
    Looked /\ FirstGood /\ Suspect =>
        IF step = "writer" THEN ~checks.snapshot
        ELSE ManifestDiffers \/ DescriptorDiffers \/ DatabaseDiffers

\* The manifest was read before its binding was there.
Outrun ==
    /\ ~first.manifest
    /\ manifest.mid = first.mid /\ binding.mid = first.mid /\ Reached({"finalSweep"})
    /\ look.again /\ step \in ReadManifestSteps => look.mf = manifest
    /\ look.again /\ step = "descriptor" => ManifestValid(look.mf, look.db)

\* The index was ready at some moment of the inspection.
WasReady == truth.ready \/ (graph = "ready" /\ ~DatabaseDone)

\* After a look with faults at an index that was ready, the second one differs too.
BadLook ==
    Looked /\ ~FirstGood /\ WasReady =>
        IF step = "writer" THEN ~checks.snapshot
        ELSE IF ~first.sqlite
        THEN binding # None /\ (look.again /\ step = "descriptor" => look.db.binding # None)
        ELSE DatabaseDiffers \/ Outrun

\* What was reported is true of the instant it is about.
Reported == ReportWasTrue /\ CorruptNeverReady /\ (step = "report" => report.health # "none")

HealthInv ==
    /\ Records
    /\ DatabaseRead
    /\ ManifestRead
    /\ ReadyOnce
    /\ FirstLook
    /\ Token
    /\ Shortened
    /\ GoodLook
    /\ BadLook
    /\ Reported

-----------------------------------------------------------------------------
(* The writer keeps NameInv *)

\* The parts of the writer's invariant that the proofs name, and the type of the plan.
LEMMA WriterTyped ==
    ASSUME WriterInv
    PROVE  /\ TypeOK /\ RunInv /\ IInv /\ CInv
           /\ pc \in PreparedSteps => prep \in Prepared
           /\ pc \in RunningSteps => prep \in Prepared
           /\ binding # None => binding \in Bindings
           /\ manifest # None => manifest \in Manifests
BY DEF WriterInv, IInv, TypeOK, RunningSteps

\* Nothing has a name before the first run.
LEMMA InitNames == Init => NameInv
BY DEF Init, NameInv, FreshMid, NamesTell, BindingIds, ArtifactsOrdered, PublishDiffers,
   ReadyUnforced, RunningSteps, PreparedSteps, MarkedSteps

\* What the artifacts tell of each other.
StillTold ==
    NamesTell /\ BindingIds /\ ArtifactsOrdered

\* A step that leaves manifest and binding alone keeps what they tell of each other.
LEMMA ToldUntouched ==
    ASSUME StillTold, UNCHANGED <<manifest, binding>>, graph' = graph \/ graph' = "stale"
    PROVE  StillTold'
BY DEF StillTold, NamesTell, BindingIds, ArtifactsOrdered, Tells, IdsOf, IdsIn, ContentOf

\* Outside a running plan only manifest and binding matter.
LEMMA UnpreparedNames ==
    ASSUME NameInv, UNCHANGED <<manifest, binding, graph>>,
           pc' \notin RunningSteps
    PROVE  NameInv'
<1>1. StillTold'
    BY ToldUntouched DEF NameInv, StillTold
<1>2. FreshMid' /\ PublishDiffers'
    BY DEF FreshMid, PublishDiffers
<1>3. ReadyUnforced'
    BY DEF ReadyUnforced, RunningSteps, PreparedSteps, MarkedSteps
<1>4. QED
    BY <1>1, <1>2, <1>3 DEF NameInv, StillTold

\* A run that goes on, before its manifest.
LEMMA RunningNames ==
    ASSUME NameInv, UNCHANGED <<manifest, binding>>,
           graph' = graph \/ graph' = "stale",
           pc \in RunningSteps, pc' \in RunningSteps, pc = "commit" => pc' = "commit",
           prep'.mid = prep.mid, prep'.publish = prep.publish, prep'.force = prep.force,
           prep'.obs = prep.obs,
           \/ pc' \notin {"prepared", "materialize", "markStale"}
           \/ pc \in {"prepared", "materialize", "markStale"}
           \/ graph' # "ready"
    PROVE  NameInv'
<1>1. StillTold'
    BY ToldUntouched DEF NameInv, StillTold
<1>2. FreshMid' /\ PublishDiffers'
    BY DEF NameInv, FreshMid, PublishDiffers
<1>3. ReadyUnforced'
    BY DEF NameInv, ReadyUnforced
<1>4. QED
    BY <1>1, <1>2, <1>3 DEF NameInv, StillTold

-----------------------------------------------------------------------------
(* The preparations *)

\* A changed or vanished file makes the opening inventory another one.
LEMMA ChangedDiffers ==
    ASSUME TypeOK, ContentChanged # {} \/ Deleted # {}
    PROVE  Observed # opening
<1>1. \A p \in Paths : opening[p] # Absent => opening[p].c \in Contents /\ opening[p].t \in Nat
    BY BoundsAssumption DEF TypeOK, Snapshot, File
<1>2. \A p \in Paths : rows[p] # Absent => rows[p].c \in Contents /\ rows[p].t \in Nat
    BY BoundsAssumption DEF TypeOK, Row
<1>3. \A p \in Paths : rows[p] # Absent => Observed[p] = [c |-> rows[p].c, t |-> rows[p].t]
                                           /\ Observed[p] # Absent
    BY <1>2, SentinelAssumption DEF Observed
<1>4. \A p \in Paths : rows[p] = Absent => Observed[p] = Absent
    BY DEF Observed
<1>5. CASE ContentChanged # {}
    <2>1. PICK p \in Paths : opening[p] # Absent /\ (rows[p] = Absent \/ rows[p].c # opening[p].c)
        BY <1>5 DEF ContentChanged, Present
    <2>2. CASE rows[p] = Absent
        BY <1>4, <2>1, <2>2
    <2>3. CASE rows[p] # Absent
        <3>1. Observed[p] = [c |-> rows[p].c, t |-> rows[p].t]
            BY <1>3, <2>3
        <3>2. Observed[p].c = rows[p].c
            BY <3>1
        <3>3. QED
            BY <2>1, <2>3, <3>2
    <2>4. QED
        BY <2>2, <2>3
<1>6. CASE Deleted # {}
    <2>1. PICK p \in Paths : rows[p] # Absent /\ opening[p] = Absent
        BY <1>6 DEF Deleted, Present
    <2>2. Observed[p] # opening[p]
        BY <1>3, <2>1
    <2>3. QED
        BY <2>2
<1>7. QED
    BY <1>5, <1>6

\* What the names and the reasons of a preparation are.
PreparedApart(p) ==
    /\ p.obs = opening
    /\ p.mid \in ManifestIds /\ p.mid \notin UsedManifestIds
    /\ p.publish /\ ~p.force /\ binding # None => p.obs # binding.obs
    /\ graph = "ready" => ~p.force

\* What Prepare puts together, field by field, and that its names are new.
LEMMA PrepareFields ==
    ASSUME TypeOK, NamesLeft, NEW ids, NEW vectorChanged, NEW force, NEW why,
           NEW unchanged, NEW todo, NEW del,
           NEW p, p = Prepare(ids, vectorChanged, force, why, unchanged, todo, del)
    PROVE  /\ p.obs = opening /\ p.publish = vectorChanged /\ p.force = force
           /\ p.mid \in ManifestIds /\ p.mid \notin UsedManifestIds
<1>1. /\ Fresh(ManifestIds, UsedManifestIds) \in ManifestIds
      /\ Fresh(ManifestIds, UsedManifestIds) \notin UsedManifestIds
    BY UsedNames, FreshIn DEF NamesLeft
<1>2. QED
    BY <1>1 DEF Prepare

\* A ready index gives no reason to rebuild everything.
LEMMA ReadyTrusted ==
    ASSUME IInv, graph = "ready"
    PROVE  ~ForceFullReindex
<1>1. /\ OperationalReadable /\ BoundIdentityMatches /\ DescriptorReadable
      /\ genIds[descriptor] = IdsOf(chunks) /\ ~full
    BY DEF IInv, ArtifactInv, ReadyBound
<1>2. VectorSnapshotValid
    BY <1>1 DEF VectorSnapshotValid
<1>3. ~OperationalIntegrityFailed /\ ~BindingIntegrityFailed
    BY <1>1, <1>2 DEF OperationalIntegrityFailed, BindingIntegrityFailed
<1>4. QED
    BY <1>1, <1>2, <1>3 DEF ForceFullReindex

\* The plan of an index run has names of its own and publishes only what differs.
LEMMA AuthoritativeApart ==
    ASSUME IInv, NamesLeft, NEW sources \in RelationSources
    PROVE  PreparedApart(PrepareAuthoritative(sources))
<1> DEFINE force   == ForceFullReindex
           todo    == AuthoritativeTodo(sources)
           fresh   == ContentOf(opening)
           revec   == IF force THEN todo
                      ELSE {p \in todo : p \in ContentChanged
                                         \/ IdsIn(chunks, {p}) # IdsIn(fresh, {p})}
           kept    == IF force THEN {}
                      ELSE genIds[descriptor] \ IdsIn(chunks, revec \union Deleted)
           quiet   == graph = "ready" /\ ~force /\ todo = {} /\ Deleted = {}
           changed == force \/ revec # {} \/ Deleted # {}
           ids     == kept \union IdsIn(fresh, revec)
           pp      == Prepare(ids, changed, force, AuthoritativeReason, quiet, todo, Deleted)
<1>1. TypeOK /\ todo \subseteq Present(opening) /\ todo \subseteq Paths
    BY PathSets DEF AuthoritativeTodo, IInv
<1>2. PrepareAuthoritative(sources) = pp
    BY DEF PrepareAuthoritative
<1>3. changed /\ ~force => ContentChanged # {} \/ Deleted # {}
    <2>1. SUFFICES ASSUME ~force, Deleted = {}, NEW p \in revec PROVE p \in ContentChanged
        OBVIOUS
    <2>2. p \in todo /\ (p \in ContentChanged \/ IdsIn(chunks, {p}) # IdsIn(fresh, {p}))
        BY <2>1
    <2>3. QED
        BY <1>1, <2>1, <2>2, UnchangedPath
<1>4. ~force /\ binding # None => Observed = binding.obs
    BY DEF ForceFullReindex, OperationalIntegrityFailed, OperationalReadable
<1>5. graph = "ready" => ~force
    BY ReadyTrusted
<1> HIDE DEF force, todo, fresh, revec, kept, quiet, changed, ids
<1>6. /\ pp.obs = opening /\ pp.publish = changed /\ pp.force = force
      /\ pp.mid \in ManifestIds /\ pp.mid \notin UsedManifestIds
    BY <1>1, PrepareFields
<1> HIDE DEF pp
<1>7. changed /\ ~force => Observed # opening
    BY <1>1, <1>3, ChangedDiffers
<1>8. QED
    BY <1>2, <1>4, <1>5, <1>6, <1>7 DEF PreparedApart

\* So has the plan of a refresh.
LEMMA QuickApart ==
    ASSUME IInv, NamesLeft, OperationalReadable, NEW sources \in RelationSources
    PROVE  PreparedApart(PrepareQuick(sources))
<1> DEFINE dependent == sources \union (IF graph = "stale" THEN NonEmpty(opening) ELSE {})
           removed   == IdsIn(chunks, ContentChanged \union Deleted)
           added     == IdsIn(ContentOf(opening), ContentChanged)
           ids       == (IdsOf(chunks) \ removed) \union added
           changed   == removed \union added # {}
           todo      == ContentChanged \union dependent
           no        == FALSE
           pp == Prepare(ids, changed, no, RefreshReason, no, todo, Deleted)
<1>1. TypeOK
    BY DEF IInv
<1>2. PrepareQuick(sources) = pp
    BY DEF PrepareQuick
<1>3. changed => ContentChanged # {} \/ Deleted # {}
    BY DEF IdsIn
<1>4. Observed = binding.obs
    BY DEF OperationalReadable
<1> HIDE DEF ids, changed, todo, removed, added, dependent
<1>5. /\ pp.obs = opening /\ pp.publish = changed /\ pp.force = FALSE
      /\ pp.mid \in ManifestIds /\ pp.mid \notin UsedManifestIds
    BY <1>1, PrepareFields
<1> HIDE DEF pp
<1>6. changed => Observed # opening
    BY <1>1, <1>3, ChangedDiffers
<1>7. QED
    BY <1>2, <1>4, <1>5, <1>6 DEF PreparedApart

\* A new plan keeps the invariant of names.
LEMMA PreparedNames ==
    ASSUME NameInv, TypeOK, UNCHANGED <<manifest, binding, graph>>, pc' = "prepared",
           PreparedApart(prep')
    PROVE  NameInv'
<1>1. StillTold'
    BY ToldUntouched DEF NameInv, StillTold
<1>2. FreshMid'
    BY DEF FreshMid, PreparedApart, UsedManifestIds
<1>3. PublishDiffers' /\ ReadyUnforced'
    BY DEF PublishDiffers, ReadyUnforced, PreparedApart
<1>4. QED
    BY <1>1, <1>2, <1>3 DEF NameInv, StillTold

\* Both preparations, and the runs that end there.
LEMMA PreparationNames ==
    ASSUME IInv, CInv, NameInv, QuietRefresh \/ PrepareIndex \/ PrepareRefresh \/ FenceDrift
    PROVE  NameInv'
<1>1. UNCHANGED <<manifest, binding, graph>> /\ TypeOK
    BY DEF QuietRefresh, PrepareIndex, PrepareRefresh, FenceDrift, Keep, dbVars, fileVars, IInv
<1>2. CASE QuietRefresh \/ FenceDrift
    BY <1>1, <1>2, UnpreparedNames
       DEF QuietRefresh, FenceDrift, NoRun, RunningSteps, PreparedSteps, MarkedSteps
<1>3. CASE PrepareIndex
    <2>1. PICK sources \in RelationSources : prep' = PrepareAuthoritative(sources)
        BY <1>3 DEF PrepareIndex
    <2>2. NamesLeft /\ pc' = "prepared"
        BY <1>3 DEF PrepareIndex
    <2>3. PreparedApart(prep')
        BY <2>1, <2>2, AuthoritativeApart
    <2>4. QED
        BY <1>1, <2>2, <2>3, PreparedNames
<1>4. CASE PrepareRefresh
    <2>1. pc = "opened" /\ op = "refresh" /\ NamesLeft
        BY <1>4 DEF PrepareRefresh
    <2>2. OperationalReadable
        BY <2>1 DEF IInv, RunInv, RunShape
    <2>3. PICK sources \in RelationSources :
              \/ NoRun
              \/ prep' = PrepareQuick(sources) /\ pc' = "prepared"
        BY <1>4 DEF PrepareRefresh
    <2>4. CASE NoRun
        BY <1>1, <2>4, UnpreparedNames DEF NoRun, RunningSteps, PreparedSteps, MarkedSteps
    <2>5. CASE prep' = PrepareQuick(sources) /\ pc' = "prepared"
        <3>1. PreparedApart(prep')
            BY <2>1, <2>2, <2>5, QuickApart
        <3>2. QED
            BY <1>1, <2>5, <3>1, PreparedNames
    <2>6. QED
        BY <2>3, <2>4, <2>5
<1>5. QED
    BY <1>2, <1>3, <1>4

-----------------------------------------------------------------------------
(* The other steps of a run *)

\* Edits, queries and deaths leave names alone.
LEMMA EnvironmentNames ==
    ASSUME IInv, NameInv, Environment
    PROVE  NameInv'
<1>1. CASE (\E p \in Paths : Edit(p)) \/ OpenSession \/ CloseSession
    <2>1. UNCHANGED <<manifest, binding, graph, pc, prep>>
        BY <1>1 DEF Edit, OpenSession, CloseSession, dbVars, fileVars, runVars
    <2>2. CASE pc \in RunningSteps
        BY <2>1, <2>2, RunningNames
    <2>3. CASE pc \notin RunningSteps
        BY <2>1, <2>3, UnpreparedNames
    <2>4. QED
        BY <2>2, <2>3
<1>2. CASE Crash
    BY <1>2, UnpreparedNames
       DEF Crash, NoRun, dbVars, fileVars, RunningSteps, PreparedSteps, MarkedSteps
<1>3. QED
    BY <1>1, <1>2 DEF Environment

\* So do the steps before a plan exists.
LEMMA OpeningNames ==
    ASSUME NameInv,
           \/ StartIndex \/ StartRefresh
           \/ SkipCleanup \/ BeginCleanup \/ RefuseCleanup
           \/ SweepDone \/ FinishRun
           \/ OpenInventory
    PROVE  NameInv'
<1>1. UNCHANGED <<manifest, binding, graph>>
    BY DEF StartIndex, StartRefresh, SkipCleanup, BeginCleanup, RefuseCleanup, SweepDone,
       FinishRun, OpenInventory, Keep, dbVars, fileVars
<1>2. pc' \in {"idle", "cleanup", "sweep", "inspect", "opened"}
    BY DEF StartIndex, StartRefresh, SkipCleanup, BeginCleanup, RefuseCleanup, SweepDone,
       FinishRun, OpenInventory, NoRun
<1>3. pc' \notin RunningSteps
    BY <1>2 DEF RunningSteps, PreparedSteps, MarkedSteps
<1>4. QED
    BY <1>1, <1>3, UnpreparedNames

\* A sweep removes files, not names.
LEMMA UnlinkNames ==
    ASSUME NameInv, NEW g \in Gens, UnlinkOrphan(g)
    PROVE  NameInv'
<1>1. UNCHANGED <<manifest, binding, graph, pc>> /\ pc \in {"sweep", "finalSweep"}
    BY DEF UnlinkOrphan, dbVars
<1>2. pc' \notin RunningSteps
    BY <1>1 DEF RunningSteps, PreparedSteps, MarkedSteps
<1>3. QED
    BY <1>1, <1>2, UnpreparedNames

\* The stale mark, the rows and the vector files.
LEMMA PersistNames ==
    ASSUME IInv, NameInv,
           \/ CloseFence \/ MaterializeVectors \/ MaterializeIds
           \/ MarkStale \/ ClearMarker \/ BeginBatch \/ CommitBatch
           \/ \E p \in Paths : DeleteFile(p)
           \/ ReplaceObservations \/ PublishDescriptor
    PROVE  NameInv'
<1>1. UNCHANGED <<manifest, binding>> /\ (graph' = graph \/ graph' = "stale")
    BY DEF CloseFence, MaterializeVectors, MaterializeIds, MarkStale, ClearMarker, BeginBatch,
       CommitBatch, DeleteFile, ReplaceObservations, PublishDescriptor, Keep, dbVars, fileVars
<1>2. pc \in {"prepared", "materialize", "markStale", "clear", "write", "batch", "publish"}
    BY DEF CloseFence, MaterializeVectors, MaterializeIds, MarkStale, ClearMarker, BeginBatch,
       CommitBatch, DeleteFile, ReplaceObservations, PublishDescriptor
<1>3. pc' \in {"materialize", "markStale", "clear", "write", "batch", "publish", "manifest"}
    BY <1>2 DEF CloseFence, MaterializeVectors, MaterializeIds, MarkStale, ClearMarker, BeginBatch,
       CommitBatch, DeleteFile, ReplaceObservations, PublishDescriptor
<1>4. prep \in Prepared
    BY <1>2 DEF IInv, TypeOK, PreparedSteps, MarkedSteps
<1>5. /\ prep'.mid = prep.mid /\ prep'.publish = prep.publish /\ prep'.force = prep.force
      /\ prep'.obs = prep.obs
    BY <1>4 DEF CloseFence, MaterializeVectors, MaterializeIds, MarkStale, ClearMarker,
       BeginBatch, CommitBatch, DeleteFile, ReplaceObservations, PublishDescriptor, Prepared,
       runVars
<1>6. pc \notin {"prepared", "materialize", "markStale"}
          /\ pc' \in {"prepared", "materialize", "markStale"} => graph' # "ready"
    <2>1. SUFFICES ASSUME pc \in MarkedSteps, pc' \in {"materialize", "markStale"}
                   PROVE  graph' # "ready"
        BY <1>2, <1>3 DEF MarkedSteps
    <2>2. graph = "stale"
        BY <2>1 DEF IInv, RunInv, MarkedStale
    <2>3. QED
        BY <1>1, <2>2
<1>7. pc \in RunningSteps /\ pc' \in RunningSteps /\ pc # "commit"
    BY <1>2, <1>3 DEF RunningSteps, PreparedSteps, MarkedSteps
<1>8. \/ pc' \notin {"prepared", "materialize", "markStale"}
      \/ pc \in {"prepared", "materialize", "markStale"}
      \/ graph' # "ready"
    BY <1>6
<1>9. QED
    BY <1>1, <1>5, <1>7, <1>8, RunningNames

\* The manifest takes the new name of the run.
LEMMA PublishManifestNames ==
    ASSUME IInv, NameInv, PublishManifest
    PROVE  NameInv'
<1>1. /\ pc = "manifest" /\ pc' = "commit" /\ UNCHANGED <<graph, binding, prep>>
      /\ manifest' = [mid |-> prep.mid, og |-> prep.og, obs |-> prep.obs, gen |-> prep.gen]
    BY DEF PublishManifest, dbVars, runVars
<1>2. prep \in Prepared
    BY <1>1 DEF IInv, TypeOK, PreparedSteps, MarkedSteps
<1>3. manifest' \in Manifests
    BY <1>1, <1>2 DEF Manifests, Prepared
<1>4. graph = "stale"
    BY <1>1 DEF IInv, RunInv, MarkedStale, MarkedSteps
<1>5. binding # None => prep.mid # binding.mid
    BY <1>1 DEF NameInv, FreshMid, RunningSteps, PreparedSteps, MarkedSteps
<1>6. FreshMid' /\ ReadyUnforced'
    BY <1>1, <1>5 DEF FreshMid, ReadyUnforced
<1>7. NamesTell' /\ ArtifactsOrdered'
    BY <1>1, <1>3, <1>4, <1>5, ManifestAssumption DEF NamesTell, ArtifactsOrdered
<1>8. BindingIds' /\ PublishDiffers'
    BY <1>1 DEF NameInv, BindingIds, PublishDiffers, IdsOf, IdsIn, ContentOf, RunningSteps,
       PreparedSteps, MarkedSteps
<1>9. QED
    BY <1>6, <1>7, <1>8 DEF NameInv

\* What a ready commit leaves, field by field.
LEMMA CommitFields ==
    ASSUME IInv, CInv, CommitReady
    PROVE  /\ pc = "commit" /\ pc' = "finalSweep" /\ graph' = "ready"
           /\ prep \in Prepared
           /\ UNCHANGED <<manifest, descriptor, rows, chunks, prep, op>>
           /\ binding' = [mid |-> prep.mid, og |-> prep.og, obs |-> prep.obs,
                          gen |-> prep.gen, ids |-> prep.ids]
           /\ manifest = [mid |-> prep.mid, og |-> prep.og, obs |-> prep.obs, gen |-> prep.gen]
           /\ prep.ids = IdsOf(ContentOf(prep.obs))
           /\ binding' \in Bindings /\ manifest \in Manifests
<1>1. CommitValid /\ pc = "commit" /\ prep \in Prepared
    BY ValidationPasses DEF CommitReady, IInv, TypeOK, PreparedSteps, MarkedSteps
<1>2. /\ UNCHANGED <<manifest, descriptor, rows, chunks, prep, op>>
      /\ pc' = "finalSweep" /\ graph' = "ready"
      /\ binding' = [mid |-> prep.mid, og |-> prep.og, obs |-> prep.obs,
                     gen |-> prep.gen, ids |-> prep.ids]
    BY <1>1 DEF CommitReady, fileVars, runVars
<1>3. manifest = [mid |-> prep.mid, og |-> prep.og, obs |-> prep.obs, gen |-> prep.gen]
    BY <1>1 DEF IInv, RunInv, ManifestWritten
<1>4. prep.ids = IdsOf(ContentOf(prep.obs))
    BY <1>1 DEF CInv, IdsPrepared, PreparedSteps, MarkedSteps
<1>5. binding' \in Bindings /\ manifest \in Manifests
    BY <1>1, <1>2, <1>3 DEF Bindings, Manifests, Prepared
<1>6. QED
    BY <1>1, <1>2, <1>3, <1>4, <1>5

\* The binding takes the name that the manifest has.
LEMMA CommitReadyNames ==
    ASSUME IInv, CInv, NameInv, CommitReady
    PROVE  NameInv'
<1>1. FreshMid' /\ PublishDiffers' /\ ReadyUnforced'
    BY CommitFields DEF FreshMid, PublishDiffers, ReadyUnforced, RunningSteps
<1>2. NamesTell' /\ ArtifactsOrdered'
    BY CommitFields, ManifestAssumption DEF NamesTell, ArtifactsOrdered, Tells
<1>3. BindingIds'
    <2>1. binding'.ids = IdsOf(ContentOf(prep.obs)) /\ binding'.obs = prep.obs
        BY CommitFields
    <2>2. QED
        BY <2>1 DEF BindingIds, IdsOf, IdsIn, ContentOf
<1>4. QED
    BY <1>1, <1>2, <1>3 DEF NameInv

\* Every step of the protocol keeps the invariant of names.
LEMMA NextNames ==
    ASSUME IInv, CInv, NameInv, [Next]_vars
    PROVE  NameInv'
<1>1. CASE Environment
    BY <1>1, EnvironmentNames
<1>2. CASE StartIndex \/ StartRefresh
    BY <1>2, OpeningNames
<1>3. CASE WriterStep
    <2>1. CASE \E g \in Gens : UnlinkOrphan(g)
        BY <2>1, UnlinkNames
    <2>2. CASE SkipCleanup \/ BeginCleanup \/ RefuseCleanup \/ SweepDone \/ FinishRun
               \/ OpenInventory
        BY <2>2, OpeningNames
    <2>3. CASE QuietRefresh \/ PrepareIndex \/ PrepareRefresh \/ FenceDrift
        BY <2>3, PreparationNames
    <2>4. CASE \/ CloseFence \/ MaterializeVectors \/ MaterializeIds
               \/ MarkStale \/ ClearMarker \/ BeginBatch \/ CommitBatch
               \/ \E p \in Paths : DeleteFile(p)
               \/ ReplaceObservations \/ PublishDescriptor
        BY <2>4, PersistNames
    <2>5. CASE PublishManifest
        BY <2>5, PublishManifestNames
    <2>6. CASE CommitReady
        BY <2>6, CommitReadyNames
    <2>7. QED
        BY <1>3, <2>1, <2>2, <2>3, <2>4, <2>5, <2>6 DEF WriterStep
<1>4. CASE UNCHANGED vars
    <2>1. UNCHANGED <<manifest, binding, graph, pc, prep>>
        BY <1>4 DEF vars, dbVars, fileVars, runVars
    <2>2. CASE pc \in RunningSteps
        BY <2>1, <2>2, RunningNames
    <2>3. CASE pc \notin RunningSteps
        BY <2>1, <2>3, UnpreparedNames
    <2>4. QED
        BY <2>2, <2>3
<1>5. QED
    BY <1>1, <1>2, <1>3, <1>4 DEF Next

\* The invariant of the writer is inductive on its own.
LEMMA NextWriter == WriterInv /\ [Next]_vars => WriterInv'
BY NextIInv, NextCInv, NextNames DEF WriterInv

-----------------------------------------------------------------------------
(* A step of the writer, as the inspection sees it *)

Early == {"cleanup", "sweep", "inspect", "opened", "prepared"}

\* A step that changes none of the artifacts' contents.
Quietly ==
    /\ UNCHANGED <<graph, rows, chunks, binding, manifest, descriptor>>
    /\ \/ UNCHANGED <<pc, op, prep, runsLeft>>
       \/ pc # "idle" /\ pc' = "idle" /\ runsLeft' = 0
       \/ /\ pc \in Early \/ (pc = "idle" /\ runsLeft # 0)
          /\ pc' \in Early \union {"markStale"} \/ (pc' = "materialize" /\ op' = "refresh")
       \/ /\ pc = "materialize" /\ UNCHANGED <<op, prep>>
          /\ pc' = IF op = "refresh" THEN "markStale" ELSE "publish"
       \/ /\ pc \in {"clear", "write"} /\ UNCHANGED <<op, prep>>
          /\ pc' = IF pc = "clear" THEN "write" ELSE "batch"

Rewriting == CommitBatch \/ (\E p \in Paths : DeleteFile(p)) \/ ReplaceObservations
Publishing == PublishDescriptor \/ PublishManifest \/ CommitReady

WriterMove ==
    /\ UNCHANGED <<step, mode, look, first, inv, unread, checks, report>>
    /\ truth' = Watched
    /\ Inspecting =>
        /\ runsLeft' \in {0, 1} /\ (pc' # "idle" => runsLeft' = 0)
        /\ Quietly \/ MarkStale \/ Rewriting \/ Publishing

\* Steps that touch no artifact a report is about, and no new run after the last.
LEMMA RunsQuietly ==
    ASSUME WriterInv, Inspecting /\ pc # "idle" => runsLeft = 0, Inspecting,
           UNCHANGED runsLeft,
           \/ SkipCleanup \/ BeginCleanup \/ RefuseCleanup
           \/ \E g \in Gens : UnlinkOrphan(g)
           \/ SweepDone \/ FinishRun
           \/ OpenInventory
           \/ QuietRefresh \/ PrepareIndex \/ PrepareRefresh
           \/ CloseFence \/ FenceDrift
           \/ MaterializeVectors \/ MaterializeIds
           \/ ClearMarker \/ BeginBatch
           \/ Crash \/ \E p \in Paths : Edit(p)
    PROVE  Quietly
<1>1. UNCHANGED <<graph, rows, chunks, binding, manifest, descriptor>>
    BY DEF SkipCleanup, BeginCleanup, RefuseCleanup, UnlinkOrphan, SweepDone, FinishRun,
       OpenInventory, QuietRefresh, PrepareIndex, PrepareRefresh, CloseFence, FenceDrift,
       MaterializeVectors, MaterializeIds, ClearMarker, BeginBatch, Crash, Edit, Keep,
       dbVars, fileVars
<1>2. CASE (\E g \in Gens : UnlinkOrphan(g)) \/ MaterializeVectors \/ \E p \in Paths : Edit(p)
    <2>1. UNCHANGED <<pc, op, prep, runsLeft>>
        BY <1>2 DEF UnlinkOrphan, MaterializeVectors, Edit, runVars
    <2>2. QED
        BY <1>1, <2>1 DEF Quietly
<1>3. CASE RefuseCleanup \/ FinishRun \/ QuietRefresh \/ FenceDrift \/ Crash
    <2>1. pc # "idle" /\ pc' = "idle"
        BY <1>3 DEF RefuseCleanup, FinishRun, QuietRefresh, FenceDrift, Crash, NoRun
    <2>2. runsLeft' = 0
        BY <2>1
    <2>3. QED
        BY <1>1, <2>1, <2>2 DEF Quietly
<1>4. CASE SkipCleanup \/ BeginCleanup \/ SweepDone \/ OpenInventory \/ PrepareIndex
    <2>1. pc \in Early /\ pc' \in Early
        BY <1>4 DEF SkipCleanup, BeginCleanup, SweepDone, OpenInventory, PrepareIndex, Early
    <2>2. QED
        BY <1>1, <2>1 DEF Quietly
<1>5. CASE PrepareRefresh
    <2>1. pc \in Early /\ pc # "idle" /\ (pc' = "prepared" \/ pc' = "idle")
        BY <1>5 DEF PrepareRefresh, NoRun, Early
    <2>2. CASE pc' = "idle"
        <3>1. runsLeft' = 0
            BY <2>1
        <3>2. QED
            BY <1>1, <2>1, <2>2, <3>1 DEF Quietly
    <2>3. CASE pc' = "prepared"
        BY <1>1, <2>1, <2>3 DEF Quietly, Early
    <2>4. QED
        BY <2>1, <2>2, <2>3
<1>6. CASE CloseFence
    <2>1. pc = "prepared" /\ UNCHANGED op
          /\ (pc' = "markStale" \/ (pc' = "materialize" /\ op = "refresh"))
        BY <1>6 DEF CloseFence
    <2>2. QED
        BY <1>1, <2>1 DEF Quietly, Early
<1>7. CASE MaterializeIds
    <2>1. pc = "materialize" /\ UNCHANGED <<op, prep>>
          /\ pc' = IF op = "refresh" THEN "markStale" ELSE "publish"
        BY <1>7 DEF MaterializeIds, runVars
    <2>2. QED
        BY <1>1, <2>1 DEF Quietly
<1>8. CASE ClearMarker \/ BeginBatch
    <2>1. pc \in {"clear", "write"} /\ UNCHANGED <<op, prep>>
          /\ pc' = IF pc = "clear" THEN "write" ELSE "batch"
        BY <1>8 DEF ClearMarker, BeginBatch, runVars
    <2>2. QED
        BY <1>1, <2>1 DEF Quietly
<1>9. QED
    BY <1>2, <1>3, <1>4, <1>5, <1>6, <1>7, <1>8

\* Every step beside an inspection is one of the moves of WriterMove.
LEMMA MoveCases ==
    ASSUME WriterInv, Records, StartRun \/ Others
    PROVE  WriterMove
<1>1. UNCHANGED <<step, mode, look, first, inv, unread, checks, report>> /\ truth' = Watched
    BY DEF StartRun, Others, Beside
<1>2. SUFFICES ASSUME Inspecting
               PROVE  /\ runsLeft' \in {0, 1} /\ (pc' # "idle" => runsLeft' = 0)
                      /\ Quietly \/ MarkStale \/ Rewriting \/ Publishing
    BY <1>1 DEF WriterMove
<1>3. runsLeft \in {0, 1} /\ (pc # "idle" => runsLeft = 0)
    BY <1>2 DEF Records
<1>4. CASE StartRun
    <2>1. runsLeft > 0 /\ runsLeft' = runsLeft - 1
        BY <1>2, <1>4 DEF StartRun
    <2>2. runsLeft = 1 /\ runsLeft' = 0
        BY <1>3, <2>1
    <2>3. pc = "idle" /\ pc' \in Early
          /\ UNCHANGED <<graph, rows, chunks, binding, manifest, descriptor>>
        BY <1>4 DEF StartRun, StartIndex, StartRefresh, Keep, dbVars, fileVars, Early
    <2>4. QED
        BY <2>2, <2>3 DEF Quietly
<1>5. CASE Others
    <2>1. UNCHANGED runsLeft
        BY <1>5 DEF Others
    <2>2. CASE MarkStale \/ Rewriting \/ Publishing
        <3>1. pc # "idle"
            BY <2>2 DEF MarkStale, Rewriting, Publishing, CommitBatch, DeleteFile,
               ReplaceObservations, PublishDescriptor, PublishManifest, CommitReady
        <3>2. QED
            BY <1>3, <2>1, <2>2, <3>1
    <2>3. CASE ~(MarkStale \/ Rewriting \/ Publishing)
        <3>1. Quietly
            BY <1>2, <1>3, <1>5, <2>1, <2>3, RunsQuietly
               DEF Others, WriterStep, Rewriting, Publishing
        <3>2. pc' # "idle" => runsLeft' = 0
            <4>1. SUFFICES ASSUME pc = "idle", pc' # "idle" PROVE FALSE
                BY <1>3, <2>1
            <4>2. (\E p \in Paths : Edit(p)) \/ Crash \/ WriterStep
                BY <1>5 DEF Others
            <4>3. UNCHANGED pc
                BY <2>3, <4>1, <4>2 DEF WriterStep, Edit, Crash, SkipCleanup, BeginCleanup, RefuseCleanup,
                   UnlinkOrphan, SweepDone, FinishRun, OpenInventory, QuietRefresh,
                   PrepareIndex, PrepareRefresh, CloseFence, FenceDrift, MaterializeVectors,
                   MaterializeIds, ClearMarker, BeginBatch, Rewriting, Publishing
            <4>4. QED
                BY <4>1, <4>3
        <3>3. QED
            BY <1>3, <2>1, <3>1, <3>2
    <2>4. QED
        BY <2>2, <2>3
<1>6. QED
    BY <1>4, <1>5

\* The rows, and what is read of them, when they do not change.
LEMMA ReadableKept ==
    ASSUME UNCHANGED <<rows, chunks, binding>>
    PROVE  Observed' = Observed /\ OperationalReadable' = OperationalReadable
BY DEF Observed, OperationalReadable, Present, IdsOf, IdsIn

-----------------------------------------------------------------------------
(* What was seen stays, or is lost for the rest of the inspection *)

\* The steps at which an artifact is replaced come once, in this order.
Orders == {{"commit", "finalSweep"}, {"manifest", "commit", "finalSweep"}, {"finalSweep"}}

\* Once a run has reached a late step, it stays past it while an inspection looks.
LEMMA ReachedStays ==
    ASSUME WriterInv, Records, Inspecting, WriterMove, NEW S \in Orders, Reached(S)
    PROVE  Reached(S)'
<1>1. runsLeft' \in {0, 1} /\ (pc' # "idle" => runsLeft' = 0)
      /\ (Quietly \/ MarkStale \/ Rewriting \/ Publishing)
    BY DEF WriterMove
<1>2. pc \in {"manifest", "commit", "finalSweep"} \/ (pc = "idle" /\ runsLeft = 0)
    BY DEF Orders, Reached
<1>3. CASE Quietly
    BY <1>2, <1>3 DEF Quietly, Early, Orders, Reached
<1>4. CASE MarkStale \/ Rewriting
    BY <1>2, <1>4 DEF MarkStale, Rewriting, CommitBatch, DeleteFile, ReplaceObservations
<1>5. CASE Publishing
    <2>1. pc = "publish" \/ (pc = "manifest" /\ pc' = "commit")
          \/ (pc = "commit" /\ pc' = "finalSweep")
        BY <1>5, CommitFields DEF Publishing, PublishDescriptor, PublishManifest, WriterInv
    <2>2. QED
        BY <1>2, <2>1 DEF Orders, Reached
<1>6. QED
    BY <1>1, <1>3, <1>4, <1>5

\* The sets of late steps that ReachedStays is used with.
LEMMA OrdersNamed ==
    /\ {"commit", "finalSweep"} \in Orders
    /\ {"manifest", "commit", "finalSweep"} \in Orders
    /\ {"finalSweep"} \in Orders
BY DEF Orders

\* Only a publication replaces the manifest.
LEMMA ManifestMoves ==
    ASSUME WriterInv, Records, Inspecting, WriterMove
    PROVE  manifest' = manifest \/ PublishManifest
<1>1. Quietly \/ MarkStale \/ Rewriting \/ Publishing
    BY DEF WriterMove
<1>2. QED
    BY <1>1 DEF Quietly, MarkStale, Rewriting, CommitBatch, DeleteFile, ReplaceObservations,
       Publishing, PublishDescriptor, CommitReady, fileVars

\* A manifest that was seen is there still or lost, and what is lost stays so.
LEMMA ManifestStep ==
    ASSUME WriterInv, Records, Inspecting, WriterMove, NEW m
    PROVE  /\ SeenManifest(m) => SeenManifest(m)'
           /\ ManifestLost(m) => ManifestLost(m)'
<1>1. Reached({"commit", "finalSweep"}) => Reached({"commit", "finalSweep"})'
    BY ReachedStays, OrdersNamed
<1>2. CASE manifest' = manifest
    BY <1>1, <1>2 DEF SeenManifest, ManifestLost
<1>3. CASE PublishManifest
    <2>1. pc = "manifest" /\ pc' = "commit"
        BY <1>3 DEF PublishManifest
    <2>2. ~Reached({"commit", "finalSweep"}) /\ Reached({"commit", "finalSweep"})'
        BY <2>1 DEF Reached
    <2>3. QED
        BY <2>2 DEF SeenManifest, ManifestLost
<1>4. QED
    BY <1>2, <1>3, ManifestMoves

\* So with the descriptor.
LEMMA DescriptorStep ==
    ASSUME WriterInv, Records, Inspecting, WriterMove, NEW d
    PROVE  /\ SeenGeneration(d) => SeenGeneration(d)'
           /\ DescriptorLost(d) => DescriptorLost(d)'
<1> DEFINE S == {"manifest", "commit", "finalSweep"}
<1>1. Reached(S) => Reached(S)'
    BY ReachedStays, OrdersNamed
<1>2. descriptor' = descriptor \/ PublishDescriptor
    <2>1. Quietly \/ MarkStale \/ Rewriting \/ Publishing
        BY DEF WriterMove
    <2>2. QED
        BY <2>1 DEF Quietly, MarkStale, Rewriting, CommitBatch, DeleteFile, ReplaceObservations,
           Publishing, PublishManifest, CommitReady, fileVars
<1>3. CASE descriptor' = descriptor
    BY <1>1, <1>3 DEF SeenGeneration, DescriptorLost
<1>4. CASE PublishDescriptor
    <2>1. pc = "publish" /\ pc' = "manifest"
        BY <1>4 DEF PublishDescriptor
    <2>2. ~Reached(S) /\ Reached(S)'
        BY <2>1 DEF Reached
    <2>3. QED
        BY <2>2 DEF SeenGeneration, DescriptorLost
<1>5. QED
    BY <1>2, <1>3, <1>4

\* A manifest that was read is the one on disk or was replaced under another name.
LEMMA ReadManifestStep ==
    ASSUME WriterInv, Records, Inspecting, WriterMove, NEW mf,
           manifest = mf \/ ManifestLost(mf.mid)
    PROVE  manifest' = mf \/ ManifestLost(mf.mid)'
<1>1. CASE manifest' = manifest
    BY <1>1, ManifestStep
<1>2. CASE PublishManifest
    <2>1. pc = "manifest" /\ pc' = "commit" /\ manifest'.mid = prep.mid
        BY <1>2 DEF PublishManifest
    <2>2. ~ManifestLost(mf.mid)
        BY <2>1 DEF ManifestLost, Reached
    <2>3. prep.mid # manifest.mid
        BY <2>1 DEF WriterInv, NameInv, FreshMid, RunningSteps, PreparedSteps, MarkedSteps, Records
    <2>4. Reached({"commit", "finalSweep"})'
        BY <2>1 DEF Reached
    <2>5. QED
        BY <2>1, <2>2, <2>3, <2>4 DEF ManifestLost
<1>3. QED
    BY <1>1, <1>2, ManifestMoves

-----------------------------------------------------------------------------
(* The database that was seen *)

\* Rows and observations are about the same files.
LEMMA ObservedRows ==
    ASSUME TypeOK, NEW p \in Paths
    PROVE  /\ rows[p] = Absent <=> Observed[p] = Absent
           /\ rows[p] # Absent => /\ rows[p] \in Row
                                  /\ Observed[p].c = rows[p].c /\ Observed[p].t = rows[p].t
<1>1. CASE rows[p] = Absent
    BY <1>1 DEF Observed
<1>2. CASE rows[p] # Absent
    <2>1. rows[p] \in Row /\ rows[p].c \in Contents /\ rows[p].t \in Nat
        BY <1>2, BoundsAssumption DEF TypeOK, Row
    <2>2. Observed[p] = [c |-> rows[p].c, t |-> rows[p].t]
        BY <1>2 DEF Observed
    <2>3. Observed[p] # Absent
        BY <2>1, <2>2, SentinelAssumption
    <2>4. QED
        BY <1>2, <2>1, <2>2, <2>3
<1>3. QED
    BY <1>1, <1>2

\* A row that is written as it was leaves the database as it was.
LEMMA SameRow ==
    ASSUME WriterInv, OperationalReadable, NEW p \in Paths, NEW o \in File, o = binding.obs[p]
    PROVE  rows[p] = [c |-> o.c, t |-> o.t, og |-> rows[p].og] /\ rows[p] # Absent
           /\ chunks[p] = o.c
<1>1. Observed[p] = o /\ TypeOK
    BY DEF OperationalReadable, WriterInv, IInv
<1>2. o # Absent
    <2>1. o.c \in Contents /\ o.t \in Nat /\ o = [c |-> o.c, t |-> o.t]
        BY BoundsAssumption DEF File
    <2>2. QED
        BY <2>1, SentinelAssumption
<1>3. rows[p] \in Row /\ o.c = rows[p].c /\ o.t = rows[p].t
    BY <1>1, <1>2, ObservedRows
<1>4. rows[p] = [c |-> rows[p].c, t |-> rows[p].t, og |-> rows[p].og]
    BY <1>3 DEF Row
<1>5. rows[p] # Absent
    BY <1>1, <1>2, ObservedRows
<1>6. chunks[p] = rows[p].c
    BY <1>5 DEF WriterInv, IInv, ArtifactInv, ChunksFollowRows
<1>7. QED
    BY <1>3, <1>4, <1>5, <1>6

\* A rewritten row unties the rows from the binding.
LEMMA RewrittenDiffers == binding # None /\ Rewritten => ~OperationalReadable
BY DEF Rewritten, OperationalReadable

\* A batch on readable rows changes nothing, or leaves a row that is not the bound one.
LEMMA CommitBatchRewrites ==
    ASSUME WriterInv, OperationalReadable, CommitBatch
    PROVE  UNCHANGED <<rows, chunks, binding>> \/ Rewritten'
<1>1. PICK B \in SUBSET prep.todo :
        /\ rows' = [p \in Paths |->
               IF p \notin B THEN rows[p]
               ELSE [c |-> prep.obs[p].c, t |-> prep.obs[p].t,
                     og |-> IF rows[p] = Absent THEN 0 ELSE rows[p].og]]
        /\ chunks' = [p \in Paths |-> IF p \in B THEN prep.obs[p].c ELSE chunks[p]]
        /\ prep' = [prep EXCEPT !.todo = @ \ B]
    BY DEF CommitBatch
<1>2. pc = "batch" /\ pc' = "write" /\ UNCHANGED <<binding, op>>
    BY DEF CommitBatch
<1>3. prep \in Prepared /\ prep.todo \subseteq Present(prep.obs)
      /\ \A p \in Paths \cap prep.del : prep.obs[p] = Absent
    BY <1>2 DEF WriterInv, IInv, TypeOK, RunInv, PrepShape, DeletedAbsent, PreparedSteps, MarkedSteps
<1>4. prep.obs \in Snapshot /\ B \subseteq Paths
    BY <1>3 DEF Prepared, Present
<1>5. \A p \in B : prep.obs[p] \in File /\ prep.obs[p] # Absent
    BY <1>3, <1>4 DEF Snapshot, Present
<1>6. CASE \A p \in B : prep.obs[p] = binding.obs[p]
    <2>1. \A p \in B : /\ rows[p] = [c |-> prep.obs[p].c, t |-> prep.obs[p].t, og |-> rows[p].og]
                       /\ rows[p] # Absent /\ chunks[p] = prep.obs[p].c
        BY <1>4, <1>5, <1>6, SameRow
    <2>2. \A p \in Paths : rows'[p] = rows[p] /\ chunks'[p] = chunks[p]
        BY <1>1, <2>1
    <2>3. rows \in [Paths -> Row \union {Absent}] /\ chunks \in [Paths -> Contents \union {Absent}]
        BY DEF WriterInv, IInv, TypeOK
    <2>4. rows' = rows
        BY <1>1, <2>2, <2>3
    <2>5. chunks' = chunks
        BY <1>1, <2>2, <2>3
    <2>6. QED
        BY <1>2, <2>4, <2>5
<1>7. CASE \E p \in B : prep.obs[p] # binding.obs[p]
    <2>1. PICK p \in B : prep.obs[p] # binding.obs[p]
        BY <1>7
    <2>2. p \in Paths /\ p \notin prep'.todo /\ p \notin prep'.del /\ prep'.obs = prep.obs
        BY <1>1, <1>3, <1>4, <1>5, <2>1 DEF Prepared
    <2>3. rows'[p] # Absent /\ rows'[p].c = prep.obs[p].c /\ rows'[p].t = prep.obs[p].t
        <3>1. TypeOK'
            BY NextWriter DEF WriterInv, IInv, Next, WriterStep
        <3>2. rows'[p] = [c |-> prep.obs[p].c, t |-> prep.obs[p].t,
                          og |-> IF rows[p] = Absent THEN 0 ELSE rows[p].og]
            BY <1>1, <1>4, <2>1
        <3>3. prep.obs[p].c \in Contents /\ prep.obs[p].t \in Nat
            BY <1>5, <2>1, BoundsAssumption DEF File
        <3>4. (IF rows[p] = Absent THEN 0 ELSE rows[p].og) \in Nat
            BY <2>2, BoundsAssumption DEF WriterInv, IInv, TypeOK, Row
        <3>5. rows'[p] \in [c : Contents, t : Nat, og : Nat]
            BY <3>2, <3>3, <3>4
        <3>6. QED
            BY <3>2, <3>5, SentinelAssumption
    <2>4. Observed'[p] = prep.obs[p]
        <3>1. Observed'[p] = [c |-> prep.obs[p].c, t |-> prep.obs[p].t]
            BY <2>2, <2>3 DEF Observed
        <3>2. QED
            BY <1>5, <2>1, <3>1 DEF File
    <2>5. QED
        BY <1>2, <2>1, <2>2, <2>4 DEF Rewritten
<1>8. QED
    BY <1>6, <1>7

\* So does the deletion of a file.
LEMMA DeleteFileRewrites ==
    ASSUME WriterInv, OperationalReadable, NEW p \in Paths, DeleteFile(p)
    PROVE  UNCHANGED <<rows, chunks, binding>> \/ Rewritten'
<1>1. /\ pc = "write" /\ pc' = "write" /\ UNCHANGED <<binding, op>>
      /\ prep.todo = {} /\ p \in prep.del
      /\ rows' = [rows EXCEPT ![p] = Absent] /\ chunks' = [chunks EXCEPT ![p] = Absent]
      /\ prep' = [prep EXCEPT !.del = @ \ {p}]
    BY DEF DeleteFile
<1>2. prep \in Prepared /\ prep.obs[p] = Absent
    BY <1>1 DEF WriterInv, IInv, TypeOK, RunInv, DeletedAbsent, PreparedSteps, MarkedSteps
<1>3. /\ rows \in [Paths -> Row \union {Absent}] /\ chunks \in [Paths -> Contents \union {Absent}]
      /\ TypeOK /\ Observed = binding.obs
      /\ chunks[p] = IF rows[p] = Absent THEN Absent ELSE rows[p].c
    BY DEF WriterInv, IInv, TypeOK, OperationalReadable, ArtifactInv, ChunksFollowRows
<1>4. CASE binding.obs[p] = Absent
    <2>1. rows[p] = Absent /\ chunks[p] = Absent
        BY <1>3, <1>4, ObservedRows
    <2>2. QED
        BY <1>1, <1>3, <2>1
<1>5. CASE binding.obs[p] # Absent
    <2>1. prep'.obs = prep.obs /\ prep'.todo = {} /\ p \notin prep'.del
        BY <1>1, <1>2 DEF Prepared
    <2>2. Observed'[p] = Absent
        BY <1>1, <1>3 DEF Observed
    <2>3. QED
        BY <1>1, <1>2, <1>5, <2>1, <2>2 DEF Rewritten
<1>6. QED
    BY <1>4, <1>5

\* Where a run stands when it writes rows.
LEMMA RewritingSteps ==
    ASSUME Rewriting
    PROVE  /\ pc \in {"write", "batch"}
           /\ pc' \in {"write", "publish"} \/ (pc' = "materialize" /\ op = "index")
           /\ UNCHANGED <<graph, binding, op, manifest, descriptor>>
BY DEF Rewriting, CommitBatch, DeleteFile, ReplaceObservations, fileVars, runVars

\* A row that the run has rewritten stays so until the end of the run.
LEMMA RewrittenKept ==
    ASSUME WriterInv, Rewriting, Rewritten
    PROVE  Rewritten'
<1>1. pc \in {"write", "batch"} /\ UNCHANGED <<binding, op>>
    BY RewritingSteps
<1>2. PICK q \in Paths \ (prep.todo \union prep.del) :
          Observed[q] = prep.obs[q] /\ prep.obs[q] # binding.obs[q]
    BY <1>1 DEF Rewritten, Reached
<1>3. prep \in Prepared
    BY <1>1 DEF WriterInv, IInv, TypeOK, PreparedSteps, MarkedSteps
<1>4. CASE CommitBatch
    <2>1. PICK B \in SUBSET prep.todo :
            /\ rows' = [p \in Paths |->
                   IF p \notin B THEN rows[p]
                   ELSE [c |-> prep.obs[p].c, t |-> prep.obs[p].t,
                         og |-> IF rows[p] = Absent THEN 0 ELSE rows[p].og]]
            /\ prep' = [prep EXCEPT !.todo = @ \ B]
        BY <1>4 DEF CommitBatch
    <2>2. rows'[q] = rows[q] /\ prep'.obs = prep.obs /\ q \notin prep'.todo /\ q \notin prep'.del
        BY <1>2, <1>3, <2>1 DEF Prepared
    <2>3. Observed'[q] = Observed[q] /\ pc' = "write"
        BY <1>2, <1>4, <2>2 DEF Observed, CommitBatch
    <2>4. QED
        BY <1>1, <1>2, <2>2, <2>3 DEF Rewritten
<1>5. ASSUME NEW p \in Paths, DeleteFile(p)
      PROVE  Rewritten'
    <2>1. /\ p \in prep.del /\ rows' = [rows EXCEPT ![p] = Absent] /\ pc' = "write"
          /\ prep' = [prep EXCEPT !.del = @ \ {p}]
          /\ rows \in [Paths -> Row \union {Absent}]
        BY <1>5 DEF DeleteFile, WriterInv, IInv, TypeOK
    <2>2. rows'[q] = rows[q] /\ prep'.obs = prep.obs /\ q \notin prep'.todo /\ q \notin prep'.del
        BY <1>2, <1>3, <2>1 DEF Prepared
    <2>3. Observed'[q] = Observed[q]
        BY <1>2, <2>2 DEF Observed
    <2>4. QED
        BY <1>1, <1>2, <2>1, <2>2, <2>3 DEF Rewritten
<1>6. CASE ReplaceObservations
    <2>1. /\ rows' = [p \in Paths |->
                 IF prep.obs[p] = Absent THEN Absent
                 ELSE [c |-> prep.obs[p].c, t |-> prep.obs[p].t, og |-> prep.og]]
          /\ pc' = "publish" \/ (pc' = "materialize" /\ op' = "index")
          /\ prep.todo = {} /\ prep.del = {}
        BY <1>1, <1>6 DEF ReplaceObservations
    <2>2. Observed'[q] = prep.obs[q]
        <3>1. prep.obs[q] \in File \union {Absent}
            BY <1>2, <1>3 DEF Prepared, Snapshot
        <3>2. CASE prep.obs[q] = Absent
            BY <1>2, <2>1, <3>2 DEF Observed
        <3>3. CASE prep.obs[q] # Absent
            <4>1. prep.obs[q] \in File /\ prep.og \in Nat
                BY <1>3, <3>1, <3>3, BoundsAssumption DEF Prepared
            <4>2. /\ prep.obs[q] = [c |-> prep.obs[q].c, t |-> prep.obs[q].t]
                  /\ prep.obs[q].c \in Contents /\ prep.obs[q].t \in Nat
                BY <4>1, BoundsAssumption DEF File
            <4>3. rows'[q] = [c |-> prep.obs[q].c, t |-> prep.obs[q].t, og |-> prep.og]
                BY <1>2, <2>1, <3>3
            <4>4. rows'[q] \in [c : Contents, t : Nat, og : Nat]
                BY <4>1, <4>2, <4>3
            <4>5. rows'[q] # Absent /\ rows'[q].c = prep.obs[q].c /\ rows'[q].t = prep.obs[q].t
                BY <4>3, <4>4, SentinelAssumption
            <4>6. QED
                BY <1>2, <4>2, <4>5 DEF Observed
        <3>4. QED
            BY <3>2, <3>3
    <2>3. ~OperationalReadable'
        BY <1>1, <1>2, <2>2 DEF OperationalReadable
    <2>4. QED
        BY <2>1, <2>3 DEF Rewritten, Reached
<1>7. QED
    BY <1>4, <1>5, <1>6 DEF Rewriting

\* A write transaction leaves the rows the bound ones, or never the bound ones again.
LEMMA RewritingRows ==
    ASSUME WriterInv, Rewriting, OperationalReadable
    PROVE  OperationalReadable' \/ Rewritten'
<1>1. CASE CommitBatch
    BY <1>1, CommitBatchRewrites, ReadableKept
<1>2. ASSUME NEW p \in Paths, DeleteFile(p)
      PROVE  OperationalReadable' \/ Rewritten'
    BY <1>2, DeleteFileRewrites, ReadableKept
<1>3. CASE ReplaceObservations
    <2>1. pc' = "publish" \/ (pc' = "materialize" /\ op' = "index")
        BY <1>3 DEF ReplaceObservations, runVars
    <2>2. QED
        BY <2>1 DEF Rewritten, Reached
<1>4. QED
    BY <1>1, <1>2, <1>3 DEF Rewriting

\* The steps that change neither rows nor binding.
LEMMA UnwrittenStep ==
    ASSUME WriterInv, Quietly \/ PublishDescriptor \/ PublishManifest, binding # None,
           NEW m, NEW g
    PROVE  /\ DatabaseKept(m, g) => DatabaseKept(m, g)'
           /\ binding.mid = m /\ DatabaseLost(m, g) => DatabaseLost(m, g)'
<1>1. UNCHANGED <<graph, rows, chunks, binding>>
    BY DEF Quietly, PublishDescriptor, PublishManifest, dbVars
<1>2. Observed' = Observed /\ OperationalReadable' = OperationalReadable
    BY <1>1, ReadableKept
<1>3. DatabaseKept(m, g) => DatabaseKept(m, g)'
    BY <1>1, <1>2 DEF DatabaseKept
<1>4. Rewritten => ~OperationalReadable
    BY RewrittenDiffers
<1>5. SUFFICES ASSUME binding.mid = m, (g = "ready" /\ graph = "stale" /\ Marked) \/ Rewritten
               PROVE  (Marked => Marked') /\ (Rewritten => Rewritten')
    BY <1>1, <1>3 DEF DatabaseLost
<1>6. CASE PublishDescriptor \/ PublishManifest
    <2>1. pc \in {"publish", "manifest"} /\ pc' \in {"manifest", "commit"}
        BY <1>6 DEF PublishDescriptor, PublishManifest
    <2>2. QED
        BY <1>2, <1>4, <2>1 DEF Marked, Rewritten, Reached, MarkedSteps
<1>7. CASE UNCHANGED <<pc, op, prep, runsLeft>>
    BY <1>1, <1>2, <1>7 DEF Marked, Rewritten, Reached
<1>8. CASE pc # "idle" /\ pc' = "idle" /\ runsLeft' = 0
    BY <1>2, <1>4, <1>8 DEF Marked, Rewritten, Reached
<1>9. CASE pc \in Early \/ (pc = "idle" /\ runsLeft # 0)
    BY <1>9 DEF Marked, Rewritten, Reached, Early, MarkedSteps
<1>10. CASE pc = "materialize" /\ UNCHANGED <<op, prep>>
            /\ pc' = IF op = "refresh" THEN "markStale" ELSE "publish"
    BY <1>2, <1>4, <1>10 DEF Marked, Rewritten, Reached, MarkedSteps
<1>11. CASE pc \in {"clear", "write"} /\ UNCHANGED <<op, prep>>
            /\ pc' = IF pc = "clear" THEN "write" ELSE "batch"
    BY <1>1, <1>2, <1>4, <1>11 DEF Marked, Rewritten, Reached, MarkedSteps
<1>12. QED
    BY <1>6, <1>7, <1>8, <1>9, <1>10, <1>11 DEF Quietly

\* The stale mark: a database seen ready is lost, one seen stale is as it was.
LEMMA MarkStaleDatabase ==
    ASSUME WriterInv, MarkStale, NEW m, NEW g \in {"stale", "ready"}
    PROVE  /\ DatabaseKept(m, g) => DatabaseKept(m, g)' \/ DatabaseLost(m, g)'
           /\ ~DatabaseLost(m, g)
<1>1. UNCHANGED <<rows, chunks, binding>> /\ pc = "markStale" /\ pc' = "clear" /\ graph' = "stale"
    BY DEF MarkStale
<1>2. OperationalReadable' = OperationalReadable
    BY <1>1, ReadableKept
<1>3. Marked' /\ ~Marked /\ ~Rewritten /\ ~Reached({"finalSweep"})
    BY <1>1 DEF Marked, Rewritten, Reached, MarkedSteps
<1>4. QED
    BY <1>1, <1>2, <1>3 DEF DatabaseKept, DatabaseLost

\* Rows written: the database seen is as it was or lost, and lost ones stay lost.
LEMMA RewritingDatabase ==
    ASSUME WriterInv, Rewriting, NEW m, NEW g
    PROVE  /\ DatabaseKept(m, g) => DatabaseKept(m, g)' \/ DatabaseLost(m, g)'
           /\ binding.mid = m /\ DatabaseLost(m, g) => DatabaseLost(m, g)'
<1>1. UNCHANGED <<graph, binding, op>>
    BY RewritingSteps
<1>2. Marked'
    BY RewritingSteps DEF Marked, Reached, MarkedSteps
<1>3. OperationalReadable => OperationalReadable' \/ Rewritten'
    BY RewritingRows
<1>4. Rewritten => Rewritten'
    BY RewrittenKept
<1>5. QED
    BY <1>1, <1>2, <1>3, <1>4 DEF DatabaseKept, DatabaseLost

\* The ready commit loses every database that was seen before it.
LEMMA CommitDatabase ==
    ASSUME WriterInv, CommitReady, NEW m, binding # None => binding.mid = m
    PROVE  binding' # None /\ (binding # None => binding'.mid # m) /\ Reached({"finalSweep"})'
<1>1. pc = "commit" /\ pc' = "finalSweep" /\ binding' \in Bindings /\ binding'.mid = prep.mid
    BY CommitFields DEF WriterInv
<1>2. binding # None => prep.mid # binding.mid
    BY <1>1 DEF WriterInv, NameInv, FreshMid, RunningSteps, PreparedSteps, MarkedSteps
<1>3. QED
    BY <1>1, <1>2, BindingAssumption DEF Reached

\* A database that was seen is there still or lost, and what is lost stays so.
LEMMA DatabaseStep ==
    ASSUME WriterInv, Records, Inspecting, WriterMove, binding # None,
           NEW m, NEW g \in {"stale", "ready"}
    PROVE  /\ binding' # None
           /\ SeenDatabase(m, g) => SeenDatabase(m, g)'
           /\ DatabaseLost(m, g) => DatabaseLost(m, g)'
<1>1. Quietly \/ MarkStale \/ Rewriting \/ PublishDescriptor \/ PublishManifest \/ CommitReady
    BY DEF WriterMove, Publishing
<1>2. Reached({"finalSweep"}) => Reached({"finalSweep"})'
    BY ReachedStays, OrdersNamed
<1>3. CASE CommitReady
    <2>1. CASE binding.mid = m
        BY <1>3, <2>1, CommitDatabase DEF SeenDatabase, DatabaseLost
    <2>2. CASE binding.mid # m
        <3>1. pc = "commit"
            BY <1>3 DEF CommitReady
        <3>2. ~DatabaseLost(m, g) /\ ~DatabaseKept(m, g)
            BY <2>2, <3>1 DEF DatabaseLost, DatabaseKept, Reached
        <3>3. binding' # None
            BY <1>3, CommitFields, BindingAssumption DEF WriterInv
        <3>4. QED
            BY <3>2, <3>3 DEF SeenDatabase
    <2>3. QED
        BY <2>1, <2>2
<1>4. CASE ~CommitReady
    <2>1. UNCHANGED binding
        BY <1>1, <1>4 DEF Quietly, MarkStale, Rewriting, CommitBatch, DeleteFile,
           ReplaceObservations, PublishDescriptor, PublishManifest, dbVars
    <2>2. DatabaseKept(m, g) => DatabaseKept(m, g)' \/ DatabaseLost(m, g)'
        BY <1>1, <1>4, UnwrittenStep, MarkStaleDatabase, RewritingDatabase
    <2>3. binding.mid = m /\ DatabaseLost(m, g) => DatabaseLost(m, g)'
        BY <1>1, <1>4, UnwrittenStep, MarkStaleDatabase, RewritingDatabase
    <2>4. binding.mid # m /\ DatabaseLost(m, g) => DatabaseLost(m, g)'
        BY <1>2, <2>1 DEF DatabaseLost
    <2>5. QED
        BY <2>1, <2>2, <2>3, <2>4 DEF SeenDatabase
<1>5. QED
    BY <1>3, <1>4

-----------------------------------------------------------------------------
(* A writer's step keeps what the inspection knows *)

\* What the history of the inspection records at a step.
LEMMA WatchedFields ==
    ASSUME Records, WriterMove
    PROVE  /\ truth' = [intact |-> truth'.intact, fresh |-> truth'.fresh,
                        ready |-> truth'.ready]
           /\ truth'.intact = truth.intact /\ truth'.fresh = truth.fresh
           /\ truth'.ready \in BOOLEAN
           /\ truth'.ready => truth.ready \/ (Inspecting /\ graph' = "ready" /\ ~DatabaseDone)
           /\ truth.ready => truth'.ready
<1>1. truth' = Watched
    BY DEF WriterMove
<1>2. truth \in [intact : BOOLEAN, fresh : BOOLEAN, ready : BOOLEAN]
    BY DEF Records
<1>3. CASE Inspecting /\ step # "manifest"
    <2>1. truth' = [truth EXCEPT !.ready = @ \/ (graph' = "ready" /\ ~DatabaseDone)]
        BY <1>1, <1>3 DEF Watched
    <2>2. truth' = [intact |-> truth.intact, fresh |-> truth.fresh,
                    ready |-> (truth.ready \/ (graph' = "ready" /\ ~DatabaseDone))]
        BY <1>2, <2>1
    <2>3. QED
        BY <1>2, <1>3, <2>2
<1>4. CASE ~(Inspecting /\ step # "manifest")
    BY <1>1, <1>2, <1>4 DEF Watched
<1>5. QED
    BY <1>3, <1>4

\* The inspection's own state does not change, nor what is derived from it.
LEMMA LookKept ==
    ASSUME WriterMove
    PROVE  /\ UNCHANGED <<step, mode, look, first, inv, unread, checks, report>>
           /\ Inspecting' = Inspecting /\ Opened' = Opened /\ Looked' = Looked
           /\ Closed' = Closed /\ FirstGood' = FirstGood /\ DatabaseDone' = DatabaseDone
           /\ RowDiffers' = RowDiffers
BY DEF WriterMove, Inspecting, Opened, Looked, Closed, FirstGood, DatabaseDone, RowDiffers

\* A step beside the inspection leaves its records typed.
LEMMA WriterRecords ==
    ASSUME WriterInv, Records, WriterMove, StartRun \/ Others
    PROVE  Records'
<1>1. runsLeft' \in {0, 1}
    <2>1. CASE Inspecting
        BY <2>1 DEF WriterMove
    <2>2. CASE ~Inspecting
        BY <2>2 DEF StartRun, Others, Records
    <2>3. QED
        BY <2>1, <2>2
<1>2. Inspecting \/ step \in PreflightSteps => manifest' # None
    <2>1. SUFFICES ASSUME Inspecting \/ step \in PreflightSteps PROVE manifest' # None
        OBVIOUS
    <2>2. CASE manifest' = manifest
        BY <2>1, <2>2 DEF Records
    <2>3. CASE PublishManifest
        <3>1. manifest' = [mid |-> prep.mid, og |-> prep.og, obs |-> prep.obs, gen |-> prep.gen]
              /\ prep \in Prepared
            BY <2>3 DEF PublishManifest, WriterInv, IInv, TypeOK, PreparedSteps, MarkedSteps
        <3>2. manifest' \in Manifests
            BY <3>1 DEF Manifests, Prepared
        <3>3. QED
            BY <3>2, ManifestAssumption
    <2>4. manifest' = manifest \/ PublishManifest
        BY DEF StartRun, Others, StartIndex, StartRefresh, Keep, fileVars, WriterStep, Crash,
           Edit, SkipCleanup, BeginCleanup, RefuseCleanup, UnlinkOrphan, SweepDone, FinishRun,
           OpenInventory, QuietRefresh, PrepareIndex, PrepareRefresh, CloseFence, FenceDrift,
           MaterializeVectors, MaterializeIds, MarkStale, ClearMarker, BeginBatch, CommitBatch,
           DeleteFile, ReplaceObservations, PublishDescriptor, CommitReady
    <2>5. QED
        BY <2>1, <2>2, <2>3, <2>4
<1>3. Inspecting /\ pc' # "idle" => runsLeft' = 0
    BY DEF WriterMove
<1>4. /\ Inspecting' = Inspecting /\ Looked' = Looked
      /\ UNCHANGED <<step, mode, look, inv, unread, checks>>
    BY LookKept
<1>5. step \in PreflightSteps => truth'.ready = FALSE
    <2>1. step \in PreflightSteps => ~Inspecting /\ truth.ready = FALSE
        BY DEF PreflightSteps, Inspecting, InspectionSteps, Records
    <2>2. QED
        BY <2>1, WatchedFields
<1>6. /\ truth' = [intact |-> truth'.intact, fresh |-> truth'.fresh, ready |-> truth'.ready]
      /\ truth'.intact \in BOOLEAN /\ truth'.fresh \in BOOLEAN /\ truth'.ready \in BOOLEAN
    BY WatchedFields DEF Records
<1>7. inv' \in Snapshot /\ unread' \subseteq Present(inv)'
    BY <1>4 DEF Records, Present
<1>8. QED
    BY <1>1, <1>2, <1>3, <1>4, <1>5, <1>6, <1>7 DEF Records

\* Only the ready commit replaces the binding.
LEMMA BindingMoves ==
    ASSUME Inspecting, WriterMove
    PROVE  binding' = binding \/ CommitReady
<1>1. Quietly \/ MarkStale \/ Rewriting \/ Publishing
    BY DEF WriterMove
<1>2. QED
    BY <1>1, RewritingSteps DEF Quietly, MarkStale, Publishing, PublishDescriptor,
       PublishManifest, dbVars

\* An index that has a binding keeps one.
LEMMA BindingStays ==
    ASSUME WriterInv, Inspecting, WriterMove, binding # None
    PROVE  binding' # None
BY BindingMoves, CommitFields, BindingAssumption DEF WriterInv

\* A binding that was seen does not come back with another content.
LEMMA SeenBinding ==
    ASSUME WriterInv, Inspecting, WriterMove, NEW m, NEW g, SeenDatabase(m, g)
    PROVE  binding'.mid = m => binding' = binding
<1>1. CASE CommitReady
    <2>1. CASE binding.mid = m
        BY <1>1, <2>1, CommitDatabase DEF SeenDatabase
    <2>2. CASE binding.mid # m
        <3>1. pc = "commit"
            BY <1>1 DEF CommitReady
        <3>2. QED
            BY <2>2, <3>1 DEF SeenDatabase, DatabaseKept, DatabaseLost, Reached
    <2>3. QED
        BY <2>1, <2>2
<1>2. QED
    BY <1>1, BindingMoves

\* What the database said stays true of it, or it is lost.
LEMMA WriterDatabaseRead ==
    ASSUME WriterInv, Records, Inspecting, WriterMove, DatabaseRead, ManifestRead
    PROVE  DatabaseRead'
<1>1. UNCHANGED <<step, look>>
    BY LookKept
<1>2. ASSUME step = "database", ~look.again, binding' # None, look.mf.mid = binding'.mid
      PROVE  Tells(look.mf, binding')
    <2>1. CASE binding' = binding
        BY <1>2, <2>1 DEF DatabaseRead
    <2>2. CASE CommitReady
        <3>1. /\ pc = "commit"
              /\ binding' = [mid |-> prep.mid, og |-> prep.og, obs |-> prep.obs,
                             gen |-> prep.gen, ids |-> prep.ids]
              /\ manifest = [mid |-> prep.mid, og |-> prep.og, obs |-> prep.obs,
                             gen |-> prep.gen]
            BY <2>2, CommitFields DEF WriterInv
        <3>2. manifest.mid = look.mf.mid
            BY <1>2, <3>1
        <3>3. manifest = look.mf
            BY <1>2, <3>2 DEF ManifestRead, Opened, ManifestLost
        <3>4. QED
            BY <3>1, <3>3 DEF Tells
    <2>3. QED
        BY <2>1, <2>2, BindingMoves
<1>3. ASSUME step = "descriptor"
      PROVE  /\ look.db \in SeenRow
             /\ look.db.binding # None => binding' # None
    BY <1>3, BindingStays DEF DatabaseRead
<1>4. ASSUME step = "descriptor", ~look.again, look.db.binding # None
      PROVE  /\ look.mf.mid = look.db.binding.mid => Tells(look.mf, look.db.binding)
             /\ SeenDatabase(look.db.binding.mid, look.db.graph)'
             /\ binding'.mid = look.db.binding.mid => binding' = look.db.binding
    <2>1. /\ look.mf.mid = look.db.binding.mid => Tells(look.mf, look.db.binding)
          /\ SeenDatabase(look.db.binding.mid, look.db.graph)
          /\ binding.mid = look.db.binding.mid => binding = look.db.binding
          /\ binding # None /\ look.db.graph \in {"stale", "ready"}
        BY <1>3, <1>4 DEF DatabaseRead, SeenDatabase, SeenRow
    <2> DEFINE m == look.db.binding.mid
               g == look.db.graph
    <2>2. m' = m /\ g' = g
        BY <1>1
    <2> HIDE DEF m, g
    <2>3. SeenDatabase(m, g)'
        <3>1. SeenDatabase(m, g) /\ binding # None /\ g \in {"stale", "ready"}
            BY <2>1 DEF m, g
        <3>2. ASSUME NEW mm, NEW gg \in {"stale", "ready"}, SeenDatabase(mm, gg)
              PROVE  SeenDatabase(mm, gg)'
            BY <2>1, <3>2, DatabaseStep
        <3>3. QED
            BY <2>2, <3>1, <3>2 DEF SeenDatabase, DatabaseKept, DatabaseLost
    <2>4. binding'.mid = m => binding' = binding
        BY <2>1, SeenBinding DEF m
    <2>5. QED
        BY <2>1, <2>3, <2>4 DEF m, g
<1>5. QED
    BY <1>1, <1>2, <1>3, <1>4 DEF DatabaseRead

\* What the manifest told stays true of it, or it is lost.
LEMMA WriterManifestRead ==
    ASSUME WriterInv, Records, Inspecting, WriterMove, ManifestRead
    PROVE  ManifestRead'
<1>1. Opened' = Opened /\ UNCHANGED look
    BY LookKept
<1>2. ASSUME Opened, NEW mf, mf = look.mf
      PROVE  manifest' = mf \/ ManifestLost(mf.mid)'
    BY <1>2, ReadManifestStep DEF ManifestRead
<1>3. QED
    BY <1>1, <1>2 DEF ManifestRead, ManifestLost

\* At the publication the rows are those of the plan.
LEMMA ObservedReplaced ==
    ASSUME WriterInv, pc = "publish", NEW p \in Paths
    PROVE  Observed[p] = prep.obs[p]
<1>1. prep \in Prepared
      /\ rows[p] = IF prep.obs[p] = Absent THEN Absent
                   ELSE [c |-> prep.obs[p].c, t |-> prep.obs[p].t, og |-> prep.og]
    BY DEF WriterInv, IInv, TypeOK, CInv, RowsReplaced, PreparedSteps, MarkedSteps
<1>2. prep.obs[p] \in File \union {Absent}
    BY <1>1 DEF Prepared, Snapshot
<1>3. CASE prep.obs[p] = Absent
    BY <1>1, <1>3 DEF Observed
<1>4. CASE prep.obs[p] # Absent
    <2>1. /\ prep.obs[p] = [c |-> prep.obs[p].c, t |-> prep.obs[p].t] /\ prep.og \in Nat
          /\ prep.obs[p].c \in Contents /\ prep.obs[p].t \in Nat
        BY <1>1, <1>2, <1>4, BoundsAssumption DEF File, Prepared
    <2>2. rows[p] = [c |-> prep.obs[p].c, t |-> prep.obs[p].t, og |-> prep.og]
        BY <1>1, <1>4
    <2>3. rows[p] \in [c : Contents, t : Nat, og : Nat]
        BY <2>1, <2>2
    <2>4. rows[p] # Absent /\ rows[p].c = prep.obs[p].c /\ rows[p].t = prep.obs[p].t
        BY <2>2, <2>3, SentinelAssumption
    <2>5. QED
        BY <2>1, <2>4 DEF Observed
<1>5. QED
    BY <1>3, <1>4

\* A new vector set replaces the bound one only when the rows no longer are the bound ones.
LEMMA PublishUnreadable ==
    ASSUME WriterInv, pc = "publish", prep.publish, ~prep.force, binding # None
    PROVE  ~OperationalReadable
<1>1. prep \in Prepared /\ prep.obs # binding.obs /\ binding \in Bindings
    BY DEF WriterInv, IInv, TypeOK, NameInv, PublishDiffers, PreparedSteps, MarkedSteps,
       RunningSteps
<1>2. prep.obs \in Snapshot /\ binding.obs \in Snapshot
    BY <1>1 DEF Prepared, Bindings
<1>3. PICK p \in Paths : prep.obs[p] # binding.obs[p]
    BY <1>1, <1>2 DEF Snapshot
<1>4. Observed[p] # binding.obs[p]
    BY <1>3, ObservedReplaced
<1>5. QED
    BY <1>4 DEF OperationalReadable

\* A run past the stale mark stays past it until it commits.
LEMMA MarkedMove ==
    ASSUME WriterInv, Inspecting, WriterMove, ~CommitReady, Marked
    PROVE  Marked' /\ (pc' # "idle" => pc # "idle" /\ prep'.force = prep.force)
<1>1. Quietly \/ MarkStale \/ Rewriting \/ PublishDescriptor \/ PublishManifest
    BY DEF WriterMove, Publishing
<1>2. CASE Quietly
    BY <1>2 DEF Quietly, Marked, Reached, Early, MarkedSteps
<1>3. CASE MarkStale
    BY <1>3 DEF MarkStale, Marked, Reached, MarkedSteps
<1>4. CASE Rewriting
    <2>1. prep \in Prepared
        BY <1>4, RewritingSteps DEF WriterInv, IInv, TypeOK, PreparedSteps, MarkedSteps
    <2>2. prep'.force = prep.force
        BY <1>4, <2>1 DEF Rewriting, CommitBatch, DeleteFile, ReplaceObservations, runVars,
           Prepared
    <2>3. QED
        BY <1>4, <2>2, RewritingSteps DEF Marked, Reached, MarkedSteps
<1>5. CASE PublishDescriptor \/ PublishManifest
    BY <1>5 DEF PublishDescriptor, PublishManifest, Marked, Reached, MarkedSteps, runVars
<1>6. QED
    BY <1>1, <1>2, <1>3, <1>4, <1>5

\* A row gone from the bound ones does not come back before the commit.
LEMMA NoLongerKept ==
    ASSUME WriterInv, Inspecting, WriterMove, ~CommitReady, NoLonger
    PROVE  NoLonger'
<1>1. Marked' /\ (pc' # "idle" => ~prep'.force)
    BY MarkedMove DEF NoLonger
<1>2. Quietly \/ Rewriting \/ PublishDescriptor \/ PublishManifest
    BY DEF WriterMove, Publishing, MarkStale, NoLonger, Marked, Reached, MarkedSteps
<1>3. UNCHANGED <<graph, binding, look>>
    BY <1>2, RewritingSteps, LookKept DEF Quietly, PublishDescriptor, PublishManifest, dbVars
<1>4. \/ descriptor' = binding'.gen
      \/ ~OperationalReadable' /\ Reached({"manifest", "commit"})'
    <2>1. CASE Quietly
        <3>1. UNCHANGED <<rows, chunks, binding, descriptor>>
            BY <2>1 DEF Quietly
        <3>2. OperationalReadable' = OperationalReadable
            BY <3>1, ReadableKept
        <3>3. CASE descriptor = binding.gen
            BY <3>1, <3>3
        <3>4. CASE ~OperationalReadable /\ Reached({"manifest", "commit"})
            <4>1. Reached({"manifest", "commit"})'
                BY <2>1, <3>4 DEF Quietly, Reached, Early
            <4>2. QED
                BY <3>2, <3>4, <4>1
        <3>5. QED
            BY <3>3, <3>4 DEF NoLonger
    <2>2. CASE Rewriting
        <3>1. ~Reached({"manifest", "commit"}) /\ UNCHANGED <<descriptor, binding>>
            BY <2>2, RewritingSteps DEF Reached
        <3>2. QED
            BY <3>1 DEF NoLonger
    <2>3. CASE PublishDescriptor
        <3>1. /\ pc = "publish" /\ pc' = "manifest" /\ descriptor' = prep.gen
              /\ UNCHANGED <<rows, chunks, binding>>
            BY <2>3 DEF PublishDescriptor, dbVars
        <3>2. descriptor = binding.gen /\ ~prep.force
            BY <3>1 DEF NoLonger, Reached
        <3>3. OperationalReadable' = OperationalReadable
            BY <3>1, ReadableKept
        <3>4. CASE prep.publish
            <4>1. ~OperationalReadable
                BY <3>1, <3>2, <3>4, PublishUnreadable DEF NoLonger
            <4>2. QED
                BY <3>1, <3>3, <4>1 DEF Reached
        <3>5. CASE ~prep.publish
            <4>1. prep.gen = descriptor
                BY <3>1, <3>5 DEF WriterInv, IInv, RunInv, PrepShape, PreparedSteps, MarkedSteps
            <4>2. QED
                BY <3>1, <3>2, <4>1
        <3>6. QED
            BY <3>4, <3>5
    <2>4. CASE PublishManifest
        <3>1. pc = "manifest" /\ pc' = "commit" /\ UNCHANGED <<rows, chunks, binding, descriptor>>
            BY <2>4 DEF PublishManifest, dbVars
        <3>2. OperationalReadable' = OperationalReadable
            BY <3>1, ReadableKept
        <3>3. Reached({"manifest", "commit"})'
            BY <3>1 DEF Reached
        <3>4. QED
            BY <3>1, <3>2, <3>3 DEF NoLonger
    <2>5. QED
        BY <1>2, <2>1, <2>2, <2>3, <2>4
<1>5. QED
    BY <1>1, <1>3, <1>4 DEF NoLonger

\* What a ready index has, from the invariant of the protocol.
LEMMA ReadyArtifacts ==
    ASSUME WriterInv, graph = "ready"
    PROVE  /\ binding # None /\ OperationalReadable /\ BoundIdentityMatches /\ DescriptorReadable
           /\ genIds[descriptor] = IdsOf(chunks)
BY DEF WriterInv, IInv, ArtifactInv, ReadyBound, OperationalReadable

\* A ready index has a binding.
LEMMA ReadyBinding == WriterInv /\ graph = "ready" => binding # None
BY ReadyArtifacts

\* Only the stale mark ends the ready state.
LEMMA LeavesReady ==
    ASSUME Inspecting, WriterMove, graph = "ready", graph' # "ready"
    PROVE  MarkStale
<1>1. Quietly \/ MarkStale \/ Rewriting \/ PublishDescriptor \/ PublishManifest \/ CommitReady
    BY DEF WriterMove, Publishing
<1>2. ~CommitReady
    BY DEF CommitReady
<1>3. QED
    BY <1>1, <1>2, RewritingSteps DEF Quietly, PublishDescriptor, PublishManifest, dbVars

\* Steps beside the inspection keep what it may conclude of the ready state.
LEMMA WriterReadyOnce ==
    ASSUME WriterInv, WriterInv', Records, Inspecting, WriterMove, ManifestRead, ReadyOnce
    PROVE  ReadyOnce'
<1>1. Opened' = Opened /\ Inspecting' = Inspecting /\ UNCHANGED <<step, look>>
    BY LookKept
<1>2. graph' = "ready" => binding' # None
    BY DEF WriterInv, IInv, ArtifactInv, ReadyBound, OperationalReadable
<1>3. truth.ready => binding' # None
    BY BindingStays DEF ReadyOnce
<1>4. truth'.ready => truth.ready \/ graph' = "ready"
    BY WatchedFields
<1>5. ASSUME Opened, truth.ready, graph' # "ready"
      PROVE  NoLonger'
    <2>1. CASE graph = "ready"
        <3>1. MarkStale
            BY <1>5, <2>1, LeavesReady
        <3>2. /\ pc = "markStale" /\ pc' = "clear" /\ graph' = "stale"
              /\ UNCHANGED <<binding, descriptor, prep>>
            BY <3>1 DEF MarkStale, fileVars, runVars
        <3>3. manifest = look.mf
            BY <1>5, <3>2 DEF ManifestRead, ManifestLost, Reached
        <3>4. binding # None /\ manifest.mid = binding.mid /\ descriptor = binding.gen
            BY <2>1, ReadyArtifacts DEF BoundIdentityMatches
        <3>5. ~prep.force
            BY <2>1, <3>2 DEF WriterInv, NameInv, ReadyUnforced
        <3>6. QED
            BY <1>1, <3>2, <3>3, <3>4, <3>5 DEF NoLonger, Marked, Reached, MarkedSteps
    <2>2. CASE graph # "ready"
        <3>1. NoLonger
            BY <1>5, <2>2 DEF ReadyOnce
        <3>2. ~CommitReady
            BY <1>5, CommitFields DEF WriterInv
        <3>3. QED
            BY <3>1, <3>2, NoLongerKept
    <2>3. QED
        BY <2>1, <2>2
<1>6. step = "manifest" => truth' = truth
    BY DEF WriterMove, Watched
<1>7. QED
    BY <1>1, <1>2, <1>3, <1>4, <1>5, <1>6 DEF ReadyOnce

\* Steps beside the inspection keep what the first look tells.
LEMMA WriterFirstLook ==
    ASSUME WriterInv, Records, Inspecting, WriterMove, FirstLook
    PROVE  FirstLook'
<1>1. /\ Looked' = Looked /\ FirstGood' = FirstGood /\ UNCHANGED first
    BY LookKept
<1>2. ASSUME NEW m, NEW g \in {"stale", "ready"}, SeenDatabase(m, g)
      PROVE  SeenDatabase(m, g)' /\ (binding'.mid = m => binding.mid = m /\ binding' = binding)
    BY <1>2, DatabaseStep, SeenBinding DEF SeenDatabase
<1>3. ASSUME Looked, first.sqlite
      PROVE  /\ SeenDatabase(first.mid, first.graph)'
             /\ first.files \in Snapshot
             /\ binding'.mid = first.mid =>
                      binding'.obs = first.files /\ binding'.ids = first.ids
             /\ binding'.mid = first.mid => binding.mid = first.mid /\ binding' = binding
    <2> DEFINE m == first.mid
               g == first.graph
    <2>1. m' = m /\ g' = g
        BY <1>1
    <2>2. SeenDatabase(m, g) /\ g \in {"stale", "ready"}
        BY <1>3 DEF FirstLook
    <2> HIDE DEF m, g
    <2>3. SeenDatabase(m, g)' /\ (binding'.mid = m => binding.mid = m /\ binding' = binding)
        BY <1>2, <2>1, <2>2 DEF SeenDatabase, DatabaseKept, DatabaseLost
    <2>4. QED
        BY <1>3, <2>3 DEF FirstLook, m, g
<1>4. ASSUME NEW m, NEW d, SeenManifest(m), SeenGeneration(d)
      PROVE  SeenManifest(m)' /\ SeenGeneration(d)'
    BY <1>4, ManifestStep, DescriptorStep
<1>5. ASSUME Looked, FirstGood
      PROVE  /\ SeenManifest(first.mid)'
             /\ SeenGeneration(first.gen)'
             /\ binding'.mid = first.mid => binding'.gen = first.gen
    <2> DEFINE m == first.mid
               d == first.gen
    <2>1. m' = m /\ d' = d
        BY <1>1
    <2>2. SeenManifest(m) /\ SeenGeneration(d)
        BY <1>5 DEF FirstLook
    <2> HIDE DEF m, d
    <2>3. SeenManifest(m)' /\ SeenGeneration(d)'
        BY <1>4, <2>1, <2>2 DEF SeenManifest, ManifestLost, SeenGeneration, DescriptorLost
    <2>4. first.sqlite
        BY <1>5 DEF FirstGood
    <2>5. QED
        BY <1>3, <1>5, <2>3, <2>4 DEF FirstLook, m, d
<1>6. QED
    BY <1>1, <1>3, <1>5 DEF FirstLook

\* They keep what its short form is compared with.
LEMMA WriterToken ==
    ASSUME WriterMove, Token, Shortened
    PROVE  Token' /\ Shortened'
<1>1. Looked' = Looked /\ UNCHANGED <<step, first>>
    BY LookKept
<1>2. QED
    BY <1>1 DEF Token, Shortened

\* What the second look will find it still finds after a step of the writer.
LEMMA DiffersKept ==
    ASSUME WriterInv, Records, Inspecting, WriterMove, Looked, FirstLook, first.sqlite
    PROVE  /\ ManifestDiffers => ManifestDiffers'
           /\ DescriptorDiffers => DescriptorDiffers'
           /\ DatabaseDiffers => DatabaseDiffers'
<1>1. UNCHANGED <<step, look, first>> /\ RowDiffers' = RowDiffers
    BY LookKept
<1> DEFINE m == first.mid
           g == first.graph
           d == first.gen
<1>2. m' = m /\ g' = g /\ d' = d
    BY <1>1
<1>3. binding # None /\ g \in {"stale", "ready"}
    BY DEF FirstLook, SeenDatabase
<1> HIDE DEF m, g, d
<1>4. ManifestLost(m) => ManifestLost(m)'
    BY <1>2, ManifestStep DEF ManifestLost
<1>5. DescriptorLost(d) => DescriptorLost(d)'
    BY <1>2, DescriptorStep DEF DescriptorLost
<1>6. DatabaseLost(m, g) => DatabaseLost(m, g)'
    <2>1. ASSUME NEW mm, NEW gg \in {"stale", "ready"}, DatabaseLost(mm, gg)
          PROVE  DatabaseLost(mm, gg)'
        BY <1>3, <2>1, DatabaseStep
    <2>2. QED
        BY <1>2, <1>3, <2>1 DEF DatabaseLost
<1>7. QED
    BY <1>1, <1>4, <1>5, <1>6 DEF ManifestDiffers, DescriptorDiffers, DatabaseDiffers, m, g, d

\* After a good first look they keep what makes a report valid.
LEMMA WriterGoodLook ==
    ASSUME WriterInv, Records, Inspecting, WriterMove, FirstLook, GoodLook
    PROVE  GoodLook'
<1>1. /\ UNCHANGED <<step, look, first, checks, inv>>
      /\ Looked' = Looked /\ FirstGood' = FirstGood /\ Closed' = Closed
    BY LookKept
<1>2. Suspect' = Suspect
    BY <1>1, WatchedFields DEF Suspect
<1>3. Looked /\ FirstGood => first.sqlite
    BY DEF FirstGood
<1>4. QED
    BY <1>1, <1>2, <1>3, DiffersKept DEF GoodLook

\* A manifest read before its binding stays older than it.
LEMMA OutrunKept ==
    ASSUME WriterInv, Records, Inspecting, WriterMove, Outrun
    PROVE  Outrun'
<1>1. UNCHANGED <<step, look, first>>
    BY LookKept
<1>2. Reached({"finalSweep"}) /\ Reached({"finalSweep"})'
    BY ReachedStays, OrdersNamed DEF Outrun
<1>3. UNCHANGED manifest
    BY <1>2, ManifestMoves DEF PublishManifest, Reached
<1>4. UNCHANGED binding
    BY <1>2, BindingMoves DEF CommitReady, Reached
<1>5. QED
    BY <1>1, <1>2, <1>3, <1>4 DEF Outrun, ManifestValid

\* A ready commit makes the second look differ from the first.
LEMMA CommitDiffers ==
    ASSUME WriterInv, Inspecting, WriterMove, CommitReady, Looked, FirstLook, first.sqlite,
           ~DatabaseDone
    PROVE  DatabaseDiffers'
<1>1. UNCHANGED <<step, look, first>>
    BY LookKept
<1>2. SeenDatabase(first.mid, first.graph)
    BY DEF FirstLook
<1>3. pc = "commit" /\ Reached({"finalSweep"})'
    BY CommitFields DEF WriterInv, Reached
<1>4. binding.mid = first.mid
    BY <1>2, <1>3 DEF SeenDatabase, DatabaseKept, DatabaseLost, Reached
<1>5. binding'.mid # first.mid
    BY <1>2, <1>4, CommitDatabase DEF SeenDatabase
<1>6. QED
    BY <1>1, <1>3, <1>5 DEF DatabaseDiffers, DatabaseDone, DatabaseLost

\* After a bad first look they keep what makes a second look differ.
LEMMA WriterBadLook ==
    ASSUME WriterInv, WriterInv', Records, Inspecting, WriterMove, FirstLook, BadLook
    PROVE  BadLook'
<1>1. /\ UNCHANGED <<step, look, first, checks>>
      /\ Looked' = Looked /\ FirstGood' = FirstGood /\ DatabaseDone' = DatabaseDone
    BY LookKept
<1>2. SUFFICES ASSUME Looked, ~FirstGood, WasReady', step # "writer"
               PROVE  IF ~first.sqlite
                      THEN binding' # None /\ (look.again /\ step = "descriptor" =>
                                                   look.db.binding # None)
                      ELSE DatabaseDiffers' \/ Outrun'
    <2>1. step = "writer" /\ WasReady' => WasReady
        BY <1>1, WatchedFields DEF WasReady, DatabaseDone
    <2>2. QED
        BY <1>1, <1>2, <2>1 DEF BadLook
<1>3. CASE WasReady
    <2>1. CASE ~first.sqlite
        BY <1>1, <1>2, <1>3, <2>1, BindingStays DEF BadLook
    <2>2. CASE first.sqlite
        BY <1>2, <1>3, <2>2, DiffersKept, OutrunKept DEF BadLook
    <2>3. QED
        BY <2>1, <2>2
<1>4. CASE ~WasReady
    <2>1. graph' = "ready" /\ ~DatabaseDone
        BY <1>1, <1>2, <1>4, WatchedFields DEF WasReady
    <2>2. graph # "ready"
        BY <1>4, <2>1 DEF WasReady
    <2>3. CommitReady
        <3>1. Quietly \/ MarkStale \/ Rewriting \/ Publishing
            BY DEF WriterMove
        <3>2. QED
            BY <2>1, <2>2, <3>1, RewritingSteps DEF Quietly, MarkStale, Publishing,
               PublishDescriptor, PublishManifest, dbVars
    <2>4. binding' # None
        BY <2>3, CommitFields, BindingAssumption DEF WriterInv
    <2>5. ~(look.again /\ step = "descriptor")
        BY <2>1 DEF DatabaseDone
    <2>6. first.sqlite => DatabaseDiffers'
        BY <1>2, <2>1, <2>3, CommitDiffers
    <2>7. QED
        BY <2>4, <2>5, <2>6
<1>5. QED
    BY <1>3, <1>4

\* A report does not change.
LEMMA WriterReported ==
    ASSUME WriterInv, Records, WriterMove, Reported
    PROVE  Reported'
<1>1. UNCHANGED <<step, report>>
    BY LookKept
<1>2. step = "report" => truth' = truth
    BY DEF WriterMove, Watched, Inspecting, InspectionSteps
<1>3. QED
    BY <1>1, <1>2 DEF Reported, ReportWasTrue, CorruptNeverReady

\* All of the above: a step beside the inspection keeps HealthInv.
LEMMA WriterHealth ==
    ASSUME WriterInv, HealthInv, StartRun \/ Others, WriterInv'
    PROVE  HealthInv'
<1>1. Records /\ WriterMove
    BY MoveCases DEF HealthInv
<1>2. Records'
    BY <1>1, WriterRecords
<1>3. Reported'
    BY <1>1, WriterReported DEF HealthInv
<1>4. CASE Inspecting
    BY <1>1, <1>2, <1>3, <1>4, WriterDatabaseRead, WriterManifestRead, WriterReadyOnce,
       WriterFirstLook, WriterToken, WriterGoodLook, WriterBadLook DEF HealthInv
<1>5. CASE ~Inspecting
    <2>1. ~Inspecting' /\ ~Looked' /\ ~Opened' /\ step' \notin InspectionSteps
        BY <1>1, <1>5, LookKept DEF Inspecting, Looked, Opened, InspectionSteps
    <2>2. DatabaseRead' /\ ManifestRead' /\ ReadyOnce' /\ FirstLook'
        BY <2>1 DEF DatabaseRead, ManifestRead, ReadyOnce, FirstLook, InspectionSteps
    <2>3. Token' /\ Shortened' /\ GoodLook' /\ BadLook'
        BY <2>1 DEF Token, Shortened, GoodLook, BadLook, InspectionSteps
    <2>4. QED
        BY <1>2, <1>3, <2>2, <2>3 DEF HealthInv
<1>6. QED
    BY <1>4, <1>5

-----------------------------------------------------------------------------
(* A step of the inspection leaves the index as it is *)

\* A step of the inspection changes nothing of the index.
LEMMA StillVars ==
    ASSUME Still
    PROVE  UNCHANGED <<ws, edits, graph, reason, full, rows, chunks, marker, binding,
                       manifest, descriptor, vecs, idfs, genIds, pc, op, opening, prep,
                       fence, crashes, session>>
BY DEF Still, vars, wsVars, dbVars, fileVars, runVars

\* Nor what is said of the writer.
LEMMA StillWriter ==
    ASSUME Still, UNCHANGED runsLeft
    PROVE  /\ Marked' = Marked /\ Rewritten' = Rewritten
           /\ OperationalReadable' = OperationalReadable
           /\ \A S : Reached(S)' = Reached(S)
<1>1. Observed' = Observed /\ OperationalReadable' = OperationalReadable
    BY StillVars, ReadableKept
<1>2. \A S : Reached(S)' = Reached(S)
    BY StillVars DEF Reached
<1>3. Marked' = Marked
    BY StillVars DEF Marked, Reached
<1>4. Rewritten' = Rewritten
    BY StillVars, <1>1 DEF Rewritten, Reached
<1>5. QED
    BY <1>1, <1>2, <1>3, <1>4

\* What the second look will find of the opening snapshot.
LEMMA StillLook ==
    ASSUME Still, UNCHANGED <<runsLeft, first>>
    PROVE  /\ ManifestLost(first.mid)' = ManifestLost(first.mid)
           /\ DescriptorLost(first.gen)' = DescriptorLost(first.gen)
           /\ DatabaseLost(first.mid, first.graph)' = DatabaseLost(first.mid, first.graph)
           /\ FirstGood' = FirstGood
<1>1. ManifestLost(first.mid)' = ManifestLost(first.mid)
    BY StillVars, StillWriter DEF ManifestLost
<1>2. DescriptorLost(first.gen)' = DescriptorLost(first.gen)
    BY StillVars, StillWriter DEF DescriptorLost
<1>3. DatabaseLost(first.mid, first.graph)' = DatabaseLost(first.mid, first.graph)
    <2>1. UNCHANGED <<graph, binding>> /\ Marked' = Marked /\ Rewritten' = Rewritten
        BY StillVars, StillWriter
    <2>2. Reached({"finalSweep"})' = Reached({"finalSweep"})
        BY StillVars DEF Reached
    <2>3. QED
        BY <2>1, <2>2 DEF DatabaseLost
<1>4. FirstGood' = FirstGood
    BY DEF FirstGood
<1>5. QED
    BY <1>1, <1>2, <1>3, <1>4

\* It keeps what the first look tells.
LEMMA StillFirst ==
    ASSUME Still, UNCHANGED <<runsLeft, first>>, Looked' => Looked, FirstLook, Token
    PROVE  FirstLook' /\ Token'
<1>1. /\ SeenManifest(first.mid)' = SeenManifest(first.mid)
      /\ SeenGeneration(first.gen)' = SeenGeneration(first.gen)
    BY StillVars, StillLook DEF SeenManifest, SeenGeneration
<1>2. SeenDatabase(first.mid, first.graph)' = SeenDatabase(first.mid, first.graph)
    BY StillVars, StillWriter, StillLook DEF SeenDatabase, DatabaseKept
<1>3. FirstLook'
    BY <1>1, <1>2, StillVars, StillLook DEF FirstLook
<1>4. Token'
    BY DEF Token
<1>5. QED
    BY <1>3, <1>4

\* The empty inventory is an inventory.
LEMMA NoWorkspaceTyped == NoWorkspace \in Snapshot
BY DEF NoWorkspace, Snapshot

\* Every way an inspection ends, or begins its preflight.
LEMMA Restarted ==
    ASSUME Still, step' \in {"report", "rawManifest", "rawSchema"},
           mode' \in {"quick", "verified"},
           look' = [mf |-> look'.mf, db |-> look'.db, again |-> look'.again],
           look'.again = FALSE, step' = "rawManifest" => look'.mf \in Manifests,
           inv' = NoWorkspace, unread' = {}, checks' = NoChecks, runsLeft' \in {0, 1},
           Records, UNCHANGED truth \/ truth' = NoTruth,
           step' # "report" => manifest # None /\ truth'.ready = FALSE
    PROVE  Records'
<1>1. /\ checks' = [vectors |-> checks'.vectors, changed |-> checks'.changed,
                    inventory |-> checks'.inventory, snapshot |-> checks'.snapshot]
      /\ checks'.vectors = "none" /\ checks'.changed = {}
      /\ checks'.inventory = TRUE /\ checks'.snapshot = TRUE
    BY DEF NoChecks
<1>2. /\ truth' = [intact |-> truth'.intact, fresh |-> truth'.fresh, ready |-> truth'.ready]
      /\ truth'.intact \in BOOLEAN /\ truth'.fresh \in BOOLEAN /\ truth'.ready \in BOOLEAN
    <2>1. CASE UNCHANGED truth
        BY <2>1 DEF Records
    <2>2. CASE truth' = NoTruth
        BY <2>2 DEF NoTruth
    <2>3. QED
        BY <2>1, <2>2
<1>3. ~Inspecting' /\ (step' \in PreflightSteps => manifest' # None /\ step' # "report")
    BY StillVars DEF Inspecting, InspectionSteps, PreflightSteps
<1>4. inv' \in Snapshot /\ unread' \subseteq Present(inv')
    BY NoWorkspaceTyped
<1>5. step' \in InspectionSteps \union PreflightSteps \union {"off", "report"}
    BY DEF PreflightSteps
<1>6. QED
    BY <1>1, <1>2, <1>3, <1>4, <1>5, NoWorkspaceTyped DEF Records, Present

\* Outside the two looks HealthInv speaks of the records and of the report.
LEMMA Outside ==
    ASSUME Records', Reported', step' \in PreflightSteps \union {"report"}
    PROVE  HealthInv'
BY DEF HealthInv, DatabaseRead, ManifestRead, ReadyOnce, FirstLook, Token, Shortened, GoodLook,
   BadLook, Opened, Looked, Inspecting, InspectionSteps, PreflightSteps

\* An answer that claims no more than held keeps HealthInv.
LEMMA AnswerHealth ==
    ASSUME Still, Records, NEW r, Answer(r), UNCHANGED truth,
           r.health # "none",
           r.integrity = "valid" => truth.intact,
           r.freshness = "fresh" => truth.intact /\ truth.fresh,
           r.health = "corrupt" /\ r.inspected # "none" => ~truth.ready
    PROVE  HealthInv'
<1>1. step' = "report" /\ report' = r
    BY DEF Answer
<1>2. mode' \in {"quick", "verified"}
    BY DEF Answer, Records
<1>3. Records'
    <2>1. look' = [mf |-> look'.mf, db |-> look'.db, again |-> look'.again]
          /\ look'.again = FALSE
        BY DEF Answer, NoLook
    <2>2. QED
        BY <1>1, <1>2, <2>1, Restarted DEF Answer
<1>4. Reported'
    BY <1>1 DEF Reported, ReportWasTrue, CorruptNeverReady
<1>5. QED
    BY <1>1, <1>3, <1>4, Outside

\* The preflight keeps HealthInv: its start,
LEMMA StatusStartHealth ==
    ASSUME WriterInv, HealthInv, StatusStart
    PROVE  HealthInv'
<1>1. /\ Still /\ mode' \in {"quick", "verified"} /\ truth' = NoTruth /\ runsLeft' = 0
      /\ inv' = NoWorkspace /\ unread' = {} /\ checks' = NoChecks
    BY DEF StatusStart
<1>2. Records /\ truth'.ready = FALSE
    BY <1>1 DEF HealthInv, NoTruth
<1>3. CASE manifest = None
    <2>1. /\ step' = "report" /\ look' = NoLook
          /\ report' = [NoReport EXCEPT
                  !.health = IF graph = "none" /\ ~journal THEN "missing" ELSE "corrupt"]
        BY <1>3 DEF StatusStart
    <2>2. look' = [mf |-> look'.mf, db |-> look'.db, again |-> look'.again]
          /\ look'.again = FALSE
        BY <2>1 DEF NoLook
    <2>3. Records'
        BY <1>1, <1>2, <2>1, <2>2, Restarted
    <2>4. /\ report'.health \in {"missing", "corrupt"} /\ report'.inspected = "none"
          /\ report'.integrity = "unchecked" /\ report'.freshness = "unknown"
        BY <2>1 DEF NoReport
    <2>5. Reported'
        BY <2>4 DEF Reported, ReportWasTrue, CorruptNeverReady
    <2>6. QED
        BY <2>1, <2>3, <2>5, Outside
<1>4. CASE manifest # None
    <2>1. step' = "rawManifest" /\ look' = [NoLook EXCEPT !.mf = manifest]
        BY <1>4 DEF StatusStart
    <2>2. look' = [mf |-> manifest, db |-> None, again |-> FALSE]
        BY <2>1 DEF NoLook
    <2>3. /\ look' = [mf |-> look'.mf, db |-> look'.db, again |-> look'.again]
          /\ look'.again = FALSE /\ look'.mf \in Manifests
        BY <1>4, <2>2, WriterTyped
    <2>4. Records'
        BY <1>1, <1>2, <1>4, <2>1, <2>3, Restarted
    <2>5. Reported'
        BY <2>1 DEF Reported, ReportWasTrue, CorruptNeverReady
    <2>6. QED
        BY <2>1, <2>4, <2>5, Outside DEF PreflightSteps
<1>5. QED
    BY <1>3, <1>4

\* An answer of the preflight claims nothing of the two looks.
LEMMA PreflightAnswerHealth ==
    ASSUME HealthInv, Still, UNCHANGED truth, PreflightAnswer("corrupt")
    PROVE  HealthInv'
<1> DEFINE r == [NoReport EXCEPT !.health = "corrupt"]
<1>1. Answer(r) /\ Records
    BY DEF PreflightAnswer, HealthInv
<1>2. /\ r.health = "corrupt" /\ r.inspected = "none"
      /\ r.integrity = "unchecked" /\ r.freshness = "unknown"
    BY DEF NoReport
<1> HIDE DEF r
<1>3. QED
    BY <1>1, <1>2, AnswerHealth

\* the end of its look at the manifest,
LEMMA InspectRawManifestHealth ==
    ASSUME WriterInv, HealthInv, InspectRawManifest
    PROVE  HealthInv'
<1>1. Still /\ step = "rawManifest" /\ UNCHANGED truth
    BY DEF InspectRawManifest
<1>2. CASE manifest # look.mf
    BY <1>1, <1>2, PreflightAnswerHealth DEF InspectRawManifest
<1>3. CASE manifest = look.mf
    <2>1. /\ step' = "rawSchema" /\ look' = NoLook
          /\ UNCHANGED <<mode, first, inv, unread, checks, report, runsLeft>>
        BY <1>3 DEF InspectRawManifest
    <2>2. look' = [mf |-> look'.mf, db |-> look'.db, again |-> look'.again]
          /\ look'.again = FALSE
        BY <2>1 DEF NoLook
    <2>3. Records /\ ~Inspecting' /\ step' \in PreflightSteps /\ step \in PreflightSteps
        BY <1>1, <2>1 DEF HealthInv, Inspecting, InspectionSteps, PreflightSteps
    <2>4. Records'
        <3>1. manifest' # None
            BY <1>1, <2>3, StillVars DEF Records
        <3>2. inv' \in Snapshot /\ unread' \subseteq Present(inv')
            BY <2>1, <2>3 DEF Records, Present
        <3>3. QED
            BY <1>1, <2>1, <2>2, <2>3, <3>1, <3>2 DEF Records
    <2>5. Reported'
        BY <2>1 DEF Reported, ReportWasTrue, CorruptNeverReady
    <2>6. QED
        BY <2>3, <2>4, <2>5, Outside
<1>4. QED
    BY <1>2, <1>3

\* and its look at the database.
LEMMA InspectRawSchemaHealth ==
    ASSUME WriterInv, HealthInv, InspectRawSchema
    PROVE  HealthInv'
<1>1. Still /\ step = "rawSchema" /\ UNCHANGED truth
    BY DEF InspectRawSchema
<1>2. CASE PreflightAnswer("corrupt")
    BY <1>1, <1>2, PreflightAnswerHealth
<1>3. CASE ~PreflightAnswer("corrupt")
    <2>1. /\ step' = "manifest" /\ runsLeft' = IF pc = "idle" THEN 1 ELSE 0
          /\ UNCHANGED <<mode, look, first, inv, unread, checks, report>>
        BY <1>3 DEF InspectRawSchema
    <2>2. /\ Records /\ look.again = FALSE /\ step \in PreflightSteps
          /\ checks = NoChecks /\ truth.ready = FALSE /\ manifest # None
        BY <1>1 DEF HealthInv, Records, PreflightSteps
    <2>3. ~Opened' /\ ~Looked' /\ look'.again = FALSE /\ step' \notin PreflightSteps
        BY <2>1, <2>2 DEF Opened, Looked, Inspecting, InspectionSteps, PreflightSteps
    <2>4. Records'
        <3>1. manifest' # None /\ (pc' # "idle" => runsLeft' = 0) /\ runsLeft' \in {0, 1}
            BY <1>1, <2>1, <2>2, StillVars
        <3>2. inv' \in Snapshot /\ unread' \subseteq Present(inv')
            BY <2>1, <2>2 DEF Records, Present
        <3>3. QED
            BY <1>1, <2>1, <2>2, <2>3, <3>1, <3>2 DEF Records, InspectionSteps, PreflightSteps
    <2>5. Reported'
        BY <2>1 DEF Reported, ReportWasTrue, CorruptNeverReady
    <2>6. DatabaseRead' /\ ManifestRead' /\ ReadyOnce' /\ FirstLook' /\ Token' /\ Shortened'
        BY <1>1, <2>1, <2>2, <2>3
           DEF DatabaseRead, ManifestRead, ReadyOnce, FirstLook, Token, Shortened
    <2>7. GoodLook' /\ BadLook'
        BY <2>3 DEF GoodLook, BadLook
    <2>8. QED
        BY <2>4, <2>5, <2>6, <2>7 DEF HealthInv
<1>4. QED
    BY <1>2, <1>3

\* Reading the manifest keeps HealthInv.
LEMMA ReadManifestHealth ==
    ASSUME WriterInv, HealthInv, ReadManifest
    PROVE  HealthInv'
<1>1. /\ step = "manifest" /\ step' = "database" /\ Still
      /\ look' = [look EXCEPT !.mf = manifest]
      /\ truth' = [truth EXCEPT !.ready = @ \/ graph = "ready"]
      /\ UNCHANGED <<mode, first, inv, unread, checks, report, runsLeft>>
    BY DEF ReadManifest
<1>2. /\ Records /\ Inspecting /\ Inspecting' /\ manifest \in Manifests
    BY <1>1, WriterTyped DEF HealthInv, Records, Inspecting, InspectionSteps
<1>3. look' = [mf |-> manifest, db |-> look.db, again |-> look.again]
    BY <1>1, <1>2 DEF Records
<1>4. truth' = [intact |-> truth.intact, fresh |-> truth.fresh,
                ready |-> (truth.ready \/ graph = "ready")]
    <2>1. truth \in [intact : BOOLEAN, fresh : BOOLEAN, ready : BOOLEAN]
        BY <1>2 DEF Records
    <2>2. QED
        BY <1>1, <2>1
<1>5. look'.mf = manifest /\ look'.db = look.db /\ look'.again = look.again
    BY <1>3
<1>6. /\ truth'.intact = truth.intact /\ truth'.fresh = truth.fresh
      /\ truth'.ready = (truth.ready \/ graph = "ready")
      /\ truth'.ready \in BOOLEAN
    BY <1>2, <1>4 DEF Records
<1>7. Looked' = Looked /\ Closed' = Closed
    BY <1>1, <1>5 DEF Looked, Closed, Inspecting, InspectionSteps
<1>8. Records'
    <2>1. truth' = [intact |-> truth'.intact, fresh |-> truth'.fresh, ready |-> truth'.ready]
        BY <1>4
    <2>2. look' = [mf |-> look'.mf, db |-> look'.db, again |-> look'.again]
        BY <1>3
    <2>3. manifest' # None /\ (pc' # "idle" => runsLeft' = 0)
        BY <1>1, <1>2, StillVars DEF Records
    <2>4. QED
        BY <1>1, <1>2, <1>5, <1>6, <1>7, <2>1, <2>2, <2>3 DEF Records, InspectionSteps, PreflightSteps
<1>9. DatabaseRead'
    <2>1. binding # None /\ manifest.mid = binding.mid => Tells(manifest, binding)
        BY <1>2, ManifestAssumption DEF WriterInv, NameInv, NamesTell
    <2>2. QED
        BY <1>1, <1>5, <2>1, StillVars DEF DatabaseRead, Tells
<1>10. ManifestRead'
    BY <1>1, <1>5, StillVars DEF ManifestRead
<1>11. ReadyOnce'
    <2>1. binding # None \/ ~truth'.ready
        BY <1>2, <1>6, ReadyBinding DEF HealthInv, ReadyOnce
    <2>2. Opened' /\ truth'.ready => graph = "ready"
        BY <1>1, <1>5, <1>6 DEF HealthInv, ReadyOnce, Opened
    <2>3. QED
        BY <1>1, <2>1, <2>2, StillVars DEF ReadyOnce
<1>12. FirstLook' /\ Token' /\ Shortened'
    BY <1>1, <1>7, StillFirst DEF HealthInv, Shortened
<1>13. GoodLook'
    <2>1. Suspect' = Suspect
        BY <1>1, <1>6, <1>7 DEF Suspect
    <2>2. ManifestDiffers => ManifestDiffers'
        BY <1>1, <1>5, StillLook DEF ManifestDiffers, ManifestLost
    <2>3. DescriptorDiffers => DescriptorDiffers'
        BY <1>1, StillLook DEF DescriptorDiffers
    <2>4. DatabaseDiffers => DatabaseDiffers'
        BY <1>1, StillLook DEF DatabaseDiffers
    <2>5. FirstGood' = FirstGood
        BY <1>1, StillLook
    <2>6. QED
        BY <1>1, <1>7, <2>1, <2>2, <2>3, <2>4, <2>5 DEF HealthInv, GoodLook
<1>14. BadLook'
    <2>1. WasReady' => WasReady
        BY <1>1, <1>6, StillVars DEF WasReady, DatabaseDone
    <2>2. DatabaseDiffers => DatabaseDiffers'
        BY <1>1, StillLook DEF DatabaseDiffers
    <2>3. Outrun => Outrun'
        <3>1. Reached({"finalSweep"})' = Reached({"finalSweep"})
            BY <1>1, StillWriter
        <3>2. QED
            BY <1>1, <1>5, <3>1, StillVars DEF Outrun
    <2>4. FirstGood' = FirstGood /\ binding' = binding
        BY <1>1, StillLook, StillVars
    <2>5. QED
        BY <1>1, <1>7, <2>1, <2>2, <2>3, <2>4 DEF HealthInv, BadLook
<1>15. Reported'
    BY <1>1 DEF HealthInv, Reported, ReportWasTrue, CorruptNeverReady
<1>16. QED
    BY <1>8, <1>9, <1>10, <1>11, <1>12, <1>13, <1>14, <1>15 DEF HealthInv

\* A database that was read after a loss is not the one of the opening snapshot.
LEMMA LostDiffers ==
    ASSUME WriterInv, binding # None, OperationalReadable, NEW m, NEW g, DatabaseLost(m, g)
    PROVE  binding.mid # m \/ (g = "ready" /\ graph = "stale")
BY RewrittenDiffers DEF DatabaseLost

\* What a read of the database returns.
LEMMA SeenRowTyped ==
    ASSUME WriterInv, manifest # None
    PROVE  DatabaseSeen \in SeenRow
<1>1. graph \in {"stale", "ready"}
    BY DEF WriterInv, NameInv, ArtifactsOrdered, IInv, TypeOK
<1>2. reason \in IndexReasons /\ binding \in Bindings \union {None}
    BY DEF WriterInv, IInv, TypeOK
<1>3. QED
    BY <1>1, <1>2 DEF DatabaseSeen, SeenRow

\* Reading the database keeps HealthInv.
LEMMA ReadDatabaseHealth ==
    ASSUME WriterInv, HealthInv, ReadDatabase
    PROVE  HealthInv'
<1>1. step = "database" /\ Still /\ UNCHANGED truth /\ Records
    BY DEF ReadDatabase, HealthInv
<1>2. CASE binding # None /\ ~OperationalReadable
    <2> DEFINE r == [NoReport EXCEPT !.health = "failed"]
    <2>1. Answer(r)
        BY <1>2 DEF ReadDatabase
    <2>2. r.health = "failed" /\ r.integrity = "unchecked" /\ r.freshness = "unknown"
        BY DEF NoReport
    <2> HIDE DEF r
    <2>3. QED
        BY <1>1, <2>1, <2>2, AnswerHealth
<1>3. CASE ~(binding # None /\ ~OperationalReadable)
    <2>1. /\ look' = [look EXCEPT !.db = DatabaseSeen] /\ step' = "descriptor"
          /\ UNCHANGED <<mode, first, inv, unread, checks, report, runsLeft>>
        BY <1>3 DEF ReadDatabase
    <2>2. look' = [mf |-> look.mf, db |-> DatabaseSeen, again |-> look.again]
        BY <1>1, <2>1 DEF Records
    <2>3. look'.mf = look.mf /\ look'.db = DatabaseSeen /\ look'.again = look.again
        BY <2>2
    <2>4. /\ DatabaseSeen.graph = graph /\ DatabaseSeen.binding = binding
          /\ DatabaseSeen \in SeenRow /\ Inspecting /\ Inspecting'
        BY <1>1, <2>1, SeenRowTyped DEF DatabaseSeen, Records, Inspecting, InspectionSteps
    <2>5. Looked' = Looked /\ Closed' = Closed /\ Opened' = Opened
        BY <1>1, <2>1, <2>3 DEF Looked, Closed, Opened, Inspecting, InspectionSteps
    <2>6. Records'
        <3>1. manifest' # None /\ (pc' # "idle" => runsLeft' = 0)
            BY <1>1, <2>1, <2>4, StillVars DEF Records
        <3>2. look' = [mf |-> look'.mf, db |-> look'.db, again |-> look'.again]
            BY <2>2
        <3>3. QED
            BY <1>1, <2>1, <2>3, <2>4, <2>5, <3>1, <3>2 DEF Records, InspectionSteps, PreflightSteps
    <2>7. DatabaseRead'
        <3>1. binding # None => DatabaseKept(binding.mid, graph)
            BY <1>3 DEF DatabaseKept
        <3>2. binding # None => SeenDatabase(binding.mid, graph)
            BY <3>1 DEF SeenDatabase
        <3>3. SeenDatabase(look.db.binding.mid, look.db.graph)'
                  <=> SeenDatabase(binding.mid, graph)
            BY <1>1, <2>1, <2>3, <2>4, StillVars, StillWriter
               DEF SeenDatabase, DatabaseKept, DatabaseLost
        <3>4. ~look.again /\ binding # None /\ look.mf.mid = binding.mid =>
                  Tells(look.mf, binding)
            BY <1>1 DEF HealthInv, DatabaseRead
        <3>5. QED
            BY <1>1, <2>1, <2>3, <2>4, <3>2, <3>3, <3>4, StillVars DEF DatabaseRead, Tells
    <2>8. ManifestRead'
        <3>1. ManifestLost(look.mf.mid)' = ManifestLost(look.mf.mid)
            BY <1>1, <2>1, <2>3, StillVars, StillWriter DEF ManifestLost
        <3>2. QED
            BY <1>1, <2>3, <2>5, <3>1, StillVars DEF HealthInv, ManifestRead
    <2>9. ReadyOnce'
        <3>1. NoLonger' = NoLonger
            BY <1>1, <2>1, <2>3, StillVars, StillWriter DEF NoLonger
        <3>2. QED
            BY <1>1, <2>1, <2>4, <2>5, <3>1, StillVars DEF HealthInv, ReadyOnce
    <2>10. FirstLook' /\ Token' /\ Shortened'
        BY <1>1, <2>1, <2>5, StillFirst DEF HealthInv, Shortened
    <2>11. FirstGood' = FirstGood /\ binding' = binding
        BY <1>1, <2>1, StillLook, StillVars
    <2>12. ASSUME Looked, first.sqlite, DatabaseDiffers
           PROVE  DatabaseDiffers'
        <3>1. look.again
            BY <1>1, <2>12 DEF Looked
        <3>2. DatabaseLost(first.mid, first.graph) /\ binding # None
            BY <1>1, <2>12 DEF DatabaseDiffers, HealthInv, FirstLook, SeenDatabase
        <3>3. binding.mid # first.mid \/ (first.graph = "ready" /\ graph = "stale")
            BY <1>3, <3>2, LostDiffers
        <3>4. RowDiffers'
            BY <2>1, <2>3, <2>4, <3>3 DEF RowDiffers
        <3>5. QED
            BY <2>1, <2>3, <3>1, <3>4 DEF DatabaseDiffers
    <2>13. GoodLook'
        <3>1. Suspect' = Suspect
            BY <1>1, <2>1, <2>5 DEF Suspect
        <3>2. ManifestDiffers => ManifestDiffers'
            BY <1>1, <2>1, <2>3, StillLook DEF ManifestDiffers, ReadManifestSteps
        <3>3. DescriptorDiffers => DescriptorDiffers'
            BY <2>1, <1>1, StillLook DEF DescriptorDiffers
        <3>4. Looked /\ FirstGood => (DatabaseDiffers => DatabaseDiffers')
            BY <2>12 DEF FirstGood
        <3>5. QED
            BY <1>1, <2>1, <2>5, <2>11, <3>1, <3>2, <3>3, <3>4 DEF HealthInv, GoodLook
    <2>14. BadLook'
        <3>1. Looked /\ WasReady' => WasReady
            BY <1>1, <2>1, <2>3, StillVars DEF WasReady, DatabaseDone
        <3>2. first.sqlite /\ Outrun => Outrun'
            <4>1. SUFFICES ASSUME first.sqlite, Outrun PROVE Outrun'
                OBVIOUS
            <4>2. Reached({"finalSweep"})' = Reached({"finalSweep"})
                BY <1>1, <2>1, StillWriter
            <4>3. look.again => look.mf = manifest
                BY <1>1, <4>1 DEF Outrun, ReadManifestSteps
            <4>4. look.again => ManifestValid(look.mf, DatabaseSeen)
                <5>1. SUFFICES ASSUME look.again PROVE ManifestValid(look.mf, DatabaseSeen)
                    OBVIOUS
                <5>2. look.mf = manifest /\ manifest.mid = binding.mid /\ manifest # None
                    BY <1>1, <2>4, <4>1, <4>3, <5>1 DEF Outrun, Records
                <5>3. binding # None
                    BY <1>1, <2>4, <4>1, <5>1 DEF HealthInv, FirstLook, SeenDatabase, Looked
                <5>4. Tells(manifest, binding)
                    BY <5>2, <5>3 DEF WriterInv, NameInv, NamesTell
                <5>5. QED
                    BY <2>4, <5>2, <5>4 DEF ManifestValid, Tells
            <4>5. QED
                BY <1>1, <2>1, <2>3, <4>1, <4>2, <4>3, <4>4, StillVars
                   DEF Outrun, ManifestValid, ReadManifestSteps
        <3>3. Looked /\ ~FirstGood /\ WasReady /\ ~first.sqlite => binding # None
            BY <1>1 DEF HealthInv, BadLook
        <3>4. QED
            BY <1>1, <2>1, <2>3, <2>4, <2>5, <2>11, <2>12, <3>1, <3>2, <3>3 DEF HealthInv, BadLook
    <2>15. Reported'
        BY <2>1 DEF HealthInv, Reported, ReportWasTrue, CorruptNeverReady
    <2>16. QED
        BY <2>6, <2>7, <2>8, <2>9, <2>10, <2>13, <2>14, <2>15 DEF HealthInv
<1>4. QED
    BY <1>2, <1>3

\* The snapshot that ReadDescriptor puts together.
Snap == SnapshotOf(look.mf, look.db, SeenDescriptor)

\* The snapshot put together from a database with a binding, field by field.
LEMMA BoundFieldsOf ==
    ASSUME NEW mf, NEW db, NEW desc, db.binding # None,
           NEW s, s = SnapshotOf(mf, db, desc)
    PROVE  /\ s.mid = db.binding.mid /\ s.graph = db.graph
           /\ s.files = db.binding.obs /\ s.ids = db.binding.ids
           /\ s.gen = IF desc # None THEN desc ELSE db.binding.gen
           /\ s.sqlite \in BOOLEAN /\ s.manifest \in BOOLEAN /\ s.vector \in BOOLEAN
           /\ s.sqlite
           /\ s.manifest <=> ManifestValid(mf, db)
           /\ s.vector <=> VectorValid(mf, db, desc)
           /\ s.token # <<>> =>
                  /\ desc # None /\ db.graph = "ready"
                  /\ s.token[1] = mf /\ s.token[2] = db /\ s.token[3] = desc
<1> DEFINE count == GenerationCount(IF desc # None THEN desc ELSE mf.gen)
           valid == ManifestValid(mf, db)
           vector == VectorValid(mf, db, desc)
           gen == IF desc # None THEN desc ELSE db.binding.gen
           token == IF desc # None /\ CounterBound(db) THEN <<mf, db, desc, count>> ELSE <<>>
<1>1. s = [mid |-> db.binding.mid, graph |-> db.graph, reason |-> db.reason,
           files |-> db.binding.obs, ids |-> db.binding.ids,
           gen |-> gen, manifest |-> valid, sqlite |-> TRUE,
           vector |-> vector, count |-> count, token |-> token]
    BY DEF SnapshotOf, BoundSnapshot
<1>2. token # <<>> => /\ desc # None /\ db.graph = "ready"
                      /\ token[1] = mf /\ token[2] = db /\ token[3] = desc
    <2> HIDE DEF count
    <2> QED
        BY DEF CounterBound
<1> HIDE DEF count, valid, vector, gen, token
<1>3. /\ s.mid = db.binding.mid /\ s.graph = db.graph
      /\ s.files = db.binding.obs /\ s.ids = db.binding.ids
      /\ s.gen = gen /\ s.sqlite = TRUE /\ s.manifest = valid /\ s.vector = vector
      /\ s.token = token
    BY <1>1
<1>4. /\ valid \in BOOLEAN /\ vector \in BOOLEAN
      /\ gen = IF desc # None THEN desc ELSE db.binding.gen
    BY DEF valid, vector, gen, ManifestValid, VectorValid
<1>5. s.sqlite \in BOOLEAN /\ s.manifest \in BOOLEAN /\ s.vector \in BOOLEAN
    BY <1>3, <1>4
<1>6. /\ s.sqlite
      /\ s.manifest <=> ManifestValid(mf, db)
      /\ s.vector <=> VectorValid(mf, db, desc)
    BY <1>3 DEF valid, vector
<1>7. QED
    BY <1>2, <1>3, <1>4, <1>5, <1>6

\* The one put together from a database without.
LEMMA UnboundFieldsOf ==
    ASSUME NEW mf, NEW db, NEW desc, db.binding = None,
           NEW s, s = SnapshotOf(mf, db, desc)
    PROVE  /\ s.mid = mf.mid /\ s.graph = db.graph /\ s.gen = mf.gen
           /\ s.sqlite \in BOOLEAN /\ s.manifest \in BOOLEAN /\ s.vector \in BOOLEAN
           /\ s.manifest /\ ~s.sqlite /\ ~s.vector
           /\ s.token = <<>>
<1> DEFINE count == GenerationCount(mf.gen)
           none == <<>>
<1>1. s = [mid |-> mf.mid, graph |-> db.graph, reason |-> db.reason, files |-> NoWorkspace,
           ids |-> {}, gen |-> mf.gen, manifest |-> TRUE, sqlite |-> FALSE, vector |-> FALSE,
           count |-> count, token |-> none]
    BY DEF SnapshotOf, UnboundSnapshot
<1> HIDE DEF count, none
<1>2. /\ s.mid = mf.mid /\ s.graph = db.graph /\ s.gen = mf.gen
      /\ s.manifest = TRUE /\ s.sqlite = FALSE /\ s.vector = FALSE
      /\ s.token = none
    BY <1>1
<1>3. QED
    BY <1>2 DEF none

\* BoundFieldsOf for the look that is being taken.
LEMMA BoundFields ==
    ASSUME look.db.binding # None
    PROVE  /\ Snap.mid = look.db.binding.mid /\ Snap.graph = look.db.graph
           /\ Snap.files = look.db.binding.obs /\ Snap.ids = look.db.binding.ids
           /\ Snap.gen = IF SeenDescriptor # None THEN SeenDescriptor ELSE look.db.binding.gen
           /\ Snap.sqlite \in BOOLEAN /\ Snap.manifest \in BOOLEAN /\ Snap.vector \in BOOLEAN
           /\ Snap.sqlite
           /\ Snap.manifest <=> ManifestValid(look.mf, look.db)
           /\ Snap.vector <=> VectorValid(look.mf, look.db, SeenDescriptor)
           /\ Snap.token # <<>> =>
                  /\ SeenDescriptor # None /\ look.db.graph = "ready"
                  /\ Snap.token[1] = look.mf /\ Snap.token[2] = look.db
                  /\ Snap.token[3] = SeenDescriptor
<1> DEFINE mf == look.mf
           db == look.db
           desc == SeenDescriptor
<1>1. Snap = SnapshotOf(mf, db, desc) /\ db.binding # None
    BY DEF Snap
<1> HIDE DEF mf, db, desc
<1>2. QED
    BY <1>1, BoundFieldsOf DEF mf, db, desc

\* UnboundFieldsOf for the look that is being taken.
LEMMA UnboundFields ==
    ASSUME look.db.binding = None
    PROVE  /\ Snap.mid = look.mf.mid /\ Snap.graph = look.db.graph /\ Snap.gen = look.mf.gen
           /\ Snap.sqlite \in BOOLEAN /\ Snap.manifest \in BOOLEAN /\ Snap.vector \in BOOLEAN
           /\ Snap.manifest /\ ~Snap.sqlite /\ ~Snap.vector
           /\ Snap.token = <<>>
<1> DEFINE mf == look.mf
           db == look.db
           desc == SeenDescriptor
<1>1. Snap = SnapshotOf(mf, db, desc) /\ db.binding = None
    BY DEF Snap
<1> HIDE DEF mf, db, desc
<1>2. QED
    BY <1>1, UnboundFieldsOf DEF mf, db, desc

\* A second snapshot that finds a difference is another snapshot.
LEMMA GoodDiffers ==
    ASSUME FirstGood, look.again, step = "descriptor",
           ManifestDiffers \/ DescriptorDiffers \/ DatabaseDiffers
    PROVE  Snap # first
<1>1. SUFFICES ASSUME Snap = first PROVE FALSE
    OBVIOUS
<1>2. first.manifest /\ first.sqlite /\ first.vector
    BY DEF FirstGood
<1>3. look.db.binding # None
    BY <1>1, <1>2, UnboundFields
<1>4. /\ first.mid = look.db.binding.mid /\ first.graph = look.db.graph
      /\ first.gen = IF SeenDescriptor # None THEN SeenDescriptor ELSE look.db.binding.gen
      /\ ManifestValid(look.mf, look.db) /\ VectorValid(look.mf, look.db, SeenDescriptor)
    BY <1>1, <1>2, <1>3, BoundFields
<1>5. look.mf.mid = first.mid
    BY <1>4 DEF ManifestValid
<1>6. descriptor = first.gen
    BY <1>4 DEF VectorValid, SeenDescriptor
<1>7. ~RowDiffers
    BY <1>3, <1>4 DEF RowDiffers
<1>8. QED
    BY <1>5, <1>6, <1>7 DEF ManifestDiffers, DescriptorDiffers, DatabaseDiffers, DescriptorLost,
       ReadManifestSteps

\* A second look at what is lost is not equal to the first.
LEMMA BadDiffers ==
    ASSUME look.again, step = "descriptor",
           IF ~first.sqlite THEN look.db.binding # None
                            ELSE first.sqlite = TRUE /\ (DatabaseDiffers \/ Outrun)
    PROVE  Snap # first
<1>1. SUFFICES ASSUME Snap = first PROVE FALSE
    OBVIOUS
<1>2. CASE ~first.sqlite
    BY <1>1, <1>2, BoundFields
<1>3. CASE first.sqlite
    <2>1. look.db.binding # None
        BY <1>1, <1>3, UnboundFields
    <2>2. first.mid = look.db.binding.mid /\ first.graph = look.db.graph
          /\ (first.manifest <=> ManifestValid(look.mf, look.db))
        BY <1>1, <2>1, BoundFields
    <2>3. ~RowDiffers
        BY <2>1, <2>2 DEF RowDiffers
    <2>4. ~Outrun
        BY <2>2 DEF Outrun
    <2>5. QED
        BY <1>3, <2>3, <2>4 DEF DatabaseDiffers
<1>4. QED
    BY <1>2, <1>3

\* What a read of the descriptor returns.
LEMMA DescriptorTyped ==
    ASSUME WriterInv
    PROVE  /\ SeenDescriptor # None => SeenDescriptor = descriptor /\ SeenDescriptor \in Gens
           /\ descriptor # None => SeenDescriptor = descriptor
<1>1. descriptor \in Gens \union {None} /\ (descriptor # None => DescriptorReadable)
    BY DEF WriterInv, IInv, TypeOK, ArtifactInv, PublishedGenerationKept
<1>2. QED
    BY <1>1 DEF SeenDescriptor

\* The end of the second look keeps HealthInv.
LEMMA SecondDescriptorHealth ==
    ASSUME WriterInv, HealthInv, ReadDescriptor, look.again
    PROVE  HealthInv'
<1>1. /\ step = "descriptor" /\ step' = "writer" /\ Still /\ look' = NoLook
      /\ checks' = [checks EXCEPT !.snapshot = (Snap = first)]
      /\ UNCHANGED <<mode, first, inv, unread, report, truth, runsLeft>>
    BY DEF ReadDescriptor, Snap
<1>2. Records /\ look'.again = FALSE
    BY <1>1 DEF HealthInv, NoLook
<1> DEFINE same == Snap = first
<1> HIDE DEF same
<1>3. checks' = [vectors |-> checks.vectors, changed |-> checks.changed,
                 inventory |-> checks.inventory, snapshot |-> same]
    BY <1>1, <1>2 DEF Records, same
<1>4. /\ checks'.vectors = checks.vectors /\ checks'.changed = checks.changed
      /\ checks'.inventory = checks.inventory /\ checks'.snapshot = same
    BY <1>3
<1>5. same \in BOOLEAN
    BY DEF same
<1>6. Inspecting /\ Inspecting' /\ Looked /\ Looked' /\ Closed /\ Closed' /\ ~Opened'
    BY <1>1, <1>2 DEF Inspecting, InspectionSteps, Looked, Closed, Opened
<1>7. Records'
    <2>1. look' = [mf |-> look'.mf, db |-> look'.db, again |-> look'.again]
        BY <1>1 DEF NoLook
    <2>2. manifest' # None /\ (pc' # "idle" => runsLeft' = 0)
        BY <1>1, <1>2, <1>6, StillVars DEF Records
    <2>3. checks' = [vectors |-> checks'.vectors, changed |-> checks'.changed,
                     inventory |-> checks'.inventory, snapshot |-> checks'.snapshot]
        BY <1>3
    <2>4. checks'.snapshot \in BOOLEAN /\ checks'.inventory \in BOOLEAN
          /\ checks'.changed \subseteq Paths
          /\ checks'.vectors \in {"none", "valid", "invalid", "interrupted"}
        BY <1>2, <1>4, <1>5 DEF Records
    <2>5. QED
        BY <1>1, <1>2, <1>6, <2>1, <2>2, <2>3, <2>4 DEF Records, InspectionSteps, PreflightSteps
<1>8. DatabaseRead' /\ ManifestRead' /\ Shortened'
    BY <1>1, <1>6 DEF DatabaseRead, ManifestRead, Shortened
<1>9. ReadyOnce'
    BY <1>1, <1>6, StillVars DEF HealthInv, ReadyOnce
<1>10. FirstLook' /\ Token'
    BY <1>1, <1>6, StillFirst DEF HealthInv
<1>11. FirstGood' = FirstGood
    BY <1>1, StillLook
<1>12. GoodLook'
    <2>1. Suspect' = Suspect
        BY <1>1, <1>4, <1>6 DEF Suspect
    <2>2. FirstGood /\ Suspect => ~same
        BY <1>1, <1>6, GoodDiffers DEF HealthInv, GoodLook, same
    <2>3. QED
        BY <1>1, <1>4, <1>11, <2>1, <2>2 DEF GoodLook
<1>13. BadLook'
    <2>1. WasReady' => WasReady
        BY <1>1, StillVars DEF WasReady, DatabaseDone
    <2>2. ~FirstGood /\ WasReady => ~same
        BY <1>1, <1>6, BadDiffers DEF HealthInv, BadLook, FirstLook, same
    <2>3. QED
        BY <1>1, <1>4, <1>11, <2>1, <2>2 DEF BadLook
<1>14. Reported'
    BY <1>1 DEF HealthInv, Reported, ReportWasTrue, CorruptNeverReady
<1>15. QED
    BY <1>7, <1>8, <1>9, <1>10, <1>12, <1>13, <1>14 DEF HealthInv

-----------------------------------------------------------------------------
(* The opening snapshot *)

SnapGood == Snap.manifest /\ Snap.sqlite /\ Snap.vector

\* The types of the first look.
LEMMA SnapTyped ==
    ASSUME WriterInv, HealthInv, step = "descriptor", ~look.again
    PROVE  /\ Snap.graph \in {"stale", "ready"} /\ Snap.gen \in Gens
           /\ Snap.manifest \in BOOLEAN /\ Snap.sqlite \in BOOLEAN /\ Snap.vector \in BOOLEAN
           /\ Snap.sqlite <=> look.db.binding # None
<1>1. look.mf \in Manifests /\ look.db \in SeenRow
    BY DEF HealthInv, Records, DatabaseRead
<1>2. look.mf.gen \in Gens
    BY <1>1 DEF Manifests
<1>3. look.db.graph \in {"stale", "ready"} /\ look.db.binding \in Bindings \union {None}
    BY <1>1 DEF SeenRow
<1>4. CASE look.db.binding = None
    BY <1>2, <1>3, <1>4, UnboundFields
<1>5. CASE look.db.binding # None
    <2>1. look.db.binding.gen \in Gens
        BY <1>3, <1>5 DEF Bindings
    <2>2. Snap.gen \in Gens
        BY <1>5, <2>1, BoundFields, DescriptorTyped
    <2>3. QED
        BY <1>3, <1>5, <2>2, BoundFields
<1>6. QED
    BY <1>4, <1>5

\* A first look whose rows were readable has seen the database.
LEMMA SnapSeen ==
    ASSUME WriterInv, HealthInv, step = "descriptor", ~look.again, Snap.sqlite
    PROVE  /\ SeenDatabase(Snap.mid, Snap.graph) /\ binding # None
           /\ Snap.files \in Snapshot
           /\ binding.mid = Snap.mid =>
                  /\ binding = look.db.binding
                  /\ binding.obs = Snap.files /\ binding.ids = Snap.ids
<1>1. look.db.binding # None
    BY SnapTyped
<1>2. /\ Snap.mid = look.db.binding.mid /\ Snap.graph = look.db.graph
      /\ Snap.files = look.db.binding.obs /\ Snap.ids = look.db.binding.ids
    BY <1>1, BoundFields
<1>3. /\ SeenDatabase(look.db.binding.mid, look.db.graph)
      /\ binding.mid = look.db.binding.mid => binding = look.db.binding
    BY <1>1 DEF HealthInv, DatabaseRead
<1>4. look.db.binding \in Bindings
    BY <1>1 DEF HealthInv, DatabaseRead, SeenRow
<1>5. Snap.files \in Snapshot
    BY <1>2, <1>4 DEF Bindings
<1>6. QED
    BY <1>2, <1>3, <1>5 DEF SeenDatabase

\* A first look without faults has seen all three artifacts.
LEMMA SnapGoodSeen ==
    ASSUME WriterInv, HealthInv, step = "descriptor", ~look.again, SnapGood
    PROVE  /\ SeenManifest(Snap.mid) /\ SeenGeneration(Snap.gen)
           /\ binding.mid = Snap.mid => binding.gen = Snap.gen
<1>1. look.db.binding # None /\ Snap.sqlite
    BY SnapTyped DEF SnapGood
<1>2. /\ Snap.mid = look.db.binding.mid
      /\ Snap.gen = IF SeenDescriptor # None THEN SeenDescriptor ELSE look.db.binding.gen
      /\ ManifestValid(look.mf, look.db) /\ VectorValid(look.mf, look.db, SeenDescriptor)
    BY <1>1, BoundFields DEF SnapGood
<1>3. look.mf.mid = Snap.mid
    BY <1>2 DEF ManifestValid
<1>4. SeenManifest(Snap.mid)
    BY <1>3 DEF HealthInv, ManifestRead, Opened, SeenManifest
<1>5. Snap.gen = descriptor /\ look.db.binding.gen = Snap.gen
    BY <1>2, DescriptorTyped DEF VectorValid
<1>6. QED
    BY <1>1, <1>4, <1>5, SnapSeen DEF SeenGeneration

\* Only a ready index with a binding gives a look its short form.
LEMMA SnapToken ==
    ASSUME WriterInv, HealthInv, step = "descriptor", ~look.again, Snap.token # <<>>
    PROVE  /\ Snap.sqlite /\ Snap.graph = "ready"
           /\ Snap.token[2].graph = "ready" /\ Snap.token[2].binding # None
           /\ Snap.token[2].binding.mid = Snap.mid
           /\ Snap.token[3] = Snap.gen
           /\ Snap.manifest <=> Snap.token[1].mid = Snap.mid
<1>1. look.db.binding # None
    BY UnboundFields
<1>2. /\ Snap.sqlite /\ Snap.graph = "ready" /\ Snap.mid = look.db.binding.mid
      /\ Snap.token[1] = look.mf /\ Snap.token[2] = look.db /\ Snap.token[3] = Snap.gen
      /\ look.db.graph = "ready"
      /\ Snap.manifest <=> ManifestValid(look.mf, look.db)
    BY <1>1, BoundFields
<1>3. ManifestValid(look.mf, look.db) <=> look.mf.mid = look.db.binding.mid
    BY <1>1 DEF HealthInv, DatabaseRead, ManifestValid, Tells
<1>4. QED
    BY <1>1, <1>2, <1>3

\* A manifest and vectors that tell of the binding that was read.
LEMMA SnapAgrees ==
    ASSUME WriterInv, HealthInv, step = "descriptor", ~look.again, Snap.sqlite,
           binding = look.db.binding, look.mf.mid = binding.mid, descriptor = binding.gen
    PROVE  SnapGood
<1>1. look.db.binding # None /\ binding \in Bindings
    BY SnapTyped, WriterTyped
<1>2. Tells(look.mf, look.db.binding)
    BY <1>1 DEF HealthInv, DatabaseRead
<1>3. ManifestValid(look.mf, look.db)
    BY <1>2 DEF ManifestValid, Tells
<1>4. binding.gen \in Gens
    BY <1>1 DEF Bindings
<1>5. descriptor # None /\ genIds[descriptor] = binding.ids
    BY <1>1, <1>4, SentinelAssumption DEF WriterInv, CInv, BindingIntact
<1>6. SeenDescriptor = descriptor
    BY <1>5, DescriptorTyped
<1>7. VectorValid(look.mf, look.db, SeenDescriptor)
    BY <1>2, <1>5, <1>6 DEF VectorValid, Tells
<1>8. QED
    BY <1>1, <1>3, <1>7, BoundFields DEF SnapGood

\* An opening snapshot that is not valid although the index was ready is outdated.
LEMMA SnapBad ==
    ASSUME WriterInv, HealthInv, step = "descriptor", ~look.again, Snap.sqlite, ~SnapGood,
           truth.ready \/ graph = "ready"
    PROVE  \/ DatabaseLost(Snap.mid, Snap.graph)
           \/ /\ ~Snap.manifest
              /\ manifest.mid = Snap.mid /\ binding.mid = Snap.mid /\ Reached({"finalSweep"})
<1>1. SUFFICES ASSUME ~DatabaseLost(Snap.mid, Snap.graph)
               PROVE  /\ ~Snap.manifest
                      /\ manifest.mid = Snap.mid /\ binding.mid = Snap.mid
                      /\ Reached({"finalSweep"})
    OBVIOUS
<1>2. /\ binding.mid = Snap.mid /\ graph = Snap.graph /\ OperationalReadable
      /\ binding = look.db.binding /\ binding # None
    BY <1>1, SnapSeen DEF SeenDatabase, DatabaseKept
<1>3. look.db.binding # None /\ Snap.mid = look.db.binding.mid
      /\ (Snap.manifest <=> ManifestValid(look.mf, look.db))
    BY <1>2, BoundFields
<1>4. manifest = look.mf \/ ManifestLost(look.mf.mid)
    BY DEF HealthInv, ManifestRead, Opened
<1>5. CASE graph = "ready"
    <2>1. manifest.mid = binding.mid /\ descriptor = binding.gen
        BY <1>5, ReadyArtifacts DEF BoundIdentityMatches
    <2>2. look.mf.mid # binding.mid
        BY <1>2, <2>1, SnapAgrees
    <2>3. ManifestLost(look.mf.mid)
        BY <1>4, <2>1, <2>2
    <2>4. pc # "commit"
        BY <1>5 DEF WriterInv, IInv, RunInv, MarkedStale, MarkedSteps
    <2>5. Reached({"finalSweep"})
        BY <2>3, <2>4 DEF ManifestLost, Reached
    <2>6. QED
        BY <1>2, <1>3, <2>1, <2>2, <2>5 DEF ManifestValid
<1>6. CASE graph # "ready"
    <2>1. NoLonger
        BY <1>6 DEF HealthInv, ReadyOnce, Opened
    <2>2. binding.mid = look.mf.mid /\ descriptor = binding.gen
        BY <1>2, <2>1 DEF NoLonger
    <2>3. QED
        BY <1>2, <2>2, SnapAgrees
<1>7. QED
    BY <1>5, <1>6

\* The end of the first look keeps HealthInv.
LEMMA FirstDescriptorHealth ==
    ASSUME WriterInv, HealthInv, ReadDescriptor, ~look.again
    PROVE  HealthInv'
<1>1. /\ step = "descriptor" /\ step' = "inventory" /\ Still /\ look' = NoLook
      /\ first' = Snap
      /\ UNCHANGED <<mode, inv, unread, checks, report, truth, runsLeft>>
    BY DEF ReadDescriptor, Snap
<1>2. Records /\ look'.again = FALSE
    BY <1>1 DEF HealthInv, NoLook
<1>3. /\ Inspecting /\ Inspecting' /\ ~Looked /\ Looked' /\ ~Closed' /\ Opened /\ ~Opened'
    BY <1>1, <1>2 DEF Inspecting, InspectionSteps, Looked, Closed, Opened
<1>4. checks = NoChecks
    BY <1>2, <1>3 DEF Records
<1>5. Records'
    <2>1. look' = [mf |-> look'.mf, db |-> look'.db, again |-> look'.again]
        BY <1>1 DEF NoLook
    <2>2. manifest' # None /\ (pc' # "idle" => runsLeft' = 0)
        BY <1>1, <1>2, <1>3, StillVars DEF Records
    <2>3. QED
        BY <1>1, <1>2, <1>3, <2>1, <2>2, ZenonT(60) DEF Records, InspectionSteps, PreflightSteps
<1>6. DatabaseRead' /\ ManifestRead' /\ Shortened'
    BY <1>1, <1>3 DEF DatabaseRead, ManifestRead, Shortened
<1>7. ReadyOnce'
    BY <1>1, <1>3, StillVars DEF HealthInv, ReadyOnce
<1>8. FirstGood' = SnapGood
    BY <1>1 DEF FirstGood, SnapGood
<1>9. /\ SeenManifest(first.mid)' = SeenManifest(Snap.mid)
      /\ SeenGeneration(first.gen)' = SeenGeneration(Snap.gen)
    BY <1>1, StillVars, StillWriter DEF SeenManifest, ManifestLost, SeenGeneration, DescriptorLost
<1>10. DatabaseLost(first.mid, first.graph)' = DatabaseLost(Snap.mid, Snap.graph)
    <2>1. UNCHANGED <<graph, binding>> /\ Marked' = Marked /\ Rewritten' = Rewritten
        BY <1>1, StillVars, StillWriter
    <2>2. Reached({"finalSweep"})' = Reached({"finalSweep"})
        BY <1>1, StillVars DEF Reached
    <2>3. first'.mid = Snap.mid /\ first'.graph = Snap.graph
        BY <1>1
    <2>4. QED
        BY <2>1, <2>2, <2>3 DEF DatabaseLost
<1>11. SeenDatabase(first.mid, first.graph)' = SeenDatabase(Snap.mid, Snap.graph)
    <2>1. UNCHANGED <<graph, binding>> /\ OperationalReadable' = OperationalReadable
        BY <1>1, StillVars, StillWriter
    <2>2. first'.mid = Snap.mid /\ first'.graph = Snap.graph
        BY <1>1
    <2>3. DatabaseKept(first.mid, first.graph)' = DatabaseKept(Snap.mid, Snap.graph)
        BY <2>1, <2>2 DEF DatabaseKept
    <2>4. QED
        BY <1>10, <2>1, <2>3 DEF SeenDatabase
<1>12. FirstLook'
    <2>1. /\ first'.graph \in {"stale", "ready"} /\ first'.gen \in Gens
          /\ first'.manifest \in BOOLEAN /\ first'.sqlite \in BOOLEAN
          /\ first'.vector \in BOOLEAN
        BY <1>1, <1>2, SnapTyped
    <2>2. first'.sqlite =>
               /\ SeenDatabase(first.mid, first.graph)'
               /\ first'.files \in Snapshot
               /\ binding'.mid = first'.mid =>
                      binding'.obs = first'.files /\ binding'.ids = first'.ids
        BY <1>1, <1>11, SnapSeen, StillVars
    <2>3. FirstGood' =>
               /\ SeenManifest(first.mid)'
               /\ SeenGeneration(first.gen)'
               /\ binding'.mid = first'.mid => binding'.gen = first'.gen
        BY <1>1, <1>8, <1>9, SnapGoodSeen, StillVars
    <2>4. QED
        BY <2>1, <2>2, <2>3 DEF FirstLook
<1>13. Token'
    BY <1>1, SnapToken DEF Token
<1>14. GoodLook'
    <2>1. ~Suspect'
        BY <1>1, <1>3, <1>4 DEF Suspect, NoChecks
    <2>2. QED
        BY <2>1 DEF GoodLook
<1>15. BadLook'
    <2>1. WasReady' => truth.ready \/ graph = "ready"
        BY <1>1, StillVars DEF WasReady
    <2>2. truth.ready \/ graph = "ready" => binding # None
        BY <1>3, ReadyBinding DEF HealthInv, ReadyOnce
    <2>3. CASE ~Snap.sqlite
        BY <1>1, <1>2, <2>1, <2>2, <2>3, StillVars DEF BadLook
    <2>4. CASE Snap.sqlite
        <3>1. SUFFICES ASSUME ~SnapGood, truth.ready \/ graph = "ready"
                       PROVE  DatabaseDiffers' \/ Outrun'
            BY <1>1, <1>8, <2>1, <2>4 DEF BadLook
        <3>2. CASE DatabaseLost(Snap.mid, Snap.graph)
            BY <1>1, <1>10, <3>2 DEF DatabaseDiffers
        <3>3. CASE /\ ~Snap.manifest
                   /\ manifest.mid = Snap.mid /\ binding.mid = Snap.mid
                   /\ Reached({"finalSweep"})
            <4>1. Reached({"finalSweep"})'
                BY <1>1, <3>3, StillWriter
            <4>2. QED
                BY <1>1, <1>2, <3>3, <4>1, StillVars DEF Outrun
        <3>4. QED
            BY <1>1, <2>4, <3>1, <3>2, <3>3, SnapBad
    <2>5. QED
        BY <2>3, <2>4
<1>16. Reported'
    BY <1>1 DEF HealthInv, Reported, ReportWasTrue, CorruptNeverReady
<1>17. QED
    BY <1>5, <1>6, <1>7, <1>12, <1>13, <1>14, <1>15, <1>16 DEF HealthInv

-----------------------------------------------------------------------------
(* Between the two snapshots *)

ChecksTyped ==
    /\ checks = [vectors |-> checks.vectors, changed |-> checks.changed,
                 inventory |-> checks.inventory, snapshot |-> checks.snapshot]
    /\ checks.vectors \in {"none", "valid", "invalid", "interrupted"}
    /\ checks.changed \subseteq Paths
    /\ checks.inventory \in BOOLEAN /\ checks.snapshot \in BOOLEAN

\* Between the looks an inspection only adds to its checks.
LEMMA MiddleHealth ==
    ASSUME WriterInv, HealthInv, Still, step \in {"inventory", "files", "vectors"},
           step' \in {"files", "vectors", "closing"},
           UNCHANGED <<mode, look, first, report, truth, runsLeft>>,
           inv' \in Snapshot, unread' \subseteq Present(inv'), ChecksTyped',
           FirstGood /\ checks'.vectors = "invalid" =>
               \/ checks.vectors = "invalid"
               \/ DescriptorLost(first.gen) \/ DatabaseLost(first.mid, first.graph)
    PROVE  HealthInv'
<1>1. Records /\ look.again = FALSE /\ look'.again = FALSE
    BY DEF HealthInv, Records
<1>2. /\ Inspecting /\ Inspecting' /\ Looked /\ Looked' /\ ~Closed /\ ~Closed' /\ ~Opened'
    BY <1>1 DEF Inspecting, InspectionSteps, Looked, Closed, Opened
<1>3. Records'
    <2>1. manifest' # None /\ (pc' # "idle" => runsLeft' = 0)
        BY <1>1, <1>2, StillVars DEF Records
    <2>2. QED
        BY <1>1, <1>2, <2>1 DEF Records, InspectionSteps, PreflightSteps, ChecksTyped
<1>4. DatabaseRead' /\ ManifestRead' /\ Shortened'
    BY <1>2 DEF DatabaseRead, ManifestRead, Shortened
<1>5. ReadyOnce'
    BY <1>2, StillVars DEF HealthInv, ReadyOnce
<1>6. FirstLook' /\ Token'
    BY <1>2, StillFirst DEF HealthInv
<1>7. /\ FirstGood' = FirstGood
      /\ ManifestLost(first.mid) => ManifestDiffers'
      /\ DescriptorLost(first.gen) => DescriptorDiffers'
      /\ DatabaseLost(first.mid, first.graph) => DatabaseDiffers'
    BY <1>1, StillLook DEF ManifestDiffers, DescriptorDiffers, DatabaseDiffers
<1>8. GoodLook'
    <2>1. SUFFICES ASSUME FirstGood, checks'.vectors = "invalid"
                   PROVE  ManifestDiffers' \/ DescriptorDiffers' \/ DatabaseDiffers'
        BY <1>2, <1>7 DEF GoodLook, Suspect
    <2>2. CASE checks.vectors = "invalid"
        BY <1>1, <1>2, <1>7, <2>1, <2>2 DEF HealthInv, GoodLook, Suspect, ManifestDiffers,
           DescriptorDiffers, DatabaseDiffers
    <2>3. QED
        BY <1>7, <2>1, <2>2
<1>9. BadLook'
    <2>1. WasReady' => WasReady
        BY <1>1, StillVars DEF WasReady, DatabaseDone
    <2>2. DatabaseDiffers => DatabaseDiffers'
        BY <1>1, <1>7 DEF DatabaseDiffers
    <2>3. Outrun => Outrun'
        <3>1. Reached({"finalSweep"})' = Reached({"finalSweep"})
            BY StillWriter
        <3>2. QED
            BY <1>1, <3>1, StillVars DEF Outrun
    <2>4. QED
        BY <1>1, <1>2, <1>7, <2>1, <2>2, <2>3, StillVars DEF HealthInv, BadLook
<1>10. Reported'
    BY DEF Reported, ReportWasTrue, CorruptNeverReady
<1>11. QED
    BY <1>3, <1>4, <1>5, <1>6, <1>8, <1>9, <1>10 DEF HealthInv

\* The opening inventory keeps HealthInv.
LEMMA OpeningInventoryHealth ==
    ASSUME WriterInv, HealthInv, OpeningInventory
    PROVE  HealthInv'
<1>1. /\ Still /\ step = "inventory" /\ step' \in {"files", "closing"} /\ inv' = ws
      /\ unread' = IF mode = "verified" THEN Present(ws) ELSE {}
      /\ UNCHANGED <<mode, look, first, checks, report, truth, runsLeft>>
    BY DEF OpeningInventory
<1>2. ws \in Snapshot
    BY DEF WriterInv, IInv, TypeOK
<1>3. inv' \in Snapshot /\ unread' \subseteq Present(inv')
    BY <1>1, <1>2 DEF Present
<1>4. ChecksTyped'
    BY <1>1 DEF HealthInv, Records, ChecksTyped
<1>5. QED
    BY <1>1, <1>3, <1>4, MiddleHealth

\* So does reading a file,
LEMMA ReadFileHealth ==
    ASSUME WriterInv, HealthInv, NEW p \in Paths, ReadFile(p)
    PROVE  HealthInv'
<1> DEFINE changed == IF ws[p] # inv[p] THEN checks.changed \union {p} ELSE checks.changed
<1>1. /\ Still /\ step = "files" /\ step' = "files" /\ unread' = unread \ {p}
      /\ checks' = [checks EXCEPT !.changed = changed]
      /\ UNCHANGED <<mode, look, first, inv, report, truth, runsLeft>>
    BY DEF ReadFile
<1>2. Records
    BY DEF HealthInv
<1>3. changed \subseteq Paths
    BY <1>2 DEF Records
<1> HIDE DEF changed
<1>4. checks' = [vectors |-> checks.vectors, changed |-> changed,
                 inventory |-> checks.inventory, snapshot |-> checks.snapshot]
    BY <1>1, <1>2 DEF Records
<1>5. /\ checks'.vectors = checks.vectors /\ checks'.changed = changed
      /\ checks'.inventory = checks.inventory /\ checks'.snapshot = checks.snapshot
    BY <1>4
<1>6. ChecksTyped'
    BY <1>2, <1>3, <1>4, <1>5 DEF Records, ChecksTyped
<1>7. inv' \in Snapshot /\ unread' \subseteq Present(inv')
    BY <1>1, <1>2 DEF Records, Present
<1>8. QED
    BY <1>1, <1>5, <1>6, <1>7, MiddleHealth

\* the end of the reads,
LEMMA FilesReadHealth ==
    ASSUME WriterInv, HealthInv, FilesRead
    PROVE  HealthInv'
<1>1. /\ Still /\ step = "files" /\ step' = "vectors"
      /\ UNCHANGED <<mode, look, first, inv, unread, checks, report, truth, runsLeft>>
    BY DEF FilesRead
<1>2. ChecksTyped' /\ inv' \in Snapshot /\ unread' \subseteq Present(inv')
    BY <1>1 DEF HealthInv, Records, ChecksTyped, Present
<1>3. QED
    BY <1>1, <1>2, MiddleHealth

\* The vectors of an opening snapshot of which nothing is lost hold its ids.
LEMMA VectorsHoldIds ==
    ASSUME WriterInv, HealthInv, Looked, FirstGood, ~DescriptorLost(first.gen),
           ~DatabaseLost(first.mid, first.graph)
    PROVE  /\ binding # None /\ binding.mid = first.mid /\ graph = first.graph
           /\ OperationalReadable /\ binding.obs = first.files /\ binding.ids = first.ids
           /\ descriptor = first.gen /\ descriptor = binding.gen
           /\ DescriptorReadable /\ genIds[descriptor] = binding.ids
<1>1. first.sqlite /\ first.gen \in Gens
    BY DEF FirstGood, HealthInv, FirstLook
<1>2. binding # None /\ binding.mid = first.mid /\ graph = first.graph /\ OperationalReadable
    BY <1>1 DEF HealthInv, FirstLook, SeenDatabase, DatabaseKept
<1>3. binding.obs = first.files /\ binding.ids = first.ids /\ binding.gen = first.gen
    BY <1>1, <1>2 DEF HealthInv, FirstLook
<1>4. descriptor = first.gen
    BY DEF HealthInv, FirstLook, SeenGeneration
<1>5. genIds[descriptor] = binding.ids
    BY <1>2, <1>3, <1>4 DEF WriterInv, CInv, BindingIntact
<1>6. DescriptorReadable
    BY <1>1, <1>4, SentinelAssumption
       DEF WriterInv, IInv, ArtifactInv, PublishedGenerationKept
<1>7. QED
    BY <1>2, <1>3, <1>4, <1>5, <1>6

\* and the look at the vectors.
LEMMA VerifyVectorsHealth ==
    ASSUME WriterInv, HealthInv, VerifyVectors
    PROVE  HealthInv'
<1> DEFINE found == IF ~first.vector \/ ~DescriptorReadable THEN "invalid"
                    ELSE IF genIds[descriptor] # first.ids THEN "invalid"
                    ELSE IF descriptor # first.gen THEN "interrupted"
                    ELSE "valid"
<1>1. /\ Still /\ step = "vectors" /\ step' = "closing"
      /\ checks' = [checks EXCEPT !.vectors = found]
      /\ UNCHANGED <<mode, look, first, inv, unread, report, truth, runsLeft>>
    BY DEF VerifyVectors
<1>2. Records /\ Looked
    BY <1>1 DEF HealthInv, Looked, Inspecting, InspectionSteps
<1>3. found \in {"none", "valid", "invalid", "interrupted"}
    OBVIOUS
<1>4. FirstGood /\ found = "invalid" =>
          DescriptorLost(first.gen) \/ DatabaseLost(first.mid, first.graph)
    <2>1. SUFFICES ASSUME FirstGood, ~DescriptorLost(first.gen),
                          ~DatabaseLost(first.mid, first.graph)
                   PROVE  found # "invalid"
        OBVIOUS
    <2>2. DescriptorReadable /\ genIds[descriptor] = first.ids /\ first.vector
        BY <1>2, <2>1, VectorsHoldIds DEF FirstGood
    <2>3. QED
        BY <2>2
<1> HIDE DEF found
<1>5. checks' = [vectors |-> found, changed |-> checks.changed,
                 inventory |-> checks.inventory, snapshot |-> checks.snapshot]
    BY <1>1, <1>2 DEF Records
<1>6. /\ checks'.vectors = found /\ checks'.changed = checks.changed
      /\ checks'.inventory = checks.inventory /\ checks'.snapshot = checks.snapshot
    BY <1>5
<1>7. ChecksTyped'
    BY <1>2, <1>3, <1>5, <1>6 DEF Records, ChecksTyped
<1>8. inv' \in Snapshot /\ unread' \subseteq Present(inv')
    BY <1>1, <1>2 DEF Records, Present
<1>9. QED
    BY <1>1, <1>4, <1>6, <1>7, <1>8, MiddleHealth

-----------------------------------------------------------------------------
(* The second look begins *)

TruthTyped ==
    /\ truth = [intact |-> truth.intact, fresh |-> truth.fresh, ready |-> truth.ready]
    /\ truth.intact \in BOOLEAN /\ truth.fresh \in BOOLEAN /\ truth.ready \in BOOLEAN

QuickSteps == {"quickManifest", "quickDescriptor", "quickIdentity"}

\* How a second look begins, in either form.
LEMMA AgainHealth ==
    ASSUME WriterInv, HealthInv, Still, step \in QuickSteps \union {"closing"},
           step' \in QuickSteps \union {"manifest"},
           UNCHANGED <<mode, first, inv, unread, report, runsLeft>>,
           look' = [mf |-> look'.mf, db |-> look'.db, again |-> look'.again], look'.again = TRUE,
           ChecksTyped', TruthTyped', truth'.ready = truth.ready,
           step' \in QuickSteps => first.token # <<>>,
           step' \in {"quickDescriptor", "quickIdentity"} =>
               /\ look'.mf \in Manifests
               /\ look'.mf = manifest \/ (step \in ReadManifestSteps /\ look'.mf = look.mf),
           step' = "quickIdentity" => look'.db[1] = descriptor,
           FirstGood /\ Suspect' => ManifestDiffers \/ DescriptorDiffers \/ DatabaseDiffers
    PROVE  HealthInv'
<1>1. Records /\ (step \in QuickSteps => look.again)
    BY DEF HealthInv, Records, QuickSteps
<1>2. Inspecting /\ Inspecting' /\ Looked /\ Looked' /\ Closed' /\ ~Opened'
    BY <1>1 DEF Inspecting, InspectionSteps, Looked, Closed, Opened, QuickSteps
<1>3. Records'
    <2>1. manifest' # None /\ (pc' # "idle" => runsLeft' = 0)
        BY <1>1, <1>2, StillVars DEF Records
    <2>2. inv' \in Snapshot /\ unread' \subseteq Present(inv') /\ mode' \in {"quick", "verified"}
          /\ runsLeft' \in {0, 1}
        BY <1>1 DEF Records, Present
    <2>3. QED
        BY <1>1, <1>2, <2>1, <2>2 DEF Records, InspectionSteps, PreflightSteps, ChecksTyped, TruthTyped, QuickSteps
<1>4. DatabaseRead' /\ ManifestRead' /\ Shortened'
    BY <1>2 DEF DatabaseRead, ManifestRead, Shortened, QuickSteps
<1>5. ReadyOnce'
    BY <1>2, StillVars DEF HealthInv, ReadyOnce
<1>6. FirstLook' /\ Token'
    BY <1>2, StillFirst DEF HealthInv
<1>7. FirstGood' = FirstGood
    BY StillLook
<1>8. /\ ManifestDiffers => ManifestDiffers'
      /\ DescriptorDiffers => DescriptorDiffers'
      /\ DatabaseDiffers => DatabaseDiffers'
    <2>1. ManifestDiffers => ManifestDiffers'
        BY <1>1, StillLook DEF ManifestDiffers, ManifestLost, ReadManifestSteps, QuickSteps
    <2>2. DescriptorDiffers => DescriptorDiffers'
        BY StillLook DEF DescriptorDiffers, DescriptorLost
    <2>3. DatabaseDiffers => DatabaseDiffers'
        BY StillLook DEF DatabaseDiffers, QuickSteps
    <2>4. QED
        BY <2>1, <2>2, <2>3
<1>9. GoodLook'
    BY <1>7, <1>8 DEF GoodLook, QuickSteps
<1>10. BadLook'
    <2>1. WasReady' => WasReady
        BY StillVars DEF WasReady, DatabaseDone, QuickSteps
    <2>2. Outrun => Outrun'
        <3>1. Reached({"finalSweep"})' = Reached({"finalSweep"})
            BY StillWriter
        <3>2. QED
            BY <1>1, <3>1, StillVars DEF Outrun, ReadManifestSteps, QuickSteps
    <2>3. QED
        BY <1>2, <1>7, <1>8, <2>1, <2>2, StillVars DEF HealthInv, BadLook, QuickSteps
<1>11. Reported'
    BY DEF Reported, ReportWasTrue, CorruptNeverReady, QuickSteps
<1>12. QED
    BY <1>3, <1>4, <1>5, <1>6, <1>9, <1>10, <1>11 DEF HealthInv

\* When nothing of a valid opening snapshot is lost, the artifacts agree.
LEMMA NothingLost ==
    ASSUME WriterInv, HealthInv, Looked, FirstGood, ~ManifestLost(first.mid),
           ~DescriptorLost(first.gen), ~DatabaseLost(first.mid, first.graph)
    PROVE  ArtifactsAgree
<1>1. /\ binding # None /\ binding.mid = first.mid /\ graph = first.graph
      /\ OperationalReadable /\ descriptor = binding.gen
      /\ DescriptorReadable /\ genIds[descriptor] = binding.ids
    BY VectorsHoldIds
<1>2. manifest.mid = first.mid
    BY DEF HealthInv, FirstLook, SeenManifest
<1>3. manifest # None
    BY DEF HealthInv, Records, Looked
<1>4. Tells(manifest, binding)
    BY <1>1, <1>2, <1>3 DEF WriterInv, NameInv, NamesTell
<1>5. BoundIdentityMatches
    BY <1>1, <1>2, <1>4 DEF BoundIdentityMatches, Tells
<1>6. QED
    BY <1>1, <1>5 DEF ArtifactsAgree

\* The closing inventory, the instant a report is about, keeps HealthInv.
LEMMA ClosingInventoryHealth ==
    ASSUME WriterInv, HealthInv, ClosingInventory
    PROVE  HealthInv'
<1> DEFINE same   == ws = inv
           intact == ArtifactsAgree
           fresh  == graph = "ready" /\ Observed = ws
<1>1. /\ Still /\ step = "closing"
      /\ checks' = [checks EXCEPT !.inventory = same]
      /\ truth' = [truth EXCEPT !.intact = intact, !.fresh = fresh]
      /\ step' = IF first.token = <<>> THEN "manifest" ELSE "quickManifest"
      /\ look' = [NoLook EXCEPT !.again = TRUE]
      /\ UNCHANGED <<mode, first, inv, unread, report, runsLeft>>
    BY DEF ClosingInventory
<1>2. Records /\ Looked /\ ~look.again
    BY <1>1 DEF HealthInv, Records, Looked, Inspecting, InspectionSteps
<1>3. same \in BOOLEAN /\ intact \in BOOLEAN /\ fresh \in BOOLEAN
    BY DEF ArtifactsAgree
<1>4. FirstGood /\ ~ManifestLost(first.mid) /\ ~DescriptorLost(first.gen)
          /\ ~DatabaseLost(first.mid, first.graph) =>
      intact /\ (first.graph = "ready" /\ first.files = inv /\ same => fresh)
    BY <1>2, NothingLost, VectorsHoldIds DEF OperationalReadable
<1> HIDE DEF same, intact, fresh
<1>5. checks' = [vectors |-> checks.vectors, changed |-> checks.changed,
                 inventory |-> same, snapshot |-> checks.snapshot]
    BY <1>1, <1>2 DEF Records
<1>6. /\ checks'.vectors = checks.vectors /\ checks'.changed = checks.changed
      /\ checks'.inventory = same /\ checks'.snapshot = checks.snapshot
    BY <1>5
<1>7. ChecksTyped'
    BY <1>2, <1>3, <1>5, <1>6 DEF Records, ChecksTyped
<1>8. truth' = [intact |-> intact, fresh |-> fresh, ready |-> truth.ready]
    <2>1. truth \in [intact : BOOLEAN, fresh : BOOLEAN, ready : BOOLEAN]
        BY <1>2 DEF Records
    <2>2. QED
        BY <1>1, <2>1
<1>9. /\ truth'.intact = intact /\ truth'.fresh = fresh /\ truth'.ready = truth.ready
    BY <1>8
<1>10. TruthTyped'
    BY <1>2, <1>3, <1>8, <1>9 DEF Records, TruthTyped
<1>11. look' = [mf |-> None, db |-> None, again |-> TRUE]
    BY <1>1 DEF NoLook
<1>12. look' = [mf |-> look'.mf, db |-> look'.db, again |-> look'.again] /\ look'.again = TRUE
    BY <1>11
<1>13. FirstGood /\ Suspect' => ManifestDiffers \/ DescriptorDiffers \/ DatabaseDiffers
    <2>1. SUFFICES ASSUME FirstGood, Suspect', ~ManifestLost(first.mid),
                          ~DescriptorLost(first.gen), ~DatabaseLost(first.mid, first.graph)
                   PROVE  FALSE
        BY <1>1, <1>2 DEF ManifestDiffers, DescriptorDiffers, DatabaseDiffers
    <2>2. checks.vectors # "invalid"
        BY <1>1, <1>2, <2>1 DEF HealthInv, GoodLook, Suspect, ManifestDiffers,
           DescriptorDiffers, DatabaseDiffers
    <2>3. intact /\ (first.graph = "ready" /\ first.files = inv /\ same => fresh)
        BY <1>4, <2>1
    <2>4. QED
        BY <1>1, <1>6, <1>9, <2>1, <2>2, <2>3 DEF Suspect
<1>14. QED
    BY <1>1, <1>7, <1>9, <1>10, <1>12, <1>13, AgainHealth DEF QuickSteps

\* A short read that changes neither checks nor history.
LEMMA RecheckHealth ==
    ASSUME WriterInv, HealthInv, Still, step \in QuickSteps,
           step' \in QuickSteps \union {"manifest"},
           UNCHANGED <<mode, first, inv, unread, checks, report, truth, runsLeft>>,
           look' = [mf |-> look'.mf, db |-> look'.db, again |-> look'.again], look'.again = TRUE,
           step' \in {"quickDescriptor", "quickIdentity"} =>
               /\ look'.mf \in Manifests
               /\ look'.mf = manifest \/ (step \in ReadManifestSteps /\ look'.mf = look.mf),
           step' = "quickIdentity" => look'.db[1] = descriptor
    PROVE  HealthInv'
<1>1. Records /\ look.again
    BY DEF HealthInv, Records, QuickSteps
<1>2. ChecksTyped' /\ TruthTyped' /\ truth'.ready = truth.ready
    BY <1>1 DEF Records, ChecksTyped, TruthTyped
<1>3. first.token # <<>>
    BY DEF HealthInv, Shortened, QuickSteps
<1>4. Looked /\ Suspect' = Suspect
    BY <1>1 DEF Looked, Suspect, Closed, Inspecting, InspectionSteps, QuickSteps
<1>5. FirstGood /\ Suspect' => ManifestDiffers \/ DescriptorDiffers \/ DatabaseDiffers
    BY <1>4 DEF HealthInv, GoodLook, QuickSteps
<1>6. QED
    BY <1>2, <1>3, <1>5, AgainHealth

\* The short form of the second look: the manifest,
LEMMA RecheckManifestHealth ==
    ASSUME WriterInv, HealthInv, RecheckManifest
    PROVE  HealthInv'
<1>1. /\ Still /\ step = "quickManifest" /\ step' = "quickDescriptor"
      /\ look' = [look EXCEPT !.mf = manifest]
      /\ UNCHANGED <<mode, first, inv, unread, checks, report, truth, runsLeft>>
    BY DEF RecheckManifest
<1>2. Records /\ look.again = TRUE /\ manifest \in Manifests
    BY <1>1, WriterTyped DEF HealthInv, Records, Inspecting, InspectionSteps
<1>3. look' = [mf |-> manifest, db |-> look.db, again |-> look.again]
    BY <1>1, <1>2 DEF Records
<1>4. look' = [mf |-> look'.mf, db |-> look'.db, again |-> look'.again]
      /\ look'.mf = manifest /\ look'.again = TRUE
    BY <1>2, <1>3
<1>5. QED
    BY <1>1, <1>2, <1>4, RecheckHealth DEF QuickSteps

\* the descriptor and the size of its generation,
LEMMA RecheckDescriptorHealth ==
    ASSUME WriterInv, HealthInv, RecheckDescriptor
    PROVE  HealthInv'
<1> DEFINE seen == <<descriptor, GenerationCount(descriptor)>>
<1>1. /\ Still /\ step = "quickDescriptor"
      /\ IF SeenDescriptor = None
         THEN step' = "manifest" /\ UNCHANGED look
         ELSE look' = [look EXCEPT !.db = seen] /\ step' = "quickIdentity"
      /\ UNCHANGED <<mode, first, inv, unread, checks, report, truth, runsLeft>>
    BY DEF RecheckDescriptor
<1>2. Records /\ look.again = TRUE /\ look.mf \in Manifests
    BY <1>1 DEF HealthInv, Records
<1>3. look = [mf |-> look.mf, db |-> look.db, again |-> look.again]
    BY <1>2 DEF Records
<1>4. CASE SeenDescriptor = None
    BY <1>1, <1>2, <1>3, <1>4, RecheckHealth DEF QuickSteps
<1>5. CASE SeenDescriptor # None
    <2>1. seen[1] = descriptor
        OBVIOUS
    <2> HIDE DEF seen
    <2>2. look' = [mf |-> look.mf, db |-> seen, again |-> look.again]
        BY <1>1, <1>3, <1>5
    <2>3. look' = [mf |-> look'.mf, db |-> look'.db, again |-> look'.again]
          /\ look'.mf = look.mf /\ look'.db = seen /\ look'.again = TRUE
        BY <1>2, <2>2
    <2>4. QED
        BY <1>1, <1>2, <1>5, <2>1, <2>3, RecheckHealth DEF QuickSteps, ReadManifestSteps
<1>6. QED
    BY <1>4, <1>5

\* The token that is read again is the first one only if nothing differs.
LEMMA TokenTells ==
    ASSUME WriterInv, HealthInv, step = "quickIdentity", TokenNow = first.token
    PROVE  /\ first.sqlite
           /\ ~DescriptorDiffers /\ ~DatabaseDiffers /\ ~Outrun
           /\ ManifestDiffers => ~first.manifest
<1>1. first.token # <<>> /\ Looked /\ look.again
    BY DEF HealthInv, Shortened, Records, Looked, Inspecting, InspectionSteps
<1>2. /\ first.sqlite /\ first.graph = "ready"
      /\ first.token[2].graph = "ready" /\ first.token[2].binding # None
      /\ first.token[2].binding.mid = first.mid
      /\ first.token[3] = first.gen
      /\ first.manifest <=> first.token[1].mid = first.mid
    BY <1>1 DEF HealthInv, Token
<1>3. first.token[1] = look.mf /\ first.token[2] = DatabaseSeen /\ first.token[3] = look.db[1]
    BY DEF TokenNow
<1>4. DatabaseSeen.graph = graph /\ DatabaseSeen.binding = binding
    BY DEF DatabaseSeen
<1>5. graph = "ready" /\ binding # None /\ binding.mid = first.mid
    BY <1>2, <1>3, <1>4
<1>6. ~DatabaseDiffers
    <2>1. ~DatabaseLost(first.mid, first.graph)
        BY <1>5, ReadyArtifacts, LostDiffers
    <2>2. QED
        BY <2>1 DEF DatabaseDiffers
<1>7. ~DescriptorDiffers
    BY <1>2, <1>3 DEF DescriptorDiffers
<1>8. first.manifest <=> look.mf.mid = first.mid
    BY <1>2, <1>3
<1>9. ~Outrun
    BY <1>1, <1>8 DEF Outrun, ReadManifestSteps
<1>10. ManifestDiffers => ~first.manifest
    BY <1>1, <1>8 DEF ManifestDiffers, ReadManifestSteps
<1>11. QED
    BY <1>2, <1>6, <1>7, <1>9, <1>10

\* and the identity of the database.
LEMMA RecheckIdentityHealth ==
    ASSUME WriterInv, HealthInv, RecheckIdentity
    PROVE  HealthInv'
<1>1. /\ Still /\ step = "quickIdentity"
      /\ step' = IF TokenNow = first.token THEN "writer" ELSE "manifest"
      /\ look' = [NoLook EXCEPT !.again = TRUE]
      /\ UNCHANGED <<mode, first, inv, unread, checks, report, truth, runsLeft>>
    BY DEF RecheckIdentity
<1>2. look' = [mf |-> None, db |-> None, again |-> TRUE]
    BY <1>1 DEF NoLook
<1>3. look' = [mf |-> look'.mf, db |-> look'.db, again |-> look'.again] /\ look'.again = TRUE
    BY <1>2
<1>4. CASE TokenNow # first.token
    BY <1>1, <1>3, <1>4, RecheckHealth DEF QuickSteps
<1>5. CASE TokenNow = first.token
    <2>1. Records /\ look.again /\ step' = "writer"
        BY <1>1, <1>5 DEF HealthInv, Records
    <2>2. Inspecting /\ Inspecting' /\ Looked /\ Looked' /\ Closed /\ Closed' /\ ~Opened'
        BY <1>1, <1>3, <2>1 DEF Inspecting, InspectionSteps, Looked, Closed, Opened
    <2>3. Records'
        <3>1. manifest' # None /\ (pc' # "idle" => runsLeft' = 0)
            BY <1>1, <2>1, <2>2, StillVars DEF Records
        <3>2. QED
            BY <1>1, <1>3, <2>1, <2>2, <3>1 DEF Records, InspectionSteps, PreflightSteps
    <2>4. DatabaseRead' /\ ManifestRead' /\ Shortened'
        BY <2>1, <2>2 DEF DatabaseRead, ManifestRead, Shortened
    <2>5. ReadyOnce'
        BY <1>1, <2>1, <2>2, StillVars DEF HealthInv, ReadyOnce
    <2>6. FirstLook' /\ Token'
        BY <1>1, <2>2, StillFirst DEF HealthInv
    <2>7. FirstGood' = FirstGood
        BY <1>1, StillLook
    <2>8. GoodLook'
        <3>1. Suspect' = Suspect
            BY <1>1, <2>2 DEF Suspect
        <3>2. ~(FirstGood /\ Suspect)
            BY <1>1, <1>5, <2>2, TokenTells DEF HealthInv, GoodLook, FirstGood
        <3>3. QED
            BY <2>7, <3>1, <3>2 DEF GoodLook
    <2>9. BadLook'
        <3>1. WasReady' => WasReady
            BY <1>1, <2>1 DEF WasReady, DatabaseDone
        <3>2. ~(~FirstGood /\ WasReady)
            BY <1>1, <1>5, <2>2, TokenTells DEF HealthInv, BadLook
        <3>3. QED
            BY <2>7, <3>1, <3>2 DEF BadLook
    <2>10. Reported'
        BY <2>1 DEF Reported, ReportWasTrue, CorruptNeverReady
    <2>11. QED
        BY <2>3, <2>4, <2>5, <2>6, <2>8, <2>9, <2>10 DEF HealthInv
<1>6. QED
    BY <1>4, <1>5

-----------------------------------------------------------------------------
(* The report *)

\* Two inventories without a difference are the same.
LEMMA NoDelta ==
    ASSUME first.files \in Snapshot, inv \in Snapshot, ~Delta, checks.changed = {}
    PROVE  first.files = inv
<1>1. \A p \in Paths : first.files[p] = inv[p]
    BY DEF Delta
<1>2. QED
    BY <1>1 DEF Snapshot

\* What a report without reservation rests on.
LEMMA Unreserved ==
    ASSUME HealthInv, step = "writer", NEW active \in BOOLEAN, ~Interrupted(active)
    PROVE  /\ FirstGood /\ Suspect => FALSE
           /\ ~FirstGood => ~truth.ready
<1>1. Looked
    BY DEF Looked, Inspecting, InspectionSteps
<1>2. checks.snapshot
    BY DEF Interrupted, Stable
<1>3. QED
    BY <1>1, <1>2 DEF HealthInv, GoodLook, BadLook, WasReady

\* The probe of the writer, and the report.
LEMMA ProbeWriterHealth ==
    ASSUME WriterInv, HealthInv, ProbeWriter
    PROVE  HealthInv'
<1> DEFINE active == pc # "idle"
           health == Health(active)
           integrity == Integrity(active)
           freshness == Freshness(active)
           queryable == Queryable(first) /\ ~ConfirmedCorrupt(active)
           r == [health |-> health, integrity |-> integrity, freshness |-> freshness,
                 queryable |-> queryable, inspected |-> mode]
<1>1. step = "writer" /\ Answer(r) /\ UNCHANGED truth /\ Still
    BY DEF ProbeWriter
<1>2. Looked /\ Closed
    BY <1>1 DEF Looked, Closed, Inspecting, InspectionSteps
<1>3. active \in BOOLEAN /\ Records
    BY DEF HealthInv
<1>4. ArtifactInvalid <=> ~FirstGood \/ checks.vectors = "invalid"
    BY DEF ArtifactInvalid, FirstGood
<1>5. integrity = "valid" => truth.intact
    <2>1. SUFFICES ASSUME integrity = "valid" PROVE truth.intact
        OBVIOUS
    <2>2. ~Interrupted(active) /\ ~ArtifactInvalid
        BY <2>1 DEF Integrity, ConfirmedCorrupt
    <2>3. FirstGood /\ ~Suspect
        BY <1>1, <1>3, <1>4, <2>2, Unreserved
    <2>4. QED
        BY <1>2, <2>3 DEF Suspect
<1>6. freshness = "fresh" => truth.intact /\ truth.fresh
    <2>1. SUFFICES ASSUME freshness = "fresh" PROVE truth.intact /\ truth.fresh
        OBVIOUS
    <2>2. ~Interrupted(active) /\ ~ArtifactInvalid /\ first.graph # "stale" /\ ~Delta
        BY <2>1 DEF Freshness, ConfirmedCorrupt
    <2>3. FirstGood /\ ~Suspect
        BY <1>1, <1>3, <1>4, <2>2, Unreserved
    <2>4. first.graph = "ready" /\ first.files \in Snapshot
        BY <1>2, <2>2, <2>3 DEF HealthInv, FirstLook, FirstGood
    <2>5. checks.inventory /\ checks.changed = {} /\ inv \in Snapshot
        BY <1>3, <2>2 DEF Interrupted, Stable, Records
    <2>6. first.files = inv
        BY <2>2, <2>4, <2>5, NoDelta
    <2>7. QED
        BY <1>2, <2>3, <2>4, <2>5, <2>6 DEF Suspect
<1>7. health = "corrupt" => ~truth.ready
    <2>1. SUFFICES ASSUME health = "corrupt" PROVE ~truth.ready
        OBVIOUS
    <2>2. ArtifactInvalid /\ ~Interrupted(active)
        BY <2>1 DEF Health, ConfirmedCorrupt
    <2>3. ~FirstGood
        BY <1>1, <1>3, <1>4, <2>2, Unreserved DEF Suspect
    <2>4. QED
        BY <1>1, <1>3, <2>2, <2>3, Unreserved
<1>8. health # "none"
    BY DEF Health
<1> HIDE DEF active, health, integrity, freshness, queryable
<1>9. r.health = health /\ r.integrity = integrity /\ r.freshness = freshness
    OBVIOUS
<1> HIDE DEF r
<1>10. QED
    BY <1>1, <1>3, <1>5, <1>6, <1>7, <1>8, <1>9, AnswerHealth

-----------------------------------------------------------------------------
(* The theorems *)

\* The initial states.
LEMMA InitHealth == HealthInit => WriterInv /\ HealthInv
<1> SUFFICES ASSUME HealthInit PROVE WriterInv /\ HealthInv
    OBVIOUS
<1>1. WriterInv
    BY InitIInv, InitCInv, InitNames DEF HealthInit, WriterInv
<1>2. Records
    <2>1. /\ look = [mf |-> look.mf, db |-> look.db, again |-> look.again]
          /\ look.again = FALSE
        BY DEF HealthInit, NoLook
    <2>2. ChecksTyped
        BY DEF HealthInit, NoChecks, ChecksTyped
    <2>3. TruthTyped
        BY DEF HealthInit, NoTruth, TruthTyped
    <2>4. inv \in Snapshot /\ unread \subseteq Present(inv)
        BY NoWorkspaceTyped DEF HealthInit, Present
    <2>5. /\ step = "off" /\ mode = "quick" /\ runsLeft = 0 /\ ~Inspecting
          /\ step \notin PreflightSteps
        BY DEF HealthInit, Inspecting, InspectionSteps, PreflightSteps
    <2>6. QED
        BY <2>1, <2>2, <2>3, <2>4, <2>5 DEF Records, ChecksTyped, TruthTyped
<1>3. Reported
    BY DEF HealthInit, Reported, ReportWasTrue, CorruptNeverReady
<1>4. step = "off" /\ ~Opened /\ ~Looked /\ ~Inspecting
    BY DEF HealthInit, Opened, Looked, Inspecting, InspectionSteps
<1>5. QED
    BY <1>1, <1>2, <1>3, <1>4 DEF HealthInv, DatabaseRead, ManifestRead, ReadyOnce, FirstLook,
       Token, Shortened, GoodLook, BadLook

\* Every step of an inspection keeps the invariant.
LEMMA InspectionHealth ==
    ASSUME WriterInv, HealthInv, Inspection
    PROVE  WriterInv' /\ HealthInv'
<1>1. UNCHANGED vars
    BY DEF Inspection, StatusStart, InspectRawManifest, InspectRawSchema, ReadManifest, ReadDatabase, ReadDescriptor, OpeningInventory,
       ReadFile, FilesRead, VerifyVectors, ClosingInventory, RecheckManifest,
       RecheckDescriptor, RecheckIdentity, ProbeWriter, Still
<1>2. WriterInv'
    BY <1>1, NextWriter
<1>3. HealthInv'
    BY StatusStartHealth, InspectRawManifestHealth, InspectRawSchemaHealth,
       ReadManifestHealth, ReadDatabaseHealth, SecondDescriptorHealth,
       FirstDescriptorHealth, OpeningInventoryHealth, ReadFileHealth, FilesReadHealth,
       VerifyVectorsHealth, ClosingInventoryHealth, RecheckManifestHealth,
       RecheckDescriptorHealth, RecheckIdentityHealth, ProbeWriterHealth DEF Inspection
<1>4. QED
    BY <1>2, <1>3

\* A step that changes nothing.
LEMMA StillHealth ==
    ASSUME HealthInv, Still,
           UNCHANGED <<step, mode, look, first, inv, unread, checks, report, truth, runsLeft>>
    PROVE  HealthInv'
<1>1. /\ Inspecting' = Inspecting /\ Looked' = Looked /\ Opened' = Opened /\ Closed' = Closed
      /\ FirstGood' = FirstGood /\ RowDiffers' = RowDiffers /\ DatabaseDone' = DatabaseDone
    BY DEF Inspecting, Looked, Opened, Closed, FirstGood, RowDiffers, DatabaseDone
<1>2. Records'
    BY <1>1, StillVars DEF HealthInv, Records, Present
<1>3. DatabaseRead'
    <2>1. SeenDatabase(look.db.binding.mid, look.db.graph)'
              = SeenDatabase(look.db.binding.mid, look.db.graph)
        BY StillVars, StillWriter DEF SeenDatabase, DatabaseKept, DatabaseLost
    <2>2. QED
        BY <2>1, StillVars DEF HealthInv, DatabaseRead, Tells
<1>4. ManifestRead'
    BY <1>1, StillVars, StillWriter DEF HealthInv, ManifestRead, ManifestLost
<1>5. ReadyOnce'
    BY <1>1, StillVars, StillWriter DEF HealthInv, ReadyOnce, NoLonger
<1>6. FirstLook' /\ Token' /\ Shortened'
    BY <1>1, StillFirst DEF HealthInv, Shortened
<1>7. /\ ManifestDiffers' = ManifestDiffers /\ DescriptorDiffers' = DescriptorDiffers
      /\ DatabaseDiffers' = DatabaseDiffers
    BY <1>1, StillLook DEF ManifestDiffers, DescriptorDiffers, DatabaseDiffers
<1>8. GoodLook'
    <2>1. Suspect' = Suspect
        BY <1>1 DEF Suspect
    <2>2. QED
        BY <1>1, <1>7, <2>1 DEF HealthInv, GoodLook
<1>9. BadLook'
    <2>1. WasReady' = WasReady
        BY <1>1, StillVars DEF WasReady
    <2>2. Outrun' = Outrun
        BY StillVars, StillWriter DEF Outrun, ManifestValid
    <2>3. QED
        BY <1>1, <1>7, <2>1, <2>2, StillVars DEF HealthInv, BadLook
<1>10. Reported'
    BY DEF HealthInv, Reported, ReportWasTrue, CorruptNeverReady
<1>11. QED
    BY <1>2, <1>3, <1>4, <1>5, <1>6, <1>8, <1>9, <1>10 DEF HealthInv

\* The invariant is inductive.
LEMMA NextHealth == WriterInv /\ HealthInv /\ [HealthNext]_allVars => WriterInv' /\ HealthInv'
<1> SUFFICES ASSUME WriterInv, HealthInv, [HealthNext]_allVars PROVE WriterInv' /\ HealthInv'
    OBVIOUS
<1>1. CASE StartRun \/ Others
    <2>1. Next
        BY <1>1 DEF StartRun, Others, Next, Environment
    <2>2. WriterInv'
        BY <2>1, NextWriter
    <2>3. QED
        BY <1>1, <2>2, WriterHealth
<1>2. CASE Inspection
    BY <1>2, InspectionHealth
<1>3. CASE UNCHANGED allVars
    <2>1. UNCHANGED vars /\ UNCHANGED healthVars
        BY <1>3 DEF allVars
    <2>2. WriterInv'
        BY <2>1, NextWriter
    <2>3. Still /\ UNCHANGED <<step, mode, look, first, inv, unread, checks, report, truth, runsLeft>>
        BY <2>1 DEF Still, healthVars
    <2>4. HealthInv'
        BY <2>3, StillHealth
    <2>5. QED
        BY <2>2, <2>4
<1>4. QED
    BY <1>1, <1>2, <1>3 DEF HealthNext

\* WriterInv and HealthInv are an inductive invariant of a writer and of an inspection
\* beside it.
THEOREM HealthInvariance == HealthSpec => [](WriterInv /\ HealthInv)
<1>1. HealthInit => WriterInv /\ HealthInv
    BY InitHealth
<1>2. (WriterInv /\ HealthInv) /\ [HealthNext]_allVars => (WriterInv /\ HealthInv)'
    BY NextHealth
<1>3. QED
    BY <1>1, <1>2, PTL DEF HealthSpec

\* An inspection past its opening snapshot holds one of a present index, and every report
\* has a health of its own.
THEOREM HealthTypeCorrect == HealthSpec => []HealthTypeOK
<1>1. HealthInv => HealthTypeOK
    BY DEF HealthInv, HealthTypeOK, Records, DatabaseRead, SeenRow, FirstLook, Looked, Inspecting,
       InspectionSteps, PreflightSteps, Reported
<1>2. QED
    BY <1>1, HealthInvariance, PTL

\* A report "valid" or "fresh" was true at the instant of the closing inventory.
THEOREM ReportIsTrue == HealthSpec => []ReportWasTrue
<1>1. HealthInv => ReportWasTrue
    BY DEF HealthInv, Reported
<1>2. QED
    BY <1>1, HealthInvariance, PTL

\* A report derived from the two looks does not call an index corrupt that was ready at
\* any instant from the first read of the snapshot to the second one of the database.
THEOREM ReadyIsNotCorrupt == HealthSpec => []CorruptNeverReady
<1>1. HealthInv => CorruptNeverReady
    BY DEF HealthInv, Reported
<1>2. QED
    BY <1>1, HealthInvariance, PTL
=============================================================================
