---------------------------- MODULE BgeRollback ----------------------------
(***************************************************************************)
(* The publication protocol with the BGE provider: a failed run restores   *)
(* the index it started from.                                              *)
(*                                                                         *)
(* Before the first persisted step the run copies the database, the        *)
(* descriptor, the manifest and the inventory of generation files of a     *)
(* ready index.  When a later step raises, and the new snapshot is not the *)
(* committed one, they are put back one after the other: database first,   *)
(* then descriptor, manifest and the removal of new generation files, and  *)
(* the result is verified.  Each of these steps may raise, and the process *)
(* may die between them; a query may open on what is there meanwhile.      *)
(***************************************************************************)
EXTENDS IndexPublication

VARIABLES
    rollback,   \* what was captured, None without a ready index
    restore,    \* "off", or the next step of the failure handler
    torn,       \* history: a restoration ended between its steps
    undone      \* history: a committed snapshot was taken for a failed one

bgeVars  == <<vars, rollback, restore, torn, undone>>
histVars == <<torn, undone>>

RestoreSteps == {"check", "database", "descriptor", "manifest", "artifacts", "verify", "mark"}

\* The steps inside _persist_prepared_index, whose failure the handler catches.
PersistSteps == {"materialize", "markStale", "clear", "write", "batch", "publish",
                 "manifest", "commit", "finalSweep"}

-----------------------------------------------------------------------------
\* Only a ready index whose files are the bound ones is worth a rollback.
Capturable ==
    /\ graph = "ready"
    /\ OperationalReadable
    /\ DescriptorReadable
    /\ manifest # None
    /\ BoundIdentityMatches
    /\ genIds[descriptor] = IdsOf(chunks)

\* A descriptor whose files are gone cannot be captured: the code raises here when the
\* database says ready.  Such a ready index is left only by a restoration that failed
\* (`undone`), which the properties name.
Captured ==
    IF ~Capturable THEN None
    ELSE [graph |-> graph, reason |-> reason, full |-> full, rows |-> rows,
          chunks |-> chunks, marker |-> marker, binding |-> binding,
          manifest |-> manifest, descriptor |-> descriptor,
          vecs |-> vecs, idfs |-> idfs, genIds |-> genIds]

\* A step of the run itself.  The capture only reads, and the lock keeps other
\* writers away, so it is taken with the closing fence it follows; a commit whose
\* validation raises is one of the failures below, and costs no budget.
BgeWriterStep ==
    /\ restore = "off"
    /\ pc = "commit" => CommitValid
    /\ WriterStep
    /\ rollback' = IF pc' = "idle" THEN None
                   ELSE IF pc = "prepared" THEN Captured
                   ELSE rollback
    /\ torn' = (torn /\ pc # "commit")
    /\ undone' = (undone /\ pc # "commit")
    /\ UNCHANGED restore

BgeStartIndex ==
    /\ restore = "off"
    /\ StartIndex
    /\ UNCHANGED <<rollback, restore, histVars>>

BgeStartRefresh ==
    /\ restore = "off"
    /\ StartRefresh
    /\ UNCHANGED <<rollback, restore, histVars>>

\* Mutant: a query does not compare the files with its binding.
BgeOpenUnchecked ==
    /\ OpenSession
    /\ UNCHANGED <<rollback, restore, histVars>>

\* A query of a ready index loads the vectors its binding names, or raises.
BgeOpenSession ==
    /\ OpenSession
    /\ binding # None
    /\ descriptor = binding.gen
    /\ DescriptorReadable
    /\ genIds[descriptor] = binding.ids
    /\ UNCHANGED <<rollback, restore, histVars>>

BgeEdit(p)      == Edit(p) /\ UNCHANGED <<rollback, restore, histVars>>
BgeCloseSession == CloseSession /\ UNCHANGED <<rollback, restore, histVars>>

-----------------------------------------------------------------------------
(* The failure handler *)

Persistence == UNCHANGED <<wsVars, runVars, pc, session, rollback, histVars>>

\* The run ends with its error.
EndRun ==
    /\ NoRun
    /\ rollback' = None
    /\ restore' = "off"

Spend == crashes < MaxCrashes /\ edits + crashes < MaxEvents /\ crashes' = crashes + 1

Fail ==
    /\ restore = "off"
    /\ pc \in PersistSteps
    /\ IF pc = "commit" /\ ~CommitValid THEN UNCHANGED crashes ELSE Spend
    /\ restore' = "check"
    /\ Persistence /\ UNCHANGED <<dbVars, fileVars>>

\* The ready tuple in the artifacts is the one this run prepared.
PreparedCommitted ==
    /\ graph = "ready"
    /\ OperationalReadable
    /\ DescriptorReadable
    /\ descriptor = prep.gen
    /\ manifest.mid = prep.mid
    /\ binding.mid = prep.mid
    /\ binding.gen = prep.gen

\* Mutant: every failure is rolled back.
CheckNothing ==
    /\ restore = "check"
    /\ IF rollback = None
       THEN EndRun /\ UNCHANGED <<wsVars, session, histVars>>
       ELSE restore' = "database" /\ Persistence
    /\ UNCHANGED <<dbVars, fileVars, crashes>>

CheckCommitted ==
    /\ restore = "check"
    /\ IF rollback = None \/ PreparedCommitted
       THEN EndRun /\ UNCHANGED <<wsVars, session, histVars>>
       ELSE restore' = "database" /\ Persistence
    /\ UNCHANGED <<dbVars, fileVars, crashes>>

\* An artifact cannot be read: the snapshot counts as not committed.
CheckUnreadable ==
    /\ restore = "check"
    /\ rollback # None
    /\ Spend
    /\ restore' = "database"
    /\ undone' = (undone \/ PreparedCommitted)
    /\ UNCHANGED <<wsVars, runVars, pc, session, rollback, torn, dbVars, fileVars>>

\* The SQLite backup is copied over the database in one transaction.
RestoreDatabase ==
    /\ restore = "database"
    /\ NoReader
    /\ graph' = rollback.graph /\ reason' = rollback.reason /\ full' = rollback.full
    /\ rows' = rollback.rows /\ chunks' = rollback.chunks
    /\ marker' = rollback.marker /\ binding' = rollback.binding
    /\ restore' = "descriptor"
    /\ Persistence /\ UNCHANGED <<fileVars, crashes>>

RestoreDescriptor ==
    /\ restore = "descriptor"
    /\ descriptor' = rollback.descriptor
    /\ restore' = "manifest"
    /\ Persistence /\ UNCHANGED <<dbVars, manifest, genVars, crashes>>
\* Mutant: the new generation's files go before the manifest that names them.
RestoreManifestLast ==
    /\ restore = "manifest"
    /\ restore' = "artifacts"
    /\ Persistence /\ UNCHANGED <<dbVars, fileVars, crashes>>

RestoreManifest ==
    /\ restore = "manifest"
    /\ manifest' = rollback.manifest
    /\ restore' = "artifacts"
    /\ Persistence /\ UNCHANGED <<dbVars, descriptor, genVars, crashes>>

Preserved ==
    /\ rollback.vecs \subseteq vecs
    /\ rollback.idfs \subseteq idfs
    /\ \A g \in rollback.idfs : genIds[g] = rollback.genIds[g]

NothingNew == vecs = rollback.vecs /\ idfs = rollback.idfs
\* New files go one by one in name order, every vector_ids.* before any vectors.*.
RemoveNew(g) ==
    /\ restore = "artifacts"
    /\ Preserved
    /\ \/ /\ g \in idfs \ rollback.idfs
          /\ idfs' = idfs \ {g}
          /\ genIds' = [genIds EXCEPT ![g] = {}]
          /\ UNCHANGED vecs
       \/ /\ idfs = rollback.idfs
          /\ g \in vecs \ rollback.vecs
          /\ vecs' = vecs \ {g}
          /\ UNCHANGED <<idfs, genIds>>
    /\ Persistence /\ UNCHANGED <<dbVars, manifest, descriptor, crashes, restore>>

ArtifactsDone ==
    /\ restore = "artifacts"
    /\ restore' = IF Preserved /\ NothingNew THEN "verify" ELSE "mark"
    /\ ~Preserved \/ NothingNew
    /\ Persistence /\ UNCHANGED <<dbVars, fileVars, crashes>>

\* _verify_bge_ready_rollback reads everything back.
Restored ==
    /\ manifest = rollback.manifest
    /\ descriptor = rollback.descriptor
    /\ graph = "ready"
    /\ OperationalReadable
    /\ binding = rollback.binding
    /\ DescriptorReadable
    /\ genIds[descriptor] = rollback.binding.ids
    /\ Preserved /\ NothingNew

VerifyRestored ==
    /\ restore = "verify"
    /\ IF Restored
       THEN EndRun /\ UNCHANGED <<wsVars, session, histVars>>
       ELSE restore' = "mark" /\ Persistence
    /\ UNCHANGED <<dbVars, fileVars, crashes>>

\* A restoring step raises: the remaining ones are skipped.
RestoreFails ==
    /\ restore \in RestoreSteps \ {"check", "mark"}
    /\ Spend
    /\ restore' = "mark"
    /\ Persistence /\ UNCHANGED <<dbVars, fileVars>>
\* Mutant: the run ends with the error of the restoration alone.
MarkNothing ==
    /\ restore = "mark"
    /\ EndRun
    /\ UNCHANGED <<dbVars, wsVars, fileVars, session, crashes, histVars>>

MarkReindexRequired ==
    /\ restore = "mark"
    /\ NoReader
    /\ graph' = "stale"
    /\ reason' = "bge_reindex_required"
    /\ full' = TRUE
    /\ EndRun
    /\ UNCHANGED <<wsVars, rows, chunks, marker, binding, fileVars, session, crashes, histVars>>

\* Its error is swallowed.  What made the restoration fail may make the mark fail
\* as well, and is counted once.
MarkFails ==
    /\ restore = "mark"
    /\ EndRun
    /\ torn' = TRUE
    /\ UNCHANGED <<wsVars, dbVars, fileVars, session, crashes, undone>>

\* The process dies; there is no handler.
Die ==
    /\ pc # "idle"
    /\ Spend
    /\ EndRun
    /\ torn' = (torn \/ restore \in RestoreSteps \ {"check", "database"})
    /\ UNCHANGED <<wsVars, dbVars, fileVars, session, undone>>

Handler ==
    \/ CheckCommitted
    \/ RestoreDatabase \/ RestoreDescriptor \/ RestoreManifest
    \/ \E g \in Gens : RemoveNew(g)
    \/ ArtifactsDone \/ VerifyRestored
    \/ MarkReindexRequired

BgeFault == Fail \/ CheckUnreadable \/ RestoreFails \/ MarkFails \/ Die

BgeInit == Init /\ rollback = None /\ restore = "off" /\ torn = FALSE /\ undone = FALSE

BgeNext ==
    \/ \E p \in Paths : BgeEdit(p)
    \/ BgeOpenSession \/ BgeCloseSession
    \/ BgeStartIndex \/ BgeStartRefresh \/ BgeWriterStep
    \/ Handler \/ BgeFault

\* As LiveSpec of the publication: what runs keeps running, queries end, and
\* the user goes on running `cst index`.
BgeSpec ==
    /\ BgeInit /\ [][BgeNext]_bgeVars
    /\ SF_bgeVars(BgeWriterStep \/ Handler \/ (pc = "commit" /\ ~CommitValid /\ Fail))
    /\ WF_bgeVars(BgeCloseSession)
    /\ SF_bgeVars(BgeStartIndex)

-----------------------------------------------------------------------------
(* Properties *)

\* "Failure-atomic": unless the process died in the middle of restoring, a
\* database that says ready outside the handler agrees with all the files,
\* whichever step of the run and of the restoration failed.
FailureAtomic ==
    graph = "ready" /\ restore = "off" /\ ~torn =>
        /\ OperationalReadable
        /\ BoundIdentityMatches
        /\ DescriptorReadable
        /\ genIds[descriptor] = IdsOf(chunks)
        /\ chunks = ContentOf(Observed)

\* Putting the artifacts back is enough: whichever persisted step failed, no file
\* of the captured index is missing or replaced when the new ones are removed, and
\* the verification finds exactly that index.
RestorationComplete ==
    /\ restore = "artifacts" /\ ~undone => Preserved
    /\ restore = "verify" => Restored

\* A query that opens in the middle of a restoration, or on the remains of one,
\* still reads vectors and text of one snapshot, to its end.
RestoringReaderLoads ==
    session # None =>
        /\ session = descriptor
        /\ DescriptorReadable
        /\ genIds[session] = IdsOf(chunks)

\* Once committed, a snapshot stays: no failure after the commit brings the old
\* binding back as long as the handler can read the artifacts.
CommitIsFinal ==
    [][pc = "finalSweep" /\ ~undone' => binding' = binding /\ graph' = graph]_bgeVars

\* Whatever a failed restoration left, repeated `cst index` makes the index
\* ready, current and whole.
EventuallyRestored ==
    (descriptor # None) ~> (undone \/ (graph = "ready" /\ Observed = ws /\ DescriptorReadable
                                       /\ BoundIdentityMatches))
=============================================================================
