----------------------------- MODULE IndexLock -----------------------------
(***************************************************************************)
(* The repository-wide index lock, `<repo>/.context-search/index.lock`.    *)
(*                                                                         *)
(* The lock is an flock on an inode, found through a path.  Writers        *)
(* (`cst index`, `cst refresh`) hold it for a whole run; the status probe  *)
(* takes it for an instant to see whether somebody else has it; and        *)
(* `cst clean` removes the directory it lives in without asking for it.    *)
(***************************************************************************)
EXTENDS Naturals, FiniteSets

CONSTANTS
    Writers,   \* runs of `cst index` and `cst refresh`
    Probes,    \* status and stats inspections
    Inodes,    \* inode numbers; a number is free again when nothing refers to it
    None,      \* no file, no holder, no open descriptor
    MaxCleans  \* bound: runs of `cst clean`

Procs == Writers \union Probes

ASSUME ProcsAssumption == Writers \intersect Probes = {} /\ None \notin Procs
ASSUME InodesAssumption == None \notin Inodes
ASSUME CleansAssumption == MaxCleans \in Nat

VARIABLES
    dir,      \* the index directory exists
    path,     \* inode behind index.lock, or None
    fd,       \* inode each process has open, or None
    holder,   \* process that holds the flock of each inode, or None
    pc,       \* step of each process
    cleaning, \* next step of a running `cst clean`, or "no"
    cleans,   \* cleans begun
    removed   \* history: a clean took the file from under a writer or a probe past its check

vars == <<dir, path, fd, holder, pc, cleaning, cleans, removed>>

Steps == {"idle", "open", "check", "flock", "held", "busy"}

\* Processes that trust the inode they have open.
Checked == {p \in Procs : pc[p] \in {"flock", "held"}}

\* Mutant: the descriptor is not closed on the way out.
LeaveOpen(p) == /\ pc' = [pc EXCEPT ![p] = "idle"]
                /\ UNCHANGED fd

Leave(p) == /\ fd' = [fd EXCEPT ![p] = None]
            /\ pc' = [pc EXCEPT ![p] = "idle"]

-----------------------------------------------------------------------------
(* Writers and probes *)

\* `cst index` creates the directory before it takes the lock.
StartIndex(w) ==
    /\ pc[w] = "idle"
    /\ dir' = TRUE
    /\ pc' = [pc EXCEPT ![w] = "open"]
    /\ UNCHANGED <<path, fd, holder, cleaning, cleans, removed>>

\* `cst refresh` needs an index, a probe a lock file: else neither goes on.
StartRefresh(w) ==
    /\ pc[w] = "idle"
    /\ dir
    /\ pc' = [pc EXCEPT ![w] = "open"]
    /\ UNCHANGED <<dir, path, fd, holder, cleaning, cleans, removed>>

StartProbe(p) ==
    /\ pc[p] = "idle"
    /\ path # None
    /\ pc' = [pc EXCEPT ![p] = "open"]
    /\ UNCHANGED <<dir, path, fd, holder, cleaning, cleans, removed>>

FreeInodes == {i \in Inodes : i # path /\ \A p \in Procs : fd[p] # i}

\* A writer opens with O_CREAT; without the directory the open fails.
OpenLock(w) ==
    /\ pc[w] = "open"
    /\ IF ~dir THEN Leave(w) /\ UNCHANGED path
       ELSE /\ path' \in IF path = None THEN FreeInodes ELSE {path}
            /\ fd' = [fd EXCEPT ![w] = path']
            /\ pc' = [pc EXCEPT ![w] = "check"]
    /\ UNCHANGED <<dir, holder, cleaning, cleans, removed>>

\* A probe never creates the file.
OpenProbe(p) ==
    /\ pc[p] = "open"
    /\ IF path = None THEN Leave(p)
       ELSE /\ fd' = [fd EXCEPT ![p] = path]
            /\ pc' = [pc EXCEPT ![p] = "check"]
    /\ UNCHANGED <<dir, path, holder, cleaning, cleans, removed>>
\* Mutant: a writer does not compare its descriptor with the path.
CheckWriterSkipped(w) ==
    /\ pc[w] = "check"
    /\ pc' = [pc EXCEPT ![w] = "flock"]
    /\ UNCHANGED <<dir, path, fd, holder, cleaning, cleans, removed>>

\* fstat of the descriptor against lstat of the path: a file replaced since the
\* open is refused.
CheckWriter(w) ==
    /\ pc[w] = "check"
    /\ IF path = fd[w] THEN pc' = [pc EXCEPT ![w] = "flock"] /\ UNCHANGED fd
                       ELSE Leave(w)
    /\ UNCHANGED <<dir, path, holder, cleaning, cleans, removed>>
\* Mutant: a probe does not compare its descriptor with the path.
CheckProbeSkipped(p) ==
    /\ pc[p] = "check"
    /\ pc' = [pc EXCEPT ![p] = "flock"]
    /\ UNCHANGED <<dir, path, fd, holder, cleaning, cleans, removed>>

\* The probe answers "unknown" when they differ.
CheckProbe(p) ==
    /\ pc[p] = "check"
    /\ IF path = fd[p] THEN pc' = [pc EXCEPT ![p] = "flock"] /\ UNCHANGED fd
                       ELSE Leave(p)
    /\ UNCHANGED <<dir, path, holder, cleaning, cleans, removed>>

\* LOCK_EX | LOCK_NB.  Refused, a writer raises IndexBusyError and a probe
\* reports an active writer; locked, a probe reports an idle one.
TryLock(p) ==
    /\ pc[p] = "flock"
    /\ IF holder[fd[p]] = None
       THEN /\ holder' = [holder EXCEPT ![fd[p]] = p]
            /\ pc' = [pc EXCEPT ![p] = "held"]
       ELSE /\ pc' = [pc EXCEPT ![p] = "busy"]
            /\ UNCHANGED holder
    /\ UNCHANGED <<dir, path, fd, cleaning, cleans, removed>>

\* The run is over, or was refused: LOCK_UN and close.  The kernel does the same
\* when the process dies at any step.  The file stays.
Release(p) ==
    /\ pc[p] # "idle"
    /\ Leave(p)
    /\ holder' = [i \in Inodes |-> IF holder[i] = p THEN None ELSE holder[i]]
    /\ UNCHANGED <<dir, path, cleaning, cleans, removed>>

-----------------------------------------------------------------------------
(* cst clean: shutil.rmtree of the directory, without the lock *)

BeginClean ==
    /\ cleaning = "no" /\ dir
    /\ cleans < MaxCleans
    /\ cleaning' = IF path = None THEN "rmdir" ELSE "unlink"
    /\ cleans' = cleans + 1
    /\ UNCHANGED <<dir, path, fd, holder, pc, removed>>

UnlinkLock ==
    /\ cleaning = "unlink"
    /\ path' = None
    /\ cleaning' = "rmdir"
    /\ removed' = (removed \/ \E p \in Checked : fd[p] = path)
    /\ UNCHANGED <<dir, fd, holder, pc, cleans>>

\* rmdir fails when a lock file appeared after the listing.
RemoveDirectory ==
    /\ cleaning = "rmdir"
    /\ dir' = (path # None)
    /\ cleaning' = "no"
    /\ UNCHANGED <<path, fd, holder, pc, cleans, removed>>

-----------------------------------------------------------------------------
Init ==
    /\ dir = FALSE
    /\ path = None
    /\ fd = [p \in Procs |-> None]
    /\ holder = [i \in Inodes |-> None]
    /\ pc = [p \in Procs |-> "idle"]
    /\ cleaning = "no" /\ cleans = 0 /\ removed = FALSE

WriterStep(w) == StartIndex(w) \/ StartRefresh(w) \/ OpenLock(w) \/ CheckWriter(w)
ProbeStep(p)  == StartProbe(p) \/ OpenProbe(p) \/ CheckProbe(p)
LockStep(p)   == TryLock(p) \/ Release(p)
Clean         == BeginClean \/ UnlinkLock \/ RemoveDirectory

Next ==
    \/ \E w \in Writers : WriterStep(w)
    \/ \E p \in Probes : ProbeStep(p)
    \/ \E p \in Procs : LockStep(p)
    \/ Clean

Spec == Init /\ [][Next]_vars

-----------------------------------------------------------------------------
(* Properties *)

\* Every variable keeps its range; a process has the file open exactly from its
\* open to the end of its run.
TypeOK ==
    /\ dir \in BOOLEAN
    /\ path \in Inodes \union {None}
    /\ fd \in [Procs -> Inodes \union {None}]
    /\ \A p \in Procs : fd[p] = None <=> pc[p] \in {"idle", "open"}
    /\ holder \in [Inodes -> Procs \union {None}]
    /\ pc \in [Procs -> Steps]
    /\ cleaning \in {"no", "unlink", "rmdir"} /\ cleans \in 0..MaxCleans /\ removed \in BOOLEAN

Held(S) == {p \in S : pc[p] = "held"}

\* Two writers run at once only if a clean unlinked the lock file while a writer or a
\* probe was between its inode check and its release: cleans at any other moment,
\* deaths, and reuse of inode numbers do not break the exclusion.
WritersExclude == ~removed => \A v, w \in Held(Writers) : v = w

\* Under the same condition a probe that got the lock, and reports an idle
\* repository, is right: no writer holds it.
IdleReportTrue == ~removed /\ Held(Probes) # {} => Held(Writers) = {}
=============================================================================
