-------------------------- MODULE IndexLockProofs --------------------------
(***************************************************************************)
(* The index lock excludes, for any number of writers and probes: proofs   *)
(* of the invariants of IndexLock.                                         *)
(*                                                                         *)
(* The flock is exclusive per inode, so two writers can only run together  *)
(* on two inodes.  The inode check puts every process past it on the inode *)
(* behind the path, and only a clean that unlinks that inode under such a  *)
(* process (which sets `removed`) moves the path away from it.             *)
(***************************************************************************)
EXTENDS IndexLock, TLAPS

\* The flock of an inode belongs to the process that runs with it, both ways.
HolderInv ==
    /\ \A i \in Inodes : \A p \in Procs :
           holder[i] = p => pc[p] = "held" /\ fd[p] = i
    /\ \A p \in Procs : pc[p] = "held" => holder[fd[p]] = p

\* Until such a clean, the inode every process past its check has open is the one
\* behind the path.
AtPathInv ==
    ~removed => \A p \in Procs : pc[p] \in {"flock", "held"} => fd[p] = path

LockInv == TypeOK /\ HolderInv /\ AtPathInv

USE DEF Procs, Steps

\* Before anything ran nobody holds anything.
LEMMA InitLockInv == Init => LockInv
<1> SUFFICES ASSUME Init PROVE LockInv
    OBVIOUS
<1>1. TypeOK
    <2>1. cleans \in 0..MaxCleans
        BY CleansAssumption DEF Init
    <2>2. fd \in [Procs -> Inodes \union {None}] /\ pc \in [Procs -> Steps]
        BY DEF Init
    <2>3. \A p \in Procs : fd[p] = None <=> pc[p] \in {"idle", "open"}
        BY DEF Init
    <2>4. holder \in [Inodes -> Procs \union {None}]
        BY DEF Init
    <2> QED BY <2>1, <2>2, <2>3, <2>4 DEF Init, TypeOK
<1>2. HolderInv
    BY ProcsAssumption DEF Init, HolderInv
<1>3. AtPathInv
    BY DEF Init, AtPathInv
<1> QED BY <1>1, <1>2, <1>3 DEF LockInv

\* Leaving touches one process, which then holds nothing.
LEMMA LeaveType ==
    ASSUME TypeOK, NEW p \in Procs, Leave(p)
    PROVE  /\ fd' \in [Procs -> Inodes \union {None}]
           /\ pc' \in [Procs -> Steps]
           /\ \A q \in Procs : fd'[q] = None <=> pc'[q] \in {"idle", "open"}
           /\ fd'[p] = None /\ pc'[p] = "idle"
           /\ \A q \in Procs \ {p} : fd'[q] = fd[q] /\ pc'[q] = pc[q]
    BY DEF TypeOK, Leave

\* Every step keeps the invariant.
LEMMA NextLockInv == LockInv /\ [Next]_vars => LockInv'
<1> SUFFICES ASSUME LockInv, [Next]_vars PROVE LockInv'
    OBVIOUS
<1>t. TypeOK /\ HolderInv /\ AtPathInv
    BY DEF LockInv
<1> USE ProcsAssumption, InodesAssumption, CleansAssumption
<1>1. ASSUME NEW w \in Writers, StartIndex(w) \/ StartRefresh(w) PROVE LockInv'
    <2>1. TypeOK'
        BY <1>1, <1>t DEF StartIndex, StartRefresh, TypeOK
    <2>2. HolderInv' /\ AtPathInv'
        BY <1>1, <1>t DEF StartIndex, StartRefresh, TypeOK, HolderInv, AtPathInv
    <2> QED BY <2>1, <2>2 DEF LockInv
<1>2. ASSUME NEW p \in Probes, StartProbe(p) PROVE LockInv'
    BY <1>2, <1>t DEF StartProbe, LockInv, TypeOK, HolderInv, AtPathInv
<1>3. ASSUME NEW w \in Writers, OpenLock(w) PROVE LockInv'
    <2>1. CASE ~dir
        <3>1. Leave(w) /\ pc[w] = "open" /\ UNCHANGED <<dir, path, holder, cleaning, cleans, removed>>
            BY <1>3, <2>1 DEF OpenLock
        <3>2. TypeOK'
            BY <3>1, <1>t, LeaveType DEF TypeOK
        <3>3. HolderInv' /\ AtPathInv'
            BY <3>1, <1>t, LeaveType DEF TypeOK, HolderInv, AtPathInv
        <3> QED BY <3>2, <3>3 DEF LockInv
    <2>2. CASE dir
        <3>1. /\ path' \in Inodes
              /\ path # None => path' = path
              /\ fd' = [fd EXCEPT ![w] = path']
              /\ pc' = [pc EXCEPT ![w] = "check"]
              /\ pc[w] = "open"
              /\ UNCHANGED <<dir, holder, cleaning, cleans, removed>>
            BY <1>3, <2>2, <1>t DEF OpenLock, FreeInodes, TypeOK
        <3>2. TypeOK'
            BY <3>1, <1>t DEF TypeOK
        <3>3. HolderInv'
            BY <3>1, <1>t DEF TypeOK, HolderInv
        <3>4. AtPathInv'
            BY <3>1, <1>t DEF TypeOK, AtPathInv
        <3> QED BY <3>2, <3>3, <3>4 DEF LockInv
    <2> QED BY <2>1, <2>2
<1>4. ASSUME NEW p \in Probes, OpenProbe(p) PROVE LockInv'
    <2>1. CASE path = None
        <3>1. Leave(p) /\ pc[p] = "open" /\ UNCHANGED <<dir, path, holder, cleaning, cleans, removed>>
            BY <1>4, <2>1 DEF OpenProbe
        <3>2. TypeOK'
            BY <3>1, <1>t, LeaveType DEF TypeOK
        <3>3. HolderInv' /\ AtPathInv'
            BY <3>1, <1>t, LeaveType DEF TypeOK, HolderInv, AtPathInv
        <3> QED BY <3>2, <3>3 DEF LockInv
    <2>2. CASE path # None
        BY <1>4, <2>2, <1>t DEF OpenProbe, LockInv, TypeOK, HolderInv, AtPathInv
    <2> QED BY <2>1, <2>2
<1>5. ASSUME NEW p \in Procs, CheckWriter(p) \/ CheckProbe(p) PROVE LockInv'
    <2>1. pc[p] = "check" /\ UNCHANGED <<dir, path, holder, cleaning, cleans, removed>>
        BY <1>5 DEF CheckWriter, CheckProbe
    <2>2. CASE path = fd[p]
        <3>1. pc' = [pc EXCEPT ![p] = "flock"] /\ fd' = fd
            BY <1>5, <2>2 DEF CheckWriter, CheckProbe
        <3> QED BY <2>1, <2>2, <3>1, <1>t DEF LockInv, TypeOK, HolderInv, AtPathInv
    <2>3. CASE path # fd[p]
        <3>1. Leave(p)
            BY <1>5, <2>3 DEF CheckWriter, CheckProbe
        <3>2. TypeOK'
            BY <2>1, <3>1, <1>t, LeaveType DEF TypeOK
        <3>3. HolderInv' /\ AtPathInv'
            BY <2>1, <3>1, <1>t, LeaveType DEF TypeOK, HolderInv, AtPathInv
        <3> QED BY <3>2, <3>3 DEF LockInv
    <2> QED BY <2>2, <2>3
<1>6. ASSUME NEW p \in Procs, TryLock(p) PROVE LockInv'
    <2>1. pc[p] = "flock" /\ fd[p] \in Inodes /\ UNCHANGED <<dir, path, fd, cleaning, cleans, removed>>
        BY <1>6, <1>t DEF TryLock, TypeOK
    <2>2. CASE holder[fd[p]] = None
        <3>1. /\ holder' = [holder EXCEPT ![fd[p]] = p]
              /\ pc' = [pc EXCEPT ![p] = "held"]
            BY <1>6, <2>2 DEF TryLock
        <3>2. TypeOK' /\ AtPathInv'
            BY <2>1, <3>1, <1>t DEF TypeOK, AtPathInv
        <3>3. HolderInv'
            BY <2>1, <2>2, <3>1, <1>t DEF TypeOK, HolderInv
        <3> QED BY <3>2, <3>3 DEF LockInv
    <2>3. CASE holder[fd[p]] # None
        BY <1>6, <2>1, <2>3, <1>t DEF TryLock, LockInv, TypeOK, HolderInv, AtPathInv
    <2> QED BY <2>2, <2>3
<1>7. ASSUME NEW p \in Procs, Release(p) PROVE LockInv'
    <2>1. /\ Leave(p)
          /\ holder' = [i \in Inodes |-> IF holder[i] = p THEN None ELSE holder[i]]
          /\ UNCHANGED <<dir, path, cleaning, cleans, removed>>
        BY <1>7 DEF Release
    <2>2. TypeOK'
        BY <2>1, <1>t, LeaveType DEF TypeOK
    <2>3. HolderInv'
        BY <2>1, <1>t, LeaveType DEF TypeOK, HolderInv
    <2>4. AtPathInv'
        BY <2>1, <1>t, LeaveType DEF TypeOK, AtPathInv
    <2> QED BY <2>2, <2>3, <2>4 DEF LockInv
<1>8. ASSUME Clean PROVE LockInv'
    <2>1. CASE BeginClean
        BY <2>1, <1>t DEF BeginClean, LockInv, TypeOK, HolderInv, AtPathInv
    <2>2. CASE UnlinkLock
        <3>1. /\ path' = None /\ cleaning' = "rmdir"
              /\ removed' = (removed \/ \E p \in Checked : fd[p] = path)
              /\ UNCHANGED <<dir, fd, holder, pc, cleans>>
            BY <2>2 DEF UnlinkLock
        <3>2. TypeOK' /\ HolderInv'
            BY <3>1, <1>t DEF TypeOK, HolderInv
        <3>3. AtPathInv'
            BY <3>1, <1>t DEF TypeOK, AtPathInv, Checked
        <3> QED BY <3>2, <3>3 DEF LockInv
    <2>3. CASE RemoveDirectory
        BY <2>3, <1>t DEF RemoveDirectory, LockInv, TypeOK, HolderInv, AtPathInv
    <2> QED BY <1>8, <2>1, <2>2, <2>3 DEF Clean
<1>9. CASE UNCHANGED vars
    BY <1>9, <1>t DEF vars, LockInv, TypeOK, HolderInv, AtPathInv
<1> QED
    BY <1>1, <1>2, <1>3, <1>4, <1>5, <1>6, <1>7, <1>8, <1>9
    DEF Next, WriterStep, ProbeStep, LockStep

\* The invariant holds in every reachable state.
THEOREM LockInvariance == Spec => []LockInv
<1>1. Init => LockInv
    BY InitLockInv
<1>2. LockInv /\ [Next]_vars => LockInv'
    BY NextLockInv
<1> QED BY <1>1, <1>2, PTL DEF Spec

\* Every variable keeps its range.
THEOREM LockTypeCorrect == Spec => []TypeOK
<1>1. LockInv => TypeOK
    BY DEF LockInv
<1> QED BY <1>1, LockInvariance, PTL

\* Two processes that hold the lock are one, as long as no clean unlinked it under
\* a process past its check.
LEMMA OneHolder ==
    ASSUME LockInv, ~removed, NEW v \in Held(Procs), NEW w \in Held(Procs)
    PROVE  v = w
<1>1. fd[v] = path /\ fd[w] = path
    BY DEF LockInv, AtPathInv, Held
<1>2. holder[path] = v /\ holder[path] = w
    BY <1>1 DEF LockInv, HolderInv, Held
<1> QED BY <1>2

\* Writers exclude each other unless a clean took the lock file from one of them.
THEOREM WritersAreExclusive == Spec => []WritersExclude
<1>1. LockInv => WritersExclude
    BY OneHolder DEF WritersExclude, Held
<1> QED BY <1>1, LockInvariance, PTL

\* Under the same condition a probe never reports an idle repository while a
\* writer runs.
THEOREM IdleReportsAreTrue == Spec => []IdleReportTrue
<1>1. LockInv => IdleReportTrue
    <2> SUFFICES ASSUME LockInv, ~removed,
                        NEW p \in Held(Probes), NEW w \in Held(Writers)
                 PROVE  FALSE
        BY DEF IdleReportTrue
    <2>1. p = w
        BY OneHolder DEF Held
    <2> QED BY <2>1, ProcsAssumption DEF Held
<1> QED BY <1>1, LockInvariance, PTL
=============================================================================
