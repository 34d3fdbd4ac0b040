---------------------------- MODULE ObservedRead ----------------------------
(***************************************************************************)
(* How a run reads the workspace: an opening inventory, the bodies through *)
(* descriptors, a closing inventory.  No step sees more than one file, and *)
(* the user may write, replace or remove files between any two of them.    *)
(* IndexPublication takes all of it as one look at the workspace: that is  *)
(* what this module shows.                                                 *)
(*                                                                         *)
(* A file is a sequence of lines, each a block of the read.  Every change  *)
(* of a file gives it a new change token; a file system whose clock stands *)
(* still between two writes is outside the model, as the design says of    *)
(* its tokens.                                                             *)
(***************************************************************************)
EXTENDS Integers, FiniteSets, Sequences, SequencesExt

CONSTANTS
    Files,          \* eligible names, numbered in the order of the walk
    Inodes,         \* inode numbers
    Texts,          \* contents a new file may have
    Workspaces,     \* contents the names may have at first
    Limit,          \* max_file_bytes, in lines
    MaxEdits        \* bound: changes by the user

VARIABLES
    disk,           \* name -> inode, or None
    inodes,         \* inode -> lines and change token
    edits,          \* changes so far; the next token
    stage,          \* "opening", "bodies", "closing", or "query" once the index is published
    step,           \* what the run does next
    names,          \* names still to be visited or read in this stage
    fd,             \* the open read: name, inode, metadata before and after, lines
    current,        \* the inventory of this walk
    opening,        \* the opening inventory
    results,        \* file -> outcome of its read
    interrupted,    \* some file changed while it was read
    versions,       \* token -> lines (history)
    late,           \* the workspace when the closing inventory looked for the control file (history)
    left            \* files removed since then (history)

userVars == <<disk, inodes, edits, versions>>
vars == <<userVars, stage, step, names, fd, current, opening, results, interrupted, late, left>>

Control == 0        \* .gitignore; the configuration is observed in the same way
Names == Files \union {Control}
None == 0
NUL == 0            \* the line that makes a file binary, or a control file ignore one
Text == 1           \* what a write puts
Gone == <<-1>>

NumberOf(name) == name + 1

ASSUME FilesAssumption == Files \subseteq Nat \ {0} /\ Inodes \subseteq Nat \ {0}
ASSUME BoundsAssumption == Limit \in Nat /\ MaxEdits \in Nat
ASSUME TextsAssumption == Texts \subseteq Seq(Nat)
ASSUME WorkspacesAssumption ==
    \A ws \in Workspaces : \A name \in Names :
        ws[name] = Gone \/ (ws[name] \in Seq(Nat) /\ NumberOf(name) \in Inodes)

Tokens == {0 - n : n \in Inodes} \union 1..MaxEdits

Meta(n) == [inode |-> n, size |-> Len(inodes[n].data), token |-> inodes[n].token]
NoMeta == [inode |-> None, size |-> 0, token |-> 0]
NoRead == [name |-> Control, inode |-> None, before |-> NoMeta, after |-> NoMeta, got |-> <<>>]

\* The last file is the one a control file may ignore.
Ignored(control) == {f \in Files : NUL \in ToSet(control) /\ \A g \in Files : g <= f}
First(S) == CHOOSE f \in S : \A g \in S : f <= g

NoInventory == [control |-> <<>>, controlMeta |-> NoMeta, eligible |-> {}, skips |-> {}]
Observed(f) == (CHOOSE o \in opening.eligible : o.path = f).meta

Outcome(status, body, token) == [status |-> status, body |-> body, token |-> token]
Unseen == Outcome("absent", <<>>, 0)

Ends == {"accepted", "rejected", "answered", "failed"}

-----------------------------------------------------------------------------
(* The user *)

\* One write, append or truncation through a descriptor.
Variants(data) ==
    {[data EXCEPT ![i] = IF @ = NUL THEN Text ELSE NUL] : i \in DOMAIN data}
        \union (IF Len(data) <= Limit THEN {Append(data, Text)} ELSE {})
        \union {SubSeq(data, 1, n) : n \in {m \in {0, Len(data) - 1} : m >= 0}}

Modify(name) ==
    /\ disk[name] # None
    /\ \E data \in Variants(inodes[disk[name]].data) :
          /\ inodes' = [inodes EXCEPT ![disk[name]] = [data |-> data, token |-> edits + 1]]
          /\ versions' = [versions EXCEPT ![edits + 1] = data]
    /\ UNCHANGED disk

\* Another file takes the name; a number nobody refers to may come back.
Replace(name) ==
    /\ \E n \in Inodes \ (ToSet(<<fd.inode>>) \union {disk[m] : m \in Names}), data \in Texts :
          /\ disk' = [disk EXCEPT ![name] = n]
          /\ inodes' = [inodes EXCEPT ![n] = [data |-> data, token |-> edits + 1]]
          /\ versions' = [versions EXCEPT ![edits + 1] = data]

Unlink(name) ==
    /\ disk[name] # None
    /\ disk' = [disk EXCEPT ![name] = None]
    /\ UNCHANGED <<inodes, versions>>

Edit ==
    /\ step \notin Ends
    /\ edits < MaxEdits
    /\ edits' = edits + 1
    /\ \E name \in Names : Modify(name) \/ Replace(name) \/ Unlink(name)
    /\ left' = IF stage = "closing" THEN left \union {f \in Files : disk[f] # None /\ disk'[f] = None} ELSE {}
    /\ UNCHANGED <<stage, step, names, fd, current, opening, results, interrupted, late>>

-----------------------------------------------------------------------------
(* One file through a descriptor *)

OpenFile(name) ==
    /\ fd' = [NoRead EXCEPT !.name = name, !.inode = disk[name],
                            !.before = Meta(disk[name])]
    /\ step' = "block"

\* Reading goes on to the end of the file or one block past the limit.
ReadBlock ==
    /\ step = "block"
    /\ LET data == inodes[fd.inode].data
           more == Len(fd.got) < Len(data) /\ Len(fd.got) <= Limit
       IN  IF more THEN fd' = [fd EXCEPT !.got = Append(@, data[Len(@) + 1])] /\ UNCHANGED step
                   ELSE step' = "stat" /\ UNCHANGED fd
    /\ UNCHANGED <<userVars, stage, names, current, opening, results, interrupted, late, left>>

StatAfter ==
    /\ step = "stat"
    /\ fd' = [fd EXCEPT !.after = Meta(fd.inode)]
    /\ step' = "path"
    /\ UNCHANGED <<userVars, stage, names, current, opening, results, interrupted, late, left>>

\* Mutant: the file is compared with its observation when it is opened only.
VerdictOpened(f) ==
    IF Len(fd.got) > Limit THEN "too_large"
    ELSE IF disk[f] = None THEN "unsafe_path"
    ELSE IF disk[f] # fd.inode \/ Len(fd.got) # fd.after.size THEN "changed_during_read"
    ELSE IF NUL \in ToSet(fd.got) THEN "binary" ELSE "read"

\* read_observed_file: a read is good when descriptor and path still are what the
\* inventory observed, and as long.
Verdict(f) ==
    IF Len(fd.got) > Limit THEN "too_large"
    ELSE IF disk[f] = None THEN "unsafe_path"
    ELSE IF \/ fd.before # fd.after \/ fd.after # Meta(disk[f])
            \/ fd.after # Observed(f) \/ Len(fd.got) # fd.after.size THEN "changed_during_read"
    ELSE IF NUL \in ToSet(fd.got) THEN "binary" ELSE "read"

\* _read_safe_candidate, which control files are read by, does not compare the tokens.
ControlRead ==
    /\ Len(fd.got) <= Limit
    /\ disk[Control] = fd.inode
    /\ fd.before.size = fd.after.size
    /\ Len(fd.got) = fd.after.size

-----------------------------------------------------------------------------
(* The two inventories *)

Walking == stage \in {"opening", "closing"}

Workspace == [name \in Names |-> IF disk[name] = None THEN Gone ELSE inodes[disk[name]].data]

\* The control file comes first; without one nothing is ignored, and one that
\* cannot be opened makes the inventory incomplete.
BeginWalk ==
    /\ Walking /\ step = "control"
    /\ \/ disk[Control] = None /\ step' = "list" /\ UNCHANGED fd
       \/ disk[Control] # None /\ OpenFile(Control)
       \/ disk[Control] # None /\ step' = "rejected" /\ UNCHANGED fd
    /\ late' = (IF stage = "closing" THEN Workspace ELSE late) /\ left' = {}
    /\ UNCHANGED <<userVars, stage, names, current, opening, results, interrupted>>

\* Mutant: a control file that is refused stays open.
EndControlOpen ==
    /\ Walking /\ step = "path"
    /\ IF ControlRead
       THEN /\ current' = [current EXCEPT !.control = fd.got, !.controlMeta = fd.after]
            /\ step' = "list" /\ fd' = NoRead
       ELSE step' = "rejected" /\ UNCHANGED <<current, fd>>
    /\ UNCHANGED <<userVars, stage, names, opening, results, interrupted, late, left>>

\* A control file that cannot be read makes the inventory incomplete.
EndControl ==
    /\ Walking /\ step = "path"
    /\ fd' = NoRead
    /\ IF ControlRead
       THEN /\ current' = [current EXCEPT !.control = fd.got, !.controlMeta = fd.after]
            /\ step' = "list"
       ELSE step' = "rejected" /\ UNCHANGED current
    /\ UNCHANGED <<userVars, stage, names, opening, results, interrupted, late, left>>

\* The walk lists a directory before it looks at its files.
List ==
    /\ step = "list"
    /\ names' = {f \in Files : disk[f] # None} \ Ignored(current.control)
    /\ step' = "visit"
    /\ UNCHANGED <<userVars, stage, fd, current, opening, results, interrupted, late, left>>

\* A listed file that cannot be looked at makes the inventory incomplete, which
\* ends the run.
Visit ==
    /\ step = "visit" /\ names # {}
    /\ LET f == First(names)
           seen == [path |-> f, meta |-> Meta(disk[f])]
       IN  /\ names' = names \ {f}
           /\ IF disk[f] = None THEN step' = "rejected" /\ UNCHANGED current
              ELSE /\ current' = IF seen.meta.size > Limit
                                 THEN [current EXCEPT !.skips = @ \union {seen}]
                                 ELSE [current EXCEPT !.eligible = @ \union {seen}]
                   /\ UNCHANGED step
    /\ UNCHANGED <<userVars, stage, fd, opening, results, interrupted, late, left>>

EndOpening ==
    /\ stage = "opening" /\ step = "visit" /\ names = {}
    /\ opening' = current
    /\ current' = NoInventory
    /\ results' = [f \in Files |->
          IF \E o \in current.skips : o.path = f THEN Outcome("too_large", <<>>, 0) ELSE Unseen]
    /\ names' = {o.path : o \in current.eligible}
    /\ stage' = "bodies" /\ step' = "open"
    /\ UNCHANGED <<userVars, fd, interrupted, late, left>>

\* Mutant: two inventories are the same when they have the same files.
SameFiles(a, b) ==
    /\ {o.path : o \in a.eligible} = {o.path : o \in b.eligible}
    /\ {o.path : o \in a.skips} = {o.path : o \in b.skips}

\* workspace_inventory_identity.
SameInventory(a, b) == a = b

CloseFence ==
    /\ stage = "closing" /\ step = "visit" /\ names = {}
    /\ step' = IF interrupted \/ ~SameInventory(opening, current) THEN "rejected" ELSE "accepted"
    /\ UNCHANGED <<userVars, stage, names, fd, current, opening, results, interrupted, late, left>>

-----------------------------------------------------------------------------
(* The bodies *)

\* A file that is not the observed one is not read.  "unreadable" stands for every
\* other reason not to read a file, a file that is gone ("unsafe_path") included:
\* they are skips alike.
BeginBody ==
    /\ stage = "bodies" /\ step = "open" /\ names # {}
    /\ LET f == First(names)
           skip(status) == /\ results' = [results EXCEPT ![f] = Outcome(status, <<>>, 0)]
                           /\ interrupted' = (interrupted \/ status = "changed_during_read")
                           /\ names' = names \ {f}
                           /\ UNCHANGED <<fd, step>>
       IN  \/ skip("unreadable")
           \/ disk[f] # None /\ Meta(disk[f]) # Observed(f) /\ skip("changed_during_read")
           \/ /\ disk[f] # None /\ Meta(disk[f]) = Observed(f)
              /\ OpenFile(f)
              /\ UNCHANGED <<results, interrupted, names>>
    /\ UNCHANGED <<userVars, stage, current, opening, late, left>>

EndBody ==
    /\ stage = "bodies" /\ step = "path"
    /\ LET status == Verdict(fd.name)
           body == IF status = "read" THEN fd.got ELSE <<>>
       IN  /\ results' = [results EXCEPT ![fd.name] = Outcome(status, body, fd.after.token)]
           /\ interrupted' = (interrupted \/ status = "changed_during_read")
    /\ names' = names \ {fd.name}
    /\ fd' = NoRead
    /\ step' = "open"
    /\ UNCHANGED <<userVars, stage, current, opening, late, left>>

EndBodies ==
    /\ stage = "bodies" /\ step = "open" /\ names = {}
    /\ stage' = "closing" /\ step' = "control"
    /\ UNCHANGED <<userVars, names, fd, current, opening, results, interrupted, late, left>>

-----------------------------------------------------------------------------
Init ==
    /\ \E ws \in Workspaces :
          /\ disk = [name \in Names |-> IF ws[name] = Gone THEN None ELSE NumberOf(name)]
          /\ inodes = [n \in Inodes |->
                [data |-> IF \E name \in Names : NumberOf(name) = n /\ ws[name] # Gone
                          THEN ws[n - 1] ELSE <<>>,
                 token |-> 0 - n]]
          /\ versions = [t \in Tokens |-> IF t < 0 THEN inodes[0 - t].data ELSE <<>>]
    /\ edits = 0
    /\ stage = "opening" /\ step = "control" /\ names = {} /\ fd = NoRead
    /\ current = NoInventory /\ opening = NoInventory
    /\ results = [f \in Files |-> Unseen] /\ interrupted = FALSE
    /\ late = [name \in Names |-> Gone] /\ left = {}

Done == step \in Ends /\ UNCHANGED vars

Next ==
    \/ Edit
    \/ BeginWalk \/ EndControl \/ List \/ Visit \/ EndOpening \/ CloseFence
    \/ BeginBody \/ ReadBlock \/ StatAfter \/ EndBody \/ EndBodies
    \/ Done

Spec == Init /\ [][Next]_vars

-----------------------------------------------------------------------------
(* Properties *)

\* Every variable keeps its type; a descriptor is open exactly while one file is read.
TypeOK ==
    /\ disk \in [Names -> Inodes \union {None}] /\ edits \in 0..MaxEdits
    /\ stage \in {"opening", "bodies", "closing", "query"}
    /\ step \in {"control", "block", "stat", "path", "list", "visit", "open", "text"} \union Ends
    /\ names \subseteq Files
    /\ fd.inode # None <=> step \in {"block", "stat", "path"}
    /\ Len(fd.got) <= Limit + 1
    /\ \A f \in Files : results[f].status \in
          {"absent", "too_large", "unreadable", "unsafe_path", "changed_during_read", "binary", "read"}

\* A body that read_observed_file returns, of a source file or of one that
\* `cst status --verify` hashes, is the whole file as it was at one moment, the one its
\* metadata tell, whatever was written, replaced or reused during the read.
ReadIsWhole ==
    \A f \in Files : results[f].status = "read" => results[f].body = versions[results[f].token]

\* What a look at the files of one moment gives.
PlanOf(ws) ==
    [f \in Files |->
        IF ws[f] = Gone \/ (ws[Control] # Gone /\ f \in Ignored(ws[Control])) THEN "absent"
        ELSE IF Len(ws[f]) > Limit THEN "too_large"
        ELSE IF NUL \in ToSet(ws[f]) THEN "binary" ELSE "read"]

\* The closing fence: a run that passes it has read the workspace of one moment, when the
\* closing inventory looked for the control file, which is part of it, although it never
\* saw two files at once.  What may be missing are files that could not be opened, and
\* files that came after the first listing and were gone again before the second.
AcceptedIsOneMoment ==
    step = "accepted" =>
        \A f \in Files :
            \/ /\ results[f].status = PlanOf(late)[f]
               /\ results[f].status = "read" => results[f].body = late[f]
            \/ results[f].status = "unreadable" /\ PlanOf(late)[f] \in {"read", "binary"}
            \/ results[f].status = "absent" /\ f \in left
=============================================================================
