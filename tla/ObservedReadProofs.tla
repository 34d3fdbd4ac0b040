------------------------- MODULE ObservedReadProofs -------------------------
(***************************************************************************)
(* The reads of a run and the answers built from them, for any number of   *)
(* files, inode numbers, windows, chunks and edits: the invariants of      *)
(* ObservedRead, then those of AnswerText.                                 *)
(***************************************************************************)
EXTENDS AnswerText, TLAPS, SequenceTheorems, WellFoundedInduction, InductionLemmas

Metas == [inode : Inodes \union {None}, size : Nat, token : Tokens \union {0}]

\* The shape of the state, without the stages.
StateType ==
    /\ disk \in [Names -> Inodes \union {None}]
    /\ inodes \in [Inodes -> [data : Seq(Nat), token : Tokens]]
    /\ edits \in 0..MaxEdits
    /\ versions \in [Tokens -> Seq(Nat)]
    /\ fd \in [name : Names, inode : Inodes \union {None}, before : Metas, after : Metas, got : Seq(Nat)]

\* A token names the lines an inode has had since it was set.
TokensInv == \A n \in Inodes : inodes[n].token <= edits /\ versions[inodes[n].token] = inodes[n].data

USE FilesAssumption, BoundsAssumption DEF Names, Control, None

LEMMA TokenNumbers == Tokens \subseteq Int
    BY DEF Tokens

LEMMA VariantsType ==
    ASSUME NEW data \in Seq(Nat), NEW d \in Variants(data)
    PROVE  d \in Seq(Nat)
<1>1. CASE \E i \in DOMAIN data : d = [data EXCEPT ![i] = IF @ = NUL THEN Text ELSE NUL]
    <2>1. PICK i \in DOMAIN data : d = [data EXCEPT ![i] = IF @ = NUL THEN Text ELSE NUL]
        BY <1>1
    <2>3. i \in 1..Len(data)
        OBVIOUS
    <2>2. (IF data[i] = NUL THEN Text ELSE NUL) \in Nat
        BY DEF NUL, Text
    <2> QED BY <2>1, <2>2, <2>3, ExceptSeq
<1>2. CASE d = Append(data, Text)
    BY <1>2 DEF Text
<1>3. CASE \E n \in {m \in {0, Len(data) - 1} : m >= 0} : d = SubSeq(data, 1, n)
    <2>1. PICK n \in 0..Len(data) : d = SubSeq(data, 1, n)
        BY <1>3
    <2> QED BY <2>1
<1> QED BY <1>1, <1>2, <1>3 DEF Variants

-----------------------------------------------------------------------------
(* The user *)

\* What was recorded of a file at some earlier moment: the lines it had then have a token.
Recorded(m) ==
    /\ m \in Metas /\ m.inode \in Inodes /\ m.token \in Tokens
    /\ m.token <= edits /\ m.token <= inodes[m.inode].token
    /\ m.size = Len(versions[m.token])

\* The name still is the file that was recorded, and has not been changed.
Unchanged(name, m) == disk[name] = m.inode /\ inodes[m.inode].token = m.token

\* An edit gives at most one inode new lines, under a new token; the inode that is open
\* and the others that have a name are not reused.
LEMMA EditEffect ==
    ASSUME StateType, TokensInv, Edit
    PROVE  /\ StateType' /\ TokensInv'
           /\ edits' = edits + 1 /\ edits + 1 \in Tokens
           /\ \A t \in Tokens : t <= edits => versions'[t] = versions[t]
           /\ \A n \in Inodes : inodes'[n] = inodes[n] \/ inodes'[n].token = edits + 1
           /\ \A name \in Names, n \in Inodes : disk'[name] = n =>
                  disk[name] = n \/ inodes'[n].token = edits + 1
           /\ \A name \in Names : disk'[name] = fd.inode /\ fd.inode # None => disk[name] = fd.inode
<1>1. edits + 1 \in Tokens /\ edits \in Nat /\ edits + 1 \in 0..MaxEdits
    BY DEF Edit, StateType, Tokens
<1>2. PICK name \in Names : Modify(name) \/ Replace(name) \/ Unlink(name)
    BY DEF Edit
<1>3. edits' = edits + 1 /\ UNCHANGED fd
    BY DEF Edit
<1>4. CASE Unlink(name)
    <2>1. disk' \in [Names -> Inodes \union {None}]
        BY <1>4 DEF Unlink, StateType
    <2>2. UNCHANGED <<inodes, versions>> /\ disk' = [disk EXCEPT ![name] = None]
        BY <1>4 DEF Unlink
    <2>3. StateType'
        BY <1>1, <1>3, <2>1, <2>2 DEF StateType
    <2>4. TokensInv'
        <3> SUFFICES ASSUME NEW n \in Inodes
                     PROVE  inodes[n].token <= edits + 1 /\ versions[inodes[n].token] = inodes[n].data
            BY <1>3, <2>2 DEF TokensInv
        <3>1. inodes[n].token \in Int /\ inodes[n].token <= edits
            BY TokenNumbers DEF TokensInv, StateType
        <3> QED BY <1>1, <3>1 DEF TokensInv
    <2>5. \A other \in Names, n \in Inodes : disk'[other] = n => disk[other] = n
        BY <2>2 DEF StateType
    <2>6. \A other \in Names : disk'[other] = fd.inode /\ fd.inode # None => disk[other] = fd.inode
        BY <2>2 DEF StateType
    <2> QED BY <1>1, <1>3, <2>2, <2>3, <2>4, <2>5, <2>6
<1>5. ASSUME NEW n \in Inodes, NEW data \in Seq(Nat),
             inodes' = [inodes EXCEPT ![n] = [data |-> data, token |-> edits + 1]],
             versions' = [versions EXCEPT ![edits + 1] = data]
      PROVE  /\ inodes' \in [Inodes -> [data : Seq(Nat), token : Tokens]]
             /\ versions' \in [Tokens -> Seq(Nat)]
             /\ TokensInv'
             /\ \A t \in Tokens : t <= edits => versions'[t] = versions[t]
             /\ \A m \in Inodes : inodes'[m] = inodes[m] \/ inodes'[m].token = edits + 1
    <2>1. /\ inodes' \in [Inodes -> [data : Seq(Nat), token : Tokens]]
          /\ versions' \in [Tokens -> Seq(Nat)]
        BY <1>1, <1>5 DEF StateType
    <2>2. \A t \in Tokens : t <= edits => versions'[t] = versions[t]
        BY <1>1, <1>5, TokenNumbers DEF StateType
    <2>3. \A m \in Inodes : m # n => inodes'[m] = inodes[m]
        BY <1>5 DEF StateType
    <2>4. inodes'[n] = [data |-> data, token |-> edits + 1] /\ versions'[edits + 1] = data
        BY <1>1, <1>5 DEF StateType
    <2>5. ASSUME NEW m \in Inodes
          PROVE  inodes'[m].token <= edits' /\ versions'[inodes'[m].token] = inodes'[m].data
        <3>1. CASE m = n
            BY <1>1, <1>3, <2>4, <3>1
        <3>2. CASE m # n
            <4>1. inodes[m].token \in Tokens /\ inodes[m].token <= edits
                BY DEF TokensInv, StateType
            <4>2. inodes[m].token \in Int
                BY <4>1, TokenNumbers
            <4>3. inodes[m].token <= edits + 1
                BY <1>1, <4>1, <4>2
            <4> QED BY <1>3, <2>2, <2>3, <3>2, <4>1, <4>3 DEF TokensInv
        <3> QED BY <3>1, <3>2
    <2> QED BY <2>1, <2>2, <2>3, <2>4, <2>5 DEF TokensInv
<1>6. CASE Modify(name)
    <2>1. disk[name] \in Inodes /\ inodes[disk[name]].data \in Seq(Nat)
        BY <1>6 DEF Modify, StateType
    <2>2. PICK data \in Variants(inodes[disk[name]].data) :
              /\ inodes' = [inodes EXCEPT ![disk[name]] = [data |-> data, token |-> edits + 1]]
              /\ versions' = [versions EXCEPT ![edits + 1] = data]
        BY <1>6 DEF Modify
    <2>3. data \in Seq(Nat)
        BY <2>1, VariantsType
    <2>4. UNCHANGED disk
        BY <1>6 DEF Modify
    <2> QED BY <1>1, <1>3, <1>5, <2>1, <2>2, <2>3, <2>4 DEF StateType
<1>7. CASE Replace(name)
    <2>1. PICK n \in Inodes \ (ToSet(<<fd.inode>>) \union {disk[m] : m \in Names}), data \in Texts :
              /\ disk' = [disk EXCEPT ![name] = n]
              /\ inodes' = [inodes EXCEPT ![n] = [data |-> data, token |-> edits + 1]]
              /\ versions' = [versions EXCEPT ![edits + 1] = data]
        BY <1>7 DEF Replace
    <2>2. data \in Seq(Nat) /\ n \in Inodes
        BY <2>1, TextsAssumption
    <2>3. n # fd.inode
        BY <2>1 DEF ToSet
    <2>4. /\ disk' \in [Names -> Inodes \union {None}]
          /\ disk'[name] = n
          /\ \A other \in Names : other # name => disk'[other] = disk[other]
        BY <2>1, <2>2 DEF StateType
    <2>5. inodes'[n].token = edits + 1
        BY <2>1, <2>2 DEF StateType
    <2> QED BY <1>1, <1>3, <1>5, <2>1, <2>2, <2>3, <2>4, <2>5 DEF StateType
<1> QED BY <1>2, <1>4, <1>6, <1>7

\* Records stay records, and a file that is unchanged after an edit was so before it.
LEMMA EditKeepsRecords ==
    ASSUME StateType, TokensInv, Edit, NEW m, Recorded(m)
    PROVE  /\ Recorded(m)' /\ versions'[m.token] = versions[m.token]
           /\ \A name \in Names : Unchanged(name, m)' => Unchanged(name, m)
           /\ inodes'[m.inode].token = m.token => inodes'[m.inode] = inodes[m.inode]
<1>1. /\ edits' = edits + 1 /\ edits \in Nat
      /\ \A t \in Tokens : t <= edits => versions'[t] = versions[t]
      /\ \A n \in Inodes : inodes'[n] = inodes[n] \/ inodes'[n].token = edits + 1
      /\ \A name \in Names, n \in Inodes : disk'[name] = n =>
                  disk[name] = n \/ inodes'[n].token = edits + 1
    <2>1. edits \in Nat
        BY DEF StateType
    <2> QED BY <2>1, EditEffect
<1>2. m.token \in Int /\ m.inode \in Inodes /\ m.token \in Tokens /\ m.token <= edits
    BY TokenNumbers DEF Recorded
<1>3. inodes[m.inode].token \in Int
    BY <1>2, TokenNumbers DEF StateType
<1>4. versions'[m.token] = versions[m.token]
    BY <1>1, <1>2
<1>5. m.token <= edits' /\ m.token # edits + 1
    BY <1>1, <1>2
<1>6. m.token <= inodes'[m.inode].token
    BY <1>1, <1>2, <1>3, <1>5 DEF Recorded
<1>7. inodes'[m.inode].token = m.token => inodes'[m.inode] = inodes[m.inode]
    BY <1>1, <1>2, <1>5
<1>8. Recorded(m)'
    BY <1>2, <1>4, <1>5, <1>6 DEF Recorded
<1> QED BY <1>1, <1>2, <1>4, <1>5, <1>7, <1>8 DEF Unchanged

\* The look of a stat is a record, of an unchanged file.
LEMMA MetaRecorded ==
    ASSUME StateType, TokensInv, NEW n \in Inodes
    PROVE  /\ Recorded(Meta(n)) /\ Meta(n).inode = n
           /\ versions[Meta(n).token] = inodes[n].data
           /\ \A name \in Names : disk[name] = n => Unchanged(name, Meta(n))
<1>1. inodes[n].token \in Tokens /\ inodes[n].data \in Seq(Nat) /\ inodes[n].token \in Int
    BY TokenNumbers DEF StateType
<1>2. /\ Meta(n).inode = n /\ Meta(n).token = inodes[n].token
      /\ Meta(n).size = Len(inodes[n].data) /\ Len(inodes[n].data) \in Nat
    BY <1>1 DEF Meta
<1>3. Meta(n) \in Metas
    BY <1>1, <1>2 DEF Meta, Metas
<1>4. inodes[n].token <= edits /\ versions[inodes[n].token] = inodes[n].data
    BY DEF TokensInv
<1>5. Recorded(Meta(n))
    BY <1>1, <1>2, <1>3, <1>4 DEF Recorded
<1>6. \A name \in Names : disk[name] = n => Unchanged(name, Meta(n))
    BY <1>2 DEF Unchanged
<1> QED BY <1>2, <1>4, <1>5, <1>6

-----------------------------------------------------------------------------
(* The invariant *)

Observations(inv) == inv.eligible \union inv.skips
PathsOf(inv) == {o.path : o \in Observations(inv)}
Statuses == {"absent", "too_large", "unreadable", "unsafe_path", "changed_during_read", "binary", "read"}
Reading == step \in {"block", "stat", "path"}

\* Which steps a stage has.
StepInv ==
    /\ stage \in {"opening", "bodies", "closing"}
    /\ fd.inode # None <=> Reading
    /\ stage = "opening" => step \in {"control", "block", "stat", "path", "list", "visit", "rejected"}
    /\ stage = "bodies" => step \in {"open", "block", "stat", "path"}
    /\ stage = "closing" => step \in {"control", "block", "stat", "path", "list", "visit", "rejected", "accepted"}
    /\ names \subseteq Files
    /\ Len(fd.got) <= Limit + 1
    /\ results \in [Files -> [status : Statuses, body : Seq(Nat), token : Tokens \union {0}]]

\* As long as the open file has the token it was opened with, what has been read is the
\* beginning of the lines of that token; it stays so when the second stat saw that token.
Beginning(got, lines) == Len(got) <= Len(lines) /\ \A i \in 1..Len(got) : got[i] = lines[i]

FdInv ==
    Reading =>
        /\ Recorded(fd.before) /\ fd.before.inode = fd.inode
        /\ \/ inodes[fd.inode].token = fd.before.token
           \/ step = "path" /\ fd.after.token = fd.before.token
           => Beginning(fd.got, versions[fd.before.token])
        /\ step = "path" => /\ Recorded(fd.after) /\ fd.after.inode = fd.inode
                            /\ fd.before.token <= fd.after.token
        /\ stage = "bodies" => fd.name \in names /\ fd.before = Observed(fd.name)
        /\ Walking => fd.name = Control

\* An inventory holds one record of each file that its control file did not ignore.
WellFormed(inv) ==
    /\ inv \in [control : Seq(Nat), controlMeta : Metas,
                eligible : SUBSET [path : Files, meta : Metas], skips : SUBSET [path : Files, meta : Metas]]
    /\ (inv.controlMeta = NoMeta /\ inv.control = <<>>) \/ Recorded(inv.controlMeta)
    /\ \A o \in Observations(inv) : Recorded(o.meta) /\ o.path \notin Ignored(inv.control)
    /\ \A o1, o2 \in Observations(inv) : o1.path = o2.path => o1 = o2
    /\ \A o \in inv.eligible : o.meta.size <= Limit
    /\ \A o \in inv.skips : o.meta.size > Limit

InventoriesInv ==
    /\ WellFormed(opening) /\ WellFormed(current)
    /\ step \notin {"list", "visit", "rejected", "accepted"} => current = NoInventory
    /\ step = "list" => Observations(current) = {}
    /\ step = "visit" => names \intersect PathsOf(current) = {} /\ names \intersect Ignored(current.control) = {}

\* What became of a file that was to be read.
Fate(o) ==
    LET r == results[o.path]
        lines == versions[o.meta.token]
    IN  \/ r.status = "read" /\ r.token = o.meta.token /\ r.body = lines /\ NUL \notin ToSet(lines)
        \/ r.status = "binary" /\ NUL \in ToSet(lines)
        \/ r.status = "unreadable"
        \/ r.status = "changed_during_read" /\ interrupted
        \/ r.status \in {"too_large", "unsafe_path"} /\ ~Unchanged(o.path, o.meta)

ResultsInv ==
    /\ stage = "opening" => \A f \in Files : results[f].status = "absent"
    /\ stage # "opening" =>
           /\ \A f \in Files \ PathsOf(opening) : results[f].status = "absent"
           /\ \A o \in opening.skips : results[o.path].status = "too_large"
           /\ \A o \in opening.eligible :
                  \/ stage = "bodies" /\ o.path \in names /\ results[o.path].status = "absent"
                  \/ ~(stage = "bodies" /\ o.path \in names) /\ Fate(o)
    /\ stage = "bodies" => names \subseteq {o.path : o \in opening.eligible}

\* What the closing inventory has found so far, against the moment it began.
LateInv ==
    stage = "closing" /\ step # "control" =>
        /\ \A o \in Observations(opening) :
               Unchanged(o.path, o.meta) => late[o.path] = versions[o.meta.token]
        /\ \A o \in Observations(opening) \intersect Observations(current) :
               /\ late[o.path] = versions[o.meta.token]
               /\ o \in opening.eligible => results[o.path].status \notin {"too_large", "unsafe_path"}
        /\ \A f \in Files : late[f] # Gone /\ disk[f] = None => f \in left
        /\ Reading => /\ late[Control] = versions[fd.before.token]
                      /\ opening.controlMeta.inode = fd.inode => opening.controlMeta.token <= fd.before.token
        /\ step \in {"list", "visit", "accepted"} =>
               \/ current.controlMeta = NoMeta /\ late[Control] = Gone
               \/ /\ current.controlMeta # NoMeta
                  /\ current.controlMeta = opening.controlMeta => late[Control] = current.control
        /\ step \in {"visit", "accepted"} =>
               \A f \in Files : late[f] # Gone /\ f \notin Ignored(current.control)
                                  => f \in names \/ f \in PathsOf(current) \/ f \in left
        /\ step = "accepted" => opening = current /\ ~interrupted /\ names = {}

ReadInv == StateType /\ TokensInv /\ StepInv /\ FdInv /\ InventoriesInv /\ ResultsInv /\ LateInv

\* The two properties follow.
LEMMA WholeFollows == ReadInv => ReadIsWhole
<1> SUFFICES ASSUME ReadInv, NEW f \in Files, results[f].status = "read"
             PROVE  results[f].body = versions[results[f].token]
    BY DEF ReadIsWhole
<1>1. stage # "opening" /\ f \in PathsOf(opening)
    BY DEF ReadInv, ResultsInv
<1>2. PICK o \in Observations(opening) : o.path = f
    BY <1>1 DEF PathsOf
<1>3. o \in opening.eligible
    BY <1>1, <1>2 DEF ReadInv, ResultsInv, Observations
<1>4. Fate(o)
    BY <1>1, <1>2, <1>3 DEF ReadInv, ResultsInv
<1> QED BY <1>2, <1>4 DEF Fate

LEMMA MomentFollows == ReadInv => AcceptedIsOneMoment
<1> SUFFICES ASSUME ReadInv, step = "accepted", NEW f \in Files
             PROVE  \/ /\ results[f].status = PlanOf(late)[f]
                       /\ results[f].status = "read" => results[f].body = late[f]
                    \/ results[f].status = "unreadable" /\ PlanOf(late)[f] \in {"read", "binary"}
                    \/ results[f].status = "absent" /\ f \in left
    BY DEF AcceptedIsOneMoment
<1>1. stage = "closing" /\ opening = current /\ ~interrupted /\ names = {}
    BY DEF ReadInv, StepInv, LateInv
<1>2. late[Control] = Gone \/ late[Control] = current.control
    BY <1>1 DEF ReadInv, LateInv
<1>3. PlanOf(late)[f] =
         IF late[f] = Gone \/ (late[Control] # Gone /\ f \in Ignored(late[Control])) THEN "absent"
         ELSE IF Len(late[f]) > Limit THEN "too_large"
         ELSE IF NUL \in ToSet(late[f]) THEN "binary" ELSE "read"
    BY DEF PlanOf
<1>4. ASSUME NEW o \in Observations(opening), o.path = f
      PROVE  /\ late[f] = versions[o.meta.token] /\ Len(late[f]) = o.meta.size /\ o.meta.size \in Nat
             /\ ~(late[f] = Gone \/ (late[Control] # Gone /\ f \in Ignored(late[Control])))
    <2>1. late[f] = versions[o.meta.token]
        BY <1>1, <1>4 DEF ReadInv, LateInv
    <2>2. Recorded(o.meta) /\ f \notin Ignored(current.control)
        BY <1>1, <1>4 DEF ReadInv, InventoriesInv, WellFormed
    <2>3. versions[o.meta.token] \in Seq(Nat) /\ Len(late[f]) = o.meta.size /\ o.meta.size \in Nat
        BY <2>1, <2>2 DEF Recorded, ReadInv, StateType, Metas
    <2>4. Gone \notin Seq(Nat)
        BY DEF Gone
    <2> QED BY <1>2, <2>1, <2>2, <2>3, <2>4
<1>5. CASE \E o \in opening.eligible : o.path = f
    <2>1. PICK o \in opening.eligible : o.path = f
        BY <1>5
    <2>2. /\ late[f] = versions[o.meta.token] /\ Len(late[f]) = o.meta.size /\ o.meta.size \in Nat
          /\ ~(late[f] = Gone \/ (late[Control] # Gone /\ f \in Ignored(late[Control])))
        BY <1>4, <2>1 DEF Observations
    <2>3. o.meta.size <= Limit
        BY <2>1 DEF ReadInv, InventoriesInv, WellFormed
    <2>4. PlanOf(late)[f] = IF NUL \in ToSet(late[f]) THEN "binary" ELSE "read"
        BY <1>3, <2>2, <2>3
    <2>5. Fate(o) /\ results[f].status \notin {"too_large", "unsafe_path"}
        BY <1>1, <2>1 DEF ReadInv, ResultsInv, LateInv, Observations
    <2> QED BY <1>1, <2>1, <2>2, <2>4, <2>5 DEF Fate
<1>6. CASE \E o \in opening.skips : o.path = f
    <2>1. PICK o \in opening.skips : o.path = f
        BY <1>6
    <2>2. /\ Len(late[f]) = o.meta.size /\ o.meta.size \in Nat
          /\ ~(late[f] = Gone \/ (late[Control] # Gone /\ f \in Ignored(late[Control])))
        BY <1>4, <2>1 DEF Observations
    <2>3. o.meta.size > Limit
        BY <2>1 DEF ReadInv, InventoriesInv, WellFormed
    <2>4. PlanOf(late)[f] = "too_large"
        BY <1>3, <2>2, <2>3
    <2>5. results[f].status = "too_large"
        BY <1>1, <2>1 DEF ReadInv, ResultsInv
    <2> QED BY <2>4, <2>5
<1>7. CASE f \notin PathsOf(opening)
    <2>1. results[f].status = "absent"
        BY <1>1, <1>7 DEF ReadInv, ResultsInv
    <2>2. late[f] = Gone \/ f \in Ignored(current.control) \/ f \in left
        BY <1>1, <1>7 DEF ReadInv, LateInv
    <2>3. CASE late[f] = Gone
        BY <1>3, <2>1, <2>3
    <2>4. CASE f \in Ignored(current.control) /\ late[Control] # Gone
        BY <1>2, <1>3, <2>1, <2>4
    <2>5. CASE f \in Ignored(current.control) /\ late[Control] = Gone
        <3>1. current.control # <<>>
            BY <2>5 DEF Ignored, ToSet
        <3>2. current.control \in Seq(Nat) /\ Gone \notin Seq(Nat)
            BY DEF ReadInv, InventoriesInv, WellFormed, Gone
        <3>3. current.controlMeta # NoMeta /\ current.controlMeta = opening.controlMeta
            BY <1>1, <3>1 DEF ReadInv, InventoriesInv, WellFormed, Recorded, NoMeta
        <3>4. late[Control] = current.control
            BY <1>1, <3>3 DEF ReadInv, LateInv
        <3> QED BY <2>5, <3>2, <3>4
    <2> QED BY <2>1, <2>2, <2>3, <2>4, <2>5
<1> QED BY <1>5, <1>6, <1>7 DEF PathsOf, Observations

-----------------------------------------------------------------------------
(* The steps of the run *)

LEMMA FirstIn ==
    ASSUME NEW S \in SUBSET Files, S # {}
    PROVE  First(S) \in S
<1>1. S \subseteq Nat
    OBVIOUS
<1>2. PICK x \in S : \A y \in S : ~(<<y, x>> \in OpToRel(<, Nat))
    BY <1>1, NatLessThanWellFounded, WFMin
<1>3. ASSUME NEW y \in S PROVE x <= y
    <2>1. x \in Nat /\ y \in Nat
        BY <1>1
    <2>2. ~(y < x)
        BY <1>2, <2>1 DEF OpToRel
    <2> QED BY <2>1, <2>2
<1> QED BY <1>2, <1>3 DEF First

\* What a step of the run leaves of the workspace.
LEMMA QuietKeeps ==
    ASSUME UNCHANGED userVars
    PROVE  /\ \A m : Recorded(m)' <=> Recorded(m)
           /\ \A name, m : Unchanged(name, m)' <=> Unchanged(name, m)
           /\ TokensInv' <=> TokensInv
           /\ \A n : Meta(n)' = Meta(n)
    BY DEF userVars, Recorded, Unchanged, TokensInv, Meta

LEMMA NoReadType == NoRead \in [name : Names, inode : Inodes \union {None}, before : Metas, after : Metas, got : Seq(Nat)]
                    /\ NoRead.inode = None /\ NoRead.got = <<>> /\ NoMeta \in Metas
    BY DEF NoRead, NoMeta, Metas

LEMMA NoInventoryFormed == WellFormed(NoInventory) /\ Observations(NoInventory) = {}
    BY NoReadType DEF WellFormed, NoInventory, Observations

LEMMA InitReadInv == Init => ReadInv
<1> SUFFICES ASSUME Init PROVE ReadInv
    OBVIOUS
<1>1. PICK ws \in Workspaces :
          /\ disk = [name \in Names |-> IF ws[name] = Gone THEN None ELSE NumberOf(name)]
          /\ inodes = [n \in Inodes |->
                [data |-> IF \E name \in Names : NumberOf(name) = n /\ ws[name] # Gone
                          THEN ws[n - 1] ELSE <<>>,
                 token |-> 0 - n]]
          /\ versions = [t \in Tokens |-> IF t < 0 THEN inodes[0 - t].data ELSE <<>>]
    BY DEF Init
<1>2. ASSUME NEW n \in Inodes
      PROVE  inodes[n].data \in Seq(Nat) /\ inodes[n].token = 0 - n /\ 0 - n \in Tokens
    <2>1. CASE \E name \in Names : NumberOf(name) = n /\ ws[name] # Gone
        <3>1. n - 1 \in Names /\ ws[n - 1] # Gone
            BY <2>1 DEF NumberOf
        <3> QED BY <1>1, <2>1, <3>1, WorkspacesAssumption DEF Tokens
    <2>2. CASE ~\E name \in Names : NumberOf(name) = n /\ ws[name] # Gone
        <3>1. inodes[n].data = <<>> /\ inodes[n].token = 0 - n
            BY <1>1, <2>2
        <3> QED BY <3>1 DEF Tokens
    <2> QED BY <2>1, <2>2
<1>3. inodes \in [Inodes -> [data : Seq(Nat), token : Tokens]]
    <2> DEFINE DataOf(n) == IF \E name \in Names : NumberOf(name) = n /\ ws[name] # Gone THEN ws[n - 1] ELSE <<>>
    <2>1. inodes = [n \in Inodes |-> [data |-> DataOf(n), token |-> 0 - n]]
        BY <1>1
    <2>2. \A n \in Inodes : DataOf(n) \in Seq(Nat) /\ 0 - n \in Tokens
        BY <1>2, <2>1
    <2> HIDE DEF DataOf
    <2> QED BY <2>1, <2>2
<1>4. versions \in [Tokens -> Seq(Nat)]
    <2> DEFINE LinesOf(t) == IF t < 0 THEN inodes[0 - t].data ELSE <<>>
    <2>1. ASSUME NEW t \in Tokens PROVE LinesOf(t) \in Seq(Nat)
        <3>1. t < 0 => 0 - t \in Inodes
            BY DEF Tokens
        <3>2. CASE t < 0
            BY <1>2, <3>1, <3>2
        <3>3. CASE ~(t < 0)
            <4>1. LinesOf(t) = <<>> /\ <<>> \in Seq(Nat)
                BY <3>3
            <4> HIDE DEF LinesOf
            <4> QED BY <4>1
        <3> QED BY <3>2, <3>3
    <2>2. versions = [t \in Tokens |-> LinesOf(t)]
        BY <1>1
    <2> HIDE DEF LinesOf
    <2> QED BY <2>1, <2>2
<1>5. disk \in [Names -> Inodes \union {None}]
    BY <1>1, WorkspacesAssumption
<1>6. StateType
    <2>1. edits \in 0..MaxEdits /\ fd = NoRead
        BY DEF Init
    <2> QED BY <1>3, <1>4, <1>5, <2>1, NoReadType DEF StateType
<1>7. TokensInv
    <2> SUFFICES ASSUME NEW n \in Inodes
                 PROVE  inodes[n].token <= edits /\ versions[inodes[n].token] = inodes[n].data
        BY DEF TokensInv
    <2>1. 0 - n \in Int /\ 0 - n < 0 /\ 0 - (0 - n) = n
        OBVIOUS
    <2> QED BY <1>1, <1>2, <2>1 DEF Init
<1>8. StepInv
    <2>1. Unseen \in [status : Statuses, body : Seq(Nat), token : Tokens \union {0}]
        BY DEF Unseen, Outcome, Statuses
    <2> QED BY <2>1, NoReadType DEF Init, StepInv, Reading
<1>9. FdInv /\ ResultsInv /\ LateInv
    BY DEF Init, FdInv, Reading, ResultsInv, LateInv, Unseen, Outcome
<1>10. InventoriesInv
    BY NoInventoryFormed DEF Init, InventoriesInv
<1> QED BY <1>6, <1>7, <1>8, <1>9, <1>10 DEF ReadInv

-----------------------------------------------------------------------------
(* Every step keeps the invariant *)

\* An inventory stays well formed as long as its records do.
LEMMA FormedKept ==
    ASSUME NEW inv, WellFormed(inv), \A m : Recorded(m) => Recorded(m)'
    PROVE  WellFormed(inv)'
    BY DEF WellFormed, Observations

LEMMA EditStep ==
    ASSUME ReadInv, Edit
    PROVE  ReadInv'
<1>1. UNCHANGED <<stage, step, names, fd, current, opening, results, interrupted, late>>
    BY DEF Edit
<1>2. StateType /\ TokensInv /\ StepInv /\ FdInv /\ InventoriesInv /\ ResultsInv /\ LateInv
    BY DEF ReadInv
<1>3. StateType' /\ TokensInv'
    BY <1>2, EditEffect
<1>4. \A m : Recorded(m) =>
         /\ Recorded(m)' /\ versions'[m.token] = versions[m.token]
         /\ \A name \in Names : Unchanged(name, m)' => Unchanged(name, m)
         /\ inodes'[m.inode].token = m.token => inodes'[m.inode] = inodes[m.inode]
    BY <1>2, EditKeepsRecords
<1>5. StepInv'
    BY <1>1, <1>2 DEF StepInv, Reading
<1>6. FdInv'
    <2> SUFFICES ASSUME Reading
                 PROVE  FdInv'
        BY <1>1 DEF FdInv, Reading
    <2>1. Recorded(fd.before) /\ fd.before.inode = fd.inode
        BY <1>2 DEF FdInv
    <2>2. Recorded(fd.before)' /\ versions'[fd.before.token] = versions[fd.before.token]
          /\ (inodes'[fd.inode].token = fd.before.token => inodes[fd.inode].token = fd.before.token)
        BY <1>1, <1>4, <2>1
    <2>3. step = "path" => Recorded(fd.after)'
        BY <1>1, <1>2, <1>4 DEF FdInv
    <2> QED BY <1>1, <1>2, <2>1, <2>2, <2>3 DEF FdInv, Reading, Observed, Walking
<1>7. InventoriesInv'
    <2>1. WellFormed(opening)' /\ WellFormed(current)'
        BY <1>1, <1>2, <1>4, FormedKept DEF InventoriesInv
    <2> QED BY <1>1, <1>2, <2>1 DEF InventoriesInv, Observations, PathsOf
<1>8. \A o \in Observations(opening) : o.path \in Names /\ Recorded(o.meta)
    BY <1>2 DEF InventoriesInv, WellFormed, Observations
<1>9. ResultsInv'
    <2>1. ASSUME NEW o \in opening.eligible, Fate(o)
          PROVE  Fate(o)'
        <3>1. o.path \in Names /\ Recorded(o.meta)
            BY <1>8, <2>1 DEF Observations
        <3>2. versions'[o.meta.token] = versions[o.meta.token]
              /\ (Unchanged(o.path, o.meta)' => Unchanged(o.path, o.meta))
            BY <1>4, <3>1
        <3> QED BY <1>1, <2>1, <3>2 DEF Fate
    <2> QED BY <1>1, <1>2, <2>1 DEF ResultsInv, PathsOf, Observations
<1>10. LateInv'
    <2> SUFFICES ASSUME stage = "closing", step # "control"
                 PROVE  LateInv'
        BY <1>1 DEF LateInv
    <2>1. \A o \in Observations(opening) :
              /\ versions'[o.meta.token] = versions[o.meta.token]
              /\ Unchanged(o.path, o.meta)' => Unchanged(o.path, o.meta)
        BY <1>4, <1>8
    <2>2. \A f \in Files : late'[f] # Gone /\ disk'[f] = None => f \in left'
        BY <1>1, <1>2 DEF Edit, LateInv
    <2>3. Reading => versions'[fd.before.token] = versions[fd.before.token]
        BY <1>2, <1>4 DEF FdInv
    <2>4. \A f \in left : f \in left'
        BY DEF Edit
    <2> QED BY <1>1, <1>2, <2>1, <2>2, <2>3, <2>4 DEF LateInv, Observations, PathsOf, Reading
<1> QED BY <1>3, <1>5, <1>6, <1>7, <1>9, <1>10 DEF ReadInv

\* What all steps of the run have in common: what was recorded stays so.
LEMMA QuietInvariants ==
    ASSUME ReadInv, UNCHANGED userVars,
           fd' \in [name : Names, inode : Inodes \union {None}, before : Metas, after : Metas, got : Seq(Nat)]
    PROVE  /\ StateType' /\ TokensInv'
           /\ \A inv : WellFormed(inv) => WellFormed(inv)'
<1>1. StateType'
    BY DEF ReadInv, StateType, userVars
<1>2. TokensInv' /\ \A m : Recorded(m) => Recorded(m)'
    BY QuietKeeps DEF ReadInv
<1> QED BY <1>1, <1>2, FormedKept

LEMMA ReadBlockStep ==
    ASSUME ReadInv, ReadBlock
    PROVE  ReadInv'
<1>1. /\ step = "block" /\ step' \in {"block", "stat"}
      /\ UNCHANGED <<disk, inodes, edits, versions, stage, names, current, opening, results, interrupted, late, left>>
      /\ UNCHANGED userVars
    BY DEF ReadBlock, userVars
<1>2. StateType /\ TokensInv /\ StepInv /\ FdInv /\ InventoriesInv /\ ResultsInv /\ LateInv
    BY DEF ReadInv
<1>3. fd.inode \in Inodes /\ Recorded(fd.before) /\ fd.before.inode = fd.inode
    BY <1>1, <1>2 DEF StateType, StepInv, FdInv, Reading
<1>4. inodes[fd.inode].data \in Seq(Nat) /\ versions[inodes[fd.inode].token] = inodes[fd.inode].data
    BY <1>2, <1>3 DEF StateType, TokensInv
<1>5. /\ fd' \in [name : Names, inode : Inodes \union {None}, before : Metas, after : Metas, got : Seq(Nat)]
      /\ fd'.inode = fd.inode /\ fd'.before = fd.before /\ fd'.name = fd.name
      /\ Len(fd'.got) <= Limit + 1
      /\ inodes[fd.inode].token = fd.before.token => Beginning(fd'.got, versions[fd.before.token])
    <2>1. CASE UNCHANGED fd
        BY <1>1, <1>2, <2>1 DEF StateType, StepInv, FdInv, Reading
    <2>2. CASE /\ Len(fd.got) < Len(inodes[fd.inode].data) /\ Len(fd.got) <= Limit
               /\ fd' = [fd EXCEPT !.got = Append(@, inodes[fd.inode].data[Len(@) + 1])]
        <3> DEFINE line == inodes[fd.inode].data[Len(fd.got) + 1]
        <3>1. fd.got \in Seq(Nat) /\ line \in Nat
            BY <1>2, <1>4, <2>2, SMTT(40) DEF StateType
        <3>2. fd' = [fd EXCEPT !.got = Append(fd.got, line)]
            BY <2>2
        <3>3. /\ fd' \in [name : Names, inode : Inodes \union {None}, before : Metas, after : Metas, got : Seq(Nat)]
              /\ fd'.inode = fd.inode /\ fd'.before = fd.before /\ fd'.name = fd.name
              /\ fd'.got = Append(fd.got, line)
            <4> DEFINE got == Append(fd.got, line)
            <4>1. fd \in [name : Names, inode : Inodes \union {None}, before : Metas, after : Metas, got : Seq(Nat)]
                BY <1>2 DEF StateType
            <4>2. got \in Seq(Nat) /\ fd' = [fd EXCEPT !.got = got]
                BY <3>1, <3>2
            <4> HIDE DEF got
            <4>3. /\ fd' \in [name : Names, inode : Inodes \union {None}, before : Metas, after : Metas, got : Seq(Nat)]
                  /\ fd'.inode = fd.inode /\ fd'.before = fd.before /\ fd'.name = fd.name /\ fd'.got = got
                BY <4>1, <4>2
            <4> QED BY <4>3 DEF got
        <3>4. Len(fd'.got) = Len(fd.got) + 1 /\ Len(fd.got) \in Nat
            BY <3>1, <3>3
        <3>5. ASSUME inodes[fd.inode].token = fd.before.token
              PROVE  Beginning(fd'.got, versions[fd.before.token])
            <4>1. versions[fd.before.token] = inodes[fd.inode].data /\ Beginning(fd.got, inodes[fd.inode].data)
                BY <1>1, <1>2, <1>4, <3>5 DEF FdInv, Reading
            <4>2. ASSUME NEW i \in 1..Len(fd'.got)
                  PROVE  fd'.got[i] = inodes[fd.inode].data[i]
                <5>1. CASE i = Len(fd.got) + 1
                    BY <3>1, <3>3, <5>1
                <5>2. CASE i # Len(fd.got) + 1
                    <6>1. i \in 1..Len(fd.got)
                        BY <3>4, <4>2, <5>2
                    <6>2. fd'.got[i] = fd.got[i]
                        BY <3>1, <3>3, <6>1
                    <6> QED BY <4>1, <6>1, <6>2 DEF Beginning
                <5> QED BY <5>1, <5>2
            <4>3. Len(fd'.got) <= Len(inodes[fd.inode].data)
                BY <1>4, <2>2, <3>4
            <4> QED BY <4>1, <4>2, <4>3 DEF Beginning
        <3> QED BY <2>2, <3>3, <3>4, <3>5
    <2> QED BY <2>1, <2>2 DEF ReadBlock
<1>6. StateType' /\ TokensInv' /\ \A inv : WellFormed(inv) => WellFormed(inv)'
    BY <1>1, <1>5, QuietInvariants
<1>7. StepInv'
    BY <1>1, <1>2, <1>5 DEF StepInv, Reading
<1>8. FdInv'
    BY <1>1, <1>2, <1>3, <1>5, QuietKeeps DEF FdInv, Reading, Observed, Walking
<1>9. InventoriesInv'
    BY <1>1, <1>2, <1>6 DEF InventoriesInv
<1>10. ResultsInv'
    BY <1>1, <1>2, QuietKeeps DEF ResultsInv, Fate, PathsOf, Observations
<1>11. LateInv'
    BY <1>1, <1>2, <1>5, QuietKeeps DEF LateInv, Reading, PathsOf, Observations
<1> QED BY <1>6, <1>7, <1>8, <1>9, <1>10, <1>11 DEF ReadInv

LEMMA StatAfterStep ==
    ASSUME ReadInv, StatAfter
    PROVE  ReadInv'
<1>1. /\ step = "stat" /\ step' = "path" /\ fd' = [fd EXCEPT !.after = Meta(fd.inode)]
      /\ UNCHANGED <<disk, inodes, edits, versions, stage, names, current, opening, results, interrupted, late, left>>
      /\ UNCHANGED userVars
    BY DEF StatAfter, userVars
<1>2. StateType /\ TokensInv /\ StepInv /\ FdInv /\ InventoriesInv /\ ResultsInv /\ LateInv
    BY DEF ReadInv
<1>3. fd.inode \in Inodes /\ Recorded(fd.before) /\ fd.before.inode = fd.inode
    BY <1>1, <1>2 DEF StateType, StepInv, FdInv, Reading
<1>4. Recorded(Meta(fd.inode)) /\ Meta(fd.inode).inode = fd.inode
      /\ Meta(fd.inode).token = inodes[fd.inode].token /\ Meta(fd.inode) \in Metas
    BY <1>2, <1>3, MetaRecorded DEF Meta, Recorded
<1>5. /\ fd' \in [name : Names, inode : Inodes \union {None}, before : Metas, after : Metas, got : Seq(Nat)]
      /\ fd'.inode = fd.inode /\ fd'.before = fd.before /\ fd'.name = fd.name /\ fd'.got = fd.got
      /\ fd'.after = Meta(fd.inode)
    BY <1>1, <1>2, <1>4 DEF StateType
<1>6. StateType' /\ TokensInv' /\ \A inv : WellFormed(inv) => WellFormed(inv)'
    BY <1>1, <1>5, QuietInvariants
<1>7. StepInv'
    BY <1>1, <1>2, <1>5 DEF StepInv, Reading
<1>8. FdInv'
    <2>1. fd.before.token <= fd'.after.token
        BY <1>3, <1>4, <1>5 DEF Recorded
    <2>2. inodes[fd.inode].token = fd.before.token => Beginning(fd.got, versions[fd.before.token])
        BY <1>1, <1>2 DEF FdInv, Reading
    <2> QED BY <1>1, <1>2, <1>3, <1>4, <1>5, <2>1, <2>2, QuietKeeps DEF FdInv, Reading, Observed, Walking
<1>9. InventoriesInv'
    BY <1>1, <1>2, <1>6 DEF InventoriesInv
<1>10. ResultsInv'
    BY <1>1, <1>2, QuietKeeps DEF ResultsInv, Fate, PathsOf, Observations
<1>11. LateInv'
    BY <1>1, <1>2, <1>5, QuietKeeps DEF LateInv, Reading, PathsOf, Observations
<1> QED BY <1>6, <1>7, <1>8, <1>9, <1>10, <1>11 DEF ReadInv

\* What opening a file puts into the descriptor.
LEMMA OpenedFile ==
    ASSUME ReadInv, UNCHANGED userVars, NEW name \in Names, disk[name] # None, OpenFile(name)
    PROVE  /\ fd' \in [name : Names, inode : Inodes \union {None}, before : Metas, after : Metas, got : Seq(Nat)]
           /\ fd'.name = name /\ fd'.inode = disk[name] /\ fd'.inode \in Inodes
           /\ fd'.before = Meta(disk[name]) /\ fd'.before.inode = fd'.inode
           /\ fd'.got = <<>> /\ step' = "block"
           /\ Recorded(fd'.before) /\ Recorded(fd.before)'
           /\ fd'.before.token = inodes[disk[name]].token
           /\ versions[fd'.before.token] = inodes[disk[name]].data
           /\ Beginning(fd'.got, versions'[fd'.before.token])
<1>1. disk[name] \in Inodes
    BY DEF ReadInv, StateType
<1>2. /\ Recorded(Meta(disk[name])) /\ Meta(disk[name]).inode = disk[name]
      /\ versions[Meta(disk[name]).token] = inodes[disk[name]].data
      /\ Meta(disk[name]) \in Metas /\ Meta(disk[name]).token = inodes[disk[name]].token
    BY <1>1, MetaRecorded DEF ReadInv, Recorded, Meta
<1>3. fd' = [name |-> name, inode |-> disk[name], before |-> Meta(disk[name]), after |-> NoMeta, got |-> <<>>]
    BY DEF OpenFile, NoRead
<1>4. /\ fd' \in [name : Names, inode : Inodes \union {None}, before : Metas, after : Metas, got : Seq(Nat)]
      /\ fd'.name = name /\ fd'.inode = disk[name] /\ fd'.before = Meta(disk[name]) /\ fd'.got = <<>>
    BY <1>1, <1>2, <1>3, NoReadType
<1>5. Recorded(fd.before)'
    BY <1>2, <1>4, QuietKeeps
<1>6. versions[fd'.before.token] \in Seq(Nat) /\ versions' = versions
    BY <1>2, <1>4 DEF Recorded, ReadInv, StateType, userVars
<1>7. Beginning(fd'.got, versions'[fd'.before.token])
    BY <1>4, <1>6 DEF Beginning
<1> QED BY <1>1, <1>2, <1>4, <1>5, <1>7 DEF OpenFile

LEMMA BeginWalkStep ==
    ASSUME ReadInv, BeginWalk
    PROVE  ReadInv'
<1>1. /\ Walking /\ step = "control" /\ left' = {}
      /\ late' = IF stage = "closing" THEN Workspace ELSE late
      /\ UNCHANGED <<disk, inodes, edits, versions, stage, names, current, opening, results, interrupted>>
      /\ UNCHANGED userVars
    BY DEF BeginWalk, userVars
<1>2. StateType /\ TokensInv /\ StepInv /\ FdInv /\ InventoriesInv /\ ResultsInv /\ LateInv
    BY DEF ReadInv
<1>3. Control \in Names /\ fd.inode = None /\ current = NoInventory
    BY <1>1, <1>2 DEF StepInv, Reading, InventoriesInv
<1>4. \/ disk[Control] # None /\ OpenFile(Control)
      \/ UNCHANGED fd /\ step' = "list" /\ disk[Control] = None
      \/ UNCHANGED fd /\ step' = "rejected"
    BY DEF BeginWalk
<1>5. disk[Control] # None /\ OpenFile(Control) =>
          /\ fd' \in [name : Names, inode : Inodes \union {None}, before : Metas, after : Metas, got : Seq(Nat)]
          /\ fd'.name = Control /\ fd'.inode = disk[Control] /\ fd'.inode \in Inodes
          /\ fd'.before.inode = fd'.inode /\ fd'.got = <<>> /\ step' = "block"
          /\ Recorded(fd.before)' /\ fd'.before.token = inodes[disk[Control]].token
          /\ versions[fd'.before.token] = inodes[disk[Control]].data
          /\ Beginning(fd'.got, versions'[fd'.before.token])
    BY <1>1, <1>3, OpenedFile
<1>6. /\ fd' \in [name : Names, inode : Inodes \union {None}, before : Metas, after : Metas, got : Seq(Nat)]
      /\ fd'.inode # None <=> step' = "block"
      /\ step' \in {"block", "list", "rejected"} /\ Len(fd'.got) <= Limit + 1
    BY <1>2, <1>3, <1>4, <1>5 DEF StateType, StepInv
<1>7. StateType' /\ TokensInv' /\ \A inv : WellFormed(inv) => WellFormed(inv)'
    BY <1>1, <1>6, QuietInvariants
<1>8. StepInv'
    BY <1>1, <1>2, <1>6 DEF StepInv, Reading, Walking
<1>9. FdInv'
    BY <1>1, <1>4, <1>5, <1>6 DEF FdInv, Reading, Walking
<1>10. InventoriesInv'
    BY <1>1, <1>2, <1>3, <1>6, <1>7, NoInventoryFormed DEF InventoriesInv, Observations, PathsOf
<1>11. ResultsInv'
    BY <1>1, <1>2, QuietKeeps DEF ResultsInv, Fate, PathsOf, Observations
<1>12. LateInv'
    <2> SUFFICES ASSUME stage = "closing"
                 PROVE  LateInv'
        BY <1>1 DEF LateInv
    <2>1. late' = Workspace
        BY <1>1
    <2>2. \A name \in Names : late'[name] = IF disk[name] = None THEN Gone ELSE inodes[disk[name]].data
        BY <2>1 DEF Workspace
    <2>3. ASSUME NEW o \in Observations(opening), Unchanged(o.path, o.meta)
          PROVE  late'[o.path] = versions[o.meta.token]
        <3>1. Recorded(o.meta) /\ o.path \in Names
            BY <1>2 DEF InventoriesInv, WellFormed, Observations
        <3> QED BY <1>2, <2>2, <2>3, <3>1 DEF Unchanged, Recorded, TokensInv
    <2>4. \A f \in Files : late'[f] # Gone => disk[f] # None
        BY <2>2
    <2>5. step' = "block" => late'[Control] = versions[fd'.before.token]
        BY <1>3, <1>4, <1>5, <2>2
    <2>6. step' = "block" /\ opening.controlMeta.inode = fd'.inode => opening.controlMeta.token <= fd'.before.token
        BY <1>2, <1>4, <1>5, <1>6 DEF InventoriesInv, WellFormed, Recorded, NoMeta
    <2>7. step' = "list" => late'[Control] = Gone
        BY <1>3, <1>4, <1>5, <2>2
    <2>8. Observations(current) = {} /\ current.controlMeta = NoMeta
        BY <1>3, NoInventoryFormed DEF NoInventory
    <2> QED BY <1>1, <1>6, <2>3, <2>4, <2>5, <2>6, <2>7, <2>8, QuietKeeps DEF LateInv, Reading, Observations
<1> QED BY <1>7, <1>8, <1>9, <1>10, <1>11, <1>12 DEF ReadInv

LEMMA EndControlStep ==
    ASSUME ReadInv, EndControl
    PROVE  ReadInv'
<1>1. /\ Walking /\ step = "path" /\ fd' = NoRead
      /\ UNCHANGED <<disk, inodes, edits, versions, stage, names, opening, results, interrupted, late, left>>
      /\ UNCHANGED userVars
    BY DEF EndControl, userVars
<1>2. StateType /\ TokensInv /\ StepInv /\ FdInv /\ InventoriesInv /\ ResultsInv /\ LateInv
    BY DEF ReadInv
<1>3. /\ fd.inode \in Inodes /\ current = NoInventory
      /\ Recorded(fd.before) /\ fd.before.inode = fd.inode
      /\ Recorded(fd.after) /\ fd.after.inode = fd.inode /\ fd.before.token <= fd.after.token
      /\ fd.after.token = fd.before.token => Beginning(fd.got, versions[fd.before.token])
    BY <1>1, <1>2 DEF StateType, StepInv, FdInv, Reading, InventoriesInv
<1>4. \/ UNCHANGED current /\ step' = "rejected"
      \/ /\ Len(fd.got) = fd.after.size
         /\ current' = [current EXCEPT !.control = fd.got, !.controlMeta = fd.after]
         /\ step' = "list"
    BY DEF EndControl, ControlRead
<1>5. current' = [current EXCEPT !.control = fd.got, !.controlMeta = fd.after] =>
          /\ WellFormed(current') /\ Observations(current') = {}
          /\ current'.control = fd.got /\ current'.controlMeta = fd.after
    <2> SUFFICES ASSUME current' = [current EXCEPT !.control = fd.got, !.controlMeta = fd.after]
                 PROVE  /\ WellFormed(current') /\ Observations(current') = {}
                        /\ current'.control = fd.got /\ current'.controlMeta = fd.after
        OBVIOUS
    <2>1. fd.got \in Seq(Nat) /\ fd.after \in Metas
        BY <1>2 DEF StateType
    <2>2. /\ current \in [control : Seq(Nat), controlMeta : Metas,
                           eligible : SUBSET [path : Files, meta : Metas], skips : SUBSET [path : Files, meta : Metas]]
          /\ Observations(current) = {}
        BY <1>3, NoInventoryFormed DEF WellFormed
    <2>3. /\ current'.control = fd.got /\ current'.controlMeta = fd.after
          /\ current'.eligible = current.eligible /\ current'.skips = current.skips
          /\ current' \in [control : Seq(Nat), controlMeta : Metas,
                            eligible : SUBSET [path : Files, meta : Metas], skips : SUBSET [path : Files, meta : Metas]]
        BY <2>1, <2>2
    <2> QED BY <1>3, <2>2, <2>3 DEF WellFormed, Observations
<1>6. step' \in {"list", "rejected"} /\ fd'.inode = None /\ Len(fd'.got) <= Limit + 1
    BY <1>1, <1>4, NoReadType
<1>7. StateType' /\ TokensInv' /\ \A inv : WellFormed(inv) => WellFormed(inv)'
    BY <1>1, NoReadType, QuietInvariants
<1>8. StepInv'
    BY <1>1, <1>2, <1>6 DEF StepInv, Reading, Walking
<1>9. FdInv'
    BY <1>6 DEF FdInv, Reading
<1>10. InventoriesInv'
    <2>1. WellFormed(current)' /\ Observations(current)' = {}
        BY <1>3, <1>4, <1>5, <1>7, NoInventoryFormed
    <2> QED BY <1>1, <1>2, <1>6, <1>7, <2>1 DEF InventoriesInv
<1>11. ResultsInv'
    BY <1>1, <1>2, QuietKeeps DEF ResultsInv, Fate, PathsOf, Observations
<1>12. LateInv'
    <2> SUFFICES ASSUME stage = "closing"
                 PROVE  LateInv'
        BY <1>1 DEF LateInv
    <2>1. late[Control] = versions[fd.before.token]
          /\ (opening.controlMeta.inode = fd.inode => opening.controlMeta.token <= fd.before.token)
        BY <1>1, <1>2 DEF LateInv, Reading
    <2>2. ASSUME step' = "list"
          PROVE  /\ current'.controlMeta # NoMeta
                 /\ current'.controlMeta = opening.controlMeta => late[Control] = current'.control
        <3>1. /\ Len(fd.got) = fd.after.size
              /\ current'.control = fd.got /\ current'.controlMeta = fd.after
            BY <1>4, <1>5, <2>2
        <3>2. current'.controlMeta # NoMeta
            BY <1>3, <3>1 DEF NoMeta
        <3>3. ASSUME fd.after = opening.controlMeta
              PROVE  late[Control] = fd.got
            <4>1. fd.after.token <= fd.before.token
                BY <1>3, <2>1, <3>3
            <4>2. fd.after.token = fd.before.token
                <5>1. fd.after.token \in Int /\ fd.before.token \in Int
                    BY <1>3, TokenNumbers DEF Recorded
                <5> QED BY <1>3, <4>1, <5>1
            <4>3. Beginning(fd.got, versions[fd.before.token])
                BY <1>3, <4>2
            <4>4. Len(fd.got) = Len(versions[fd.before.token])
                BY <1>3, <3>1, <4>2 DEF Recorded
            <4>5. fd.got \in Seq(Nat) /\ versions[fd.before.token] \in Seq(Nat)
                BY <1>2, <1>3 DEF StateType, Recorded
            <4>6. fd.got = versions[fd.before.token]
                BY <4>3, <4>4, <4>5, SeqEqual DEF Beginning
            <4> QED BY <2>1, <4>6
        <3> QED BY <3>1, <3>2, <3>3
    <2>3. Observations(current)' = {}
        BY <1>3, <1>4, <1>5, NoInventoryFormed
    <2> QED BY <1>1, <1>2, <1>6, <2>2, <2>3, QuietKeeps DEF LateInv, Reading, Observations
<1> QED BY <1>7, <1>8, <1>9, <1>10, <1>11, <1>12 DEF ReadInv

LEMMA ListStep ==
    ASSUME ReadInv, List
    PROVE  ReadInv'
<1>1. /\ step = "list" /\ step' = "visit"
      /\ names' = {f \in Files : disk[f] # None} \ Ignored(current.control)
      /\ UNCHANGED <<disk, inodes, edits, versions, stage, fd, current, opening, results, interrupted, late, left>>
      /\ UNCHANGED userVars
    BY DEF List, userVars
<1>2. StateType /\ TokensInv /\ StepInv /\ FdInv /\ InventoriesInv /\ ResultsInv /\ LateInv
    BY DEF ReadInv
<1>3. StateType' /\ TokensInv' /\ \A inv : WellFormed(inv) => WellFormed(inv)'
    BY <1>1, <1>2, QuietInvariants DEF StateType
<1>4. StepInv'
    BY <1>1, <1>2 DEF StepInv, Reading
<1>5. FdInv'
    BY <1>1 DEF FdInv, Reading
<1>6. InventoriesInv'
    BY <1>1, <1>2, <1>3 DEF InventoriesInv, PathsOf, Observations
<1>7. ResultsInv'
    BY <1>1, <1>2, QuietKeeps DEF StepInv, ResultsInv, Fate, PathsOf, Observations
<1>8. LateInv'
    BY <1>1, <1>2, QuietKeeps DEF LateInv, Reading, PathsOf, Observations
<1> QED BY <1>3, <1>4, <1>5, <1>6, <1>7, <1>8 DEF ReadInv

LEMMA VisitStep ==
    ASSUME ReadInv, Visit
    PROVE  ReadInv'
<1> DEFINE f == First(names)
           seen == [path |-> f, meta |-> Meta(disk[f])]
<1>1. /\ step = "visit" /\ names # {} /\ names' = names \ {f}
      /\ UNCHANGED <<disk, inodes, edits, versions, stage, fd, opening, results, interrupted, late, left>>
      /\ UNCHANGED userVars
    BY DEF Visit, userVars
<1>2. StateType /\ TokensInv /\ StepInv /\ FdInv /\ InventoriesInv /\ ResultsInv /\ LateInv
    BY DEF ReadInv
<1>3. f \in names /\ f \in Files /\ stage \in {"opening", "closing"}
    BY <1>1, <1>2, FirstIn DEF StepInv
<1>4. \/ disk[f] = None /\ step' = "rejected" /\ UNCHANGED current
      \/ /\ disk[f] # None /\ UNCHANGED step
         /\ \/ seen.meta.size > Limit /\ current' = [current EXCEPT !.skips = @ \union {seen}]
            \/ ~(seen.meta.size > Limit) /\ current' = [current EXCEPT !.eligible = @ \union {seen}]
    BY DEF Visit
<1>5. disk[f] # None => /\ Recorded(seen.meta) /\ seen.meta \in Metas /\ seen.meta.size \in Nat
                        /\ Unchanged(f, seen.meta)
    <2>1. disk[f] # None => disk[f] \in Inodes
        BY <1>2, <1>3 DEF StateType
    <2>2. ASSUME disk[f] # None
          PROVE  Recorded(Meta(disk[f])) /\ Unchanged(f, Meta(disk[f]))
        BY <1>2, <1>3, <2>1, <2>2, MetaRecorded
    <2> QED BY <2>2 DEF Recorded, Metas
<1> HIDE DEF f
<1>6. /\ current'.control = current.control /\ current'.controlMeta = current.controlMeta
      /\ current.eligible \subseteq current'.eligible /\ current.skips \subseteq current'.skips
      /\ step' = "visit" => seen \in Observations(current')
      /\ \A o \in Observations(current') : o \in Observations(current) \/ o = seen
      /\ WellFormed(current')
    <2>1. WellFormed(current) /\ f \notin PathsOf(current) /\ f \notin Ignored(current.control)
        BY <1>1, <1>2, <1>3 DEF InventoriesInv
    <2>2. current \in [control : Seq(Nat), controlMeta : Metas,
                       eligible : SUBSET [path : Files, meta : Metas], skips : SUBSET [path : Files, meta : Metas]]
        BY <2>1 DEF WellFormed
    <2>3. CASE disk[f] = None /\ step' = "rejected" /\ UNCHANGED current
        BY <2>1, <2>3
    <2>4. ASSUME disk[f] # None
          PROVE  /\ Recorded(seen.meta) /\ seen \in [path : Files, meta : Metas] /\ seen.meta.size \in Nat
                 /\ seen.path = f
        BY <1>3, <1>5, <2>4
    <2> HIDE DEF seen
    <2>5. CASE /\ disk[f] # None /\ seen.meta.size > Limit
               /\ current' = [current EXCEPT !.skips = @ \union {seen}]
        <3>1. /\ current'.control = current.control /\ current'.controlMeta = current.controlMeta
              /\ current'.eligible = current.eligible /\ current'.skips = current.skips \union {seen}
              /\ current' \in [control : Seq(Nat), controlMeta : Metas,
                       eligible : SUBSET [path : Files, meta : Metas], skips : SUBSET [path : Files, meta : Metas]]
            BY <2>2, <2>4, <2>5
        <3>2. \A o1, o2 \in Observations(current') : o1.path = o2.path => o1 = o2
            BY <2>1, <2>4, <2>5, <3>1 DEF WellFormed, Observations, PathsOf
        <3> QED BY <2>1, <2>4, <2>5, <3>1, <3>2 DEF WellFormed, Observations
    <2>6. CASE /\ disk[f] # None /\ ~(seen.meta.size > Limit)
               /\ current' = [current EXCEPT !.eligible = @ \union {seen}]
        <3>1. /\ current'.control = current.control /\ current'.controlMeta = current.controlMeta
              /\ current'.skips = current.skips /\ current'.eligible = current.eligible \union {seen}
              /\ current' \in [control : Seq(Nat), controlMeta : Metas,
                       eligible : SUBSET [path : Files, meta : Metas], skips : SUBSET [path : Files, meta : Metas]]
            BY <2>2, <2>4, <2>6
        <3>2. \A o1, o2 \in Observations(current') : o1.path = o2.path => o1 = o2
            BY <2>1, <2>4, <2>6, <3>1 DEF WellFormed, Observations, PathsOf
        <3>3. seen.meta.size <= Limit
            BY <2>4, <2>6
        <3> QED BY <2>1, <2>4, <2>6, <3>1, <3>2, <3>3 DEF WellFormed, Observations
    <2> QED BY <1>4, <2>3, <2>5, <2>6
<1>7. step' \in {"visit", "rejected"} /\ (step' = "visit" => disk[f] # None)
    BY <1>1, <1>4
<1>8. StateType' /\ TokensInv' /\ \A inv : WellFormed(inv) => WellFormed(inv)'
    BY <1>1, <1>2, QuietInvariants DEF StateType
<1>9. StepInv'
    BY <1>1, <1>2, <1>3, <1>7 DEF StepInv, Reading
<1>10. FdInv'
    BY <1>7 DEF FdInv, Reading
<1>11. InventoriesInv'
    <2>1. WellFormed(opening)' /\ WellFormed(current)'
        BY <1>1, <1>2, <1>6, <1>8 DEF InventoriesInv
    <2>2. \A p \in PathsOf(current') : p \in PathsOf(current) \/ p = f
        BY <1>6 DEF PathsOf
    <2>3. names' \intersect PathsOf(current') = {} /\ names' \intersect Ignored(current'.control) = {}
        BY <1>1, <1>2, <1>6, <2>2 DEF InventoriesInv
    <2> QED BY <1>7, <2>1, <2>3 DEF InventoriesInv
<1>12. ResultsInv'
    BY <1>1, <1>2, <1>3, QuietKeeps DEF ResultsInv, Fate, PathsOf, Observations
<1>13. LateInv'
    <2> SUFFICES ASSUME stage = "closing"
                 PROVE  LateInv'
        BY <1>1 DEF LateInv
    <2> HIDE DEF seen
    <2>1. ASSUME NEW o \in Observations(opening), o \in Observations(current')
          PROVE  /\ late[o.path] = versions[o.meta.token]
                 /\ o \in opening.eligible => results[o.path].status \notin {"too_large", "unsafe_path"}
        <3>1. CASE o \in Observations(current)
            BY <1>1, <1>2, <2>1, <3>1 DEF LateInv
        <3>2. CASE o \notin Observations(current)
            <4>1. o = seen /\ disk[f] # None
                BY <1>4, <1>6, <2>1, <3>2
            <4>2. Unchanged(o.path, o.meta)
                BY <1>5, <4>1 DEF seen
            <4>3. late[o.path] = versions[o.meta.token]
                BY <1>1, <1>2, <2>1, <4>2 DEF LateInv
            <4>4. o \in opening.eligible => Fate(o)
                BY <1>2 DEF ResultsInv
            <4> QED BY <4>2, <4>3, <4>4 DEF Fate
        <3> QED BY <3>1, <3>2
    <2>2. ASSUME step' = "visit", NEW g \in Files, late[g] # Gone, g \notin Ignored(current.control)
          PROVE  g \in names' \/ g \in PathsOf(current') \/ g \in left
        <3>1. g \in names \/ g \in PathsOf(current) \/ g \in left
            BY <1>1, <1>2, <2>2 DEF LateInv
        <3>2. PathsOf(current) \subseteq PathsOf(current') /\ f \in PathsOf(current')
            BY <1>6, <2>2 DEF PathsOf, Observations, seen
        <3> QED BY <1>1, <3>1, <3>2
    <2> QED BY <1>1, <1>2, <1>6, <1>7, <2>1, <2>2, QuietKeeps DEF LateInv, Reading
<1> QED BY <1>8, <1>9, <1>10, <1>11, <1>12, <1>13 DEF ReadInv

LEMMA CloseFenceStep ==
    ASSUME ReadInv, CloseFence
    PROVE  ReadInv'
<1>1. /\ stage = "closing" /\ step = "visit" /\ names = {}
      /\ step' \in {"rejected", "accepted"}
      /\ step' = "accepted" => ~interrupted /\ opening = current
      /\ UNCHANGED <<disk, inodes, edits, versions, stage, names, fd, current, opening, results, interrupted, late, left>>
      /\ UNCHANGED userVars
    BY DEF CloseFence, SameInventory, userVars
<1>2. StateType /\ TokensInv /\ StepInv /\ FdInv /\ InventoriesInv /\ ResultsInv /\ LateInv
    BY DEF ReadInv
<1>3. StateType' /\ TokensInv' /\ \A inv : WellFormed(inv) => WellFormed(inv)'
    BY <1>1, <1>2, QuietInvariants DEF StateType
<1>4. StepInv'
    BY <1>1, <1>2 DEF StepInv, Reading
<1>5. FdInv'
    BY <1>1 DEF FdInv, Reading
<1>6. InventoriesInv'
    BY <1>1, <1>2, <1>3 DEF InventoriesInv
<1>7. ResultsInv'
    BY <1>1, <1>2, QuietKeeps DEF ResultsInv, Fate, PathsOf, Observations
<1>8. LateInv'
    BY <1>1, <1>2, QuietKeeps DEF LateInv, Reading, PathsOf, Observations
<1> QED BY <1>3, <1>4, <1>5, <1>6, <1>7, <1>8 DEF ReadInv

LEMMA EndOpeningStep ==
    ASSUME ReadInv, EndOpening
    PROVE  ReadInv'
<1>1. /\ stage = "opening" /\ step = "visit" /\ stage' = "bodies" /\ step' = "open"
      /\ opening' = current /\ current' = NoInventory
      /\ names' = {o.path : o \in current.eligible}
      /\ UNCHANGED <<disk, inodes, edits, versions, fd, interrupted, late, left>>
      /\ UNCHANGED userVars
    BY DEF EndOpening, userVars
<1>2. StateType /\ TokensInv /\ StepInv /\ FdInv /\ InventoriesInv /\ ResultsInv /\ LateInv
    BY DEF ReadInv
<1>3. WellFormed(current)
    BY <1>2 DEF InventoriesInv
<1>4. \A o1 \in current.eligible, o2 \in current.skips : o1.path # o2.path
    <2> SUFFICES ASSUME NEW o1 \in current.eligible, NEW o2 \in current.skips, o1.path = o2.path
                 PROVE  FALSE
        OBVIOUS
    <2>1. o1 = o2 /\ o1.meta.size <= Limit /\ o2.meta.size > Limit /\ o1.meta \in Metas
        BY <1>3 DEF WellFormed, Observations
    <2>2. o1.meta.size \in Nat
        BY <2>1 DEF Metas
    <2> QED BY <2>1, <2>2
<1>5. \A o \in Observations(current) : o.path \in Files
    BY <1>3 DEF WellFormed, Observations
<1>6. results' = [f \in Files |->
          IF \E o \in current.skips : o.path = f THEN Outcome("too_large", <<>>, 0) ELSE Unseen]
    BY DEF EndOpening
<1>7. StateType' /\ TokensInv' /\ \A inv : WellFormed(inv) => WellFormed(inv)'
    BY <1>1, <1>2, QuietInvariants DEF StateType
<1>8. StepInv'
    <2>1. results' \in [Files -> [status : Statuses, body : Seq(Nat), token : Tokens \union {0}]]
        <3>1. /\ Outcome("too_large", <<>>, 0) \in [status : Statuses, body : Seq(Nat), token : Tokens \union {0}]
              /\ Unseen \in [status : Statuses, body : Seq(Nat), token : Tokens \union {0}]
            BY DEF Unseen, Outcome, Statuses
        <3> QED BY <1>6, <3>1
    <2>2. names' \subseteq Files
        BY <1>1, <1>5 DEF Observations
    <2> QED BY <1>1, <1>2, <2>1, <2>2 DEF StepInv, Reading
<1>9. FdInv'
    BY <1>1 DEF FdInv, Reading
<1>10. InventoriesInv'
    BY <1>1, <1>3, <1>7, NoInventoryFormed DEF InventoriesInv
<1>11. ResultsInv'
    <2>1. \A f \in Files \ PathsOf(current) : results'[f].status = "absent"
        BY <1>6 DEF PathsOf, Observations, Unseen, Outcome
    <2>2. \A o \in current.skips : results'[o.path].status = "too_large"
        BY <1>5, <1>6 DEF Observations, Outcome
    <2>3. \A o \in current.eligible : results'[o.path].status = "absent" /\ o.path \in names'
        BY <1>1, <1>4, <1>5, <1>6 DEF Observations, Unseen, Outcome
    <2> QED BY <1>1, <2>1, <2>2, <2>3 DEF ResultsInv
<1>12. LateInv'
    BY <1>1 DEF LateInv
<1> QED BY <1>7, <1>8, <1>9, <1>10, <1>11, <1>12 DEF ReadInv

\* The record that a file still to be read has in the opening inventory.
LEMMA ObservedRecord ==
    ASSUME ReadInv, stage = "bodies", NEW f \in names
    PROVE  \E o \in opening.eligible : /\ o.path = f /\ o.meta = Observed(f)
                                       /\ Recorded(o.meta) /\ o.meta.size <= Limit
<1>1. WellFormed(opening) /\ names \subseteq {o.path : o \in opening.eligible}
    BY DEF ReadInv, InventoriesInv, ResultsInv
<1>2. PICK o \in opening.eligible : o.path = f
    BY <1>1
<1>3. \A q \in opening.eligible : q.path = f => q = o
    BY <1>1, <1>2 DEF WellFormed, Observations
<1>4. (CHOOSE q \in opening.eligible : q.path = f) = o
    BY <1>2, <1>3
<1> QED BY <1>1, <1>2, <1>4 DEF Observed, WellFormed, Observations

\* The outcome of one file is set, and the file is no longer to be read.
LEMMA OneResult ==
    ASSUME ReadInv, UNCHANGED <<userVars, stage, opening>>, stage = "bodies", NEW f \in names,
           NEW r, results' = [results EXCEPT ![f] = r],
           names' = names \ {f},
           interrupted => interrupted',
           \A o \in opening.eligible : o.path = f /\ o.meta = Observed(f) => Fate(o)'
    PROVE  ResultsInv'
<1>1. ResultsInv /\ StepInv /\ WellFormed(opening)
    BY DEF ReadInv, InventoriesInv
<1>2. PICK o \in opening.eligible : o.path = f /\ o.meta = Observed(f)
    BY ObservedRecord
<1>3. f \in Files /\ results'[f] = r
      /\ \A g \in Files : g # f => results'[g] = results[g]
    BY <1>1 DEF StepInv
<1>4. \A q \in Observations(opening) : q.path = f => q = o
    BY <1>1, <1>2 DEF WellFormed, Observations
<1>5. \A q \in Observations(opening) : q.path \in Files
    BY <1>1 DEF WellFormed, Observations
<1>6. o \notin opening.skips
    <2>1. o \in opening.skips => o.meta.size <= Limit /\ o.meta.size > Limit /\ o.meta.size \in Nat
        BY <1>1, <1>2 DEF WellFormed, Observations, Metas, Recorded
    <2> QED BY <2>1
<1>7. Fate(o)'
    BY <1>2, <1>3
<1>8. ASSUME NEW q \in opening.eligible, q # o
      PROVE  \/ q.path \in names' /\ results'[q.path].status = "absent"
             \/ q.path \notin names' /\ Fate(q)'
    <2>1. q.path # f /\ results'[q.path] = results[q.path]
        BY <1>3, <1>4, <1>5, <1>8 DEF Observations
    <2>2. CASE q.path \in names
        BY <1>1, <1>8, <2>1, <2>2 DEF ResultsInv
    <2>3. CASE q.path \notin names
        <3>1. Fate(q)
            BY <1>1, <1>8, <2>3 DEF ResultsInv
        <3>2. Fate(q)'
            BY <2>1, <3>1, QuietKeeps DEF Fate, userVars
        <3> QED BY <2>3, <3>2
    <2> QED BY <2>2, <2>3
<1>9. \A g \in Files \ PathsOf(opening) : results'[g].status = "absent"
    BY <1>1, <1>2, <1>3 DEF ResultsInv, PathsOf, Observations
<1>10. \A q \in opening.skips : results'[q.path].status = "too_large"
    BY <1>1, <1>3, <1>4, <1>5, <1>6 DEF ResultsInv, Observations
<1>11. f \notin names' /\ names' \subseteq {q.path : q \in opening.eligible}
    BY <1>1 DEF ResultsInv
<1> QED BY <1>2, <1>7, <1>8, <1>9, <1>10, <1>11 DEF ResultsInv

LEMMA BeginBodyStep ==
    ASSUME ReadInv, BeginBody
    PROVE  ReadInv'
<1> DEFINE f == First(names)
<1>1. /\ stage = "bodies" /\ step = "open" /\ names # {}
      /\ UNCHANGED <<disk, inodes, edits, versions, stage, current, opening, late, left>>
      /\ UNCHANGED userVars
    BY DEF BeginBody, userVars
<1>2. StateType /\ TokensInv /\ StepInv /\ FdInv /\ InventoriesInv /\ ResultsInv /\ LateInv
    BY DEF ReadInv
<1>3. f \in names /\ f \in Files
    BY <1>1, <1>2, FirstIn DEF StepInv
<1>4. \/ \E status \in {"unreadable", "changed_during_read"} :
             /\ results' = [results EXCEPT ![f] = Outcome(status, <<>>, 0)]
             /\ interrupted' = (interrupted \/ status = "changed_during_read")
             /\ names' = names \ {f}
             /\ UNCHANGED <<fd, step>>
      \/ /\ disk[f] # None /\ Meta(disk[f]) = Observed(f) /\ OpenFile(f)
         /\ UNCHANGED <<results, interrupted, names>>
    BY DEF BeginBody
<1> HIDE DEF f
<1>5. CASE \E status \in {"unreadable", "changed_during_read"} :
             /\ results' = [results EXCEPT ![f] = Outcome(status, <<>>, 0)]
             /\ interrupted' = (interrupted \/ status = "changed_during_read")
             /\ names' = names \ {f}
             /\ UNCHANGED <<fd, step>>
    <2>1. PICK status \in {"unreadable", "changed_during_read"} :
             /\ results' = [results EXCEPT ![f] = Outcome(status, <<>>, 0)]
             /\ interrupted' = (interrupted \/ status = "changed_during_read")
             /\ names' = names \ {f}
             /\ UNCHANGED <<fd, step>>
        BY <1>5
    <2>2. StateType' /\ TokensInv' /\ \A inv : WellFormed(inv) => WellFormed(inv)'
        BY <1>1, <1>2, <2>1, QuietInvariants DEF StateType
    <2>3. StepInv'
        <3>1. Outcome(status, <<>>, 0) \in [status : Statuses, body : Seq(Nat), token : Tokens \union {0}]
            BY DEF Outcome, Statuses
        <3>2. results' \in [Files -> [status : Statuses, body : Seq(Nat), token : Tokens \union {0}]]
            BY <1>2, <2>1, <3>1 DEF StepInv
        <3> QED BY <1>1, <1>2, <2>1, <3>2 DEF StepInv, Reading
    <2>4. FdInv'
        BY <1>1, <2>1 DEF FdInv, Reading
    <2>5. InventoriesInv'
        BY <1>1, <1>2, <2>1, <2>2 DEF InventoriesInv
    <2> DEFINE r == Outcome(status, <<>>, 0)
    <2>6. ASSUME NEW o \in opening.eligible, o.path = f
          PROVE  Fate(o)'
        <3>1. results'[o.path].status = status
            <4>1. results'[f] = r
                BY <1>2, <1>3, <2>1 DEF StepInv
            <4> QED BY <2>6, <4>1 DEF Outcome
        <3>2. CASE status = "unreadable"
            BY <3>1, <3>2 DEF Fate
        <3>3. CASE status = "changed_during_read"
            <4>1. interrupted'
                BY <2>1, <3>3
            <4> QED BY <3>1, <3>3, <4>1 DEF Fate
        <3> QED BY <3>2, <3>3
    <2>7. ResultsInv'
        <3>1. interrupted => interrupted'
            BY <2>1
        <3>2. UNCHANGED <<userVars, stage, opening>> /\ stage = "bodies"
            BY <1>1
        <3>3. results' = [results EXCEPT ![f] = r] /\ names' = names \ {f}
            BY <2>1
        <3> HIDE DEF r
        <3> QED BY <1>3, <2>6, <3>1, <3>2, <3>3, OneResult
    <2>8. LateInv'
        BY <1>1 DEF LateInv
    <2> QED BY <2>2, <2>3, <2>4, <2>5, <2>7, <2>8 DEF ReadInv
<1>6. CASE /\ disk[f] # None /\ Meta(disk[f]) = Observed(f) /\ OpenFile(f)
           /\ UNCHANGED <<results, interrupted, names>>
    <2>1. /\ fd' \in [name : Names, inode : Inodes \union {None}, before : Metas, after : Metas, got : Seq(Nat)]
          /\ fd'.name = f /\ fd'.inode \in Inodes /\ fd'.before = Meta(disk[f])
          /\ fd'.before.inode = fd'.inode /\ fd'.got = <<>> /\ step' = "block"
          /\ Recorded(fd.before)' /\ Beginning(fd'.got, versions'[fd'.before.token])
        BY <1>1, <1>3, <1>6, OpenedFile
    <2>2. StateType' /\ TokensInv' /\ \A inv : WellFormed(inv) => WellFormed(inv)'
        BY <1>1, <2>1, QuietInvariants
    <2>3. StepInv'
        BY <1>1, <1>2, <1>6, <2>1 DEF StepInv, Reading
    <2>4. FdInv'
        BY <1>1, <1>3, <1>6, <2>1 DEF FdInv, Reading, Walking, Observed
    <2>5. InventoriesInv'
        BY <1>1, <1>2, <2>1, <2>2 DEF InventoriesInv
    <2>6. ResultsInv'
        BY <1>1, <1>2, <1>6, QuietKeeps DEF ResultsInv, Fate, PathsOf, Observations
    <2>7. LateInv'
        BY <1>1 DEF LateInv
    <2> QED BY <2>2, <2>3, <2>4, <2>5, <2>6, <2>7 DEF ReadInv
<1> QED BY <1>4, <1>5, <1>6

\* The verdict on a file that was read is its fate: in particular only a whole file is
\* read, and one that is refused for its size or its path is not the observed one.
LEMMA VerdictIsFate ==
    ASSUME ReadInv, stage = "bodies", step = "path", NEW o \in opening.eligible,
           o.path = fd.name, o.meta = Observed(fd.name), Recorded(o.meta), o.meta.size <= Limit
    PROVE  LET status == Verdict(fd.name)
               lines == versions[o.meta.token]
           IN  /\ status \in Statuses
               /\ \/ status = "read" /\ fd.after.token = o.meta.token /\ fd.got = lines /\ NUL \notin ToSet(lines)
                  \/ status = "binary" /\ NUL \in ToSet(lines)
                  \/ status = "changed_during_read"
                  \/ status \in {"too_large", "unsafe_path"} /\ ~Unchanged(o.path, o.meta)
<1> DEFINE lines == versions[o.meta.token]
<1>1. /\ fd.inode \in Inodes /\ fd.before = o.meta /\ fd.before.inode = fd.inode
      /\ \/ inodes[fd.inode].token = fd.before.token
         \/ fd.after.token = fd.before.token
         => Beginning(fd.got, versions[fd.before.token])
    BY DEF ReadInv, StateType, StepInv, FdInv, Reading
<1>2. /\ lines \in Seq(Nat) /\ fd.got \in Seq(Nat) /\ o.meta.size = Len(lines) /\ Len(lines) <= Limit
      /\ Len(fd.got) \in Nat /\ Len(lines) \in Nat /\ o.meta.inode \in Inodes
    BY DEF Recorded, ReadInv, StateType
<1>3. CASE Len(fd.got) > Limit
    <2>1. ~Unchanged(o.path, o.meta)
        <3>1. Unchanged(o.path, o.meta) => Len(fd.got) <= Len(lines)
            BY <1>1 DEF Unchanged, Beginning
        <3> QED BY <1>2, <1>3, <3>1
    <2>2. Verdict(fd.name) = "too_large"
        BY <1>3 DEF Verdict
    <2> QED BY <2>1, <2>2 DEF Statuses
<1>4. CASE ~(Len(fd.got) > Limit) /\ disk[fd.name] = None
    <2>1. Verdict(fd.name) = "unsafe_path"
        BY <1>4 DEF Verdict
    <2>2. ~Unchanged(o.path, o.meta)
        BY <1>2, <1>4 DEF Unchanged
    <2> QED BY <2>1, <2>2 DEF Statuses
<1>5. CASE /\ ~(Len(fd.got) > Limit) /\ disk[fd.name] # None
           /\ fd.before = fd.after /\ Len(fd.got) = fd.after.size
    <2>1. Beginning(fd.got, lines) /\ Len(fd.got) = Len(lines)
        BY <1>1, <1>2, <1>5
    <2>2. fd.got = lines
        BY <1>2, <2>1, SeqEqual DEF Beginning
    <2>3. \/ Verdict(fd.name) = "changed_during_read"
          \/ Verdict(fd.name) = "binary" /\ NUL \in ToSet(fd.got)
          \/ Verdict(fd.name) = "read" /\ NUL \notin ToSet(fd.got)
        BY <1>5 DEF Verdict
    <2> QED BY <1>1, <1>5, <2>2, <2>3 DEF Statuses
<1>6. CASE /\ ~(Len(fd.got) > Limit) /\ disk[fd.name] # None
           /\ ~(fd.before = fd.after /\ Len(fd.got) = fd.after.size)
    <2>1. Verdict(fd.name) = "changed_during_read"
        BY <1>6 DEF Verdict
    <2> QED BY <2>1 DEF Statuses
<1> QED BY <1>3, <1>4, <1>5, <1>6

LEMMA EndBodyStep ==
    ASSUME ReadInv, EndBody
    PROVE  ReadInv'
<1> DEFINE f == fd.name
           status == Verdict(fd.name)
           body == IF status = "read" THEN fd.got ELSE <<>>
           r == Outcome(status, body, fd.after.token)
<1>1. /\ stage = "bodies" /\ step = "path" /\ fd' = NoRead /\ step' = "open"
      /\ results' = [results EXCEPT ![f] = r] /\ names' = names \ {f}
      /\ interrupted' = (interrupted \/ status = "changed_during_read")
      /\ UNCHANGED <<disk, inodes, edits, versions, stage, current, opening, late, left>>
      /\ UNCHANGED userVars
    BY DEF EndBody, userVars
<1>2. StateType /\ TokensInv /\ StepInv /\ FdInv /\ InventoriesInv /\ ResultsInv /\ LateInv
    BY DEF ReadInv
<1>3. f \in names /\ f \in Files
    BY <1>1, <1>2 DEF StepInv, FdInv, Reading
<1>4. ASSUME NEW o \in opening.eligible, o.path = f, o.meta = Observed(f)
      PROVE  LET lines == versions[o.meta.token]
             IN  /\ status \in Statuses
                 /\ \/ status = "read" /\ fd.after.token = o.meta.token /\ fd.got = lines /\ NUL \notin ToSet(lines)
                    \/ status = "binary" /\ NUL \in ToSet(lines)
                    \/ status = "changed_during_read"
                    \/ status \in {"too_large", "unsafe_path"} /\ ~Unchanged(o.path, o.meta)
    <2>1. Recorded(o.meta) /\ o.meta.size <= Limit
        BY <1>2, <1>4 DEF InventoriesInv, WellFormed, Observations
    <2> QED BY <1>1, <1>4, <2>1, VerdictIsFate
<1>5. status \in Statuses
    BY <1>1, <1>3, <1>4, ObservedRecord
<1>6. r.status = status /\ r.body = body /\ r.token = fd.after.token
      /\ r \in [status : Statuses, body : Seq(Nat), token : Tokens \union {0}]
    <2>1. fd.after.token \in Tokens \union {0} /\ fd.got \in Seq(Nat) /\ <<>> \in Seq(Nat)
        BY <1>2 DEF StateType, Metas
    <2>2. body \in Seq(Nat)
        BY <2>1
    <2> HIDE DEF status, body
    <2> QED BY <1>5, <2>1, <2>2 DEF Outcome
<1> HIDE DEF r
<1>7. results'[f] = r
    BY <1>1, <1>2, <1>3 DEF StepInv
<1>8. StateType' /\ TokensInv' /\ \A inv : WellFormed(inv) => WellFormed(inv)'
    BY <1>1, NoReadType, QuietInvariants
<1>9. StepInv'
    <2>1. results' \in [Files -> [status : Statuses, body : Seq(Nat), token : Tokens \union {0}]]
        BY <1>1, <1>2, <1>6 DEF StepInv
    <2>2. fd'.inode = None /\ Len(fd'.got) <= Limit + 1
        BY <1>1, NoReadType
    <2>3. names' \subseteq Files
        BY <1>1, <1>2 DEF StepInv
    <2> HIDE DEF f
    <2> QED BY <1>1, <2>1, <2>2, <2>3 DEF StepInv, Reading
<1>10. FdInv'
    BY <1>1 DEF FdInv, Reading
<1>11. InventoriesInv'
    BY <1>1, <1>2, <1>8 DEF InventoriesInv
<1>12. ASSUME NEW o \in opening.eligible, o.path = f, o.meta = Observed(f)
       PROVE  Fate(o)'
    <2>1. results'[o.path].status = status /\ results'[o.path].token = fd.after.token
          /\ (status = "read" => results'[o.path].body = fd.got)
        BY <1>6, <1>7, <1>12
    <2>2. versions' = versions /\ (Unchanged(o.path, o.meta)' <=> Unchanged(o.path, o.meta))
        BY <1>1, QuietKeeps
    <2>3. status = "changed_during_read" => interrupted'
        BY <1>1
    <2>4. \/ status = "read" /\ fd.after.token = o.meta.token /\ fd.got = versions[o.meta.token]
             /\ NUL \notin ToSet(versions[o.meta.token])
          \/ status = "binary" /\ NUL \in ToSet(versions[o.meta.token])
          \/ status = "changed_during_read"
          \/ status \in {"too_large", "unsafe_path"} /\ ~Unchanged(o.path, o.meta)
        BY <1>4, <1>12
    <2> HIDE DEF status
    <2> QED BY <2>1, <2>2, <2>3, <2>4 DEF Fate
<1>13. ResultsInv'
    <2>1. interrupted => interrupted'
        BY <1>1
    <2>2. UNCHANGED <<userVars, stage, opening>> /\ stage = "bodies"
        BY <1>1
    <2>3. results' = [results EXCEPT ![f] = r] /\ names' = names \ {f}
        BY <1>1
    <2> QED BY <1>3, <1>12, <2>1, <2>2, <2>3, OneResult
<1>14. LateInv'
    BY <1>1 DEF LateInv
<1> QED BY <1>8, <1>9, <1>10, <1>11, <1>13, <1>14 DEF ReadInv

LEMMA EndBodiesStep ==
    ASSUME ReadInv, EndBodies
    PROVE  ReadInv'
<1>1. /\ stage = "bodies" /\ step = "open" /\ names = {} /\ stage' = "closing" /\ step' = "control"
      /\ UNCHANGED <<disk, inodes, edits, versions, names, fd, current, opening, results, interrupted, late, left>>
      /\ UNCHANGED userVars
    BY DEF EndBodies, userVars
<1>2. StateType /\ TokensInv /\ StepInv /\ FdInv /\ InventoriesInv /\ ResultsInv /\ LateInv
    BY DEF ReadInv
<1>3. StateType' /\ TokensInv' /\ \A inv : WellFormed(inv) => WellFormed(inv)'
    BY <1>1, <1>2, QuietInvariants DEF StateType
<1>4. StepInv'
    BY <1>1, <1>2 DEF StepInv, Reading
<1>5. FdInv'
    BY <1>1 DEF FdInv, Reading
<1>6. InventoriesInv'
    BY <1>1, <1>2, <1>3 DEF InventoriesInv
<1>7. ResultsInv'
    BY <1>1, <1>2, QuietKeeps DEF ResultsInv, Fate, PathsOf, Observations
<1>8. LateInv'
    BY <1>1 DEF LateInv
<1> QED BY <1>3, <1>4, <1>5, <1>6, <1>7, <1>8 DEF ReadInv

LEMMA StutterStep ==
    ASSUME ReadInv, UNCHANGED vars
    PROVE  ReadInv'
<1>1. UNCHANGED <<disk, inodes, edits, versions, stage, step, names, fd, current, opening, results, interrupted, late, left>>
      /\ UNCHANGED userVars
    BY DEF vars, userVars
<1>2. StateType /\ TokensInv /\ StepInv /\ FdInv /\ InventoriesInv /\ ResultsInv /\ LateInv
    BY DEF ReadInv
<1>3. StateType' /\ TokensInv' /\ \A inv : WellFormed(inv) => WellFormed(inv)'
    BY <1>1, <1>2, QuietInvariants DEF StateType
<1>4. StepInv'
    BY <1>1, <1>2 DEF StepInv, Reading
<1>5. FdInv'
    BY <1>1, <1>2, QuietKeeps DEF FdInv, Reading, Walking, Observed
<1>6. InventoriesInv'
    BY <1>1, <1>2, <1>3 DEF InventoriesInv
<1>7. ResultsInv'
    BY <1>1, <1>2, QuietKeeps DEF ResultsInv, Fate, PathsOf, Observations
<1>8. LateInv'
    BY <1>1, <1>2, QuietKeeps DEF LateInv, Reading, PathsOf, Observations
<1> QED BY <1>3, <1>4, <1>5, <1>6, <1>7, <1>8 DEF ReadInv

\* Every step of the reads and of the editors keeps the invariant.
LEMMA ReadInvNext == ReadInv /\ [Next]_vars => ReadInv'
BY EditStep, BeginWalkStep, EndControlStep, ListStep, VisitStep, EndOpeningStep, CloseFenceStep,
   BeginBodyStep, ReadBlockStep, StatAfterStep, EndBodyStep, EndBodiesStep, StutterStep
   DEF Next, Done

-----------------------------------------------------------------------------
(* The theorems *)

\* ReadInv holds in every state: of every run that reads the workspace while its user
\* writes, replaces, truncates and removes files.
THEOREM ReadInvariance == Spec => []ReadInv
<1> QED BY InitReadInv, ReadInvNext, PTL DEF Spec

\* Every variable keeps its type, and a descriptor is open exactly while one file is read.
THEOREM ReadsAreTyped == Spec => []TypeOK
<1>1. ReadInv => TypeOK
    BY DEF ReadInv, StateType, StepInv, Reading, Statuses, TypeOK, Ends
<1> QED BY <1>1, ReadInvariance, PTL

\* A body that read_observed_file returns is the whole file as it was at one moment.
THEOREM ReadsAreWhole == Spec => []ReadIsWhole
<1> QED BY WholeFollows, ReadInvariance, PTL

\* A run that passes the closing fence has read the workspace of one moment.
THEOREM AcceptedIsTheMoment == Spec => []AcceptedIsOneMoment
<1> QED BY MomentFollows, ReadInvariance, PTL

-----------------------------------------------------------------------------
(***************************************************************************)
(* The text of the answers: every line is at its place, and what was       *)
(* recalled is shown.                                                      *)
(***************************************************************************)

HIDE DEF Names, Control, None

Chunked == {c \in [file : Files, from : Nat \ {0}, to : Nat, text : Seq(Nat)] :
                c.from <= c.to /\ Len(c.text) = c.to - c.from + 1}

Ranges == [file : Files, start : Nat, end : Nat, lines : Seq(Nat),
           standing : SUBSET {"direct", "graph"}, rank : Nat]

\* A result whose lines are those that some read of the file found at their places.
Placed(r) ==
    /\ r \in Ranges /\ 1 <= r.start /\ r.start <= r.end
    /\ Len(r.lines) = r.end - r.start + 1
    /\ \A p \in r.start..r.end :
          \E x \in reads : /\ x.chunk.file = r.file /\ p <= Len(x.lines)
                           /\ x.lines[p] = r.lines[p - r.start + 1]

Covers(r, part) == r.file = part.file /\ r.start <= part.start /\ part.end <= r.end

\* The chunks of a body are ranges of it.
LEMMA ChunksTyped ==
    ASSUME NEW f \in Files, NEW body \in Seq(Nat)
    PROVE  Chunks(f, body) \subseteq Chunked
<1> SUFFICES ASSUME NEW i \in DOMAIN body
             PROVE  Chunk(f, body, i, LeastOf(i + ChunkLines - 1, Len(body))) \in Chunked
    BY DEF Chunks
<1> DEFINE to == LeastOf(i + ChunkLines - 1, Len(body))
<1>1. i \in 1..Len(body) /\ Len(body) \in Nat
    BY LenProperties
<1>2. to \in Nat /\ i <= to /\ to <= Len(body)
    BY <1>1, QueriesAssumption DEF LeastOf
<1> HIDE DEF to
<1>3. /\ SubSeq(body, i, to) \in Seq(Nat)
      /\ Len(SubSeq(body, i, to)) = to - i + 1
    <2>1. \A k \in i..to : body[k] \in Nat
        BY <1>1, <1>2, ElementOfSeq
    <2> QED BY <1>1, <1>2, <2>1, SubSeqProperties
<1>4. Chunk(f, body, i, to) \in Chunked
    BY <1>1, <1>2, <1>3, SMTT(40) DEF Chunk, Chunked
<1> QED BY <1>4 DEF to

\* A range that the file still has is widened, one that it has lost is moved inside.
LEMMA ExpandedRange ==
    ASSUME NEW lines \in Seq(Nat), lines # <<>>, NEW from \in Nat \ {0}, NEW to \in Nat,
           from <= to, window \in Nat
    PROVE  LET e == Expand(lines, from, to)
           IN  /\ e.start \in 1..Len(lines) /\ e.end \in 1..Len(lines) /\ e.start <= e.end
               /\ e.lines \in Seq(Nat) /\ Len(e.lines) = e.end - e.start + 1
               /\ \A p \in e.start..e.end : e.lines[p - e.start + 1] = lines[p]
               /\ to <= Len(lines) => e.start <= from /\ to <= e.end
<1> DEFINE first == LeastOf(MostOf(1, from), Len(lines))
           last == LeastOf(MostOf(1, to), Len(lines))
           start == MostOf(1, LeastOf(first, last) - window)
           end == LeastOf(Len(lines), last + window)
<1>1. Len(lines) \in Nat /\ Len(lines) >= 1
    BY LenProperties, EmptySeq
<1>2. first \in 1..Len(lines) /\ last \in 1..Len(lines) /\ first <= last
    BY <1>1 DEF LeastOf, MostOf
<1>3. to <= Len(lines) => first = from /\ last = to
    BY <1>1 DEF LeastOf, MostOf
<1> HIDE DEF first, last
<1>4. start \in 1..Len(lines) /\ end \in 1..Len(lines) /\ start <= first /\ last <= end
    BY <1>1, <1>2 DEF LeastOf, MostOf
<1>5. Expand(lines, from, to) = [start |-> start, end |-> end, lines |-> SubSeq(lines, start, end)]
    BY DEF Expand, first, last
<1> HIDE DEF start, end
<1>6. start <= end
    BY <1>1, <1>2, <1>4
<1>7. /\ SubSeq(lines, start, end) \in Seq(Nat)
      /\ Len(SubSeq(lines, start, end)) = end - start + 1
      /\ \A k \in 1..(end - start + 1) : SubSeq(lines, start, end)[k] = lines[start + k - 1]
    <2>1. \A k \in start..end : lines[k] \in Nat
        BY <1>1, <1>4, ElementOfSeq
    <2>2. start \in Int /\ end \in Int
        BY <1>1, <1>4
    <2>3. /\ SubSeq(lines, start, end) \in Seq(Nat)
          /\ Len(SubSeq(lines, start, end)) = IF start <= end THEN end - start + 1 ELSE 0
          /\ \A k \in 1..(end - start + 1) : SubSeq(lines, start, end)[k] = lines[start + k - 1]
        BY <2>1, <2>2, SubSeqProperties
    <2> QED BY <1>6, <2>3
<1>8. \A p \in start..end : SubSeq(lines, start, end)[p - start + 1] = lines[p]
    <2> TAKE p \in start..end
    <2>1. p - start + 1 \in 1..(end - start + 1) /\ start + (p - start + 1) - 1 = p
        BY <1>1, <1>4
    <2> QED BY <1>7, <2>1
<1> QED BY <1>3, <1>4, <1>5, <1>6, <1>7, <1>8

-----------------------------------------------------------------------------
(* Merging *)

\* Two results that touch are joined without a line lost, repeated or moved.
LEMMA JoinPlaced ==
    ASSUME NEW l, NEW r, Placed(l), Placed(r), l.file = r.file, r.start <= l.end + 1
    PROVE  /\ Placed(Join(l, r))
           /\ Join(l, r).file = l.file /\ Join(l, r).start = l.start
           /\ Join(l, r).end = MostOf(l.end, r.end)
<1> DEFINE overlap == MostOf(0, l.end - r.start + 1)
           more == SubSeq(r.lines, overlap + 1, Len(r.lines))
           lines == l.lines \o more
           end == MostOf(l.end, r.end)
           j == Join(l, r)
<1>1. /\ l \in Ranges /\ 1 <= l.start /\ l.start <= l.end /\ Len(l.lines) = l.end - l.start + 1
      /\ r \in Ranges /\ 1 <= r.start /\ r.start <= r.end /\ Len(r.lines) = r.end - r.start + 1
    BY DEF Placed
<1>2. /\ l.start \in Nat /\ l.end \in Nat /\ l.lines \in Seq(Nat)
      /\ r.start \in Nat /\ r.end \in Nat /\ r.lines \in Seq(Nat)
    BY <1>1 DEF Ranges
<1>3. overlap = l.end - r.start + 1 /\ overlap \in Nat
    BY <1>1, <1>2, SMTT(40) DEF MostOf
<1> HIDE DEF overlap
<1>4. /\ more \in Seq(Nat)
      /\ Len(more) = IF overlap + 1 <= Len(r.lines) THEN Len(r.lines) - overlap ELSE 0
      /\ \A k \in 1..Len(more) : more[k] = r.lines[overlap + k]
    <2>2. Len(r.lines) \in Nat
        BY <1>2, LenProperties
    <2>1. ASSUME NEW k \in (overlap + 1)..Len(r.lines) PROVE r.lines[k] \in Nat
        <3>1. k \in 1..Len(r.lines)
            BY <1>3, <2>2
        <3> QED BY <1>2, <3>1, ElementOfSeq
    <2>3. /\ more \in Seq(Nat)
          /\ Len(more) = IF overlap + 1 <= Len(r.lines) THEN Len(r.lines) - (overlap + 1) + 1 ELSE 0
          /\ \A k \in 1..(Len(r.lines) - (overlap + 1) + 1) : more[k] = r.lines[(overlap + 1) + k - 1]
        BY <1>3, <2>1, <2>2, SubSeqProperties
    <2> HIDE DEF more
    <2> DEFINE n == Len(r.lines)
    <2>4. n \in Nat /\ overlap \in Nat /\ n - (overlap + 1) + 1 = n - overlap
        BY <1>3, <2>2
    <2>5. Len(more) = IF overlap + 1 <= n THEN n - overlap ELSE 0
        BY <2>3, <2>4
    <2>6. ASSUME NEW k \in 1..Len(more) PROVE more[k] = r.lines[overlap + k]
        <3>1. k \in Nat /\ k \in 1..(n - overlap) /\ (overlap + 1) + k - 1 = overlap + k
            <4> HIDE DEF n
            <4> QED BY <2>4, <2>5
        <3>2. more[k] = r.lines[(overlap + 1) + k - 1]
            BY <2>3, <2>4, <3>1
        <3> QED BY <3>1, <3>2
    <2> QED BY <2>3, <2>5, <2>6
<1> HIDE DEF more
<1>5. /\ lines \in Seq(Nat) /\ Len(lines) = Len(l.lines) + Len(more)
      /\ \A k \in 1..Len(lines) : lines[k] = IF k <= Len(l.lines) THEN l.lines[k] ELSE more[k - Len(l.lines)]
    <2>1. /\ lines \in Seq(Nat) /\ Len(lines) = Len(l.lines) + Len(more)
          /\ \A k \in 1..(Len(l.lines) + Len(more)) :
                lines[k] = IF k <= Len(l.lines) THEN l.lines[k] ELSE more[k - Len(l.lines)]
        <3>1. l.lines \in Seq(Nat) /\ more \in Seq(Nat)
            BY <1>2, <1>4
        <3> QED BY <3>1, ConcatProperties
    <2> QED BY <2>1
<1> HIDE DEF lines
<1>6. end \in Nat /\ l.end <= end /\ r.end <= end /\ (end = l.end \/ end = r.end)
    BY <1>2 DEF MostOf
<1>7. Len(more) = end - l.end
    <2>1. Len(more) = IF l.end < r.end THEN r.end - l.end ELSE 0
        <3>1. Len(more) = IF overlap + 1 <= Len(r.lines) THEN Len(r.lines) - overlap ELSE 0
            BY <1>4
        <3>2. Len(r.lines) = r.end - r.start + 1
            BY <1>1
        <3>3. r.start \in Nat /\ r.end \in Nat /\ l.end \in Nat
            BY <1>2
        <3> QED BY <1>3, <3>1, <3>2, <3>3, SMTT(40)
    <2> QED BY <1>2, <2>1 DEF MostOf
<1> HIDE DEF end
<1>8. Len(lines) = end - l.start + 1
    BY <1>1, <1>2, <1>5, <1>6, <1>7
<1>9. /\ j \in Ranges /\ j.file = l.file /\ j.start = l.start /\ j.end = end /\ j.lines = lines
    <2>1. (IF l.rank < r.rank THEN l ELSE r).rank \in Nat
        BY <1>1 DEF Ranges
    <2>2. (({"direct"} \intersect (IF l.rank < r.rank THEN l ELSE r).standing)
               \union ({"graph"} \intersect (l.standing \union r.standing))) \subseteq {"direct", "graph"}
        OBVIOUS
    <2> QED BY <1>1, <1>5, <1>6, <2>1, <2>2 DEF Ranges, Join, lines, more, overlap, end
<1> HIDE DEF j
<1>10. ASSUME NEW p \in j.start..j.end
       PROVE  \E x \in reads : /\ x.chunk.file = j.file /\ p <= Len(x.lines)
                               /\ x.lines[p] = j.lines[p - j.start + 1]
    <2>0. p \in Nat /\ l.start <= p /\ p <= end
        BY <1>1, <1>2, <1>6, <1>9
    <2>4. /\ l.start \in Nat /\ l.end \in Nat /\ r.start \in Nat /\ end \in Nat /\ overlap \in Nat
          /\ Len(l.lines) = l.end - l.start + 1 /\ Len(lines) = end - l.start + 1
          /\ Len(more) = end - l.end /\ overlap = l.end - r.start + 1 /\ l.end <= end
        BY <1>1, <1>2, <1>3, <1>6, <1>7, <1>8
    <2>1. CASE p <= l.end
        <3>1. p \in l.start..l.end /\ p - l.start + 1 \in 1..Len(l.lines) /\ p - l.start + 1 \in 1..Len(lines)
            <4>1. p \in Nat
                BY <2>0
            <4>2. l.start \in Nat /\ l.end \in Nat
                BY <2>4
            <4>3. l.start <= p /\ p <= l.end
                BY <2>0, <2>1
            <4>4. p - l.start + 1 \in 1..(l.end - l.start + 1)
                BY <4>1, <4>2, <4>3
            <4>5. end \in Nat /\ l.end <= end
                BY <2>4
            <4>6. p - l.start + 1 \in 1..(end - l.start + 1)
                BY <4>1, <4>2, <4>3, <4>5
            <4>7. p \in l.start..l.end
                BY <4>1, <4>2, <4>3
            <4> QED BY <2>4, <4>4, <4>6, <4>7
        <3>2. lines[p - l.start + 1] = l.lines[p - l.start + 1]
            BY <1>5, <3>1
        <3>3. PICK x \in reads : /\ x.chunk.file = l.file /\ p <= Len(x.lines)
                                 /\ x.lines[p] = l.lines[p - l.start + 1]
            BY <3>1 DEF Placed
        <3> QED BY <1>9, <3>2, <3>3
    <2>2. CASE ~(p <= l.end)
        <3>1. p \in Nat /\ l.end < p /\ p <= end
            BY <1>2, <1>6, <1>9, <2>2
        <3>2. p \in r.start..r.end
            BY <1>1, <1>2, <1>6, <3>1, SMTT(40)
        <3>3. /\ p - l.start + 1 \in 1..Len(lines) /\ ~(p - l.start + 1 <= Len(l.lines))
              /\ (p - l.start + 1) - Len(l.lines) = p - l.end /\ p - l.end \in 1..Len(more)
              /\ overlap + (p - l.end) = p - r.start + 1
            <4>1. p \in Nat /\ l.end < p /\ p <= end /\ l.start <= p
                BY <2>0, <3>1
            <4>2. /\ l.start \in Nat /\ l.end \in Nat /\ r.start \in Nat /\ end \in Nat
                  /\ l.start <= l.end
                BY <1>1, <2>4
            <4>3. /\ p - l.start + 1 \in 1..(end - l.start + 1)
                  /\ ~(p - l.start + 1 <= l.end - l.start + 1)
                BY <4>1, <4>2
            <4>4. /\ (p - l.start + 1) - (l.end - l.start + 1) = p - l.end
                  /\ p - l.end \in 1..(end - l.end)
                  /\ (l.end - r.start + 1) + (p - l.end) = p - r.start + 1
                BY <4>1, <4>2
            <4> QED BY <2>4, <4>3, <4>4
        <3>4. lines[p - l.start + 1] = r.lines[p - r.start + 1]
            <4>1. lines[p - l.start + 1] = more[(p - l.start + 1) - Len(l.lines)]
                BY <1>5, <3>3
            <4>2. more[p - l.end] = r.lines[overlap + (p - l.end)]
                BY <1>4, <3>3
            <4> QED BY <3>3, <4>1, <4>2
        <3>5. PICK x \in reads : /\ x.chunk.file = r.file /\ p <= Len(x.lines)
                                 /\ x.lines[p] = r.lines[p - r.start + 1]
            BY <3>2 DEF Placed
        <3> QED BY <1>9, <3>4, <3>5
    <2> QED BY <2>1, <2>2
<1>11. Placed(j)
    BY <1>1, <1>2, <1>6, <1>8, <1>9, <1>10 DEF Placed
<1> QED BY <1>9, <1>11 DEF j, end

-----------------------------------------------------------------------------
(* The order of merging *)

Mine(f) == {i \in DOMAIN texts : texts[i].file = f}
Before(i, j) ==
    \/ texts[i].start < texts[j].start
    \/ /\ texts[i].start = texts[j].start
       /\ texts[i].end < texts[j].end \/ (texts[i].end = texts[j].end /\ i < j)

\* The results of a file follow each other by their starts, and none is left out.
LEMMA InOrderSorted ==
    ASSUME texts \in Seq(Ranges), NEW f
    PROVE  /\ InOrder(f) \in Seq(Ranges)
           /\ \A k \in DOMAIN InOrder(f) : \E i \in Mine(f) : InOrder(f)[k] = texts[i]
           /\ \A i \in Mine(f) : \E k \in DOMAIN InOrder(f) : InOrder(f)[k] = texts[i]
           /\ \A k, m \in DOMAIN InOrder(f) : k < m => InOrder(f)[k].start <= InOrder(f)[m].start
<1> DEFINE S == Mine(f)
           R == {x \in S \X S : Before(x[1], x[2])}
           index(k) == CHOOSE i \in S : Cardinality({j \in S : Before(j, i)}) = k - 1
           order == [k \in 1..Cardinality(S) |-> texts[index(k)]]
<1>1. InOrder(f) = order
    BY DEF InOrder, Mine, Before
<1>2. IsFiniteSet(S) /\ S \subseteq Nat /\ S \subseteq DOMAIN texts
    <2>1. DOMAIN texts = 1..Len(texts) /\ Len(texts) \in Nat
        BY LenProperties
    <2>2. S \in SUBSET (1..Len(texts))
        BY <2>1 DEF Mine
    <2> HIDE DEF S
    <2>3. IsFiniteSet(1..Len(texts))
        BY <2>1, FS_Interval
    <2>4. IsFiniteSet(S)
        BY <2>2, <2>3, FS_Subset
    <2> QED BY <2>1, <2>2, <2>4
<1>3. \A i \in S : texts[i] \in Ranges /\ texts[i].start \in Nat /\ texts[i].end \in Nat
    <2>1. \A i \in DOMAIN texts : texts[i] \in Ranges
        BY LenProperties, ElementOfSeq
    <2> QED BY <1>2, <2>1 DEF Ranges
<1>4. \A x, y \in S : <<x, y>> \in R <=> Before(x, y)
    OBVIOUS
<1> HIDE DEF S, R
<1>5. StrictOrder(R, S)
    <2>1. \A x \in S : x \in Nat
        BY <1>2
    <2>2. \A x \in S : ~Before(x, x)
        BY <1>3, <2>1 DEF Before
    <2>3. \A x, y \in S : x # y => Before(x, y) \/ Before(y, x)
        BY <1>3, <2>1 DEF Before
    <2>4. \A x, y, z \in S : Before(x, y) /\ Before(y, z) => Before(x, z)
        BY <1>3, <2>1, SMTT(40) DEF Before
    <2> HIDE DEF Before
    <2> QED BY <1>4, <2>2, <2>3, <2>4 DEF StrictOrder
<1>6. \A i \in S : Place(R, S, i) = Cardinality({j \in S : Before(j, i)})
    <2> TAKE i \in S
    <2>1. {j \in S : <<j, i>> \in R} = {j \in S : Before(j, i)}
        BY <1>4
    <2> QED BY <2>1 DEF Place
<1>7. ASSUME NEW k \in 1..Cardinality(S)
      PROVE  index(k) \in S /\ Place(R, S, index(k)) = k - 1
    <2>1. \E i \in S : Place(R, S, i) = k - 1
        <3>1. IsFiniteSet(S)
            BY <1>2
        <3> QED BY <3>1, <1>5, EveryPlaceTaken
    <2>2. \E i \in S : Cardinality({j \in S : Before(j, i)}) = k - 1
        BY <1>6, <2>1
    <2>3. index(k) \in S /\ Cardinality({j \in S : Before(j, index(k))}) = k - 1
        BY <2>2
    <2> HIDE DEF index
    <2> QED BY <1>6, <2>3
<1> HIDE DEF index
<1>8. Cardinality(S) \in Nat
    BY <1>2, FS_CardinalityType
<1>9. /\ DOMAIN order = 1..Cardinality(S)
      /\ \A k \in 1..Cardinality(S) : order[k] = texts[index(k)]
      /\ order \in [1..Cardinality(S) -> Ranges]
    BY <1>3, <1>7
<1> HIDE DEF order
<1>10. order \in Seq(Ranges)
    BY <1>8, <1>9
<1>11. ASSUME NEW i \in S PROVE \E k \in DOMAIN order : order[k] = texts[i]
    <2>1. Place(R, S, i) \in Nat /\ Place(R, S, i) < Cardinality(S)
        BY <1>2, <1>5, PlaceBelow
    <2> DEFINE k == Place(R, S, i) + 1
    <2>2. k \in 1..Cardinality(S) /\ k - 1 = Place(R, S, i)
        BY <1>8, <2>1
    <2> HIDE DEF k
    <2>3. index(k) \in S /\ Place(R, S, index(k)) = Place(R, S, i)
        BY <1>7, <2>2
    <2>4. index(k) = i
        BY <1>2, <1>5, <2>3, PlacesDiffer
    <2> QED BY <1>9, <2>2, <2>4
<1>12. ASSUME NEW k \in DOMAIN order, NEW m \in DOMAIN order, k < m
       PROVE  order[k].start <= order[m].start
    <2>1. /\ index(k) \in S /\ Place(R, S, index(k)) = k - 1
          /\ index(m) \in S /\ Place(R, S, index(m)) = m - 1
        BY <1>7, <1>9
    <2>2. k \in Nat /\ m \in Nat
        BY <1>8, <1>9
    <2>3. ~Before(index(m), index(k))
        <3>1. SUFFICES ASSUME Before(index(m), index(k)) PROVE FALSE
            OBVIOUS
        <3>2. m - 1 < k - 1
            BY <1>2, <1>4, <1>5, <2>1, <3>1, PlaceGrows
        <3> QED BY <1>12, <2>2, <3>2
    <2>4. texts[index(k)].start <= texts[index(m)].start
        BY <1>3, <2>1, <2>3 DEF Before
    <2> QED BY <1>9, <2>4
<1>13. \A k \in DOMAIN order : \E i \in S : order[k] = texts[i]
    BY <1>7, <1>9
<1> QED BY <1>1, <1>10, <1>11, <1>12, <1>13 DEF S

-----------------------------------------------------------------------------
(* The fold of the merging *)

Merges(f, n, start, parts) ==
    f = [s \in SUBSET (1..n) |->
            IF s = {} THEN start ELSE MergeIn(f[s \ {Max(s)}], parts[Max(s)])]

\* The fold is a recursive function.
LEMMA MergesExist ==
    ASSUME NEW start, NEW parts, NEW n \in Nat
    PROVE  \E f : Merges(f, n, start, parts)
<1> DEFINE T == {k \in Nat : \E f : Merges(f, k, start, parts)}
<1>1. 0 \in T
    <2> DEFINE f == [s \in SUBSET (1..0) |-> start]
    <2>1. \A s \in SUBSET (1..0) : s = {}
        OBVIOUS
    <2>2. Merges(f, 0, start, parts)
        BY <2>1 DEF Merges
    <2> QED BY <2>2
<1>2. ASSUME NEW k \in Nat, k \in T PROVE k + 1 \in T
    <2>1. PICK f : Merges(f, k, start, parts)
        BY <1>2
    <2> DEFINE g == [s \in SUBSET (1..(k + 1)) |->
                        IF k + 1 \in s THEN MergeIn(f[s \ {k + 1}], parts[k + 1]) ELSE f[s]]
    <2>2. ASSUME NEW s \in SUBSET (1..(k + 1))
          PROVE  g[s] = IF s = {} THEN start ELSE MergeIn(g[s \ {Max(s)}], parts[Max(s)])
        <3>1. CASE k + 1 \in s
            <4>1. Max(s) = k + 1 /\ s # {}
                BY <3>1, MaxIs
            <4>2. s \ {k + 1} \in SUBSET (1..(k + 1)) /\ k + 1 \notin s \ {k + 1}
                OBVIOUS
            <4>3. g[s \ {k + 1}] = f[s \ {k + 1}]
                BY <4>2
            <4>4. g[s] = MergeIn(f[s \ {k + 1}], parts[k + 1])
                BY <3>1
            <4> HIDE DEF g
            <4> QED BY <4>1, <4>3, <4>4
        <3>2. CASE k + 1 \notin s
            <4>1. s \in SUBSET (1..k)
                BY <3>2
            <4>2. s \ {Max(s)} \in SUBSET (1..(k + 1)) /\ k + 1 \notin s \ {Max(s)}
                BY <3>2
            <4>3. g[s] = f[s] /\ g[s \ {Max(s)}] = f[s \ {Max(s)}]
                BY <3>2, <4>2
            <4>4. f[s] = IF s = {} THEN start ELSE MergeIn(f[s \ {Max(s)}], parts[Max(s)])
                BY <2>1, <4>1 DEF Merges
            <4> HIDE DEF g
            <4> QED BY <4>3, <4>4
        <3> QED BY <3>1, <3>2
    <2>3. g = [s \in SUBSET (1..(k + 1)) |-> g[s]]
        OBVIOUS
    <2> HIDE DEF g
    <2>4. Merges(g, k + 1, start, parts)
        BY <2>2, <2>3 DEF Merges
    <2> QED BY <2>4
<1> HIDE DEF T
<1>3. Nat \subseteq T
    BY <1>1, <1>2, NatInductive
<1> QED BY <1>3 DEF T

\* What holds of the results merged so far after each part, holds at the end.
LEMMA MergesKeep ==
    ASSUME NEW n \in Nat, NEW G, NEW start \in G[0], NEW parts, DOMAIN parts = 1..n,
           \A k \in 1..n : \A acc \in G[k - 1] : MergeIn(acc, parts[k]) \in G[k]
    PROVE  FoldLeft(MergeIn, start, parts) \in G[n]
<1> DEFINE fold == CHOOSE f : Merges(f, n, start, parts)
<1>1. Merges(fold, n, start, parts)
    BY MergesExist
<1>2. FoldLeft(MergeIn, start, parts) = fold[1..n]
    BY DEF FoldLeft, MapThenFoldSet, Merges
<1> HIDE DEF fold
<1> DEFINE T == {k \in Nat : k <= n => fold[1..k] \in G[k]}
<1>3. 0 \in T
    <2>1. 1..0 = {}
        OBVIOUS
    <2>2. {} \in SUBSET (1..n)
        OBVIOUS
    <2>3. fold[{}] = start
        BY <1>1, <2>2 DEF Merges
    <2> QED BY <2>1, <2>3
<1>4. ASSUME NEW k \in Nat, k \in T PROVE k + 1 \in T
    <2>1. CASE k + 1 <= n
        <3>1. 1..(k + 1) \in SUBSET (1..n) /\ 1..(k + 1) # {}
            <4>1. 1 \in 1..(k + 1) /\ \A j \in 1..(k + 1) : j \in 1..n
                BY <2>1
            <4> QED BY <4>1
        <3>2. Max(1..(k + 1)) = k + 1
            BY MaxIs
        <3>3. (1..(k + 1)) \ {k + 1} = 1..k
            OBVIOUS
        <3>4. fold[1..(k + 1)] = MergeIn(fold[1..k], parts[k + 1])
            BY <1>1, <3>1, <3>2, <3>3 DEF Merges
        <3>5. fold[1..k] \in G[k]
            BY <1>4, <2>1
        <3>6. k + 1 \in 1..n /\ (k + 1) - 1 = k
            BY <2>1
        <3> QED BY <3>4, <3>5, <3>6
    <2>2. CASE ~(k + 1 <= n)
        BY <2>2
    <2> QED BY <2>1, <2>2
<1> HIDE DEF T
<1>5. n \in T
    BY <1>3, <1>4, NatInductive
<1> QED BY <1>2, <1>5 DEF T

\* The members of a sequence with one more, and of one without its last.
LEMMA Appended ==
    ASSUME NEW S, NEW acc \in Seq(S), NEW e \in S
    PROVE  /\ Append(acc, e) \in Seq(S) /\ Append(acc, e) # <<>> /\ Last(Append(acc, e)) = e
           /\ ToSet(Append(acc, e)) = ToSet(acc) \union {e}
<1>1. /\ Append(acc, e) \in Seq(S) /\ Append(acc, e) # <<>> /\ Len(Append(acc, e)) = Len(acc) + 1
      /\ \A i \in 1..Len(acc) : Append(acc, e)[i] = acc[i]
      /\ Append(acc, e)[Len(acc) + 1] = e
    BY AppendProperties
<1>2. /\ DOMAIN acc = 1..Len(acc) /\ Len(acc) \in Nat
      /\ DOMAIN Append(acc, e) = 1..(Len(acc) + 1)
    BY <1>1, LenProperties
<1>3. Last(Append(acc, e)) = e
    BY <1>1 DEF Last
<1>4. \A i \in 1..(Len(acc) + 1) : i \in 1..Len(acc) \/ i = Len(acc) + 1
    BY <1>2
<1>5. 1..Len(acc) \subseteq 1..(Len(acc) + 1) /\ Len(acc) + 1 \in 1..(Len(acc) + 1)
    BY <1>2
<1>6. ToSet(Append(acc, e)) = ToSet(acc) \union {e}
    BY <1>1, <1>2, <1>4, <1>5 DEF ToSet
<1> QED BY <1>1, <1>3, <1>6

\* A sequence of results is its front and its last one.
LEMMA WithoutLast ==
    ASSUME NEW S, NEW acc \in Seq(S), acc # <<>>
    PROVE  /\ Front(acc) \in Seq(S) /\ Last(acc) \in S
           /\ ToSet(acc) = ToSet(Front(acc)) \union {Last(acc)}
<1>1. DOMAIN acc = 1..Len(acc) /\ Len(acc) \in Nat /\ Len(acc) >= 1
    BY LenProperties, EmptySeq
<1>2. \A i \in 1..Len(acc) : acc[i] \in S
    BY ElementOfSeq
<1> DEFINE m == Len(acc) - 1
<1>3. m \in Nat /\ Len(acc) = m + 1
    BY <1>1
<1>4. \A i \in 1..m : acc[i] \in S
    BY <1>2, <1>3
<1> HIDE DEF m
<1>5. /\ SubSeq(acc, 1, m) \in Seq(S)
      /\ Len(SubSeq(acc, 1, m)) = IF 1 <= m THEN m - 1 + 1 ELSE 0
      /\ \A i \in 1..(m - 1 + 1) : SubSeq(acc, 1, m)[i] = acc[1 + i - 1]
    BY <1>3, <1>4, SubSeqProperties
<1>6. Front(acc) = SubSeq(acc, 1, m) /\ Last(acc) = acc[m + 1]
    BY <1>3 DEF Front, Last, m
<1>7. /\ DOMAIN Front(acc) = 1..m
      /\ \A i \in 1..m : Front(acc)[i] = acc[i]
    <2>1. Len(Front(acc)) = m
        BY <1>3, <1>5, <1>6
    <2>2. DOMAIN Front(acc) = 1..m
        BY <1>5, <1>6, <2>1, LenProperties
    <2>3. \A i \in 1..m : i \in 1..(m - 1 + 1) /\ 1 + i - 1 = i
        BY <1>3
    <2> QED BY <1>5, <1>6, <2>2, <2>3
<1>8. \A i : i \in 1..(m + 1) <=> i \in 1..m \/ i = m + 1
    BY <1>3
<1>9. ToSet(acc) = ToSet(Front(acc)) \union {Last(acc)}
    BY <1>1, <1>3, <1>6, <1>7, <1>8 DEF ToSet
<1>10. Last(acc) \in S
    BY <1>1, <1>2, <1>3, <1>6
<1> QED BY <1>5, <1>6, <1>9, <1>10

\* The first k + 1 parts are merged, and the last result starts before the next part.
Merged(f, parts, k) ==
    {acc \in Seq(Ranges) :
        /\ acc # <<>>
        /\ \A r \in ToSet(acc) : Placed(r) /\ r.file = f
        /\ \A j \in 1..(k + 1) : \E r \in ToSet(acc) : Covers(r, parts[j])
        /\ \A j \in (k + 1)..Len(parts) : Last(acc).start <= parts[j].start}

\* One part: nothing that was covered is lost.
LEMMA MergeInKeeps ==
    ASSUME NEW f, NEW parts \in Seq(Ranges), NEW k \in Nat, k + 2 <= Len(parts),
           NEW acc \in Merged(f, parts, k),
           \A j \in 1..Len(parts) : Placed(parts[j]) /\ parts[j].file = f,
           \A i, j \in 1..Len(parts) : i < j => parts[i].start <= parts[j].start
    PROVE  MergeIn(acc, parts[k + 2]) \in Merged(f, parts, k + 1)
<1> DEFINE next == parts[k + 2]
           last == Last(acc)
           new == IF Mergeable(last, next) THEN Append(Front(acc), Join(last, next)) ELSE Append(acc, next)
<1>1. /\ acc \in Seq(Ranges) /\ acc # <<>>
      /\ \A r \in ToSet(acc) : Placed(r) /\ r.file = f
      /\ \A j \in 1..(k + 1) : \E r \in ToSet(acc) : Covers(r, parts[j])
      /\ \A j \in (k + 1)..Len(parts) : last.start <= parts[j].start
    BY DEF Merged
<1>2. Len(parts) \in Nat /\ k + 2 \in 1..Len(parts) /\ k + 2 \in (k + 1)..Len(parts)
    BY LenProperties
<1>3. Placed(next) /\ next.file = f /\ next \in Ranges /\ last.start <= next.start
    BY <1>1, <1>2 DEF Placed
<1>4. /\ Front(acc) \in Seq(Ranges) /\ ToSet(acc) = ToSet(Front(acc)) \union {last}
      /\ Placed(last) /\ last.file = f /\ last \in Ranges
    <2>1. acc \in Seq(Ranges) /\ acc # <<>>
        BY <1>1
    <2>2. /\ Front(acc) \in Seq(Ranges) /\ Last(acc) \in Ranges
          /\ ToSet(acc) = ToSet(Front(acc)) \union {Last(acc)}
        BY <2>1, WithoutLast
    <2>3. Placed(last) /\ last.file = f
        BY <1>1, <2>2
    <2> QED BY <2>2, <2>3
<1>5. /\ next.start \in Nat /\ next.end \in Nat /\ last.start \in Nat /\ last.end \in Nat
    BY <1>3, <1>4 DEF Ranges
<1> HIDE DEF next, last
<1>6. \E e : /\ Placed(e) /\ e.file = f /\ e \in Ranges
             /\ e.start <= next.start /\ Covers(e, next)
             /\ \/ new = Append(Front(acc), e) /\ Covers(e, last)
                \/ new = Append(acc, e)
    <2>1. CASE Mergeable(last, next)
        <3>1. next.start <= last.end + 1
            BY <2>1 DEF Mergeable
        <3>2. /\ Placed(Join(last, next)) /\ Join(last, next).file = f
              /\ Join(last, next).start = last.start
              /\ Join(last, next).end = MostOf(last.end, next.end)
            BY <1>3, <1>4, <3>1, JoinPlaced
        <3> HIDE DEF new
        <3>3. last.end <= MostOf(last.end, next.end) /\ next.end <= MostOf(last.end, next.end)
            BY <1>5 DEF MostOf
        <3>4. Covers(Join(last, next), next) /\ Covers(Join(last, next), last)
            BY <1>3, <1>4, <1>5, <3>2, <3>3 DEF Covers
        <3>5. new = Append(Front(acc), Join(last, next))
            BY <2>1 DEF new
        <3> QED BY <1>3, <3>2, <3>4, <3>5 DEF Placed
    <2>2. CASE ~Mergeable(last, next)
        <3>1. Covers(next, next)
            BY <1>5 DEF Covers
        <3> QED BY <1>3, <1>5, <2>2, <3>1
    <2> QED BY <2>1, <2>2
<1>7. MergeIn(acc, parts[k + 2]) = new
    BY DEF MergeIn, next, last
<1> HIDE DEF new
<1>8. PICK e : /\ Placed(e) /\ e.file = f /\ e \in Ranges
               /\ e.start <= next.start /\ Covers(e, next)
               /\ \/ new = Append(Front(acc), e) /\ Covers(e, last)
                  \/ new = Append(acc, e)
    BY <1>6
<1>9. /\ new \in Seq(Ranges) /\ new # <<>> /\ Last(new) = e
      /\ ToSet(new) \subseteq ToSet(acc) \union {e} /\ e \in ToSet(new)
      /\ \A r \in ToSet(acc) : r \in ToSet(new) \/ (r = last /\ Covers(e, last))
    <2>1. CASE new = Append(Front(acc), e) /\ Covers(e, last)
        BY <1>4, <1>8, <2>1, Appended
    <2>2. CASE new = Append(acc, e)
        BY <1>1, <1>8, <2>2, Appended
    <2> QED BY <1>8, <2>1, <2>2
<1>10. ASSUME NEW j \in 1..((k + 1) + 1) PROVE \E r \in ToSet(new) : Covers(r, parts[j])
    <2>1. CASE j = k + 2
        BY <1>8, <1>9, <2>1 DEF next
    <2>2. CASE j # k + 2
        <3>1. j \in 1..(k + 1)
            BY <2>2
        <3>2. PICK r \in ToSet(acc) : Covers(r, parts[j])
            BY <1>1, <3>1
        <3>3. CASE r \in ToSet(new)
            BY <3>2, <3>3
        <3>4. CASE r = last /\ Covers(e, last)
            <4>1. parts[j] \in Ranges
                <5>1. j \in 1..Len(parts)
                    BY <1>2, <3>1
                <5> QED BY <5>1, ElementOfSeq
            <4>2. /\ parts[j].start \in Nat /\ parts[j].end \in Nat
                  /\ e.start \in Nat /\ e.end \in Nat
                BY <1>8, <4>1 DEF Ranges
            <4>3. Covers(e, parts[j])
                BY <1>5, <3>2, <3>4, <4>2, SMTT(40) DEF Covers
            <4> QED BY <1>9, <4>3
        <3> QED BY <1>9, <3>2, <3>3, <3>4
    <2> QED BY <2>1, <2>2
<1>11. ASSUME NEW j \in ((k + 1) + 1)..Len(parts) PROVE Last(new).start <= parts[j].start
    <2>1. j \in 1..Len(parts) /\ (j = k + 2 \/ k + 2 < j)
        BY <1>2
    <2>2. parts[j] \in Ranges
        BY <2>1, ElementOfSeq
    <2>3. parts[j].start \in Nat /\ e.start \in Nat
        BY <1>8, <2>2 DEF Ranges
    <2>4. next.start <= parts[j].start
        BY <1>2, <1>5, <2>1 DEF next
    <2> QED BY <1>5, <1>8, <1>9, <2>3, <2>4, SMTT(40)
<1>12. \A r \in ToSet(new) : Placed(r) /\ r.file = f
    BY <1>1, <1>8, <1>9
<1> QED BY <1>7, <1>9, <1>10, <1>11, <1>12 DEF Merged

\* The merged results of a file: each is at its place, and every result is in one.
LEMMA MergeOfKeeps ==
    ASSUME NEW f, texts \in Seq(Ranges), \A i \in DOMAIN texts : Placed(texts[i])
    PROVE  /\ \A r \in ToSet(MergeOf(f)) : Placed(r) /\ r.file = f
           /\ \A i \in Mine(f) : \E r \in ToSet(MergeOf(f)) : Covers(r, texts[i])
<1> DEFINE parts == InOrder(f)
<1>1. /\ parts \in Seq(Ranges)
      /\ \A k \in DOMAIN parts : \E i \in Mine(f) : parts[k] = texts[i]
      /\ \A i \in Mine(f) : \E k \in DOMAIN parts : parts[k] = texts[i]
      /\ \A k, m \in DOMAIN parts : k < m => parts[k].start <= parts[m].start
    BY InOrderSorted
<1>2. MergeOf(f) = IF parts = <<>> THEN <<>> ELSE FoldLeft(MergeIn, <<Head(parts)>>, Tail(parts))
    BY DEF MergeOf
<1> HIDE DEF parts
<1>3. DOMAIN parts = 1..Len(parts) /\ Len(parts) \in Nat
    BY <1>1, LenProperties
<1>4. \A k \in DOMAIN parts : Placed(parts[k]) /\ parts[k].file = f
    BY <1>1 DEF Mine
<1>5. CASE parts = <<>>
    <2>1. MergeOf(f) = <<>> /\ DOMAIN parts = {}
        BY <1>2, <1>5
    <2>2. ToSet(MergeOf(f)) = {}
        BY <2>1 DEF ToSet
    <2> QED BY <1>1, <2>1, <2>2
<1>6. CASE parts # <<>>
    <2> DEFINE n == Len(parts) - 1
               G == [k \in 0..n |-> Merged(f, parts, k)]
               first == <<Head(parts)>>
               rest == Tail(parts)
    <2>1. n \in Nat /\ n + 1 = Len(parts) /\ 1 \in DOMAIN parts
        BY <1>1, <1>3, <1>6, EmptySeq
    <2>2. rest \in Seq(Ranges) /\ Len(rest) = n /\ \A i \in 1..n : rest[i] = parts[i + 1]
        BY <1>1, <1>6, HeadTailProperties
    <2>3. DOMAIN rest = 1..n
        BY <2>2, LenProperties
    <2>4. Head(parts) = parts[1] /\ parts[1] \in Ranges
        BY <1>1, <1>3, <2>1, ElementOfSeq
    <2> HIDE DEF n, rest
    <2>5. first \in Merged(f, parts, 0)
        <3>1. first \in Seq(Ranges) /\ first # <<>> /\ Len(first) = 1 /\ first[1] = parts[1]
            BY <2>4
        <3>2. ToSet(first) = {parts[1]} /\ Last(first) = parts[1]
            BY <3>1 DEF ToSet, Last
        <3>3. parts[1].start \in Nat /\ Covers(parts[1], parts[1])
            BY <2>4 DEF Ranges, Covers
        <3>4. \A j \in (0 + 1)..Len(parts) : parts[1].start <= parts[j].start
            <4> TAKE j \in (0 + 1)..Len(parts)
            <4>1. j = 1 \/ 1 < j
                BY <1>3
            <4> QED BY <1>1, <1>3, <2>1, <3>3, <4>1, SMTT(40)
        <3>5. \A j \in 1..(0 + 1) : Covers(parts[1], parts[j])
            BY <3>3
        <3> HIDE DEF first
        <3>6. \A r \in ToSet(first) : Placed(r) /\ r.file = f
            BY <1>4, <2>1, <3>2
        <3>7. \A j \in 1..(0 + 1) : \E r \in ToSet(first) : Covers(r, parts[j])
            BY <3>2, <3>5
        <3>8. \A j \in (0 + 1)..Len(parts) : Last(first).start <= parts[j].start
            BY <3>2, <3>4
        <3> QED BY <3>1, <3>6, <3>7, <3>8 DEF Merged
    <2>6. ASSUME NEW k \in 1..n, NEW acc \in G[k - 1] PROVE MergeIn(acc, rest[k]) \in G[k]
        <3>1. k - 1 \in Nat /\ (k - 1) + 2 = k + 1 /\ (k - 1) + 1 = k /\ k - 1 \in 0..n /\ k \in 0..n
              /\ (k - 1) + 2 <= Len(parts)
            BY <2>1
        <3>2. acc \in Merged(f, parts, k - 1)
            BY <2>6, <3>1
        <3>3. MergeIn(acc, parts[(k - 1) + 2]) \in Merged(f, parts, (k - 1) + 1)
            BY <1>1, <1>3, <1>4, <3>1, <3>2, MergeInKeeps
        <3> QED BY <2>2, <3>1, <3>3
    <2>7. first \in G[0] /\ G[n] = Merged(f, parts, n)
        BY <2>1, <2>5
    <2> HIDE DEF G, first
    <2>8. FoldLeft(MergeIn, first, rest) \in G[n]
        BY <2>1, <2>3, <2>6, <2>7, MergesKeep
    <2>9. MergeOf(f) \in Merged(f, parts, n)
        BY <1>2, <1>6, <2>7, <2>8 DEF first, rest
    <2>10. ASSUME NEW i \in Mine(f) PROVE \E r \in ToSet(MergeOf(f)) : Covers(r, texts[i])
        <3>1. PICK k \in DOMAIN parts : parts[k] = texts[i]
            BY <1>1
        <3>2. k \in 1..(n + 1)
            BY <1>3, <2>1
        <3> QED BY <2>9, <3>1, <3>2 DEF Merged
    <2> QED BY <2>9, <2>10 DEF Merged
<1> QED BY <1>5, <1>6

-----------------------------------------------------------------------------
(* The invariant *)

\* From the first chunk to the answer, while the user goes on editing.  A chunk whose
\* range the file still had is inside the result that was made of it.
QueryInv ==
    /\ stage = "query" /\ step \in {"text", "answered", "failed"}
    /\ StateType /\ fd.inode = None /\ Len(fd.got) <= Limit + 1 /\ names \subseteq Files
    /\ results = [f \in Files |-> Unseen]
    /\ ranked \in Seq(Chunked) /\ window \in Nat
    /\ \A i \in DOMAIN ranked : standing[ranked[i]] \in SUBSET {"direct", "graph"}
    /\ texts \in Seq(Ranges) /\ \A i \in DOMAIN texts : Placed(texts[i])
    /\ \A x \in reads :
          /\ x.chunk \in Chunked /\ x.lines \in Seq(Nat)
          /\ x.chunk.to <= Len(x.lines) =>
                \E i \in DOMAIN texts : /\ texts[i].file = x.chunk.file
                                        /\ texts[i].start <= x.chunk.from /\ x.chunk.to <= texts[i].end
    /\ step # "answered" => answer = {}
    /\ step = "answered" => /\ \A r \in answer : Placed(r)
                            /\ \A i \in DOMAIN texts : \E r \in answer : Covers(r, texts[i])

\* Until then the run reads the workspace, and there is no answer.
AnswerInv ==
    \/ stage # "query" /\ ReadInv /\ texts = <<>> /\ answer = {} /\ reads = {}
    \/ QueryInv

\* The types of the workspace, whatever the tokens are.
LEMMA EditTyped ==
    ASSUME StateType, Edit
    PROVE  StateType'
<1>1. edits + 1 \in Tokens /\ edits \in Nat /\ edits + 1 \in 0..MaxEdits
    BY BoundsAssumption DEF Edit, StateType, Tokens
<1>2. PICK name \in Names : Modify(name) \/ Replace(name) \/ Unlink(name)
    BY DEF Edit
<1>3. edits' = edits + 1 /\ UNCHANGED fd
    BY DEF Edit
<1>4. ASSUME NEW n \in Inodes, NEW data \in Seq(Nat),
             inodes' = [inodes EXCEPT ![n] = [data |-> data, token |-> edits + 1]],
             versions' = [versions EXCEPT ![edits + 1] = data]
      PROVE  /\ inodes' \in [Inodes -> [data : Seq(Nat), token : Tokens]]
             /\ versions' \in [Tokens -> Seq(Nat)]
    BY <1>1, <1>4 DEF StateType
<1>5. CASE Modify(name)
    <2>1. disk[name] \in Inodes /\ UNCHANGED disk
        BY <1>5 DEF Modify, StateType
    <2>2. inodes[disk[name]].data \in Seq(Nat)
        BY <2>1 DEF StateType
    <2>3. PICK data \in Variants(inodes[disk[name]].data) :
              /\ inodes' = [inodes EXCEPT ![disk[name]] = [data |-> data, token |-> edits + 1]]
              /\ versions' = [versions EXCEPT ![edits + 1] = data]
        BY <1>5 DEF Modify
    <2>4. data \in Seq(Nat)
        BY <2>2, VariantsType
    <2>5. /\ inodes' \in [Inodes -> [data : Seq(Nat), token : Tokens]]
          /\ versions' \in [Tokens -> Seq(Nat)]
        BY <1>4, <2>1, <2>3, <2>4
    <2> QED BY <1>1, <1>3, <2>1, <2>5 DEF StateType
<1>6. CASE Replace(name)
    <2>1. PICK n \in Inodes, data \in Texts :
              /\ disk' = [disk EXCEPT ![name] = n]
              /\ inodes' = [inodes EXCEPT ![n] = [data |-> data, token |-> edits + 1]]
              /\ versions' = [versions EXCEPT ![edits + 1] = data]
        BY <1>6 DEF Replace
    <2>2. data \in Seq(Nat)
        BY TextsAssumption
    <2>3. /\ inodes' \in [Inodes -> [data : Seq(Nat), token : Tokens]]
          /\ versions' \in [Tokens -> Seq(Nat)]
        BY <1>4, <2>1, <2>2
    <2>4. disk' \in [Names -> Inodes \union {None}]
        BY <2>1 DEF StateType
    <2> QED BY <1>1, <1>3, <2>3, <2>4 DEF StateType
<1>7. CASE Unlink(name)
    <2>1. disk' \in [Names -> Inodes \union {None}] /\ UNCHANGED <<inodes, versions>>
        BY <1>7 DEF Unlink, StateType
    <2> QED BY <1>1, <1>3, <2>1 DEF StateType
<1> QED BY <1>2, <1>5, <1>6, <1>7

\* More reads leave a result at its place.
LEMMA PlacedMore ==
    ASSUME NEW r, Placed(r), reads \subseteq reads'
    PROVE  Placed(r)'
<1>1. /\ r \in Ranges /\ 1 <= r.start /\ r.start <= r.end
      /\ Len(r.lines) = r.end - r.start + 1
      /\ \A p \in r.start..r.end :
            \E x \in reads' : /\ x.chunk.file = r.file /\ p <= Len(x.lines)
                              /\ x.lines[p] = r.lines[p - r.start + 1]
    BY DEF Placed
<1> QED BY <1>1 DEF Placed

\* The invariant holds before anything is read.
LEMMA AnswerInitInv == AnswerInit => AnswerInv
<1> SUFFICES ASSUME AnswerInit PROVE AnswerInv
    OBVIOUS
<1>1. ReadInv /\ stage # "query"
    BY InitReadInv DEF AnswerInit, Init
<1> QED BY <1>1 DEF AnswerInit, AnswerInv

\* The steps of the run before the query.
LEMMA RunStep ==
    ASSUME AnswerInv, stage # "query", [Next]_vars, UNCHANGED queryVars
    PROVE  AnswerInv'
<1>1. ReadInv /\ texts = <<>> /\ answer = {} /\ reads = {}
    BY DEF AnswerInv, QueryInv
<1>2. ReadInv'
    BY <1>1, ReadInvNext
<1>3. stage' # "query"
    BY <1>2 DEF ReadInv, StepInv
<1> QED BY <1>1, <1>2, <1>3 DEF AnswerInv, queryVars

\* The chunks of an accepted run are ranges of what it has read.
LEMMA BeginQueryStep ==
    ASSUME AnswerInv, BeginQuery
    PROVE  AnswerInv'
<1>1. step = "accepted"
    BY DEF BeginQuery
<1>2. ReadInv /\ texts = <<>> /\ answer = {} /\ reads = {}
    BY <1>1 DEF AnswerInv, QueryInv
<1>3. /\ ranked' \in Rankings /\ window' \in Windows
      /\ standing' \in [ToSet(ranked') -> Standings]
      /\ stage' = "query" /\ step' = "text"
      /\ results' = [f \in Files |-> Unseen]
      /\ versions' = [t \in DOMAIN versions |-> <<>>]
      /\ texts' = <<>> /\ answer' = {} /\ reads' = {}
      /\ UNCHANGED <<disk, inodes, edits, names, fd, interrupted>>
    BY DEF BeginQuery
<1>4. /\ results \in [Files -> [status : Statuses, body : Seq(Nat), token : Tokens \union {0}]]
      /\ fd.inode = None /\ Len(fd.got) <= Limit + 1 /\ names \subseteq Files
    BY <1>1, <1>2 DEF ReadInv, StepInv, Reading
<1>5. Index \subseteq Chunked
    <2>1. \A f \in Files : results[f].body \in Seq(Nat)
        BY <1>4
    <2> QED BY <2>1, ChunksTyped, ZenonT(60) DEF Index
<1>6. ranked' \in Seq(Chunked)
    <2>1. PICK n \in 1..MaxRanked : ranked' \in [1..n -> Index]
        BY <1>3 DEF Rankings
    <2>2. n \in Nat
        OBVIOUS
    <2> QED BY <1>5, <2>1, <2>2
<1>7. \A i \in DOMAIN ranked' : standing'[ranked'[i]] \in SUBSET {"direct", "graph"}
    <2> TAKE i \in DOMAIN ranked'
    <2>1. ranked'[i] \in ToSet(ranked')
        BY DEF ToSet
    <2>2. standing'[ranked'[i]] \in Standings
        BY <1>3, <2>1
    <2> QED BY <2>2, QueriesAssumption
<1>8. StateType'
    <2>1. versions' \in [Tokens -> Seq(Nat)]
        BY <1>2, <1>3 DEF ReadInv, StateType
    <2> QED BY <1>2, <1>3, <2>1 DEF ReadInv, StateType
<1>9. window' \in Nat /\ texts' \in Seq(Ranges) /\ DOMAIN texts' = {}
    BY <1>3, QueriesAssumption
<1>10. QueryInv'
    BY <1>3, <1>4, <1>6, <1>7, <1>8, <1>9 DEF QueryInv
<1> QED BY <1>10 DEF AnswerInv

\* One chunk.
LEMMA ReadTextStep ==
    ASSUME QueryInv, ReadText
    PROVE  QueryInv'
<1> DEFINE c == Head(ranked)
           lines == Source(c)
           e == Expand(lines, c.from, c.to)
           t == [file |-> c.file, start |-> e.start, end |-> e.end,
                 lines |-> e.lines, standing |-> standing[c], rank |-> Len(texts) + 1]
           later(r) == /\ r \in Ranges /\ 1 <= r.start /\ r.start <= r.end
                       /\ Len(r.lines) = r.end - r.start + 1
                       /\ \A p \in r.start..r.end :
                             \E x \in reads' : /\ x.chunk.file = r.file /\ p <= Len(x.lines)
                                               /\ x.lines[p] = r.lines[p - r.start + 1]
           read == [chunk |-> c, lines |-> lines, gone |-> disk[c.file] = None]
<1>1. /\ step = "text" /\ ranked # <<>>
      /\ UNCHANGED <<userVars, stage, names, fd, current, opening, results, interrupted, late, left>>
      /\ IF lines = <<>> THEN step' = "failed" /\ UNCHANGED queryVars
         ELSE /\ texts' = Append(texts, t)
              /\ ranked' = Tail(ranked)
              /\ reads' = reads \union {read}
              /\ UNCHANGED <<step, window, standing, answer>>
    BY DEF ReadText
<1>2. StateType'
    BY <1>1 DEF QueryInv, StateType, userVars
<1>3. CASE lines = <<>>
    <2>1. UNCHANGED <<ranked, window, standing, texts, answer, reads>> /\ step' = "failed" /\ answer = {}
        BY <1>1, <1>3 DEF queryVars, QueryInv
    <2>2. \A r : Placed(r) => Placed(r)'
        BY <2>1, PlacedMore
    <2> QED BY <1>1, <1>2, <2>1, <2>2 DEF QueryInv
<1>4. CASE lines # <<>>
    <2>1. c \in Chunked /\ Tail(ranked) \in Seq(Chunked)
          /\ Len(Tail(ranked)) = Len(ranked) - 1
          /\ \A i \in 1..Len(Tail(ranked)) : Tail(ranked)[i] = ranked[i + 1]
        BY <1>1, HeadTailProperties DEF QueryInv
    <2>2. /\ c.file \in Files /\ c.from \in Nat \ {0} /\ c.to \in Nat /\ c.from <= c.to
          /\ c.text \in Seq(Nat)
        BY <2>1 DEF Chunked
    <2>3. lines \in Seq(Nat)
        <3>1. c.file \in Names
            BY <2>2 DEF Names
        <3>2. CASE disk[c.file] = None
            BY <2>2, <3>2 DEF Source
        <3>3. CASE disk[c.file] # None
            <4>1. disk[c.file] \in Inodes
                BY <3>1, <3>3 DEF QueryInv, StateType
            <4>2. inodes[disk[c.file]].data \in Seq(Nat)
                BY <4>1 DEF QueryInv, StateType
            <4> QED BY <3>3, <4>2 DEF Source
        <3> QED BY <3>2, <3>3
    <2>4. standing[c] \in SUBSET {"direct", "graph"}
        <3>1. Len(ranked) \in Nat /\ Len(ranked) >= 1 /\ DOMAIN ranked = 1..Len(ranked)
            BY <1>1, LenProperties, EmptySeq DEF QueryInv
        <3>2. 1 \in DOMAIN ranked /\ c = ranked[1]
            BY <3>1
        <3> QED BY <3>2 DEF QueryInv
    <2> HIDE DEF c, lines
    <2>5. /\ e.start \in 1..Len(lines) /\ e.end \in 1..Len(lines) /\ e.start <= e.end
          /\ e.lines \in Seq(Nat) /\ Len(e.lines) = e.end - e.start + 1
          /\ \A p \in e.start..e.end : e.lines[p - e.start + 1] = lines[p]
          /\ c.to <= Len(lines) => e.start <= c.from /\ c.to <= e.end
        BY <1>4, <2>2, <2>3, ExpandedRange DEF QueryInv
    <2> HIDE DEF e
    <2>6. Len(texts) \in Nat /\ Len(lines) \in Nat /\ DOMAIN texts = 1..Len(texts)
        BY <2>3, LenProperties DEF QueryInv
    <2>7. e.start \in Nat /\ e.end \in Nat /\ 1 <= e.start
        BY <2>5, <2>6
    <2>8. t \in Ranges /\ t.file = c.file /\ t.start = e.start /\ t.end = e.end /\ t.lines = e.lines
        BY <2>2, <2>4, <2>5, <2>6, <2>7 DEF Ranges
    <2>9. /\ texts' = Append(texts, t) /\ ranked' = Tail(ranked) /\ reads' = reads \union {read}
          /\ UNCHANGED <<step, window, standing, answer>>
        BY <1>1, <1>4
    <2>10. read.chunk = c /\ read.lines = lines /\ read \in reads'
        BY <2>9
    <2> HIDE DEF t, read
    <2>11. later(t)
        <3>1. \A p \in t.start..t.end :
                  \E x \in reads' : /\ x.chunk.file = t.file /\ p <= Len(x.lines)
                                    /\ x.lines[p] = t.lines[p - t.start + 1]
            <4> TAKE p \in t.start..t.end
            <4>1. p <= Len(lines)
                BY <2>5, <2>6, <2>7, <2>8
            <4>2. lines[p] = t.lines[p - t.start + 1]
                BY <2>5, <2>8
            <4> QED BY <2>8, <2>10, <4>1, <4>2
        <3> QED BY <2>5, <2>7, <2>8, <3>1
    <2>12. /\ texts' \in Seq(Ranges) /\ Len(texts') = Len(texts) + 1
           /\ \A i \in 1..Len(texts) : texts'[i] = texts[i]
           /\ texts'[Len(texts) + 1] = t
        BY <2>8, <2>9, AppendProperties DEF QueryInv
    <2>13. DOMAIN texts' = 1..(Len(texts) + 1)
        BY <2>12, LenProperties
    <2>14. \A i \in DOMAIN texts' : later(texts'[i])
        <3> TAKE i \in DOMAIN texts'
        <3>1. i \in 1..Len(texts) \/ i = Len(texts) + 1
            BY <2>6, <2>13
        <3>2. \A j \in 1..Len(texts) : later(texts[j])
            <4> TAKE j \in 1..Len(texts)
            <4>1. Placed(texts[j])
                BY <2>6 DEF QueryInv
            <4> QED BY <2>9, <4>1 DEF Placed
        <3> HIDE DEF later
        <3> QED BY <2>11, <2>12, <3>1, <3>2
    <2>15. \A x \in reads' :
              /\ x.chunk \in Chunked /\ x.lines \in Seq(Nat)
              /\ x.chunk.to <= Len(x.lines) =>
                    \E i \in DOMAIN texts' : /\ texts'[i].file = x.chunk.file
                                             /\ texts'[i].start <= x.chunk.from /\ x.chunk.to <= texts'[i].end
        <3> TAKE x \in reads'
        <3>1. CASE x \in reads
            <4>1. \A i \in DOMAIN texts : i \in DOMAIN texts' /\ texts'[i] = texts[i]
                BY <2>6, <2>12, <2>13
            <4> QED BY <3>1, <4>1 DEF QueryInv
        <3>2. CASE x = read
            <4>1. Len(texts) + 1 \in DOMAIN texts'
                BY <2>6, <2>13
            <4> QED BY <2>1, <2>3, <2>5, <2>8, <2>10, <2>12, <3>2, <4>1
        <3> QED BY <2>9, <3>1, <3>2
    <2>16. \A i \in DOMAIN ranked' : standing'[ranked'[i]] \in SUBSET {"direct", "graph"}
        <3> TAKE i \in DOMAIN ranked'
        <3>1. Len(ranked) \in Nat /\ DOMAIN ranked = 1..Len(ranked) /\ DOMAIN ranked' = 1..(Len(ranked) - 1)
            BY <2>1, <2>9, LenProperties DEF QueryInv
        <3>2. i + 1 \in DOMAIN ranked /\ ranked'[i] = ranked[i + 1]
            BY <2>1, <2>9, <3>1
        <3> QED BY <2>9, <3>2 DEF QueryInv
    <2>17. (\A i \in DOMAIN texts : Placed(texts[i]))'
        BY <2>14 DEF Placed
    <2>18. step' = "text" /\ answer' = {}
        BY <1>1, <2>9 DEF QueryInv
    <2>19. /\ stage' = "query" /\ fd'.inode = None /\ Len(fd'.got) <= Limit + 1 /\ names' \subseteq Files
           /\ results' = [f \in Files |-> Unseen] /\ window' \in Nat /\ ranked' \in Seq(Chunked)
        BY <1>1, <2>1, <2>9 DEF QueryInv
    <2> QED BY <1>2, <2>12, <2>15, <2>16, <2>17, <2>18, <2>19 DEF QueryInv
<1> QED BY <1>3, <1>4

\* Merging keeps the invariant.
LEMMA MergeStep ==
    ASSUME QueryInv, Merge
    PROVE  QueryInv'
<1>1. /\ step' = "answered" /\ answer' = UNION {ToSet(MergeOf(f)) : f \in Files}
      /\ UNCHANGED <<userVars, stage, names, fd, current, opening, results, interrupted, late, left,
                     ranked, window, standing, texts, reads>>
    BY DEF Merge
<1>2. StateType'
    BY <1>1 DEF QueryInv, StateType, userVars
<1>3. \A r : Placed(r) => Placed(r)'
    BY <1>1, PlacedMore
<1>4. texts \in Seq(Ranges) /\ \A i \in DOMAIN texts : Placed(texts[i])
    BY DEF QueryInv
<1>5. \A r \in answer' : Placed(r)
    BY <1>1, <1>4, MergeOfKeeps
<1>6. ASSUME NEW i \in DOMAIN texts PROVE \E r \in answer' : Covers(r, texts[i])
    <2>1. texts[i].file \in Files
        BY <1>4 DEF Placed, Ranges
    <2>2. i \in Mine(texts[i].file)
        BY DEF Mine
    <2>3. PICK r \in ToSet(MergeOf(texts[i].file)) : Covers(r, texts[i])
        BY <1>4, <2>2, MergeOfKeeps
    <2> QED BY <1>1, <2>1, <2>3
<1> QED BY <1>1, <1>2, <1>3, <1>4, <1>5, <1>6 DEF QueryInv, Covers

\* The user edits, or nothing happens.
LEMMA QueryIdle ==
    ASSUME QueryInv, [Next]_vars, UNCHANGED queryVars
    PROVE  QueryInv'
<1>1. Edit \/ UNCHANGED vars
    BY DEF QueryInv, Next, Done, BeginWalk, EndControl, List, Visit, EndOpening, CloseFence, BeginBody,
           ReadBlock, StatAfter, EndBody, EndBodies, Walking
<1>2. StateType' /\ UNCHANGED <<stage, step, names, fd, results>>
    <2>1. CASE Edit
        BY <2>1, EditTyped DEF QueryInv, Edit
    <2>2. CASE UNCHANGED vars
        BY <2>2 DEF QueryInv, StateType, vars, userVars
    <2> QED BY <1>1, <2>1, <2>2
<1>3. UNCHANGED <<ranked, window, standing, texts, answer, reads>>
    BY DEF queryVars
<1>4. \A r : Placed(r) => Placed(r)'
    BY <1>3, PlacedMore
<1> QED BY <1>2, <1>3, <1>4 DEF QueryInv, Covers

\* Every step of a run and its query keeps the invariant.
LEMMA AnswerInvNext == AnswerInv /\ [AnswerNext]_allVars => AnswerInv'
<1> SUFFICES ASSUME AnswerInv, [AnswerNext]_allVars PROVE AnswerInv'
    OBVIOUS
<1>1. CASE BeginQuery
    BY <1>1, BeginQueryStep
<1>2. CASE stage # "query" /\ ~BeginQuery
    <2>1. ~(step = "text")
        BY <1>2 DEF AnswerInv, QueryInv, ReadInv, StepInv
    <2>2. [Next]_vars /\ UNCHANGED queryVars
        BY <1>2, <2>1 DEF AnswerNext, allVars, ReadText, Merge
    <2> QED BY <1>2, <2>2, RunStep
<1>3. CASE stage = "query" /\ ~BeginQuery
    <2>1. QueryInv
        BY <1>3 DEF AnswerInv
    <2>2. CASE ReadText
        BY <2>1, <2>2, ReadTextStep DEF AnswerInv
    <2>3. CASE Merge
        BY <2>1, <2>3, MergeStep DEF AnswerInv
    <2>4. CASE [Next]_vars /\ UNCHANGED queryVars
        BY <2>1, <2>4, QueryIdle DEF AnswerInv
    <2> QED BY <1>3, <2>2, <2>3, <2>4 DEF AnswerNext, allVars
<1> QED BY <1>1, <1>2, <1>3

\* What holds along every run and the query that follows it.
LEMMA Answered == AnswerSpec => []AnswerInv
BY AnswerInitInv, AnswerInvNext, PTL DEF AnswerSpec

-----------------------------------------------------------------------------
(* The theorems *)

\* The types and the promises of the run hold on when a query follows it.
THEOREM RunsAnswered == AnswerSpec => [](TypeOK /\ ReadIsWhole /\ AcceptedIsOneMoment)
<1>1. AnswerInv => TypeOK /\ ReadIsWhole /\ AcceptedIsOneMoment
    <2>1. ASSUME ReadInv PROVE TypeOK /\ ReadIsWhole /\ AcceptedIsOneMoment
        <3>1. TypeOK
            BY <2>1 DEF ReadInv, StateType, StepInv, Reading, Statuses, TypeOK, Ends
        <3> QED BY <2>1, <3>1, WholeFollows, MomentFollows
    <2>2. ASSUME QueryInv PROVE TypeOK /\ ReadIsWhole /\ AcceptedIsOneMoment
        BY <2>2 DEF QueryInv, StateType, Unseen, Outcome, TypeOK, Ends, ReadIsWhole, AcceptedIsOneMoment
    <2> QED BY <2>1, <2>2 DEF AnswerInv
<1> QED BY <1>1, Answered, PTL

\* A line of an answer is that line of the file, as one of the reads found it, whatever
\* the user edits between two reads, and however ranges are moved, widened and merged.
THEOREM LinesKeepTheirPlace == AnswerSpec => []LinesInPlace
<1>1. ASSUME AnswerInv, NEW r \in answer, NEW k \in DOMAIN r.lines
      PROVE  /\ Len(r.lines) = r.end - r.start + 1
             /\ \E x \in reads : /\ x.chunk.file = r.file
                                 /\ r.start + k - 1 <= Len(x.lines)
                                 /\ x.lines[r.start + k - 1] = r.lines[k]
    <2>1. Placed(r)
        BY <1>1 DEF AnswerInv, QueryInv
    <2>2. /\ r \in Ranges /\ 1 <= r.start /\ r.start <= r.end
          /\ Len(r.lines) = r.end - r.start + 1
        BY <2>1 DEF Placed
    <2>3. r.start \in Nat /\ r.end \in Nat /\ r.lines \in Seq(Nat)
        BY <2>2 DEF Ranges
    <2>4. k \in 1..(r.end - r.start + 1)
        BY <2>2, <2>3, LenProperties
    <2>5. r.start + k - 1 \in r.start..r.end /\ (r.start + k - 1) - r.start + 1 = k
        BY <2>3, <2>4, SMTT(40)
    <2> QED BY <2>1, <2>2, <2>5 DEF Placed
<1>2. AnswerInv => LinesInPlace
    <2> SUFFICES ASSUME AnswerInv, NEW r \in answer
                 PROVE  /\ Len(r.lines) = r.end - r.start + 1
                        /\ \A k \in DOMAIN r.lines :
                              \E x \in reads : /\ x.chunk.file = r.file
                                               /\ r.start + k - 1 <= Len(x.lines)
                                               /\ x.lines[r.start + k - 1] = r.lines[k]
        BY DEF LinesInPlace
    <2>1. Len(r.lines) = r.end - r.start + 1
        BY DEF AnswerInv, QueryInv, Placed
    <2> QED BY <1>1, <2>1
<1> QED BY <1>2, Answered, PTL

\* A chunk whose lines stood in the file at every read of it is in some result, word for
\* word and at its place, however many others it was merged with or kept apart from.
THEOREM RecalledStaysShown == AnswerSpec => []RecalledIsShown
<1>1. ASSUME AnswerInv, step = "answered", NEW x \in reads,
             \A y \in reads : y.chunk.file = x.chunk.file =>
                 \A i \in 1..Len(x.chunk.text) :
                     /\ x.chunk.from + i - 1 \in DOMAIN y.lines
                     /\ y.lines[x.chunk.from + i - 1] = x.chunk.text[i]
      PROVE  \E r \in answer : /\ r.file = x.chunk.file
                               /\ \A i \in 1..Len(x.chunk.text) :
                                     /\ x.chunk.from + i - r.start \in DOMAIN r.lines
                                     /\ r.lines[x.chunk.from + i - r.start] = x.chunk.text[i]
    <2> DEFINE c == x.chunk
    <2>1. QueryInv
        BY <1>1 DEF AnswerInv, ReadInv, StepInv
    <2>2. c \in Chunked
        BY <2>1 DEF QueryInv
    <2>3. /\ c.from \in Nat \ {0} /\ c.to \in Nat /\ c.from <= c.to /\ Len(c.text) = c.to - c.from + 1
          /\ c.file \in Files
        BY <2>2 DEF Chunked
    <2> HIDE DEF c
    <2>4. /\ \A y \in reads : y.lines \in Seq(Nat)
          /\ c.to <= Len(x.lines) =>
                \E i \in DOMAIN texts : /\ texts[i].file = c.file
                                        /\ texts[i].start <= c.from /\ c.to <= texts[i].end
        BY <2>1 DEF QueryInv, c
    <2>5. \A y \in reads : y.chunk.file = c.file =>
              \A i \in 1..Len(c.text) : /\ c.from + i - 1 \in DOMAIN y.lines
                                        /\ y.lines[c.from + i - 1] = c.text[i]
        BY <1>1 DEF c
    <2>6. c.to <= Len(x.lines)
        <3>1. Len(c.text) \in 1..Len(c.text) /\ c.from + Len(c.text) - 1 = c.to
            BY <2>3
        <3>2. c.to \in DOMAIN x.lines
            BY <2>5, <3>1 DEF c
        <3> QED BY <2>4, <3>2, LenProperties
    <2>7. PICK i \in DOMAIN texts : /\ texts[i].file = c.file
                                    /\ texts[i].start <= c.from /\ c.to <= texts[i].end
        BY <2>4, <2>6
    <2>8. PICK r \in answer : Covers(r, texts[i])
        BY <1>1, <2>1 DEF QueryInv
    <2>9. Placed(r) /\ r.file = c.file
        BY <1>1, <2>1, <2>7, <2>8 DEF QueryInv, Covers
    <2>10. /\ r.start \in Nat /\ r.end \in Nat /\ r.lines \in Seq(Nat) /\ 1 <= r.start
           /\ Len(r.lines) = r.end - r.start + 1 /\ r.start <= r.end
        BY <2>9 DEF Placed, Ranges
    <2>11. r.start <= c.from /\ c.to <= r.end
        <3>1. texts[i].start \in Nat /\ texts[i].end \in Nat
            BY <2>1 DEF QueryInv, Placed, Ranges
        <3> QED BY <2>3, <2>7, <2>8, <2>10, <3>1, SMTT(40) DEF Covers
    <2>12. ASSUME NEW k \in 1..Len(c.text)
           PROVE  /\ c.from + k - r.start \in DOMAIN r.lines
                  /\ r.lines[c.from + k - r.start] = c.text[k]
        <3> DEFINE p == c.from + k - 1
        <3>1. k \in Nat /\ 1 <= k /\ k <= c.to - c.from + 1
            BY <2>3
        <3>2. p \in r.start..r.end
            <4>1. p \in Nat /\ c.from <= p /\ p <= c.to
                BY <2>3, <3>1
            <4>2. r.start <= p /\ p <= r.end
                BY <2>3, <2>10, <2>11, <4>1, SMTT(40)
            <4> QED BY <2>10, <4>1, <4>2
        <3>3. p - r.start + 1 = c.from + k - r.start /\ p - r.start + 1 \in 1..(r.end - r.start + 1)
            <4>1. r.start \in Nat /\ r.end \in Nat /\ c.from \in Nat
                BY <2>3, <2>10
            <4>2. p \in Nat /\ r.start <= p /\ p <= r.end
                BY <4>1, <3>1, <3>2
            <4> QED BY <3>1, <4>1, <4>2, SMTT(40)
        <3> HIDE DEF p
        <3>4. DOMAIN r.lines = 1..(r.end - r.start + 1)
            BY <2>10, LenProperties
        <3>5. PICK y \in reads : /\ y.chunk.file = r.file /\ p <= Len(y.lines)
                                 /\ y.lines[p] = r.lines[p - r.start + 1]
            BY <2>9, <3>2 DEF Placed
        <3>6. y.lines[p] = c.text[k]
            BY <2>5, <2>9, <3>5 DEF p
        <3> QED BY <3>3, <3>4, <3>5, <3>6
    <2> QED BY <2>9, <2>12 DEF c
<1>2. AnswerInv => RecalledIsShown
    BY <1>1 DEF RecalledIsShown
<1> QED BY <1>2, Answered, PTL
=============================================================================
