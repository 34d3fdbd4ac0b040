----------------------------- MODULE Exploration -----------------------------
(***************************************************************************)
(* `explore_repository`: an initial query, a plan of follow-up probes for  *)
(* the goals its pack leaves open, at most MaxProbes of them, and the      *)
(* fusion of what they return with what is already there.                  *)
(*                                                                         *)
(* Every query reads the index in a session of its own and an index run    *)
(* may publish in between, so the answers may come from several snapshots. *)
(* The goals are frozen after the initial pack.  An entry is a path with   *)
(* the goals its text shows; a pack retains the best entries of a bundle,  *)
(* and of each entry only the part that fits.                              *)
(***************************************************************************)
EXTENDS Integers, FiniteSets, Sequences, SequencesExt

CONSTANTS
    Snapshots,              \* what an index may hold: the goals each path shows
    Kind,                   \* the kind of each goal
    Rankings,               \* ranked candidates of a plan: the goals of each
    MaxFrozen, MaxPlanned, MaxProbes, MaxFused,
    InitialTopK, FollowupTopK,
    MaxItems, MaxShown,     \* items of a pack, and goals one item retains
    MaxPublications         \* bound: index runs during one exploration

VARIABLES
    index,        \* the published snapshot
    published,    \* index runs so far
    step,         \* "query", "plan", "probe", "done" or "error"
    bundle,       \* fused entries, in order
    pack,         \* the best pack so far, a set of entries
    frozen,       \* frozen goals, in order
    satisfied,    \* goals counted as satisfied
    planned,      \* goals of each planned probe
    executed, skipped,
    reason        \* why it stopped

evidenceVars == <<bundle, pack, satisfied>>
exploreVars == <<index, published, step, bundle, pack, frozen, satisfied, planned,
                 executed, skipped, reason>>

Goals == DOMAIN Kind
Required(S) == {g \in S : Kind[g] \in {"required", "role"}}

ASSUME GoalsAssumption ==
    /\ Kind \in Seq({"required", "role", "recommended", "structural"})
    /\ \A s \in Snapshots : s \in [DOMAIN s -> SUBSET Goals]
    /\ Rankings \subseteq Seq(SUBSET Goals)
ASSUME BoundsAssumption ==
    /\ MaxFrozen \in Nat /\ MaxPlanned \in Nat /\ MaxProbes \in Nat /\ MaxFused \in Nat
    /\ InitialTopK \in Nat /\ FollowupTopK \in Nat
    /\ MaxItems \in Nat /\ MaxShown \in Nat /\ MaxPublications \in Nat

\* The fused limit holds every path the queries can return, so it never cuts any off.
ASSUME LimitsAssumption == InitialTopK + MaxProbes * FollowupTopK <= MaxFused

-----------------------------------------------------------------------------
(* Packs and goals *)

\* An item keeps the text of its first goals.
Retained(e) == {g \in e.shows : Cardinality({h \in e.shows : h < g}) < MaxShown}

\* A builder that, like the real one, takes the entries one by one for the required goals
\* still open, and so is not monotone: a better entry may take the place of another.
Pack(entries) ==
    LET taken[k \in 0..MaxItems] ==
            IF k = 0 THEN {}
            ELSE LET open == Required(Goals) \ UNION {entries[i].shows : i \in taken[k - 1]}
                     left == DOMAIN entries \ taken[k - 1]
                     gain(i) == Cardinality(entries[i].shows \intersect open)
                     best == {i \in left : \A j \in left : gain(j) < gain(i) \/ (gain(j) = gain(i) /\ i <= j)}
                 IN  taken[k - 1] \union best
    IN  {entries[i] : i \in taken[MaxItems]}

Shown(items) == UNION {Retained(e) : e \in items}

UpTo(seq, n) == IF Len(seq) <= n THEN seq ELSE SubSeq(seq, 1, n)

\* The members of S in a strict order.
Ordered(S, before(_, _)) ==
    [k \in 1..Cardinality(S) |-> CHOOSE x \in S : Cardinality({y \in S : before(y, x)}) = k - 1]

\* Role and structural goals are raised only when the initial pack leaves them open.
FreezeGoals(shown) ==
    LET raised == {g \in Goals : Kind[g] \in {"role", "structural"} => g \notin shown}
        class(g) == CASE Kind[g] = "required"    -> IF g \in shown THEN 3 ELSE 1
                      [] Kind[g] = "role"        -> 2
                      [] Kind[g] = "recommended" -> IF g \in shown THEN 6 ELSE 4
                      [] Kind[g] = "structural"  -> 5
        before(g, h) == class(g) < class(h) \/ (class(g) = class(h) /\ g < h)
    IN  UpTo(Ordered(raised, before), MaxFrozen)

Satisfied(items) == ToSet(frozen) \intersect Shown(items)

\* The answers of a query: a ranking of at most n paths of the snapshot it reads.  direct
\* is the set of paths the user asked for by name.
Answers(n, direct) ==
    {[i \in DOMAIN s |-> [path |-> s[i], shows |-> index[s[i]], protected |-> s[i] \in direct]] :
        s \in {t \in SeqOf(DOMAIN index, n) : \A i, j \in DOMAIN t : t[i] = t[j] => i = j}}

-----------------------------------------------------------------------------
(* Fusion *)

InitializeFusion(entries) == UpTo(entries, MaxFused)

At(entries, p) == {i \in DOMAIN entries : entries[i].path = p}

\* Mutant: a protected entry gives way too.
ProposesAnything(entries, e) ==
    {[entries EXCEPT ![i] = e] : i \in At(entries, e.path)}
        \union IF At(entries, e.path) = {} THEN {Append(entries, e)} ELSE {}

\* The bundle with e in it, or none: a protected entry stays, any other gives way only to
\* one that shows more of the frozen goals.  (A proper superset always improves the
\* priority that is compared next.)  Results and anchors, which the code keeps in two
\* lists with limits of their own, are one list here.
Proposals(entries, e) ==
    LET relevant(x) == x.shows \intersect ToSet(frozen)
        replaceable == {i \in At(entries, e.path) : /\ ~entries[i].protected
                                                    /\ relevant(entries[i]) \subseteq relevant(e)
                                                    /\ relevant(entries[i]) # relevant(e)}
    IN  {[entries EXCEPT ![i] = e] : i \in replaceable}
        \union IF At(entries, e.path) = {} /\ Len(entries) < MaxFused
               THEN {Append(entries, e)} ELSE {}

\* Mutant: what was shown before need not be shown any more.
AcceptsGain(before, after) == after \ before # {}

Accepts(before, after) == before \subseteq after /\ after \ before # {}

Built(entries) ==
    [bundle |-> entries, pack |-> Pack(entries), satisfied |-> Satisfied(Pack(entries))]

\* One entry of a probe: used if it shows an open goal and the pack of the new bundle
\* gains a goal without losing one.
Fuse(state, e) ==
    LET good == {n \in {Built(b) : b \in Proposals(state.bundle, e)} :
                    Accepts(state.satisfied, n.satisfied)}
    IN  IF good = {} \/ (e.shows \intersect ToSet(frozen)) \subseteq state.satisfied
        THEN state
        ELSE CHOOSE n \in good : TRUE

\* The entries one after the other; the pack is built again if none of them was used.
AddProbeEvidence(answer) ==
    LET fused == FoldLeft(Fuse, [bundle |-> bundle, pack |-> pack, satisfied |-> satisfied], answer)
    IN  IF fused.bundle = bundle THEN Built(bundle) ELSE fused

-----------------------------------------------------------------------------
(* The plan *)

\* One candidate for each open goal that no earlier choice serves, then the others.
OrderCandidates(raw) ==
    LET open(k) == frozen[k] \notin satisfied
        chosen[k \in 0..Len(frozen)] ==
            IF k = 0 THEN <<>>
            ELSE LET g == frozen[k]
                     done == chosen[k - 1]
                     new == {i \in DOMAIN raw : g \in raw[i] /\ \A j \in 1..(i - 1) : g \notin raw[j]}
                 IN  IF ~open(k) \/ new = {} \/ \E i \in ToSet(done) : g \in raw[i]
                     THEN done ELSE Append(done, CHOOSE i \in new : TRUE)
        rest == Ordered(DOMAIN raw \ ToSet(chosen[Len(frozen)]), LAMBDA i, j : i < j)
        order == UpTo(chosen[Len(frozen)] \o rest, MaxPlanned)
    IN  [k \in DOMAIN order |-> raw[order[k]]]

\* Seeds are read through the chunks the initial items came from.
Grounded == \A e \in pack : index[e.path] = e.shows

-----------------------------------------------------------------------------
(* Steps *)

Stop(why) == step' = "done" /\ reason' = why

\* An index run publishes another snapshot.
Publish ==
    /\ step # "done" /\ step # "error"
    /\ published < MaxPublications
    /\ published' = published + 1
    /\ index' \in Snapshots \ {index}
    /\ UNCHANGED <<step, evidenceVars, frozen, planned, executed, skipped, reason>>

AllSatisfied == ToSet(frozen) \subseteq satisfied

\* An exact name was asked for and found, and no required goal is open.
Exact(entries, goals, done) ==
    (\E i \in DOMAIN entries : entries[i].protected) /\ Required(goals) \subseteq done

InitialQuery ==
    /\ step = "query"
    /\ \E direct \in SUBSET DOMAIN index : \E answer \in Answers(InitialTopK, direct) :
           LET first == Pack(answer) IN
           /\ bundle' = InitializeFusion(answer)
           /\ pack' = first
           /\ frozen' = FreezeGoals(Shown(first))
           /\ satisfied' = ToSet(FreezeGoals(Shown(first))) \intersect Shown(first)
           /\ \/ answer = <<>> /\ \/ Stop("initial_missing_index")
                                  \/ Stop("initial_empty")
              \/ Stop("initial_retrieval_incomplete")
              \/ /\ answer # <<>>
                 /\ \/ Exact(answer, ToSet(frozen'), satisfied') /\ Stop("exact_satisfied")
                    \/ ToSet(frozen') \subseteq satisfied' /\ Stop("initial_satisfied")
                    \/ /\ ~(ToSet(frozen') \subseteq satisfied')
                       /\ step' = "plan" /\ UNCHANGED reason
    /\ UNCHANGED <<index, published, planned, executed, skipped>>

PlanProbes ==
    /\ step = "plan"
    /\ \E raw \in Rankings :
           /\ \A i \in DOMAIN raw : raw[i] \subseteq ToSet(frozen) \ satisfied
           /\ raw # <<>> => Grounded
           /\ planned' = OrderCandidates(raw)
           /\ IF raw = <<>> THEN Stop("no_grounded_probe") ELSE step' = "probe" /\ UNCHANGED reason
    /\ UNCHANGED <<index, published, evidenceVars, frozen, executed, skipped>>

Candidate == planned[executed + skipped + 1]
\* Mutant: the whole plan is executed.
MorePlanned == executed + skipped < Len(planned)

MoreProbes == executed < MaxProbes /\ executed + skipped < Len(planned)
Stale == Candidate \subseteq satisfied

SkipStale ==
    /\ step = "probe" /\ MoreProbes /\ Stale
    /\ skipped' = skipped + 1
    /\ UNCHANGED <<index, published, step, evidenceVars, frozen, planned, executed, reason>>

\* Every goal, or every required one where there are any.
Enough(done) ==
    \/ ToSet(frozen) \subseteq done
    \/ Required(ToSet(frozen)) # {} /\ Required(ToSet(frozen)) \subseteq done

Probe ==
    /\ step = "probe" /\ MoreProbes /\ ~Stale
    /\ executed' = executed + 1
    /\ \E answer \in Answers(FollowupTopK, {}) : \E new \in {AddProbeEvidence(answer)} :
           IF ~(satisfied \subseteq new.satisfied)
           THEN /\ step' = "error" /\ reason' = "lost_goal_coverage"
                /\ UNCHANGED evidenceVars
           ELSE /\ bundle' = new.bundle /\ pack' = new.pack /\ satisfied' = new.satisfied
                /\ IF Enough(satisfied') THEN Stop("satisfied")
                   ELSE IF satisfied' = satisfied THEN Stop("no_marginal_gain")
                   ELSE UNCHANGED <<step, reason>>
    /\ UNCHANGED <<index, published, frozen, planned, skipped>>

\* The query failed in a way that is handled, was incomplete, or found no index: what it
\* returned is not used.
ProbeFails ==
    /\ step = "probe" /\ MoreProbes /\ ~Stale
    /\ executed' = executed + 1
    /\ Stop("followup_query_failed")
    /\ UNCHANGED <<index, published, evidenceVars, frozen, planned, skipped>>

EndOfPlan ==
    /\ step = "probe" /\ ~MoreProbes
    /\ Stop("probe_budget_exhausted")
    /\ UNCHANGED <<index, published, evidenceVars, frozen, planned, executed, skipped>>

\* Any other exception ends the exploration without an answer.
Break ==
    /\ step \in {"query", "plan", "probe"}
    /\ step' = "error" /\ reason' = "explore_failed"
    /\ UNCHANGED <<index, published, evidenceVars, frozen, planned, executed, skipped>>

Init ==
    /\ index \in Snapshots /\ published = 0
    /\ step = "query" /\ reason = "none"
    /\ bundle = <<>> /\ pack = {}
    /\ frozen = <<>> /\ satisfied = {}
    /\ planned = <<>> /\ executed = 0 /\ skipped = 0

Ended == step \in {"done", "error"} /\ UNCHANGED exploreVars

Next ==
    \/ Publish
    \/ InitialQuery \/ PlanProbes
    \/ SkipStale \/ Probe \/ ProbeFails \/ EndOfPlan
    \/ Break
    \/ Ended

Spec == Init /\ [][Next]_exploreVars

-----------------------------------------------------------------------------
(* Properties *)

Entries == {e \in [path : UNION {DOMAIN s : s \in Snapshots}, shows : SUBSET Goals,
                   protected : BOOLEAN] : \E s \in Snapshots : s[e.path] = e.shows}

\* Every variable keeps its type, and an exploration its budgets.
TypeOK ==
    /\ index \in Snapshots
    /\ published \in 0..MaxPublications
    /\ step \in {"query", "plan", "probe", "done", "error"}
    /\ ToSet(bundle) \subseteq Entries /\ Len(bundle) <= MaxFused
    /\ pack \subseteq Entries /\ Cardinality(pack) <= MaxItems
    /\ ToSet(frozen) \subseteq Goals /\ Len(frozen) <= MaxFrozen
    /\ satisfied \subseteq ToSet(frozen)
    /\ Len(planned) <= MaxPlanned
    /\ executed \in 0..MaxProbes
    /\ executed + skipped <= Len(planned)

\* Follow-ups only add: a goal once shown stays shown, the paths keep their slots, and
\* what the user named directly is never replaced, whatever snapshot a probe reads.
CoverageKept ==
    [][step # "query" =>
        /\ satisfied \subseteq satisfied'
        /\ \A i \in DOMAIN bundle : /\ bundle'[i].path = bundle[i].path
                                    /\ bundle[i].protected => bundle'[i] = bundle[i]]_exploreVars

\* The answer is of one piece, however the exploration ended: the pack is built from the
\* fused bundle and shows the goals that are reported, so that a probe that failed or
\* brought nothing has left no trace; and the fusion never finds itself without a goal it
\* had.
AnswerIsFused ==
    /\ step # "query" => pack = Pack(bundle) /\ satisfied = Satisfied(pack)
    /\ reason # "lost_goal_coverage"
    /\ reason = "satisfied" => Enough(Shown(pack))
=============================================================================
