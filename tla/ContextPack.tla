----------------------------- MODULE ContextPack -----------------------------
(***************************************************************************)
(* How build_context_pack fits evidence into a byte budget.                *)
(*                                                                         *)
(* Candidates are selected for the needs their whole text shows, get       *)
(* excerpts, and are compacted twice: omission previews go first, then     *)
(* reasons, then content, then items, and the excerpts of the items that   *)
(* remain are restored.  What an item shows is linked again after the      *)
(* cuts, so a need may be lost on the way; the pair of candidate and need  *)
(* is then blocked and the build starts over.                              *)
(*                                                                         *)
(* A need is carried by a path, a reason or a content line.  A line is one *)
(* unit of content and an excerpt of its own; the JSON around it is priced *)
(* by the cost constants.  Candidates are numbered in reading order.       *)
(***************************************************************************)
EXTENDS Integers, FiniteSets, Sequences, SequencesExt, Functions

CONSTANTS
    PackInputs,     \* the builds: their candidates, required needs and pack budget
    Needs,          \* evidence needs, a set of numbers
    ItemCost, ReasonCost, LinkCost, OmissionCost, MissingCost,
    MaxItems, MaxExcerpts, MaxItemContent, MaxContent, MinEvidence

\* What the path, each reason and each content line of a candidate show.
Candidates == [path : SUBSET Needs, reasons : Seq(SUBSET Needs), lines : Seq(SUBSET Needs)]

ASSUME NeedsAssumption == Needs \subseteq Nat /\ IsFiniteSet(Needs)
ASSUME InputsAssumption ==
    PackInputs \subseteq [cands : Seq(Candidates), required : SUBSET Needs, bytes : Nat]
\* The code checks its limits, and the costs are lengths of JSON.
ASSUME LimitsAssumption ==
    /\ {ItemCost, ReasonCost, LinkCost, OmissionCost, MissingCost} \subseteq Nat
    /\ {MaxItems, MaxExcerpts, MaxItemContent, MaxContent, MinEvidence} \subseteq Nat

VARIABLES
    input,     \* arguments of the build
    blocked,   \* <<candidate, need>> pairs given up
    rounds,    \* rounds begun
    phase,     \* "select", "compact", "review", "done" or "failed"
    pass,      \* first or second compaction of the round
    open,      \* needs no selected candidate covers
    sel,       \* selected candidates, with their priority and the needs they cover
    items,     \* the pack: what is retained of each selected candidate
    limit,     \* omission preview limit
    turns      \* history: turns of the compaction loop in this round

packVars == <<input, blocked, rounds, phase, pass, open, sel, items, limit, turns>>

-----------------------------------------------------------------------------
(* Candidates and what they show *)

Cands == DOMAIN input.cands
Cand(c) == input.cands[c]
Required == input.required

\* What the path, the first r reasons and the lines in kept show.
ShownBy(c, r, kept) ==
    Cand(c).path \union (UNION {Cand(c).reasons[k] : k \in 1..r})
                 \union (UNION {Cand(c).lines[k] : k \in kept})

FullMatches(c) == ShownBy(c, Len(Cand(c).reasons), DOMAIN Cand(c).lines)

Coverage(c) == {n \in FullMatches(c) : <<c, n>> \notin blocked}

\* An item without excerpts shows nothing.
Shown(its, c) == IF its[c].kept = {} THEN {} ELSE ShownBy(c, its[c].reasons, its[c].kept)

\* Mutant: a link stays when the text that showed it is gone.
RelinkGrows(its) ==
    [c \in DOMAIN its |-> [its[c] EXCEPT !.matched = @ \union Shown(its, c)]]

Relink(its) == [c \in DOMAIN its |-> [its[c] EXCEPT !.matched = Shown(its, c)]]

Matched(its) == UNION {its[c].matched : c \in DOMAIN its}

-----------------------------------------------------------------------------
(* Sizes and the status *)

LeastOf(a, b) == IF a < b THEN a ELSE b
MostOf(a, b) == IF a < b THEN b ELSE a

Previewed(its, lim) == LeastOf(lim, Cardinality(Cands \ DOMAIN its))

ItemSize(it) == ItemCost + ReasonCost * it.reasons + Cardinality(it.kept)
                + LinkCost * Cardinality(it.matched)

PackSize(its, lim) ==
    SumFunction([c \in DOMAIN its |-> ItemSize(its[c])])
        + OmissionCost * Previewed(its, lim)
        + MissingCost * Cardinality(Needs \ Matched(its))

Fits(its) == PackSize(its, limit) <= input.bytes

Status == IF Cands = {} THEN "empty"
          ELSE IF Needs = {} \/ DOMAIN items = {} \/ Required \ Matched(items) # {}
               THEN "partial"
               ELSE "ready"

-----------------------------------------------------------------------------
(* Excerpts *)

\* A comes first in the order of sorted tuples of numbers.
Earlier(A, B) == \E a \in A \ B : \A x \in B \ A : a < x

\* The lines of c in the order the fitting fills them.
FillsBefore(c, req, rec, j, k) ==
    LET miss(want, l) == IF Cand(c).lines[l] \intersect want = {} THEN 1 ELSE 0
        key(l) == 2 * miss(req, l) + miss(rec, l)
    IN  key(j) < key(k) \/ (key(j) = key(k) /\ j < k)

FirstOf(c, S, n, req, rec) ==
    {k \in S : Cardinality({j \in S : FillsBefore(c, req, rec, j, k)}) < n}

\* fit_excerpts_to_bytes: reserve the lines that show most required needs, fewest
\* lines and first needs first, then fill.  The code prunes the reservations it
\* compares; here all are.
Fit(c, pool, room, req, rec) ==
    LET plans == {R \in SUBSET pool : Cardinality(R) <= room}
        shows(R) == req \intersect UNION {Cand(c).lines[k] : k \in R}
        better(R, Q) ==
            \/ Cardinality(shows(R)) > Cardinality(shows(Q))
            \/ /\ Cardinality(shows(R)) = Cardinality(shows(Q))
               /\ \/ Earlier(shows(R), shows(Q))
                  \/ /\ shows(R) = shows(Q)
                     /\ \/ Cardinality(R) < Cardinality(Q)
                        \/ Cardinality(R) = Cardinality(Q) /\ Earlier(R, Q)
        best == {R \in plans : \A Q \in plans \ {R} : better(R, Q)}
    IN  IF room <= 0 THEN {}
        ELSE UNION {R \union FirstOf(c, pool \ R, room - Cardinality(R), req, rec) : R \in best}

\* The windows kept for the needs in covered, judged with path and all reasons.
Preferred(c, covered) ==
    LET all == DOMAIN Cand(c).lines
        shows(l) == covered \intersect ShownBy(c, Len(Cand(c).reasons), {l})
        key(l) == (IF shows(l) \intersect Required = {} THEN 2 ELSE 0)
                    + (IF shows(l) \ Required = {} THEN 1 ELSE 0)
        before(j, k) == key(j) < key(k) \/ (key(j) = key(k) /\ j < k)
    IN  {k \in all : Cardinality({j \in all : before(j, k)}) < MaxExcerpts}

\* The turns that shared out content earlier.
TurnBefore(t, u) == t[1] < u[1] \/ (t[1] = u[1] /\ t[2] < u[2])

\* Content for every candidate.  Three turns share MaxContent: the candidates linked to
\* a required need, those linked to a recommended one, then all of them, each turn in
\* reading order and each candidate up to what it lacks.  windows are the preferred
\* lines of a candidate, links the needs it is fitted for.
Allocation(windows, links) ==
    LET all == DOMAIN windows
        desired(c) == LeastOf(MaxItemContent, Cardinality(windows[c]))
        least(c) == LeastOf(MinEvidence, desired(c))
        first(c) == links[c] \intersect Required # {}
        second(c) == ~first(c) /\ links[c] # {}
        asked(turn, c) ==
            CASE turn = 1 -> IF first(c) THEN least(c) ELSE 0
              [] turn = 2 -> IF second(c) THEN least(c) ELSE 0
              [] turn = 3 -> desired(c) - (IF first(c) \/ second(c) THEN least(c) ELSE 0)
        left(u) == MaxContent - SumFunction([t \in {v \in (1..3) \X all : TurnBefore(v, u)} |->
                                                asked(t[1], t[2])])
        given(c) == SumFunction([turn \in 1..3 |->
                        MostOf(0, LeastOf(asked(turn, c), left(<<turn, c>>)))])
    IN  [c \in all |-> Fit(c, windows[c], given(c),
                           links[c] \intersect Required, links[c] \ Required)]

-----------------------------------------------------------------------------
(* A round: selection *)

Rank(c) ==
    LET most == Cardinality(Needs)
        req  == most - Cardinality(Coverage(c) \intersect open \intersect Required)
        rec  == most - Cardinality((Coverage(c) \intersect open) \ Required)
    IN  (req * (most + 1) + rec) * (Cardinality(Cands) + 1) + c

Eligible(kind) ==
    {c \in Cands \ DOMAIN sel : Coverage(c) \intersect open \intersect kind # {}}

Full == Cardinality(DOMAIN sel) = MaxItems

Select(c, rest) ==
    /\ sel' = [d \in DOMAIN sel \union {c} |->
                  IF d = c THEN [prio |-> Rank(c), covers |-> Coverage(c)] ELSE sel[d]]
    /\ open' = rest
    /\ UNCHANGED <<input, blocked, rounds, phase, pass, items, limit, turns>>

Winner(c, S) == \A d \in S : Rank(c) <= Rank(d)

SelectForNeed ==
    /\ phase = "select" /\ ~Full
    /\ \E c \in Cands :
           LET S == IF Eligible(Required) # {} THEN Eligible(Required)
                                               ELSE Eligible(Needs \ Required)
           IN  c \in S /\ Winner(c, S) /\ Select(c, open \ Coverage(c))

SelectFiller ==
    /\ phase = "select" /\ ~Full
    /\ Eligible(Needs) = {}
    /\ \E c \in Cands \ DOMAIN sel : Winner(c, Cands \ DOMAIN sel) /\ Select(c, open)

\* Excerpts, items and the first links.
Windows(S) == [c \in S |-> Preferred(c, sel[c].covers)]

Materialize ==
    /\ phase = "select"
    /\ Full \/ Cands \subseteq DOMAIN sel
    /\ LET all == DOMAIN sel IN
       \E content \in {Allocation(Windows(all), [c \in all |-> sel[c].covers])} :
           items' = Relink([c \in all |-> [reasons |-> Len(Cand(c).reasons),
                                           kept    |-> content[c],
                                           matched |-> sel[c].covers]])
    /\ phase' = "compact"
    /\ pass' = 1
    /\ limit' = MaxItems /\ turns' = 0
    /\ UNCHANGED <<input, blocked, rounds, open, sel>>

-----------------------------------------------------------------------------
(* A round: compaction *)

Cutting == phase = "compact" /\ ~Fits(items)
Cut(its) ==
    /\ \E new \in {its} : items' = new
    /\ turns' = turns + 1
    /\ UNCHANGED <<input, blocked, rounds, phase, pass, open, sel, limit>>

Lowest(c, S) == c \in S /\ \A d \in S : sel[d].prio <= sel[c].prio

DropOmission ==
    /\ Cutting
    /\ Previewed(items, limit) > 0
    /\ limit' = Previewed(items, limit) - 1
    /\ turns' = turns + 1
    /\ UNCHANGED <<input, blocked, rounds, phase, pass, open, sel, items>>

WithReasons == {c \in DOMAIN items : items[c].reasons > 0}

DropReason ==
    /\ Cutting
    /\ Previewed(items, limit) = 0
    /\ \E c \in WithReasons :
           /\ Lowest(c, WithReasons)
           /\ Cut(Relink([items EXCEPT ![c].reasons = @ - 1]))

\* The cuts below start from links made afresh.
Linked == Relink(items)
CuttingContent == Cutting /\ Previewed(items, limit) = 0 /\ WithReasons = {}

NoLongerTooBig == CuttingContent /\ Fits(Linked) /\ Cut(Linked)

NeededOf(c) == Linked[c].matched \intersect Required

\* The binary search for the least content that still shows what the item is needed
\* for.
MinimumContent(c) ==
    LET it == Linked[c]
        now == Cardinality(items[c].kept)
        enough(n) ==
            LET kept == Fit(c, it.kept, n, NeededOf(c), {})
            IN  kept # {} /\ NeededOf(c) \subseteq ShownBy(c, it.reasons, kept)
        search[p \in (1..now + 1) \X (0..now)] ==   \* p is <<low, high>>
            IF p[1] > p[2] THEN p[2] + 1
            ELSE LET n == (p[1] + p[2]) \div 2
                 IN  search[IF enough(n) THEN <<p[1], n - 1>> ELSE <<n + 1, p[2]>>]
    IN  IF NeededOf(c) = {} THEN 0 ELSE LeastOf(now, search[<<1, now>>])

\* Mutant: content that is already at its minimum is chosen again.
ShrinkableAtMinimum(its) == {c \in DOMAIN its : its[c].kept # {}}

\* Items whose content can still shrink.
Shrinkable(its) == {c \in DOMAIN its : Cardinality(its[c].kept) > MinimumContent(c)}

\* Optional items go before required ones.
Expendable(S) == IF \E c \in S : NeededOf(c) = {} THEN {c \in S : NeededOf(c) = {}} ELSE S

ShrinkContent ==
    /\ CuttingContent /\ ~Fits(Linked)
    /\ \E c \in Shrinkable(Linked) :
           /\ Lowest(c, Expendable(Shrinkable(Linked)))
           /\ LET excess == PackSize(Linked, limit) - input.bytes
                  target == MostOf(MinimumContent(c), Cardinality(Linked[c].kept) - excess)
              IN  Cut(Relink([Linked EXCEPT ![c].kept = Fit(c, @, target, NeededOf(c), {})]))

\* Leaves c out and allocates content again to the others, for the needs they are
\* linked to now.
Omit(its, c) ==
    LET rest == DOMAIN its \ {c}
        content == Allocation(Windows(rest), [d \in rest |-> its[d].matched])
    IN  [d \in rest |-> [its[d] EXCEPT !.kept = content[d]]]

OmitItem ==
    /\ CuttingContent /\ ~Fits(Linked) /\ Shrinkable(Linked) = {}
    /\ \E c \in DOMAIN items : Lowest(c, Expendable(DOMAIN items)) /\ Cut(Omit(Linked, c))

CannotFit ==
    /\ CuttingContent /\ ~Fits(Linked) /\ DOMAIN items = {}
    /\ phase' = "failed"
    /\ UNCHANGED <<input, blocked, rounds, pass, open, sel, items, limit, turns>>

Empty == {c \in DOMAIN items : items[c].kept = {}}

OmitEmpty ==
    /\ phase = "compact" /\ Fits(items)
    /\ \E c \in Empty : Lowest(c, Empty) /\ Cut(Omit(items, c))

EndPass ==
    /\ phase = "compact" /\ Fits(items) /\ Empty = {}
    /\ items' = Relink(items)
    /\ IF pass = 1 THEN pass' = 2 /\ UNCHANGED phase
                   ELSE phase' = "review" /\ UNCHANGED pass
    /\ UNCHANGED <<input, blocked, rounds, open, sel, limit, turns>>

-----------------------------------------------------------------------------
(* The end of a round *)

Lost == {n \in Needs \ Matched(items) : \E c \in DOMAIN sel : n \in sel[c].covers}

\* The candidate a lost need was mainly selected from.
IsPrimary(c, n) ==
    /\ n \in sel[c].covers
    /\ \A d \in DOMAIN sel : n \in sel[d].covers => sel[c].prio <= sel[d].prio

\* Mutant: any loss is a reason to start over.
AnyLossRetries(c, n) == TRUE

HasAlternative(c, n) == \E d \in Cands \ {c} : n \in Coverage(d)

RetryPairs == {p \in (DOMAIN sel) \X Lost : IsPrimary(p[1], p[2]) /\ HasAlternative(p[1], p[2])}

LastRound == rounds = Cardinality(Cands) + 1

Retry ==
    /\ phase = "review" /\ RetryPairs # {}
    /\ blocked' = blocked \union RetryPairs
    /\ IF LastRound
       THEN phase' = "failed" /\ UNCHANGED <<rounds, open, sel, items, turns>>
       ELSE /\ phase' = "select" /\ rounds' = rounds + 1
            /\ open' = Needs
            /\ sel' = <<>> /\ items' = <<>> /\ turns' = 0
    /\ UNCHANGED <<input, pass, limit>>

Finalize ==
    /\ phase = "review" /\ RetryPairs = {}
    /\ phase' = IF Fits(items) THEN "done" ELSE "failed"
    /\ UNCHANGED <<input, blocked, rounds, pass, open, sel, items, limit, turns>>

Init ==
    /\ input \in PackInputs
    /\ blocked = {}
    /\ rounds = 1
    /\ phase = "select" /\ pass = 1
    /\ open = Needs
    /\ sel = <<>> /\ items = <<>>
    /\ limit = MaxItems /\ turns = 0

Finished == phase \in {"done", "failed"} /\ UNCHANGED packVars

Next ==
    \/ SelectForNeed \/ SelectFiller \/ Materialize
    \/ DropOmission \/ DropReason \/ NoLongerTooBig
    \/ ShrinkContent \/ OmitItem \/ CannotFit \/ OmitEmpty \/ EndPass
    \/ Retry \/ Finalize
    \/ Finished

Spec == Init /\ [][Next]_packVars

-----------------------------------------------------------------------------
(* Properties *)

\* A need some candidate shows always keeps a candidate it is not blocked at: the
\* retries of build_context_pack look for another provider and never give up the last.
NoNeedGivenUp ==
    \A n \in Needs : (\E c \in Cands : n \in FullMatches(c)) => \E c \in Cands : n \in Coverage(c)

\* A pack that is called ready shows every required need in the text it retains, whatever
\* was cut after the need was linked.
ReadyIsShown ==
    phase = "done" /\ Status = "ready" =>
        \A n \in Required : \E c \in DOMAIN items : n \in Shown(items, c)

ReasonsSelected == SumFunction([c \in DOMAIN sel |-> Len(Cand(c).reasons)])

\* The compaction loop ends: between two omissions every turn drops a preview, a reason or
\* some content, and the excerpts an omission restores are paid for by the item it leaves
\* out.
LoopEnds ==
    turns <= MaxItems + ReasonsSelected + (Cardinality(DOMAIN sel) + 2) * (MaxContent + 2)
=============================================================================
