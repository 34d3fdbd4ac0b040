-------------------------- MODULE ContextPackProofs --------------------------
(***************************************************************************)
(* Theorems of ContextPack, for any candidates, needs, budgets and limits. *)
(***************************************************************************)
EXTENDS ContextPack, InductionLemmas, SequenceTheorems

-----------------------------------------------------------------------------
(* Selection: priorities are unique *)

\* A priority ends with the number of its candidate.
PrioOf(c, prio) == \E q \in Int : prio = q * (Cardinality(Cands) + 1) + c

SelectionInv ==
    /\ input \in PackInputs
    /\ open \subseteq Needs
    /\ DOMAIN sel \subseteq Cands
    /\ \A c \in DOMAIN sel : PrioOf(c, sel[c].prio)

\* Candidates are the numbers up to how many there are.
LEMMA CandsNumbered ==
    ASSUME input \in PackInputs
    PROVE  /\ Len(input.cands) \in Nat /\ Cands = 1..Len(input.cands)
           /\ IsFiniteSet(Cands) /\ Cardinality(Cands) = Len(input.cands)
<1>1. input.cands \in Seq(Candidates)
    BY InputsAssumption
<1>2. Len(input.cands) \in Nat /\ Cands = 1..Len(input.cands)
    BY <1>1, LenProperties DEF Cands
<1> QED BY <1>2, FS_Interval

\* Division with remainder is unique.
LEMMA OneRemainder ==
    ASSUME NEW q \in Int, NEW p \in Int, NEW m \in Nat, NEW c \in 1..m, NEW d \in 1..m,
           q * (m + 1) + c = p * (m + 1) + d
    PROVE  c = d
<1>1. (q - p) * (m + 1) = d - c
    <2>1. (q - p) * (m + 1) = q * (m + 1) - p * (m + 1)
        OBVIOUS
    <2> DEFINE x == q * (m + 1)  y == p * (m + 1)
    <2>2. x \in Int /\ y \in Int
        OBVIOUS
    <2> HIDE DEF x, y
    <2>3. x + c = y + d
        BY DEF x, y
    <2>4. x - y = d - c
        BY <2>2, <2>3
    <2> QED BY <2>1, <2>4 DEF x, y
<1> DEFINE k == q - p
<1>2. k \in Int /\ k * (m + 1) = d - c
    BY <1>1
<1> HIDE DEF k
<1>3. CASE k >= 1
    <2>1. k * (m + 1) = (k - 1) * (m + 1) + (m + 1)
        BY <1>2
    <2>2. (k - 1) * (m + 1) \in Nat
        BY <1>2, <1>3
    <2> QED BY <1>2, <2>1, <2>2
<1>4. CASE k <= -1
    <2>1. k * (m + 1) = (k + 1) * (m + 1) - (m + 1)
        BY <1>2
    <2>2. (-1 - k) * (m + 1) \in Nat
        BY <1>2, <1>4
    <2>3. (k + 1) * (m + 1) = 0 - (-1 - k) * (m + 1)
        BY <1>2
    <2> QED BY <1>2, <2>1, <2>2, <2>3
<1>5. CASE k = 0
    BY <1>2, <1>5
<1> QED BY <1>2, <1>3, <1>4, <1>5

\* Two selected candidates never have the same priority.
LEMMA PrioUnique ==
    ASSUME SelectionInv, NEW c \in DOMAIN sel, NEW d \in DOMAIN sel, sel[c].prio = sel[d].prio
    PROVE  c = d
<1>1. PICK q \in Int : sel[c].prio = q * (Cardinality(Cands) + 1) + c
    BY DEF SelectionInv, PrioOf
<1>2. PICK p \in Int : sel[d].prio = p * (Cardinality(Cands) + 1) + d
    BY DEF SelectionInv, PrioOf
<1>3. /\ Cardinality(Cands) \in Nat /\ c \in 1..Cardinality(Cands) /\ d \in 1..Cardinality(Cands)
    BY CandsNumbered DEF SelectionInv
<1> QED BY <1>1, <1>2, <1>3, OneRemainder

\* A rank ends with the number of its candidate.
LEMMA RankedPrio ==
    ASSUME SelectionInv, NEW c \in Cands
    PROVE  PrioOf(c, Rank(c))
<1> DEFINE most == Cardinality(Needs)
           A == Coverage(c) \intersect open \intersect Required
           B == (Coverage(c) \intersect open) \ Required
<1>1. A \subseteq Needs /\ B \subseteq Needs
    BY DEF SelectionInv
<1> HIDE DEF A, B
<1>2. most \in Nat /\ Cardinality(A) \in Nat /\ Cardinality(B) \in Nat
    BY <1>1, NeedsAssumption, FS_Subset, FS_CardinalityType
<1>3. Rank(c) = ((most - Cardinality(A)) * (most + 1) + (most - Cardinality(B)))
                    * (Cardinality(Cands) + 1) + c
    BY DEF Rank, A, B
<1>4. (most - Cardinality(A)) * (most + 1) + (most - Cardinality(B)) \in Int
    BY <1>2
<1> QED BY <1>3, <1>4 DEF PrioOf

-----------------------------------------------------------------------------
(* The invariants *)

\* An item retains reasons and lines and has links; at the end of a round, and in the
\* pack, the links are those of the text that is left.
ItemsInv ==
    /\ \A c \in DOMAIN items :
          items[c] = [reasons |-> items[c].reasons, kept |-> items[c].kept, matched |-> items[c].matched]
    /\ phase \in {"review", "done"} => \A c \in DOMAIN items : items[c].matched = Shown(items, c)

PackInv == SelectionInv /\ NoNeedGivenUp /\ ItemsInv

\* A retry blocks candidates only at needs that another one still covers.
LEMMA RetryKeepsCoverage ==
    ASSUME SelectionInv, NEW n \in Needs, NEW c \in Cands, n \in Coverage(c)
    PROVE  \E d \in Cands : n \in FullMatches(d) /\ <<d, n>> \notin blocked \union RetryPairs
<1>1. CASE <<c, n>> \notin RetryPairs
    BY <1>1 DEF Coverage
<1>2. CASE <<c, n>> \in RetryPairs
    <2>1. IsPrimary(c, n) /\ HasAlternative(c, n) /\ c \in DOMAIN sel
        BY <1>2 DEF RetryPairs
    <2>2. PICK d \in Cands \ {c} : n \in Coverage(d)
        BY <2>1 DEF HasAlternative
    <2>3. <<d, n>> \notin RetryPairs
        <3>1. SUFFICES ASSUME <<d, n>> \in RetryPairs PROVE FALSE
            OBVIOUS
        <3>2. IsPrimary(d, n) /\ d \in DOMAIN sel
            BY <3>1 DEF RetryPairs
        <3>3. sel[c].prio <= sel[d].prio /\ sel[d].prio <= sel[c].prio
            BY <2>1, <3>2 DEF IsPrimary
        <3>4. sel[c].prio \in Int /\ sel[d].prio \in Int
            <4>1. Cardinality(Cands) \in Nat /\ c \in Int /\ d \in Int
                BY <2>1, <3>2, CandsNumbered DEF SelectionInv
            <4> QED BY <2>1, <3>2, <4>1 DEF SelectionInv, PrioOf
        <3>5. sel[c].prio = sel[d].prio
            BY <3>3, <3>4
        <3> QED BY <2>1, <2>2, <3>2, <3>5, PrioUnique
    <2> QED BY <2>2, <2>3 DEF Coverage
<1> QED BY <1>1, <1>2

\* So it leaves every need a candidate.
LEMMA RetryKeepsGiven ==
    ASSUME SelectionInv, NoNeedGivenUp, input' = input, blocked' = blocked \union RetryPairs
    PROVE  NoNeedGivenUp'
<1>1. Cands' = Cands
    BY DEF Cands
<1>2. \A c : FullMatches(c)' = FullMatches(c)
    BY DEF FullMatches, ShownBy, Cand
<1>3. \A c : Coverage(c)' = {n \in FullMatches(c) : <<c, n>> \notin blocked \union RetryPairs}
    BY <1>2 DEF Coverage
<1>4. ASSUME NEW n \in Needs, \E c \in Cands : n \in FullMatches(c)
      PROVE  \E d \in Cands : n \in FullMatches(d) /\ <<d, n>> \notin blocked \union RetryPairs
    <2>1. PICK c \in Cands : n \in Coverage(c)
        BY <1>4 DEF NoNeedGivenUp
    <2> QED BY <2>1, RetryKeepsCoverage
<1> QED BY <1>1, <1>2, <1>3, <1>4 DEF NoNeedGivenUp

\* A build begins with nothing selected and nothing blocked.
LEMMA PackInvInit == Init => PackInv
<1> SUFFICES ASSUME Init PROVE PackInv
    OBVIOUS
<1>1. DOMAIN sel = {} /\ DOMAIN items = {}
    BY DEF Init
<1>2. SelectionInv
    BY <1>1 DEF Init, SelectionInv
<1>3. NoNeedGivenUp
    BY DEF Init, NoNeedGivenUp, Coverage
<1>4. ItemsInv
    BY <1>1 DEF Init, ItemsInv
<1> QED BY <1>2, <1>3, <1>4 DEF PackInv

\* Steps that leave the selection alone.
LEMMA SelectionLeft ==
    ASSUME SelectionInv, UNCHANGED <<input, open, sel>>
    PROVE  SelectionInv'
<1>1. \A c, prio : PrioOf(c, prio)' <=> PrioOf(c, prio)
    BY DEF PrioOf, Cands
<1> QED BY <1>1 DEF SelectionInv, PrioOf, Cands

\* Steps that block nothing.
LEMMA GivenUpLeft ==
    ASSUME NoNeedGivenUp, UNCHANGED <<input, blocked>>
    PROVE  NoNeedGivenUp'
<1>1. \A c : FullMatches(c)' = FullMatches(c)
    BY DEF FullMatches, ShownBy, Cand
<1>2. \A c : Coverage(c)' = Coverage(c)
    BY <1>1 DEF Coverage
<1>3. Cands' = Cands
    BY DEF Cands
<1> QED BY <1>1, <1>2, <1>3 DEF NoNeedGivenUp

\* One candidate more.
LEMMA SelectKeeps ==
    ASSUME PackInv, phase = "select", NEW c \in Cands \ DOMAIN sel, NEW rest \in SUBSET open, Select(c, rest)
    PROVE  PackInv'
<1> DEFINE rec == [prio |-> Rank(c), covers |-> Coverage(c)]
<1>1. /\ sel' = [d \in DOMAIN sel \union {c} |-> IF d = c THEN rec ELSE sel[d]]
      /\ open' = rest
      /\ UNCHANGED <<input, blocked, phase, items>>
    BY DEF Select
<1>2. /\ DOMAIN sel' = DOMAIN sel \union {c}
      /\ \A d \in DOMAIN sel : sel'[d] = sel[d]
      /\ sel'[c].prio = Rank(c)
    <2>1. rec.prio = Rank(c)
        OBVIOUS
    <2> HIDE DEF rec
    <2> QED BY <1>1, <2>1
<1> HIDE DEF rec
<1>3. UNCHANGED Cands
    BY <1>1 DEF Cands
<1>4. ASSUME NEW d \in DOMAIN sel' PROVE PrioOf(d, sel'[d].prio)
    <2>1. CASE d \in DOMAIN sel
        BY <1>2, <2>1 DEF PackInv, SelectionInv
    <2>2. CASE d = c
        BY <1>2, <2>2, RankedPrio DEF PackInv
    <2> QED BY <1>2, <2>1, <2>2
<1>5. SelectionInv'
    <2>1. input' \in PackInputs /\ open' \subseteq Needs /\ DOMAIN sel' \subseteq Cands'
        BY <1>1, <1>2, <1>3 DEF PackInv, SelectionInv
    <2>2. \A d \in DOMAIN sel' : \E q \in Int : sel'[d].prio = q * (Cardinality(Cands') + 1) + d
        BY <1>3, <1>4 DEF PrioOf
    <2> QED BY <2>1, <2>2 DEF SelectionInv, PrioOf
<1>6. NoNeedGivenUp'
    BY <1>1, GivenUpLeft DEF PackInv
<1>7. ItemsInv'
    BY <1>1 DEF PackInv, ItemsInv
<1> QED BY <1>5, <1>6, <1>7 DEF PackInv

\* Items of the three parts.
Formed(its) ==
    \A c \in DOMAIN its :
        its[c] = [reasons |-> its[c].reasons, kept |-> its[c].kept, matched |-> its[c].matched]

\* Linking again changes links only: they become those of the text that is left.
LEMMA RelinkFormed ==
    ASSUME NEW its, Formed(its)
    PROVE  /\ DOMAIN Relink(its) = DOMAIN its /\ Formed(Relink(its))
           /\ \A c \in DOMAIN its : /\ Relink(its)[c].matched = Shown(its, c)
                                    /\ Shown(Relink(its), c) = Shown(its, c)
<1>1. DOMAIN Relink(its) = DOMAIN its
    BY DEF Relink
<1>2. ASSUME NEW c \in DOMAIN its
      PROVE  Relink(its)[c] = [reasons |-> its[c].reasons, kept |-> its[c].kept, matched |-> Shown(its, c)]
    <2>1. Relink(its)[c] = [its[c] EXCEPT !.matched = Shown(its, c)]
        BY DEF Relink
    <2> DEFINE r == its[c].reasons  k == its[c].kept  m == its[c].matched
    <2>2. its[c] = [reasons |-> r, kept |-> k, matched |-> m]
        BY DEF Formed
    <2> HIDE DEF r, k, m
    <2>3. [its[c] EXCEPT !.matched = Shown(its, c)] = [reasons |-> r, kept |-> k, matched |-> Shown(its, c)]
        BY <2>2
    <2> QED BY <2>1, <2>3 DEF r, k
<1>3. Formed(Relink(its))
    BY <1>1, <1>2 DEF Formed
<1>4. ASSUME NEW c \in DOMAIN its
      PROVE  /\ Relink(its)[c].kept = its[c].kept /\ Relink(its)[c].reasons = its[c].reasons
             /\ Relink(its)[c].matched = Shown(its, c)
    <2> DEFINE r == its[c].reasons  k == its[c].kept  m == Shown(its, c)
    <2>1. Relink(its)[c] = [reasons |-> r, kept |-> k, matched |-> m]
        BY <1>2
    <2> HIDE DEF r, k, m
    <2>2. Relink(its)[c].kept = k /\ Relink(its)[c].reasons = r /\ Relink(its)[c].matched = m
        BY <2>1
    <2> QED BY <2>2 DEF r, k, m
<1>5. \A c \in DOMAIN its : Shown(Relink(its), c) = Shown(its, c)
    BY <1>4 DEF Shown
<1> QED BY <1>1, <1>3, <1>4, <1>5

\* Leaving an item out changes content only.
LEMMA OmitFormed ==
    ASSUME NEW its, Formed(its), NEW c
    PROVE  Formed(Omit(its, c))
<1> DEFINE rest == DOMAIN its \ {c}
           content == Allocation(Windows(rest), [d \in rest |-> its[d].matched])
<1>1. Omit(its, c) = [d \in rest |-> [its[d] EXCEPT !.kept = content[d]]]
    BY DEF Omit
<1> HIDE DEF content
<1>2. ASSUME NEW d \in rest
      PROVE  [its[d] EXCEPT !.kept = content[d]]
                 = [reasons |-> its[d].reasons, kept |-> content[d], matched |-> its[d].matched]
    <2> DEFINE r == its[d].reasons  k == its[d].kept  m == its[d].matched
    <2>1. its[d] = [reasons |-> r, kept |-> k, matched |-> m]
        BY DEF Formed
    <2> HIDE DEF r, k, m
    <2>2. [its[d] EXCEPT !.kept = content[d]] = [reasons |-> r, kept |-> content[d], matched |-> m]
        BY <2>1
    <2> QED BY <2>2 DEF r, m
<1> QED BY <1>1, <1>2 DEF Formed

\* Steps of the compaction keep the selection, and their items have the three parts.
LEMMA CutKeeps ==
    ASSUME PackInv, UNCHANGED <<input, blocked, open, sel>>, Formed(items'),
           phase' \notin {"review", "done"}
    PROVE  PackInv'
<1>1. SelectionInv' /\ NoNeedGivenUp'
    BY SelectionLeft, GivenUpLeft DEF PackInv
<1>2. ItemsInv'
    BY DEF ItemsInv, Formed
<1> QED BY <1>1, <1>2 DEF PackInv

\* Each kind of cut keeps the invariants.
LEMMA CompactionKeeps ==
    ASSUME PackInv, DropOmission \/ DropReason \/ NoLongerTooBig \/ ShrinkContent \/ OmitItem \/ CannotFit \/ OmitEmpty
    PROVE  PackInv'
<1>1. Formed(items) /\ Formed(Linked) /\ DOMAIN Linked = DOMAIN items
    BY RelinkFormed DEF PackInv, ItemsInv, Formed, Linked
<1>2. CASE DropOmission
    BY <1>1, <1>2, CutKeeps DEF DropOmission, Cutting
<1>3. CASE DropReason
    <2>1. PICK c \in WithReasons : Cut(Relink([items EXCEPT ![c].reasons = @ - 1]))
        BY <1>3 DEF DropReason
    <2> DEFINE its == [items EXCEPT ![c].reasons = @ - 1]
    <2>2. Formed(its)
        <3>1. its = [items EXCEPT ![c] = [items[c] EXCEPT !.reasons = @ - 1]]
            OBVIOUS
        <3> DEFINE r == items[c].reasons  k == items[c].kept  m == items[c].matched
        <3>2. items[c] = [reasons |-> r, kept |-> k, matched |-> m]
            BY <1>1 DEF Formed, WithReasons
        <3> HIDE DEF r, k, m
        <3>3. [items[c] EXCEPT !.reasons = @ - 1] = [reasons |-> r - 1, kept |-> k, matched |-> m]
            BY <3>2
        <3> QED BY <1>1, <3>1, <3>3 DEF Formed
    <2> HIDE DEF its
    <2>3. Formed(Relink(its))
        BY <2>2, RelinkFormed
    <2>4. items' = Relink(its)
        BY <2>1 DEF Cut, its
    <2> QED BY <1>3, <2>1, <2>3, <2>4, CutKeeps DEF DropReason, Cutting, Cut
<1>4. CASE NoLongerTooBig
    BY <1>1, <1>4, CutKeeps DEF NoLongerTooBig, CuttingContent, Cutting, Cut
<1>5. CASE ShrinkContent
    <2>0. PICK c \in Shrinkable(Linked) :
              \E target : Cut(Relink([Linked EXCEPT ![c].kept = Fit(c, @, target, NeededOf(c), {})]))
        BY <1>5 DEF ShrinkContent
    <2>1. PICK target : Cut(Relink([Linked EXCEPT ![c].kept = Fit(c, @, target, NeededOf(c), {})]))
        BY <2>0
    <2> DEFINE new == Fit(c, Linked[c].kept, target, NeededOf(c), {})
               its == [Linked EXCEPT ![c] = [Linked[c] EXCEPT !.kept = new]]
    <2>2. [Linked EXCEPT ![c].kept = Fit(c, @, target, NeededOf(c), {})] = its
        OBVIOUS
    <2> HIDE DEF new
    <2>3. Formed(its)
        <3> DEFINE r == Linked[c].reasons  k == Linked[c].kept  m == Linked[c].matched
        <3>2. Linked[c] = [reasons |-> r, kept |-> k, matched |-> m]
            BY <1>1 DEF Formed, Shrinkable
        <3> HIDE DEF r, k, m
        <3>3. [Linked[c] EXCEPT !.kept = new] = [reasons |-> r, kept |-> new, matched |-> m]
            BY <3>2
        <3> QED BY <1>1, <3>3 DEF Formed
    <2> HIDE DEF its
    <2>4. Formed(Relink(its))
        BY <2>3, RelinkFormed
    <2>5. items' = Relink(its)
        BY <2>1, <2>2 DEF Cut
    <2> QED BY <1>5, <2>1, <2>4, <2>5, CutKeeps DEF ShrinkContent, CuttingContent, Cutting, Cut
<1>6. CASE OmitItem
    <2>1. PICK c \in DOMAIN items : Cut(Omit(Linked, c))
        BY <1>6 DEF OmitItem
    <2>2. Formed(Omit(Linked, c))
        BY <1>1, OmitFormed
    <2> QED BY <1>6, <2>1, <2>2, CutKeeps DEF OmitItem, CuttingContent, Cutting, Cut
<1>7. CASE CannotFit
    BY <1>1, <1>7, CutKeeps DEF CannotFit
<1>8. CASE OmitEmpty
    <2>1. PICK c \in Empty : Cut(Omit(items, c))
        BY <1>8 DEF OmitEmpty
    <2>2. Formed(Omit(items, c))
        BY <1>1, OmitFormed
    <2> QED BY <1>8, <2>1, <2>2, CutKeeps DEF OmitEmpty, Cut
<1> QED BY <1>2, <1>3, <1>4, <1>5, <1>6, <1>7, <1>8

\* The first items are linked like all others.
LEMMA MaterializeKeeps ==
    ASSUME PackInv, Materialize
    PROVE  PackInv'
<1>1. PICK content : items' = Relink([c \in DOMAIN sel |-> [reasons |-> Len(Cand(c).reasons),
                                                            kept    |-> content[c],
                                                            matched |-> sel[c].covers]])
    BY DEF Materialize
<1> DEFINE its == [c \in DOMAIN sel |-> [reasons |-> Len(Cand(c).reasons),
                                         kept    |-> content[c],
                                         matched |-> sel[c].covers]]
<1>2. Formed(its)
    BY DEF Formed
<1> HIDE DEF its
<1>3. Formed(Relink(its)) /\ items' = Relink(its)
    BY <1>1, <1>2, RelinkFormed DEF its
<1> QED BY <1>3, CutKeeps DEF Materialize

\* After a pass the links are made afresh.
LEMMA EndPassKeeps ==
    ASSUME PackInv, EndPass
    PROVE  PackInv'
<1>1. Formed(items)
    BY DEF PackInv, ItemsInv, Formed
<1>2. items' = Relink(items) /\ UNCHANGED <<input, blocked, open, sel>>
    BY DEF EndPass
<1>3. /\ DOMAIN items' = DOMAIN items /\ Formed(items')
      /\ \A c \in DOMAIN items : items'[c].matched = Shown(items', c)
    BY <1>1, <1>2, RelinkFormed
<1>4. (\A c \in DOMAIN items : items[c].matched = Shown(items, c))'
    <2>1. \A c : Shown(items, c)' = Shown(items', c)
        BY <1>2 DEF Shown, ShownBy, Cand
    <2> QED BY <1>3, <2>1
<1>5. ItemsInv'
    BY <1>3, <1>4 DEF ItemsInv, Formed
<1> QED BY <1>2, <1>5, SelectionLeft, GivenUpLeft DEF PackInv

\* A retry blocks the pairs that lost their text and begins another round.
LEMMA RetryKeeps ==
    ASSUME PackInv, Retry
    PROVE  PackInv'
<1>1. input' = input /\ blocked' = blocked \union RetryPairs
    BY DEF Retry
<1>2. CASE LastRound
    <2>1. SelectionInv'
        BY <1>1, <1>2, SelectionLeft DEF Retry, PackInv
    <2>2. ItemsInv'
        BY <1>2 DEF Retry, PackInv, ItemsInv
    <2> QED BY <2>1, <2>2, <1>1, RetryKeepsGiven DEF PackInv
<1>3. CASE ~LastRound
    <2>1. open' = Needs /\ DOMAIN sel' = {} /\ DOMAIN items' = {} /\ phase' = "select"
        BY <1>3 DEF Retry
    <2>2. SelectionInv'
        BY <1>1, <2>1 DEF PackInv, SelectionInv
    <2>3. ItemsInv'
        BY <2>1 DEF ItemsInv
    <2> QED BY <2>2, <2>3, <1>1, RetryKeepsGiven DEF PackInv
<1> QED BY <1>2, <1>3

\* What the review decides keeps selection and items.
LEMMA FinalizeKeeps ==
    ASSUME PackInv, Finalize
    PROVE  PackInv'
<1>1. phase = "review" /\ UNCHANGED <<input, blocked, open, sel, items>>
    BY DEF Finalize
<1>2. SelectionInv' /\ NoNeedGivenUp'
    BY <1>1, SelectionLeft, GivenUpLeft DEF PackInv
<1>3. (\A c \in DOMAIN items : items[c].matched = Shown(items, c))'
    <2>1. \A c \in DOMAIN items : items[c].matched = Shown(items, c)
        BY <1>1 DEF PackInv, ItemsInv
    <2>2. \A c : Shown(items, c)' = Shown(items, c)
        BY <1>1 DEF Shown, ShownBy, Cand
    <2> QED BY <1>1, <2>1, <2>2
<1>4. ItemsInv'
    BY <1>1, <1>3 DEF PackInv, ItemsInv
<1> QED BY <1>2, <1>4 DEF PackInv

\* Every step keeps the invariants.
LEMMA PackInvNext == PackInv /\ [Next]_packVars => PackInv'
<1> SUFFICES ASSUME PackInv, [Next]_packVars PROVE PackInv'
    OBVIOUS
<1>1. CASE SelectForNeed
    <2>1. PICK c \in Cands :
              LET S == IF Eligible(Required) # {} THEN Eligible(Required)
                                                  ELSE Eligible(Needs \ Required)
              IN  c \in S /\ Winner(c, S) /\ Select(c, open \ Coverage(c))
        BY <1>1 DEF SelectForNeed
    <2>2. c \in Cands \ DOMAIN sel /\ Select(c, open \ Coverage(c)) /\ phase = "select"
        BY <1>1, <2>1 DEF SelectForNeed, Eligible
    <2>3. open \ Coverage(c) \in SUBSET open
        OBVIOUS
    <2> QED BY <2>2, <2>3, SelectKeeps
<1>2. CASE SelectFiller
    <2>1. PICK c \in Cands \ DOMAIN sel : Select(c, open)
        BY <1>2 DEF SelectFiller
    <2> QED BY <1>2, <2>1, SelectKeeps DEF SelectFiller
<1>3. CASE Materialize
    BY <1>3, MaterializeKeeps
<1>4. CASE DropOmission \/ DropReason \/ NoLongerTooBig \/ ShrinkContent \/ OmitItem
               \/ CannotFit \/ OmitEmpty
    BY <1>4, CompactionKeeps
<1>5. CASE EndPass
    BY <1>5, EndPassKeeps
<1>6. CASE Retry
    BY <1>6, RetryKeeps
<1>7. CASE Finalize
    BY <1>7, FinalizeKeeps
<1>8. CASE UNCHANGED packVars
    <2>1. UNCHANGED <<input, blocked, phase, open, sel, items>>
        BY <1>8 DEF packVars
    <2>2. SelectionInv' /\ NoNeedGivenUp'
        BY <2>1, SelectionLeft, GivenUpLeft DEF PackInv
    <2>3. ItemsInv'
        <3>1. \A c : Shown(items, c)' = Shown(items, c)
            BY <2>1 DEF Shown, ShownBy, Cand
        <3> QED BY <2>1, <3>1 DEF PackInv, ItemsInv
    <2> QED BY <2>2, <2>3 DEF PackInv
<1> QED BY <1>1, <1>2, <1>3, <1>4, <1>5, <1>6, <1>7, <1>8 DEF Next, Finished

\* The invariants hold in every state of a build.
LEMMA PackInvariance == Spec => []PackInv
BY PackInvInit, PackInvNext, PTL DEF Spec

-----------------------------------------------------------------------------
(* What is shared out *)

\* Costs and limits are numbers.
LEMMA LimitsTyped ==
    /\ ItemCost \in Nat /\ ReasonCost \in Nat /\ LinkCost \in Nat /\ OmissionCost \in Nat /\ MissingCost \in Nat
    /\ MaxItems \in Nat /\ MaxItemContent \in Nat /\ MaxContent \in Nat /\ MinEvidence \in Nat
    /\ MaxContent + 2 \in Nat
BY LimitsAssumption

\* Askers served one after the other, each with what it asks for as far as there is
\* something left: together they get no more than there is.
LEMMA SharedOut ==
    ASSUME NEW U, IsFiniteSet(U), NEW R, StrictOrder(R, U), NEW M \in Nat,
           NEW a, \A u \in U : a[u] \in Nat,
           NEW d, \A u \in U : d[u] = MostOf(0, LeastOf(a[u], M - Over(a, {v \in U : <<v, u>> \in R})))
    PROVE  (\A u \in U : d[u] \in Nat) /\ Over(d, U) <= M
<1> DEFINE Closed(D) == \A u \in D : \A v \in U : <<v, u>> \in R => v \in D
           N == {n \in Nat : \A D \in SUBSET U : Closed(D) /\ Cardinality(D) = n =>
                                 Over(d, D) <= M /\ Over(d, D) <= Over(a, D)}
<1>1. ASSUME NEW u \in U PROVE d[u] \in Nat /\ d[u] <= a[u]
    <2> DEFINE D == {v \in U : <<v, u>> \in R}
    <2>1. IsFiniteSet(D) /\ \A v \in D : a[v] \in Int
        <3>1. D \in SUBSET U /\ \A v \in D : a[v] \in Int
            OBVIOUS
        <3> HIDE DEF D
        <3> QED BY <3>1, FS_Subset
    <2>2. Over(a, D) \in Int
        BY <2>1, OverTyped
    <2> HIDE DEF D
    <2>3. d[u] = MostOf(0, LeastOf(a[u], M - Over(a, D)))
        BY DEF D
    <2>4. a[u] \in Nat
        OBVIOUS
    <2> QED BY <2>2, <2>3, <2>4 DEF MostOf, LeastOf
<1>2. 0 \in N
    <2>1. ASSUME NEW D \in SUBSET U, Cardinality(D) = 0 PROVE Over(d, D) <= M /\ Over(d, D) <= Over(a, D)
        <3>1. IsFiniteSet(D)
            BY FS_Subset
        <3>2. D = {}
            BY <2>1, <3>1, FS_EmptySet
        <3> QED BY <3>2, OverEmpty
    <2> QED BY <2>1
<1>3. ASSUME NEW n \in Nat, n \in N PROVE n + 1 \in N
    <2>1. ASSUME NEW D \in SUBSET U, Closed(D), Cardinality(D) = n + 1
          PROVE  Over(d, D) <= M /\ Over(d, D) <= Over(a, D)
        <3>1. IsFiniteSet(D) /\ StrictOrder(R, D)
            BY FS_Subset DEF StrictOrder
        <3>2. PICK u \in D : Place(R, D, u) = n
            <4>1. n + 1 \in 1..Cardinality(D) /\ (n + 1) - 1 = n
                BY <2>1
            <4> QED BY <3>1, <4>1, EveryPlaceTaken
        <3> DEFINE E == D \ {u}
                   B == {v \in D : <<v, u>> \in R}
        <3>3. B \in SUBSET E /\ Cardinality(B) = n
            BY <3>2 DEF Place, StrictOrder
        <3>4. IsFiniteSet(E) /\ Cardinality(E) = n
            BY <2>1, <3>1, FS_Subset, OneLess
        <3>5. B = E
            <4> HIDE DEF B, E
            <4> QED BY <3>3, <3>4, FS_Subset
        <3>6. {v \in U : <<v, u>> \in R} = E
            BY <2>1, <3>5
        <3>7. Closed(E)
            <4>1. ASSUME NEW w \in E, NEW v \in U, <<v, w>> \in R PROVE v \in E
                <5>1. v \in D /\ <<w, u>> \in R
                    BY <2>1, <4>1, <3>5
                <5>2. v # u
                    BY <4>1, <5>1 DEF StrictOrder
                <5> QED BY <5>1, <5>2
            <4> QED BY <4>1
        <3>8. Over(d, E) <= M /\ Over(d, E) <= Over(a, E)
            BY <1>3, <3>4, <3>7
        <3>9. d[u] = MostOf(0, LeastOf(a[u], M - Over(a, E)))
            BY <3>6
        <3> HIDE DEF E
        <3>10. \A v \in D : d[v] \in Int /\ a[v] \in Int
            BY <1>1
        <3>11. Over(d, D) = d[u] + Over(d, E) /\ Over(a, D) = a[u] + Over(a, E)
            BY <3>1, <3>10, OverRemove DEF E
        <3>12. Over(d, E) \in Int /\ Over(a, E) \in Int
            <4>1. \A v \in E : d[v] \in Int /\ a[v] \in Int
                BY <3>10 DEF E
            <4> QED BY <3>4, <4>1, OverTyped
        <3>13. d[u] \in Nat /\ a[u] \in Nat /\ d[u] <= a[u]
            BY <1>1
        <3>14. d[u] + Over(d, E) <= M
            BY <3>8, <3>9, <3>12, <3>13 DEF MostOf, LeastOf
        <3> QED BY <3>8, <3>11, <3>12, <3>13, <3>14
    <2> QED BY <2>1
<1> HIDE DEF N
<1>4. Cardinality(U) \in Nat
    BY FS_CardinalityType
<1>5. Cardinality(U) \in N
    BY <1>2, <1>3, <1>4, NatInductive
<1> QED BY <1>1, <1>5 DEF N

\* A sum of three.
LEMMA ThreeTurns ==
    ASSUME NEW e, \A t \in 1..3 : e[t] \in Int
    PROVE  Over(e, 1..3) = e[1] + e[2] + e[3]
<1>1. IsFiniteSet(1..3) /\ IsFiniteSet(1..2) /\ IsFiniteSet(1..1)
    <2>1. \A n \in Int : IsFiniteSet(1..n)
        BY FS_Interval
    <2>2. 3 \in Int /\ 2 \in Int /\ 1 \in Int
        OBVIOUS
    <2> QED BY <2>1, <2>2, Zenon
<1>2. (1..3) \ {3} = 1..2 /\ (1..2) \ {2} = 1..1 /\ (1..1) \ {1} = {}
    OBVIOUS
<1>3. Over(e, 1..3) = e[3] + Over(e, 1..2)
    BY <1>1, <1>2, OverRemove
<1>4. Over(e, 1..2) = e[2] + Over(e, 1..1)
    BY <1>1, <1>2, OverRemove
<1>5. Over(e, 1..1) = e[1] + 0
    BY <1>1, <1>2, OverRemove, OverEmpty
<1>6. e[1] \in Int /\ e[2] \in Int /\ e[3] \in Int
    OBVIOUS
<1> QED BY <1>3, <1>4, <1>5, <1>6

\* What each candidate gets in its three turns is what the turns give.
LEMMA ByCandidate ==
    ASSUME NEW S, IsFiniteSet(S), NEW d, \A u \in (1..3) \X S : d[u] \in Int,
           NEW e, \A c \in S : e[c] = d[<<1, c>>] + d[<<2, c>>] + d[<<3, c>>]
    PROVE  IsFiniteSet((1..3) \X S) /\ Over(e, S) = Over(d, (1..3) \X S)
<1> DEFINE T == {s \in SUBSET S : Over(e, s) = Over(d, (1..3) \X s)}
<1>1. IsFiniteSet(1..3)
    <2>1. \A n \in Int : IsFiniteSet(1..n)
        BY FS_Interval
    <2>2. 3 \in Int
        OBVIOUS
    <2> QED BY <2>1, <2>2, Zenon
<1>2. {} \in T
    <2>1. (1..3) \X {} = {}
        OBVIOUS
    <2> QED BY <2>1, OverEmpty
<1>3. ASSUME NEW s \in SUBSET S, s \in T, NEW c \in S \ s PROVE s \union {c} \in T
    <2> DEFINE r == s \union {c}
               A == (1..3) \X s
               A1 == A \union {<<1, c>>}
               A2 == A1 \union {<<2, c>>}
               A3 == A2 \union {<<3, c>>}
    <2>1. r \in SUBSET S /\ c \in r /\ r \ {c} = s
        BY <1>3
    <2>2. A3 = (1..3) \X r
        OBVIOUS
    <2>3. /\ A1 \ {<<1, c>>} = A /\ A2 \ {<<2, c>>} = A1 /\ A3 \ {<<3, c>>} = A2
          /\ <<1, c>> \in A1 /\ <<2, c>> \in A2 /\ <<3, c>> \in A3
        BY <1>3
    <2>4. IsFiniteSet(A3) /\ IsFiniteSet(A2) /\ IsFiniteSet(A1) /\ IsFiniteSet(A)
        <3>1. IsFiniteSet(r)
            BY <2>1, FS_Subset
        <3>2. IsFiniteSet((1..3) \X r)
            BY <1>1, <3>1, FS_Product
        <3> QED BY <2>2, <3>2, FS_Subset
    <2>5. \A u \in A3 : d[u] \in Int
        BY <2>1, <2>2
    <2>6. \A u \in A2 : d[u] \in Int
        BY <2>5
    <2>7. \A u \in A1 : d[u] \in Int
        BY <2>5
    <2>8. \A u \in A : d[u] \in Int
        BY <2>5
    <2> HIDE DEF A, A1, A2, A3, r
    <2>9. Over(d, A3) = d[<<3, c>>] + Over(d, A2)
        <3> DEFINE u == <<3, c>>
        <3>1. IsFiniteSet(A3) /\ u \in A3 /\ A3 \ {u} = A2
            BY <2>3, <2>4
        <3> HIDE DEF u
        <3>2. Over(d, A3) = d[u] + Over(d, A3 \ {u})
            BY <3>1, <2>5, OverRemove
        <3> QED BY <3>1, <3>2 DEF u
    <2>10. Over(d, A2) = d[<<2, c>>] + Over(d, A1)
        <3> DEFINE u == <<2, c>>
        <3>1. IsFiniteSet(A2) /\ u \in A2 /\ A2 \ {u} = A1
            BY <2>3, <2>4
        <3> HIDE DEF u
        <3>2. Over(d, A2) = d[u] + Over(d, A2 \ {u})
            BY <3>1, <2>6, OverRemove
        <3> QED BY <3>1, <3>2 DEF u
    <2>11. Over(d, A1) = d[<<1, c>>] + Over(d, A)
        <3> DEFINE u == <<1, c>>
        <3>1. IsFiniteSet(A1) /\ u \in A1 /\ A1 \ {u} = A
            BY <2>3, <2>4
        <3> HIDE DEF u
        <3>2. Over(d, A1) = d[u] + Over(d, A1 \ {u})
            BY <3>1, <2>7, OverRemove
        <3> QED BY <3>1, <3>2 DEF u
    <2>12. Over(d, A) \in Int
        BY <2>4, <2>8, OverTyped
    <2>13. d[<<1, c>>] \in Int /\ d[<<2, c>>] \in Int /\ d[<<3, c>>] \in Int
        BY <2>3, <2>5, <2>6, <2>7
    <2>14. Over(e, r) = e[c] + Over(e, s)
        <3>1. IsFiniteSet(r)
            BY <2>1, FS_Subset
        <3>2. \A x \in r : e[x] \in Int
            <4> TAKE x \in r
            <4>1. x \in S /\ <<1, x>> \in (1..3) \X S /\ <<2, x>> \in (1..3) \X S /\ <<3, x>> \in (1..3) \X S
                BY <2>1
            <4> QED BY <4>1
        <3> QED BY <2>1, <3>1, <3>2, OverRemove
    <2>15. Over(e, s) = Over(d, A) /\ e[c] = d[<<1, c>>] + d[<<2, c>>] + d[<<3, c>>]
        BY <1>3 DEF A
    <2>16. Over(e, r) = Over(d, A3)
        BY <2>9, <2>10, <2>11, <2>12, <2>13, <2>14, <2>15
    <2> QED BY <2>1, <2>2, <2>16 DEF r
<1> HIDE DEF T
<1>4. S \in T
    BY <1>2, <1>3, SubsetsInductive
<1> QED BY <1>1, <1>4, FS_Product DEF T

-----------------------------------------------------------------------------
(* How much a fitting takes *)

\* As many as there are places.
LEMMA FirstPlaces ==
    ASSUME NEW S, IsFiniteSet(S), NEW R, StrictOrder(R, S), NEW n \in Nat,
           NEW F, F = {x \in S : Place(R, S, x) < n}
    PROVE  F \in SUBSET S /\ IsFiniteSet(F) /\ Cardinality(F) <= n
<1> DEFINE f == [x \in F |-> Place(R, S, x) + 1]
<1>1. F \in SUBSET S
    OBVIOUS
<1>2. \A x \in F : Place(R, S, x) \in Nat /\ Place(R, S, x) + 1 \in 1..n
    BY PlaceBelow
<1>3. ASSUME NEW x \in F, NEW y \in F, f[x] = f[y] PROVE x = y
    <2>1. Place(R, S, x) = Place(R, S, y)
        BY <1>2, <1>3
    <2> QED BY <1>1, <2>1, PlacesDiffer
<1>4. f \in Injection(F, 1..n)
    BY <1>2, <1>3 DEF Injection, IsInjective
<1>5. IsFiniteSet(1..n) /\ Cardinality(1..n) = n
    BY FS_Interval
<1> HIDE DEF f
<1>6. Cardinality(F) <= Cardinality(1..n)
    BY <1>4, <1>5, FS_Injection
<1> QED BY <1>1, <1>5, <1>6, FS_Subset

\* FirstOf takes no more than n.
LEMMA FirstOfBounded ==
    ASSUME NEW c, NEW S, IsFiniteSet(S), S \subseteq Nat, NEW n \in Nat, NEW req, NEW rec
    PROVE  /\ FirstOf(c, S, n, req, rec) \in SUBSET S
           /\ IsFiniteSet(FirstOf(c, S, n, req, rec))
           /\ Cardinality(FirstOf(c, S, n, req, rec)) <= n
<1> DEFINE R == {x \in S \X S : FillsBefore(c, req, rec, x[1], x[2])}
           key(l) == 2 * (IF Cand(c).lines[l] \intersect req = {} THEN 1 ELSE 0)
                       + (IF Cand(c).lines[l] \intersect rec = {} THEN 1 ELSE 0)
<1>1. \A l : key(l) \in Nat
    OBVIOUS
<1>2. \A j, k : FillsBefore(c, req, rec, j, k) <=> key(j) < key(k) \/ (key(j) = key(k) /\ j < k)
    BY DEF FillsBefore
<1> HIDE DEF key
<1>3. \A x, y \in S : <<x, y>> \in R <=> key(x) < key(y) \/ (key(x) = key(y) /\ x < y)
    BY <1>2
<1>4. \A x, y \in S : <<x, y>> \in R <=> FillsBefore(c, req, rec, x, y)
    OBVIOUS
<1> HIDE DEF R
<1>5. StrictOrder(R, S)
    BY <1>1, <1>3 DEF StrictOrder
<1>6. FirstOf(c, S, n, req, rec) = {x \in S : Place(R, S, x) < n}
    <2>1. \A k \in S : {j \in S : FillsBefore(c, req, rec, j, k)} = {y \in S : <<y, k>> \in R}
        BY <1>4
    <2> QED BY <2>1 DEF FirstOf, Place
<1> QED BY <1>5, <1>6, FirstPlaces

\* Of two sets of numbers at most one comes first.
LEMMA OneEarlier ==
    ASSUME NEW A \in SUBSET Nat, NEW B \in SUBSET Nat, Earlier(A, B)
    PROVE  ~Earlier(B, A)
BY DEF Earlier

\* A fitting keeps lines of the pool, no more than there is room for.
LEMMA FitBounded ==
    ASSUME NEW c, NEW pool, IsFiniteSet(pool), pool \subseteq Nat, NEW room \in Int,
           NEW req \in SUBSET Needs, NEW rec
    PROVE  /\ Fit(c, pool, room, req, rec) \in SUBSET pool
           /\ room <= 0 => Fit(c, pool, room, req, rec) = {}
           /\ room > 0 => Cardinality(Fit(c, pool, room, req, rec)) <= room
<1> DEFINE plans == {R \in SUBSET pool : Cardinality(R) <= room}
           shows(R) == req \intersect UNION {Cand(c).lines[k] : k \in R}
           better(R, Q) ==
              \/ Cardinality(shows(R)) > Cardinality(shows(Q))
              \/ /\ Cardinality(shows(R)) = Cardinality(shows(Q))
                 /\ \/ Earlier(shows(R), shows(Q))
                    \/ /\ shows(R) = shows(Q)
                       /\ \/ Cardinality(R) < Cardinality(Q)
                          \/ Cardinality(R) = Cardinality(Q) /\ Earlier(R, Q)
           best == {R \in plans : \A Q \in plans \ {R} : better(R, Q)}
           whole(R) == R \union FirstOf(c, pool \ R, room - Cardinality(R), req, rec)
<1>1. Fit(c, pool, room, req, rec) = IF room <= 0 THEN {} ELSE UNION {whole(R) : R \in best}
    BY DEF Fit
<1> HIDE DEF whole
<1>2. ASSUME NEW R \in plans, NEW Q \in plans, better(R, Q), better(Q, R) PROVE R = Q
    <2> DEFINE A == shows(R)  B == shows(Q)
    <2>1. A \in SUBSET Needs /\ B \in SUBSET Needs /\ R \in SUBSET pool /\ Q \in SUBSET pool
        OBVIOUS
    <2> HIDE DEF shows
    <2>2. /\ Cardinality(A) \in Nat /\ Cardinality(B) \in Nat
          /\ Cardinality(R) \in Nat /\ Cardinality(Q) \in Nat
        BY <2>1, NeedsAssumption, FS_Subset, FS_CardinalityType
    <2>3. A \in SUBSET Nat /\ B \in SUBSET Nat /\ R \in SUBSET Nat /\ Q \in SUBSET Nat
        BY <2>1, NeedsAssumption
    <2>4. Cardinality(A) = Cardinality(B)
        BY <1>2, <2>2
    <2>5. ~(Earlier(A, B) /\ Earlier(B, A)) /\ ~Earlier(A, A) /\ ~(Earlier(R, Q) /\ Earlier(Q, R))
        BY <2>3, OneEarlier
    <2>6. A = B
        BY <1>2, <2>2, <2>4, <2>5
    <2>7. FALSE
        BY <1>2, <2>2, <2>4, <2>5, <2>6
    <2> QED BY <2>7
<1> HIDE DEF better
<1>3. ASSUME NEW R \in best, NEW Q \in best PROVE R = Q
    BY <1>2
<1>4. ASSUME NEW R \in best, room > 0
      PROVE  /\ whole(R) \in SUBSET pool /\ IsFiniteSet(whole(R))
             /\ Cardinality(whole(R)) <= room
    <2> DEFINE rest == pool \ R
               more == room - Cardinality(R)
               F == FirstOf(c, rest, more, req, rec)
    <2>1. R \in SUBSET pool /\ Cardinality(R) <= room /\ IsFiniteSet(R) /\ IsFiniteSet(rest) /\ rest \subseteq Nat
        BY FS_Subset
    <2>2. Cardinality(R) \in Nat /\ more \in Nat
        BY <2>1, FS_CardinalityType
    <2> HIDE DEF rest, more
    <2>3. F \in SUBSET rest /\ IsFiniteSet(F) /\ Cardinality(F) <= more
        BY <2>1, <2>2, FirstOfBounded
    <2> HIDE DEF F
    <2>4. whole(R) = R \union F
        BY DEF whole, F, rest, more
    <2>5. /\ IsFiniteSet(R \union F)
          /\ Cardinality(R \union F) = Cardinality(R) + Cardinality(F) - Cardinality(R \cap F)
        BY <2>1, <2>3, FS_Union
    <2>6. Cardinality(F) \in Nat /\ Cardinality(R \cap F) \in Nat
        BY <2>1, <2>3, FS_Subset, FS_CardinalityType
    <2>7. more = room - Cardinality(R)
        BY DEF more
    <2>8. Cardinality(R \union F) <= room
        BY <2>2, <2>3, <2>5, <2>6, <2>7
    <2> QED BY <2>1, <2>3, <2>4, <2>5, <2>8 DEF rest
<1> HIDE DEF best
<1>5. CASE room <= 0
    BY <1>1, <1>5
<1>6. CASE room > 0 /\ best = {}
    <2>1. Fit(c, pool, room, req, rec) = {}
        BY <1>1, <1>6
    <2> QED BY <1>6, <2>1, FS_EmptySet
<1>7. CASE room > 0 /\ best # {}
    <2>1. PICK R \in best : TRUE
        BY <1>7
    <2>2. best = {R}
        BY <1>3, <2>1
    <2>3. Fit(c, pool, room, req, rec) = whole(R)
        BY <1>1, <1>7, <2>2
    <2> QED BY <1>4, <1>7, <2>1, <2>3
<1> QED BY <1>5, <1>6, <1>7

-----------------------------------------------------------------------------
(* The content that is shared out *)

\* An allocation keeps preferred lines, and never more than MaxContent of all items.
LEMMA AllocationBounded ==
    ASSUME input \in PackInputs,
           NEW windows, IsFiniteSet(DOMAIN windows), DOMAIN windows \subseteq Nat,
           \A c \in DOMAIN windows : IsFiniteSet(windows[c]) /\ windows[c] \subseteq Nat,
           NEW links
    PROVE  LET content == Allocation(windows, links)
           IN  /\ DOMAIN content = DOMAIN windows
               /\ \A c \in DOMAIN windows : content[c] \in SUBSET windows[c]
               /\ Over([c \in DOMAIN windows |-> Cardinality(content[c])], DOMAIN windows) <= MaxContent
<1> DEFINE all == DOMAIN windows
           desired(c) == LeastOf(MaxItemContent, Cardinality(windows[c]))
           least(c) == LeastOf(MinEvidence, desired(c))
           first(c) == links[c] \intersect Required # {}
           second(c) == ~first(c) /\ links[c] # {}
           asked(turn, c) ==
               CASE turn = 1 -> IF first(c) THEN least(c) ELSE 0
                 [] turn = 2 -> IF second(c) THEN least(c) ELSE 0
                 [] turn = 3 -> desired(c) - (IF first(c) \/ second(c) THEN least(c) ELSE 0)
           left(u) == MaxContent - SumFunction([t \in {v \in (1..3) \X all : TurnBefore(v, u)} |->
                                                   asked(t[1], t[2])])
           given(c) == SumFunction([turn \in 1..3 |->
                           MostOf(0, LeastOf(asked(turn, c), left(<<turn, c>>)))])
           content == Allocation(windows, links)
           U == (1..3) \X all
           a == [u \in U |-> asked(u[1], u[2])]
           R == {x \in U \X U : TurnBefore(x[1], x[2])}
           d == [u \in U |-> MostOf(0, LeastOf(asked(u[1], u[2]), left(u)))]
           g == [c \in all |-> given(c)]
           size == [c \in all |-> Cardinality(content[c])]
<1>1. content = [c \in all |-> Fit(c, windows[c], given(c), links[c] \intersect Required, links[c] \ Required)]
    BY DEF Allocation
<1>2. ASSUME NEW c \in all PROVE desired(c) \in Nat /\ least(c) \in Nat /\ least(c) <= desired(c)
    <2>1. Cardinality(windows[c]) \in Nat /\ MaxItemContent \in Nat /\ MinEvidence \in Nat
        BY LimitsTyped, FS_CardinalityType
    <2> QED BY <2>1 DEF LeastOf
<1> HIDE DEF desired, least, first, second
<1>3. ASSUME NEW c \in all PROVE asked(1, c) \in Nat /\ asked(2, c) \in Nat /\ asked(3, c) \in Nat
    <2>1. asked(1, c) = IF first(c) THEN least(c) ELSE 0
        OBVIOUS
    <2>2. asked(2, c) = IF second(c) THEN least(c) ELSE 0
        OBVIOUS
    <2>3. asked(3, c) = desired(c) - (IF first(c) \/ second(c) THEN least(c) ELSE 0)
        OBVIOUS
    <2> HIDE DEF asked
    <2> QED BY <1>2, <2>1, <2>2, <2>3
<1> HIDE DEF asked
<1>4. \A u \in U : a[u] \in Nat
    <2> TAKE u \in U
    <2>1. a[u] = asked(u[1], u[2]) /\ u[1] \in 1..3 /\ u[2] \in all
        OBVIOUS
    <2> QED BY <1>3, <2>1
<1>5. IsFiniteSet(U)
    <2>1. IsFiniteSet(all)
        OBVIOUS
    <2>2. IsFiniteSet(1..3)
        <3>1. \A n \in Int : IsFiniteSet(1..n)
            BY FS_Interval
        <3>2. 3 \in Int
            OBVIOUS
        <3> QED BY <3>1, <3>2, Zenon
    <2> QED BY <2>1, <2>2, FS_Product
<1>6. StrictOrder(R, U)
    <2>1. \A x, y \in U : <<x, y>> \in R <=> x[1] < y[1] \/ (x[1] = y[1] /\ x[2] < y[2])
        BY DEF TurnBefore
    <2>2. \A x \in U : x[1] \in Int /\ x[2] \in Int /\ x = <<x[1], x[2]>>
        OBVIOUS
    <2> HIDE DEF R, U
    <2> QED BY <2>1, <2>2 DEF StrictOrder
<1>7. ASSUME NEW u \in U PROVE d[u] = MostOf(0, LeastOf(a[u], MaxContent - Over(a, {v \in U : <<v, u>> \in R})))
    <2>1. {v \in U : <<v, u>> \in R} = {v \in (1..3) \X all : TurnBefore(v, u)}
        OBVIOUS
    <2> DEFINE B == {v \in (1..3) \X all : TurnBefore(v, u)}
    <2>2. [t \in B |-> a[t]] = [t \in B |-> asked(t[1], t[2])]
        OBVIOUS
    <2>3. left(u) = MaxContent - Over(a, B)
        BY <2>2 DEF Over
    <2>4. d[u] = MostOf(0, LeastOf(a[u], left(u)))
        OBVIOUS
    <2> HIDE DEF left, B, a, d, R
    <2> QED BY <2>1, <2>3, <2>4 DEF B
<1>8. d = [u \in U |-> d[u]] /\ a = [u \in U |-> a[u]]
    OBVIOUS
<1>9. ASSUME NEW c \in all
      PROVE  given(c) = SumFunction([turn \in 1..3 |-> d[<<turn, c>>]])
    <2>1. \A turn \in 1..3 : d[<<turn, c>>] = MostOf(0, LeastOf(asked(turn, c), left(<<turn, c>>)))
        OBVIOUS
    <2> HIDE DEF d, left
    <2>2. [turn \in 1..3 |-> d[<<turn, c>>]]
              = [turn \in 1..3 |-> MostOf(0, LeastOf(asked(turn, c), left(<<turn, c>>)))]
        BY <2>1
    <2> QED BY <2>2
<1> HIDE DEF d, a, R, left, given
<1>10. MaxContent \in Nat
    BY LimitsTyped
<1>11. (\A u \in U : d[u] \in Nat) /\ Over(d, U) <= MaxContent
    <2> HIDE DEF U
    <2> QED BY <1>4, <1>5, <1>6, <1>7, <1>10, SharedOut
<1>12. ASSUME NEW c \in all
       PROVE  given(c) \in Nat /\ g[c] = d[<<1, c>>] + d[<<2, c>>] + d[<<3, c>>]
    <2> DEFINE e == [turn \in 1..3 |-> d[<<turn, c>>]]
    <2>1. \A turn \in 1..3 : e[turn] = d[<<turn, c>>] /\ e[turn] \in Nat
        BY <1>11
    <2>2. given(c) = SumFunction([turn \in 1..3 |-> e[turn]])
        BY <1>9
    <2> HIDE DEF e
    <2>3. given(c) = e[1] + e[2] + e[3]
        BY <2>1, <2>2, ThreeTurns DEF Over
    <2>4. e[1] = d[<<1, c>>] /\ e[2] = d[<<2, c>>] /\ e[3] = d[<<3, c>>] /\ e[1] \in Nat /\ e[2] \in Nat /\ e[3] \in Nat
        BY <2>1
    <2>5. g[c] = given(c)
        OBVIOUS
    <2> QED BY <2>3, <2>4, <2>5
<1>13. Over(g, all) <= MaxContent
    <2>1. \A u \in U : d[u] \in Int
        BY <1>11
    <2> HIDE DEF g
    <2>2. ASSUME NEW c \in all PROVE g[c] = d[<<1, c>>] + d[<<2, c>>] + d[<<3, c>>]
        BY <1>12
    <2>3. Over(g, all) = Over(d, (1..3) \X all)
        BY <2>1, <2>2, ByCandidate
    <2> QED BY <1>11, <2>3
<1>14. ASSUME NEW c \in all
       PROVE  content[c] \in SUBSET windows[c] /\ size[c] \in Nat /\ size[c] <= g[c] /\ g[c] \in Nat
    <2> DEFINE req == links[c] \intersect Required
               rec == links[c] \ Required
    <2>1. content[c] = Fit(c, windows[c], given(c), req, rec)
        BY <1>1
    <2>2. req \in SUBSET Needs
        BY InputsAssumption DEF Required
    <2>9. g[c] = given(c)
        OBVIOUS
    <2> HIDE DEF req, rec, content, g, size
    <2>10. given(c) \in Nat
        BY <1>12
    <2>3. given(c) \in Int /\ given(c) \in Nat /\ g[c] = given(c)
        BY <2>9, <2>10
    <2>4. /\ content[c] \in SUBSET windows[c]
          /\ given(c) <= 0 => content[c] = {}
          /\ given(c) > 0 => Cardinality(content[c]) <= given(c)
        BY <2>1, <2>2, <2>3, FitBounded
    <2>5. IsFiniteSet(content[c]) /\ Cardinality(content[c]) \in Nat
        BY <2>4, FS_Subset, FS_CardinalityType
    <2>6. content[c] = {} => Cardinality(content[c]) = 0
        BY FS_EmptySet
    <2>7. size[c] = Cardinality(content[c])
        BY DEF size
    <2>8. size[c] <= given(c)
        BY <2>3, <2>4, <2>5, <2>6, <2>7
    <2> QED BY <2>3, <2>4, <2>5, <2>7, <2>8
<1>15. Over(size, all) <= MaxContent
    <2>1. \A c \in all : size[c] \in Int /\ g[c] \in Int /\ size[c] <= g[c]
        BY <1>14
    <2> HIDE DEF size, g
    <2>2. Over(size, all) <= Over(g, all)
        BY <2>1, OverGrows
    <2>3. Over(size, all) \in Int /\ Over(g, all) \in Int
        BY <2>1, OverTyped
    <2> QED BY <1>10, <1>13, <2>2, <2>3
<1>16. DOMAIN content = all
    BY <1>1
<1> QED BY <1>14, <1>15, <1>16

-----------------------------------------------------------------------------
(* The binary search for the least content *)

\* The middle is within.
LEMMA Halves ==
    ASSUME NEW low \in Int, NEW high \in Int, low <= high
    PROVE  (low + high) \div 2 \in Int /\ low <= (low + high) \div 2 /\ (low + high) \div 2 <= high
OBVIOUS

\* The binary search ends, with a number.
LEMMA MinimumTyped ==
    ASSUME NEW c, Cardinality(items[c].kept) \in Nat
    PROVE  MinimumContent(c) \in Nat
<1> DEFINE it == Linked[c]
           now == Cardinality(items[c].kept)
           enough(n) ==
               LET kept == Fit(c, it.kept, n, NeededOf(c), {})
               IN  kept # {} /\ NeededOf(c) \subseteq ShownBy(c, it.reasons, kept)
           D == (1..now + 1) \X (0..now)
           next(p) == LET n == (p[1] + p[2]) \div 2
                      IN  IF enough(n) THEN <<p[1], n - 1>> ELSE <<n + 1, p[2]>>
           Searches(f) == f = [p \in D |-> IF p[1] > p[2] THEN p[2] + 1 ELSE f[next(p)]]
           search == CHOOSE f : Searches(f)
<1>1. MinimumContent(c) = IF NeededOf(c) = {} THEN 0 ELSE LeastOf(now, search[<<1, now>>])
    BY DEF MinimumContent
<1> DEFINE mid(p) == (p[1] + p[2]) \div 2
           E == {n \in Int : enough(n)}
<1>2. \A p : next(p) = IF enough(mid(p)) THEN <<p[1], mid(p) - 1>> ELSE <<mid(p) + 1, p[2]>>
    OBVIOUS
<1> HIDE DEF enough, next
<1> DEFINE span(p) == p[2] + 1 - p[1]
<1>3. now \in Nat
    OBVIOUS
<1> HIDE DEF now
<1>4. ASSUME NEW p \in D, ~(p[1] > p[2])
      PROVE  next(p) \in D /\ span(next(p)) < span(p) /\ span(next(p)) \in Int
    <2>1. p[1] \in 1..(now + 1) /\ p[2] \in 0..now
        OBVIOUS
    <2>2. mid(p) \in Int /\ p[1] <= mid(p) /\ mid(p) <= p[2]
        BY <1>3, <1>4, <2>1, Halves
    <2> HIDE DEF mid
    <2>3. <<p[1], mid(p) - 1>> \in D /\ <<mid(p) + 1, p[2]>> \in D
        BY <1>3, <2>1, <2>2
    <2>4. (mid(p) - 1) + 1 - p[1] < p[2] + 1 - p[1] /\ p[2] + 1 - (mid(p) + 1) < p[2] + 1 - p[1]
        BY <1>3, <2>1, <2>2
    <2>5. next(p) = <<p[1], mid(p) - 1>> \/ next(p) = <<mid(p) + 1, p[2]>>
        BY <1>2
    <2> QED BY <1>3, <2>1, <2>2, <2>3, <2>4, <2>5
<1>5. \A p \in D : span(p) \in Int /\ (span(p) <= 0 <=> p[1] > p[2]) /\ p[2] + 1 \in Nat /\ span(p) <= now + 1
    <2> TAKE p \in D
    <2>1. p[1] \in 1..(now + 1) /\ p[2] \in 0..now
        OBVIOUS
    <2> QED BY <1>3, <2>1
<1> DEFINE eq(f, p) == f[p] = IF p[1] > p[2] THEN p[2] + 1 ELSE f[next(p)]
           N == {n \in Nat : \E f \in [D -> Nat] : \A p \in D : span(p) <= n => eq(f, p)}
<1> HIDE DEF mid, span, D
<1>6. 0 \in N
    <2> DEFINE f == [p \in D |-> p[2] + 1]
    <2>1. f \in [D -> Nat]
        BY <1>5
    <2>2. \A p \in D : span(p) <= 0 => eq(f, p)
        BY <1>5
    <2> HIDE DEF f, eq
    <2> QED BY <2>1, <2>2
<1>7. ASSUME NEW n \in Nat, n \in N PROVE n + 1 \in N
    <2>1. PICK f \in [D -> Nat] : \A p \in D : span(p) <= n => eq(f, p)
        BY <1>7
    <2> DEFINE h == [p \in D |-> IF p[1] > p[2] THEN p[2] + 1 ELSE f[next(p)]]
    <2>2. h \in [D -> Nat]
        BY <1>4, <1>5
    <2>3. ASSUME NEW p \in D, span(p) <= n PROVE h[p] = f[p]
        BY <2>1, <2>3
    <2>4. ASSUME NEW p \in D, span(p) <= n + 1 PROVE eq(h, p)
        <3>1. CASE p[1] > p[2]
            BY <3>1
        <3>2. CASE ~(p[1] > p[2])
            <4>1. next(p) \in D /\ span(next(p)) <= n
                <5>1. next(p) \in D /\ span(next(p)) < span(p) /\ span(next(p)) \in Int /\ span(p) \in Int
                    BY <1>4, <1>5, <3>2
                <5> QED BY <2>4, <5>1
            <4>2. h[next(p)] = f[next(p)]
                BY <2>3, <4>1
            <4>3. h[p] = f[next(p)]
                BY <3>2
            <4> QED BY <3>2, <4>2, <4>3
        <3> QED BY <3>1, <3>2
    <2> HIDE DEF h, eq
    <2> QED BY <2>2, <2>4
<1>8. now + 1 \in N
    <2> HIDE DEF N
    <2> QED BY <1>3, <1>6, <1>7, NatInductive
<1>9. PICK f \in [D -> Nat] : \A p \in D : span(p) <= now + 1 => eq(f, p)
    BY <1>8
<1>10. Searches(f)
    <2>1. \A p \in D : eq(f, p)
        BY <1>5, <1>9
    <2>2. f = [p \in D |-> f[p]]
        BY <1>9
    <2> QED BY <2>1, <2>2
<1>11. Searches(search)
    <2> HIDE DEF Searches
    <2> QED BY <1>10
<1> DEFINE s == search
<1>12. \A p \in D : eq(s, p)
    BY <1>11
<1> HIDE DEF s, N
<1> DEFINE T == {n \in Nat : \A p \in D : span(p) <= n => s[p] \in Nat}
<1>13. 0 \in T
    BY <1>5, <1>12
<1>14. ASSUME NEW n \in Nat, n \in T PROVE n + 1 \in T
    <2>1. ASSUME NEW p \in D, span(p) <= n + 1 PROVE s[p] \in Nat
        <3>1. CASE p[1] > p[2]
            BY <1>5, <1>12, <3>1
        <3>2. CASE ~(p[1] > p[2])
            <4>1. next(p) \in D /\ span(next(p)) <= n
                <5>1. next(p) \in D /\ span(next(p)) < span(p) /\ span(next(p)) \in Int /\ span(p) \in Int
                    BY <1>4, <1>5, <3>2
                <5> QED BY <2>1, <5>1
            <4>2. s[next(p)] \in Nat
                BY <1>14, <4>1
            <4> QED BY <1>12, <3>2, <4>2
        <3> QED BY <3>1, <3>2
    <2> QED BY <2>1
<1>15. now + 1 \in T
    <2> HIDE DEF T
    <2> QED BY <1>3, <1>13, <1>14, NatInductive
<1>16. <<1, now>> \in D
    BY <1>3 DEF D
<1>17. s[<<1, now>>] \in Nat
    BY <1>5, <1>15, <1>16
<1> QED BY <1>1, <1>3, <1>17 DEF s, LeastOf

-----------------------------------------------------------------------------
(* What is left to cut *)

\* Items of selected candidates that retain reasons and lines of theirs.
Retains(its) ==
    /\ its = [c \in DOMAIN its |-> its[c]] /\ Formed(its)
    /\ DOMAIN its \subseteq DOMAIN sel
    /\ \A c \in DOMAIN its : /\ its[c].reasons \in 0..Len(Cand(c).reasons)
                             /\ its[c].kept \in SUBSET DOMAIN Cand(c).lines

LinksNeeds(its) == \A c \in DOMAIN its : its[c].matched \in SUBSET Needs

\* The links are those of the text.
Fresh(its) == \A c \in DOMAIN its : its[c].matched = Shown(its, c)

Reasons(its) == Over([c \in DOMAIN its |-> its[c].reasons], DOMAIN its)
Kept(its) == Over([c \in DOMAIN its |-> Cardinality(its[c].kept)], DOMAIN its)

\* A turn takes one of these away at least: a reason, a line, links that are not those of
\* the text, or an item, which stands for all the content its omission may bring back.
ToCut(its) ==
    Reasons(its) + Kept(its) + (IF Fresh(its) THEN 0 ELSE 1)
        + Cardinality(DOMAIN its) * (MaxContent + 2)

AtFirst == MaxItems + ReasonsSelected + MaxContent + Cardinality(DOMAIN sel) * (MaxContent + 2)

\* The turns taken are paid for by what was there to cut.
CutsInv ==
    /\ limit \in Nat /\ turns \in Nat
    /\ Retains(items) /\ LinksNeeds(items)
    /\ phase = "select" => turns = 0
    /\ phase # "select" => turns + limit + ToCut(items) <= AtFirst

\* A candidate's path, reasons and lines show needs.
LEMMA CandTyped ==
    ASSUME input \in PackInputs, NEW c \in Cands
    PROVE  /\ Cand(c).path \in SUBSET Needs /\ Len(Cand(c).reasons) \in Nat
           /\ \A k \in 1..Len(Cand(c).reasons) : Cand(c).reasons[k] \in SUBSET Needs
           /\ IsFiniteSet(DOMAIN Cand(c).lines) /\ DOMAIN Cand(c).lines \subseteq Nat
           /\ \A k \in DOMAIN Cand(c).lines : Cand(c).lines[k] \in SUBSET Needs
<1>1. input.cands \in Seq(Candidates) /\ Cands = 1..Len(input.cands)
    BY CandsNumbered, InputsAssumption
<1>2. Cand(c) \in Candidates
    BY <1>1, ElementOfSeq DEF Cand
<1> DEFINE rs == Cand(c).reasons  ls == Cand(c).lines
<1>3. Cand(c).path \in SUBSET Needs /\ rs \in Seq(SUBSET Needs) /\ ls \in Seq(SUBSET Needs)
    BY <1>2 DEF Candidates
<1> HIDE DEF rs, ls
<1>4. Len(rs) \in Nat /\ Len(ls) \in Nat /\ DOMAIN ls = 1..Len(ls)
    BY <1>3, LenProperties
<1>5. (\A k \in 1..Len(rs) : rs[k] \in SUBSET Needs) /\ (\A k \in 1..Len(ls) : ls[k] \in SUBSET Needs)
    BY <1>3, ElementOfSeq
<1>6. IsFiniteSet(1..Len(ls)) /\ 1..Len(ls) \subseteq Nat
    <2>1. \A n \in Int : IsFiniteSet(1..n)
        BY FS_Interval
    <2>2. Len(ls) \in Int
        BY <1>4
    <2> QED BY <2>1, <2>2
<1> QED BY <1>3, <1>4, <1>5, <1>6 DEF rs, ls

\* What is retained can be counted.
LEMMA Countable ==
    ASSUME input \in PackInputs, DOMAIN sel \subseteq Cands, NEW its, Retains(its)
    PROVE  /\ IsFiniteSet(DOMAIN its) /\ DOMAIN its \subseteq Cands /\ DOMAIN its \subseteq Nat
           /\ Cardinality(DOMAIN its) \in Nat
           /\ \A c \in DOMAIN its : /\ its[c].reasons \in Nat
                                    /\ IsFiniteSet(its[c].kept) /\ its[c].kept \subseteq Nat
                                    /\ Cardinality(its[c].kept) \in Nat
           /\ Reasons(its) \in Nat /\ Kept(its) \in Nat /\ ToCut(its) \in Nat
<1>1. IsFiniteSet(DOMAIN its) /\ DOMAIN its \subseteq Cands /\ Cardinality(DOMAIN its) \in Nat
    BY CandsNumbered, FS_Subset, FS_CardinalityType DEF Retains
<1>2. DOMAIN its \subseteq Nat
    BY <1>1, CandsNumbered
<1>3. ASSUME NEW c \in DOMAIN its
      PROVE  /\ its[c].reasons \in Nat
             /\ IsFiniteSet(its[c].kept) /\ its[c].kept \subseteq Nat /\ Cardinality(its[c].kept) \in Nat
    <2>1. /\ its[c].reasons \in 0..Len(Cand(c).reasons) /\ its[c].kept \in SUBSET DOMAIN Cand(c).lines
          /\ Len(Cand(c).reasons) \in Nat
          /\ IsFiniteSet(DOMAIN Cand(c).lines) /\ DOMAIN Cand(c).lines \subseteq Nat
        BY <1>1, CandTyped DEF Retains
    <2> QED BY <2>1, FS_Subset, FS_CardinalityType
<1> DEFINE f == [c \in DOMAIN its |-> its[c].reasons]
           e == [c \in DOMAIN its |-> Cardinality(its[c].kept)]
<1>4. \A c \in DOMAIN its : f[c] \in Nat /\ e[c] \in Nat
    BY <1>3
<1>5. Reasons(its) = Over(f, DOMAIN its) /\ Kept(its) = Over(e, DOMAIN its)
    BY DEF Reasons, Kept
<1> HIDE DEF f, e
<1>6. Over(f, DOMAIN its) \in Nat /\ Over(e, DOMAIN its) \in Nat
    <2>1. DOMAIN its \in SUBSET DOMAIN its
        OBVIOUS
    <2> QED BY <1>1, <1>4, <2>1, OverPart
<1>7. ToCut(its) \in Nat
    <2> DEFINE n == Cardinality(DOMAIN its)  m == MaxContent + 2
    <2>1. n \in Nat /\ m \in Nat
        BY <1>1, LimitsTyped
    <2>2. ToCut(its) = Reasons(its) + Kept(its) + (IF Fresh(its) THEN 0 ELSE 1) + n * m
        BY DEF ToCut
    <2> HIDE DEF n, m
    <2>3. n * m \in Nat
        BY <2>1
    <2> QED BY <1>5, <1>6, <2>2, <2>3
<1> QED BY <1>1, <1>2, <1>3, <1>5, <1>6, <1>7

\* What an item shows are needs.
LEMMA ShowsNeeds ==
    ASSUME input \in PackInputs, DOMAIN sel \subseteq Cands, NEW its, Retains(its), NEW c \in DOMAIN its
    PROVE  Shown(its, c) \in SUBSET Needs
<1>1. c \in Cands
    BY DEF Retains
<1>2. /\ Cand(c).path \in SUBSET Needs /\ Len(Cand(c).reasons) \in Nat
      /\ \A k \in 1..Len(Cand(c).reasons) : Cand(c).reasons[k] \in SUBSET Needs
      /\ \A k \in DOMAIN Cand(c).lines : Cand(c).lines[k] \in SUBSET Needs
    BY <1>1, CandTyped
<1> DEFINE r == its[c].reasons  kept == its[c].kept
<1>3. r \in 0..Len(Cand(c).reasons) /\ kept \in SUBSET DOMAIN Cand(c).lines
    BY DEF Retains
<1>4. Shown(its, c) = IF kept = {} THEN {} ELSE ShownBy(c, r, kept)
    BY DEF Shown
<1> HIDE DEF r, kept
<1>5. \A k \in 1..r : k \in 1..Len(Cand(c).reasons)
    BY <1>2, <1>3
<1>6. UNION {Cand(c).reasons[k] : k \in 1..r} \subseteq Needs
    BY <1>2, <1>5
<1>7. UNION {Cand(c).lines[k] : k \in kept} \subseteq Needs
    BY <1>2, <1>3
<1>8. ShownBy(c, r, kept) \subseteq Needs
    <2> DEFINE A == UNION {Cand(c).reasons[k] : k \in 1..r}
               B == UNION {Cand(c).lines[k] : k \in kept}
    <2>1. ShownBy(c, r, kept) = (Cand(c).path \union A) \union B
        BY DEF ShownBy
    <2>2. A \subseteq Needs /\ B \subseteq Needs
        BY <1>6, <1>7
    <2> HIDE DEF A, B
    <2> QED BY <1>2, <2>1, <2>2
<1> QED BY <1>4, <1>8

\* Linking again leaves what is retained, and leaves no stale link.
LEMMA RelinkCounts ==
    ASSUME input \in PackInputs, DOMAIN sel \subseteq Cands, NEW its, Retains(its)
    PROVE  /\ DOMAIN Relink(its) = DOMAIN its /\ Retains(Relink(its)) /\ LinksNeeds(Relink(its))
           /\ Fresh(Relink(its))
           /\ \A c \in DOMAIN its : /\ Relink(its)[c].reasons = its[c].reasons
                                    /\ Relink(its)[c].kept = its[c].kept
           /\ ToCut(Relink(its)) = Reasons(its) + Kept(its) + Cardinality(DOMAIN its) * (MaxContent + 2)
<1> DEFINE new == Relink(its)
<1>1. /\ DOMAIN new = DOMAIN its /\ Formed(new)
      /\ \A c \in DOMAIN its : new[c].matched = Shown(its, c) /\ Shown(new, c) = Shown(its, c)
    BY RelinkFormed DEF Retains
<1>2. new = [c \in DOMAIN new |-> new[c]]
    BY DEF Relink
<1>3. ASSUME NEW c \in DOMAIN its PROVE new[c].reasons = its[c].reasons /\ new[c].kept = its[c].kept
    <2> DEFINE r == its[c].reasons  k == its[c].kept  m == its[c].matched
    <2>1. its[c] = [reasons |-> r, kept |-> k, matched |-> m]
        BY DEF Retains, Formed
    <2>2. new[c] = [its[c] EXCEPT !.matched = Shown(its, c)]
        BY DEF Relink
    <2> HIDE DEF r, k, m, new
    <2>3. new[c] = [reasons |-> r, kept |-> k, matched |-> Shown(its, c)]
        BY <2>1, <2>2
    <2>4. new[c].reasons = r /\ new[c].kept = k
        BY <2>3
    <2> QED BY <2>4 DEF r, k
<1> HIDE DEF new
<1>4. Retains(new)
    BY <1>1, <1>2, <1>3 DEF Retains
<1>5. LinksNeeds(new)
    BY <1>1, ShowsNeeds DEF LinksNeeds
<1>6. Fresh(new)
    BY <1>1 DEF Fresh
<1>7. Reasons(new) = Reasons(its) /\ Kept(new) = Kept(its)
    <2>1. [c \in DOMAIN new |-> new[c].reasons] = [c \in DOMAIN its |-> its[c].reasons]
        BY <1>1, <1>3
    <2>2. [c \in DOMAIN new |-> Cardinality(new[c].kept)] = [c \in DOMAIN its |-> Cardinality(its[c].kept)]
        BY <1>1, <1>3
    <2> QED BY <1>1, <2>1, <2>2 DEF Reasons, Kept
<1>8. ToCut(new) = Reasons(its) + Kept(its) + Cardinality(DOMAIN its) * (MaxContent + 2)
    <2> DEFINE x == Reasons(its) + Kept(its)  y == Cardinality(DOMAIN its) * (MaxContent + 2)
    <2>1. x \in Int
        BY Countable
    <2>2. ToCut(new) = x + 0 + y
        BY <1>1, <1>6, <1>7 DEF ToCut
    <2> HIDE DEF x, y
    <2>3. x + 0 = x
        BY <2>1
    <2> QED BY <2>2, <2>3 DEF x, y
<1> QED BY <1>1, <1>3, <1>4, <1>5, <1>6, <1>8 DEF new

\* A pack has a size.
LEMMA SizeTyped ==
    ASSUME input \in PackInputs, DOMAIN sel \subseteq Cands, limit \in Nat,
           NEW its, Retains(its), LinksNeeds(its)
    PROVE  PackSize(its, limit) \in Int
<1>1. \A c \in DOMAIN its : ItemSize(its[c]) \in Int
    <2> TAKE c \in DOMAIN its
    <2> DEFINE r == its[c].reasons  k == Cardinality(its[c].kept)  m == Cardinality(its[c].matched)
    <2>1. r \in Nat /\ k \in Nat
        BY Countable
    <2>2. m \in Nat
        BY NeedsAssumption, FS_Subset, FS_CardinalityType DEF LinksNeeds
    <2>3. ItemCost \in Nat /\ ReasonCost \in Nat /\ LinkCost \in Nat
        BY LimitsTyped
    <2>4. ItemSize(its[c]) = ItemCost + ReasonCost * r + k + LinkCost * m
        BY DEF ItemSize
    <2> HIDE DEF r, k, m
    <2>5. ReasonCost * r \in Int /\ LinkCost * m \in Int
        BY <2>1, <2>2, <2>3
    <2> QED BY <2>1, <2>3, <2>4, <2>5
<1> DEFINE f == [c \in DOMAIN its |-> ItemSize(its[c])]
<1>2. SumFunction(f) = Over(f, DOMAIN its)
    <2>1. [c \in DOMAIN its |-> f[c]] = f
        OBVIOUS
    <2> QED BY <2>1 DEF Over
<1>3. \A c \in DOMAIN its : f[c] \in Int
    BY <1>1
<1> HIDE DEF f
<1>4. SumFunction(f) \in Int
    BY <1>2, <1>3, Countable, OverTyped
<1> DEFINE p == Previewed(its, limit)
           q == Cardinality(Needs \ Matched(its))
<1>5. p \in Nat
    <2>1. IsFiniteSet(Cands \ DOMAIN its)
        BY CandsNumbered, FS_Subset
    <2>2. Cardinality(Cands \ DOMAIN its) \in Nat
        BY <2>1, FS_CardinalityType
    <2> QED BY <2>2 DEF Previewed, LeastOf
<1>6. q \in Nat
    <2>1. IsFiniteSet(Needs \ Matched(its))
        BY NeedsAssumption, FS_Subset
    <2> QED BY <2>1, FS_CardinalityType
<1>7. PackSize(its, limit) = SumFunction(f) + OmissionCost * p + MissingCost * q
    BY DEF PackSize, f
<1>8. OmissionCost \in Nat /\ MissingCost \in Nat
    BY LimitsTyped
<1> HIDE DEF p, q
<1>9. OmissionCost * p \in Int /\ MissingCost * q \in Int
    BY <1>5, <1>6, <1>8
<1> QED BY <1>4, <1>7, <1>9

-----------------------------------------------------------------------------
(* Every turn is paid for *)

\* One summand lower, the sum is.
LEMMA OneLower ==
    ASSUME NEW S, IsFiniteSet(S), NEW f, NEW e, \A x \in S : f[x] \in Int /\ e[x] \in Int,
           NEW c \in S, e[c] < f[c], \A x \in S \ {c} : e[x] = f[x]
    PROVE  Over(e, S) < Over(f, S) /\ Over(e, S) \in Int /\ Over(f, S) \in Int
<1> DEFINE R == S \ {c}
<1>1. Over(f, S) = f[c] + Over(f, R) /\ Over(e, S) = e[c] + Over(e, R)
    BY OverRemove
<1>2. Over(e, R) = Over(f, R)
    BY OverSame
<1>3. Over(f, R) \in Int
    <2>1. IsFiniteSet(R) /\ \A x \in R : f[x] \in Int
        BY FS_Subset
    <2> HIDE DEF R
    <2> QED BY <2>1, OverTyped
<1>4. f[c] \in Int /\ e[c] \in Int
    OBVIOUS
<1> HIDE DEF R
<1> QED BY <1>1, <1>2, <1>3, <1>4

\* A turn that leaves less to cut is paid for.
LEMMA TurnPaid ==
    ASSUME PackInv, CutsInv, phase # "select", phase' # "select", UNCHANGED <<input, sel>>,
           limit' \in Nat, turns' \in Nat, NEW new, items' = new, Retains(new), LinksNeeds(new),
           turns' + limit' + ToCut(new) <= turns + limit + ToCut(items)
    PROVE  CutsInv'
<1>1. \A c : Cand(c)' = Cand(c)
    BY DEF Cand
<1>2. Retains(items)' /\ LinksNeeds(items)'
    BY <1>1 DEF Retains, LinksNeeds, Formed
<1>3. Fresh(items)' <=> Fresh(new)
    <2>1. \A c : Shown(items, c)' = Shown(new, c)
        BY <1>1 DEF Shown, ShownBy
    <2> QED BY <2>1 DEF Fresh
<1>4. Reasons(items)' = Reasons(new) /\ Kept(items)' = Kept(new)
    BY DEF Reasons, Kept, Over
<1>5. ToCut(items)' = ToCut(new)
    BY <1>3, <1>4 DEF ToCut
<1>6. AtFirst' = AtFirst /\ AtFirst \in Int
    <2>1. ReasonsSelected' = ReasonsSelected
        BY <1>1 DEF ReasonsSelected
    <2>2. DOMAIN sel \subseteq Cands /\ input \in PackInputs
        BY DEF PackInv, SelectionInv
    <2>3. IsFiniteSet(DOMAIN sel)
        BY <2>2, CandsNumbered, FS_Subset
    <2> DEFINE e == [c \in DOMAIN sel |-> Len(Cand(c).reasons)]
    <2>4. \A c \in DOMAIN sel : e[c] \in Int
        BY <2>2, CandTyped
    <2>5. ReasonsSelected = Over(e, DOMAIN sel)
        BY DEF ReasonsSelected, Over
    <2> HIDE DEF e
    <2>6. ReasonsSelected \in Int
        BY <2>3, <2>4, <2>5, OverTyped
    <2> DEFINE n == Cardinality(DOMAIN sel)  m == MaxContent + 2
    <2>7. n \in Nat /\ m \in Nat /\ MaxItems \in Nat /\ MaxContent \in Nat
        <3>1. n \in Nat
            BY <2>3, FS_CardinalityType
        <3> QED BY <3>1, LimitsTyped
    <2>8. AtFirst = MaxItems + ReasonsSelected + MaxContent + n * m
        BY DEF AtFirst
    <2> HIDE DEF n, m
    <2>9. n * m \in Nat
        BY <2>7
    <2>10. AtFirst \in Int
        BY <2>6, <2>7, <2>8, <2>9
    <2> QED BY <2>1, <2>10 DEF AtFirst
<1>7. ToCut(new) \in Nat /\ ToCut(items) \in Nat
    BY Countable DEF PackInv, SelectionInv, CutsInv
<1>8. turns' + limit' + ToCut(new) <= AtFirst
    <2>1. turns + limit + ToCut(items) <= AtFirst /\ turns \in Nat /\ limit \in Nat
        BY DEF CutsInv
    <2> QED BY <1>6, <1>7, <2>1
<1> QED BY <1>2, <1>5, <1>6, <1>8 DEF CutsInv

\* What a turn finds.
LEMMA BeforeCut ==
    ASSUME PackInv, CutsInv
    PROVE  /\ input \in PackInputs /\ DOMAIN sel \subseteq Cands
           /\ Retains(items) /\ LinksNeeds(items) /\ limit \in Nat /\ turns \in Nat
           /\ ToCut(items) \in Nat /\ Reasons(items) \in Nat /\ Kept(items) \in Nat
           /\ Cardinality(DOMAIN items) * (MaxContent + 2) \in Nat
<1>1. /\ input \in PackInputs /\ DOMAIN sel \subseteq Cands
      /\ Retains(items) /\ LinksNeeds(items) /\ limit \in Nat /\ turns \in Nat
    BY DEF PackInv, SelectionInv, CutsInv
<1>2. Cardinality(DOMAIN items) \in Nat /\ MaxContent + 2 \in Nat
    <2>1. Cardinality(DOMAIN items) \in Nat
        BY <1>1, Countable
    <2> QED BY <2>1, LimitsTyped
<1>3. Cardinality(DOMAIN items) * (MaxContent + 2) \in Nat
    <2> DEFINE n == Cardinality(DOMAIN items)  m == MaxContent + 2
    <2>1. n \in Nat /\ m \in Nat
        BY <1>2
    <2> HIDE DEF n, m
    <2>2. n * m \in Nat
        BY <2>1
    <2> QED BY <2>2 DEF n, m
<1> QED BY <1>1, <1>3, Countable

\* Dropping a preview lowers the limit.
LEMMA DropOmissionPays ==
    ASSUME PackInv, CutsInv, DropOmission
    PROVE  CutsInv'
<1>1. limit \in Nat /\ turns \in Nat /\ input \in PackInputs /\ Retains(items) /\ LinksNeeds(items)
      /\ ToCut(items) \in Nat
    BY BeforeCut
<1> DEFINE p == Previewed(items, limit)
<1>2. p \in Nat /\ p <= limit
    <2>1. IsFiniteSet(Cands \ DOMAIN items)
        BY <1>1, CandsNumbered, FS_Subset
    <2>2. Cardinality(Cands \ DOMAIN items) \in Nat
        BY <2>1, FS_CardinalityType
    <2> QED BY <1>1, <2>2 DEF Previewed, LeastOf
<1>3. /\ p > 0 /\ limit' = p - 1 /\ turns' = turns + 1
      /\ phase = "compact" /\ UNCHANGED <<input, phase, sel, items>>
    BY DEF DropOmission, Cutting
<1> HIDE DEF p
<1>4. limit' \in Nat /\ turns' \in Nat /\ turns' + limit' + ToCut(items) <= turns + limit + ToCut(items)
    BY <1>1, <1>2, <1>3
<1>5. items' = items
    BY <1>3
<1> QED BY <1>1, <1>3, <1>4, <1>5, TurnPaid

\* Turns that cut items.
LEMMA CutPays ==
    ASSUME PackInv, CutsInv, phase = "compact", NEW new, Cut(new), Retains(new), LinksNeeds(new),
           ToCut(new) < ToCut(items)
    PROVE  CutsInv'
<1>1. /\ items' = new /\ turns' = turns + 1 /\ limit' = limit
      /\ UNCHANGED <<input, phase, sel>>
    BY DEF Cut
<1>2. limit \in Nat /\ turns \in Nat /\ ToCut(items) \in Nat
    BY BeforeCut
<1>3. ToCut(new) \in Nat
    BY BeforeCut, Countable
<1>4. turns' + limit' + ToCut(new) <= turns + limit + ToCut(items)
    BY <1>1, <1>2, <1>3
<1>5. limit' \in Nat /\ turns' \in Nat
    BY <1>1, <1>2
<1> QED BY <1>1, <1>4, <1>5, TurnPaid

\* One reason less.
LEMMA DropReasonPays ==
    ASSUME PackInv, CutsInv, DropReason
    PROVE  CutsInv'
<1>1. PICK c \in WithReasons : Cut(Relink([items EXCEPT ![c].reasons = @ - 1]))
    BY DEF DropReason
<1> DEFINE its == [items EXCEPT ![c].reasons = @ - 1]
           D == DOMAIN items
<1>2. c \in D /\ items[c].reasons > 0 /\ phase = "compact"
    BY DEF WithReasons, DropReason, Cutting
<1>3. /\ input \in PackInputs /\ DOMAIN sel \subseteq Cands /\ Retains(items)
      /\ \A x \in D : items[x].reasons \in Nat
      /\ IsFiniteSet(D)
    BY BeforeCut, Countable
<1>4. /\ DOMAIN its = D /\ its = [x \in D |-> its[x]]
      /\ \A x \in D \ {c} : its[x] = items[x]
    OBVIOUS
<1>5. its[c] = [reasons |-> items[c].reasons - 1, kept |-> items[c].kept, matched |-> items[c].matched]
    <2>1. its[c] = [items[c] EXCEPT !.reasons = @ - 1]
        BY <1>2
    <2> DEFINE r == items[c].reasons  k == items[c].kept  m == items[c].matched
    <2>2. items[c] = [reasons |-> r, kept |-> k, matched |-> m]
        BY <1>2, <1>3 DEF Retains, Formed
    <2> HIDE DEF r, k, m, its
    <2>3. its[c] = [reasons |-> r - 1, kept |-> k, matched |-> m]
        BY <2>1, <2>2
    <2> QED BY <2>3 DEF r, k, m
<1> HIDE DEF its
<1>6. its[c].reasons = items[c].reasons - 1 /\ its[c].kept = items[c].kept /\ its[c].matched = items[c].matched
    <2> DEFINE r == items[c].reasons - 1  k == items[c].kept  m == items[c].matched
    <2>1. its[c] = [reasons |-> r, kept |-> k, matched |-> m]
        BY <1>5
    <2> HIDE DEF r, k, m
    <2>2. its[c].reasons = r /\ its[c].kept = k /\ its[c].matched = m
        BY <2>1
    <2> QED BY <2>2 DEF r, k, m
<1>7. Retains(its)
    <2>1. Formed(its)
        BY <1>3, <1>4, <1>5, <1>6 DEF Formed, Retains
    <2>2. \A x \in D : its[x].kept \in SUBSET DOMAIN Cand(x).lines
        BY <1>3, <1>4, <1>6 DEF Retains
    <2>3. ASSUME NEW x \in D PROVE its[x].reasons \in 0..Len(Cand(x).reasons)
        <3>1. items[x].reasons \in 0..Len(Cand(x).reasons) /\ Len(Cand(x).reasons) \in Nat
            BY <1>3, CandTyped DEF Retains
        <3>2. CASE x = c
            BY <1>2, <1>6, <3>1, <3>2
        <3>3. CASE x # c
            BY <1>4, <3>1, <3>3
        <3> QED BY <3>2, <3>3
    <2> QED BY <1>3, <1>4, <2>1, <2>2, <2>3 DEF Retains
<1>8. Kept(its) = Kept(items)
    <2>1. \A x \in D : its[x].kept = items[x].kept
        BY <1>4, <1>6
    <2>2. [x \in DOMAIN its |-> Cardinality(its[x].kept)] = [x \in D |-> Cardinality(items[x].kept)]
        BY <1>4, <2>1
    <2> QED BY <1>4, <2>2 DEF Kept
<1>9. Reasons(its) < Reasons(items)
    <2> DEFINE f == [x \in D |-> items[x].reasons]
               e == [x \in D |-> its[x].reasons]
    <2>1. /\ \A x \in D : f[x] \in Int /\ e[x] \in Int
          /\ e[c] < f[c]
          /\ \A x \in D \ {c} : e[x] = f[x]
        <3>1. \A x \in D \ {c} : e[x] = f[x]
            BY <1>4
        <3>2. e[c] = items[c].reasons - 1 /\ f[c] = items[c].reasons
            BY <1>2, <1>6
        <3>3. \A x \in D : f[x] \in Nat
            BY <1>3
        <3> HIDE DEF e, f
        <3>4. e[c] < f[c] /\ e[c] \in Int
            BY <1>2, <1>3, <3>2
        <3> QED BY <3>1, <3>3, <3>4
    <2>2. Reasons(its) = Over(e, D) /\ Reasons(items) = Over(f, D)
        BY <1>4 DEF Reasons
    <2> HIDE DEF e, f
    <2>3. Over(e, D) < Over(f, D)
        BY <1>2, <1>3, <2>1, OneLower
    <2> QED BY <2>2, <2>3
<1>10. /\ Retains(Relink(its)) /\ LinksNeeds(Relink(its))
       /\ ToCut(Relink(its)) = Reasons(its) + Kept(its) + Cardinality(DOMAIN its) * (MaxContent + 2)
    BY <1>3, <1>7, RelinkCounts
<1>11. ToCut(Relink(its)) < ToCut(items)
    <2> DEFINE n == Cardinality(D) * (MaxContent + 2)
    <2>1. n \in Nat /\ Reasons(items) \in Nat /\ Kept(items) \in Nat
        BY BeforeCut
    <2>2. Reasons(its) \in Nat
        BY <1>3, <1>7, Countable
    <2>3. ToCut(Relink(its)) = Reasons(its) + Kept(items) + n
        BY <1>4, <1>8, <1>10
    <2>4. ToCut(items) = Reasons(items) + Kept(items) + (IF Fresh(items) THEN 0 ELSE 1) + n
        BY DEF ToCut
    <2> HIDE DEF n
    <2> QED BY <1>9, <2>1, <2>2, <2>3, <2>4
<1>12. Cut(Relink(its))
    BY <1>1 DEF its
<1> QED BY <1>2, <1>10, <1>11, <1>12, CutPays

\* Stale links go.
LEMMA NoLongerTooBigPays ==
    ASSUME PackInv, CutsInv, NoLongerTooBig
    PROVE  CutsInv'
<1>1. phase = "compact" /\ ~Fits(items) /\ Fits(Linked) /\ Cut(Relink(items))
    BY DEF NoLongerTooBig, CuttingContent, Cutting, Linked
<1>2. Retains(items)
    BY BeforeCut
<1>3. ~Fresh(items)
    <2> SUFFICES ASSUME Fresh(items) PROVE FALSE
        OBVIOUS
    <2>1. ASSUME NEW c \in DOMAIN items PROVE [items[c] EXCEPT !.matched = Shown(items, c)] = items[c]
        <3> DEFINE r == items[c].reasons  k == items[c].kept  m == items[c].matched
        <3>1. items[c] = [reasons |-> r, kept |-> k, matched |-> m]
            BY <1>2 DEF Retains, Formed
        <3>2. m = Shown(items, c)
            BY DEF Fresh
        <3> HIDE DEF r, k, m
        <3>3. [items[c] EXCEPT !.matched = m] = [reasons |-> r, kept |-> k, matched |-> m]
            BY <3>1
        <3> QED BY <3>1, <3>2, <3>3
    <2>2. Linked = [c \in DOMAIN items |-> items[c]]
        BY <2>1 DEF Linked, Relink
    <2>3. Linked = items
        BY <1>2, <2>2 DEF Retains
    <2> QED BY <1>1, <2>3
<1>4. /\ Retains(Relink(items)) /\ LinksNeeds(Relink(items))
      /\ ToCut(Relink(items)) = Reasons(items) + Kept(items) + Cardinality(DOMAIN items) * (MaxContent + 2)
    BY BeforeCut, RelinkCounts
<1>5. ToCut(Relink(items)) < ToCut(items)
    <2> DEFINE n == Cardinality(DOMAIN items) * (MaxContent + 2)
    <2>1. n \in Nat /\ Reasons(items) \in Nat /\ Kept(items) \in Nat
        BY BeforeCut
    <2>2. ToCut(items) = Reasons(items) + Kept(items) + 1 + n
        BY <1>3 DEF ToCut
    <2>3. ToCut(Relink(items)) = Reasons(items) + Kept(items) + n
        BY <1>4
    <2> HIDE DEF n
    <2> QED BY <2>1, <2>2, <2>3
<1> QED BY <1>1, <1>4, <1>5, CutPays

\* What begins from links made afresh.
LEMMA LinkedCounts ==
    ASSUME PackInv, CutsInv
    PROVE  /\ DOMAIN Linked = DOMAIN items /\ Retains(Linked) /\ LinksNeeds(Linked)
           /\ \A c \in DOMAIN items : /\ Linked[c].reasons = items[c].reasons
                                      /\ Linked[c].kept = items[c].kept
           /\ ToCut(Linked) <= ToCut(items)
<1>1. /\ DOMAIN Linked = DOMAIN items /\ Retains(Linked) /\ LinksNeeds(Linked)
      /\ \A c \in DOMAIN items : /\ Linked[c].reasons = items[c].reasons
                                 /\ Linked[c].kept = items[c].kept
      /\ ToCut(Linked) = Reasons(items) + Kept(items) + Cardinality(DOMAIN items) * (MaxContent + 2)
    BY BeforeCut, RelinkCounts DEF Linked
<1>2. ToCut(Linked) <= ToCut(items)
    <2> DEFINE n == Cardinality(DOMAIN items) * (MaxContent + 2)
    <2>1. n \in Nat /\ Reasons(items) \in Nat /\ Kept(items) \in Nat
        BY BeforeCut
    <2>2. ToCut(items) = Reasons(items) + Kept(items) + (IF Fresh(items) THEN 0 ELSE 1) + n
        BY DEF ToCut
    <2>3. ToCut(Linked) = Reasons(items) + Kept(items) + n
        BY <1>1
    <2> HIDE DEF n
    <2> QED BY <2>1, <2>2, <2>3
<1> QED BY <1>1, <1>2

\* Content that is fitted to less than there is gets smaller.
LEMMA ShrinkPays ==
    ASSUME PackInv, CutsInv, ShrinkContent
    PROVE  CutsInv'
<1> DEFINE D == DOMAIN items
<1>1. PICK c \in Shrinkable(Linked) :
          LET excess == PackSize(Linked, limit) - input.bytes
              target == MostOf(MinimumContent(c), Cardinality(Linked[c].kept) - excess)
          IN  Cut(Relink([Linked EXCEPT ![c].kept = Fit(c, @, target, NeededOf(c), {})]))
    BY DEF ShrinkContent
<1>2. /\ DOMAIN Linked = D /\ Retains(Linked) /\ LinksNeeds(Linked)
      /\ ToCut(Linked) <= ToCut(items) /\ Linked[c].kept = items[c].kept
    <2>1. c \in DOMAIN Linked
        BY DEF Shrinkable
    <2> QED BY <2>1, LinkedCounts
<1>3. /\ input \in PackInputs /\ DOMAIN sel \subseteq Cands /\ limit \in Nat
      /\ phase = "compact" /\ ~Fits(Linked) /\ c \in D
      /\ Cardinality(Linked[c].kept) > MinimumContent(c)
    BY <1>2, BeforeCut DEF Shrinkable, ShrinkContent, CuttingContent, Cutting
<1>4. /\ IsFiniteSet(D)
      /\ \A x \in D : /\ IsFiniteSet(Linked[x].kept) /\ Linked[x].kept \subseteq Nat
                      /\ Cardinality(Linked[x].kept) \in Nat
    BY <1>2, <1>3, Countable
<1> DEFINE pool == Linked[c].kept
           excess == PackSize(Linked, limit) - input.bytes
           target == MostOf(MinimumContent(c), Cardinality(pool) - excess)
           new == Fit(c, pool, target, NeededOf(c), {})
           its == [Linked EXCEPT ![c] = [Linked[c] EXCEPT !.kept = new]]
<1>5. Cut(Relink(its))
    <2>1. [Linked EXCEPT ![c].kept = Fit(c, @, target, NeededOf(c), {})] = its
        OBVIOUS
    <2>2. Cut(Relink([Linked EXCEPT ![c].kept = Fit(c, @, target, NeededOf(c), {})]))
        BY <1>1
    <2> HIDE DEF its
    <2> QED BY <2>1, <2>2
<1>6. target \in Int /\ target < Cardinality(pool) /\ Cardinality(pool) \in Nat /\ Cardinality(pool) > 0
    <2>1. PackSize(Linked, limit) \in Int /\ input.bytes \in Nat
        BY <1>2, <1>3, SizeTyped, InputsAssumption
    <2>2. excess \in Int /\ excess > 0
        BY <1>3, <2>1 DEF Fits
    <2>3. Cardinality(pool) \in Nat
        BY <1>3, <1>4
    <2>4. MinimumContent(c) \in Nat
        BY <1>2, <2>3, MinimumTyped
    <2>5. Cardinality(pool) > MinimumContent(c)
        BY <1>3
    <2> HIDE DEF excess, pool
    <2> QED BY <2>2, <2>3, <2>4, <2>5 DEF MostOf
<1> HIDE DEF target
<1>7. new \in SUBSET pool /\ Cardinality(new) \in Nat /\ Cardinality(new) < Cardinality(pool)
    <2>1. IsFiniteSet(pool) /\ pool \subseteq Nat
        BY <1>3, <1>4
    <2>2. NeededOf(c) \in SUBSET Needs
        BY <1>3, InputsAssumption DEF NeededOf, Required
    <2> HIDE DEF pool
    <2>3. /\ new \in SUBSET pool
          /\ target <= 0 => new = {}
          /\ target > 0 => Cardinality(new) <= target
        BY <1>6, <2>1, <2>2, FitBounded
    <2> HIDE DEF new
    <2>4. IsFiniteSet(new) /\ Cardinality(new) \in Nat /\ (new = {} => Cardinality(new) = 0)
        BY <2>1, <2>3, FS_Subset, FS_CardinalityType, FS_EmptySet
    <2> QED BY <1>6, <2>3, <2>4
<1> HIDE DEF new
<1>8. /\ DOMAIN its = D /\ its = [x \in D |-> its[x]]
      /\ \A x \in D \ {c} : its[x] = Linked[x]
      /\ its[c] = [Linked[c] EXCEPT !.kept = new]
    BY <1>2, <1>3
<1> HIDE DEF its
<1>9. its[c] = [reasons |-> Linked[c].reasons, kept |-> new, matched |-> Linked[c].matched]
    <2> DEFINE r == Linked[c].reasons  k == Linked[c].kept  m == Linked[c].matched
    <2>1. Linked[c] = [reasons |-> r, kept |-> k, matched |-> m]
        BY <1>2, <1>3 DEF Retains, Formed
    <2> HIDE DEF r, k, m
    <2>2. its[c] = [reasons |-> r, kept |-> new, matched |-> m]
        BY <1>8, <2>1
    <2> QED BY <2>2 DEF r, m
<1>10. its[c].reasons = Linked[c].reasons /\ its[c].kept = new /\ its[c].matched = Linked[c].matched
    <2> DEFINE r == Linked[c].reasons  m == Linked[c].matched
    <2>1. its[c] = [reasons |-> r, kept |-> new, matched |-> m]
        BY <1>9
    <2> HIDE DEF r, m
    <2>2. its[c].reasons = r /\ its[c].kept = new /\ its[c].matched = m
        BY <2>1
    <2> QED BY <2>2 DEF r, m
<1>11. Retains(its)
    <2>1. Formed(its)
        BY <1>2, <1>8, <1>9, <1>10 DEF Formed, Retains
    <2>2. ASSUME NEW x \in D
          PROVE its[x].reasons \in 0..Len(Cand(x).reasons) /\ its[x].kept \in SUBSET DOMAIN Cand(x).lines
        <3>1. Linked[x].reasons \in 0..Len(Cand(x).reasons) /\ Linked[x].kept \in SUBSET DOMAIN Cand(x).lines
            BY <1>2 DEF Retains
        <3>2. CASE x = c
            BY <1>7, <1>10, <3>1, <3>2
        <3>3. CASE x # c
            BY <1>8, <3>1, <3>3
        <3> QED BY <3>2, <3>3
    <2> QED BY <1>2, <1>8, <2>1, <2>2 DEF Retains
<1>12. Reasons(its) = Reasons(Linked)
    <2>1. \A x \in D : its[x].reasons = Linked[x].reasons
        BY <1>8, <1>10
    <2>2. [x \in DOMAIN its |-> its[x].reasons] = [x \in D |-> Linked[x].reasons]
        BY <1>8, <2>1
    <2> QED BY <1>2, <1>8, <2>2 DEF Reasons
<1>13. Kept(its) < Kept(Linked)
    <2> DEFINE f == [x \in D |-> Cardinality(Linked[x].kept)]
               e == [x \in D |-> Cardinality(its[x].kept)]
    <2>1. \A x \in D \ {c} : e[x] = f[x]
        BY <1>8
    <2>2. e[c] = Cardinality(new) /\ f[c] = Cardinality(pool)
        BY <1>3, <1>10
    <2>3. \A x \in D : f[x] \in Nat
        BY <1>4
    <2>4. Kept(its) = Over(e, D) /\ Kept(Linked) = Over(f, D)
        BY <1>2, <1>8 DEF Kept
    <2> HIDE DEF e, f, pool, D
    <2>5. e[c] < f[c] /\ e[c] \in Int
        BY <1>7, <2>2
    <2>6. \A x \in D : f[x] \in Int /\ e[x] \in Int
        BY <2>1, <2>3, <2>5
    <2>7. Over(e, D) < Over(f, D)
        BY <1>3, <1>4, <2>1, <2>5, <2>6, OneLower
    <2> QED BY <2>4, <2>7
<1>14. /\ Retains(Relink(its)) /\ LinksNeeds(Relink(its))
       /\ ToCut(Relink(its)) = Reasons(its) + Kept(its) + Cardinality(DOMAIN its) * (MaxContent + 2)
    BY <1>3, <1>11, RelinkCounts
<1>15. ToCut(Relink(its)) < ToCut(items)
    <2> DEFINE n == Cardinality(D) * (MaxContent + 2)
    <2>1. n \in Nat
        BY BeforeCut
    <2>2. /\ Kept(its) \in Nat /\ Kept(Linked) \in Nat /\ Reasons(Linked) \in Nat
          /\ ToCut(Linked) \in Nat /\ ToCut(items) \in Nat
        BY <1>2, <1>3, <1>11, BeforeCut, Countable
    <2>3. ToCut(Relink(its)) = Reasons(Linked) + Kept(its) + n
        BY <1>8, <1>12, <1>14
    <2>4. ToCut(Linked) = Reasons(Linked) + Kept(Linked) + (IF Fresh(Linked) THEN 0 ELSE 1) + n
        BY <1>2 DEF ToCut
    <2> HIDE DEF n
    <2> QED BY <1>2, <1>13, <2>1, <2>2, <2>3, <2>4
<1> QED BY <1>3, <1>5, <1>14, <1>15, CutPays

\* The item that is left out pays for all the content its omission brings back.
LEMMA OmitCounts ==
    ASSUME input \in PackInputs, DOMAIN sel \subseteq Cands,
           NEW its, Retains(its), LinksNeeds(its), NEW c \in DOMAIN its
    PROVE  Retains(Omit(its, c)) /\ LinksNeeds(Omit(its, c)) /\ ToCut(Omit(its, c)) < ToCut(its)
<1> DEFINE D == DOMAIN its
           R == D \ {c}
           windows == Windows(R)
           links == [d \in R |-> its[d].matched]
           content == Allocation(windows, links)
           new == Omit(its, c)
<1>1. /\ IsFiniteSet(D) /\ D \subseteq Cands /\ D \subseteq Nat /\ Cardinality(D) \in Nat
      /\ \A d \in D : its[d].reasons \in Nat
      /\ Reasons(its) \in Nat /\ Kept(its) \in Nat /\ ToCut(its) \in Nat
    BY Countable
<1>2. /\ DOMAIN windows = R
      /\ \A d \in R : windows[d] \in SUBSET DOMAIN Cand(d).lines
    <2>1. DOMAIN windows = R /\ \A d \in R : windows[d] = Preferred(d, sel[d].covers)
        BY DEF Windows
    <2>2. \A d : Preferred(d, sel[d].covers) \in SUBSET DOMAIN Cand(d).lines
        BY DEF Preferred
    <2> QED BY <2>1, <2>2
<1> HIDE DEF windows, links
<1>3. \A d \in R : IsFiniteSet(windows[d]) /\ windows[d] \subseteq Nat
    <2> TAKE d \in R
    <2>1. IsFiniteSet(DOMAIN Cand(d).lines) /\ DOMAIN Cand(d).lines \subseteq Nat
        BY <1>1, CandTyped
    <2> QED BY <1>2, <2>1, FS_Subset
<1>4. IsFiniteSet(R) /\ R \subseteq Nat
    BY <1>1, FS_Subset
<1>5. /\ DOMAIN content = R
      /\ \A d \in R : content[d] \in SUBSET windows[d]
      /\ Over([d \in R |-> Cardinality(content[d])], R) <= MaxContent
    BY <1>2, <1>3, <1>4, AllocationBounded
<1>6. new = [d \in R |-> [its[d] EXCEPT !.kept = content[d]]]
    BY DEF Omit, windows, links
<1> HIDE DEF content
<1>7. ASSUME NEW d \in R
      PROVE  /\ new[d] = [reasons |-> its[d].reasons, kept |-> content[d], matched |-> its[d].matched]
             /\ new[d].reasons = its[d].reasons /\ new[d].kept = content[d]
             /\ new[d].matched = its[d].matched
    <2> DEFINE r == its[d].reasons  k == its[d].kept  m == its[d].matched
    <2>1. its[d] = [reasons |-> r, kept |-> k, matched |-> m]
        BY DEF Retains, Formed
    <2>2. new[d] = [its[d] EXCEPT !.kept = content[d]]
        BY <1>6
    <2> HIDE DEF r, k, m, new
    <2>3. new[d] = [reasons |-> r, kept |-> content[d], matched |-> m]
        BY <2>1, <2>2
    <2>4. new[d].reasons = r /\ new[d].kept = content[d] /\ new[d].matched = m
        BY <2>3
    <2> QED BY <2>3, <2>4 DEF r, m
<1>8. DOMAIN new = R /\ new = [d \in R |-> new[d]]
    BY <1>6
<1> HIDE DEF new
<1>9. Retains(new)
    <2>1. Formed(new)
        BY <1>7, <1>8 DEF Formed
    <2>2. \A d \in R : its[d].reasons \in 0..Len(Cand(d).reasons)
        BY DEF Retains
    <2>3. R \subseteq DOMAIN sel
        BY DEF Retains
    <2> QED BY <1>2, <1>5, <1>7, <1>8, <2>1, <2>2, <2>3 DEF Retains
<1>10. LinksNeeds(new)
    BY <1>7, <1>8 DEF LinksNeeds
<1>11. Kept(new) <= MaxContent
    <2>1. [d \in DOMAIN new |-> Cardinality(new[d].kept)] = [d \in R |-> Cardinality(content[d])]
        BY <1>7, <1>8
    <2> QED BY <1>5, <1>8, <2>1 DEF Kept
<1>12. Reasons(new) <= Reasons(its)
    <2> DEFINE f == [d \in D |-> its[d].reasons]
               e == [d \in R |-> new[d].reasons]
    <2>1. Reasons(its) = Over(f, D) /\ Reasons(new) = Over(e, R)
        BY <1>8 DEF Reasons
    <2>2. (\A d \in D : f[d] \in Nat) /\ \A d \in R : e[d] = f[d]
        BY <1>1, <1>7
    <2> HIDE DEF e, f
    <2>3. R \in SUBSET D
        OBVIOUS
    <2> HIDE DEF R, D
    <2>4. Over(e, R) = Over(f, R)
        BY <2>2, OverSame
    <2>5. Over(f, R) <= Over(f, D)
        BY <1>1, <2>2, <2>3, OverPart
    <2> QED BY <2>1, <2>4, <2>5
<1>13. Reasons(new) \in Nat /\ Kept(new) \in Nat /\ ToCut(new) \in Nat
    BY <1>9, Countable
<1>14. ToCut(new) < ToCut(its)
    <2> DEFINE n == Cardinality(R)  m == MaxContent + 2
    <2>1. n \in Nat /\ Cardinality(D) = n + 1
        <3>1. Cardinality(R) = Cardinality(D) - 1
            BY <1>1, FS_RemoveElement
        <3>2. Cardinality(R) \in Nat
            BY <1>4, FS_CardinalityType
        <3> HIDE DEF R, D
        <3> QED BY <1>1, <3>1, <3>2
    <2>2. m \in Nat /\ m = MaxContent + 2 /\ MaxContent \in Nat
        BY LimitsTyped
    <2>3. ToCut(new) = Reasons(new) + Kept(new) + (IF Fresh(new) THEN 0 ELSE 1) + n * m
        BY <1>8 DEF ToCut
    <2>4. ToCut(its) = Reasons(its) + Kept(its) + (IF Fresh(its) THEN 0 ELSE 1) + (n + 1) * m
        BY <2>1 DEF ToCut
    <2> HIDE DEF n, m
    <2>5. (n + 1) * m = n * m + m /\ n * m \in Nat
        BY <2>1, <2>2
    <2> DEFINE k == n * m
    <2>6. k \in Nat /\ ToCut(new) = Reasons(new) + Kept(new) + (IF Fresh(new) THEN 0 ELSE 1) + k
          /\ ToCut(its) = Reasons(its) + Kept(its) + (IF Fresh(its) THEN 0 ELSE 1) + (k + m)
        BY <2>3, <2>4, <2>5
    <2> HIDE DEF k
    <2> QED BY <1>1, <1>11, <1>12, <1>13, <2>2, <2>6
<1> QED BY <1>9, <1>10, <1>14 DEF new

\* An item too many.
LEMMA OmitItemPays ==
    ASSUME PackInv, CutsInv, OmitItem
    PROVE  CutsInv'
<1>1. PICK c \in DOMAIN items : Cut(Omit(Linked, c))
    BY DEF OmitItem
<1>2. /\ DOMAIN Linked = DOMAIN items /\ Retains(Linked) /\ LinksNeeds(Linked)
      /\ ToCut(Linked) <= ToCut(items)
    BY LinkedCounts
<1>3. input \in PackInputs /\ DOMAIN sel \subseteq Cands /\ ToCut(items) \in Nat
    BY BeforeCut
<1>4. /\ Retains(Omit(Linked, c)) /\ LinksNeeds(Omit(Linked, c))
      /\ ToCut(Omit(Linked, c)) < ToCut(Linked)
    BY <1>2, <1>3, OmitCounts
<1>5. ToCut(Linked) \in Nat /\ ToCut(Omit(Linked, c)) \in Nat
    BY <1>2, <1>3, <1>4, Countable
<1>6. ToCut(Omit(Linked, c)) < ToCut(items)
    BY <1>2, <1>3, <1>4, <1>5
<1>7. phase = "compact"
    BY DEF OmitItem, CuttingContent, Cutting
<1> QED BY <1>1, <1>4, <1>6, <1>7, CutPays

\* An item that has no excerpt left.
LEMMA OmitEmptyPays ==
    ASSUME PackInv, CutsInv, OmitEmpty
    PROVE  CutsInv'
<1>1. PICK c \in Empty : Cut(Omit(items, c))
    BY DEF OmitEmpty
<1>2. c \in DOMAIN items /\ phase = "compact"
    BY DEF Empty, OmitEmpty
<1>3. /\ Retains(Omit(items, c)) /\ LinksNeeds(Omit(items, c))
      /\ ToCut(Omit(items, c)) < ToCut(items)
    BY <1>2, BeforeCut, OmitCounts
<1> QED BY <1>1, <1>2, <1>3, CutPays

\* The end of a pass is no turn; it leaves no stale link.
LEMMA EndPassPays ==
    ASSUME PackInv, CutsInv, EndPass
    PROVE  CutsInv'
<1>1. /\ items' = Relink(items) /\ phase = "compact" /\ phase' \in {"compact", "review"}
      /\ UNCHANGED <<input, sel, limit, turns>>
    BY DEF EndPass
<1>2. /\ Retains(Linked) /\ LinksNeeds(Linked) /\ ToCut(Linked) <= ToCut(items)
    BY LinkedCounts
<1>3. /\ limit \in Nat /\ turns \in Nat /\ ToCut(items) \in Nat
      /\ input \in PackInputs /\ DOMAIN sel \subseteq Cands
    BY BeforeCut
<1>4. ToCut(Linked) \in Nat
    BY <1>2, <1>3, Countable
<1>5. turns' + limit' + ToCut(Linked) <= turns + limit + ToCut(items)
    BY <1>1, <1>2, <1>3, <1>4
<1>6. limit' \in Nat /\ turns' \in Nat /\ items' = Linked
    BY <1>1, <1>3 DEF Linked
<1> QED BY <1>1, <1>2, <1>5, <1>6, TurnPaid

\* The first items retain all reasons, and content that is shared out.
LEMMA MaterializePays ==
    ASSUME PackInv, CutsInv, Materialize
    PROVE  CutsInv'
<1> DEFINE D == DOMAIN sel
           windows == Windows(D)
           links == [c \in D |-> sel[c].covers]
           content == Allocation(windows, links)
           its == [c \in D |-> [reasons |-> Len(Cand(c).reasons), kept |-> content[c],
                                matched |-> sel[c].covers]]
           new == Relink(its)
<1>1. /\ items' = new /\ phase' = "compact" /\ limit' = MaxItems /\ turns' = 0
      /\ UNCHANGED <<input, sel>>
    BY DEF Materialize
<1>2. /\ input \in PackInputs /\ D \subseteq Cands
      /\ IsFiniteSet(D) /\ D \subseteq Nat
    <2>1. input \in PackInputs /\ D \subseteq Cands
        BY DEF PackInv, SelectionInv
    <2> QED BY <2>1, CandsNumbered, FS_Subset
<1>3. /\ DOMAIN windows = D
      /\ \A c \in D : windows[c] \in SUBSET DOMAIN Cand(c).lines
    <2>1. DOMAIN windows = D /\ \A c \in D : windows[c] = Preferred(c, sel[c].covers)
        BY DEF Windows
    <2>2. \A c : Preferred(c, sel[c].covers) \in SUBSET DOMAIN Cand(c).lines
        BY DEF Preferred
    <2> QED BY <2>1, <2>2
<1> HIDE DEF windows, links
<1>4. \A c \in D : IsFiniteSet(windows[c]) /\ windows[c] \subseteq Nat
    <2> TAKE c \in D
    <2>1. IsFiniteSet(DOMAIN Cand(c).lines) /\ DOMAIN Cand(c).lines \subseteq Nat
        BY <1>2, CandTyped
    <2> QED BY <1>3, <2>1, FS_Subset
<1>5. /\ \A c \in D : content[c] \in SUBSET windows[c]
      /\ Over([c \in D |-> Cardinality(content[c])], D) <= MaxContent
    BY <1>2, <1>3, <1>4, AllocationBounded
<1> HIDE DEF content
<1>6. /\ DOMAIN its = D /\ its = [c \in D |-> its[c]]
      /\ \A c \in D : its[c] = [reasons |-> Len(Cand(c).reasons), kept |-> content[c],
                                matched |-> sel[c].covers]
    OBVIOUS
<1> HIDE DEF its
<1>7. \A c \in D : /\ its[c].reasons = Len(Cand(c).reasons) /\ its[c].kept = content[c]
                   /\ its[c].matched = sel[c].covers
    BY <1>6
<1>8. Retains(its)
    <2>1. Formed(its)
        BY <1>6, <1>7 DEF Formed
    <2>2. \A c \in D : its[c].reasons \in 0..Len(Cand(c).reasons)
        <3> TAKE c \in D
        <3>1. Len(Cand(c).reasons) \in Nat
            BY <1>2, CandTyped
        <3> QED BY <1>7, <3>1
    <2> QED BY <1>3, <1>5, <1>6, <1>7, <2>1, <2>2 DEF Retains
<1>9. /\ Retains(new) /\ LinksNeeds(new)
      /\ ToCut(new) = Reasons(its) + Kept(its) + Cardinality(D) * (MaxContent + 2)
    BY <1>2, <1>6, <1>8, RelinkCounts
<1>10. Kept(its) <= MaxContent
    <2>1. [c \in DOMAIN its |-> Cardinality(its[c].kept)] = [c \in D |-> Cardinality(content[c])]
        BY <1>6, <1>7
    <2> QED BY <1>5, <1>6, <2>1 DEF Kept
<1>11. Reasons(its) = ReasonsSelected
    <2>1. [c \in DOMAIN its |-> its[c].reasons] = [c \in D |-> Len(Cand(c).reasons)]
        BY <1>6, <1>7
    <2> DEFINE e == [c \in D |-> Len(Cand(c).reasons)]
    <2>2. [c \in D |-> e[c]] = e
        OBVIOUS
    <2> HIDE DEF e
    <2>3. Reasons(its) = SumFunction(e)
        BY <1>6, <2>1, <2>2 DEF Reasons, Over, e
    <2> QED BY <2>3 DEF ReasonsSelected, e
<1> HIDE DEF new, D
<1>12. 0 + MaxItems + ToCut(new) <= AtFirst
    <2> DEFINE n == Cardinality(D) * (MaxContent + 2)
    <2>1. n \in Nat
        <3> DEFINE k == Cardinality(D)  m == MaxContent + 2
        <3>0. k \in Nat
            BY <1>2, FS_CardinalityType DEF D
        <3>1. k \in Nat /\ m \in Nat
            BY <3>0, LimitsTyped
        <3> HIDE DEF k, m
        <3>2. k * m \in Nat
            BY <3>1
        <3> QED BY <3>2 DEF k, m
    <2>2. Reasons(its) \in Nat /\ Kept(its) \in Nat /\ MaxItems \in Nat /\ MaxContent \in Nat
        <3>1. Reasons(its) \in Nat /\ Kept(its) \in Nat
            BY <1>2, <1>8, Countable DEF D
        <3> QED BY <3>1, LimitsTyped
    <2>3. AtFirst = MaxItems + Reasons(its) + MaxContent + n
        BY <1>11 DEF AtFirst, D
    <2>4. ToCut(new) = Reasons(its) + Kept(its) + n
        BY <1>9
    <2> HIDE DEF n
    <2> QED BY <1>10, <2>1, <2>2, <2>3, <2>4
<1>13. \A c : Cand(c)' = Cand(c)
    BY <1>1 DEF Cand
<1>14. Retains(items)' /\ LinksNeeds(items)'
    BY <1>1, <1>9, <1>13 DEF Retains, LinksNeeds, Formed
<1>15. ToCut(items)' = ToCut(new)
    <2>1. \A c : Shown(items, c)' = Shown(new, c)
        BY <1>1, <1>13 DEF Shown, ShownBy
    <2>2. Fresh(items)' <=> Fresh(new)
        BY <1>1, <2>1 DEF Fresh
    <2>3. Reasons(items)' = Reasons(new) /\ Kept(items)' = Kept(new)
        BY <1>1 DEF Reasons, Kept, Over
    <2> QED BY <1>1, <2>2, <2>3 DEF ToCut
<1>16. AtFirst' = AtFirst
    <2>1. ReasonsSelected' = ReasonsSelected
        BY <1>1, <1>13 DEF ReasonsSelected
    <2> QED BY <1>1, <2>1 DEF AtFirst
<1>17. MaxItems \in Nat /\ 0 \in Nat
    BY LimitsTyped
<1>18. turns' + limit' + ToCut(items)' <= AtFirst'
    BY <1>1, <1>12, <1>15, <1>16
<1> QED BY <1>1, <1>14, <1>17, <1>18 DEF CutsInv

\* Steps that leave candidates, selection and items as they are.
LEMMA CutsLeft ==
    ASSUME CutsInv, UNCHANGED <<input, sel, items, limit, turns>>, phase' = "select" <=> phase = "select"
    PROVE  CutsInv'
<1>1. \A c : Cand(c)' = Cand(c)
    BY DEF Cand
<1>2. Retains(items)' /\ LinksNeeds(items)'
    BY <1>1 DEF CutsInv, Retains, LinksNeeds, Formed
<1>3. ToCut(items)' = ToCut(items)
    <2>1. \A c : Shown(items, c)' = Shown(items, c)
        BY <1>1 DEF Shown, ShownBy
    <2>2. Fresh(items)' <=> Fresh(items)
        BY <2>1 DEF Fresh
    <2>3. Reasons(items)' = Reasons(items) /\ Kept(items)' = Kept(items)
        BY DEF Reasons, Kept, Over
    <2> QED BY <2>2, <2>3 DEF ToCut
<1>4. AtFirst' = AtFirst
    <2>1. ReasonsSelected' = ReasonsSelected
        BY <1>1 DEF ReasonsSelected
    <2> QED BY <2>1 DEF AtFirst
<1> QED BY <1>2, <1>3, <1>4 DEF CutsInv

\* A round begins without items.
LEMMA NothingToCut ==
    ASSUME CutsInv, phase' = "select", turns' = 0, limit' = limit, DOMAIN items' = {}, items' = <<>>
    PROVE  CutsInv'
<1>1. items' = [c \in DOMAIN items' |-> items'[c]]
    OBVIOUS
<1> QED BY <1>1 DEF CutsInv, Retains, LinksNeeds, Formed

\* While candidates are selected no turn is taken.
LEMMA SelectPays ==
    ASSUME CutsInv, phase = "select", NEW c, NEW rest, Select(c, rest)
    PROVE  CutsInv'
<1>1. /\ DOMAIN sel' = DOMAIN sel \union {c}
      /\ UNCHANGED <<input, phase, items, limit, turns>>
    BY DEF Select
<1>2. \A d : Cand(d)' = Cand(d)
    BY <1>1 DEF Cand
<1>3. Retains(items)' /\ LinksNeeds(items)'
    BY <1>1, <1>2 DEF CutsInv, Retains, LinksNeeds, Formed
<1> QED BY <1>1, <1>3 DEF CutsInv

\* Before the first round nothing is cut.
LEMMA CutsInit == Init => CutsInv
<1> SUFFICES ASSUME Init PROVE CutsInv
    OBVIOUS
<1>1. limit = MaxItems /\ turns = 0 /\ phase = "select" /\ items = <<>> /\ DOMAIN items = {}
    BY DEF Init
<1>2. limit \in Nat /\ turns \in Nat
    BY <1>1, LimitsTyped
<1>3. items = [c \in DOMAIN items |-> items[c]]
    BY <1>1
<1> QED BY <1>1, <1>2, <1>3 DEF CutsInv, Retains, LinksNeeds, Formed

\* Every step pays for its turn.
LEMMA CutsNext == PackInv /\ CutsInv /\ [Next]_packVars => CutsInv'
<1> SUFFICES ASSUME PackInv, CutsInv, [Next]_packVars PROVE CutsInv'
    OBVIOUS
<1>1. CASE SelectForNeed
    <2>1. phase = "select" /\ \E c \in Cands : Select(c, open \ Coverage(c))
        BY <1>1 DEF SelectForNeed
    <2> QED BY <2>1, SelectPays
<1>2. CASE SelectFiller
    <2>1. phase = "select" /\ \E c \in Cands \ DOMAIN sel : Select(c, open)
        BY <1>2 DEF SelectFiller
    <2> QED BY <2>1, SelectPays
<1>3. CASE Materialize
    BY <1>3, MaterializePays
<1>4. CASE DropOmission
    BY <1>4, DropOmissionPays
<1>5. CASE DropReason
    BY <1>5, DropReasonPays
<1>6. CASE NoLongerTooBig
    BY <1>6, NoLongerTooBigPays
<1>7. CASE ShrinkContent
    BY <1>7, ShrinkPays
<1>8. CASE OmitItem
    BY <1>8, OmitItemPays
<1>9. CASE OmitEmpty
    BY <1>9, OmitEmptyPays
<1>10. CASE CannotFit
    <2>1. /\ UNCHANGED <<input, sel, items, limit, turns>> /\ phase = "compact" /\ phase' = "failed"
        BY <1>10 DEF CannotFit, CuttingContent, Cutting
    <2> QED BY <2>1, CutsLeft
<1>11. CASE EndPass
    BY <1>11, EndPassPays
<1>12. CASE Retry
    <2>1. CASE LastRound
        <3>1. /\ UNCHANGED <<input, sel, items, limit, turns>> /\ phase = "review" /\ phase' = "failed"
            BY <1>12, <2>1 DEF Retry
        <3> QED BY <3>1, CutsLeft
    <2>2. CASE ~LastRound
        <3>1. phase' = "select" /\ turns' = 0 /\ limit' = limit /\ items' = <<>> /\ DOMAIN items' = {}
            BY <1>12, <2>2 DEF Retry
        <3> QED BY <3>1, NothingToCut
    <2> QED BY <2>1, <2>2
<1>13. CASE Finalize
    <2>1. /\ UNCHANGED <<input, sel, items, limit, turns>> /\ phase = "review" /\ phase' # "select"
        BY <1>13 DEF Finalize
    <2> QED BY <2>1, CutsLeft
<1>14. CASE UNCHANGED packVars
    <2>1. UNCHANGED <<input, sel, items, limit, turns, phase>>
        BY <1>14 DEF packVars
    <2> QED BY <2>1, CutsLeft
<1> QED BY <1>1, <1>2, <1>3, <1>4, <1>5, <1>6, <1>7, <1>8, <1>9, <1>10, <1>11, <1>12, <1>13, <1>14
        DEF Next, Finished

\* The turns never exceed what there was to cut.
LEMMA CutsInvariance == Spec => []CutsInv
BY PackInvariance, CutsInit, CutsNext, PTL DEF Spec

-----------------------------------------------------------------------------
(* The theorems *)

\* build_context_pack never blocks the last candidate that covers a need: whatever was cut
\* and however many rounds were begun, a need that some candidate shows can be selected for.
THEOREM LastProviderStays == Spec => []NoNeedGivenUp
<1>1. PackInv => NoNeedGivenUp
    BY DEF PackInv
<1> QED BY <1>1, PackInvariance, PTL

\* A pack whose status is "ready" retains text for every required need: the links that the
\* status is computed from were made afresh from what the cuts left.
THEOREM ReadyMeansShown == Spec => []ReadyIsShown
<1>1. PackInv => ReadyIsShown
    <2> SUFFICES ASSUME PackInv, phase = "done", Status = "ready", NEW n \in Required
                 PROVE  \E c \in DOMAIN items : n \in Shown(items, c)
        BY DEF ReadyIsShown
    <2>1. Required \ Matched(items) = {}
        BY DEF Status
    <2>2. PICK c \in DOMAIN items : n \in items[c].matched
        BY <2>1 DEF Matched
    <2> QED BY <2>2 DEF PackInv, ItemsInv
<1> QED BY <1>1, PackInvariance, PTL

\* The compaction loop of build_context_pack ends in every round, for any candidates, costs
\* and limits: each turn drops a preview, a reason, a line, stale links or an item, and the
\* content that an omission shares out again is no more than its item stood for.
THEOREM CompactionEnds == Spec => []LoopEnds
<1>1. PackInv /\ CutsInv => LoopEnds
    <2> SUFFICES ASSUME PackInv, CutsInv PROVE LoopEnds
        OBVIOUS
    <2>1. DOMAIN sel \subseteq Cands /\ input \in PackInputs
        BY DEF PackInv, SelectionInv
    <2>2. IsFiniteSet(DOMAIN sel)
        BY <2>1, CandsNumbered, FS_Subset
    <2> DEFINE e == [c \in DOMAIN sel |-> Len(Cand(c).reasons)]
    <2>3. \A c \in DOMAIN sel : e[c] \in Nat
        BY <2>1, CandTyped
    <2>4. ReasonsSelected = Over(e, DOMAIN sel)
        BY DEF ReasonsSelected, Over
    <2> HIDE DEF e
    <2>5. ReasonsSelected \in Nat
        <3>1. DOMAIN sel \in SUBSET DOMAIN sel
            OBVIOUS
        <3> QED BY <2>2, <2>3, <2>4, <3>1, OverPart
    <2> DEFINE n == Cardinality(DOMAIN sel)  m == MaxContent + 2
    <2>6. n \in Nat /\ m \in Nat /\ m = MaxContent + 2 /\ MaxItems \in Nat /\ MaxContent \in Nat
        <3>1. n \in Nat
            BY <2>2, FS_CardinalityType
        <3> QED BY <3>1, LimitsTyped
    <2>7. turns \in Nat /\ limit \in Nat /\ ToCut(items) \in Nat
        BY BeforeCut
    <2>8. phase = "select" => turns = 0
        BY DEF CutsInv
    <2>9. phase # "select" => turns + limit + ToCut(items) <= MaxItems + ReasonsSelected + MaxContent + n * m
        BY DEF CutsInv, AtFirst
    <2>10. LoopEnds <=> turns <= MaxItems + ReasonsSelected + (n + 2) * m
        BY DEF LoopEnds
    <2> HIDE DEF n, m
    <2> DEFINE k == n * m
    <2>11. k \in Nat /\ (n + 2) * m = k + 2 * m
        BY <2>6
    <2>12. phase # "select" => turns + limit + ToCut(items) <= MaxItems + ReasonsSelected + MaxContent + k
        BY <2>9
    <2> HIDE DEF k
    <2>13. turns <= MaxItems + ReasonsSelected + (k + 2 * m)
        BY <2>5, <2>6, <2>7, <2>8, <2>11, <2>12
    <2> QED BY <2>10, <2>11, <2>13
<1> QED BY <1>1, PackInvariance, CutsInvariance, PTL
=============================================================================
