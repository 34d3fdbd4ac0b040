----------------------------- MODULE AnswerText -----------------------------
(***************************************************************************)
(* The text a query shows.                                                 *)
(*                                                                         *)
(* The index holds chunks, line ranges of the bodies a run has read.  A    *)
(* query reads the files again, one after the other, widens the ranges by  *)
(* the context asked for, and merges those that touch; the user may change *)
(* the files since the run, and between two of these reads.  A file that   *)
(* is gone is replaced by the text of the chunk.                           *)
(*                                                                         *)
(* This module continues ObservedRead: what an accepted run has read is    *)
(* the index.  Scores only order the chunks, and any order is allowed.     *)
(* Left out are whole-file answers, and the raw content of a result, which *)
(* loses a blank line where two windows are joined.                        *)
(***************************************************************************)
EXTENDS ObservedRead

CONSTANTS
    ChunkLines,     \* max_lines of a chunk
    Windows,        \* context lines a query may ask for
    Standings,      \* evidence a chunk may have: sets of "direct" and "graph"
    MaxRanked,      \* bound: chunks a query ranks
    MaxMerged       \* MAX_MERGED_RESULT_BYTES, in lines

VARIABLES
    ranked,         \* the chunks the query still has to show, best first
    window,         \* context lines
    standing,       \* chunk -> evidence of its own, from graph relations, or both
    texts,          \* expanded results, in the order of the chunks
    answer,         \* merged results
    reads           \* history: each chunk with the lines it was cut from

ASSUME QueriesAssumption ==
    /\ ChunkLines \in Nat \ {0} /\ Windows \subseteq Nat
    /\ Standings \subseteq SUBSET {"direct", "graph"}

queryVars == <<ranked, window, standing, texts, answer, reads>>
allVars == <<vars, queryVars>>

LeastOf(a, b) == IF a < b THEN a ELSE b
MostOf(a, b) == IF a < b THEN b ELSE a

-----------------------------------------------------------------------------
(* The index *)

Chunk(f, body, from, to) == [file |-> f, from |-> from, to |-> to, text |-> SubSeq(body, from, to)]

\* chunk_text
Chunks(f, body) ==
    {Chunk(f, body, i, LeastOf(i + ChunkLines - 1, Len(body))) :
        i \in {j \in DOMAIN body : (j - 1) % ChunkLines = 0}}

Index == UNION {Chunks(f, results[f].body) : f \in {g \in Files : results[g].status = "read"}}

Rankings == {r \in UNION {[1..n -> Index] : n \in 1..MaxRanked} : IsInjective(r)}

\* The run's inventories and reads are over; the query has what they left in the index.
BeginQuery ==
    /\ step = "accepted"
    /\ ranked' \in Rankings
    /\ window' \in Windows
    /\ standing' \in [ToSet(ranked') -> Standings]
    /\ stage' = "query" /\ step' = "text"
    /\ opening' = NoInventory /\ current' = NoInventory
    /\ results' = [f \in Files |-> Unseen]
    /\ versions' = [t \in DOMAIN versions |-> <<>>]
    /\ late' = [name \in Names |-> Gone] /\ left' = {}
    /\ texts' = <<>> /\ answer' = {} /\ reads' = {}
    /\ UNCHANGED <<disk, inodes, edits, names, fd, interrupted>>

-----------------------------------------------------------------------------
(* The text of one chunk *)

\* expand_lines: a range is moved inside the file as it is now, then widened.
Expand(lines, from, to) ==
    LET first == LeastOf(MostOf(1, from), Len(lines))
        last == LeastOf(MostOf(1, to), Len(lines))
        start == MostOf(1, LeastOf(first, last) - window)
        end == LeastOf(Len(lines), last + window)
    IN  [start |-> start, end |-> end, lines |-> SubSeq(lines, start, end)]

\* The file, or the chunk's own text in its place.
Source(c) == IF disk[c.file] = None THEN c.text ELSE inodes[disk[c.file]].data

\* A file without lines has no range: _join_expanded_result_lines raises.
ReadText ==
    /\ step = "text" /\ ranked # <<>>
    /\ LET c == Head(ranked)
           lines == Source(c)
           e == Expand(lines, c.from, c.to)
       IN  IF lines = <<>> THEN step' = "failed" /\ UNCHANGED queryVars
           ELSE /\ texts' = Append(texts, [file |-> c.file, start |-> e.start, end |-> e.end,
                                           lines |-> e.lines, standing |-> standing[c],
                                           rank |-> Len(texts) + 1])
                /\ ranked' = Tail(ranked)
                /\ reads' = reads \union {[chunk |-> c, lines |-> lines, gone |-> disk[c.file] = None]}
                /\ UNCHANGED <<step, window, standing, answer>>
    /\ UNCHANGED <<userVars, stage, names, fd, current, opening, results, interrupted, late, left>>

-----------------------------------------------------------------------------
(* Merging *)

\* Results of one file by range, the better one of equal ranges first.
InOrder(f) ==
    LET mine == {i \in DOMAIN texts : texts[i].file = f}
        before(i, j) ==
            \/ texts[i].start < texts[j].start
            \/ /\ texts[i].start = texts[j].start
               /\ texts[i].end < texts[j].end \/ (texts[i].end = texts[j].end /\ i < j)
    IN  [k \in 1..Cardinality(mine) |->
            texts[CHOOSE i \in mine : Cardinality({j \in mine : before(j, i)}) = k - 1]]

\* Mutant: the joined text repeats the line both have.
JoinTouching(l, r) ==
    LET overlap == MostOf(0, l.end - r.start)
    IN  [l EXCEPT !.end = MostOf(l.end, r.end),
                  !.lines = @ \o SubSeq(r.lines, overlap + 1, Len(r.lines))]

\* _merge_expanded_result: the evidence of the better one, the relations of both.
Join(l, r) ==
    LET overlap == MostOf(0, l.end - r.start + 1)
        winner == IF l.rank < r.rank THEN l ELSE r
    IN  [l EXCEPT !.end = MostOf(l.end, r.end),
                  !.lines = @ \o SubSeq(r.lines, overlap + 1, Len(r.lines)),
                  !.rank = winner.rank,
                  !.standing = ({"direct"} \intersect winner.standing)
                                   \union ({"graph"} \intersect (l.standing \union r.standing))]

\* _protected_graph_pair
Protected(l, r) ==
    \/ "direct" \in l.standing /\ "graph" \in r.standing
    \/ "direct" \in r.standing /\ "graph" \in l.standing

Mergeable(l, r) ==
    /\ r.start <= l.end + 1 /\ ~Protected(l, r)
    /\ Len(Join(l, r).lines) <= MaxMerged

\* Mutant: the result before one that touches it and may not be merged is forgotten.
MergeInForgets(acc, r) ==
    IF Mergeable(Last(acc), r) THEN Append(Front(acc), Join(Last(acc), r))
    ELSE IF r.start <= Last(acc).end + 1 THEN Append(Front(acc), r) ELSE Append(acc, r)

\* _merge_overlapping_results
MergeIn(acc, r) ==
    IF Mergeable(Last(acc), r) THEN Append(Front(acc), Join(Last(acc), r)) ELSE Append(acc, r)

MergeOf(f) ==
    LET parts == InOrder(f)
    IN  IF parts = <<>> THEN <<>> ELSE FoldLeft(MergeIn, <<Head(parts)>>, Tail(parts))

Merge ==
    /\ step = "text" /\ ranked = <<>>
    /\ answer' = UNION {ToSet(MergeOf(f)) : f \in Files}
    /\ step' = "answered"
    /\ UNCHANGED <<userVars, stage, names, fd, current, opening, results, interrupted, late, left,
                   ranked, window, standing, texts, reads>>

-----------------------------------------------------------------------------
AnswerInit ==
    /\ Init
    /\ ranked = <<>> /\ window = 0 /\ standing = <<>> /\ texts = <<>> /\ answer = {} /\ reads = {}

AnswerNext ==
    \/ Next /\ UNCHANGED queryVars
    \/ BeginQuery \/ ReadText \/ Merge

AnswerSpec == AnswerInit /\ [][AnswerNext]_allVars

-----------------------------------------------------------------------------
(* Properties *)

\* A line of an answer is that line of the file, as one of the reads found it: neither
\* files that grow or shrink between two reads, nor merging, nor the move of a stale
\* range into a shorter file puts a line at another place.  Text that stands in for a
\* file that is gone is the exception: it is numbered as if the file began with it.
LinesInPlace ==
    \A r \in answer :
        \/ \E x \in reads : x.chunk.file = r.file /\ x.gone
        \/ /\ Len(r.lines) = r.end - r.start + 1
           /\ \A k \in DOMAIN r.lines :
                 \E x \in reads : /\ x.chunk.file = r.file
                                  /\ r.start + k - 1 <= Len(x.lines)
                                  /\ x.lines[r.start + k - 1] = r.lines[k]

\* What was recalled is shown: a chunk whose lines stood in the file at every read of it
\* is in some result, word for word and at its place, however the others were merged.
RecalledIsShown ==
    step = "answered" =>
        \A x \in reads :
            LET c == x.chunk
                holds(lines, start) == \A i \in 1..Len(c.text) :
                    LET k == c.from + i - start
                    IN  k \in DOMAIN lines /\ lines[k] = c.text[i]
            IN  (\A y \in reads : y.chunk.file = c.file => ~y.gone /\ holds(y.lines, 1))
                    => \E r \in answer : r.file = c.file /\ holds(r.lines, r.start)

\* "queryable=true means current inspection evidence found no P5 query blocker": a query
\* of a ready index gives an answer, whatever became of the files since.
QueriesAnswer == step # "failed"
=============================================================================
