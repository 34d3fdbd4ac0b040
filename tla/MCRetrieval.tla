---------------------------- MODULE MCRetrieval ----------------------------
(* Four chunks of three files; signal 5 stands for the file of chunks 1 and 2. *)
EXTENDS Retrieval

Rel(id, src, dst, cost, dir) == [id |-> id, src |-> src, dst |-> dst, cost |-> cost, dir |-> dir]
MCRelations == {Rel(1, 5, 3, 3, "outgoing"), Rel(2, 2, 4, 1, "both"), Rel(3, 4, 3, 1, "outgoing"),
                Rel(4, 3, 1, 1, "both"), Rel(5, 1, 4, 2, "tests")}
MCGraphs == {g \in SUBSET MCRelations : Cardinality(g) \in {4, 5}}
MCFileOf == <<1, 1, 2, 3>>
MCChunkOf == <<1, 2, 3, 4, 1>>
MCSeedCost == <<2, 1, 1, 3>>

\* At most two chunks are recalled.
Kinds == {{"text"}, {"signal"}, {"plain", "plannerSignal"}}
MCRecalls == {h \in [Chunks -> Kinds \union {{}}] : Cardinality({c \in Chunks : h[c] # {}}) <= 2}
=============================================================================
