---------------------------- MODULE MCExploration ----------------------------
(* Explorations of a repository of three paths for four goals, one of each   *)
(* kind, with snapshots in which the paths gain and lose what they show.     *)
EXTENDS Exploration

CONSTANTS a, b, c

MCKind == <<"required", "role", "recommended", "structural">>

Texts(x, y, z) == a :> x @@ b :> y @@ c :> z

MCSnapshots ==
    {Texts({1}, {2}, {3, 4}), Texts({1, 3}, {1, 2}, {4}), Texts({3}, {1, 2, 4}, {2}),
     Texts({}, {2, 3}, {1})}

MCRankings == SeqOf({{1}, {2}, {3}, {4}, {1, 2}, {2, 3}}, 3)
=============================================================================
