---------------------------- MODULE MCContextPack ----------------------------
(* Builds of ContextPack: three candidates and the needs they show, under   *)
(* pack budgets from one that holds nothing to one that cuts nothing.       *)
EXTENDS ContextPack

Plain(lines) == [path |-> {}, reasons |-> <<>>, lines |-> lines]

MCCands ==
    {Plain(lines) : lines \in {<<{}>>, <<{}, {1}>>, <<{1}, {2}>>, <<{}, {1, 2}>>}}
        \union {[path |-> {}, reasons |-> <<{2}>>, lines |-> <<{1}>>],
                [path |-> {}, reasons |-> <<{2}, {}>>, lines |-> <<{}, {1}>>],
                [path |-> {1}, reasons |-> <<>>, lines |-> <<{}, {2}>>]}

\* No pack budget presses these: what limits them is two items of two excerpts.
MCTightSelection ==
    {[cands |-> <<Plain(<<{1}, {2}, {3}>>), Plain(<<{2}, {3}, {1, 4}>>), Plain(<<{2}, {4}, {3}>>)>>,
      required |-> {1, 2, 3, 4}, bytes |-> 40],
     [cands |-> <<Plain(<<{1}, {2}, {3}>>), Plain(<<{2}, {4}, {3}>>), Plain(<<{4}, {3}, {2}, {1}>>)>>,
      required |-> {1, 2, 3, 4}, bytes |-> 40]}

MCInputs ==
    [cands : [1..3 -> MCCands], required : {{1}, {1, 2}}, bytes : {7, 10, 12, 13, 15, 17, 21}]
        \union MCTightSelection
=============================================================================
