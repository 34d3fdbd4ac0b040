---------------------------- MODULE MCAnswerText ----------------------------
(* Two files and a control file, which ignores the second or nothing. *)
EXTENDS AnswerText

\* Two chunks are either kept apart or not.
MCStandings == {{"direct"}, {"graph"}}
MCTexts == {<<Text, 2>>, <<Text, NUL>>}
MCWorkspaces ==
    {[name \in Names |-> IF name = Control THEN c ELSE IF name = 1 THEN a ELSE b] :
        c \in {Gone, <<Text, NUL>>}, a \in {<<2, Text>>, <<2, 2, 2>>}, b \in {Gone, <<2, NUL>>}}

\* One file that is read, and no control file.
MCOneFile == {[name \in Names |-> IF name = Control THEN Gone ELSE <<2, Text>>]}
=============================================================================
