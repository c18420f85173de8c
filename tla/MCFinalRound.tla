---------------------------- MODULE MCFinalRound ----------------------------
(* Instances of FinalRound for TLC.                                        *)
EXTENDS FinalRound, TLC

FourThemes == {<<t, 1>> : t \in 1..4}
ThreeThemes == {<<1, 1>>, <<2, 1>>, <<3, 1>>}
TwoCells == {<<1, 1>>, <<1, 2>>}
FirstIsForAll == {<<1, 1>>}

\* A tie of players at zero in an oral game; a leader, with three deletions, so
\* that the order of the two is rotated by one; and a round of all the questions
\* for the only player above zero, against the round timer.
TieLeaderAlone ==
    {[table |-> ThreeThemes, scores |-> [p \in Players |-> 0],
      oral |-> TRUE, playAll |-> FALSE, everyone |-> TRUE, timed |-> FALSE],
     [table |-> FourThemes, scores |-> [p \in Players |-> p],
      oral |-> FALSE, playAll |-> FALSE, everyone |-> FALSE, timed |-> FALSE],
     [table |-> TwoCells, scores |-> [p \in Players |-> p - 1],
      oral |-> FALSE, playAll |-> TRUE, everyone |-> TRUE, timed |-> TRUE]}

\* Three players and two deletions: all apart, and two behind the leader.
ThreeAtTheTable ==
    {[table |-> ThreeThemes, scores |-> s,
      oral |-> FALSE, playAll |-> FALSE, everyone |-> FALSE, timed |-> FALSE] :
        s \in {[p \in Players |-> p], [p \in Players |-> IF p = 3 THEN 2 ELSE 1]}}
=============================================================================
