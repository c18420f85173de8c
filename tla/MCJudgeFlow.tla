---------------------------- MODULE MCJudgeFlow -----------------------------
(* Instances of JudgeFlow for TLC.                                         *)
EXTENDS JudgeFlow, TLC

\* An answer of the pack, and one the fuzzy judge does not know.
OneExact == ("known" :> "right") @@ ("other" :> "wrong")

Room(m, q, f, n) == [mode |-> m, table |-> {q}, flaky |-> f, moves |-> n]

\* Each showman mode with a plain and a hidden question; requests that fail.
EachMode ==
    {Room(m, "q1", FALSE, 1) : m \in {"human", "hybrid"}} \union {Room("ai", "q1", FALSE, 2)}
    \union {Room("ai", "q2", FALSE, 0), Room("hybrid", "q2", FALSE, 0), Room("human", "q2", FALSE, 2)}
    \union {Room("ai", "q1", TRUE, 0)}
=============================================================================
