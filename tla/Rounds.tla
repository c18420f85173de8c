------------------------------- MODULE Rounds -------------------------------
(***************************************************************************)
(* What the rounds of a game promise, whatever the mode, the timers and    *)
(* the questions are: a round is played from its own table, a cell at a    *)
(* time; it is left when the table is empty, when its time is up, when     *)
(* nobody is at the table, or by the showman; once its time is up, only a  *)
(* selection already under way still leads to a question; rounds follow    *)
(* each other in the order of the pack; and a game that is over stays so.  *)
(* RoundFlow implements this.                                              *)
(***************************************************************************)
EXTENDS Integers, Sequences, FiniteSets

VARIABLES
    tables,   \* the tables of the rounds: a sequence of sets of cells
    instant,  \* cells that are over as soon as they are drawn
    round,    \* the round dealt last, 0 before the first
    phase,    \* "before" the first round, "play", "done" with a round, "over", "broken" off
    left,     \* cells that may still be chosen
    time,     \* "none": no limit; "running", "held", "lastCall", "up"
    present,  \* who is at the table
    staff     \* interventions of the showman

vars == <<tables, instant, round, phase, left, time, present, staff>>

Staff == staff' = staff + 1
Nobody == present' = {}
Dealing == phase \in {"play", "done"}

\* Why a round may be left.
Finished ==
    \/ phase = "done"
    \/ left' = {} \/ (left \subseteq instant /\ Cardinality(left) <= 1)
    \/ time \notin {"none", "held"}
    \/ Nobody \/ Staff

\* No round from r on can be played.
Exhausted(r) == Nobody \/ \A i \in DOMAIN tables : i >= r => tables[i] = {}

Start ==
    /\ phase = "before" /\ phase' = "play"
    /\ round' \in DOMAIN tables /\ \A i \in 1..(round' - 1) : tables[i] = {}
    /\ left' \subseteq tables[round'] /\ time' \in {"none", "running"}

Play ==
    /\ phase = "play" /\ time # "up"
    /\ \E c \in left : left' = left \ {c}
    /\ time' = IF time = "lastCall" THEN "up" ELSE time
    /\ UNCHANGED <<round, phase>>

\* A question is given back, or a cell is taken off or put back.
Revise ==
    /\ Staff /\ Dealing
    /\ left' \subseteq tables[round]
    /\ Cardinality(left' \ left) <= 1 /\ Cardinality(left \ left') <= 1
    /\ UNCHANGED <<round, phase, time>>

TimeUp ==
    /\ phase = "play" /\ time = "running" /\ time' \in {"lastCall", "up"}
    /\ UNCHANGED <<round, phase, left>>

Hold ==
    /\ <<time, time'>> \in {<<"running", "held">>, <<"held", "running">>}
    /\ UNCHANGED <<round, phase, left>>

Close == Dealing /\ phase' = "done" /\ Finished /\ UNCHANGED round

\* The next round that can be played, at once or after a wait between rounds;
\* the showman deals any.
Deal ==
    /\ Dealing /\ phase' = "play" /\ Finished
    /\ round' \in DOMAIN tables
    /\ Staff \/ (round' > round /\ \A i \in (round + 1)..(round' - 1) : tables[i] = {})
    /\ left' \subseteq tables[round'] /\ time' \in {"none", "running", "held"}

Finish ==
    /\ phase \notin {"over", "broken"} /\ phase' = "over"
    /\ Dealing => Finished
    /\ Staff \/ Exhausted(round + 1)

Break == phase = "play" /\ phase' = "broken" /\ left' \subseteq left /\ UNCHANGED round

Presence == UNCHANGED <<round, phase, left, time, staff>>

Init == round = 0 /\ phase = "before" /\ left = {} /\ time = "none" /\ staff = 0
Next ==
    /\ Start \/ Play \/ Revise \/ TimeUp \/ Hold \/ Close \/ Deal \/ Finish \/ Break \/ Presence
    /\ UNCHANGED <<tables, instant>>
Spec == Init /\ [][Next]_vars
=============================================================================
