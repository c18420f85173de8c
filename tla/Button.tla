------------------------------- MODULE Button -------------------------------
(***************************************************************************)
(* What the button of a question promises, whatever the room, the sockets  *)
(* and the timers between the players and the engine do.  A race begins    *)
(* with nobody in it.  Only players at the table who may still press join  *)
(* it; one of them at most wins it, and is out for the rest of the         *)
(* question, as is who passes.  The button goes dark, armed with nothing   *)
(* to press, only when a decision comes in a pause or a presser has left.  *)
(* RoomButton implements this.                                             *)
(***************************************************************************)
EXTENDS Naturals

CONSTANT NoPlayer  \* the answerer when there is none

VARIABLES
    question,      \* the questions asked so far
    phase,         \* "idle"; "reading", before the button; "lit"; "dark"; "answering"; "shown"
    may,           \* the players who may still press for this question
    race,          \* the players in the race
    answerer,      \* who has won it and is answering
    present,       \* who is at the table
    paused

vars == <<question, phase, may, race, answerer, present, paused>>

SomebodyLeft == may' \intersect present' # {}

\* A race begins.
Lit == phase' = "lit" /\ race' = {} /\ answerer' = NoPlayer

Ask ==
    /\ phase = "idle"
    /\ question' = question + 1
    /\ may' = present /\ race' = {} /\ answerer' = NoPlayer
    /\ phase' \in {"reading", "lit"}

Open ==
    /\ phase = "reading" /\ Lit /\ SomebodyLeft
    /\ UNCHANGED <<question, may>>

Press ==
    /\ phase = "lit"
    /\ \E p \in (may \intersect present) \ race : race' = race \union {p}
    /\ UNCHANGED <<question, phase, may, answerer>>

Win ==
    /\ phase = "lit" /\ ~paused
    /\ \E p \in race \intersect may \intersect present : answerer' = p /\ may' = may \ {p}
    /\ phase' = "answering" /\ race' = {}
    /\ UNCHANGED question

\* Nobody pressed in time, or the host opens the button anew.
Again ==
    /\ phase \in {"lit", "dark"} /\ Lit
    /\ UNCHANGED <<question, may>>

GoDark ==
    /\ phase = "lit" /\ phase' = "dark" /\ race' = {}
    /\ paused \/ race \ present # {}
    /\ UNCHANGED <<question, may, answerer>>

\* The race begins anew for the others, or there is none without them.
Pass ==
    /\ phase \in {"reading", "lit", "dark"} /\ ~paused
    /\ \E p \in may \intersect present : may' = may \ {p}
    /\ IF phase # "reading" /\ SomebodyLeft
       THEN Lit
       ELSE phase' = "reading" /\ race' = {} /\ UNCHANGED answerer
    /\ UNCHANGED question

\* A wrong answer.
Retry ==
    /\ phase = "answering" /\ ~paused /\ Lit /\ SomebodyLeft
    /\ UNCHANGED <<question, may>>

Show ==
    /\ phase \in {"reading", "lit", "dark", "answering"} /\ phase' = "shown"
    /\ may' \subseteq may /\ race' = {} /\ answerer' = NoPlayer
    /\ UNCHANGED question

End ==
    /\ phase # "idle" /\ phase' = "idle"
    /\ may' = {} /\ race' = {} /\ answerer' = NoPlayer
    /\ UNCHANGED question

Environment == UNCHANGED <<question, phase, may, race, answerer>>

Init == question = 0 /\ phase = "idle" /\ may = {} /\ race = {} /\ answerer = NoPlayer
Next ==
    \/ Ask \/ Open \/ Press \/ Win \/ Again \/ GoDark \/ Pass \/ Retry \/ Show \/ End
    \/ Environment
Spec == Init /\ [][Next]_vars
=============================================================================
