---------------------------- MODULE MCPackStore ----------------------------
EXTENDS PackStore
CONSTANTS q1, q2, a

\* A pack whose two questions show one content.
MCBodies == {[q \in {q1, q2} |-> a]}
=============================================================================
