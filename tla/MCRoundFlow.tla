---------------------------- MODULE MCRoundFlow ----------------------------
(* Instances of RoundFlow for TLC.                                         *)
EXTENDS RoundFlow, TLC

\* Three players and secrets to be given away, over two rounds with an empty one
\* between; two players taking turns against the round timer; a managed game
\* without choices.
SecretsTurnsManaged ==
    {[mode |-> "classic", managed |-> FALSE, timed |-> FALSE, except |-> TRUE, seats |-> {1, 2, 3},
      tables |-> <<{1}, {}, {2}>>, kind |-> <<"priced", "noQuestion">>],
     [mode |-> "turnTaking", managed |-> FALSE, timed |-> TRUE, except |-> FALSE, seats |-> {1, 2},
      tables |-> <<{1, 2}>>, kind |-> <<"simple", "simple">>],
     [mode |-> "simple", managed |-> TRUE, timed |-> TRUE, except |-> FALSE, seats |-> {1, 2},
      tables |-> <<{1}, {2, 3}>>, kind |-> <<"secret", "pricedNoQuestion", "simple">>]}
=============================================================================
