--------------------------- MODULE MCQuestionFlow ---------------------------
(* Instances of QuestionFlow for TLC.                                      *)
EXTENDS QuestionFlow, TLC

Q(kind, atype, groups) == [kind |-> kind, atype |-> atype, groups |-> groups]

\* Every kind of question and of content group.
AllQuestions == {Q("button", "text", <<"timed", "media">>), Q("button", "auto", <<"manual">>),
                 Q("button", "select", <<>>), Q("direct", "text", <<"media">>),
                 Q("direct", "auto", <<>>),
                 Q("custom", "text", <<"timed">>)}
SelectQuestions == {Q("button", "select", <<>>)}
TimedQuestions == {Q("button", "text", <<"timed", "media">>), Q("button", "select", <<>>),
                   Q("direct", "auto", <<"timed">>)}

Rules(oral, managed, falseStart) == [oral |-> oral, managed |-> managed, falseStart |-> falseStart]
AnyRules == Rule
\* False starts off: the button is open while the content is shown.
OpenContent == {Rules(FALSE, FALSE, FALSE)}

Symmetry == Permutations(Players)
=============================================================================
