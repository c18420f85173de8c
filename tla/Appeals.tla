------------------------------ MODULE Appeals ------------------------------
(***************************************************************************)
(* Appeals about the answers of a question (internal/engine/appeal.go):    *)
(* requests, the queue, the vote, and what an accepted appeal does to the  *)
(* history of the question, the scores, the counters of right and wrong    *)
(* answers and the chooser; with the part of the round that appeals run    *)
(* into: the reveal, the end of a question and the selection of the next   *)
(* (question.go, engine.go), in classic mode with UseAppellations on.      *)
(*                                                                         *)
(* The play of a question is reduced to its outcomes, in an order module   *)
(* QuestionFlow allows; its timers stay there.  The module follows one     *)
(* round: "roundEnd" is the end of it.                                     *)
(***************************************************************************)
EXTENDS Naturals, Integers, Sequences, FiniteSets, FiniteSetsExt, EngineTimers

CONSTANTS
    Players,        \* the seats at the table
    Showman,        \* the showman, who votes too
    NoPlayer,       \* the empty person id
    QuestionKinds,  \* who answers: "button", "direct" (one player), "hidden" (everybody)
    PriceRight,     \* CurPriceRight
    PriceWrong,     \* CurPriceWrong
    Cells,          \* playable cells of the table at the start
    MinAgainst,     \* connected players an "against" appeal needs more than: 3
    MaxOutcomes,    \* BOUND: answers judged in one question
    MaxQuestions,   \* BOUND: questions started
    MaxAway         \* BOUND: players away at once

ASSUME PlayersAssumption == NoPlayer \notin Players /\ Showman \notin Players /\ IsFiniteSet(Players)
ASSUME KindsAssumption == QuestionKinds \subseteq {"button", "direct", "hidden"}
ASSUME NumbersAssumption ==
    /\ PriceRight \in Nat /\ PriceWrong \in Nat /\ Cells \in Nat \ {0}
    /\ MinAgainst \in Nat /\ MaxOutcomes \in Nat /\ MaxQuestions \in Nat /\ MaxAway \in Nat

Verdicts == {"right", "wrong", "pass"}
NoAppeal == [kind |-> "none", appellant |-> NoPlayer, answerer |-> NoPlayer, idx |-> 0,
             total |-> 0, pending |-> {}, yes |-> {}, no |-> {}]
Kinds == {"round", "selection", "decision", "appellation"}

VARIABLES
    stage,       \* State.Stage; "closed": the engine panicked, runGuarded closes the room
    kind,        \* the kind of State.Question, "none" without one
    sub,         \* QuestionState.Sub
    history,     \* QuestionState.History
    queue,       \* QuestionState.AppealQueue
    against,     \* QuestionState.AgainstUsed
    used,        \* players with AppealUsed
    appeal,      \* State.Appeal
    mixed,       \* history variable: a question was started while an appeal was open
    scores,      \* Player.Score
    right,       \* Player.Right
    wrong,       \* Player.Wrong
    chooser,     \* State.ChooserID
    asked,       \* the player the selection timer was started for
    tie,         \* State.Pending: the candidates of a chooser tie
    cells,       \* cells not yet played
    started,     \* questions started, for MaxQuestions only
    late,        \* State.RoundTimedOut
    timers,      \* State.Timers
    paused,      \* State.Paused
    connected    \* the active players

requests == <<queue, against, used, appeal>>
points == <<scores, right, wrong>>
selection == <<stage, chooser, asked, tie, timers>>
table == <<cells, late, started>>
vars == <<requests, points, selection, kind, sub, history, mixed, table, paused, connected>>
-----------------------------------------------------------------------------
(* The way to the next question.                                           *)

Lowest(s) == {p \in connected : \A q \in connected : s[p] <= s[q]}

\* endRound.
RoundEnds(c) ==
    /\ stage' = "roundEnd"
    /\ chooser' = c /\ asked' = NoPlayer /\ tie' = {}
    /\ timers' = [k \in Kinds |-> "off"]

\* askChoose, with startTimer.
AskChoose(c, ts) ==
    /\ stage' = "selecting"
    /\ chooser' = c /\ asked' = c /\ tie' = {}
    /\ timers' = StartTimer(ts, "selection", paused)

\* afterQuestion and beginSelection, c the chooser and s the scores so far.
AfterQuestion(c, s, ts) ==
    LET low == Lowest(s)
    IN  CASE late \/ cells' = 0 \/ connected = {} -> RoundEnds(c)
          [] ~late /\ cells' # 0 /\ connected # {} /\ c \in connected -> AskChoose(c, ts)
          [] OTHER ->
               IF Cardinality(low) = 1
               THEN AskChoose(CHOOSE p \in low : TRUE, ts)
               ELSE /\ stage' = "selecting"
                    /\ chooser' = c /\ asked' = NoPlayer /\ tie' = low
                    /\ timers' = StartTimer(ts, "decision", paused)
-----------------------------------------------------------------------------
(* The vote.                                                               *)

\* The appeal that appealStart makes of a request.
Opened(r) ==
    LET yes == IF r.kind = "for" THEN {r.appellant} ELSE {Showman, r.answerer}
        no == IF r.kind = "for" THEN {Showman} ELSE {r.appellant}
    IN  [kind |-> r.kind, appellant |-> r.appellant, answerer |-> r.answerer, idx |-> r.idx,
         total |-> Cardinality(connected) + 1,
         pending |-> connected \ (yes \union no), yes |-> yes, no |-> no]

Decided(a) ==
    \/ a.pending = {}
    \/ 2 * Cardinality(a.yes) > a.total
    \/ 2 * Cardinality(a.no) > a.total

Accepted(a) ==
    IF a.kind = "for" THEN Cardinality(a.yes) > Cardinality(a.no)
                      ELSE Cardinality(a.no) > Cardinality(a.yes)

\* Every timer is frozen, then the vote's own is started.
HeldForVote(ts) == StartTimer(FreezeKinds(ts, Kinds), "appellation", paused)

\* The end of appealFinish: the frozen timers are resumed, or only unfrozen in
\* a pause.
Resumed(ts) == [k \in Kinds |-> IF ts[k] = "frozen" THEN Live(paused) ELSE ts[k]]

GoOn(c, s, changed, ts) ==
    IF stage = "question" /\ sub' = "end"
    THEN AfterQuestion(c, s, Resumed(ts))
    ELSE IF changed /\ stage = "selecting" /\ tie = {}
         THEN AskChoose(c, Resumed(ts))
         ELSE /\ chooser' = c
              /\ timers' = Resumed(ts)
              /\ UNCHANGED <<stage, asked, tie>>

\* Mutant of ProcessAppeals: the next request is opened without another look.
ProcessAppealsUnchecked(q, hist, c, s, ts) ==
    /\ appeal' = Opened(Head(q))
    /\ queue' = Tail(q)
    /\ timers' = HeldForVote(ts)
    /\ chooser' = c
    /\ UNCHANGED <<stage, asked, tie>>

\* processAppeals, on the queue q and the history hist.  A request about an
\* outcome reverted since is dropped; one whose vote is decided at once is
\* rejected (an appellant alone, or the showman and the answerer a majority).
ProcessAppeals(q, hist, c, s, ts) ==
    LET standing == {i \in DOMAIN q : ~hist[q[i].idx].reverted}
        toVote == {i \in standing : ~Decided(Opened(q[i]))}
        first == CHOOSE i \in toVote : \A j \in toVote : i <= j
    IN  IF toVote # {}
        THEN /\ appeal' = Opened(q[first])
             /\ queue' = SubSeq(q, first + 1, Len(q))
             /\ timers' = HeldForVote(ts)
             /\ chooser' = c
             /\ UNCHANGED <<stage, asked, tie>>
        ELSE /\ appeal' = NoAppeal
             /\ queue' = <<>>
             /\ IF Len(q) \in standing
                THEN GoOn(c, s, FALSE, ts)
                ELSE /\ chooser' = c
                     /\ timers' = IF standing = {} THEN ts ELSE FreezeKinds(ts, Kinds)
                     /\ UNCHANGED <<stage, asked, tie>>
-----------------------------------------------------------------------------
(* What an accepted appeal does.                                           *)

\* Mutant of Undone: the outcomes after the appealed one stand.
UndoneAlone(a, hist) == {a.idx}

\* The outcomes appealApply reverts: the contested one and, for the appellant of
\* a question with one answerer at a time, all that came after it.
Undone(a, hist) ==
    {a.idx} \union
    {i \in DOMAIN hist : a.kind = "for" /\ kind # "hidden" /\ i > a.idx /\ ~hist[i].reverted}

\* The outcome it appends.
NewOutcome(a, hist) ==
    [person |-> hist[a.idx].person, reverted |-> FALSE,
     verdict |-> IF a.kind = "for" THEN "right" ELSE "wrong",
     delta |-> IF a.kind = "for" THEN PriceRight ELSE 0 - PriceWrong]

Flipped(a, hist) ==
    Append([i \in DOMAIN hist |-> IF i \in Undone(a, hist)
                                  THEN [hist[i] EXCEPT !.reverted = TRUE] ELSE hist[i]],
           NewOutcome(a, hist))

\* Mutant of Rescored: the penalty of the appealed answer is not given back.
RescoredOnce(a, hist) ==
    [p \in Players |->
        (IF p = NewOutcome(a, hist).person THEN scores[p] + NewOutcome(a, hist).delta ELSE scores[p])
        - MapThenSumSet(LAMBDA i : hist[i].delta,
                        {i \in Undone(a, hist) \ {a.idx} : hist[i].person = p})]

Rescored(a, hist) ==
    [p \in Players |->
        (IF p = NewOutcome(a, hist).person THEN scores[p] + NewOutcome(a, hist).delta ELSE scores[p])
        - MapThenSumSet(LAMBDA i : hist[i].delta, {i \in Undone(a, hist) : hist[i].person = p})]

\* The later outcomes of p with the verdict v, which leave the counters too.
LaterUndone(a, hist, p, v) ==
    Cardinality({i \in Undone(a, hist) \ {a.idx} : hist[i].person = p /\ hist[i].verdict = v})

RightAfter(a, hist) ==
    [p \in Players |->
        right[p] - LaterUndone(a, hist, p, "right")
        + (IF p # hist[a.idx].person THEN 0 ELSE IF a.kind = "for" THEN 1 ELSE 0 - 1)]

WrongAfter(a, hist) ==
    [p \in Players |->
        wrong[p] - LaterUndone(a, hist, p, "wrong")
        + (IF p # hist[a.idx].person THEN 0 ELSE IF a.kind = "for" THEN 0 - 1 ELSE 1)]

\* appealFinish on the appeal a.  A question started meanwhile has another
\* history: an index outside it, or no question at all, is a panic.
AppealFinish(a) ==
    LET flips == Accepted(a)
        won == flips /\ a.kind = "for" /\ kind # "hidden"
        c == IF won THEN history[a.idx].person ELSE chooser
        ts == StopKind(timers, "appellation")
        resume(hist, s) ==
            IF queue # <<>>
            THEN ProcessAppeals(queue, hist, c, s, ts)
            ELSE /\ appeal' = NoAppeal /\ queue' = <<>>
                 /\ GoOn(c, s, c # chooser, ts)
    IN  IF kind = "none" \/ (flips /\ a.idx \notin DOMAIN history)
        THEN /\ stage' = "closed"
             /\ UNCHANGED <<requests, points, kind, sub, history, mixed, chooser, asked, tie, timers>>
        ELSE /\ UNCHANGED <<kind, sub, mixed, against, used>>
             /\ IF flips
                THEN /\ history' = Flipped(a, history)
                     /\ scores' = Rescored(a, history)
                     /\ right' = RightAfter(a, history)
                     /\ wrong' = WrongAfter(a, history)
                     /\ resume(Flipped(a, history), Rescored(a, history))
                ELSE /\ UNCHANGED <<history, points>>
                     /\ resume(history, scores)
-----------------------------------------------------------------------------
(* Requests and votes.                                                     *)

LastOf(S) == CHOOSE i \in S : \A j \in S : i >= j

\* The rest of onAppellate, the request accepted.
Request(r) ==
    IF sub = "end" /\ appeal = NoAppeal
    THEN ProcessAppeals(Append(queue, r), history, chooser, scores, timers)
    ELSE queue' = Append(queue, r) /\ UNCHANGED <<appeal, selection>>

MayAppeal == stage \in {"question", "selecting"} /\ kind # "none" /\ history # <<>> /\ ~paused

\* "I am right": about the player's own last rejected answer.
AppealFor(p) ==
    LET own == {i \in DOMAIN history : /\ history[i].person = p /\ history[i].verdict = "wrong"
                                       /\ ~history[i].reverted}
    IN  /\ MayAppeal
        /\ own # {}
        /\ p \notin used
        /\ used' = used \union {p}
        /\ UNCHANGED <<against, points, kind, sub, history, mixed, table, paused, connected>>
        /\ Request([kind |-> "for", appellant |-> p, answerer |-> p, idx |-> LastOf(own)])

\* "I disagree": about the last accepted answer.
AppealAgainst(p) ==
    LET rights == {i \in DOMAIN history : history[i].verdict = "right" /\ ~history[i].reverted}
    IN  /\ MayAppeal
        /\ Cardinality(connected) > MinAgainst
        /\ kind # "hidden"
        /\ ~against
        /\ rights # {}
        /\ history[LastOf(rights)].person # p
        /\ against' = TRUE
        /\ UNCHANGED <<used, points, kind, sub, history, mixed, table, paused, connected>>
        /\ Request([kind |-> "against", appellant |-> p,
                    answerer |-> history[LastOf(rights)].person, idx |-> LastOf(rights)])

VoteAppeal(p, yes) ==
    LET a == [appeal EXCEPT !.pending = @ \ {p},
                            !.yes = IF yes THEN @ \union {p} ELSE @,
                            !.no = IF yes THEN @ ELSE @ \union {p}]
    IN  /\ p \in appeal.pending
        /\ stage \in {"question", "selecting"} /\ ~paused
        /\ UNCHANGED <<table, paused, connected>>
        /\ IF Decided(a)
           THEN AppealFinish(a)
           ELSE /\ appeal' = a
                /\ UNCHANGED <<queue, against, used, points, selection, kind, sub, history, mixed>>

Expires(k) == timers[k] = "run" /\ ~paused /\ stage # "closed"

TimeoutAppellation ==
    /\ Expires("appellation")
    /\ UNCHANGED <<table, paused, connected>>
    /\ AppealFinish(appeal)
-----------------------------------------------------------------------------
(* The question and the selection around the appeals.                      *)

\* The chooser, an oral showman or the selection timer picks a cell.
\* startQuestion leaves State.Appeal alone.
StartQuestion(k) ==
    /\ stage = "selecting" /\ tie = {} /\ ~paused
    /\ started < MaxQuestions /\ started' = started + 1
    /\ stage' = "question" /\ kind' = k /\ sub' = "play"
    /\ cells' = cells - 1
    /\ history' = <<>> /\ queue' = <<>> /\ against' = FALSE /\ used' = {}
    /\ mixed' = (mixed \/ appeal # NoAppeal)
    /\ asked' = NoPlayer
    /\ timers' = StopKind(timers, "selection")
    /\ UNCHANGED <<appeal, points, chooser, tie, late, paused, connected>>

\* showAnswer.
Reveal ==
    /\ sub' = "reveal"
    /\ timers' = StopAllExcept(timers, {"round"})

Judged(p) == \E i \in DOMAIN history : history[i].person = p

\* applyVerdict or hiddenApply: one answer of the question is judged.
Judge(p, v) ==
    LET delta == CASE v = "right" -> PriceRight [] v = "wrong" -> 0 - PriceWrong [] v = "pass" -> 0
    IN  /\ stage = "question" /\ sub = "play" /\ ~paused
        /\ Len(history) < MaxOutcomes
        /\ ~Judged(p)
        /\ kind = "direct" => history = <<>>
        /\ history' = Append(history, [person |-> p, verdict |-> v, reverted |-> FALSE, delta |-> delta])
        /\ scores' = [scores EXCEPT ![p] = @ + delta]
        /\ right' = IF v = "right" THEN [right EXCEPT ![p] = @ + 1] ELSE right
        /\ wrong' = IF v = "wrong" THEN [wrong EXCEPT ![p] = @ + 1] ELSE wrong
        /\ chooser' = IF v = "right" /\ kind = "button" THEN p ELSE chooser
        /\ IF v = "right" /\ kind # "hidden" THEN Reveal ELSE UNCHANGED <<sub, timers>>
        /\ UNCHANGED <<requests, stage, kind, asked, tie, mixed, table, paused, connected>>

\* Nobody (else) answers, or the showman moves on.
ShowAnswer ==
    /\ stage = "question" /\ sub = "play"
    /\ Reveal
    /\ UNCHANGED <<requests, points, stage, chooser, asked, tie, kind, history, mixed, table,
                   paused, connected>>

\* Mutant of EndQuestion: the requests of the question are left in the queue.
EndQuestionQueueLeft ==
    LET ts == StopAllExcept(timers, {"round"})
    IN  /\ stage = "question" /\ sub = "reveal"
        /\ sub' = "end"
        /\ UNCHANGED <<against, used, points, kind, history, mixed, table, paused, connected>>
        /\ IF appeal # NoAppeal
           THEN timers' = ts /\ UNCHANGED <<appeal, queue, stage, chooser, asked, tie>>
           ELSE AfterQuestion(chooser, scores, ts) /\ UNCHANGED <<appeal, queue>>

\* The reflection timer, NEXT or MOVE 1.
EndQuestion ==
    LET ts == StopAllExcept(timers, {"round"})
    IN  /\ stage = "question" /\ sub = "reveal"
        /\ sub' = "end"
        /\ UNCHANGED <<against, used, points, kind, history, mixed, table, paused, connected>>
        /\ IF appeal # NoAppeal
           THEN timers' = ts /\ UNCHANGED <<appeal, queue, stage, chooser, asked, tie>>
           ELSE IF queue # <<>>
                THEN ProcessAppeals(queue, history, chooser, scores, ts)
                ELSE AfterQuestion(chooser, scores, ts) /\ UNCHANGED <<appeal, queue>>

\* MOVE 1 at the end of a question.
MoveOn ==
    /\ stage = "question" /\ sub = "end" /\ appeal = NoAppeal
    /\ UNCHANGED <<requests, points, kind, sub, history, mixed, table, paused, connected>>
    /\ AfterQuestion(chooser, scores, timers)

\* The outcomes of p that still count.
Given(p) == {i \in DOMAIN history : history[i].person = p /\ ~history[i].reverted}

\* MOVE -1: the scores of the question are undone, the question is no more.
MoveBack ==
    LET s == [p \in Players |-> scores[p] - MapThenSumSet(LAMBDA i : history[i].delta, Given(p))]
    IN  /\ stage = "question" /\ sub # "end"
        /\ scores' = s
        /\ kind' = "none" /\ sub' = "end"
        /\ history' = <<>> /\ queue' = <<>> /\ against' = FALSE /\ used' = {}
        /\ cells' = cells + 1
        /\ UNCHANGED <<appeal, right, wrong, mixed, late, started, paused, connected>>
        /\ AfterQuestion(chooser, s, StopAllExcept(timers, {"round"}))

\* MOVE 2, -2 and 3 leave the round.
MoveRound ==
    /\ stage \in {"question", "selecting"}
    /\ RoundEnds(chooser)
    /\ UNCHANGED <<requests, points, kind, sub, history, mixed, table, paused, connected>>

\* resolvePending: the showman or the decision timer settles a chooser tie.
ResolveTie(p) ==
    /\ stage = "selecting" /\ p \in tie /\ ~paused
    /\ AskChoose(p, StopKind(timers, "decision"))
    /\ UNCHANGED <<requests, points, kind, sub, history, mixed, table, paused, connected>>

SetChooser(p) ==
    /\ p \in connected
    /\ stage \in {"question", "selecting"}
    /\ UNCHANGED <<requests, points, kind, sub, history, mixed, table, paused, connected>>
    /\ IF stage = "selecting"
       THEN AskChoose(p, StopKind(timers, "decision"))
       ELSE chooser' = p /\ UNCHANGED <<stage, asked, tie, timers>>

TimeoutRound ==
    /\ Expires("round")
    /\ late' = TRUE
    /\ UNCHANGED <<requests, points, kind, sub, history, mixed, cells, started, paused, connected>>
    /\ IF stage = "selecting" /\ tie = {}
       THEN RoundEnds(chooser)
       ELSE timers' = StopKind(timers, "round") /\ UNCHANGED <<stage, chooser, asked, tie>>

Pause(on) ==
    /\ stage \in {"question", "selecting"} /\ on # paused
    /\ paused' = on
    /\ timers' = IF on THEN HoldAll(timers) ELSE ReleaseAll(timers)
    /\ UNCHANGED <<requests, points, stage, chooser, asked, tie, kind, sub, history, mixed, cells,
                   late, started, connected>>

\* PLAYER_LEFT and PLAYER_JOINED; an open vote keeps its voters.
Presence(p) ==
    /\ stage \in {"question", "selecting"}
    /\ connected' = IF p \in connected THEN connected \ {p} ELSE connected \union {p}
    /\ Cardinality(Players \ connected') <= MaxAway
    /\ UNCHANGED <<requests, points, selection, kind, sub, history, mixed, table, paused>>
-----------------------------------------------------------------------------
\* A round in which the first chooser is known.
Init ==
    /\ stage = "selecting" /\ kind = "none" /\ sub = "end" /\ cells = Cells /\ started = 0
    /\ history = <<>> /\ queue = <<>> /\ against = FALSE /\ used = {}
    /\ appeal = NoAppeal /\ mixed = FALSE
    /\ scores = [p \in Players |-> 0] /\ right = [p \in Players |-> 0] /\ wrong = [p \in Players |-> 0]
    /\ chooser \in Players /\ asked = chooser /\ tie = {} /\ late = FALSE /\ paused = FALSE
    /\ timers = [k \in Kinds |-> IF k \in {"round", "selection"} THEN "run" ELSE "off"]
    /\ connected = Players

AppealStep ==
    \/ \E p \in Players : AppealFor(p) \/ AppealAgainst(p)
    \/ \E p \in Players, yes \in BOOLEAN : VoteAppeal(p, yes)
    \/ TimeoutAppellation

GameStep ==
    \/ \E k \in QuestionKinds : StartQuestion(k)
    \/ \E p \in Players, v \in Verdicts : Judge(p, v)
    \/ ShowAnswer \/ EndQuestion \/ TimeoutRound
    \/ \E p \in Players : ResolveTie(p)

StaffStep ==
    \/ MoveOn \/ MoveBack \/ MoveRound
    \/ \E p \in Players : SetChooser(p) \/ Presence(p)
    \/ \E on \in BOOLEAN : Pause(on)

Next == AppealStep \/ GameStep \/ StaffStep

Spec == Init /\ [][Next]_vars
-----------------------------------------------------------------------------
Persons == Players \union {NoPlayer}
Requests == [kind : {"for", "against"}, appellant : Players, answerer : Players, idx : Nat]
Outcomes == [person : Players, verdict : Verdicts, reverted : BOOLEAN, delta : Int]

TypeOK ==
    /\ stage \in {"question", "selecting", "roundEnd", "closed"}
    /\ kind \in QuestionKinds \union {"none"}
    /\ sub \in {"play", "reveal", "end"}
    /\ history \in Seq(Outcomes) /\ queue \in Seq(Requests)
    /\ appeal.kind \in {"none", "for", "against"}
    /\ appeal.appellant \in Persons /\ appeal.answerer \in Persons /\ appeal.idx \in Nat
    /\ \A S \in {appeal.pending, appeal.yes, appeal.no} : S \subseteq Players \union {Showman}
    /\ appeal.total \in Nat
    /\ against \in BOOLEAN /\ used \subseteq Players /\ mixed \in BOOLEAN
    /\ scores \in [Players -> Int] /\ right \in [Players -> Int] /\ wrong \in [Players -> Int]
    /\ chooser \in Players /\ asked \in Persons /\ tie \subseteq Players
    /\ cells \in Nat /\ started \in Nat /\ late \in BOOLEAN /\ paused \in BOOLEAN
    /\ timers \in [Kinds -> TimerStatus]
    /\ connected \subseteq Players

InRound == stage \in {"question", "selecting"}
-----------------------------------------------------------------------------
(* Properties.  Those that speak of ~mixed fail once a question is started   *)
(* under an open appeal, which the finding of AppealLandsOnItsOutcome shows. *)

\* The right answer is the last word: in a question with one answerer at a time,
\* whatever was appealed, for and against, in whatever order, an outcome that
\* counts as right has no counting outcome after it.  So no two players keep the
\* price of one question.
RightIsLast ==
    kind # "hidden" /\ ~mixed =>
        \A i, j \in DOMAIN history :
            i < j /\ history[i].verdict = "right" => history[i].reverted \/ history[j].reverted

\* The scores follow the history: verdicts, appeals and MOVE -1 change a score
\* by exactly what they change of the outcomes that count.
Counted(h, p) ==
    MapThenSumSet(LAMBDA i : h[i].delta, {i \in DOMAIN h : h[i].person = p /\ ~h[i].reverted})
NextQuestion == stage = "selecting" /\ stage' = "question"
ScoresFollowHistory ==
    [][\A p \in Players : scores'[p] - scores[p] = IF NextQuestion THEN 0
                                                   ELSE Counted(history', p) - Counted(history, p)]_vars

\* What is voted on still stands: the open appeal is about an outcome of its
\* answerer that no earlier appeal reverted, a rejected one for an appellant, an
\* accepted one for somebody else, and nobody votes twice.
ContestedStands ==
    appeal # NoAppeal /\ ~mixed =>
        /\ appeal.idx \in DOMAIN history
        /\ LET o == history[appeal.idx]
           IN  /\ o.person = appeal.answerer /\ ~o.reverted
               /\ o.verdict = IF appeal.kind = "for" THEN "wrong" ELSE "right"
        /\ appeal.kind = "for" <=> appeal.appellant = appeal.answerer
        /\ appeal.pending \intersect (appeal.yes \union appeal.no) = {}
        /\ appeal.yes \intersect appeal.no = {}

\* No request is forgotten: once the question is over the queue waits for the
\* open appeal and for nothing else.
QueueIsServed == InRound /\ sub = "end" /\ appeal = NoAppeal => queue = <<>>

\* docs/protocol-engine.md:123, "appeal closed (timers resumed)" (and :149): no
\* timer stays frozen without an appeal.
TimersResumed == InRound /\ appeal = NoAppeal => \A k \in Kinds : timers[k] # "frozen"

\* appeal.go:179, "appealFinish tallies the votes, applies the result and
\* resumes the game": a vote never ends in a panic.
AppealLandsOnItsOutcome == stage # "closed"

\* In the selection, with nothing else pending, the player whose turn it is has
\* been asked to choose.
ChooserIsAsked == stage = "selecting" /\ tie = {} /\ appeal = NoAppeal => asked = chooser
=============================================================================
