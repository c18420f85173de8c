----------------------------- MODULE FinalRound -----------------------------
(***************************************************************************)
(* The final round (internal/engine/final.go) and the questions it is      *)
(* played for (hidden.go): who takes part, who deletes which theme, the    *)
(* hidden stakes, the written answers, and their reveal one by one, under  *)
(* players leaving and coming back, the showman's PAUSE, MOVE, TOGGLE and  *)
(* CHANGE_SCORE, and the round timer.                                      *)
(*                                                                         *)
(* The game is one record.  The functions of the code that call each other *)
(* (finalNextDeleter, finalPlayLastTheme, startQuestion, hiddenRevealNext, *)
(* showAnswer, finalContinue, endRound...) are operators from game to      *)
(* game, or to the set of games a random choice allows.  A handler assigns *)
(* active' before it calls one: they read the active players primed.       *)
(***************************************************************************)
EXTENDS Integers, Sequences, FiniteSets, FiniteSetsExt, SequencesExt, EngineTimers

CONSTANTS
    Players,      \* the seats at the table, numbered
    NoPlayer,     \* the empty person id
    MaxThemes,    \* BOUND: themes of a round
    MaxCells,     \* BOUND: questions of a theme
    Setups,       \* rounds to be played: [table, scores, oral, playAll, everyone, timed]
    ForAllCells,  \* cells whose question is a forAll; the others are stakeAll
    Price,        \* the price of a forAll question
    Stakes,       \* amounts a SET_STAKE may name
    Corrections,  \* sums a CHANGE_SCORE may name
    Texts,        \* written answers
    MaxEvents     \* BOUND: departures and interventions of the showman

Themes == 1..MaxThemes
Cells == Themes \X (1..MaxCells)
Setup == [table : SUBSET Cells, scores : [Players -> Int], oral : BOOLEAN, playAll : BOOLEAN, everyone : BOOLEAN,
          timed : BOOLEAN]

ASSUME PlayersAssumption == Players \subseteq Nat /\ IsFiniteSet(Players) /\ NoPlayer \notin Players
ASSUME SetupsAssumption == Setups \subseteq Setup
ASSUME NumbersAssumption == Stakes \cup Corrections \subseteq Int /\ Price \in Nat
ASSUME BoundsAssumption ==
    MaxThemes \in Nat /\ MaxCells \in Nat /\ MaxEvents \in Nat
ASSUME TextsAssumption == "-" \notin Texts

Kinds == {"round", "themeSelection", "showmanDecision", "stakeMaking", "content",
          "hiddenAnswering", "reflection"}
Verdicts == {"right", "wrong"}
NoCell == <<0, 0>>

VARIABLES
    game,      \* the game
    active,    \* Player.Active: who is connected and not kicked
    paused,    \* State.Paused
    rules,     \* the pack's round and State.Rules, with RoundMs > 0 as timed
    tricks,    \* pauses, early verdicts, TOGGLE, CHANGE_SCORE, MOVE -1, -2 and 3 so far
    departures \* players gone so far

vars == <<game, active, paused, rules, tricks, departures>>

Games ==
    [stage : {"roundIntro", "finalThemes", "question", "roundEnd"},
     open : SUBSET Cells,                        \* neither Played nor Removed
     gone : SUBSET Themes,                       \* ThemeState.Removed
     admitted : SUBSET Players,                  \* FinalInGame
     slots : Seq(SUBSET Players),                \* FinalGroups, a group as often as it has members
     offset : Nat, step : Nat,                   \* FinalOffset, DeleteStep
     used : SUBSET Players,                      \* DeleterUsed
     deleter : Players \union {NoPlayer},        \* DeleterID
     tie : SUBSET Players,                       \* Pending: its candidates
     sub : {"none", "stakes", "content", "hiddenAnswering", "validating", "reveal"},
     cell : Cells \union {NoCell},
     answerers : Seq(Players), stake : [Players -> Int],     \* 0: no stake made
     answer : [Players -> Texts \union {"-"}],               \* "-": not answered
     pre : [Players -> Verdicts \union {"none"}],            \* PreVerdicts
     cache : [Texts -> Verdicts \union {"none"}],            \* ValidationCache
     next : Nat, pending : Players \union {NoPlayer},        \* RevealIdx, PendingAnswerID
     history : Seq([person : Players, verdict : Verdicts, delta : Int]),
     scores : [Players -> Int], timedOut : BOOLEAN, timers : [Kinds -> TimerStatus],
     entered : SUBSET Players,                   \* history: admitted by this start of the round
     asked : [Players -> Nat]]                   \* history: deletions this player was asked for

Answerers(g) == Range(g.answerers)
InSeatOrder(S) == SetToSortSeq(S, LAMBDA p, o : p < o)
AtLeastOne(n) == IF n < 1 THEN 1 ELSE n

\* finalRemainingThemes.
Remaining(g) == {t \in Themes \ g.gone : \E c \in g.open : c[1] = t}

\* The first cell of a set in table order: nextSequentialCell.
FirstCell(S) == CHOOSE c \in S : \A d \in S : c[1] < d[1] \/ (c[1] = d[1] /\ c[2] <= d[2])

StopAll(g) == [g EXCEPT !.timers = StopAllExcept(@, {"round"})]
Clock(g, kind) == [g EXCEPT !.timers = StartTimer(@, kind, paused)]

NoQuestion(g) ==
    [g EXCEPT !.sub = "none", !.cell = NoCell, !.answerers = <<>>, !.next = 0,
              !.stake = [p \in Players |-> 0], !.answer = [p \in Players |-> "-"],
              !.pre = [p \in Players |-> "none"], !.cache = [x \in Texts |-> "none"],
              !.pending = NoPlayer, !.history = <<>>]
-----------------------------------------------------------------------------
(* A question of the round, from its start to the reveal.                  *)

ShowAnswer(g) ==
    Clock(StopAll([g EXCEPT !.tie = {}, !.pending = NoPlayer, !.sub = "reveal"]), "reflection")

PlayContent(g) == Clock([g EXCEPT !.sub = "content"], "content")

\* hiddenStakesDone: who made no stake, also who left, stakes 1.
StakesDone(g) ==
    PlayContent([g EXCEPT !.stake = [p \in Players |-> IF p \in Answerers(g) THEN AtLeastOne(@[p]) ELSE 0],
                          !.timers = StopKind(@, "stakeMaking")])

\* stakeAllParticipants and stakeAllBegin.
StakeAllBegin(g) ==
    LET parts == g.admitted \intersect active'
        h == [g EXCEPT !.answerers = InSeatOrder(parts),
                       !.stake = [p \in Players |-> IF p \in parts /\ g.scores[p] <= 1 THEN 1 ELSE 0]]
    IN  CASE parts = {} -> ShowAnswer(g)
          [] parts # {} /\ \A p \in parts : h.stake[p] = 1 -> StakesDone(h)
          [] OTHER -> Clock([h EXCEPT !.sub = "stakes"], "stakeMaking")

StartQuestion(g, c) ==
    LET h == [NoQuestion(g) EXCEPT !.stage = "question", !.cell = c, !.open = @ \ {c}, !.tie = {}]
    IN  IF c \in ForAllCells
        THEN PlayContent([h EXCEPT !.answerers = InSeatOrder(active')])
        ELSE StakeAllBegin(h)

\* hiddenAnsweringBegin.
AnsweringBegin(g) ==
    IF Answerers(g) \intersect active' = {} THEN ShowAnswer(g)
    ELSE Clock([g EXCEPT !.sub = "hiddenAnswering"], "hiddenAnswering")

\* hiddenScore with applyOutcome.
Outcome(g, p, v) ==
    LET price == IF g.cell \in ForAllCells THEN Price ELSE g.stake[p]
        delta == IF v = "right" THEN price ELSE -price
    IN  [g EXCEPT !.pending = NoPlayer, !.scores[p] = @ + delta,
                  !.cache = [x \in Texts |-> IF x = g.answer[p] THEN v ELSE @[x]],
                  !.history = Append(@, [person |-> p, verdict |-> v, delta |-> delta])]

\* Mutant of RevealOne: an answer is skipped when its author has left.
RevealOneActive(g, p) ==
    LET h == [g EXCEPT !.next = @ + 1]
        a == g.answer[p]
    IN  CASE g.pending # NoPlayer -> g
          [] g.pending = NoPlayer /\ p \notin active' -> h
          [] g.pending = NoPlayer /\ p \in active' /\ a = "-" -> Outcome(h, p, "wrong")
          [] OTHER -> Clock([h EXCEPT !.pending = p, !.sub = "validating"], "showmanDecision")

\* One turn of the loop of hiddenRevealNext, unless it has met an answer that
\* needs the showman.
RevealOne(g, p) ==
    LET h == [g EXCEPT !.next = @ + 1]
        a == g.answer[p]
        known == IF g.pre[p] # "none" THEN g.pre[p] ELSE IF a \in Texts THEN g.cache[a] ELSE "none"
    IN  CASE g.pending # NoPlayer -> g
          [] g.pending = NoPlayer /\ a = "-" /\ p \notin active' -> h
          [] g.pending = NoPlayer /\ a = "-" /\ p \in active' -> Outcome(h, p, "wrong")
          [] g.pending = NoPlayer /\ a # "-" /\ known # "none" -> Outcome(h, p, known)
          [] OTHER -> Clock([h EXCEPT !.pending = p, !.sub = "validating"], "showmanDecision")

\* hiddenRevealNext.
RevealNext(g) ==
    LET h == FoldLeft(RevealOne, g, SubSeq(g.answerers, g.next + 1, Len(g.answerers)))
    IN  IF h.pending = NoPlayer THEN ShowAnswer(h) ELSE h

\* hiddenAnsweringDone.
AnsweringDone(g) == RevealNext([g EXCEPT !.next = 0, !.timers = StopKind(@, "hiddenAnswering")])

\* hiddenApplyVerdict, after VALIDATE.
Verdict(g, v) ==
    RevealNext(Outcome([g EXCEPT !.timers = StopKind(@, "showmanDecision")], g.pending, v))
-----------------------------------------------------------------------------
(* The round.                                                              *)

EndRound(g) == [NoQuestion(g) EXCEPT !.stage = "roundEnd", !.tie = {}, !.deleter = NoPlayer,
                                     !.timers = [k \in Kinds |-> "off"]]

\* finalPlayLastTheme: the other questions of the theme are removed.
PlayLastTheme(g) ==
    LET left == {c \in g.open : c[1] \notin g.gone}
        last == {c \in left : c[1] = FirstCell(left)[1]}
    IN  IF left = {} THEN EndRound(g)
        ELSE StartQuestion([g EXCEPT !.open = (@ \ last) \union {FirstCell(last)}], FirstCell(last))

\* finalContinue, after a question.
Continue(g) ==
    CASE g.timedOut -> EndRound(g)
      [] ~g.timedOut /\ rules.playAll ->
             LET left == {c \in g.open : c[1] \notin g.gone}
             IN  IF left = {} THEN EndRound(g) ELSE StartQuestion(g, FirstCell(left))
      [] ~g.timedOut /\ ~rules.playAll ->
             IF Cardinality(Remaining(g)) = 1 THEN PlayLastTheme(g) ELSE EndRound(g)

\* Mutant of AskDelete: the deletion is not timed.
AskDeleteUntimed(g, p) ==
    [g EXCEPT !.tie = {}, !.used = @ \union {p}, !.step = @ + 1, !.deleter = p, !.asked[p] = @ + 1]

\* finalAskDelete.
AskDelete(g, p) ==
    Clock([g EXCEPT !.tie = {}, !.used = @ \union {p}, !.step = @ + 1, !.deleter = p,
                    !.asked[p] = @ + 1],
          "themeSelection")

\* Mutant of NextDeleter: whoever of the group, also who has deleted already.
NextDeleterUnmarked(g) ==
    LET n == Len(g.slots)
        group(i) == g.slots[((g.step + i + g.offset) % n) + 1] \intersect active'
        live == {i \in 0..(n - 1) : group(i) # {}}
    IN  CASE Cardinality(Remaining(g)) <= 1 -> {PlayLastTheme(g)}
          [] Cardinality(Remaining(g)) > 1 /\ live = {} ->
                 {PlayLastTheme([g EXCEPT !.gone = @ \union (Remaining(g) \ {t})]) : t \in Remaining(g)}
          [] OTHER -> {AskDelete([g EXCEPT !.step = @ + Min(live)], p) : p \in group(Min(live))}

\* finalNextDeleter: the next group with somebody at the table; in it whoever has
\* not deleted yet, or all of it if all have; the showman decides between several.
\* With nobody at the table the engine deletes at random until one theme is left.
NextDeleter(g) ==
    LET n == Len(g.slots)
        group(i) == g.slots[((g.step + i + g.offset) % n) + 1] \intersect active'
        live == {i \in 0..(n - 1) : group(i) # {}}
        members == group(Min(live))
        h == [g EXCEPT !.step = @ + Min(live), !.used = IF members \subseteq @ THEN @ \ members ELSE @]
        cands == members \ h.used
    IN  CASE Cardinality(Remaining(g)) <= 1 -> {PlayLastTheme(g)}
          [] Cardinality(Remaining(g)) > 1 /\ live = {} ->
                 {PlayLastTheme([g EXCEPT !.gone = @ \union (Remaining(g) \ {t})]) : t \in Remaining(g)}
          [] Cardinality(Remaining(g)) > 1 /\ live # {} /\ Cardinality(cands) = 1 ->
                 {AskDelete(h, CHOOSE p \in cands : TRUE)}
          [] OTHER -> {Clock([h EXCEPT !.tie = cands], "showmanDecision")}

\* finalDelete.
Delete(g, t) == NextDeleter([g EXCEPT !.gone = @ \union {t}, !.deleter = NoPlayer,
                                      !.timers = StopKind(@, "themeSelection")])

\* Mutant of Offset: no rotation, the lowest group deletes first.
OffsetNone(n, deletions) == 0

\* The rotation after which the last deletion falls to the last slot.
Offset(n, deletions) == IF deletions > 0 THEN (n - (deletions % n)) % n ELSE 0

\* finalBuildOrder: the groups of equal scores, the lowest first.
BuildOrder(g, parts) ==
    LET order == SetToSortSeq(parts, LAMBDA p, o : \/ g.scores[p] < g.scores[o]
                                                   \/ g.scores[p] = g.scores[o] /\ p < o)
    IN  [g EXCEPT !.slots = [i \in DOMAIN order |-> {p \in parts : g.scores[p] = g.scores[order[i]]}],
                  !.offset = Offset(Len(order), Cardinality(Remaining(g)) - 1),
                  !.step = 0, !.used = {}]

\* startRound and startFinalRound.  FinalInGame of a player who is not at the
\* table is not touched.
StartFinal(g0) ==
    LET g == [NoQuestion(g0) EXCEPT
                !.open = rules.table, !.gone = {}, !.slots = <<>>, !.offset = 0, !.step = 0, !.used = {},
                !.deleter = NoPlayer, !.tie = {}, !.timedOut = FALSE, !.asked = [p \in Players |-> 0],
                !.timers = [k \in Kinds |-> IF k = "round" /\ rules.timed THEN Live(paused) ELSE "off"]]
        positive == {p \in active' : g.scores[p] > 0}
        parts == IF positive = {} /\ rules.everyone THEN active' ELSE positive
        h == [g EXCEPT !.admitted = (@ \ active') \union parts, !.entered = parts]
    IN  CASE parts = {} -> {EndRound(h)}
          [] parts # {} /\ rules.playAll -> {Continue(h)}
          [] parts # {} /\ ~rules.playAll ->
                 NextDeleter([BuildOrder(h, parts) EXCEPT !.stage = "finalThemes"])
-----------------------------------------------------------------------------
(* The commands.                                                           *)

Unmoved == UNCHANGED <<active, paused, rules, tricks, departures>>
Playing == game.stage = "question"
Acts(p) == ~paused /\ (p \in active \/ (rules.oral /\ p \in Players))   \* actingPlayer

StartRound ==
    /\ game.stage = "roundIntro"
    /\ Unmoved
    /\ game' \in StartFinal(game)

\* An intervention of the showman.
Trick ==
    /\ tricks + departures < MaxEvents
    /\ tricks' = tricks + 1
    /\ UNCHANGED <<active, rules, departures>>

\* SELECT_PLAYER of the showman: who of the tied deletes.
SelectDeleter(p) ==
    /\ ~paused /\ p \in game.tie
    /\ Unmoved
    /\ game' = AskDelete([game EXCEPT !.timers = StopKind(@, "showmanDecision")], p)

DeleteTheme(t) ==
    /\ game.stage = "finalThemes" /\ game.deleter # NoPlayer /\ game.tie = {} /\ Acts(game.deleter)
    /\ t \in Remaining(game)
    /\ Unmoved
    /\ game' \in Delete(game, t)

\* hiddenSetStake: a number, or all-in.
SetStake(p, n) ==
    /\ game.sub = "stakes" /\ Acts(p)
    /\ p \in Answerers(game) /\ game.stake[p] = 0
    /\ n \in 1..AtLeastOne(game.scores[p])
    /\ Unmoved
    /\ LET g == [game EXCEPT !.stake[p] = n]
       IN  game' = IF \E o \in Answerers(g) \intersect active : g.stake[o] = 0 THEN g ELSE StakesDone(g)

\* The end of the content, which is played like any other.
ContentDone ==
    /\ game.sub = "content"
    /\ Unmoved
    /\ game' = AnsweringBegin([game EXCEPT !.timers = StopKind(@, "content")])

\* onAnswer of a hidden answer.
Answer(p, a) ==
    /\ game.sub = "hiddenAnswering" /\ Acts(p)
    /\ p \in Answerers(game) /\ game.answer[p] = "-"
    /\ Unmoved
    /\ LET g == [game EXCEPT !.answer[p] = a]
       IN  game' = IF \E o \in Answerers(g) \intersect active : g.answer[o] = "-" THEN g ELSE AnsweringDone(g)

\* VALIDATE before the reveal: kept in PreVerdicts, also for an answer to come.
PreVerdict(p, v) ==
    /\ game.sub \in {"stakes", "content", "hiddenAnswering"} /\ ~paused
    /\ p \in Answerers(game) /\ Trick /\ paused' = paused
    /\ game' = [game EXCEPT !.pre[p] = v]

Validate(v) ==
    /\ game.sub = "validating" /\ ~paused
    /\ Unmoved
    /\ game' = Verdict(game, v)

Expires(k) == game.timers[k] = "run" /\ ~paused
Spent(k) == [game EXCEPT !.timers = StopKind(@, k)]

\* finalDeleteTimeout.
TimeoutThemeSelection ==
    /\ Expires("themeSelection")
    /\ Unmoved
    /\ IF Cardinality(Remaining(game)) <= 1
       THEN game' = PlayLastTheme(Spent("themeSelection"))
       ELSE \E t \in Remaining(game) : game' \in Delete(Spent("themeSelection"), t)

\* onShowmanDecisionTimeout: a tie is broken at random; the room answers the
\* VALIDATION_TIMEOUT of an answer with the verdict of its own judge.
TimeoutShowmanDecision ==
    /\ Expires("showmanDecision")
    /\ Unmoved
    /\ CASE game.tie # {} -> \E p \in game.tie : game' = AskDelete(Spent("showmanDecision"), p)
         [] game.tie = {} /\ game.sub = "validating" -> \E v \in Verdicts : game' = Verdict(game, v)
         [] OTHER -> game' = Spent("showmanDecision")

\* hiddenStakesTimeout.
TimeoutStakeMaking ==
    /\ Expires("stakeMaking")
    /\ Unmoved
    /\ game' = IF game.sub = "stakes" THEN StakesDone(game) ELSE Spent("stakeMaking")

TimeoutContent == Expires("content") /\ ContentDone

TimeoutHiddenAnswering ==
    /\ Expires("hiddenAnswering")
    /\ Unmoved
    /\ game' = IF game.sub = "hiddenAnswering" THEN AnsweringDone(game) ELSE Spent("hiddenAnswering")

\* The end of the question: endQuestion, afterQuestion and finalContinue.
EndQuestion ==
    /\ Playing /\ game.sub = "reveal"
    /\ Unmoved
    /\ game' = Continue(StopAll(game))

TimeoutReflection == Expires("reflection") /\ EndQuestion

\* The round timer: the round ends after the question.
TimeoutRound ==
    /\ Expires("round")
    /\ game' = [Spent("round") EXCEPT !.timedOut = TRUE]
    /\ Unmoved

Pause ==
    /\ ~paused /\ game.stage # "roundEnd" /\ Trick
    /\ paused' = TRUE
    /\ game' = [game EXCEPT !.timers = HoldAll(@)]

Resume ==
    /\ paused
    /\ paused' = FALSE
    /\ game' = [game EXCEPT !.timers = ReleaseAll(@)]
    /\ UNCHANGED <<active, rules, tricks, departures>>

\* PLAYER_LEFT or KICK, with playerGone: a hidden phase that waited for this
\* player only is over.  A player who is kicked is one who does not come back.
Gone(p) ==
    /\ p \in active /\ tricks + departures < MaxEvents
    /\ active' = active \ {p}
    /\ LET waits == Answerers(game) \intersect active'
       IN  game' = CASE game.sub = "stakes" /\ \A o \in waits : game.stake[o] # 0 -> StakesDone(game)
                     [] game.sub = "hiddenAnswering" /\ \A o \in waits : game.answer[o] # "-" ->
                            AnsweringDone(game)
                     [] OTHER -> game
    /\ departures' = departures + 1
    /\ UNCHANGED <<paused, rules, tricks>>

PlayerJoined(p) ==
    /\ p \notin active
    /\ active' = active \union {p}
    /\ UNCHANGED <<game, paused, rules, tricks, departures>>

\* MOVE 1 before the reveal: abortQuestionToAnswer.
MoveForward ==
    /\ Playing /\ game.sub # "reveal"
    /\ Unmoved
    /\ game' = ShowAnswer(game)

\* MOVE 2.
MoveToEnd ==
    /\ game.stage # "roundEnd"
    /\ game' = EndRound(game)
    /\ Unmoved

\* MOVE -1: returnQuestionToTable takes the scores back.
MoveBack ==
    /\ Playing /\ Trick /\ paused' = paused
    /\ LET back(p) == LET mine == SelectSeq(game.history, LAMBDA o : o.person = p)
                      IN  FoldLeft(LAMBDA s, o : s - o.delta, game.scores[p], mine)
       IN  game' = Continue([NoQuestion(StopAll(game)) EXCEPT
                               !.open = @ \union {game.cell}, !.tie = {},
                               !.scores = [p \in Players |-> back(p)]])

\* MOVE -2 and 3, to the final round again.
MoveToStart ==
    /\ game.stage # "roundIntro" /\ Trick /\ paused' = paused
    /\ game' \in StartFinal(game)

Toggle(c) ==
    /\ game.stage \in {"finalThemes", "question"} /\ c # game.cell /\ Trick /\ paused' = paused
    /\ game' = [game EXCEPT !.open = IF c \in @ THEN @ \ {c} ELSE @ \union {c}]

ChangeScore(p, n) ==
    /\ game.scores[p] # n /\ Trick /\ paused' = paused
    /\ game' = [game EXCEPT !.scores[p] = n]
-----------------------------------------------------------------------------
Init ==
    /\ rules \in Setups
    /\ game = [stage |-> "roundIntro", open |-> {}, gone |-> {}, admitted |-> {}, slots |-> <<>>,
               offset |-> 0, step |-> 0, used |-> {}, deleter |-> NoPlayer, tie |-> {},
               sub |-> "none", cell |-> NoCell, answerers |-> <<>>,
               stake |-> [p \in Players |-> 0], answer |-> [p \in Players |-> "-"],
               pre |-> [p \in Players |-> "none"], cache |-> [x \in Texts |-> "none"],
               next |-> 0, pending |-> NoPlayer, history |-> <<>>, scores |-> rules.scores,
               timedOut |-> FALSE, timers |-> [k \in Kinds |-> "off"],
               entered |-> {}, asked |-> [p \in Players |-> 0]]
    /\ active = Players
    /\ paused = FALSE /\ tricks = 0 /\ departures = 0

TimerStep ==
    \/ TimeoutThemeSelection \/ TimeoutShowmanDecision \/ TimeoutStakeMaking
    \/ TimeoutContent \/ TimeoutHiddenAnswering \/ TimeoutReflection \/ TimeoutRound

Next ==
    \/ TimerStep
    \/ StartRound \/ ContentDone \/ EndQuestion
    \/ Pause \/ Resume \/ MoveForward \/ MoveToEnd \/ MoveBack \/ MoveToStart
    \/ \E p \in Players : SelectDeleter(p) \/ Gone(p) \/ PlayerJoined(p)
    \/ \E p \in Players, n \in Stakes : SetStake(p, n)
    \/ \E p \in Players, n \in Corrections : ChangeScore(p, n)
    \/ \E p \in Players, a \in Texts : Answer(p, a)
    \/ \E p \in Players, v \in Verdicts : PreVerdict(p, v)
    \/ \E v \in Verdicts : Validate(v)
    \/ \E t \in Themes : DeleteTheme(t)
    \/ \E c \in rules.table : Toggle(c)

Spec == Init /\ [][Next]_vars

\* A running timer gets to its end; a pause disables it without resetting it.
FairSpec == Spec /\ SF_vars(TimerStep)
-----------------------------------------------------------------------------
(* Properties.                                                             *)

TypeOK ==
    /\ game \in Games
    /\ active \subseteq Players
    /\ paused \in BOOLEAN /\ rules \in Setups
    /\ tricks + departures \in 0..MaxEvents

\* docs/research/01-sigame-rules.md, section 10: the deletion that leaves the
\* final theme is one of the players with the highest score.  The rotation counts
\* the themes and the players there are as the round starts and sorts by the
\* scores of that moment: it does not hold once somebody has left, TOGGLE has
\* taken a theme or CHANGE_SCORE has changed the order.
TopGroupDeletesLast ==
    [][/\ game.stage = "finalThemes" /\ game'.stage = "question"
       /\ departures = 0 /\ game.open = rules.table /\ game.scores = rules.scores
       => \A p \in game.entered : game.scores[p] <= game.scores[game.deleter]]_vars

\* Nobody deletes twice more often than anybody else, as long as nobody leaves.
DeletionsAreShared ==
    departures = 0 =>
        \A p, o \in game.entered : game.asked[p] <= game.asked[o] + 1

\* The reveal is over, and not by MOVE 1.
RevealOver ==
    game.sub \in {"hiddenAnswering", "validating"} /\ game'.sub = "reveal" /\ ~MoveForward

\* When the reveal is over every written answer has been given one verdict, also
\* when its author has left or the showman was asked in between; who wrote nothing
\* and was at the table as the turn came is wrong, and never right; nobody is
\* judged twice.
EveryAnswerIsJudged ==
    [][RevealOver =>
          \A i \in DOMAIN game.answerers :
              LET p == game.answerers[i]
                  blank == game'.answer[p] = "-"
                  turnNow == i > game.next
                  outcomes == SelectSeq(game'.history, LAMBDA o : o.person = p)
              IN  /\ Len(outcomes) <= 1
                  /\ ~blank => outcomes # <<>>
                  /\ blank /\ p \in active' /\ (turnNow \/ departures' = 0) => outcomes # <<>>
                  /\ blank => \A o \in Range(outcomes) : o.verdict = "wrong"]_vars

\* The round ends, by its timers alone, if the game is not paused for ever.
RoundEnds ==
    []<>(~paused) => [](game.stage # "roundIntro" => <>(game.stage = "roundEnd"))

\* internal/engine/hidden.go:24: "final round -> players admitted at the round
\* start": nobody else stakes and answers.
AdmittedAtTheStart == game.cell \notin ForAllCells => Answerers(game) \subseteq game.entered
=============================================================================
