---------------------------- MODULE QuestionFlow ----------------------------
(***************************************************************************)
(* The play of one question in the engine (internal/engine/engine.go and   *)
(* question.go): content groups, the button, the answer, the verdict, the  *)
(* reveal and the way back to the selection, under the showman's pause,    *)
(* NEXT, MOVE and SET_OPTIONS and under players leaving and coming back.   *)
(* The module ends with the round ("nextRound"); a managed game waits for  *)
(* the showman's NEXT before ("roundEnd"), and keeps its last question.    *)
(*                                                                         *)
(* The questions are the ones played by the button ("button"), by one      *)
(* player who is known when the content starts ("direct": noRisk, and      *)
(* stake and secret once they have an answerer) and the ones the showman   *)
(* scores by hand ("custom").  The rule UseAppellations is off: appeals    *)
(* are module Appeals.  The selection of the next question is one step.    *)
(*                                                                         *)
(* A helper of the code that several handlers call (showAnswer, rearm,     *)
(* contentGroupDone...) is an operator on a record h: the fields of the    *)
(* game as the handler has changed them so far.  Commit(h) writes them.    *)
(* Handlers assign connected', kicked', cells' and thinkingRemain' before  *)
(* they call a helper, which reads them primed.                            *)
(***************************************************************************)
EXTENDS Naturals, Sequences, FiniteSets, EngineTimers

CONSTANTS
    Players,        \* the seats at the table
    NoPlayer,       \* the empty person id
    Questions,      \* what can be on the table: [kind, atype, groups]
    Texts,          \* written answers
    Options,        \* labels of a select question
    RightOption,    \* the accepted label
    RuleSets,       \* rule settings the host can choose: [oral, managed, falseStart]
    ThinkTime,      \* ButtonPressingMs, in ticks
    ReflectionTime, \* ReflectionMs: only zero and non-zero differ
    Cells,          \* playable cells of the table at the start
    MaxOutcomes     \* BOUND: scores the showman gives to one custom question

GroupKinds == {"timed", "media", "manual"}
AnswerTypes == {"text", "select", "auto"}
Rule == [oral : BOOLEAN, managed : BOOLEAN, falseStart : BOOLEAN]

ASSUME PlayersAssumption == NoPlayer \notin Players
ASSUME QuestionsAssumption ==
    \A q \in Questions : /\ DOMAIN q = {"kind", "atype", "groups"}
                         /\ q.kind \in {"button", "direct", "custom"}
                         /\ q.atype \in AnswerTypes
                         /\ q.groups \in Seq(GroupKinds)
ASSUME RuleAssumption == RuleSets \subseteq Rule
ASSUME NumbersAssumption ==
    /\ ThinkTime \in Nat /\ ReflectionTime \in Nat
    /\ Cells \in Nat \ {0} /\ MaxOutcomes \in Nat
ASSUME AnswersAssumption == "" \notin Texts /\ "-" \notin Texts

NoQuestion == [kind |-> "none", atype |-> "text", groups |-> <<>>]
NoPending == [id |-> NoPlayer, answer |-> ""]
Verdicts == {"right", "wrong", "pass"}      \* "pass": rejected with factor 0
ContentKinds == {"content", "mediaFallback"}
AnswerKinds == {"answering", "soloAnswering"}
Kinds == ContentKinds \union AnswerKinds \union
         {"buttonPressing", "showmanDecision", "reflection"}
NoTimers == [k \in Kinds |-> "off"]

VARIABLES
    stage,          \* State.Stage
    cells,          \* cells not yet played
    question,       \* the fixed part of State.Question
    sub,            \* QuestionState.Sub
    armed,          \* QuestionState.Armed
    canPress,       \* players with CanPress
    answerer,       \* QuestionState.AnswererID
    pending,        \* PendingAnswerID and PendingAnswer
    cursor,         \* the content group shown, from 1
    contentDone,    \* QuestionState.ContentDone
    waitNext,       \* QuestionState.WaitNext
    awaitingMedia,  \* QuestionState.AwaitingMediaIDs
    mediaDone,      \* players with MediaDone
    thinkingRemain, \* QuestionState.ThinkingRemain
    pressLeft,      \* what is left of the buttonPressing timer, 0 without one
    history,        \* QuestionState.History
    cache,          \* QuestionState.ValidationCache
    excluded,       \* QuestionState.ExcludedOptions
    timers,         \* State.Timers
    paused,         \* State.Paused
    rules,          \* State.Rules
    connected,      \* players with Connected
    kicked          \* players with Kicked

steering == <<stage, sub, armed, canPress, answerer, pending, waitNext, timers, pressLeft>>
content == <<cursor, contentDone, awaitingMedia, mediaDone>>
scoring == <<history, cache, excluded>>
seats == <<connected, kicked>>
vars == <<steering, content, scoring, seats, question, thinkingRemain, cells, paused, rules>>

Active == connected \ kicked

\* anyCanPress, for the players still allowed to press.
AnyCanPress(cp) == cp \intersect Active' # {}
-----------------------------------------------------------------------------
(* The helpers of the handlers.                                            *)

Now == [armed |-> armed, canPress |-> canPress, answerer |-> answerer,
        pending |-> pending, waitNext |-> waitNext, timers |-> timers]

Commit(h) ==
    /\ armed' = h.armed
    /\ canPress' = h.canPress
    /\ answerer' = h.answerer
    /\ pending' = h.pending
    /\ waitNext' = h.waitNext
    /\ timers' = h.timers

Stop(h, kinds) == [h EXCEPT !.timers = StopKinds(h.timers, kinds)]
Start(h, kind) == [h EXCEPT !.timers = StartTimer(h.timers, kind, paused)]

\* endRound, called when the question is over (sub is "end"): a managed game
\* waits for NEXT, another one starts the next round at once.
BeginSelection ==
    stage' = IF cells' # 0 /\ Active' # {} THEN "selecting"
             ELSE IF rules.managed THEN "roundEnd" ELSE "nextRound"

\* endQuestion, then afterQuestion.
EndQuestion(h) ==
    /\ sub' = "end"
    /\ pressLeft' = 0
    /\ Commit([h EXCEPT !.waitNext = FALSE, !.canPress = {}, !.timers = NoTimers])
    /\ BeginSelection

ShowAnswer(h) ==
    LET r == [h EXCEPT !.armed = FALSE, !.pending = NoPending, !.timers = NoTimers]
    IN  IF ~rules.managed /\ ReflectionTime = 0
        THEN EndQuestion(r)
        ELSE /\ sub' = "reveal"
             /\ stage' = "question"
             /\ pressLeft' = 0
             /\ Commit(IF rules.managed THEN [r EXCEPT !.waitNext = TRUE]
                                        ELSE Start(r, "reflection"))

\* Mutant of AskAnswer: an oral answerer gets no timer, whatever the answer type.
AskAnswerOralUntimed(q, h, p, kind) ==
    LET r == [h EXCEPT !.answerer = p]
    IN  /\ sub' = "answering"
        /\ stage' = "question"
        /\ Commit(CASE rules.oral /\ q.atype = "text" -> [r EXCEPT !.pending = [id |-> p, answer |-> ""]]
                    [] rules.oral /\ q.atype # "text" -> r
                    [] ~rules.oral -> Start(r, kind))

AskAnswer(q, h, p, kind) ==
    LET r == Start([h EXCEPT !.answerer = p], kind)
    IN  /\ sub' = "answering"
        /\ stage' = "question"
        /\ Commit(IF rules.oral /\ q.atype = "text"
                  THEN [r EXCEPT !.pending = [id |-> p, answer |-> ""]]
                  ELSE r)

\* Mutant of ThinkAgain: every arming gives the whole thinking time.
ThinkAgainAnew(h) ==
    /\ pressLeft' = ThinkTime
    /\ Commit(Start(h, "buttonPressing"))

\* The thinking timer starts, or goes on where a press stopped it.
ThinkAgain(h) ==
    IF h.timers["buttonPressing"] \in {"held", "frozen"}
    THEN /\ pressLeft' = pressLeft
         /\ Commit([h EXCEPT !.timers = ResumeKinds(h.timers, {"buttonPressing"})])
    ELSE /\ pressLeft' = thinkingRemain'
         /\ Commit(Start(h, "buttonPressing"))

ArmButton(h) ==
    /\ sub' = "buttonWait"
    /\ stage' = "question"
    /\ ThinkAgain([h EXCEPT !.armed = TRUE])

ContentFinished(q, h) ==
    CASE q.kind = "button" /\ ~AnyCanPress(h.canPress) -> ShowAnswer(h)
      [] q.kind = "button" /\ AnyCanPress(h.canPress) /\ h.armed ->
             /\ sub' = "buttonWait"
             /\ stage' = "question"
             /\ pressLeft' = thinkingRemain'
             /\ Commit(Start(h, "buttonPressing"))
      [] q.kind = "button" /\ AnyCanPress(h.canPress) /\ ~h.armed -> ArmButton(h)
      [] q.kind = "direct" /\ h.answerer = NoPlayer -> ShowAnswer(h)
      [] q.kind = "direct" /\ h.answerer # NoPlayer ->
             /\ AskAnswer(q, h, h.answerer, "soloAnswering")
             /\ UNCHANGED pressLeft
      [] OTHER -> /\ sub' = "answering"
                  /\ stage' = "question"
                  /\ UNCHANGED pressLeft
                  /\ Commit(h)

ShowGroup(q, c, h) ==
    /\ cursor' = c
    /\ mediaDone' = {}
    /\ IF c > Len(q.groups)
       THEN /\ contentDone' = TRUE
            /\ awaitingMedia' = FALSE
            /\ ContentFinished(q, h)
       ELSE /\ contentDone' = FALSE
            /\ awaitingMedia' = (~rules.managed /\ q.groups[c] = "media")
            /\ sub' = "content"
            /\ stage' = "question"
            /\ UNCHANGED pressLeft
            /\ Commit(CASE rules.managed \/ q.groups[c] = "manual" -> [h EXCEPT !.waitNext = TRUE]
                        [] ~rules.managed /\ q.groups[c] = "media" -> Start(h, "mediaFallback")
                        [] ~rules.managed /\ q.groups[c] = "timed" -> Start(h, "content"))

ContentGroupDone(h) == ShowGroup(question, cursor + 1, [h EXCEPT !.waitNext = FALSE])

\* Mutant of Rearm: the content's own timer is not resumed.
RearmStillFrozen(h) ==
    IF contentDone
    THEN ArmButton(h) /\ UNCHANGED content
    ELSE /\ sub' = "content"
         /\ stage' = "question"
         /\ UNCHANGED <<content, pressLeft>>
         /\ Commit([h EXCEPT !.armed = TRUE])

Rearm(h) ==
    LET r == [h EXCEPT !.armed = TRUE, !.timers = ResumeKinds(h.timers, ContentKinds)]
    IN  IF contentDone
        THEN ArmButton(h) /\ UNCHANGED content
        ELSE IF h.waitNext \/ awaitingMedia \/ \E k \in ContentKinds : r.timers[k] # "off"
             THEN /\ sub' = "content"
                  /\ stage' = "question"
                  /\ UNCHANGED <<content, pressLeft>>
                  /\ Commit(r)
             ELSE ContentGroupDone(r)

ApplyOutcome(p, a, v) ==
    /\ cache' = IF question.atype = "text" /\ a \in Texts THEN [cache EXCEPT ![a] = v] ELSE cache
    /\ excluded' = IF question.atype = "select" /\ v = "wrong" THEN excluded \union {a} ELSE excluded
    /\ history' = Append(history, [person |-> p, answer |-> a, verdict |-> v])

ApplyVerdict(p, a, v, h0) ==
    LET h == [h0 EXCEPT !.pending = NoPending]
        r == [h EXCEPT !.canPress = h.canPress \ {p}]
        oneLeft == question.atype = "select" /\ Cardinality(Options) <= Cardinality(excluded') + 1
    IN  /\ ApplyOutcome(p, a, v)
        /\ IF v = "right" \/ oneLeft \/ question.kind # "button"
           THEN ShowAnswer(h) /\ UNCHANGED content
           ELSE IF AnyCanPress(r.canPress)
                THEN Rearm(r)
                ELSE ShowAnswer(r) /\ UNCHANGED content
-----------------------------------------------------------------------------
(* Playing a question.                                                     *)

\* A cell is picked: startQuestion and the begin operator of the question's
\* type.  By the chooser or the selection timer when the game is not paused; in
\* a sequential game by the end of the question before, which the showman's NEXT
\* or MOVE may bring about in a pause.
StartQuestion(q) ==
    /\ stage = "selecting"
    /\ UNCHANGED <<seats, paused, rules>>
    /\ cells' = cells - 1
    /\ question' = q
    /\ history' = <<>>
    /\ cache' = [t \in Texts |-> "none"]
    /\ excluded' = {}
    /\ thinkingRemain' = IF q.kind = "button" THEN ThinkTime ELSE 0
    /\ \E p \in IF q.kind = "direct" /\ Active # {} THEN Active ELSE {NoPlayer} :
          ShowGroup(q, 1, [armed |-> q.kind = "button" /\ ~rules.falseStart,
                           canPress |-> IF q.kind = "button" THEN Active ELSE {},
                           answerer |-> p, pending |-> NoPending, waitNext |-> FALSE,
                           timers |-> NoTimers])

\* Mutant of ButtonWinner: the timer of the content or of the thinking runs on.
ButtonWinnerNoFreeze(p) ==
    /\ stage = "question" /\ question.kind = "button" /\ armed /\ ~paused
    /\ p \in Active \intersect canPress
    /\ AskAnswer(question, [Now EXCEPT !.armed = FALSE, !.canPress = canPress \ {p}], p, "answering")
    /\ UNCHANGED <<content, scoring, seats, question, thinkingRemain, cells, paused, rules, pressLeft>>

\* Mutant of ButtonWinner: the button stays armed during the answer.
ButtonWinnerArmed(p) ==
    /\ stage = "question" /\ question.kind = "button" /\ armed /\ ~paused
    /\ p \in Active \intersect canPress
    /\ AskAnswer(question, [Now EXCEPT !.canPress = canPress \ {p}], p, "answering")
    /\ UNCHANGED <<content, scoring, seats, question, thinkingRemain, cells, paused, rules, pressLeft>>

\* BUTTON_RESULT with a winner.
ButtonWinner(p) ==
    /\ stage = "question" /\ question.kind = "button" /\ armed /\ ~paused
    /\ p \in Active \intersect canPress
    /\ LET frozen == IF sub = "content" THEN ContentKinds
                     ELSE IF sub = "buttonWait" THEN {"buttonPressing"} ELSE {}
       IN  AskAnswer(question,
                     [Now EXCEPT !.armed = FALSE, !.canPress = canPress \ {p},
                                 !.timers = FreezeKinds(timers, frozen)],
                     p, "answering")
    /\ thinkingRemain' = IF sub = "buttonWait" /\ timers["buttonPressing"] # "off"
                         THEN pressLeft ELSE thinkingRemain
    /\ UNCHANGED <<content, scoring, seats, question, cells, paused, rules, pressLeft>>

\* BUTTON_RESULT without one: nobodyAnswered.
ButtonNobody ==
    /\ stage = "question" /\ question.kind = "button" /\ armed /\ ~paused
    /\ sub = "buttonWait"
    /\ UNCHANGED <<content, scoring, seats, question, thinkingRemain, cells, paused, rules>>
    /\ ShowAnswer(Now)

Pass(p) ==
    /\ stage = "question" /\ question.kind = "button" /\ ~paused
    /\ sub \in {"content", "buttonWait"}
    /\ p \in Active \intersect canPress
    /\ UNCHANGED <<content, scoring, seats, question, thinkingRemain, cells, paused, rules>>
    /\ LET h == [Now EXCEPT !.canPress = canPress \ {p}]
       IN  IF ~AnyCanPress(h.canPress) /\ sub = "buttonWait"
           THEN ShowAnswer(h)
           ELSE /\ Commit([h EXCEPT !.armed = armed /\ AnyCanPress(h.canPress)])
                /\ UNCHANGED <<stage, sub, pressLeft>>

\* The verdict that the answer a gets without the showman.
AutoVerdicts(a) ==
    CASE question.atype = "select" -> {IF a = RightOption THEN "right" ELSE "wrong"}
      [] question.atype = "auto" -> {"right", "wrong"}
      [] question.atype = "text" /\ a \in Texts -> {cache[a]} \intersect Verdicts
      [] OTHER -> {}

AskValidate(a, h) ==
    /\ sub' = "validating"
    /\ Commit(Start([h EXCEPT !.pending = [id |-> answerer, answer |-> a]], "showmanDecision"))
    /\ UNCHANGED <<stage, pressLeft, content, scoring>>

\* ANSWER by the answerer, or by the showman for an oral answerer.  Once an
\* oral verdict is pending it only records the text.
Answer(a) ==
    /\ stage = "question" /\ sub = "answering" /\ ~paused
    /\ question.kind # "custom"
    /\ answerer \in Active \/ rules.oral
    /\ pending.id = NoPlayer
    /\ UNCHANGED <<seats, question, thinkingRemain, cells, paused, rules>>
    /\ LET h == Stop(Now, AnswerKinds)
       IN  IF AutoVerdicts(a) = {}
           THEN AskValidate(a, h)
           ELSE \E v \in AutoVerdicts(a) : ApplyVerdict(answerer, a, v, h)

\* VALIDATE of the pending answer by the showman or the judge.
Validate(v) ==
    /\ stage = "question" /\ ~paused
    /\ question.kind # "custom"
    /\ pending.id # NoPlayer
    /\ sub \in {"validating", "answering"}
    /\ UNCHANGED <<seats, question, thinkingRemain, cells, paused, rules>>
    /\ ApplyVerdict(pending.id, pending.answer, v,
                    Stop(Now, AnswerKinds \union {"showmanDecision"}))

\* VALIDATE of a custom question: the showman scores any player.
ValidateCustom(p, a, v) ==
    /\ stage = "question" /\ ~paused
    /\ question.kind = "custom" /\ sub = "answering"
    /\ Len(history) < MaxOutcomes
    /\ ApplyOutcome(p, a, v)
    /\ UNCHANGED <<steering, content, seats, question, thinkingRemain, cells, paused, rules>>

\* MEDIA_COMPLETED of a player.  (The system's, for all of them at once, is sent
\* by nothing in the server; it would do what the fallback timer does.)
MediaCompleted(p) ==
    /\ stage = "question" /\ sub = "content" /\ awaitingMedia /\ ~paused
    /\ p \in Active
    /\ UNCHANGED <<scoring, seats, question, thinkingRemain, cells, paused, rules>>
    /\ IF Active \subseteq mediaDone \union {p}
       THEN ContentGroupDone(Stop(Now, {"mediaFallback"}))
       ELSE /\ mediaDone' = mediaDone \union {p}
            /\ UNCHANGED <<steering, cursor, contentDone, awaitingMedia>>
-----------------------------------------------------------------------------
(* Timers: the room posts TIMEOUT when a running timer is over.            *)

\* One tick of the thinking timer.
Tick ==
    /\ timers["buttonPressing"] = "run" /\ pressLeft > 0
    /\ pressLeft' = pressLeft - 1
    /\ UNCHANGED <<stage, sub, armed, canPress, answerer, pending, waitNext, timers>>
    /\ UNCHANGED <<content, scoring, seats, question, thinkingRemain, cells, paused, rules>>

\* What every TIMEOUT does first.
Expires(k) == timers[k] = "run" /\ ~paused

TimeoutContent(k) ==
    /\ Expires(k)
    /\ UNCHANGED <<scoring, seats, question, thinkingRemain, cells, paused, rules>>
    /\ IF stage # "question" \/ sub # "content"
       THEN /\ timers' = StopKind(timers, k)
            /\ UNCHANGED <<stage, sub, armed, canPress, answerer, pending, waitNext, pressLeft, content>>
       ELSE ContentGroupDone(Stop(Now, {k}))

TimeoutButtonPressing ==
    /\ Expires("buttonPressing") /\ pressLeft = 0
    /\ UNCHANGED <<content, scoring, seats, question, thinkingRemain, cells, paused, rules>>
    /\ ShowAnswer(Now)

\* answerTimeout: an oral answerer is left to the showman.
TimeoutAnswering(k) ==
    /\ Expires(k)
    /\ UNCHANGED <<seats, question, thinkingRemain, cells, paused, rules>>
    /\ IF sub # "answering" \/ pending.id # NoPlayer
       THEN /\ timers' = StopKind(timers, k)
            /\ UNCHANGED <<stage, sub, armed, canPress, answerer, pending, waitNext, pressLeft>>
            /\ UNCHANGED <<content, scoring>>
       ELSE ApplyVerdict(answerer, "-", "wrong", Stop(Now, {k}))

\* VALIDATION_TIMEOUT: the room's fuzzy judge answers it with a VALIDATE
\* before the room takes another message.
TimeoutShowmanDecision(v) ==
    /\ Expires("showmanDecision")
    /\ UNCHANGED <<seats, question, thinkingRemain, cells, paused, rules>>
    /\ IF sub # "validating" \/ pending.id = NoPlayer
       THEN /\ timers' = StopKind(timers, "showmanDecision")
            /\ UNCHANGED <<stage, sub, armed, canPress, answerer, pending, waitNext, pressLeft>>
            /\ UNCHANGED <<content, scoring>>
       ELSE ApplyVerdict(pending.id, pending.answer, v,
                         Stop(Now, AnswerKinds \union {"showmanDecision"}))

TimeoutReflection ==
    /\ Expires("reflection")
    /\ UNCHANGED <<content, scoring, seats, question, thinkingRemain, cells, paused, rules>>
    /\ EndQuestion(Now)
-----------------------------------------------------------------------------
(* The showman and the host: allowed while the game is paused.             *)

Pause(on) ==
    /\ on # paused
    /\ paused' = on
    /\ timers' = IF on THEN HoldAll(timers) ELSE ReleaseAll(timers)
    /\ UNCHANGED <<stage, sub, armed, canPress, answerer, pending, waitNext, pressLeft>>
    /\ UNCHANGED <<content, scoring, seats, question, thinkingRemain, cells, rules>>

NextStep ==
    /\ stage = "question"
    /\ UNCHANGED <<scoring, seats, question, thinkingRemain, cells, paused, rules>>
    /\ \/ /\ sub = "content"
          /\ waitNext \/ awaitingMedia \/ \E k \in ContentKinds : timers[k] # "off"
          /\ ContentGroupDone(Stop(Now, ContentKinds))
       \/ sub = "reveal" /\ EndQuestion(Now) /\ UNCHANGED content
       \/ /\ sub = "answering" /\ question.kind = "custom"
          /\ ShowAnswer(Now) /\ UNCHANGED content

\* MOVE 1.
MoveForward ==
    /\ stage = "question"
    /\ UNCHANGED <<content, scoring, seats, question, thinkingRemain, cells, paused, rules>>
    /\ IF sub = "reveal" THEN EndQuestion(Now) ELSE ShowAnswer(Now)

\* State.Question becomes nil.
DropQuestion ==
    /\ question' = NoQuestion
    /\ sub' = "end"
    /\ cursor' = 1 /\ contentDone' = FALSE /\ awaitingMedia' = FALSE /\ mediaDone' = {}
    /\ thinkingRemain' = 0 /\ pressLeft' = 0
    /\ history' = <<>> /\ cache' = [t \in Texts |-> "none"] /\ excluded' = {}
    /\ Commit([armed |-> FALSE, canPress |-> {}, answerer |-> NoPlayer,
               pending |-> NoPending, waitNext |-> FALSE, timers |-> NoTimers])

\* MOVE -1: the question goes back to the table.
MoveBack ==
    /\ stage = "question"
    /\ UNCHANGED <<seats, paused, rules>>
    /\ DropQuestion
    /\ cells' = cells + 1
    /\ BeginSelection

\* MOVE 2: endRound.  It stops the timers and the tie, and in a managed game
\* leaves the question on the table as it is, until NEXT.
MoveEndRound ==
    /\ stage # "nextRound"
    /\ UNCHANGED <<seats, cells, paused, rules>>
    /\ IF rules.managed
       THEN /\ stage' = "roundEnd"
            /\ timers' = NoTimers /\ pressLeft' = 0
            /\ UNCHANGED <<sub, armed, canPress, answerer, pending, waitNext>>
            /\ UNCHANGED <<content, scoring, question, thinkingRemain>>
       ELSE stage' = "nextRound" /\ DropQuestion

\* startRound of another round: MOVE -2 and MOVE 3 at any time; NEXT and MOVE 1
\* where the round has ended.
LeaveRound ==
    /\ stage # "nextRound"
    /\ DropQuestion
    /\ stage' = "nextRound"
    /\ UNCHANGED <<seats, cells, paused, rules>>

SetOptions(r) ==
    /\ rules' = r
    /\ UNCHANGED <<steering, content, scoring, seats, question, thinkingRemain, cells, paused>>

\* playerGone, for the questions of this module.
PlayerGone ==
    IF stage = "question" /\ sub = "content" /\ awaitingMedia /\ Active' \subseteq mediaDone
    THEN ContentGroupDone(Stop(Now, {"mediaFallback"}))
    ELSE UNCHANGED <<steering, content>>

PlayerLeft(p) ==
    /\ p \in connected
    /\ connected' = connected \ {p}
    /\ UNCHANGED <<kicked, scoring, question, thinkingRemain, cells, paused, rules>>
    /\ PlayerGone

\* Mutant of PlayerJoined: who comes back may press again.
PlayerJoinedMayPress(p) ==
    /\ p \notin kicked
    /\ connected' = connected \union {p}
    /\ canPress' = IF question.kind = "button" THEN canPress \union {p} ELSE canPress
    /\ UNCHANGED <<stage, sub, armed, answerer, pending, waitNext, timers, pressLeft>>
    /\ UNCHANGED <<kicked, content, scoring, question, thinkingRemain, cells, paused, rules>>

PlayerJoined(p) ==
    /\ p \notin kicked
    /\ connected' = connected \union {p}
    /\ UNCHANGED <<kicked, steering, content, scoring, question, thinkingRemain, cells, paused, rules>>

KickPlayer(p) ==
    /\ p \notin kicked
    /\ kicked' = kicked \union {p}
    /\ connected' = connected \ {p}
    /\ UNCHANGED <<scoring, question, thinkingRemain, cells, paused, rules>>
    /\ PlayerGone
-----------------------------------------------------------------------------
Init ==
    /\ stage = "selecting" /\ cells = Cells
    /\ question = NoQuestion /\ sub = "end"
    /\ armed = FALSE /\ canPress = {} /\ answerer = NoPlayer /\ pending = NoPending
    /\ cursor = 1 /\ contentDone = FALSE /\ awaitingMedia = FALSE /\ mediaDone = {}
    /\ waitNext = FALSE /\ thinkingRemain = 0 /\ pressLeft = 0
    /\ history = <<>> /\ cache = [t \in Texts |-> "none"] /\ excluded = {}
    /\ timers = NoTimers /\ paused = FALSE
    /\ rules \in RuleSets
    /\ connected = Players /\ kicked = {}

AnswerValues ==
    CASE question.atype = "text" -> Texts \union {"-"}
      [] question.atype = "select" -> Options \union {"-"}
      [] OTHER -> {"-"}

TimerStep ==
    \/ Tick
    \/ \E k \in ContentKinds : TimeoutContent(k)
    \/ TimeoutButtonPressing
    \/ \E k \in AnswerKinds : TimeoutAnswering(k)
    \/ \E v \in Verdicts : TimeoutShowmanDecision(v)
    \/ TimeoutReflection

PlayerStep ==
    \/ \E q \in Questions : StartQuestion(q)
    \/ \E p \in Players : ButtonWinner(p) \/ Pass(p) \/ MediaCompleted(p)
    \/ ButtonNobody
    \/ \E a \in AnswerValues : Answer(a)
    \/ \E v \in Verdicts : Validate(v)
    \/ \E p \in Players, a \in Texts, v \in Verdicts : ValidateCustom(p, a, v)

StaffStep ==
    \/ \E on \in BOOLEAN : Pause(on)
    \/ NextStep \/ MoveForward \/ MoveBack \/ MoveEndRound \/ LeaveRound
    \/ \E r \in RuleSets : SetOptions(r)
    \/ \E p \in Players : PlayerLeft(p) \/ PlayerJoined(p) \/ KickPlayer(p)

Next == TimerStep \/ PlayerStep \/ StaffStep

Spec == Init /\ [][Next]_vars

\* The timers are real: one that runs again and again gets to its end.  Strong
\* fairness, because a pause disables a timer without resetting it.
FairSpec == Spec /\ SF_vars(TimerStep)
-----------------------------------------------------------------------------
TypeOK ==
    /\ stage \in {"selecting", "question", "roundEnd", "nextRound"}
    /\ sub \in {"content", "buttonWait", "answering", "validating", "reveal", "end"}
    /\ question \in Questions \union {NoQuestion}
    /\ armed \in BOOLEAN /\ contentDone \in BOOLEAN /\ waitNext \in BOOLEAN
    /\ awaitingMedia \in BOOLEAN /\ paused \in BOOLEAN
    /\ canPress \subseteq Players /\ mediaDone \subseteq Players
    /\ connected \subseteq Players /\ kicked \subseteq Players
    /\ answerer \in Players \union {NoPlayer}
    /\ pending \in [id : Players \union {NoPlayer}, answer : Texts \union {"", "-"}]
    /\ cursor \in Nat /\ thinkingRemain \in Nat /\ pressLeft \in Nat /\ cells \in Nat
    /\ excluded \subseteq Texts \union Options \union {"", "-"}
    /\ cache \in [Texts -> Verdicts \union {"none"}]
    /\ history \in Seq([person : Players, verdict : Verdicts,
                        answer : Texts \union Options \union {"", "-"}])
    /\ timers \in [Kinds -> TimerStatus]
    /\ rules \in Rule
-----------------------------------------------------------------------------
(* The invariant the proofs are about: what every step of a question has    *)
(* left behind, timer by timer.                                             *)

OnlyLive(K) == \A k \in Kinds : timers[k] = "off" \/ (k \in K /\ timers[k] = Live(paused))

\* The clocks that a button answer holds back: the thinking timer once the
\* content was over, the content's own timer before.
HeldBack ==
    IF question.kind # "button"
    THEN \A k \in ContentKinds \union {"buttonPressing"} : timers[k] = "off"
    ELSE IF contentDone
         THEN /\ timers["buttonPressing"] = "frozen" /\ thinkingRemain = pressLeft
              /\ \A k \in ContentKinds : timers[k] = "off"
         ELSE /\ timers["buttonPressing"] = "off"
              /\ \A k \in ContentKinds : timers[k] \in {"off", "frozen"}
              /\ \E k \in ContentKinds : timers[k] = "off"
              /\ awaitingMedia => timers["content"] = "off"
              /\ waitNext \/ \E k \in ContentKinds : timers[k] = "frozen"

\* Outside a question no timer is left; the button and the verdict are gone, but
\* where MOVE 2 has left a managed game with the question as it was.
Closed ==
    /\ stage # "question" => timers = NoTimers
    /\ stage \in {"selecting", "nextRound"} => ~armed /\ pending.id = NoPlayer
    /\ stage = "roundEnd" =>
          /\ armed => question.kind = "button" /\ sub \in {"content", "buttonWait"}
          /\ pending.id # NoPlayer => sub \in {"answering", "validating"} /\ pending.id = answerer
    /\ stage = "selecting" => cells # 0

ShapeContent ==
    /\ ~contentDone
    /\ OnlyLive(ContentKinds)
    /\ \E k \in ContentKinds : timers[k] = "off"
    /\ awaitingMedia => timers["content"] = "off"
    /\ waitNext \/ \E k \in ContentKinds : timers[k] # "off"
    /\ pending.id = NoPlayer
    /\ armed => question.kind = "button"

ShapeWait ==
    /\ question.kind = "button" /\ armed /\ contentDone
    /\ OnlyLive({"buttonPressing"}) /\ timers["buttonPressing"] # "off"
    /\ pressLeft <= thinkingRemain
    /\ pending.id = NoPlayer

ShapeAnswering ==
    /\ ~armed
    /\ HeldBack
    /\ timers["showmanDecision"] = "off" /\ timers["reflection"] = "off"
    /\ \A k \in AnswerKinds : timers[k] \in {"off", Live(paused)}
    /\ \E k \in AnswerKinds : timers[k] = "off"
    /\ IF question.kind = "custom"
       THEN pending.id = NoPlayer /\ \A k \in AnswerKinds : timers[k] = "off"
       ELSE /\ answerer \in Players
            /\ \/ pending.id = answerer
               \/ pending.id = NoPlayer /\ \E k \in AnswerKinds : timers[k] # "off"

ShapeValidating ==
    /\ ~armed
    /\ HeldBack
    /\ timers["showmanDecision"] = Live(paused) /\ timers["reflection"] = "off"
    /\ \A k \in AnswerKinds : timers[k] = "off"
    /\ question.kind # "custom" /\ answerer \in Players /\ pending.id = answerer

ShapeReveal ==
    /\ ~armed
    /\ OnlyLive({"reflection"})
    /\ waitNext \/ timers["reflection"] # "off"
    /\ pending.id = NoPlayer

Shape ==
    /\ Closed
    /\ stage = "question" =>
          /\ question \in Questions
          /\ sub # "end"
          /\ sub = "content" => ShapeContent
          /\ sub = "buttonWait" => ShapeWait
          /\ sub = "answering" => ShapeAnswering
          /\ sub = "validating" => ShapeValidating
          /\ sub = "reveal" => ShapeReveal
-----------------------------------------------------------------------------
(* Properties.                                                             *)

\* Somebody always drives an open question on: while content is shown, a
\* player may press, an answer is given or judged, or the answer is revealed,
\* a timer of that step is alive, or the showman has been told to act (NEXT, an
\* oral or a custom question).  A pause holds the timer; no sequence of presses,
\* wrong answers, pauses, NEXTs and disconnects loses it.
Driven ==
    stage = "question" =>
        /\ sub # "end"
        /\ sub = "content" => waitNext \/ \E k \in ContentKinds : timers[k] = Live(paused)
        /\ sub = "buttonWait" => timers["buttonPressing"] = Live(paused)
        /\ sub = "answering" => \/ question.kind = "custom"
                                \/ pending.id # NoPlayer
                                \/ \E k \in AnswerKinds : timers[k] = Live(paused)
        /\ sub = "validating" => timers["showmanDecision"] = Live(paused)
        /\ sub = "reveal" => waitNext \/ timers["reflection"] = Live(paused)

\* Never two clocks at once: the thinking timer and the content timer stand
\* still while the winner of the button answers and is judged, nothing runs in a
\* pause, and no timer outlives its question.
OneClock ==
    /\ \A j, k \in Kinds : timers[j] = "run" /\ timers[k] = "run" => j = k
    /\ \A k \in Kinds : timers[k] = "run" => ~paused /\ stage = "question"

\* A timer that the game logic froze is waiting for the verdict on a button
\* answer, so a showman's resume that skips it cannot leave it frozen for good.
FrozenForAnAnswer ==
    \A k \in Kinds : timers[k] = "frozen" =>
        /\ stage = "question" /\ question.kind = "button"
        /\ sub \in {"answering", "validating"}
        /\ k \in ContentKinds \/ (k = "buttonPressing" /\ contentDone)

\* The button is open only while somebody may still press: never with an
\* answer, a verdict or the reveal in progress, nor in the selection or the next
\* round.  While the thinking timer runs it is open.  At the end of a round that
\* MOVE 2 cut short a managed game keeps q.Armed as it was in the question, and
\* there too it belongs to a button question that showed its content or waited.
ArmedSound ==
    /\ armed => /\ stage \in {"question", "roundEnd"}
                /\ question.kind = "button" /\ sub \in {"content", "buttonWait"}
    /\ stage = "question" /\ sub = "buttonWait" => armed /\ contentDone

\* An outstanding verdict is about the player who is answering now, or who was
\* when MOVE 2 ended the round of a managed game.
PendingSound ==
    /\ pending.id # NoPlayer =>
           /\ stage \in {"question", "roundEnd"}
           /\ sub \in {"answering", "validating"} /\ pending.id = answerer
    /\ stage = "question" /\ sub = "validating" => pending.id # NoPlayer

\* One attempt each: nobody is scored twice in a button question, and whoever
\* was scored cannot press again, however often the button is armed anew.
OneAttemptEach ==
    question.kind = "button" =>
        /\ \A i, j \in DOMAIN history : history[i].person = history[j].person => i = j
        /\ \A i \in DOMAIN history : history[i].person \notin canPress

\* The thinking time of a button question is spent once: interrupted by presses,
\* re-armed after wrong answers and paused, it never grows back.
ThinkingLeft == IF timers["buttonPressing"] # "off" THEN pressLeft ELSE thinkingRemain
InPlay == stage = "question" /\ sub \in {"content", "buttonWait", "answering", "validating"}
ThinkingNeverRefills == [][InPlay /\ InPlay' => ThinkingLeft' <= ThinkingLeft]_vars

\* Nothing is scored during a pause, and the thinking time does not pass.
PauseIsStill ==
    [][paused => /\ Len(history') <= Len(history)
                 /\ InPlay /\ InPlay' /\ contentDone => ThinkingLeft' = ThinkingLeft]_vars

\* docs/research/01-sigame-rules.md:116: a wrong option is excluded, and the
\* question ends when one option is left.  So a wrong answer does not close a
\* select question with two options open and a player who may still press.
OptionsLeftKeepItOpen ==
    [][question.atype = "select" /\ question.kind = "button" /\ Len(history') = Len(history) + 1
          /\ history'[Len(history')].verdict = "wrong"
          /\ (canPress \ {answerer}) \intersect Active # {}
       => sub' # "reveal" \/ Cardinality(Options \ excluded') <= 1]_vars

\* A question that waits for no showman ends, by its timers alone, if the game
\* is not paused for ever.
QuestionEnds == ([]<>(~paused)) => (stage = "question" ~> stage # "question")
=============================================================================
