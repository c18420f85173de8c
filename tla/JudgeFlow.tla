----------------------------- MODULE JudgeFlow ------------------------------
(***************************************************************************)
(* Automatic judging: the room asks a judge about every text answer that   *)
(* the engine wants judged (internal/room/judge.go), in a goroutine of its *)
(* own; the judge tries an exact match, the cache and the AI service       *)
(* (internal/ai/composite.go, openrouter.go), whose requests fail, are     *)
(* refused, repeated and timed out; the verdict comes back through the     *)
(* mailbox, and by then the showman may have judged, the game may be       *)
(* paused, or the question may be over.                                    *)
(*                                                                         *)
(* Of the engine: the answers, the verdicts, and the clock of the showman. *)
(* Who presses is QuestionFlow's, so here any player left may.  The texts  *)
(* are compared, never read: what the fuzzy judge says of each is given.   *)
(***************************************************************************)
EXTENDS Naturals, Sequences, FiniteSets, FiniteSetsExt, SequencesExt, EngineTimers

CONSTANTS
    Players,        \* the seats at the table, numbered
    Texts,          \* the answers they give, normalised
    Exact,          \* those that equal an accepted or a known wrong answer
    Fuzzy,          \* the verdict of the fuzzy judge on each text
    Plain,          \* the questions answered by one player at a time
    Hidden,         \* the questions everyone answers in writing
    Setups,         \* rooms and rounds: [mode, table, flaky, moves]
    CacheSize       \* capacity of the verdict cache

Questions == Plain \union Hidden
\* "uncertain" and a factor are left out: with the penalty or without, the
\* answer is not right (normaliseVerdict).
Verdicts == {"right", "wrong"}
None == "none"
Nobody == [person |-> 0, text |-> None]

ASSUME PlayersAssumption == Players \subseteq Nat \ {0} /\ IsFiniteSet(Players)
ASSUME TextsAssumption == Exact \subseteq Texts /\ None \notin Texts /\ Fuzzy \in [Texts -> Verdicts]
ASSUME SetupsAssumption == Setups \subseteq [mode : {"human", "ai", "hybrid"}, table : SUBSET Questions, flaky : BOOLEAN, moves : Nat]
ASSUME QuestionsAssumption == Plain \intersect Hidden = {} /\ None \notin Questions
ASSUME BoundsAssumption == CacheSize \in Nat \ {0}

VARIABLES
    game,       \* the question: see Games
    table,      \* the questions still to be played
    paused,     \* State.Paused
    mode,       \* Room.showman
    human,      \* a human sits in the showman's seat
    hybrid,     \* hybridTimer and hybridKey, with the verdict to confirm
    calls,      \* the calls of the judge so far: see Calls
    cache,      \* the verdicts kept, most recently used first
    useSchema,  \* OpenRouterJudge.useSchema
    flaky,      \* requests may fail, or be refused with a schema
    lost,       \* history: a verdict announced as applied was refused by the engine
    moves       \* BOUND: pauses, MOVEs and departures of the showman left

engine == <<game, table, paused>>
room == <<mode, human, hybrid, lost>>
service == <<calls, cache, useSchema, flaky>>
vars == <<engine, room, service, moves>>

Games == [question : Questions \union {None},
          sub : {"none", "button", "answering", "hiddenAnswering", "validating", "reveal"},
          canPress : SUBSET Players, answerer : Players \union {0},
          pending : [person : Players \union {0}, text : Texts \union {None}],
          answer : [Players -> Texts \union {None}],                  \* what each wrote
          pre : [Players -> [by : {None, "showman", "room"}, is : Verdicts \union {None}]],
          cache : [Texts -> Verdicts \union {None}],                  \* ValidationCache
          toReveal : SUBSET Players, clock : TimerStatus]             \* showmanDecision

\* A call: what it judges, how far it got, the requests it made, its verdict.
Calls == [question : Questions, person : Players, text : Texts, preview : BOOLEAN,
          pc : {"asked", "sent", "posted", "done"}, schema : BOOLEAN, attempt : {0, 1},
          requests : Nat, verdict : Verdicts \union {None}]

\* ExactMatch, which needs no service, and FuzzyJudge.Judge, which needs none
\* either and always says the same of the same text.
ExactMatch(x) == x \in Exact
FuzzyJudge(x) == Fuzzy[x]

NoTimer == [question |-> None, person |-> 0, text |-> None, is |-> None]

NoQuestion == [question |-> None, sub |-> "none", canPress |-> {}, answerer |-> 0, pending |-> Nobody,
               answer |-> [p \in Players |-> None], pre |-> [p \in Players |-> [by |-> None, is |-> None]],
               cache |-> [x \in Texts |-> None], toReveal |-> {}, clock |-> "off"]

IsHidden(g) == g.question \in Hidden

TypeOK ==
    /\ game \in Games /\ table \subseteq Questions /\ paused \in BOOLEAN
    /\ mode \in {"human", "ai", "hybrid"} /\ human \in BOOLEAN /\ lost \in BOOLEAN
    /\ hybrid = NoTimer \/ (hybrid.question \in Questions /\ hybrid.person \in Players
                            /\ hybrid.text \in Texts /\ hybrid.is \in Verdicts)
    /\ calls \in Seq(Calls)
    /\ cache \in Seq([key : Questions \X Texts, verdict : Verdicts]) /\ Len(cache) <= CacheSize
    /\ useSchema \in BOOLEAN /\ flaky \in BOOLEAN /\ moves \in Nat
-----------------------------------------------------------------------------
(* The engine.                                                             *)

ShowAnswer(g) == [g EXCEPT !.sub = "reveal", !.pending = Nobody, !.clock = "off"]

\* askValidate.
AskValidate(g, p, x) ==
    [g EXCEPT !.sub = "validating", !.pending = [person |-> p, text |-> x], !.clock = Live(paused)]

\* applyOutcome: an answer that was given is remembered with its verdict.
Outcome(g, x, is) ==
    [g EXCEPT !.pending = Nobody, !.cache = IF x = None THEN @ ELSE [@ EXCEPT ![x] = is]]

\* applyVerdict: after a wrong answer the others may press.
ApplyVerdict(g, p, x, is) ==
    LET h == [Outcome(g, x, is) EXCEPT !.clock = "off", !.canPress = IF is = "right" THEN @ ELSE @ \ {p}]
    IN  IF is = "right" \/ h.canPress = {}
        THEN ShowAnswer(h)
        ELSE [h EXCEPT !.sub = "button", !.answerer = 0]

\* hiddenRevealNext: a written answer needs no judgement if there is none, or
\* one was given early, or given to the same answer before.
Known(g, p) ==
    LET x == g.answer[p]
    IN  \/ x = None \/ g.cache[x] # None
        \/ \E o \in g.toReveal : o <= p /\ g.answer[o] = x /\ g.pre[o].is # None

\* The answers are revealed in seat order until one has to be judged; of early
\* verdicts on the same answer the last is remembered.
RevealNext(g) ==
    LET unknown == {p \in g.toReveal : ~Known(g, p)}
        told == {p \in g.toReveal : \A o \in unknown : p < o}
        early == [x \in Texts |-> {p \in told : g.answer[p] = x /\ g.pre[p].is # None}]
        h == [g EXCEPT !.toReveal = @ \ told, !.clock = "off",
                       !.cache = [x \in Texts |-> IF early[x] = {} THEN @[x] ELSE g.pre[Max(early[x])].is]]
        p == Min(unknown)
    IN  IF unknown = {} THEN ShowAnswer(h)
        ELSE AskValidate([h EXCEPT !.toReveal = @ \ {p}], p, g.answer[p])

\* The engine takes a VALIDATE for p.
Validatable(g, p) ==
    /\ ~paused
    /\ g.sub = "hiddenAnswering" \/ (g.sub = "validating" /\ g.pending.person = p)

Validate(g, p, is, by) ==
    IF ~Validatable(g, p) THEN g
    ELSE IF g.sub = "hiddenAnswering" THEN [g EXCEPT !.pre[p] = [by |-> by, is |-> is]]
    ELSE IF IsHidden(g) THEN RevealNext(Outcome(g, g.pending.text, is))
    ELSE ApplyVerdict(g, p, g.pending.text, is)

\* A VALIDATION that was broadcast, or the end of the question.
Cancels(g, h) == (g.pending # Nobody /\ h.pending # g.pending) \/ h.question = None

\* Mutant of Observe: the verdict of the showman leaves the timer running.
ObserveEndOnly(g) == IF g.question = None THEN NoTimer ELSE hybrid

\* cancelHybrid, when observe sees one.
Observe(g) == IF Cancels(game, g) THEN NoTimer ELSE hybrid
-----------------------------------------------------------------------------
(* The room asks.                                                          *)

Call(g, p, x, preview) ==
    [question |-> g.question, person |-> p, text |-> x, preview |-> preview,
     pc |-> "asked", schema |-> FALSE, attempt |-> 0, requests |-> 0, verdict |-> None]

\* onAskValidate, for an answer that g waits for.
Asked(cs, g) ==
    IF g.pending = Nobody \/ mode = "human" THEN cs
    ELSE Append(cs, Call(g, g.pending.person, g.pending.text, FALSE))

\* A handler of the engine after which an answer that is pending is a new one.
Becomes(g) == game' = g /\ calls' = Asked(calls, g) /\ hybrid' = Observe(g)

StartQuestion(q) ==
    /\ game.sub = "none" /\ ~paused /\ q \in table
    /\ table' = table \ {q}
    /\ game' = [NoQuestion EXCEPT !.question = q, !.sub = IF q \in Hidden THEN "hiddenAnswering" ELSE "button",
                                  !.canPress = IF q \in Hidden THEN {} ELSE Players]
    /\ UNCHANGED <<paused, room, service, moves>>

\* The button is won: QuestionFlow and RoomButton say by whom.
Press(p) ==
    /\ game.sub = "button" /\ ~paused /\ p \in game.canPress
    /\ game' = [game EXCEPT !.sub = "answering", !.answerer = p]
    /\ UNCHANGED <<table, paused, room, service, moves>>

\* processSingleAnswer.
Answer(p, x) ==
    /\ game.sub = "answering" /\ ~paused /\ p = game.answerer
    /\ Becomes(IF game.cache[x] # None THEN ApplyVerdict(game, p, x, game.cache[x]) ELSE AskValidate(game, p, x))
    /\ UNCHANGED <<table, paused, mode, human, lost, cache, useSchema, flaky, moves>>

\* answerTimeout.
TimeoutAnswering ==
    /\ game.sub = "answering" /\ ~paused
    /\ Becomes(ApplyVerdict(game, game.answerer, None, "wrong"))
    /\ UNCHANGED <<table, paused, mode, human, lost, cache, useSchema, flaky, moves>>

\* onAnswer in the written phase: the showman and the judge see the answer
\* first; the last one starts the reveal.
AnswerHidden(p, x) ==
    LET g == [game EXCEPT !.answer[p] = x]
        h == RevealNext([g EXCEPT !.toReveal = Players])
        asked == IF mode = "human" THEN calls ELSE Append(calls, Call(game, p, x, TRUE))
    IN  /\ game.sub = "hiddenAnswering" /\ ~paused /\ game.answer[p] = None
        /\ game' = IF \E o \in Players : g.answer[o] = None THEN g ELSE h
        /\ calls' = Asked(asked, game')
        /\ UNCHANGED <<table, paused, room, cache, useSchema, flaky, moves>>

TimeoutHiddenAnswering ==
    /\ game.sub = "hiddenAnswering" /\ ~paused
    /\ Becomes(RevealNext([game EXCEPT !.toReveal = Players]))
    /\ UNCHANGED <<table, paused, mode, human, lost, cache, useSchema, flaky, moves>>

\* Mutant of TimeoutShowmanDecision: the verdict is left to the judge that was asked.
TimeoutWaitsForTheJudge ==
    /\ game.sub = "validating" /\ game.clock = "run"
    /\ game' = [game EXCEPT !.clock = "off"] /\ hybrid' = NoTimer
    /\ UNCHANGED <<table, paused, mode, human, lost, service, moves>>

\* VALIDATION_TIMEOUT, and the verdict of the fuzzy judge queued behind it.
TimeoutShowmanDecision ==
    /\ game.sub = "validating" /\ game.clock = "run"
    /\ Becomes(Validate(game, game.pending.person, FuzzyJudge(game.pending.text), "room"))
    /\ UNCHANGED <<table, paused, mode, human, lost, cache, useSchema, flaky, moves>>

\* VALIDATE of the human showman.
ShowmanValidates(p, is) ==
    /\ human /\ Validatable(game, p)
    /\ IF game.sub = "hiddenAnswering"
       THEN game' = Validate(game, p, is, "showman") /\ UNCHANGED <<calls, hybrid>>
       ELSE Becomes(Validate(game, p, is, "showman"))
    /\ UNCHANGED <<table, paused, mode, human, lost, cache, useSchema, flaky, moves>>

\* endQuestion.
TimeoutReflection ==
    /\ game.sub = "reveal" /\ ~paused
    /\ game' = NoQuestion /\ hybrid' = Observe(NoQuestion)
    /\ UNCHANGED <<table, paused, mode, human, lost, service, moves>>
-----------------------------------------------------------------------------
(* What the showman and the host do besides.                               *)

Pause ==
    /\ ~paused /\ moves > 0 /\ paused' = TRUE /\ moves' = moves - 1
    /\ game' = [game EXCEPT !.clock = IF @ = "run" THEN "held" ELSE @]
    /\ UNCHANGED <<table, room, service>>

Resume ==
    /\ paused /\ paused' = FALSE
    /\ game' = [game EXCEPT !.clock = IF @ = "held" THEN "run" ELSE @]
    /\ UNCHANGED <<table, room, service, moves>>

\* MOVE 1: abortQuestionToAnswer, which no VALIDATION announces.
MoveForward ==
    /\ game.question # None /\ game.sub # "reveal" /\ moves > 0 /\ moves' = moves - 1
    /\ game' = ShowAnswer(game)
    /\ UNCHANGED <<table, paused, room, service>>

\* MOVE -1: returnQuestionToTable, with a QUESTION_END.
MoveBack ==
    /\ game.question # None /\ moves > 0 /\ moves' = moves - 1
    /\ table' = table \union {game.question}
    /\ game' = NoQuestion /\ hybrid' = Observe(NoQuestion)
    /\ UNCHANGED <<paused, mode, human, lost, service>>

\* The human showman leaves the room, and one sits down.
ShowmanLeaves ==
    /\ human /\ moves > 0 /\ human' = FALSE /\ moves' = moves - 1
    /\ UNCHANGED <<engine, mode, hybrid, lost, service>>

ShowmanJoins ==
    /\ ~human /\ mode # "ai" /\ human' = TRUE
    /\ UNCHANGED <<engine, mode, hybrid, lost, service, moves>>
-----------------------------------------------------------------------------
(* The judge: Composite.Judge and, below it, OpenRouterJudge.              *)

Key(c) == <<c.question, c.text>>
Entries(k) == {i \in DOMAIN cache : cache[i].key = k}
Others(k) == IF Entries(k) = {} THEN cache ELSE RemoveAt(cache, Min(Entries(k)))

\* Cache.Put, and Cache.Get of an entry that is there.
Put(k, v) ==
    LET c == <<[key |-> k, verdict |-> v]>> \o Others(k)
    IN  cache' = IF Len(c) > CacheSize THEN Front(c) ELSE c

\* The goroutine of call i has a verdict and posts it.
Posts(i, v) == calls' = [calls EXCEPT ![i].pc = "posted", ![i].verdict = v]

\* Composite.Judge up to the first request.
LookUp(i) ==
    LET c == calls[i]
    IN  /\ c.pc = "asked"
        /\ IF ExactMatch(c.text)
           THEN Posts(i, FuzzyJudge(c.text)) /\ UNCHANGED cache
           ELSE IF Entries(Key(c)) # {}
           THEN \E e \in Entries(Key(c)) : Posts(i, cache[e].verdict) /\ Put(Key(c), cache[e].verdict)
           ELSE /\ calls' = [calls EXCEPT ![i].pc = "sent", ![i].schema = useSchema, ![i].requests = 1]
                /\ UNCHANGED cache
        /\ UNCHANGED <<engine, room, useSchema, flaky, moves>>

\* doWithRetry: a network error, a 429 or a 5xx is tried once more.
Repeat(i) ==
    /\ calls[i].pc = "sent" /\ flaky /\ calls[i].attempt = 0
    /\ calls' = [calls EXCEPT ![i].attempt = 1, ![i].requests = @ + 1]
    /\ UNCHANGED <<engine, room, cache, useSchema, flaky, moves>>

\* Mutant of WithoutSchema: only the flag of the judge is turned off.
WithoutSchemaNextTime(i) ==
    /\ calls[i].pc = "sent" /\ flaky /\ calls[i].schema
    /\ useSchema' = FALSE
    /\ calls' = [calls EXCEPT ![i].attempt = 0, ![i].requests = @ + 1]
    /\ UNCHANGED <<engine, room, cache, flaky, moves>>

\* complete: the schema is refused, or the answer was cut short under it.
WithoutSchema(i) ==
    /\ calls[i].pc = "sent" /\ flaky /\ calls[i].schema
    /\ useSchema' = FALSE
    /\ calls' = [calls EXCEPT ![i].schema = FALSE, ![i].attempt = 0, ![i].requests = @ + 1]
    /\ UNCHANGED <<engine, room, cache, flaky, moves>>

\* judgeAI: the service has answered ...
ServiceAnswers(i, v) ==
    /\ calls[i].pc = "sent" /\ Posts(i, v) /\ Put(Key(calls[i]), v)
    /\ UNCHANGED <<engine, room, useSchema, flaky, moves>>

\* ... or has failed, or its time is up: the fuzzy judge decides.
ServiceFails(i) == ServiceAnswers(i, FuzzyJudge(calls[i].text))
-----------------------------------------------------------------------------
(* The verdict comes back to the room.                                     *)

\* validationPending.
ValidationPending(c) ==
    IF c.preview
    THEN game.sub = "hiddenAnswering" /\ game.answer[c.person] = c.text
    ELSE game.sub = "validating" /\ game.pending = [person |-> c.person, text |-> c.text]

\* VALIDATE with source "ai", and AI_VERDICT that says it is applied.
Apply(c, is, rest) ==
    LET g == Validate(game, c.person, is, "room")
    IN  /\ game' = g
        /\ calls' = IF g.pending = game.pending THEN rest ELSE Asked(rest, g)
        /\ hybrid' = Observe(g)
        /\ lost' = (lost \/ ~Validatable(game, c.person))

\* Mutant of OnAIVerdict: a preview is applied whoever judges.
OnAIVerdictAppliesPreviews(i) ==
    LET c == calls[i]
        is == c.verdict
    IN  /\ c.pc = "posted"
        /\ IF ~ValidationPending(c)
           THEN calls' = RemoveAt(calls, i) /\ UNCHANGED <<game, hybrid, lost>>
           ELSE IF mode = "hybrid" /\ human /\ ~c.preview
           THEN /\ calls' = RemoveAt(calls, i)
                /\ hybrid' = [question |-> game.question, person |-> c.person, text |-> c.text, is |-> is]
                /\ UNCHANGED <<game, lost>>
           ELSE Apply(c, is, RemoveAt(calls, i))
        /\ UNCHANGED <<table, paused, mode, human, cache, useSchema, flaky, moves>>

\* onAIVerdict: the showman of a hybrid room has hybridConfirmMs to disagree.
OnAIVerdict(i) ==
    LET c == calls[i]
        is == c.verdict
    IN  /\ c.pc = "posted"
        /\ IF ~ValidationPending(c)
           THEN calls' = RemoveAt(calls, i) /\ UNCHANGED <<game, hybrid, lost>>
           ELSE IF mode = "hybrid" /\ human
           THEN /\ calls' = RemoveAt(calls, i)
                /\ hybrid' = IF c.preview THEN hybrid
                             ELSE [question |-> game.question, person |-> c.person, text |-> c.text, is |-> is]
                /\ UNCHANGED <<game, lost>>
           ELSE Apply(c, is, RemoveAt(calls, i))
        /\ UNCHANGED <<table, paused, mode, human, cache, useSchema, flaky, moves>>

\* applyHybrid: the time of the showman is up.
ApplyHybrid ==
    /\ hybrid # NoTimer
    /\ IF game.sub = "validating" /\ game.pending = [person |-> hybrid.person, text |-> hybrid.text]
       THEN LET g == Validate(game, hybrid.person, hybrid.is, "room")
            IN  /\ game' = g
                /\ calls' = IF g.pending = game.pending THEN calls ELSE Asked(calls, g)
                /\ lost' = (lost \/ ~Validatable(game, hybrid.person))
       ELSE UNCHANGED <<game, calls, lost>>
    /\ hybrid' = NoTimer
    /\ UNCHANGED <<table, paused, mode, human, cache, useSchema, flaky, moves>>
-----------------------------------------------------------------------------
Init ==
    /\ \E s \in Setups : mode = s.mode /\ table = s.table /\ flaky = s.flaky /\ moves = s.moves
    /\ game = NoQuestion /\ paused = FALSE
    /\ human = (mode # "ai") /\ hybrid = NoTimer /\ lost = FALSE
    /\ calls = <<>> /\ cache = <<>> /\ useSchema = TRUE

Timeouts == TimeoutAnswering \/ TimeoutHiddenAnswering \/ TimeoutShowmanDecision \/ TimeoutReflection

Service(i) == LookUp(i) \/ Repeat(i) \/ WithoutSchema(i) \/ ServiceFails(i)

Next ==
    \/ \E q \in Questions : StartQuestion(q)
    \/ \E p \in Players : Press(p)
    \/ \E p \in Players, x \in Texts : Answer(p, x) \/ AnswerHidden(p, x)
    \/ \E p \in Players, is \in Verdicts : ShowmanValidates(p, is)
    \/ Timeouts
    \/ Pause \/ Resume \/ MoveForward \/ MoveBack \/ ShowmanLeaves \/ ShowmanJoins
    \/ \E i \in DOMAIN calls : Service(i) \/ OnAIVerdict(i) \/ \E v \in Verdicts : ServiceAnswers(i, v)
    \/ ApplyHybrid

Spec == Init /\ [][Next]_vars

\* The timers of the engine fire.  Nothing is asked of the service, of the
\* players or of the showman, who may leave the game paused.
FairSpec == Spec /\ WF_vars(Timeouts)
-----------------------------------------------------------------------------
(* Properties.                                                             *)

\* The confirmation that runs is for the answer that waits now, if one waits:
\* a verdict, the end of the question and a MOVE have disposed of any other.
ConfirmationIsCurrent ==
    hybrid # NoTimer /\ game.pending # Nobody =>
        hybrid.question = game.question /\ hybrid.person = game.pending.person /\ hybrid.text = game.pending.text

\* One judgement costs at most four requests: one repeated, with the schema
\* and without it, whatever other judgements do to the flag they share.
RequestsAreBounded == \A i \in DOMAIN calls : calls[i].requests <= 4

\* What the showman said early of a hidden answer, no late verdict of the
\* judge changes while a showman is there.
EarlyVerdictStands ==
    [][\A p \in Players :
        human /\ game.pre[p].by = "showman" /\ game'.question = game.question =>
            game'.pre[p].by = "showman"]_vars

\* Every answer that waits is judged, be there a showman or not and whether
\* or not the service ever answers, unless the game stays paused.
EveryAnswerIsJudged == []<>(game.pending = Nobody) \/ <>[]paused

\* "the verdict is applied ... when it arrives and the answer is still
\* pending. AI_VERDICT{applied:true} is broadcast" (judge.go).
AnnouncedIsApplied == ~lost
=============================================================================
