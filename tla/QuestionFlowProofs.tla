------------------------- MODULE QuestionFlowProofs -------------------------
(***************************************************************************)
(* Proofs about QuestionFlow, for any players, questions, rules and times. *)
(***************************************************************************)
EXTENDS QuestionFlow, SequenceTheorems, TLAPS

Persons == Players \union {NoPlayer}
Answers == Texts \union {"", "-"}

\* What a handler hands to the helpers.
Carry == [armed : BOOLEAN, canPress : SUBSET Players, answerer : Persons,
          pending : [id : Persons, answer : Answers], waitNext : BOOLEAN,
          timers : [Kinds -> TimerStatus]]

SteeringOK ==
    /\ stage \in {"selecting", "question", "roundEnd", "nextRound"}
    /\ sub \in {"content", "buttonWait", "answering", "validating", "reveal", "end"}
    /\ armed \in BOOLEAN /\ canPress \subseteq Players /\ answerer \in Persons
    /\ pending \in [id : Persons, answer : Answers]
    /\ waitNext \in BOOLEAN /\ timers \in [Kinds -> TimerStatus] /\ pressLeft \in Nat

ContentOK == cursor \in Nat /\ contentDone \in BOOLEAN /\ awaitingMedia \in BOOLEAN /\ mediaDone \subseteq Players

ScoringOK ==
    /\ history \in Seq([person : Players, verdict : Verdicts, answer : Texts \union Options \union {"", "-"}])
    /\ cache \in [Texts -> Verdicts \union {"none"}] /\ excluded \subseteq Texts \union Options \union {"", "-"}

OtherOK ==
    /\ question \in Questions \union {NoQuestion} /\ thinkingRemain \in Nat /\ cells \in Nat
    /\ paused \in BOOLEAN /\ rules \in Rule /\ connected \subseteq Players /\ kicked \subseteq Players

\* The type invariant, by the groups of variables that the helpers write.
LEMMA TypeParts == TypeOK <=> SteeringOK /\ ContentOK /\ ScoringOK /\ OtherOK
BY DEF TypeOK, SteeringOK, ContentOK, ScoringOK, OtherOK, Persons, Answers

-----------------------------------------------------------------------------
(* The carried record.                                                     *)

\* What starting a timer leaves of a carried record, and stopping some.
LEMMA StartFields ==
    ASSUME paused \in BOOLEAN, NEW h \in Carry, NEW kind \in Kinds
    PROVE  /\ Start(h, kind) \in Carry
           /\ Start(h, kind).armed = h.armed /\ Start(h, kind).canPress = h.canPress
           /\ Start(h, kind).answerer = h.answerer /\ Start(h, kind).pending = h.pending
           /\ Start(h, kind).waitNext = h.waitNext
           /\ \A k \in Kinds : Start(h, kind).timers[k] = IF k = kind THEN Live(paused) ELSE h.timers[k]
<1>1. Live(paused) \in TimerStatus BY DEF Live, TimerStatus
<1>2. Start(h, kind) = [h EXCEPT !.timers = [h.timers EXCEPT ![kind] = Live(paused)]]
  BY DEF Start, StartTimer
<1>3. [h.timers EXCEPT ![kind] = Live(paused)] \in [Kinds -> TimerStatus]
  BY <1>1 DEF Carry
<1> QED BY <1>2, <1>3 DEF Carry

LEMMA StopFields ==
    ASSUME NEW h \in Carry, NEW K \in SUBSET Kinds
    PROVE  /\ Stop(h, K) \in Carry
           /\ Stop(h, K).armed = h.armed /\ Stop(h, K).canPress = h.canPress
           /\ Stop(h, K).answerer = h.answerer /\ Stop(h, K).pending = h.pending
           /\ Stop(h, K).waitNext = h.waitNext
           /\ \A k \in Kinds : Stop(h, K).timers[k] = IF k \in K THEN "off" ELSE h.timers[k]
BY DEF Carry, Stop, StopKinds, TimerStatus

LEMMA CommitTyped ==
    ASSUME NEW h \in Carry, Commit(h)
    PROVE  /\ armed' \in BOOLEAN /\ canPress' \subseteq Players /\ answerer' \in Persons
           /\ pending' \in [id : Persons, answer : Answers]
           /\ waitNext' \in BOOLEAN /\ timers' \in [Kinds -> TimerStatus]
BY DEF Carry, Commit
-----------------------------------------------------------------------------
(* The helpers keep the shape.                                             *)

\* showAnswer, from anywhere.
LEMMA ShowAnswerKeeps ==
    ASSUME TypeOK, NEW h \in Carry, ShowAnswer(h), question' \in Questions, paused' = paused
    PROVE  SteeringOK' /\ Shape'
<1> DEFINE r == [h EXCEPT !.armed = FALSE, !.pending = NoPending, !.timers = NoTimers]
<1>1. r \in Carry /\ r.armed = FALSE /\ r.pending.id = NoPlayer /\ r.timers = NoTimers
  BY DEF Carry, NoPending, NoTimers, Persons, Answers, TimerStatus
<1>2. CASE ~rules.managed /\ ReflectionTime = 0
  <2> DEFINE e == [r EXCEPT !.waitNext = FALSE, !.canPress = {}, !.timers = NoTimers]
  <2>1. e \in Carry /\ e.armed = FALSE /\ e.pending.id = NoPlayer /\ e.timers = NoTimers
    BY <1>1 DEF Carry, NoTimers, TimerStatus
  <2>2. Commit(e) /\ sub' = "end" /\ pressLeft' = 0 /\ stage' \in {"selecting", "roundEnd", "nextRound"}
      /\ (stage' = "selecting" => cells' # 0)
    BY <1>2 DEF ShowAnswer, EndQuestion, BeginSelection
  <2> HIDE DEF e
  <2>3. SteeringOK' BY <2>1, <2>2, CommitTyped DEF SteeringOK
  <2>4. Shape' BY <2>1, <2>2 DEF Shape, Closed, Commit
  <2> QED BY <2>3, <2>4
<1>3. CASE ~(~rules.managed /\ ReflectionTime = 0)
  <2> DEFINE e == IF rules.managed THEN [r EXCEPT !.waitNext = TRUE] ELSE Start(r, "reflection")
  <2>1. /\ e \in Carry /\ e.armed = FALSE /\ e.pending.id = NoPlayer
        /\ \A k \in Kinds : e.timers[k] = IF k = "reflection" /\ ~rules.managed THEN Live(paused) ELSE "off"
        /\ rules.managed => e.waitNext = TRUE
    <3>0. "reflection" \in Kinds /\ paused \in BOOLEAN BY DEF Kinds, TypeOK
    <3>1. CASE rules.managed
      <4>1. e = [r EXCEPT !.waitNext = TRUE] BY <3>1
      <4> HIDE DEF r, e
      <4> QED BY <1>1, <3>1, <4>1 DEF Carry, NoTimers
    <3>2. CASE ~rules.managed
      <4>1. e = Start(r, "reflection") BY <3>2
      <4> HIDE DEF r, e
      <4> QED BY <1>1, <3>0, <3>2, <4>1, StartFields DEF NoTimers
    <3> QED BY <3>1, <3>2
  <2>2. Commit(e) /\ sub' = "reveal" /\ pressLeft' = 0 /\ stage' = "question"
    BY <1>3 DEF ShowAnswer
  <2> HIDE DEF e
  <2>3. SteeringOK' BY <2>1, <2>2, CommitTyped DEF SteeringOK
  <2>4. ShapeReveal'
    BY <2>1, <2>2 DEF ShapeReveal, OnlyLive, Commit, Live, Kinds
  <2>5. Shape' BY <2>2, <2>4 DEF Shape, Closed
  <2> QED BY <2>3, <2>5
<1> QED BY <1>2, <1>3

\* endQuestion, from the reveal.
LEMMA EndQuestionKeeps ==
    ASSUME TypeOK, NEW h \in Carry, EndQuestion(h), h.armed = FALSE, h.pending.id = NoPlayer
    PROVE  SteeringOK' /\ Shape'
<1> DEFINE e == [h EXCEPT !.waitNext = FALSE, !.canPress = {}, !.timers = NoTimers]
<1>1. e \in Carry /\ e.armed = FALSE /\ e.pending.id = NoPlayer /\ e.timers = NoTimers
  BY DEF Carry, NoTimers, TimerStatus
<1>2. Commit(e) /\ sub' = "end" /\ pressLeft' = 0 /\ stage' \in {"selecting", "roundEnd", "nextRound"}
      /\ (stage' = "selecting" => cells' # 0)
  BY DEF EndQuestion, BeginSelection
<1> HIDE DEF e
<1>3. SteeringOK' BY <1>1, <1>2, CommitTyped DEF SteeringOK
<1>4. Shape' BY <1>1, <1>2 DEF Shape, Closed, Commit
<1> QED BY <1>3, <1>4

\* askAnswer: the answer timer starts beside the ones already there.
LEMMA AskAnswerFields ==
    ASSUME TypeOK, NEW q \in Questions, NEW h \in Carry, NEW p \in Players, NEW kind \in AnswerKinds,
           AskAnswer(q, h, p, kind), h.pending.id = NoPlayer
    PROVE  /\ stage' = "question" /\ sub' = "answering"
           /\ armed' = h.armed /\ canPress' = h.canPress /\ waitNext' = h.waitNext /\ answerer' = p
           /\ armed' \in BOOLEAN /\ canPress' \subseteq Players /\ waitNext' \in BOOLEAN
           /\ pending' \in [id : Persons, answer : Answers] /\ pending'.id \in {NoPlayer, p}
           /\ timers' \in [Kinds -> TimerStatus]
           /\ \A k \in Kinds : timers'[k] = IF k = kind THEN Live(paused) ELSE h.timers[k]
<1> DEFINE g == [h EXCEPT !.answerer = p]
           r == Start(g, kind)
           o == [r EXCEPT !.pending = [id |-> p, answer |-> ""]]
           e == IF rules.oral /\ q.atype = "text" THEN o ELSE r
<1>1. /\ g \in Carry /\ g.armed = h.armed /\ g.canPress = h.canPress /\ g.answerer = p
      /\ g.pending = h.pending /\ g.waitNext = h.waitNext /\ g.timers = h.timers
  BY DEF Carry, Persons
<1>2. Commit(e) /\ stage' = "question" /\ sub' = "answering" BY DEF AskAnswer
<1> HIDE DEF g
<1>3. kind \in Kinds /\ paused \in BOOLEAN BY DEF Kinds, TypeOK
<1>4. /\ r \in Carry /\ r.armed = h.armed /\ r.canPress = h.canPress /\ r.answerer = p
      /\ r.pending.id = NoPlayer /\ r.waitNext = h.waitNext
      /\ \A k \in Kinds : r.timers[k] = IF k = kind THEN Live(paused) ELSE h.timers[k]
  BY <1>1, <1>3, StartFields
<1> HIDE DEF r
<1>5. /\ o \in Carry /\ o.armed = r.armed /\ o.canPress = r.canPress /\ o.answerer = r.answerer
      /\ o.pending.id = p /\ o.waitNext = r.waitNext /\ o.timers = r.timers
  BY <1>4 DEF Carry, Persons, Answers
<1> HIDE DEF o
<1>6. /\ e \in Carry /\ e.armed = h.armed /\ e.canPress = h.canPress /\ e.answerer = p
      /\ e.pending.id \in {NoPlayer, p} /\ e.waitNext = h.waitNext
      /\ \A k \in Kinds : e.timers[k] = IF k = kind THEN Live(paused) ELSE h.timers[k]
  BY <1>4, <1>5
<1> HIDE DEF e
<1> QED BY <1>2, <1>6, CommitTyped DEF Commit

\* contentFinished, when the timers of the content are gone.
LEMMA ContentFinishedKeeps ==
    ASSUME TypeOK, NEW q \in Questions, NEW h \in Carry, ContentFinished(q, h),
           question' = q, contentDone' = TRUE, paused' = paused, thinkingRemain' \in Nat,
           h.timers = NoTimers, h.pending.id = NoPlayer, h.armed => q.kind = "button"
    PROVE  SteeringOK' /\ Shape'
<1>1. ASSUME ShowAnswer(h) PROVE SteeringOK' /\ Shape'
  BY <1>1, ShowAnswerKeeps
<1>2. ASSUME q.kind = "button", sub' = "buttonWait", stage' = "question", pressLeft' = thinkingRemain',
             NEW g \in Carry, g.armed = TRUE, g.pending.id = NoPlayer, g.timers = NoTimers,
             Commit(Start(g, "buttonPressing"))
      PROVE  SteeringOK' /\ Shape'
  <2> DEFINE e == Start(g, "buttonPressing")
  <2>1. /\ e \in Carry /\ e.armed = TRUE /\ e.pending.id = NoPlayer
        /\ \A k \in Kinds : e.timers[k] = IF k = "buttonPressing" THEN Live(paused) ELSE "off"
    <3>1. "buttonPressing" \in Kinds /\ paused \in BOOLEAN BY DEF Kinds, TypeOK
    <3> QED BY <1>2, <3>1, StartFields DEF NoTimers
  <2>2a. Commit(e) BY <1>2
  <2> HIDE DEF e
  <2>2. SteeringOK' BY <1>2, <2>1, <2>2a, CommitTyped DEF SteeringOK
  <2>3. ShapeWait'
    BY <1>2, <2>1, <2>2a DEF ShapeWait, OnlyLive, Commit, Live, Kinds
  <2> QED BY <1>2, <2>2, <2>3 DEF Shape, Closed
<1>3. CASE q.kind = "button" /\ ~AnyCanPress(h.canPress)
  BY <1>3, <1>1 DEF ContentFinished
<1>4. CASE q.kind = "button" /\ AnyCanPress(h.canPress) /\ h.armed
  <2>1. h.armed = TRUE BY <1>4 DEF Carry
  <2> QED BY <1>4, <1>2, <2>1 DEF ContentFinished
<1>5. CASE q.kind = "button" /\ AnyCanPress(h.canPress) /\ ~h.armed
  <2> DEFINE g == [h EXCEPT !.armed = TRUE]
  <2>1. g \in Carry /\ g.armed = TRUE /\ g.pending.id = NoPlayer /\ g.timers = NoTimers
    BY DEF Carry
  <2>2. ArmButton(h) BY <1>5 DEF ContentFinished
  <2>3. ~(g.timers["buttonPressing"] \in {"held", "frozen"}) BY <2>1 DEF NoTimers, Kinds
  <2> QED BY <1>5, <1>2, <2>1, <2>2, <2>3 DEF ArmButton, ThinkAgain
<1>6. CASE q.kind = "direct" /\ h.answerer = NoPlayer
  BY <1>6, <1>1 DEF ContentFinished
<1>7. CASE q.kind = "direct" /\ h.answerer # NoPlayer
  <2>1. /\ AskAnswer(q, h, h.answerer, "soloAnswering") /\ pressLeft' = pressLeft
        /\ h.answerer \in Players /\ h.armed = FALSE /\ "soloAnswering" \in AnswerKinds
    BY <1>7 DEF ContentFinished, Carry, Persons, AnswerKinds
  <2>0. pressLeft \in Nat BY DEF TypeOK
  <2>2. SteeringOK' BY <2>0, <2>1, AskAnswerFields DEF SteeringOK, Persons
  <2>3. HeldBack'
    BY <1>7, <2>1, AskAnswerFields DEF HeldBack, NoTimers, ContentKinds, Kinds, AnswerKinds
  <2>4. ShapeAnswering'
    BY <1>7, <2>1, <2>3, AskAnswerFields DEF ShapeAnswering, NoTimers, AnswerKinds, Kinds, Live
  <2> QED BY <2>1, <2>2, <2>4, AskAnswerFields DEF Shape, Closed
<1>8. CASE q.kind = "custom"
  <2>1. Commit(h) /\ sub' = "answering" /\ stage' = "question" /\ pressLeft' = pressLeft
    BY <1>8 DEF ContentFinished
  <2>2. h.armed = FALSE BY <1>8 DEF Carry
  <2>3. SteeringOK' BY <2>1, CommitTyped DEF SteeringOK, TypeOK
  <2>4. ShapeAnswering'
    BY <1>8, <2>1, <2>2 DEF ShapeAnswering, HeldBack, Commit, AnswerKinds, Kinds, NoTimers, ContentKinds
  <2> QED BY <2>1, <2>3, <2>4 DEF Shape, Closed
<1> QED BY <1>3, <1>4, <1>5, <1>6, <1>7, <1>8, QuestionsAssumption

\* A content group on the screen: at most one content timer, or NEXT awaited.
LEMMA GroupShown ==
    ASSUME TypeOK, NEW h \in Carry, NEW K \in SUBSET ContentKinds,
           question' \in Questions, contentDone' = FALSE, paused' = paused,
           stage' = "question", sub' = "content", pressLeft' \in Nat, Commit(h),
           h.pending.id = NoPlayer, h.armed => question'.kind = "button",
           \A k \in Kinds : h.timers[k] = IF k \in K THEN Live(paused) ELSE "off",
           h.waitNext \/ K # {}, \E k \in ContentKinds : k \notin K,
           awaitingMedia' => "content" \notin K
    PROVE  SteeringOK' /\ Shape'
<1>1. SteeringOK' BY CommitTyped DEF SteeringOK
<1>2. timers' = h.timers /\ waitNext' = h.waitNext /\ pending' = h.pending /\ armed' = h.armed
  BY DEF Commit
<1>3. ContentKinds \subseteq Kinds /\ "content" \in ContentKinds /\ Live(paused) # "off"
  BY DEF Kinds, ContentKinds, Live
<1>4. ShapeContent' BY <1>2, <1>3 DEF ShapeContent, OnlyLive
<1> QED BY <1>1, <1>4 DEF Shape, Closed

\* showGroup, from a state without timers.
LEMMA ShowGroupKeeps ==
    ASSUME TypeOK, NEW q \in Questions, NEW c \in Nat \ {0}, NEW h \in Carry, ShowGroup(q, c, h),
           question' = q, paused' = paused, thinkingRemain' \in Nat,
           h.timers = NoTimers, h.pending.id = NoPlayer, h.armed => q.kind = "button"
    PROVE  SteeringOK' /\ ContentOK' /\ Shape'
<1>1. CASE c > Len(q.groups)
  <2>1. ContentFinished(q, h) /\ cursor' = c /\ mediaDone' = {} /\ contentDone' = TRUE /\ awaitingMedia' = FALSE
    BY <1>1 DEF ShowGroup
  <2> QED BY <2>1, ContentFinishedKeeps DEF ContentOK
<1>2. CASE ~(c > Len(q.groups))
  <2> DEFINE e == CASE rules.managed \/ q.groups[c] = "manual" -> [h EXCEPT !.waitNext = TRUE]
                    [] ~rules.managed /\ q.groups[c] = "media" -> Start(h, "mediaFallback")
                    [] ~rules.managed /\ q.groups[c] = "timed" -> Start(h, "content")
  <2>1. /\ cursor' = c /\ mediaDone' = {} /\ contentDone' = FALSE
        /\ awaitingMedia' = (~rules.managed /\ q.groups[c] = "media")
        /\ sub' = "content" /\ stage' = "question" /\ pressLeft' = pressLeft /\ Commit(e)
    BY <1>2 DEF ShowGroup
  <2>2. q.groups[c] \in GroupKinds BY <1>2, QuestionsAssumption
  <2>3. ContentOK' BY <2>1 DEF ContentOK
  <2>4. pressLeft' \in Nat /\ paused \in BOOLEAN BY <2>1 DEF TypeOK
  <2>5. "content" \in Kinds /\ "mediaFallback" \in Kinds /\ ContentKinds = {"content", "mediaFallback"}
    BY DEF Kinds, ContentKinds
  <2>6. \A k \in Kinds : h.timers[k] = "off" BY DEF NoTimers
  <2>7. CASE rules.managed \/ q.groups[c] = "manual"
    <3>1. e = [h EXCEPT !.waitNext = TRUE] BY <2>7
    <3> HIDE DEF e
    <3>2. e \in Carry /\ e.waitNext = TRUE /\ e.timers = h.timers /\ e.armed = h.armed /\ e.pending = h.pending
      BY <3>1 DEF Carry
    <3>3. {} \in SUBSET ContentKinds /\ \A k \in Kinds : e.timers[k] = IF k \in {} THEN Live(paused) ELSE "off"
      BY <2>6, <3>2
    <3> QED BY <2>1, <2>3, <2>4, <2>5, <3>2, <3>3, GroupShown
  <2>8. CASE ~rules.managed /\ q.groups[c] = "media"
    <3>1. e = Start(h, "mediaFallback") BY <2>8
    <3> HIDE DEF e
    <3>2. /\ e \in Carry /\ e.armed = h.armed /\ e.pending = h.pending
          /\ \A k \in Kinds : e.timers[k] = IF k \in {"mediaFallback"} THEN Live(paused) ELSE "off"
      BY <2>4, <2>5, <2>6, <3>1, StartFields
    <3> QED BY <2>1, <2>3, <2>4, <2>5, <3>2, GroupShown
  <2>9. CASE ~rules.managed /\ q.groups[c] = "timed"
    <3>1. e = Start(h, "content") BY <2>9
    <3> HIDE DEF e
    <3>2. /\ e \in Carry /\ e.armed = h.armed /\ e.pending = h.pending
          /\ \A k \in Kinds : e.timers[k] = IF k \in {"content"} THEN Live(paused) ELSE "off"
      BY <2>4, <2>5, <2>6, <3>1, StartFields
    <3>3. awaitingMedia' = FALSE BY <2>1, <2>9
    <3> QED BY <2>1, <2>3, <2>4, <2>5, <3>2, <3>3, GroupShown
  <2> QED BY <2>2, <2>7, <2>8, <2>9 DEF GroupKinds
<1> QED BY <1>1, <1>2

\* contentGroupDone, with the content timers stopped.
LEMMA ContentGroupDoneKeeps ==
    ASSUME TypeOK, question \in Questions, NEW h \in Carry, ContentGroupDone(h),
           question' = question, paused' = paused, thinkingRemain' \in Nat,
           \A k \in Kinds : h.timers[k] = "off",
           h.pending.id = NoPlayer, h.armed => question.kind = "button"
    PROVE  SteeringOK' /\ ContentOK' /\ Shape'
<1> DEFINE g == [h EXCEPT !.waitNext = FALSE]
<1>1. g \in Carry /\ g.timers = NoTimers /\ g.pending = h.pending /\ g.armed = h.armed
  BY DEF Carry, NoTimers
<1>2. ShowGroup(question, cursor + 1, g) BY DEF ContentGroupDone
<1>3. cursor \in Nat BY DEF TypeOK
<1>4. cursor + 1 \in Nat \ {0} BY <1>3
<1> HIDE DEF g
<1> QED BY <1>1, <1>2, <1>4, ShowGroupKeeps

\* resumeTimer on the timers of a carried record.
LEMMA ResumedTimers ==
    ASSUME NEW h \in Carry, NEW K \in SUBSET Kinds
    PROVE  LET g == [h EXCEPT !.timers = ResumeKinds(h.timers, K)]
           IN  /\ g \in Carry /\ g.armed = h.armed /\ g.pending = h.pending /\ g.waitNext = h.waitNext
               /\ \A k \in Kinds :
                     g.timers[k] = IF k \in K /\ h.timers[k] # "off" THEN "run" ELSE h.timers[k]
BY DEF Carry, ResumeKinds, TimerStatus

\* rearm after a wrong button answer.  The clock held back goes on; the branch
\* that shows the next content group is never taken, by HeldBack.
LEMMA RearmKeeps ==
    ASSUME TypeOK, question \in Questions, question.kind = "button", HeldBack, paused = FALSE,
           NEW h \in Carry, Rearm(h), h.pending.id = NoPlayer, h.waitNext = waitNext,
           \A k \in Kinds : h.timers[k] = IF k \in ContentKinds \union {"buttonPressing"}
                                          THEN timers[k] ELSE "off",
           question' = question, paused' = paused, thinkingRemain' = thinkingRemain
    PROVE  SteeringOK' /\ ContentOK' /\ Shape'
<1>0. pressLeft \in Nat /\ thinkingRemain \in Nat /\ ContentOK /\ contentDone \in BOOLEAN
  BY DEF TypeOK, ContentOK
<1>1. CASE contentDone
  <2> DEFINE g == [h EXCEPT !.armed = TRUE]
             e == [g EXCEPT !.timers = ResumeKinds(g.timers, {"buttonPressing"})]
  <2>1. /\ timers["buttonPressing"] = "frozen" /\ thinkingRemain = pressLeft
        /\ \A k \in ContentKinds : timers[k] = "off"
    BY <1>1 DEF HeldBack
  <2>2. g \in Carry /\ g.armed = TRUE /\ g.pending = h.pending /\ g.timers = h.timers
    BY DEF Carry
  <2>3. "buttonPressing" \in Kinds /\ "buttonPressing" \notin ContentKinds
    BY DEF Kinds, ContentKinds
  <2>4. g.timers["buttonPressing"] = "frozen" BY <2>1, <2>2, <2>3
  <2>5. ArmButton(h) /\ UNCHANGED content BY <1>1 DEF Rearm
  <2>6. sub' = "buttonWait" /\ stage' = "question" /\ pressLeft' = pressLeft /\ Commit(e)
    BY <2>4, <2>5 DEF ArmButton, ThinkAgain
  <2> HIDE DEF g
  <2>7. /\ e \in Carry /\ e.armed = TRUE /\ e.pending.id = NoPlayer
        /\ \A k \in Kinds : e.timers[k] = IF k = "buttonPressing" THEN "run" ELSE "off"
    <3>1. \A k \in Kinds : g.timers[k] = IF k = "buttonPressing" THEN "frozen" ELSE "off"
      BY <2>1, <2>2, <2>3
    <3>2. {"buttonPressing"} \in SUBSET Kinds BY <2>3
    <3>3. /\ e \in Carry /\ e.armed = g.armed /\ e.pending = g.pending
          /\ \A k \in Kinds :
                e.timers[k] = IF k \in {"buttonPressing"} /\ g.timers[k] # "off" THEN "run" ELSE g.timers[k]
      BY <2>2, <3>2, ResumedTimers
    <3> QED BY <2>2, <3>1, <3>3
  <2> HIDE DEF e
  <2>8. SteeringOK' BY <1>0, <2>6, <2>7, CommitTyped DEF SteeringOK
  <2>9. ContentOK' /\ contentDone' = TRUE BY <1>0, <1>1, <2>5 DEF ContentOK, content
  <2>10. /\ armed' = TRUE /\ pending'.id = NoPlayer
         /\ \A k \in Kinds : timers'[k] = IF k = "buttonPressing" THEN Live(paused') ELSE "off"
    BY <2>6, <2>7 DEF Commit, Live
  <2>11. pressLeft' <= thinkingRemain' BY <1>0, <2>1, <2>6
  <2>12. Live(paused') # "off" BY DEF Live
  <2>13. ShapeWait'
    BY <2>3, <2>9, <2>10, <2>11, <2>12 DEF ShapeWait, OnlyLive
  <2> QED BY <2>6, <2>8, <2>9, <2>13 DEF Shape, Closed
<1>2. CASE ~contentDone
  <2> DEFINE g == [h EXCEPT !.armed = TRUE]
             r == [g EXCEPT !.timers = ResumeKinds(g.timers, ContentKinds)]
  <2>1. /\ timers["buttonPressing"] = "off"
        /\ \A k \in ContentKinds : timers[k] \in {"off", "frozen"}
        /\ \E k \in ContentKinds : timers[k] = "off"
        /\ awaitingMedia => timers["content"] = "off"
        /\ waitNext \/ \E k \in ContentKinds : timers[k] = "frozen"
    BY <1>2 DEF HeldBack
  <2>2. g \in Carry /\ g.armed = TRUE /\ g.pending = h.pending /\ g.timers = h.timers /\ g.waitNext = h.waitNext
    BY DEF Carry
  <2>3. r = [h EXCEPT !.armed = TRUE, !.timers = ResumeKinds(h.timers, ContentKinds)]
    BY DEF Carry
  <2> HIDE DEF g
  <2>4. ContentKinds \in SUBSET Kinds BY DEF Kinds
  <2>5. /\ r \in Carry /\ r.armed = TRUE /\ r.pending.id = NoPlayer /\ r.waitNext = waitNext
        /\ \A k \in Kinds : r.timers[k] = IF k \in ContentKinds /\ timers[k] # "off" THEN "run" ELSE "off"
    BY <2>1, <2>2, <2>4, ResumedTimers
  <2> HIDE DEF r
  <2>6. h.waitNext \/ awaitingMedia \/ \E k \in ContentKinds : r.timers[k] # "off"
    BY <2>1, <2>4, <2>5
  <2>7. /\ sub' = "content" /\ stage' = "question" /\ UNCHANGED <<content, pressLeft>> /\ Commit(r)
    BY <1>2, <2>3, <2>6 DEF Rearm
  <2>8. ContentOK' /\ contentDone' = FALSE /\ awaitingMedia' = awaitingMedia /\ pressLeft' \in Nat
    BY <1>0, <1>2, <2>7 DEF ContentOK, content
  <2> DEFINE K == {k \in ContentKinds : timers[k] # "off"}
  <2>9. /\ K \in SUBSET ContentKinds
        /\ \A k \in Kinds : r.timers[k] = IF k \in K THEN Live(paused) ELSE "off"
        /\ r.waitNext \/ K # {}
        /\ awaitingMedia' => "content" \notin K
        /\ \E k \in ContentKinds : k \notin K
    BY <2>1, <2>5, <2>8 DEF Live
  <2> HIDE DEF K
  <2> QED BY <2>5, <2>7, <2>8, <2>9, GroupShown
<1> QED BY <1>0, <1>1, <1>2

\* applyOutcome writes well-typed scores.
LEMMA ApplyOutcomeTyped ==
    ASSUME TypeOK, NEW p \in Players, NEW v \in Verdicts,
           NEW a \in Texts \union Options \union {"", "-"}, ApplyOutcome(p, a, v)
    PROVE  ScoringOK'
<1> DEFINE o == [person |-> p, answer |-> a, verdict |-> v]
           Outcomes == [person : Players, verdict : Verdicts, answer : Texts \union Options \union {"", "-"}]
<1>1. o \in Outcomes OBVIOUS
<1>2. history \in Seq(Outcomes) /\ history' = Append(history, o) BY DEF TypeOK, ApplyOutcome
<1> HIDE DEF o, Outcomes
<1>3. history' \in Seq(Outcomes) BY <1>1, <1>2, AppendProperties
<1>4. cache' \in [Texts -> Verdicts \union {"none"}] BY DEF TypeOK, ApplyOutcome
<1>5. excluded' \subseteq Texts \union Options \union {"", "-"} BY DEF TypeOK, ApplyOutcome
<1> QED BY <1>3, <1>4, <1>5 DEF ScoringOK, Outcomes

\* applyVerdict: the reveal, or the clock held back goes on.
LEMMA ApplyVerdictKeeps ==
    ASSUME TypeOK, question \in Questions, HeldBack, paused = FALSE,
           NEW p \in Players, NEW v \in Verdicts, NEW a \in Texts \union Options \union {"", "-"},
           NEW h0 \in Carry, ApplyVerdict(p, a, v, h0), h0.waitNext = waitNext,
           \A k \in Kinds : h0.timers[k] = IF k \in ContentKinds \union {"buttonPressing"}
                                           THEN timers[k] ELSE "off",
           question' = question, paused' = paused, thinkingRemain' = thinkingRemain
    PROVE  SteeringOK' /\ ContentOK' /\ ScoringOK' /\ Shape'
<1> DEFINE h == [h0 EXCEPT !.pending = NoPending]
           r == [h EXCEPT !.canPress = h.canPress \ {p}]
<1>1. h \in Carry /\ h.pending.id = NoPlayer /\ h.waitNext = waitNext /\ h.timers = h0.timers
  BY DEF Carry, NoPending, Persons, Answers
<1>2. /\ ApplyOutcome(p, a, v)
      /\ \/ ShowAnswer(h) /\ UNCHANGED content
         \/ ShowAnswer(r) /\ UNCHANGED content
         \/ question.kind = "button" /\ Rearm(r)
  BY DEF ApplyVerdict
<1> HIDE DEF h
<1>3. r \in Carry /\ r.pending.id = NoPlayer /\ r.waitNext = waitNext /\ r.timers = h0.timers
  BY <1>1 DEF Carry
<1> HIDE DEF r
<1>4. ScoringOK' BY <1>2, ApplyOutcomeTyped
<1>5. UNCHANGED content => ContentOK' BY DEF TypeOK, ContentOK, content
<1>6. CASE ShowAnswer(h) /\ UNCHANGED content
  BY <1>1, <1>4, <1>5, <1>6, ShowAnswerKeeps
<1>7. CASE ShowAnswer(r) /\ UNCHANGED content
  BY <1>3, <1>4, <1>5, <1>7, ShowAnswerKeeps
<1>8. CASE question.kind = "button" /\ Rearm(r)
  BY <1>3, <1>4, <1>8, RearmKeeps
<1> QED BY <1>2, <1>6, <1>7, <1>8
-----------------------------------------------------------------------------
(* The steps.                                                              *)

IInv == TypeOK /\ Shape

\* What the current state hands on.
LEMMA NowFields ==
    ASSUME TypeOK
    PROVE  /\ Now \in Carry /\ Now.armed = armed /\ Now.canPress = canPress /\ Now.answerer = answerer
           /\ Now.pending = pending /\ Now.waitNext = waitNext /\ Now.timers = timers
BY DEF TypeOK, Now, Carry, Persons, Answers

LEMMA NowStopped ==
    ASSUME TypeOK, NEW K \in SUBSET Kinds
    PROVE  /\ Stop(Now, K) \in Carry /\ Stop(Now, K).armed = armed /\ Stop(Now, K).pending = pending
           /\ Stop(Now, K).waitNext = waitNext /\ Stop(Now, K).answerer = answerer
           /\ \A k \in Kinds : Stop(Now, K).timers[k] = IF k \in K THEN "off" ELSE timers[k]
BY NowFields, StopFields

\* The parts of the invariant after a step.
LEMMA Assemble ==
    ASSUME SteeringOK', ContentOK', ScoringOK', OtherOK', Shape'
    PROVE  IInv'
BY DEF IInv, TypeOK, SteeringOK, ContentOK, ScoringOK, OtherOK, Persons, Answers

\* What a step leaves alone stays well-typed.
LEMMA Kept ==
    ASSUME TypeOK
    PROVE  /\ UNCHANGED content => ContentOK'
           /\ UNCHANGED scoring => ScoringOK'
           /\ UNCHANGED <<seats, question, thinkingRemain, cells, paused, rules>> => OtherOK'
           /\ UNCHANGED <<seats, paused, rules>> /\ thinkingRemain' \in Nat /\ cells' \in Nat
                 /\ question' \in Questions \union {NoQuestion} => OtherOK'
BY DEF TypeOK, content, scoring, seats, ContentOK, ScoringOK, OtherOK

LEMMA InitInv == Init => IInv
<1> SUFFICES ASSUME Init PROVE IInv OBVIOUS
<1>1. NoTimers \in [Kinds -> TimerStatus] BY DEF NoTimers, TimerStatus
<1>2. SteeringOK
  BY <1>1 DEF Init, SteeringOK, Persons, Answers, NoPending
<1>3. ContentOK BY DEF Init, ContentOK
<1>6. history = <<>> /\ cache \in [Texts -> Verdicts \union {"none"}] /\ excluded = {} BY DEF Init
<1>7. ScoringOK BY <1>6 DEF ScoringOK
<1>4. OtherOK BY NumbersAssumption, RuleAssumption DEF Init, OtherOK
<1>5. Shape BY NumbersAssumption DEF Init, Shape, Closed, NoPending
<1> QED BY <1>2, <1>3, <1>4, <1>5, <1>7, TypeParts DEF IInv

LEMMA StartQuestionStep == ASSUME IInv, NEW q \in Questions, StartQuestion(q) PROVE IInv'
<1>1. TypeOK /\ Closed /\ stage = "selecting" BY DEF IInv, Shape, StartQuestion
<1>2. UNCHANGED <<seats, paused, rules>> /\ question' = q /\ cells' = cells - 1
  BY DEF StartQuestion
<1>3. cells \in Nat /\ cells' \in Nat /\ thinkingRemain' \in Nat /\ connected \subseteq Players
  <2>1. cells \in Nat /\ cells # 0 /\ connected \subseteq Players BY <1>1 DEF Closed, TypeOK
  <2>2. thinkingRemain' \in {ThinkTime, 0} BY DEF StartQuestion
  <2> QED BY <1>2, <2>1, <2>2, NumbersAssumption
<1>4. OtherOK' BY <1>1, <1>2, <1>3, Kept
<1>5. ScoringOK' BY DEF StartQuestion, ScoringOK
<1>6. PICK p \in IF q.kind = "direct" /\ Active # {} THEN Active ELSE {NoPlayer} :
          ShowGroup(q, 1, [armed |-> q.kind = "button" /\ ~rules.falseStart,
                           canPress |-> IF q.kind = "button" THEN Active ELSE {},
                           answerer |-> p, pending |-> NoPending, waitNext |-> FALSE,
                           timers |-> NoTimers])
  BY DEF StartQuestion
<1> DEFINE h == [armed |-> q.kind = "button" /\ ~rules.falseStart,
                 canPress |-> IF q.kind = "button" THEN Active ELSE {},
                 answerer |-> p, pending |-> NoPending, waitNext |-> FALSE, timers |-> NoTimers]
<1>7. Active \subseteq Players /\ p \in Persons BY <1>3 DEF Active, Persons
<1>8. NoTimers \in [Kinds -> TimerStatus] /\ NoPending \in [id : Persons, answer : Answers] /\ NoPending.id = NoPlayer
  BY DEF NoTimers, TimerStatus, NoPending, Persons, Answers
<1>9. /\ h \in Carry /\ h.timers = NoTimers /\ h.pending.id = NoPlayer
      /\ h.armed => q.kind = "button"
  BY <1>7, <1>8 DEF Carry
<1>10. ShowGroup(q, 1, h) BY <1>6
<1> HIDE DEF h
<1>11. paused' = paused BY <1>2
<1>12. SteeringOK' /\ ContentOK' /\ Shape' BY <1>1, <1>2, <1>3, <1>9, <1>10, <1>11, ShowGroupKeeps
<1> QED BY <1>4, <1>5, <1>12, Assemble

LEMMA ButtonWinnerStep == ASSUME IInv, NEW p \in Players, ButtonWinner(p) PROVE IInv'
<1>1. /\ TypeOK /\ stage = "question" /\ question.kind = "button" /\ armed /\ ~paused
      /\ question \in Questions /\ sub \in {"content", "buttonWait"}
      /\ sub = "content" => ShapeContent
      /\ sub = "buttonWait" => ShapeWait
  BY DEF IInv, Shape, ButtonWinner, TypeOK, ShapeAnswering, ShapeValidating, ShapeReveal
<1> DEFINE frozen == IF sub = "content" THEN ContentKinds ELSE IF sub = "buttonWait" THEN {"buttonPressing"} ELSE {}
           h == [Now EXCEPT !.armed = FALSE, !.canPress = canPress \ {p}, !.timers = FreezeKinds(timers, frozen)]
<1>2. /\ AskAnswer(question, h, p, "answering")
      /\ thinkingRemain' = IF sub = "buttonWait" /\ timers["buttonPressing"] # "off"
                           THEN pressLeft ELSE thinkingRemain
      /\ UNCHANGED <<content, scoring, seats, question, cells, paused, rules, pressLeft>>
  BY DEF ButtonWinner
<1>3. /\ timers \in [Kinds -> TimerStatus] /\ thinkingRemain \in Nat /\ pressLeft \in Nat /\ cells \in Nat
      /\ canPress \subseteq Players
  BY <1>1 DEF TypeOK
<1>4. /\ h \in Carry /\ h.armed = FALSE /\ h.pending = pending /\ h.waitNext = waitNext
      /\ \A k \in Kinds : h.timers[k] = IF k \in frozen /\ timers[k] # "off" THEN "frozen" ELSE timers[k]
  <2>1. FreezeKinds(timers, frozen) \in [Kinds -> TimerStatus]
    BY <1>3 DEF FreezeKinds, TimerStatus
  <2>2. \A k \in Kinds : FreezeKinds(timers, frozen)[k] = IF k \in frozen /\ timers[k] # "off" THEN "frozen" ELSE timers[k]
    BY <1>3 DEF FreezeKinds
  <2> HIDE DEF frozen
  <2> QED BY <1>1, <1>3, <2>1, <2>2, NowFields DEF Carry
<1>5. pending.id = NoPlayer BY <1>1 DEF ShapeContent, ShapeWait
<1>6. "answering" \in AnswerKinds BY DEF AnswerKinds
<1> HIDE DEF h
<1>7. /\ stage' = "question" /\ sub' = "answering" /\ armed' = FALSE /\ waitNext' = waitNext /\ answerer' = p
      /\ canPress' \subseteq Players /\ waitNext' \in BOOLEAN
      /\ pending' \in [id : Persons, answer : Answers] /\ pending'.id \in {NoPlayer, p}
      /\ timers' \in [Kinds -> TimerStatus]
      /\ \A k \in Kinds : timers'[k] = IF k = "answering" THEN Live(paused) ELSE h.timers[k]
  BY <1>1, <1>2, <1>4, <1>5, <1>6, AskAnswerFields
<1>8. SteeringOK' BY <1>2, <1>3, <1>7 DEF SteeringOK, Persons
<1>9. ContentOK' /\ ScoringOK' BY <1>1, <1>2, Kept
<1>10. OtherOK' BY <1>1, <1>2, <1>3, Kept DEF TypeOK
<1>11. HeldBack'
  <2>1. CASE sub = "content"
    BY <1>1, <1>2, <1>4, <1>7, <2>1
    DEF HeldBack, ShapeContent, OnlyLive, content, ContentKinds, Kinds, AnswerKinds
  <2>2. CASE sub = "buttonWait"
    BY <1>1, <1>2, <1>3, <1>4, <1>7, <2>2
    DEF HeldBack, ShapeWait, OnlyLive, content, ContentKinds, Kinds, AnswerKinds
  <2> QED BY <1>1, <2>1, <2>2
<1>12. ShapeAnswering'
  <2>1. \A k \in Kinds : k \notin frozen => h.timers[k] = "off"
    BY <1>1, <1>4 DEF ShapeContent, ShapeWait, OnlyLive
  <2> QED BY <1>1, <1>2, <1>7, <1>11, <2>1
      DEF ShapeAnswering, AnswerKinds, ContentKinds, Kinds, Live
<1>13. Shape' BY <1>1, <1>2, <1>7, <1>12 DEF Shape, Closed
<1> QED BY <1>8, <1>9, <1>10, <1>13, Assemble

\* A step that goes to the reveal from an open question.
LEMMA RevealStep ==
    ASSUME IInv, stage = "question", NEW h \in Carry, ShowAnswer(h),
           UNCHANGED <<content, scoring, seats, question, thinkingRemain, cells, paused, rules>>
    PROVE  IInv'
<1>1. TypeOK /\ question \in Questions BY DEF IInv, Shape
<1>2. question' \in Questions /\ paused' = paused BY <1>1
<1>3. SteeringOK' /\ Shape' BY <1>1, <1>2, ShowAnswerKeeps
<1>4. ContentOK' /\ ScoringOK' /\ OtherOK' BY <1>1, Kept
<1> QED BY <1>3, <1>4, Assemble

LEMMA ButtonNobodyStep == ASSUME IInv, ButtonNobody PROVE IInv'
BY RevealStep, NowFields DEF IInv, ButtonNobody

LEMMA TimeoutButtonPressingStep == ASSUME IInv, TimeoutButtonPressing PROVE IInv'
<1>1. stage = "question"
  BY DEF IInv, Shape, Closed, TimeoutButtonPressing, Expires, NoTimers, Kinds
<1> QED BY <1>1, RevealStep, NowFields DEF IInv, TimeoutButtonPressing

LEMMA PassStep == ASSUME IInv, NEW p \in Players, Pass(p) PROVE IInv'
<1> DEFINE h == [Now EXCEPT !.canPress = canPress \ {p}]
           e == [h EXCEPT !.armed = armed /\ AnyCanPress(h.canPress)]
<1>1. TypeOK /\ stage = "question" /\ sub \in {"content", "buttonWait"} /\ Shape
  BY DEF IInv, Pass
<1>2. UNCHANGED <<content, scoring, seats, question, thinkingRemain, cells, paused, rules>>
  BY DEF Pass
<1>3. h \in Carry /\ h.armed = armed /\ h.timers = timers /\ h.pending = pending /\ h.waitNext = waitNext
  BY <1>1, NowFields DEF Carry
<1>4. \/ ShowAnswer(h)
      \/ /\ AnyCanPress(h.canPress) \/ sub = "content"
         /\ Commit(e) /\ UNCHANGED <<stage, sub, pressLeft>>
  BY <1>1 DEF Pass
<1> HIDE DEF h
<1>5. CASE ShowAnswer(h) BY <1>1, <1>2, <1>3, <1>5, RevealStep DEF IInv
<1>6. CASE /\ AnyCanPress(h.canPress) \/ sub = "content"
           /\ Commit(e) /\ UNCHANGED <<stage, sub, pressLeft>>
  <2>1. /\ e \in Carry /\ e.timers = timers /\ e.pending = pending /\ e.waitNext = waitNext
        /\ e.armed = (armed /\ AnyCanPress(h.canPress))
    <3>1. (armed /\ AnyCanPress(h.canPress)) \in BOOLEAN BY <1>1 DEF TypeOK, AnyCanPress
    <3> QED BY <1>3, <3>1 DEF Carry
  <2>2. Commit(e) /\ stage' = stage /\ sub' = sub /\ pressLeft' = pressLeft BY <1>6
  <2> HIDE DEF e
  <2>3. /\ timers' = timers /\ pending' = pending /\ waitNext' = waitNext
        /\ armed' => armed
        /\ sub = "buttonWait" /\ armed => armed'
    BY <1>6, <2>1 DEF Commit
  <2>4. SteeringOK' BY <1>1, <2>1, <2>2, CommitTyped DEF SteeringOK, TypeOK
  <2>5. ContentOK' /\ ScoringOK' /\ OtherOK' BY <1>1, <1>2, Kept
  <2>6. sub = "content" => ShapeContent'
    BY <1>1, <1>2, <2>2, <2>3 DEF Shape, ShapeContent, OnlyLive, content
  <2>7. sub = "buttonWait" => ShapeWait'
    BY <1>1, <1>2, <2>2, <2>3 DEF Shape, ShapeWait, OnlyLive, content
  <2>8. Shape' BY <1>1, <1>2, <2>2, <2>6, <2>7 DEF Shape, Closed
  <2> QED BY <2>4, <2>5, <2>8, Assemble
<1> QED BY <1>4, <1>5, <1>6

\* The timers left when an answer is judged.
LEMMA AnswerTimers ==
    ASSUME IInv, stage = "question", sub \in {"answering", "validating"}, question.kind # "custom"
    PROVE  /\ TypeOK /\ question \in Questions /\ HeldBack /\ answerer \in Players
           /\ pending.id \in {NoPlayer, answerer}
           /\ \A k \in Kinds : k \notin ContentKinds \union {"buttonPressing"} \union AnswerKinds
                                  \union {"showmanDecision"} => timers[k] = "off"
           /\ sub = "answering" => timers["showmanDecision"] = "off"
<1>1. TypeOK /\ question \in Questions
      /\ (sub = "answering" => ShapeAnswering) /\ (sub = "validating" => ShapeValidating)
  BY DEF IInv, Shape
<1>2. /\ HeldBack /\ answerer \in Players /\ pending.id \in {NoPlayer, answerer}
      /\ timers["reflection"] = "off" /\ (sub = "answering" => timers["showmanDecision"] = "off")
  BY <1>1 DEF ShapeAnswering, ShapeValidating
<1>3. \A k \in Kinds : k \notin ContentKinds \union {"buttonPressing"} \union AnswerKinds
                             \union {"showmanDecision"} => k = "reflection"
  BY DEF Kinds
<1> QED BY <1>1, <1>2, <1>3

\* A step that judges the current answer, with its timers stopped.
LEMMA VerdictStep ==
    ASSUME IInv, stage = "question", sub \in {"answering", "validating"}, question.kind # "custom",
           paused = FALSE, NEW v \in Verdicts, NEW a \in Texts \union Options \union {"", "-"},
           NEW p \in Players, NEW K \in SUBSET Kinds, ApplyVerdict(p, a, v, Stop(Now, K)),
           K \intersect (ContentKinds \union {"buttonPressing"}) = {},
           \A k \in AnswerKinds \union {"showmanDecision"} : k \in K \/ timers[k] = "off",
           UNCHANGED <<seats, question, thinkingRemain, cells, paused, rules>>
    PROVE  IInv'
<1>1. /\ TypeOK /\ question \in Questions /\ HeldBack
      /\ \A k \in Kinds : k \notin ContentKinds \union {"buttonPressing"} \union AnswerKinds
                             \union {"showmanDecision"} => timers[k] = "off"
  BY AnswerTimers
<1>2. /\ Stop(Now, K) \in Carry /\ Stop(Now, K).waitNext = waitNext
      /\ \A k \in Kinds : Stop(Now, K).timers[k] = IF k \in K THEN "off" ELSE timers[k]
  BY <1>1, NowStopped
<1>3. \A k \in Kinds : Stop(Now, K).timers[k] =
          IF k \in ContentKinds \union {"buttonPressing"} THEN timers[k] ELSE "off"
  BY <1>1, <1>2
<1>4. question' = question /\ paused' = paused /\ thinkingRemain' = thinkingRemain OBVIOUS
<1>5. SteeringOK' /\ ContentOK' /\ ScoringOK' /\ Shape'
  BY <1>1, <1>2, <1>3, <1>4, ApplyVerdictKeeps
<1>6. OtherOK' BY <1>1, Kept
<1> QED BY <1>5, <1>6, Assemble

LEMMA AnswerStep ==
    ASSUME IInv, NEW a \in Texts \union Options \union {"-"}, a \in AnswerValues, Answer(a)
    PROVE  IInv'
<1>1. /\ stage = "question" /\ sub = "answering" /\ paused = FALSE /\ question.kind # "custom"
      /\ pending.id = NoPlayer /\ TypeOK
      /\ UNCHANGED <<seats, question, thinkingRemain, cells, paused, rules>>
  BY DEF Answer, IInv, TypeOK
<1>2. /\ question \in Questions /\ HeldBack /\ answerer \in Players /\ timers["showmanDecision"] = "off"
      /\ \A k \in Kinds : k \notin ContentKinds \union {"buttonPressing"} \union AnswerKinds
                             \union {"showmanDecision"} => timers[k] = "off"
  BY <1>1, AnswerTimers
<1>3. /\ AnswerKinds \in SUBSET Kinds /\ "showmanDecision" \in Kinds
      /\ "showmanDecision" \notin ContentKinds \union {"buttonPressing"} \union AnswerKinds
      /\ AnswerKinds \intersect (ContentKinds \union {"buttonPressing"}) = {}
  BY DEF Kinds, AnswerKinds, ContentKinds
<1>4. CASE AutoVerdicts(a) = {}
  <2> DEFINE h == Stop(Now, AnswerKinds)
             g == [h EXCEPT !.pending = [id |-> answerer, answer |-> a]]
             e == Start(g, "showmanDecision")
  <2>1. AskValidate(a, h) BY <1>4 DEF Answer
  <2>2. a \in Answers
    BY <1>2, <1>4, QuestionsAssumption DEF AutoVerdicts, AnswerValues, Answers, AnswerTypes
  <2>3. /\ h \in Carry /\ h.armed = armed /\ h.waitNext = waitNext
        /\ \A k \in Kinds : h.timers[k] = IF k \in AnswerKinds THEN "off" ELSE timers[k]
    BY <1>1, <1>3, NowFields, StopFields
  <2>4. Commit(e) /\ sub' = "validating" /\ UNCHANGED <<stage, pressLeft, content, scoring>>
    BY <2>1 DEF AskValidate
  <2> HIDE DEF h
  <2>5. /\ g \in Carry /\ g.armed = armed /\ g.waitNext = waitNext /\ g.timers = h.timers
        /\ g.pending.id = answerer
    BY <1>2, <2>2, <2>3 DEF Carry, Persons
  <2> HIDE DEF g
  <2>6. /\ e \in Carry /\ e.armed = armed /\ e.waitNext = waitNext /\ e.pending.id = answerer
        /\ e.answerer = g.answerer
        /\ \A k \in Kinds : e.timers[k] = IF k = "showmanDecision" THEN Live(paused) ELSE h.timers[k]
    <3>1. paused \in BOOLEAN /\ "showmanDecision" \in Kinds BY <1>1, <1>3
    <3> QED BY <2>5, <3>1, StartFields
  <2>7. e.answerer = answerer BY <1>1, <2>6, NowFields, StopFields, <1>3 DEF Carry, g, h
  <2> HIDE DEF e
  <2>8. SteeringOK' BY <1>1, <2>4, <2>6, CommitTyped DEF SteeringOK, TypeOK
  <2>9. ContentOK' /\ ScoringOK' /\ OtherOK' BY <1>1, <2>4, Kept
  <2>10. /\ armed' = armed /\ waitNext' = waitNext /\ answerer' = answerer /\ pending'.id = answerer
         /\ \A k \in Kinds : timers'[k] = IF k \in AnswerKinds THEN "off"
                                          ELSE IF k = "showmanDecision" THEN Live(paused) ELSE timers[k]
    BY <1>3, <2>3, <2>4, <2>6, <2>7 DEF Commit
  <2>11. HeldBack'
    <3>1. \A k \in ContentKinds \union {"buttonPressing"} : timers'[k] = timers[k]
      BY <1>3, <2>10 DEF Kinds
    <3>2. question' = question /\ thinkingRemain' = thinkingRemain /\ pressLeft' = pressLeft
          /\ contentDone' = contentDone /\ awaitingMedia' = awaitingMedia
      BY <1>1, <2>4 DEF content
    <3>3. "content" \in ContentKinds BY DEF ContentKinds
    <3> QED BY <1>2, <2>10, <3>1, <3>2, <3>3 DEF HeldBack
  <2>12. armed = FALSE BY <1>1 DEF IInv, Shape, ShapeAnswering, TypeOK
  <2>13. "reflection" \in Kinds /\ "reflection" \notin AnswerKinds /\ timers["reflection"] = "off"
    BY <1>1 DEF IInv, Shape, ShapeAnswering, Kinds, AnswerKinds
  <2>14. ShapeValidating'
    BY <1>1, <1>2, <1>3, <2>10, <2>11, <2>12, <2>13 DEF ShapeValidating
  <2>15. Shape' BY <1>1, <1>2, <2>4, <2>14 DEF Shape, Closed
  <2> QED BY <2>8, <2>9, <2>15, Assemble
<1>5. CASE AutoVerdicts(a) # {}
  <2>1. PICK v \in AutoVerdicts(a) : ApplyVerdict(answerer, a, v, Stop(Now, AnswerKinds))
    BY <1>5 DEF Answer
  <2>2. v \in Verdicts
    BY <1>2, QuestionsAssumption DEF AutoVerdicts, Verdicts, AnswerTypes
  <2> QED BY <1>1, <1>2, <1>3, <2>1, <2>2, VerdictStep
<1> QED BY <1>4, <1>5

LEMMA ValidateStep == ASSUME IInv, NEW v \in Verdicts, Validate(v) PROVE IInv'
<1> DEFINE K == AnswerKinds \union {"showmanDecision"}
<1>1. /\ stage = "question" /\ sub \in {"validating", "answering"} /\ paused = FALSE
      /\ question.kind # "custom" /\ pending.id # NoPlayer /\ TypeOK
      /\ UNCHANGED <<seats, question, thinkingRemain, cells, paused, rules>>
      /\ ApplyVerdict(pending.id, pending.answer, v, Stop(Now, K))
  BY DEF Validate, IInv, TypeOK
<1>2. pending.id \in Players /\ pending.answer \in Texts \union Options \union {"", "-"}
  BY <1>1 DEF TypeOK
<1>3. K \in SUBSET Kinds /\ K \intersect (ContentKinds \union {"buttonPressing"}) = {}
  BY DEF Kinds, AnswerKinds, ContentKinds
<1> QED BY <1>1, <1>2, <1>3, VerdictStep

LEMMA ValidateCustomStep ==
    ASSUME IInv, NEW p \in Players, NEW a \in Texts, NEW v \in Verdicts, ValidateCustom(p, a, v)
    PROVE  IInv'
<1>1. /\ TypeOK /\ Shape /\ ApplyOutcome(p, a, v)
      /\ UNCHANGED <<steering, content, seats, question, thinkingRemain, cells, paused, rules>>
  BY DEF IInv, ValidateCustom
<1>2. SteeringOK' BY <1>1 DEF SteeringOK, steering, TypeOK, Persons, Answers
<1>3. ScoringOK' BY <1>1, ApplyOutcomeTyped
<1>4. ContentOK' /\ OtherOK' BY <1>1, Kept
<1>5. Shape'
  BY <1>1 DEF steering, content, Shape, Closed, ShapeContent, ShapeWait, ShapeAnswering,
              ShapeValidating, ShapeReveal, HeldBack, OnlyLive
<1> QED BY <1>2, <1>3, <1>4, <1>5, Assemble

\* A step from one content group to the next, with the content timers stopped.
LEMMA NextGroupStep ==
    ASSUME IInv, stage = "question", sub = "content", NEW K \in SUBSET Kinds,
           \A k \in ContentKinds : k \in K \/ timers[k] = "off",
           ContentGroupDone(Stop(Now, K)),
           UNCHANGED scoring, question' = question, paused' = paused, thinkingRemain' = thinkingRemain, OtherOK'
    PROVE  IInv'
<1>1. TypeOK /\ question \in Questions /\ ShapeContent BY DEF IInv, Shape
<1>2. /\ Stop(Now, K) \in Carry /\ Stop(Now, K).armed = armed /\ Stop(Now, K).pending = pending
      /\ \A k \in Kinds : Stop(Now, K).timers[k] = IF k \in K THEN "off" ELSE timers[k]
  BY <1>1, NowStopped
<1>3. \A k \in Kinds : Stop(Now, K).timers[k] = "off"
  BY <1>1, <1>2 DEF ShapeContent, OnlyLive
<1>4. pending.id = NoPlayer /\ (armed => question.kind = "button") /\ thinkingRemain' \in Nat
  BY <1>1 DEF ShapeContent, TypeOK
<1>5. SteeringOK' /\ ContentOK' /\ Shape' BY <1>1, <1>2, <1>3, <1>4, ContentGroupDoneKeeps
<1>6. ScoringOK' BY <1>1, Kept
<1> QED BY <1>5, <1>6, Assemble

\* A step out of the reveal.
LEMMA EndStep ==
    ASSUME IInv, stage = "question", sub = "reveal", EndQuestion(Now),
           UNCHANGED <<content, scoring, seats, question, thinkingRemain, cells, paused, rules>>
    PROVE  IInv'
<1>1. TypeOK /\ ShapeReveal BY DEF IInv, Shape
<1>2. Now \in Carry /\ Now.armed = FALSE /\ Now.pending.id = NoPlayer
  BY <1>1, NowFields DEF ShapeReveal, TypeOK
<1>3. SteeringOK' /\ Shape' BY <1>1, <1>2, EndQuestionKeeps
<1>4. ContentOK' /\ ScoringOK' /\ OtherOK' BY <1>1, Kept
<1> QED BY <1>3, <1>4, Assemble

\* A step that changes nothing the invariant's shape is about.
LEMMA ShapeKept ==
    ASSUME Shape, UNCHANGED steering, question' = question, thinkingRemain' = thinkingRemain,
           cells' = cells, paused' = paused, contentDone' = contentDone, awaitingMedia' = awaitingMedia
    PROVE  Shape'
BY DEF steering, Shape, Closed, ShapeContent, ShapeWait, ShapeAnswering,
       ShapeValidating, ShapeReveal, HeldBack, OnlyLive

LEMMA SteeringKept == ASSUME TypeOK, UNCHANGED steering PROVE SteeringOK'
BY DEF steering, SteeringOK, TypeOK, Persons, Answers

LEMMA MediaCompletedStep == ASSUME IInv, NEW p \in Players, MediaCompleted(p) PROVE IInv'
<1>1. /\ TypeOK /\ Shape /\ stage = "question" /\ sub = "content" /\ awaitingMedia /\ ShapeContent
      /\ UNCHANGED <<scoring, seats, question, thinkingRemain, cells, paused, rules>>
  BY DEF MediaCompleted, IInv, Shape
<1>2. OtherOK' /\ ScoringOK' BY <1>1, Kept
<1>3. CASE Active \subseteq mediaDone \union {p}
  <2>1. ContentGroupDone(Stop(Now, {"mediaFallback"})) BY <1>3 DEF MediaCompleted
  <2>2. {"mediaFallback"} \in SUBSET Kinds BY DEF Kinds, ContentKinds
  <2>3. \A k \in ContentKinds : k \in {"mediaFallback"} \/ timers[k] = "off"
    BY <1>1 DEF ShapeContent, ContentKinds
  <2> QED BY <1>1, <1>2, <2>1, <2>2, <2>3, NextGroupStep
<1>4. CASE ~(Active \subseteq mediaDone \union {p})
  <2>1. mediaDone' = mediaDone \union {p} /\ UNCHANGED <<steering, cursor, contentDone, awaitingMedia>>
    BY <1>4 DEF MediaCompleted
  <2>2. SteeringOK' BY <1>1, <2>1, SteeringKept
  <2>3. ContentOK' BY <1>1, <2>1 DEF ContentOK, TypeOK
  <2>4. Shape' BY <1>1, <2>1, ShapeKept
  <2> QED BY <1>2, <2>2, <2>3, <2>4, Assemble
<1> QED BY <1>3, <1>4

LEMMA TickStep == ASSUME IInv, Tick PROVE IInv'
<1>1. /\ TypeOK /\ Shape /\ timers["buttonPressing"] = "run"
      /\ UNCHANGED <<stage, sub, armed, canPress, answerer, pending, waitNext, timers>>
      /\ UNCHANGED <<content, scoring, seats, question, thinkingRemain, cells, paused, rules>>
  BY DEF Tick, IInv
<1>2. pressLeft \in Nat /\ pressLeft' \in Nat /\ pressLeft' <= pressLeft
  <2>1. pressLeft \in Nat BY <1>1 DEF TypeOK
  <2>2. pressLeft > 0 /\ pressLeft' = pressLeft - 1 BY DEF Tick
  <2> QED BY <2>1, <2>2
<1>3. SteeringOK' BY <1>1, <1>2 DEF SteeringOK, TypeOK, Persons, Answers
<1>4. ContentOK' /\ ScoringOK' /\ OtherOK' BY <1>1, Kept
<1>5. "buttonPressing" \in Kinds /\ "buttonPressing" \notin ContentKinds BY DEF Kinds, ContentKinds
<1>6. stage = "question" /\ sub = "buttonWait"
  BY <1>1, <1>5 DEF Shape, Closed, ShapeContent, ShapeAnswering, ShapeValidating, ShapeReveal,
                    HeldBack, OnlyLive, NoTimers, TypeOK
<1>7. ShapeWait'
  <2>1. ShapeWait /\ thinkingRemain \in Nat BY <1>1, <1>6 DEF Shape, TypeOK
  <2>2. pressLeft' <= thinkingRemain' BY <1>1, <1>2, <2>1 DEF ShapeWait
  <2> QED BY <1>1, <2>1, <2>2 DEF ShapeWait, OnlyLive, content
<1>8. Shape' BY <1>1, <1>6, <1>7 DEF Shape, Closed
<1> QED BY <1>3, <1>4, <1>8, Assemble

LEMMA RunningKind ==
    ASSUME IInv, NEW k \in Kinds, Expires(k)
    PROVE  /\ TypeOK /\ paused = FALSE /\ timers[k] = "run" /\ stage = "question"
           /\ k \in ContentKinds => sub = "content"
           /\ k \in AnswerKinds => sub = "answering"
           /\ k = "showmanDecision" => sub = "validating"
           /\ k = "reflection" => sub = "reveal"
<1>1. TypeOK /\ Shape /\ paused = FALSE /\ timers[k] = "run" BY DEF IInv, Expires, TypeOK
<1>2. stage = "question" BY <1>1 DEF Shape, Closed, NoTimers
<1>3. sub \in {"content", "buttonWait", "answering", "validating", "reveal"}
  BY <1>1, <1>2 DEF TypeOK, Shape
<1>4. /\ AnswerKinds \intersect ContentKinds = {}
      /\ \A j \in {"buttonPressing", "showmanDecision", "reflection"} : j \notin AnswerKinds \union ContentKinds
  BY DEF ContentKinds, AnswerKinds
<1>5. (sub = "content" => k \in ContentKinds) /\ (sub = "buttonWait" => k = "buttonPressing")
      /\ (sub = "reveal" => k = "reflection")
  BY <1>1, <1>2 DEF Shape, ShapeContent, ShapeWait, ShapeReveal, OnlyLive
<1>6. sub \in {"answering", "validating"} => k \notin ContentKinds \union {"buttonPressing", "reflection"}
  BY <1>1, <1>2 DEF Shape, ShapeAnswering, ShapeValidating, HeldBack
<1>7. (sub = "answering" => k # "showmanDecision") /\ (sub = "validating" => k \notin AnswerKinds)
  BY <1>1, <1>2 DEF Shape, ShapeAnswering, ShapeValidating
<1> QED BY <1>1, <1>2, <1>3, <1>4, <1>5, <1>6, <1>7

LEMMA TimeoutContentStep == ASSUME IInv, NEW k \in ContentKinds, TimeoutContent(k) PROVE IInv'
<1>1. k \in Kinds /\ Expires(k) BY DEF Kinds, TimeoutContent
<1>2. /\ TypeOK /\ stage = "question" /\ sub = "content" /\ ShapeContent /\ timers[k] = "run"
  BY <1>1, RunningKind DEF IInv, Shape
<1>3. /\ ContentGroupDone(Stop(Now, {k}))
      /\ UNCHANGED <<scoring, seats, question, thinkingRemain, cells, paused, rules>>
  BY <1>2 DEF TimeoutContent
<1>4. \A j \in ContentKinds : j \in {k} \/ timers[j] = "off"
  BY <1>2 DEF ShapeContent, ContentKinds
<1>5. OtherOK' BY <1>2, <1>3, Kept
<1> QED BY <1>1, <1>2, <1>3, <1>4, <1>5, NextGroupStep

LEMMA TimeoutAnsweringStep == ASSUME IInv, NEW k \in AnswerKinds, TimeoutAnswering(k) PROVE IInv'
<1>1. k \in Kinds /\ Expires(k) BY DEF Kinds, TimeoutAnswering
<1>2. /\ TypeOK /\ stage = "question" /\ sub = "answering" /\ ShapeAnswering /\ Shape
      /\ timers[k] = "run" /\ paused = FALSE
  BY <1>1, RunningKind DEF IInv, Shape
<1>3. question.kind # "custom" /\ answerer \in Players BY <1>2 DEF ShapeAnswering
<1>4. UNCHANGED <<seats, question, thinkingRemain, cells, paused, rules>> BY DEF TimeoutAnswering
<1>5. CASE pending.id # NoPlayer
  <2>1. /\ timers' = StopKind(timers, k)
        /\ UNCHANGED <<stage, sub, armed, canPress, answerer, pending, waitNext, pressLeft>>
        /\ UNCHANGED <<content, scoring>>
    BY <1>5 DEF TimeoutAnswering
  <2>2. /\ timers' \in [Kinds -> TimerStatus]
        /\ \A j \in Kinds : timers'[j] = IF j = k THEN "off" ELSE timers[j]
    BY <1>2, <2>1 DEF StopKind, TypeOK, TimerStatus
  <2>3. SteeringOK' BY <1>2, <2>1, <2>2 DEF SteeringOK, TypeOK, Persons, Answers
  <2>4. ContentOK' /\ ScoringOK' /\ OtherOK' BY <1>2, <1>4, <2>1, Kept
  <2>5. /\ k \notin ContentKinds \union {"buttonPressing", "showmanDecision", "reflection"}
        /\ ContentKinds \subseteq Kinds /\ AnswerKinds \subseteq Kinds
        /\ {"buttonPressing", "showmanDecision", "reflection"} \subseteq Kinds /\ "content" \in ContentKinds
    BY DEF ContentKinds, AnswerKinds, Kinds
  <2>6. question' = question /\ thinkingRemain' = thinkingRemain /\ pressLeft' = pressLeft /\ paused' = paused
        /\ contentDone' = contentDone /\ awaitingMedia' = awaitingMedia /\ waitNext' = waitNext
    BY <1>4, <2>1 DEF content
  <2>7. HeldBack'
    <3>1. \A j \in ContentKinds \union {"buttonPressing"} : timers'[j] = timers[j] BY <2>2, <2>5
    <3>2. HeldBack BY <1>2 DEF ShapeAnswering
    <3> QED BY <2>5, <2>6, <3>1, <3>2 DEF HeldBack
  <2>8. ShapeAnswering'
    BY <1>2, <1>3, <1>5, <2>1, <2>2, <2>5, <2>6, <2>7 DEF ShapeAnswering
  <2>9. Shape' BY <1>2, <2>1, <2>6, <2>8 DEF Shape, Closed
  <2> QED BY <2>3, <2>4, <2>9, Assemble
<1>6. CASE pending.id = NoPlayer
  <2>1. ApplyVerdict(answerer, "-", "wrong", Stop(Now, {k})) BY <1>2, <1>6 DEF TimeoutAnswering
  <2>2. {k} \intersect (ContentKinds \union {"buttonPressing"}) = {}
    BY DEF AnswerKinds, ContentKinds
  <2>3. \A j \in AnswerKinds \union {"showmanDecision"} : j \in {k} \/ timers[j] = "off"
    BY <1>2 DEF ShapeAnswering, AnswerKinds
  <2>4. "wrong" \in Verdicts BY DEF Verdicts
  <2> QED BY <1>1, <1>2, <1>3, <1>4, <2>1, <2>2, <2>3, <2>4, VerdictStep
<1> QED BY <1>5, <1>6

LEMMA TimeoutShowmanDecisionStep ==
    ASSUME IInv, NEW v \in Verdicts, TimeoutShowmanDecision(v)
    PROVE  IInv'
<1> DEFINE K == AnswerKinds \union {"showmanDecision"}
<1>1. Expires("showmanDecision") /\ "showmanDecision" \in Kinds BY DEF Kinds, TimeoutShowmanDecision
<1>2. TypeOK /\ stage = "question" /\ sub = "validating" /\ ShapeValidating /\ paused = FALSE
  BY <1>1, RunningKind DEF IInv, Shape
<1>3. question.kind # "custom" /\ answerer \in Players /\ pending.id = answerer
  BY <1>2 DEF ShapeValidating
<1>4. /\ UNCHANGED <<seats, question, thinkingRemain, cells, paused, rules>>
      /\ ApplyVerdict(pending.id, pending.answer, v, Stop(Now, K))
  BY <1>2, <1>3, PlayersAssumption DEF TimeoutShowmanDecision
<1>5. pending.answer \in Texts \union Options \union {"", "-"} BY <1>2 DEF TypeOK
<1>6. K \in SUBSET Kinds /\ K \intersect (ContentKinds \union {"buttonPressing"}) = {}
  BY DEF Kinds, AnswerKinds, ContentKinds
<1> QED BY <1>2, <1>3, <1>4, <1>5, <1>6, VerdictStep

LEMMA TimeoutReflectionStep == ASSUME IInv, TimeoutReflection PROVE IInv'
<1>1. Expires("reflection") /\ "reflection" \in Kinds BY DEF Kinds, TimeoutReflection
<1>2. stage = "question" /\ sub = "reveal" BY <1>1, RunningKind
<1> QED BY <1>2, EndStep DEF TimeoutReflection

LEMMA PauseStep == ASSUME IInv, NEW on \in BOOLEAN, Pause(on) PROVE IInv'
<1>1. /\ TypeOK /\ Shape /\ paused' = on /\ paused # on /\ paused \in BOOLEAN
      /\ timers' = IF on THEN HoldAll(timers) ELSE ReleaseAll(timers)
      /\ UNCHANGED <<stage, sub, armed, canPress, answerer, pending, waitNext, pressLeft>>
      /\ UNCHANGED <<content, scoring, seats, question, thinkingRemain, cells, rules>>
  BY DEF Pause, IInv, TypeOK
<1>2. /\ timers' \in [Kinds -> TimerStatus]
      /\ \A k \in Kinds : /\ timers[k] = Live(paused) => timers'[k] = Live(paused')
                          /\ timers[k] = "off" => timers'[k] = "off"
                          /\ timers[k] = "frozen" => timers'[k] = "frozen"
  <2>1. timers \in [Kinds -> TimerStatus] BY <1>1 DEF TypeOK
  <2>2. CASE on BY <1>1, <2>1, <2>2 DEF HoldAll, TimerStatus, Live
  <2>3. CASE ~on BY <1>1, <2>1, <2>3 DEF ReleaseAll, TimerStatus, Live
  <2> QED BY <2>2, <2>3
<1>3. SteeringOK' BY <1>1, <1>2 DEF SteeringOK, TypeOK, Persons, Answers
<1>4. ContentOK' /\ ScoringOK' BY <1>1, Kept
<1>5. OtherOK' BY <1>1 DEF OtherOK, TypeOK, seats
<1>6. Live(paused) # "off" /\ Live(paused') # "off" BY DEF Live
<1>7. /\ ContentKinds \subseteq Kinds /\ AnswerKinds \subseteq Kinds /\ "content" \in ContentKinds
      /\ {"buttonPressing", "showmanDecision", "reflection"} \subseteq Kinds
  BY DEF Kinds, ContentKinds
<1>8. /\ question' = question /\ contentDone' = contentDone /\ awaitingMedia' = awaitingMedia
      /\ thinkingRemain' = thinkingRemain /\ cells' = cells
  BY <1>1 DEF content
<1>9. Closed'
  <2>1. CASE stage # "question"
    <3>1. \A k \in Kinds : timers[k] = "off" BY <1>1, <2>1 DEF Shape, Closed, NoTimers
    <3>2. timers' = NoTimers BY <1>2, <3>1 DEF NoTimers
    <3> QED BY <1>1, <1>8, <2>1, <3>2 DEF Shape, Closed
  <2>2. CASE stage = "question" BY <1>1, <2>2 DEF Closed
  <2> QED BY <2>1, <2>2
<1>10. HeldBack => HeldBack'
  <2>1. CASE question.kind # "button" BY <1>2, <1>7, <1>8, <2>1 DEF HeldBack
  <2>2. CASE question.kind = "button" /\ contentDone
    BY <1>1, <1>2, <1>7, <1>8, <2>2 DEF HeldBack
  <2>3. CASE question.kind = "button" /\ ~contentDone
    BY <1>1, <1>2, <1>7, <1>8, <2>3 DEF HeldBack
  <2> QED BY <2>1, <2>2, <2>3
<1>11. ShapeContent => ShapeContent'
  BY <1>1, <1>2, <1>6, <1>7, <1>8 DEF ShapeContent, OnlyLive
<1>12. ShapeWait => ShapeWait'
  BY <1>1, <1>2, <1>6, <1>7, <1>8 DEF ShapeWait, OnlyLive
<1>13. ShapeAnswering => ShapeAnswering'
  BY <1>1, <1>2, <1>6, <1>7, <1>8, <1>10 DEF ShapeAnswering
<1>14. ShapeValidating => ShapeValidating'
  BY <1>1, <1>2, <1>7, <1>8, <1>10 DEF ShapeValidating
<1>15. ShapeReveal => ShapeReveal'
  BY <1>1, <1>2, <1>6, <1>7 DEF ShapeReveal, OnlyLive
<1>16. Shape'
  BY <1>1, <1>8, <1>9, <1>11, <1>12, <1>13, <1>14, <1>15 DEF Shape
<1> QED BY <1>3, <1>4, <1>5, <1>16, Assemble

LEMMA NextStepStep == ASSUME IInv, NextStep PROVE IInv'
<1>1. /\ TypeOK /\ stage = "question"
      /\ UNCHANGED <<scoring, seats, question, thinkingRemain, cells, paused, rules>>
  BY DEF NextStep, IInv
<1>2. CASE sub = "content" /\ ContentGroupDone(Stop(Now, ContentKinds))
  <2>1. ContentKinds \in SUBSET Kinds BY DEF Kinds
  <2>2. OtherOK' BY <1>1, Kept
  <2> QED BY <1>1, <1>2, <2>1, <2>2, NextGroupStep
<1>3. CASE sub = "reveal" /\ EndQuestion(Now) /\ UNCHANGED content
  BY <1>1, <1>3, EndStep
<1>4. CASE ShowAnswer(Now) /\ UNCHANGED content
  BY <1>1, <1>4, RevealStep, NowFields
<1> QED BY <1>2, <1>3, <1>4 DEF NextStep

LEMMA MoveForwardStep == ASSUME IInv, MoveForward PROVE IInv'
<1>1. /\ TypeOK /\ stage = "question"
      /\ UNCHANGED <<content, scoring, seats, question, thinkingRemain, cells, paused, rules>>
  BY DEF MoveForward, IInv
<1>2. CASE sub = "reveal" BY <1>1, <1>2, EndStep DEF MoveForward
<1>3. CASE sub # "reveal" BY <1>1, <1>3, RevealStep, NowFields DEF MoveForward
<1> QED BY <1>2, <1>3

\* A step after which no question is on the table.
LEMMA DropStep ==
    ASSUME IInv, DropQuestion, stage' # "question", stage' \in {"selecting", "roundEnd", "nextRound"},
           stage' = "selecting" => cells' # 0,
           cells' \in Nat, UNCHANGED <<seats, paused, rules>>
    PROVE  IInv'
<1>1. TypeOK BY DEF IInv
<1> DEFINE h == [armed |-> FALSE, canPress |-> {}, answerer |-> NoPlayer,
                 pending |-> NoPending, waitNext |-> FALSE, timers |-> NoTimers]
<1>2. NoTimers \in [Kinds -> TimerStatus] /\ NoPending \in [id : Persons, answer : Answers] /\ NoPending.id = NoPlayer
  BY DEF NoTimers, TimerStatus, NoPending, Persons, Answers
<1>3. h \in Carry /\ h.armed = FALSE /\ h.pending.id = NoPlayer /\ h.timers = NoTimers
  BY <1>2 DEF Carry, Persons
<1>4. Commit(h) /\ sub' = "end" /\ pressLeft' = 0 BY DEF DropQuestion
<1> HIDE DEF h
<1>5. SteeringOK' BY <1>3, <1>4, CommitTyped DEF SteeringOK
<1>6. ContentOK' BY DEF DropQuestion, ContentOK
<1>10. history' = <<>> /\ cache' \in [Texts -> Verdicts \union {"none"}] /\ excluded' = {} BY DEF DropQuestion
<1>11. ScoringOK' BY <1>10 DEF ScoringOK
<1>7. question' = NoQuestion /\ thinkingRemain' \in Nat BY DEF DropQuestion
<1>8. OtherOK' BY <1>1, <1>7, Kept
<1>9. Shape' BY <1>3, <1>4 DEF Shape, Closed, Commit
<1> QED BY <1>5, <1>6, <1>8, <1>9, <1>11, Assemble

LEMMA MoveBackStep == ASSUME IInv, MoveBack PROVE IInv'
<1>1. cells \in Nat BY DEF IInv, TypeOK
<1>2. cells' = cells + 1 BY DEF MoveBack
<1>3. stage' \in {"selecting", "roundEnd", "nextRound"} BY DEF MoveBack, BeginSelection
<1>4. cells' \in Nat /\ cells' # 0 BY <1>1, <1>2
<1> QED BY <1>3, <1>4, DropStep DEF MoveBack

LEMMA LeaveRoundStep == ASSUME IInv, LeaveRound PROVE IInv'
<1>1. cells \in Nat BY DEF IInv, TypeOK
<1>2. cells' = cells /\ stage' = "nextRound" /\ DropQuestion /\ UNCHANGED <<seats, paused, rules>> BY DEF LeaveRound
<1> QED BY <1>1, <1>2, DropStep

\* What a question can leave open: the button before an answer, or a verdict.
LEMMA LeftOpen ==
    ASSUME IInv
    PROVE  /\ armed => question.kind = "button" /\ sub \in {"content", "buttonWait"}
           /\ pending.id # NoPlayer => sub \in {"answering", "validating"} /\ pending.id = answerer
<1>1. TypeOK /\ Shape BY DEF IInv
<1>2. CASE stage # "question" BY <1>1, <1>2 DEF Shape, Closed, TypeOK
<1>3. CASE stage = "question"
  BY <1>1, <1>3 DEF TypeOK, Shape, ShapeContent, ShapeWait, ShapeAnswering, ShapeValidating, ShapeReveal
<1> QED BY <1>2, <1>3

LEMMA MoveEndRoundStep == ASSUME IInv, MoveEndRound PROVE IInv'
<1>1. TypeOK /\ UNCHANGED <<seats, cells, paused, rules>> BY DEF IInv, MoveEndRound
<1>2. CASE rules.managed
  <2>1. /\ stage' = "roundEnd" /\ timers' = NoTimers /\ pressLeft' = 0
        /\ UNCHANGED <<sub, armed, canPress, answerer, pending, waitNext>>
        /\ UNCHANGED <<content, scoring, question, thinkingRemain>>
    BY <1>2 DEF MoveEndRound
  <2>2. NoTimers \in [Kinds -> TimerStatus] BY DEF NoTimers, TimerStatus
  <2>3. SteeringOK' BY <1>1, <2>1, <2>2 DEF SteeringOK, TypeOK, Persons, Answers
  <2>4. ContentOK' /\ ScoringOK' /\ OtherOK' BY <1>1, <2>1, Kept
  <2>5. Shape' BY <2>1, LeftOpen DEF Shape, Closed
  <2> QED BY <2>3, <2>4, <2>5, Assemble
<1>3. CASE ~rules.managed
  <2>1. stage' = "nextRound" /\ DropQuestion BY <1>3 DEF MoveEndRound
  <2>2. cells' \in Nat BY <1>1 DEF TypeOK
  <2> QED BY <1>1, <2>1, <2>2, DropStep
<1> QED BY <1>2, <1>3

LEMMA SetOptionsStep == ASSUME IInv, NEW r \in RuleSets, SetOptions(r) PROVE IInv'
<1>1. /\ TypeOK /\ Shape /\ rules' = r
      /\ UNCHANGED <<steering, content, scoring, seats, question, thinkingRemain, cells, paused>>
  BY DEF IInv, SetOptions
<1>2. SteeringOK' BY <1>1, SteeringKept
<1>3. ContentOK' /\ ScoringOK' BY <1>1, Kept
<1>4. OtherOK' BY <1>1, RuleAssumption DEF OtherOK, TypeOK, seats
<1>5. contentDone' = contentDone /\ awaitingMedia' = awaitingMedia BY <1>1 DEF content
<1>6. Shape' BY <1>1, <1>5, ShapeKept
<1> QED BY <1>2, <1>3, <1>4, <1>6, Assemble

\* Leaving, coming back and being kicked.
LEMMA SeatsStep ==
    ASSUME IInv, connected' \subseteq Players, kicked' \subseteq Players,
           UNCHANGED <<scoring, question, thinkingRemain, cells, paused, rules>>,
           PlayerGone \/ UNCHANGED <<steering, content>>
    PROVE  IInv'
<1>1. TypeOK /\ Shape BY DEF IInv
<1>2. OtherOK' BY <1>1 DEF TypeOK, OtherOK
<1>3. ScoringOK' BY <1>1, Kept
<1>4. CASE UNCHANGED <<steering, content>>
  <2>1. contentDone' = contentDone /\ awaitingMedia' = awaitingMedia BY <1>4 DEF content
  <2>2. SteeringOK' /\ ContentOK' BY <1>1, <1>4, SteeringKept, Kept
  <2>3. Shape' BY <1>1, <1>4, <2>1, ShapeKept
  <2> QED BY <1>2, <1>3, <2>2, <2>3, Assemble
<1>5. CASE /\ stage = "question" /\ sub = "content" /\ awaitingMedia
           /\ ContentGroupDone(Stop(Now, {"mediaFallback"}))
  <2>1. {"mediaFallback"} \in SUBSET Kinds BY DEF Kinds, ContentKinds
  <2>2. \A k \in ContentKinds : k \in {"mediaFallback"} \/ timers[k] = "off"
    BY <1>1, <1>5 DEF Shape, ShapeContent, ContentKinds
  <2> QED BY <1>2, <1>5, <2>1, <2>2, NextGroupStep
<1> QED BY <1>4, <1>5 DEF PlayerGone
-----------------------------------------------------------------------------
(* The theorems.                                                           *)

LEMMA NextInv == ASSUME IInv, [Next]_vars PROVE IInv'
<1>1. TypeOK /\ Shape BY DEF IInv
<1>2. CASE TimerStep
  BY <1>2, TickStep, TimeoutContentStep, TimeoutButtonPressingStep, TimeoutAnsweringStep,
     TimeoutShowmanDecisionStep, TimeoutReflectionStep DEF TimerStep
<1>3. CASE PlayerStep
  <2>1. ASSUME NEW a \in AnswerValues, Answer(a) PROVE IInv'
    <3>1. a \in Texts \union Options \union {"-"} BY DEF AnswerValues
    <3> QED BY <2>1, <3>1, AnswerStep
  <2>2. ASSUME NEW p \in Players, ButtonWinner(p) \/ Pass(p) \/ MediaCompleted(p) PROVE IInv'
    BY <2>2, ButtonWinnerStep, PassStep, MediaCompletedStep
  <2> QED BY <1>3, <2>1, <2>2, StartQuestionStep, ButtonNobodyStep, ValidateStep, ValidateCustomStep
      DEF PlayerStep
<1>4. CASE StaffStep
  <2>1. ASSUME NEW p \in Players, PlayerLeft(p) \/ PlayerJoined(p) \/ KickPlayer(p) PROVE IInv'
    <3>0. connected \subseteq Players /\ kicked \subseteq Players BY <1>1 DEF TypeOK
    <3>1. connected' \subseteq Players /\ kicked' \subseteq Players
      BY <2>1, <3>0 DEF PlayerLeft, PlayerJoined, KickPlayer
    <3> QED BY <2>1, <3>1, SeatsStep DEF PlayerLeft, PlayerJoined, KickPlayer
  <2> QED BY <1>4, <2>1, PauseStep, NextStepStep, MoveForwardStep, MoveBackStep, MoveEndRoundStep,
         LeaveRoundStep, SetOptionsStep
      DEF StaffStep
<1>5. CASE UNCHANGED vars
  <2>1. UNCHANGED <<steering, content, scoring, seats, question, thinkingRemain, cells, paused, rules>>
    BY <1>5 DEF vars
  <2>2. SteeringOK' /\ ContentOK' /\ ScoringOK' /\ OtherOK' BY <1>1, <2>1, SteeringKept, Kept
  <2>3. contentDone' = contentDone /\ awaitingMedia' = awaitingMedia BY <2>1 DEF content
  <2>4. Shape' BY <1>1, <2>1, <2>3, ShapeKept
  <2> QED BY <2>2, <2>4, Assemble
<1> QED BY <1>2, <1>3, <1>4, <1>5 DEF Next

\* The invariant the other results rest on.
THEOREM Inductive == Spec => []IInv
BY InitInv, NextInv, PTL DEF Spec

\* Every reachable state is well-typed.
THEOREM TypeCorrect == Spec => []TypeOK
BY Inductive, PTL DEF IInv

\* An open question always has somebody or a timer to drive it on.
THEOREM DrivenAlways == Spec => []Driven
<1>1. IInv => Driven
  <2> SUFFICES ASSUME IInv, stage = "question"
               PROVE  /\ sub # "end"
                      /\ sub = "content" => waitNext \/ \E k \in ContentKinds : timers[k] = Live(paused)
                      /\ sub = "buttonWait" => timers["buttonPressing"] = Live(paused)
                      /\ sub = "answering" => \/ question.kind = "custom"
                                              \/ pending.id # NoPlayer
                                              \/ \E k \in AnswerKinds : timers[k] = Live(paused)
                      /\ sub = "validating" => timers["showmanDecision"] = Live(paused)
                      /\ sub = "reveal" => waitNext \/ timers["reflection"] = Live(paused)
    BY DEF Driven
  <2>1. ContentKinds \subseteq Kinds /\ "buttonPressing" \in Kinds /\ "reflection" \in Kinds BY DEF Kinds
  <2>2. sub = "content" => waitNext \/ \E k \in ContentKinds : timers[k] = Live(paused)
    BY <2>1 DEF IInv, Shape, ShapeContent, OnlyLive
  <2>3. sub = "answering" => \/ question.kind = "custom"
                             \/ pending.id # NoPlayer
                             \/ \E k \in AnswerKinds : timers[k] = Live(paused)
    BY PlayersAssumption DEF IInv, Shape, ShapeAnswering
  <2>4. sub = "buttonWait" => timers["buttonPressing"] = Live(paused)
    BY <2>1 DEF IInv, Shape, ShapeWait, OnlyLive
  <2>5. sub = "reveal" => waitNext \/ timers["reflection"] = Live(paused)
    BY <2>1 DEF IInv, Shape, ShapeReveal, OnlyLive
  <2>6. sub # "end" /\ (sub = "validating" => timers["showmanDecision"] = Live(paused))
    BY DEF IInv, Shape, ShapeValidating
  <2> QED BY <2>2, <2>3, <2>4, <2>5, <2>6
<1> QED BY <1>1, Inductive, PTL

\* Which timer can run depends on the step of the question alone.
LEMMA RunsIn ==
    ASSUME IInv, NEW k \in Kinds, timers[k] = "run"
    PROVE  Expires(k)
<1>1. TypeOK /\ Shape BY DEF IInv
<1>2. CASE stage # "question" BY <1>1, <1>2 DEF Shape, Closed, NoTimers
<1>3. CASE stage = "question"
  <2>1. sub \in {"content", "buttonWait", "answering", "validating", "reveal"}
    BY <1>1, <1>3 DEF TypeOK, Shape
  <2>2. timers[k] \in {"off", "frozen", Live(paused)}
    BY <1>1, <1>3, <2>1 DEF Shape, ShapeContent, ShapeWait, ShapeAnswering, ShapeValidating, ShapeReveal,
                            OnlyLive, HeldBack, Kinds
  <2> QED BY <2>2 DEF Live, Expires
<1> QED BY <1>2, <1>3

\* At most one timer runs, and none in a pause or outside a question.
THEOREM OneClockAlways == Spec => []OneClock
<1>1. IInv => OneClock
  <2> SUFFICES ASSUME IInv PROVE OneClock OBVIOUS
  <2>1. ASSUME NEW k \in Kinds, timers[k] = "run" PROVE ~paused /\ stage = "question"
    BY <2>1, RunsIn, RunningKind
  <2>2. ASSUME NEW j \in Kinds, NEW k \in Kinds, timers[j] = "run", timers[k] = "run" PROVE j = k
    <3>1. Expires(j) /\ Expires(k) BY <2>2, RunsIn
    <3>2. /\ stage = "question" /\ Shape
          /\ \A i \in {j, k} : /\ i \in ContentKinds => sub = "content"
                               /\ i \in AnswerKinds => sub = "answering"
                               /\ i = "showmanDecision" => sub = "validating"
                               /\ i = "reflection" => sub = "reveal"
      BY <2>2, <3>1, RunningKind DEF IInv
    <3>3. CASE sub = "content"
      BY <2>2, <3>2, <3>3 DEF Shape, ShapeContent, OnlyLive, ContentKinds
    <3>4. CASE sub = "answering"
      BY <2>2, <3>2, <3>4 DEF Shape, ShapeAnswering, HeldBack, AnswerKinds, ContentKinds, Kinds
    <3>5. CASE sub \notin {"content", "answering"}
      <4>1. {j, k} \subseteq {"buttonPressing", "showmanDecision", "reflection"} BY <2>2, <3>2, <3>5 DEF Kinds
      <4>2. \A i \in {j, k} : i = "buttonPressing" => sub = "buttonWait"
        BY <2>2, <3>2, <3>5, <4>1 DEF Shape, ShapeValidating, ShapeReveal, HeldBack, OnlyLive, IInv, TypeOK,
                                      ContentKinds
      <4> QED BY <3>2, <4>1, <4>2
    <3> QED BY <3>3, <3>4, <3>5
  <2> QED BY <2>1, <2>2 DEF OneClock
<1> QED BY <1>1, Inductive, PTL

\* A frozen timer belongs to a button answer in progress.
THEOREM FrozenAlways == Spec => []FrozenForAnAnswer
<1>1. IInv => FrozenForAnAnswer
  <2> SUFFICES ASSUME IInv, NEW k \in Kinds, timers[k] = "frozen"
               PROVE  /\ stage = "question" /\ question.kind = "button"
                      /\ sub \in {"answering", "validating"}
                      /\ k \in ContentKinds \/ (k = "buttonPressing" /\ contentDone)
    BY DEF FrozenForAnAnswer
  <2>0. TypeOK /\ Shape /\ Live(paused) # "frozen" BY DEF IInv, Live
  <2>1. stage = "question" BY <2>0 DEF Shape, Closed, NoTimers
  <2>2. sub \in {"answering", "validating"} /\ (ShapeAnswering \/ ShapeValidating)
    BY <2>0, <2>1 DEF Shape, ShapeContent, ShapeWait, ShapeReveal, OnlyLive, TypeOK
  <2>3. k \in ContentKinds \union {"buttonPressing"} /\ HeldBack
    BY <2>0, <2>2 DEF ShapeAnswering, ShapeValidating, Kinds
  <2> QED BY <2>1, <2>2, <2>3 DEF HeldBack
<1> QED BY <1>1, Inductive, PTL

\* The button is open only where a press is expected, or was when MOVE 2 ended
\* the round of a managed game.
THEOREM ArmedAlways == Spec => []ArmedSound
<1>1. IInv => ArmedSound
  BY LeftOpen DEF IInv, TypeOK, ArmedSound, Shape, Closed, ShapeWait
<1> QED BY <1>1, Inductive, PTL

\* An outstanding verdict is about the player who is answering.
THEOREM PendingAlways == Spec => []PendingSound
<1>1. IInv => PendingSound
  <2> SUFFICES ASSUME IInv PROVE PendingSound OBVIOUS
  <2>1. sub = "validating" /\ stage = "question" => pending.id # NoPlayer /\ pending.id = answerer
    BY PlayersAssumption DEF IInv, Shape, ShapeValidating
  <2>2. pending.id # NoPlayer =>
            /\ stage \in {"question", "roundEnd"}
            /\ sub \in {"answering", "validating"} /\ pending.id = answerer
    BY LeftOpen DEF IInv, TypeOK, Shape, Closed
  <2> QED BY <2>1, <2>2 DEF PendingSound
<1> QED BY <1>1, Inductive, PTL
-----------------------------------------------------------------------------
(* What a step may not do.                                                 *)

\* Where the thinking time left is kept.
ThinkingKept ==
    /\ thinkingRemain \in Nat /\ pressLeft \in Nat /\ ThinkingLeft \in Nat
    /\ ThinkingLeft <= thinkingRemain
    /\ sub # "buttonWait" => ThinkingLeft = thinkingRemain
    /\ timers["buttonPressing"] # "off" => ThinkingLeft = pressLeft
    /\ sub = "buttonWait" => timers["buttonPressing"] # "off"

LEMMA ThinkingBound == IInv /\ InPlay => ThinkingKept
<1> SUFFICES ASSUME IInv, InPlay PROVE ThinkingKept OBVIOUS
<1>1. TypeOK /\ Shape /\ stage = "question" /\ sub \in {"content", "buttonWait", "answering", "validating"}
  BY DEF IInv, InPlay
<1>2. thinkingRemain \in Nat /\ pressLeft \in Nat BY <1>1 DEF TypeOK
<1>3. sub = "content" => timers["buttonPressing"] = "off"
  BY <1>1 DEF Shape, ShapeContent, OnlyLive, ContentKinds, Kinds
<1>4. sub = "buttonWait" => timers["buttonPressing"] # "off" /\ pressLeft <= thinkingRemain
  BY <1>1 DEF Shape, ShapeWait
<1>5. sub \in {"answering", "validating"} => timers["buttonPressing"] = "off" \/ pressLeft = thinkingRemain
  BY <1>1 DEF Shape, ShapeAnswering, ShapeValidating, HeldBack
<1> QED BY <1>1, <1>2, <1>3, <1>4, <1>5 DEF ThinkingLeft, ThinkingKept

\* showAnswer ends the play.
LEMMA ShowAnswerOver == ASSUME NEW h, ShowAnswer(h) PROVE ~InPlay'
BY DEF ShowAnswer, EndQuestion, InPlay

\* Which steps leave a question that waits for a press, and how.
LEMMA WaitSteps ==
    ASSUME IInv, [Next]_vars, stage = "question", sub = "buttonWait", InPlay'
    PROVE  /\ pressLeft' \in Nat => pressLeft' <= pressLeft
           /\ timers'["buttonPressing"] # "off"
           /\ paused => pressLeft' = pressLeft
<1>1. TypeOK /\ ShapeWait /\ pressLeft \in Nat /\ timers["buttonPressing"] \in {"run", "held"}
      /\ timers["buttonPressing"] = Live(paused) /\ "buttonPressing" \in Kinds
  <2>1. TypeOK /\ ShapeWait /\ "buttonPressing" \in Kinds BY DEF IInv, Shape, Kinds
  <2> QED BY <2>1 DEF TypeOK, ShapeWait, OnlyLive, Live
<1> SUFFICES \/ pressLeft' = pressLeft /\ timers'["buttonPressing"] # "off"
             \/ Tick /\ pressLeft' <= pressLeft
  BY <1>1 DEF Tick, Live
<1>2. CASE TimerStep
  <2>1. ASSUME NEW k \in ContentKinds \union AnswerKinds \union {"showmanDecision", "reflection"}
        PROVE  ~Expires(k)
    <3>1. k \in Kinds /\ k # "buttonPressing" BY DEF Kinds, ContentKinds, AnswerKinds
    <3> QED BY <1>1, <3>1 DEF ShapeWait, OnlyLive, Expires
  <2>2. Tick \/ TimeoutButtonPressing
    BY <1>2, <2>1 DEF TimerStep, TimeoutContent, TimeoutAnswering, TimeoutShowmanDecision, TimeoutReflection
  <2>3. ~TimeoutButtonPressing BY ShowAnswerOver DEF TimeoutButtonPressing
  <2> QED BY <1>1, <2>2, <2>3 DEF Tick
<1>3. CASE PlayerStep
  <2>1. \/ \E p \in Players : ButtonWinner(p) \/ Pass(p)
        \/ ButtonNobody
    BY <1>1, <1>3 DEF PlayerStep, StartQuestion, MediaCompleted, Answer, Validate, ValidateCustom, ShapeWait
  <2>2. ~ButtonNobody BY ShowAnswerOver DEF ButtonNobody
  <2>3. ASSUME NEW p \in Players, Pass(p) PROVE pressLeft' = pressLeft /\ timers' = timers
    <3> DEFINE h == [Now EXCEPT !.canPress = canPress \ {p}]
               e == [h EXCEPT !.armed = armed /\ AnyCanPress(h.canPress)]
    <3>1. ~ShowAnswer(h) BY ShowAnswerOver
    <3>2. Commit(e) /\ pressLeft' = pressLeft BY <2>3, <3>1 DEF Pass
    <3>3. h \in Carry /\ h.timers = timers BY <1>1, NowFields DEF Carry
    <3> HIDE DEF h
    <3>4. e.timers = timers BY <3>3 DEF Carry
    <3> HIDE DEF e
    <3> QED BY <3>2, <3>4 DEF Commit
  <2>4. ASSUME NEW p \in Players, ButtonWinner(p)
        PROVE  pressLeft' = pressLeft /\ timers'["buttonPressing"] # "off"
    <3>1. IInv' /\ pressLeft' = pressLeft /\ UNCHANGED <<content, question>> BY <2>4, ButtonWinnerStep DEF ButtonWinner
    <3>2. stage' = "question" /\ sub' = "answering" BY <2>4 DEF ButtonWinner, AskAnswer
    <3>3. contentDone' /\ question'.kind = "button" BY <1>1, <3>1 DEF ShapeWait, content
    <3> QED BY <3>1, <3>2, <3>3 DEF IInv, Shape, ShapeAnswering, HeldBack
  <2> QED BY <1>1, <2>1, <2>2, <2>3, <2>4
<1>4. CASE StaffStep
  <2>1. ~MoveForward BY ShowAnswerOver DEF MoveForward
  <2>2. ~MoveBack /\ ~MoveEndRound /\ ~LeaveRound
    BY DEF MoveBack, MoveEndRound, LeaveRound, BeginSelection, InPlay
  <2>3. ~NextStep BY DEF NextStep
  <2>4. ASSUME NEW on \in BOOLEAN, Pause(on)
        PROVE  pressLeft' = pressLeft /\ timers'["buttonPressing"] # "off"
    BY <1>1, <2>4 DEF Pause, HoldAll, ReleaseAll, TypeOK
  <2>5. ASSUME NEW r \in RuleSets, SetOptions(r) PROVE UNCHANGED steering
    BY <2>5 DEF SetOptions
  <2>6. ASSUME NEW p \in Players, PlayerLeft(p) \/ PlayerJoined(p) \/ KickPlayer(p) PROVE UNCHANGED steering
    BY <2>6 DEF PlayerLeft, PlayerJoined, KickPlayer, PlayerGone
  <2>7. UNCHANGED steering => pressLeft' = pressLeft /\ timers' = timers BY DEF steering
  <2> QED BY <1>1, <1>4, <2>1, <2>2, <2>3, <2>4, <2>5, <2>6, <2>7 DEF StaffStep
<1>5. CASE UNCHANGED vars
  BY <1>1, <1>5 DEF vars, steering
<1> QED BY <1>2, <1>3, <1>4, <1>5 DEF Next

\* The saved thinking time changes only when a press stops the timer.
LEMMA RemainSteps ==
    ASSUME IInv, [Next]_vars, InPlay, InPlay'
    PROVE  thinkingRemain' = thinkingRemain \/ sub = "buttonWait"
<1>1. stage = "question" /\ stage' = "question" BY DEF InPlay
<1>2. CASE TimerStep
  BY <1>2 DEF TimerStep, Tick, TimeoutContent, TimeoutButtonPressing, TimeoutAnswering,
              TimeoutShowmanDecision, TimeoutReflection
<1>3. CASE PlayerStep
  BY <1>1, <1>3 DEF PlayerStep, StartQuestion, ButtonWinner, Pass, MediaCompleted, ButtonNobody, Answer,
                    Validate, ValidateCustom
<1>4. CASE StaffStep
  <2>1. ~MoveBack /\ ~MoveEndRound /\ ~LeaveRound
    BY DEF MoveBack, MoveEndRound, LeaveRound, BeginSelection, InPlay
  <2> QED BY <1>4, <2>1 DEF StaffStep, Pause, NextStep, MoveForward, SetOptions, PlayerLeft, PlayerJoined, KickPlayer
<1>5. CASE UNCHANGED vars BY <1>5 DEF vars
<1> QED BY <1>2, <1>3, <1>4, <1>5 DEF Next

\* The thinking time never grows back: a saved remainder is what the timer
\* resumes from, and only pressing and time passing change either.
THEOREM ThinkingNeverRefillsAlways == Spec => ThinkingNeverRefills
<1>1. ASSUME IInv, IInv', [Next]_vars, InPlay, InPlay', ThinkingKept, ThinkingKept'
      PROVE  ThinkingLeft' <= ThinkingLeft
  <2>1. CASE sub = "buttonWait"
    <3>1. pressLeft' <= pressLeft /\ timers'["buttonPressing"] # "off"
      BY <1>1, <2>1, WaitSteps DEF InPlay, ThinkingKept
    <3> QED BY <1>1, <2>1, <3>1 DEF ThinkingKept
  <2>2. CASE sub # "buttonWait"
    <3>1. thinkingRemain' = thinkingRemain BY <1>1, <2>2, RemainSteps
    <3> QED BY <1>1, <2>2, <3>1 DEF ThinkingKept
  <2> QED BY <2>1, <2>2
<1>2. IInv /\ InPlay => ThinkingKept BY ThinkingBound
<1>3. IInv /\ IInv' /\ [Next]_vars /\ (InPlay => ThinkingKept) /\ (InPlay => ThinkingKept)'
          => [InPlay /\ InPlay' => ThinkingLeft' <= ThinkingLeft]_vars
  BY <1>1
<1> QED BY <1>2, <1>3, Inductive, PTL DEF Spec, ThinkingNeverRefills

\* The pauses of the showman stop the scoring and the thinking time.
THEOREM PauseIsStillAlways == Spec => PauseIsStill
<1>1. ASSUME IInv, IInv', [Next]_vars, paused, (InPlay => ThinkingKept), (InPlay => ThinkingKept)'
      PROVE  /\ Len(history') <= Len(history)
             /\ InPlay /\ InPlay' /\ contentDone => ThinkingLeft' = ThinkingLeft
  <2>1. Len(history) \in Nat
    <3>1. history \in Seq([person : Players, verdict : Verdicts, answer : Texts \union Options \union {"", "-"}])
      BY <1>1 DEF IInv, TypeOK
    <3> QED BY <3>1, LenProperties
  <2>2. PlayerStep => \E q \in Questions : StartQuestion(q)
    BY <1>1 DEF PlayerStep, ButtonWinner, ButtonNobody, Pass, MediaCompleted, Answer,
                Validate, ValidateCustom
  <2>3. ASSUME NEW k \in Kinds PROVE timers[k] # "run"
    BY <1>1, <2>3, RunsIn DEF Expires
  <2>4. ~TimerStep
    BY <2>3 DEF TimerStep, Tick, TimeoutContent, TimeoutButtonPressing, TimeoutAnswering,
                TimeoutShowmanDecision, TimeoutReflection, Expires, Kinds, ContentKinds, AnswerKinds
  <2>5. (\E q \in Questions : StartQuestion(q)) \/ StaffStep \/ UNCHANGED vars
    BY <1>1, <2>2, <2>4 DEF Next
  <2>6. history' = history \/ history' = <<>>
    BY <2>5 DEF StartQuestion, StaffStep, Pause, NextStep, MoveForward, MoveBack, MoveEndRound, LeaveRound,
                DropQuestion, SetOptions, PlayerLeft, PlayerJoined, KickPlayer, vars, scoring
  <2>7. ASSUME InPlay, InPlay', contentDone PROVE ThinkingLeft' = ThinkingLeft
    <3>1. CASE sub = "buttonWait"
      <4>1. pressLeft' = pressLeft /\ timers'["buttonPressing"] # "off"
        BY <1>1, <2>7, <3>1, WaitSteps DEF InPlay
      <4> QED BY <1>1, <2>7, <3>1, <4>1 DEF ThinkingKept
    <3>2. CASE sub # "buttonWait"
      <4>1. sub # "content" BY <1>1, <2>7 DEF IInv, Shape, ShapeContent, InPlay
      <4>2. sub' = sub
        <5>1. ~MoveBack /\ ~MoveEndRound /\ ~LeaveRound
          BY <2>7 DEF MoveBack, MoveEndRound, LeaveRound, BeginSelection, InPlay
        <5>2. ~MoveForward /\ ~NextStep
          BY <2>7, <4>1, ShowAnswerOver DEF MoveForward, NextStep, InPlay, EndQuestion
        <5>3. \A q \in Questions : ~StartQuestion(q) BY <2>7 DEF StartQuestion, InPlay
        <5> QED BY <2>5, <4>1, <5>1, <5>2, <5>3
            DEF StaffStep, Pause, SetOptions, PlayerLeft, PlayerJoined, KickPlayer, PlayerGone, steering, vars
      <4>3. thinkingRemain' = thinkingRemain BY <1>1, <2>7, <3>2, RemainSteps
      <4> QED BY <1>1, <2>7, <3>2, <4>2, <4>3 DEF ThinkingKept
    <3> QED BY <3>1, <3>2
  <2>8. Len(history') <= Len(history) BY <2>1, <2>6
  <2> QED BY <2>7, <2>8
<1>2. IInv /\ InPlay => ThinkingKept BY ThinkingBound
<1>3. IInv /\ IInv' /\ [Next]_vars /\ (InPlay => ThinkingKept) /\ (InPlay => ThinkingKept)'
          => [paused => /\ Len(history') <= Len(history)
                        /\ InPlay /\ InPlay' /\ contentDone => ThinkingLeft' = ThinkingLeft]_vars
  BY <1>1
<1> QED BY <1>2, <1>3, Inductive, PTL DEF Spec, PauseIsStill
-----------------------------------------------------------------------------
(* One attempt each.                                                       *)

Scored(p) == \E i \in DOMAIN history : history[i].person = p

\* Who answers a button question has not been scored and may not press.
Attempts ==
    question.kind = "button" =>
        /\ OneAttemptEach
        /\ stage = "question" /\ sub \in {"answering", "validating"} =>
               answerer \notin canPress /\ ~Scored(answerer)

\* The helpers that go on without an answer let nobody new press.
LEMMA ShowAnswerShuts ==
    ASSUME TypeOK, NEW h \in Carry, ShowAnswer(h)
    PROVE  sub' \in {"reveal", "end"} /\ canPress' \subseteq h.canPress
<1> DEFINE r == [h EXCEPT !.armed = FALSE, !.pending = NoPending, !.timers = NoTimers]
<1>1. r \in Carry /\ r.canPress = h.canPress
  BY DEF Carry, NoPending, NoTimers, Persons, Answers, TimerStatus
<1>2. CASE ~rules.managed /\ ReflectionTime = 0
  <2>1. EndQuestion(r) BY <1>2 DEF ShowAnswer
  <2> HIDE DEF r
  <2>2. sub' = "end" /\ canPress' = {} BY <1>1, <2>1 DEF EndQuestion, Commit, Carry
  <2> QED BY <2>2
<1>3. CASE ~(~rules.managed /\ ReflectionTime = 0)
  <2>1. sub' = "reveal" /\ Commit(IF rules.managed THEN [r EXCEPT !.waitNext = TRUE]
                                                  ELSE Start(r, "reflection"))
    BY <1>3 DEF ShowAnswer
  <2> HIDE DEF r
  <2>2. Start(r, "reflection").canPress = r.canPress
    BY <1>1, StartFields DEF TypeOK, Kinds
  <2>3. [r EXCEPT !.waitNext = TRUE].canPress = r.canPress BY <1>1 DEF Carry
  <2> QED BY <1>1, <2>1, <2>2, <2>3 DEF Commit
<1> QED BY <1>2, <1>3

\* Arming the button leaves canPress as it is,
LEMMA ArmButtonShuts ==
    ASSUME TypeOK, NEW h \in Carry, ArmButton(h)
    PROVE  sub' = "buttonWait" /\ canPress' = h.canPress
<1> DEFINE r == [h EXCEPT !.armed = TRUE]
<1>1. r \in Carry /\ r.canPress = h.canPress BY DEF Carry
<1>2. ThinkAgain(r) /\ sub' = "buttonWait" BY DEF ArmButton
<1> HIDE DEF r
<1>3. Start(r, "buttonPressing").canPress = r.canPress
  BY <1>1, StartFields DEF TypeOK, Kinds
<1>4. [r EXCEPT !.timers = ResumeKinds(r.timers, {"buttonPressing"})].canPress = r.canPress
  BY <1>1 DEF Carry
<1> QED BY <1>1, <1>2, <1>3, <1>4 DEF ThinkAgain, Commit

\* as the end of the content does,
LEMMA ContentFinishedShuts ==
    ASSUME TypeOK, NEW q, q.kind = "button", NEW h \in Carry, ContentFinished(q, h)
    PROVE  sub' \notin {"answering", "validating"} /\ canPress' \subseteq h.canPress
<1>1. CASE ~AnyCanPress(h.canPress) BY <1>1, ShowAnswerShuts DEF ContentFinished
<1>2. CASE AnyCanPress(h.canPress) /\ ~h.armed BY <1>2, ArmButtonShuts DEF ContentFinished
<1>3. CASE AnyCanPress(h.canPress) /\ h.armed
  <2>1. Commit(Start(h, "buttonPressing")) /\ sub' = "buttonWait" BY <1>3 DEF ContentFinished
  <2>2. Start(h, "buttonPressing").canPress = h.canPress BY StartFields DEF TypeOK, Kinds
  <2> QED BY <2>1, <2>2 DEF Commit
<1> QED BY <1>1, <1>2, <1>3

\* the next content group, whatever its kind,
LEMMA ShowGroupShuts ==
    ASSUME TypeOK, NEW q \in Questions, q.kind = "button", NEW c \in Nat \ {0}, NEW h \in Carry,
           ShowGroup(q, c, h)
    PROVE  sub' \notin {"answering", "validating"} /\ canPress' \subseteq h.canPress
<1>1. CASE c > Len(q.groups) BY <1>1, ContentFinishedShuts DEF ShowGroup
<1>2. CASE ~(c > Len(q.groups))
  <2>1. q.groups[c] \in GroupKinds
    BY <1>2, QuestionsAssumption, LenProperties, ElementOfSeq
  <2>2. /\ sub' = "content"
        /\ Commit(CASE rules.managed \/ q.groups[c] = "manual" -> [h EXCEPT !.waitNext = TRUE]
                    [] ~rules.managed /\ q.groups[c] = "media" -> Start(h, "mediaFallback")
                    [] ~rules.managed /\ q.groups[c] = "timed" -> Start(h, "content"))
    BY <1>2 DEF ShowGroup
  <2>3. Commit([h EXCEPT !.waitNext = TRUE]) \/ Commit(Start(h, "mediaFallback")) \/ Commit(Start(h, "content"))
    BY <2>1, <2>2 DEF GroupKinds
  <2>4. [h EXCEPT !.waitNext = TRUE].canPress = h.canPress BY DEF Carry
  <2>5. \A k \in ContentKinds : Start(h, k).canPress = h.canPress
    BY StartFields DEF TypeOK, Kinds, ContentKinds
  <2> QED BY <2>2, <2>3, <2>4, <2>5 DEF Commit, ContentKinds
<1> QED BY <1>1, <1>2

\* the end of a group,
LEMMA ContentGroupDoneShuts ==
    ASSUME TypeOK, question \in Questions, question.kind = "button", NEW h \in Carry, ContentGroupDone(h)
    PROVE  sub' \notin {"answering", "validating"} /\ canPress' \subseteq h.canPress
<1> DEFINE r == [h EXCEPT !.waitNext = FALSE]
<1>1. r \in Carry /\ r.canPress = h.canPress BY DEF Carry
<1>2. ShowGroup(question, cursor + 1, r) BY DEF ContentGroupDone
<1>3. cursor \in Nat BY DEF TypeOK
<1>4. cursor + 1 \in Nat \ {0} BY <1>3
<1> HIDE DEF r
<1> QED BY <1>1, <1>2, <1>4, ShowGroupShuts

\* and the button armed anew after a wrong answer.
LEMMA RearmShuts ==
    ASSUME TypeOK, question \in Questions, question.kind = "button", NEW h \in Carry, Rearm(h)
    PROVE  sub' \notin {"answering", "validating"} /\ canPress' \subseteq h.canPress
<1> DEFINE r == [h EXCEPT !.armed = TRUE, !.timers = ResumeKinds(h.timers, ContentKinds)]
<1>1. ResumeKinds(h.timers, ContentKinds) \in [Kinds -> TimerStatus]
  BY DEF ResumeKinds, Carry, TimerStatus
<1>2. r \in Carry /\ r.canPress = h.canPress BY <1>1 DEF Carry
<1>3. \/ ArmButton(h)
      \/ sub' = "content" /\ Commit(r)
      \/ ContentGroupDone(r)
  BY DEF Rearm
<1> HIDE DEF r
<1> QED BY <1>2, <1>3, ArmButtonShuts, ContentGroupDoneShuts DEF Commit
\* A step that scores nobody and lets nobody new press.
LEMMA AttemptsStand ==
    ASSUME Attempts, UNCHANGED <<question, history>>, canPress' \subseteq canPress,
           \/ stage' # "question" \/ sub' \notin {"answering", "validating"}
           \/ UNCHANGED <<stage, answerer>> /\ sub \in {"answering", "validating"}
    PROVE  Attempts'
BY DEF Attempts, OneAttemptEach, Scored

\* A step on a question without the button.
LEMMA NotTheButton == question'.kind # "button" => Attempts'
BY DEF Attempts

\* The verdict on the player who answers: scored once, and not asked again.
LEMMA VerdictAttempts ==
    ASSUME IInv, Attempts, stage = "question", sub \in {"answering", "validating"},
           question.kind = "button", NEW v \in Verdicts, NEW a, NEW K \in SUBSET Kinds,
           ApplyVerdict(answerer, a, v, Stop(Now, K)), question' = question
    PROVE  Attempts'
<1> DEFINE p == answerer
           h0 == Stop(Now, K)
           h == [h0 EXCEPT !.pending = NoPending]
           r == [h EXCEPT !.canPress = h.canPress \ {p}]
           o == [person |-> p, answer |-> a, verdict |-> v]
<1>1. TypeOK /\ question \in Questions BY DEF IInv, Shape
<1>2. h0 \in Carry /\ h0.canPress = canPress BY <1>1, NowFields, StopFields
<1>3. /\ ApplyOutcome(p, a, v)
      /\ ShowAnswer(h) \/ ShowAnswer(r) \/ Rearm(r)
  BY DEF ApplyVerdict
<1> HIDE DEF h0
<1>4. h \in Carry /\ h.canPress = canPress BY <1>2 DEF Carry, NoPending, Persons, Answers
<1> HIDE DEF h
<1>5. r \in Carry /\ r.canPress \subseteq canPress BY <1>4 DEF Carry
<1> HIDE DEF r
<1>6. sub' \notin {"answering", "validating"} /\ canPress' \subseteq canPress
  BY <1>1, <1>3, <1>4, <1>5, ShowAnswerShuts, RearmShuts
<1>7. p \notin canPress /\ \A i \in DOMAIN history : history[i].person # p
  BY DEF Attempts, Scored
<1>8. /\ \A i, j \in DOMAIN history : history[i].person = history[j].person => i = j
      /\ \A i \in DOMAIN history : history[i].person \notin canPress
  BY DEF Attempts, OneAttemptEach
<1>9. /\ Len(history) \in Nat /\ DOMAIN history = 1 .. Len(history)
      /\ DOMAIN history' = 1 .. (Len(history) + 1)
      /\ \A i \in 1 .. Len(history) : history'[i] = history[i]
      /\ history'[Len(history) + 1] = o
  <2> DEFINE Outcomes == [person : Players, verdict : Verdicts, answer : Texts \union Options \union {"", "-"}]
  <2>1. history \in Seq(Outcomes) BY <1>1 DEF TypeOK
  <2>2. history' = Append(history, o) BY <1>3 DEF ApplyOutcome
  <2> HIDE DEF o, Outcomes
  <2> DEFINE T == Outcomes \union {o}
  <2>3. history \in Seq(T) /\ o \in T
    <3>1. Outcomes \subseteq T OBVIOUS
    <3> QED BY <2>1, <3>1, SeqMonotonic
  <2> HIDE DEF T
  <2>4. /\ history' \in Seq(T) /\ Len(history') = Len(history) + 1
        /\ \A i \in 1 .. Len(history) : history'[i] = history[i]
        /\ history'[Len(history) + 1] = o
    BY <2>2, <2>3, AppendProperties
  <2>5. Len(history) \in Nat /\ DOMAIN history = 1 .. Len(history) BY <2>3, LenProperties
  <2>6. DOMAIN history' = 1 .. Len(history') BY <2>4, LenProperties
  <2> QED BY <2>4, <2>5, <2>6
<1>10. \A i \in DOMAIN history' : (i \in DOMAIN history /\ history'[i] = history[i])
                                 \/ (i = Len(history) + 1 /\ history'[i].person = p)
  BY <1>9
<1>11. Attempts' <=> (question'.kind = "button" =>
          /\ \A i, j \in DOMAIN history' : history'[i].person = history'[j].person => i = j
          /\ \A i \in DOMAIN history' : history'[i].person \notin canPress'
          /\ stage' = "question" /\ sub' \in {"answering", "validating"} =>
                answerer' \notin canPress' /\ ~Scored(answerer)')
  BY DEF Attempts, OneAttemptEach
<1>12. \A i, j \in DOMAIN history' : history'[i].person = history'[j].person => i = j
  BY <1>7, <1>8, <1>10
<1>13. \A i \in DOMAIN history' : history'[i].person \notin canPress' BY <1>6, <1>7, <1>8, <1>10
<1> QED BY <1>6, <1>11, <1>12, <1>13

\* The end of a content group, with some timers stopped first.
LEMMA StoppedShuts ==
    ASSUME IInv, Attempts, UNCHANGED <<question, history>>, question \in Questions,
           NEW K \in SUBSET Kinds, ContentGroupDone(Stop(Now, K))
    PROVE  Attempts'
<1>1. Stop(Now, K) \in Carry /\ Stop(Now, K).canPress = canPress BY NowFields, StopFields DEF IInv
<1>2. question.kind = "button" => sub' \notin {"answering", "validating"} /\ canPress' \subseteq canPress
  BY <1>1, ContentGroupDoneShuts DEF IInv
<1> QED BY <1>2, AttemptsStand, NotTheButton

\* The end of the play or of the question.
LEMMA NowShuts ==
    ASSUME IInv, Attempts, UNCHANGED <<question, history>>, ShowAnswer(Now) \/ EndQuestion(Now)
    PROVE  Attempts'
<1>1. TypeOK /\ Now \in Carry /\ Now.canPress = canPress BY NowFields DEF IInv
<1>2. CASE ShowAnswer(Now) BY <1>1, <1>2, ShowAnswerShuts, AttemptsStand
<1>3. CASE EndQuestion(Now)
  <2>1. sub' = "end" /\ canPress' = {} BY <1>1, <1>3 DEF EndQuestion, Commit, Carry
  <2> QED BY <2>1, AttemptsStand
<1> QED BY <1>2, <1>3

\* The steps of the timers,
LEMMA TimerAttempts ==
    ASSUME IInv, Attempts, TimerStep
    PROVE  Attempts'
<1>1. TypeOK /\ Shape BY DEF IInv
<1>2. CASE Tick BY <1>2, AttemptsStand DEF Tick, scoring
<1>3. ASSUME NEW k \in ContentKinds, TimeoutContent(k)
      PROVE  Attempts'
  <2>1. UNCHANGED <<question, history>> BY <1>3 DEF TimeoutContent, scoring
  <2>2. CASE stage # "question" \/ sub # "content" BY <1>3, <2>1, <2>2, AttemptsStand DEF TimeoutContent
  <2>3. CASE ~(stage # "question" \/ sub # "content")
    <3>1. question \in Questions BY <1>1, <2>3 DEF Shape
    <3>2. {k} \in SUBSET Kinds BY DEF Kinds
    <3> QED BY <1>3, <2>1, <2>3, <3>1, <3>2, StoppedShuts DEF TimeoutContent
  <2> QED BY <2>2, <2>3
<1>4. CASE TimeoutButtonPressing BY <1>4, NowShuts DEF TimeoutButtonPressing, scoring
<1>5. ASSUME NEW k \in AnswerKinds, TimeoutAnswering(k)
      PROVE  Attempts'
  <2>1. question' = question /\ k \in Kinds /\ {k} \in SUBSET Kinds
    BY <1>5 DEF TimeoutAnswering, Kinds
  <2>2. CASE sub # "answering" \/ pending.id # NoPlayer
    BY <1>5, <2>2, AttemptsStand DEF TimeoutAnswering, scoring
  <2>3. CASE ~(sub # "answering" \/ pending.id # NoPlayer)
    <3>1. stage = "question"
      BY <1>1, <1>5, <2>1 DEF Shape, Closed, NoTimers, TimeoutAnswering, Expires
    <3>2. ApplyVerdict(answerer, "-", "wrong", Stop(Now, {k})) BY <1>5, <2>3 DEF TimeoutAnswering
    <3>3. "wrong" \in Verdicts BY DEF Verdicts
    <3> QED BY <2>1, <2>3, <3>1, <3>2, <3>3, VerdictAttempts, NotTheButton
  <2> QED BY <2>2, <2>3
<1>6. ASSUME NEW v \in Verdicts, TimeoutShowmanDecision(v)
      PROVE  Attempts'
  <2> DEFINE K == AnswerKinds \union {"showmanDecision"}
  <2>1. question' = question /\ K \in SUBSET Kinds BY <1>6 DEF TimeoutShowmanDecision, Kinds
  <2>2. CASE sub # "validating" \/ pending.id = NoPlayer
    BY <1>6, <2>2, AttemptsStand DEF TimeoutShowmanDecision, scoring
  <2>3. CASE ~(sub # "validating" \/ pending.id = NoPlayer)
    <3>1. stage = "question"
      BY <1>1, <1>6 DEF Shape, Closed, NoTimers, TimeoutShowmanDecision, Expires, Kinds
    <3>2. pending.id = answerer BY <1>1, <2>3, <3>1 DEF Shape, ShapeValidating
    <3>3. ApplyVerdict(answerer, pending.answer, v, Stop(Now, K))
      BY <1>6, <2>3, <3>2 DEF TimeoutShowmanDecision
    <3> QED BY <2>1, <2>3, <3>1, <3>3, VerdictAttempts, NotTheButton
  <2> QED BY <2>2, <2>3
<1>7. CASE TimeoutReflection BY <1>7, NowShuts DEF TimeoutReflection, scoring
<1> QED BY <1>2, <1>3, <1>4, <1>5, <1>6, <1>7 DEF TimerStep

\* of the players and the judge,
LEMMA PlayerAttempts ==
    ASSUME IInv, Attempts, PlayerStep
    PROVE  Attempts'
<1>1. TypeOK /\ Shape BY DEF IInv
<1>2. ASSUME NEW q \in Questions, StartQuestion(q), q.kind = "button"
      PROVE  Attempts'
  <2> DEFINE h == [armed |-> q.kind = "button" /\ ~rules.falseStart,
                   canPress |-> IF q.kind = "button" THEN Active ELSE {},
                   answerer |-> NoPlayer, pending |-> NoPending, waitNext |-> FALSE, timers |-> NoTimers]
  <2>1. ShowGroup(q, 1, h) BY <1>2 DEF StartQuestion
  <2>2. h \in Carry
    BY <1>1 DEF Carry, TypeOK, Active, Persons, Answers, NoPending, NoTimers, TimerStatus
  <2> HIDE DEF h
  <2>3. sub' \notin {"answering", "validating"} BY <1>1, <1>2, <2>1, <2>2, ShowGroupShuts
  <2>4. history' = <<>> BY <1>2 DEF StartQuestion
  <2> QED BY <2>3, <2>4 DEF Attempts, OneAttemptEach
<1>3. ASSUME NEW p \in Players, ButtonWinner(p)
      PROVE  Attempts'
  <2> DEFINE frozen == IF sub = "content" THEN ContentKinds
                       ELSE IF sub = "buttonWait" THEN {"buttonPressing"} ELSE {}
             h == [Now EXCEPT !.armed = FALSE, !.canPress = canPress \ {p},
                              !.timers = FreezeKinds(timers, frozen)]
             g == [h EXCEPT !.answerer = p]
             r == Start(g, "answering")
  <2>1. UNCHANGED <<question, history>> /\ p \in canPress /\ question.kind = "button"
    BY <1>3 DEF ButtonWinner, scoring
  <2>2. AskAnswer(question, h, p, "answering") BY <1>3 DEF ButtonWinner
  <2>3. Now \in Carry /\ FreezeKinds(timers, frozen) \in [Kinds -> TimerStatus]
    BY <1>1, NowFields DEF FreezeKinds, TypeOK, TimerStatus
  <2> HIDE DEF frozen
  <2>4. h \in Carry /\ h.canPress = canPress \ {p} BY <1>1, <2>3 DEF Carry, TypeOK
  <2> HIDE DEF h
  <2>5. g \in Carry /\ g.canPress = canPress \ {p} /\ g.answerer = p BY <2>4 DEF Carry, Persons
  <2>6. sub' = "answering" /\ (Commit(r) \/ Commit([r EXCEPT !.pending = [id |-> p, answer |-> ""]]))
    BY <2>2 DEF AskAnswer
  <2> HIDE DEF g
  <2>7. r \in Carry /\ r.canPress = canPress \ {p} /\ r.answerer = p
    <3>1. paused \in BOOLEAN /\ "answering" \in Kinds BY <1>1 DEF TypeOK, Kinds, AnswerKinds
    <3> QED BY <2>5, <3>1, StartFields
  <2> HIDE DEF r
  <2>8. canPress' = canPress \ {p} /\ answerer' = p BY <2>6, <2>7 DEF Commit, Carry
  <2>9. OneAttemptEach /\ ~Scored(p) BY <2>1 DEF Attempts, OneAttemptEach, Scored
  <2> QED BY <2>1, <2>8, <2>9 DEF Attempts, OneAttemptEach, Scored
<1>4. ASSUME NEW p \in Players, Pass(p)
      PROVE  Attempts'
  <2> DEFINE h == [Now EXCEPT !.canPress = canPress \ {p}]
             e == [h EXCEPT !.armed = armed /\ AnyCanPress(h.canPress)]
  <2>1. UNCHANGED <<question, history>> /\ sub \in {"content", "buttonWait"} BY <1>4 DEF Pass, scoring
  <2>2. ShowAnswer(h) \/ (Commit(e) /\ UNCHANGED <<stage, sub>>) BY <1>4 DEF Pass
  <2>3. Now \in Carry BY <1>1, NowFields
  <2>4. h \in Carry /\ h.canPress \subseteq canPress BY <1>1, <2>3 DEF Carry, TypeOK
  <2> HIDE DEF h
  <2>5. e.canPress = h.canPress BY <2>4 DEF Carry
  <2>6. CASE ShowAnswer(h) BY <1>1, <2>1, <2>4, <2>6, ShowAnswerShuts, AttemptsStand
  <2>7. CASE Commit(e) /\ UNCHANGED <<stage, sub>>
    <3>1. canPress' \subseteq canPress BY <2>4, <2>5, <2>7 DEF Commit
    <3> QED BY <2>1, <2>7, <3>1, AttemptsStand
  <2> QED BY <2>2, <2>6, <2>7
<1>5. ASSUME NEW p \in Players, MediaCompleted(p)
      PROVE  Attempts'
  <2>1. UNCHANGED <<question, history>> /\ question \in Questions /\ {"mediaFallback"} \in SUBSET Kinds
    BY <1>1, <1>5 DEF MediaCompleted, scoring, Shape, Kinds, ContentKinds
  <2>2. CASE UNCHANGED steering BY <2>1, <2>2, <1>5, AttemptsStand DEF steering, MediaCompleted
  <2> QED BY <1>5, <2>1, <2>2, StoppedShuts DEF MediaCompleted
<1>6. CASE ButtonNobody BY <1>6, NowShuts DEF ButtonNobody, scoring
<1>7. ASSUME NEW a \in AnswerValues, Answer(a)
      PROVE  Attempts'
  <2>1. stage = "question" /\ sub = "answering" /\ question' = question /\ AnswerKinds \in SUBSET Kinds
    BY <1>7 DEF Answer, Kinds
  <2>2. CASE AskValidate(a, Stop(Now, AnswerKinds))
    <3> DEFINE h == Stop(Now, AnswerKinds)
               g == [h EXCEPT !.pending = [id |-> answerer, answer |-> a]]
               e == [g EXCEPT !.timers = StartTimer(g.timers, "showmanDecision", paused)]
    <3>1. Commit(e) /\ UNCHANGED <<stage, history>> /\ sub' = "validating"
      BY <2>2 DEF AskValidate, scoring, Start
    <3>2. h \in Carry /\ h.canPress = canPress /\ h.answerer = answerer
      BY <1>1, <2>1, NowFields, StopFields
    <3> HIDE DEF h
    <3>3. e.canPress = canPress /\ e.answerer = answerer BY <3>2 DEF Carry
    <3> HIDE DEF e
    <3>4. canPress' = canPress /\ answerer' = answerer BY <3>1, <3>3 DEF Commit
    <3> QED BY <2>1, <3>1, <3>4, AttemptsStand
  <2>3. CASE \E v \in AutoVerdicts(a) : ApplyVerdict(answerer, a, v, Stop(Now, AnswerKinds))
    <3>1. question \in Questions BY <1>1, <2>1 DEF Shape
    <3>2. AutoVerdicts(a) \subseteq Verdicts
      BY <3>1, QuestionsAssumption DEF AutoVerdicts, Verdicts, AnswerTypes
    <3> QED BY <2>1, <2>3, <3>2, VerdictAttempts, NotTheButton
  <2> QED BY <1>7, <2>2, <2>3 DEF Answer
<1>8. ASSUME NEW v \in Verdicts, Validate(v)
      PROVE  Attempts'
  <2> DEFINE K == AnswerKinds \union {"showmanDecision"}
  <2>1. /\ stage = "question" /\ sub \in {"validating", "answering"} /\ pending.id # NoPlayer
        /\ question.kind # "custom" /\ question' = question
        /\ ApplyVerdict(pending.id, pending.answer, v, Stop(Now, K))
    BY <1>8 DEF Validate
  <2>2. pending.id = answerer BY <1>1, <2>1 DEF Shape, ShapeAnswering, ShapeValidating
  <2>3. K \in SUBSET Kinds BY DEF Kinds
  <2> QED BY <2>1, <2>2, <2>3, VerdictAttempts, NotTheButton
<1>9. ASSUME NEW p \in Players, NEW a \in Texts, NEW v \in Verdicts, ValidateCustom(p, a, v)
      PROVE  Attempts'
  BY <1>9, NotTheButton DEF ValidateCustom
<1>10. ASSUME NEW q \in Questions, StartQuestion(q) PROVE Attempts'
  <2>1. question' = q BY <1>10 DEF StartQuestion
  <2> QED BY <1>2, <1>10, <2>1, NotTheButton
<1> QED BY <1>3, <1>4, <1>5, <1>6, <1>7, <1>8, <1>9, <1>10 DEF PlayerStep

\* and of the showman and the host.
LEMMA StaffAttempts ==
    ASSUME IInv, Attempts, StaffStep
    PROVE  Attempts'
<1>1. TypeOK /\ Shape BY DEF IInv
<1>2. CASE \E on \in BOOLEAN : Pause(on) BY <1>2, AttemptsStand DEF Pause, scoring
<1>3. CASE NextStep
  <2>1. stage = "question" /\ UNCHANGED <<question, history>> /\ ContentKinds \in SUBSET Kinds
    BY <1>3 DEF NextStep, scoring, Kinds
  <2>2. question \in Questions BY <1>1, <2>1 DEF Shape
  <2>3. ContentGroupDone(Stop(Now, ContentKinds)) \/ EndQuestion(Now) \/ ShowAnswer(Now)
    BY <1>3 DEF NextStep
  <2> QED BY <2>1, <2>2, <2>3, StoppedShuts, NowShuts
<1>4. CASE MoveForward BY <1>4, NowShuts DEF MoveForward, scoring
<1>5. CASE MoveBack \/ MoveEndRound \/ LeaveRound
  <2>1. CASE DropQuestion
    <3>1. question'.kind # "button" BY <2>1 DEF DropQuestion, NoQuestion
    <3> QED BY <3>1, NotTheButton
  <2>2. CASE stage' # "question" /\ UNCHANGED <<canPress, question, history>>
    BY <2>2, AttemptsStand
  <2> QED BY <1>5, <2>1, <2>2 DEF MoveBack, MoveEndRound, LeaveRound, scoring
<1>6. CASE \E r \in RuleSets : SetOptions(r) BY <1>6, AttemptsStand DEF SetOptions, steering, scoring
<1>7. ASSUME NEW p \in Players, PlayerLeft(p) \/ PlayerJoined(p) \/ KickPlayer(p)
      PROVE  Attempts'
  <2>1. UNCHANGED <<question, history>> BY <1>7 DEF PlayerLeft, PlayerJoined, KickPlayer, scoring
  <2>2. CASE UNCHANGED steering BY <2>1, <2>2, AttemptsStand DEF steering
  <2>3. CASE stage = "question" /\ ContentGroupDone(Stop(Now, {"mediaFallback"}))
    <3>1. question \in Questions /\ {"mediaFallback"} \in SUBSET Kinds
      BY <1>1, <2>3 DEF Shape, Kinds, ContentKinds
    <3> QED BY <2>1, <2>3, <3>1, StoppedShuts
  <2> QED BY <1>7, <2>2, <2>3 DEF PlayerLeft, PlayerJoined, KickPlayer, PlayerGone
<1> QED BY <1>2, <1>3, <1>4, <1>5, <1>6, <1>7 DEF StaffStep

\* Nobody gets a second attempt at a button question.  Inductive with the
\* player who is answering: taken out of canPress, and not scored before.
THEOREM OneAttemptAlways == Spec => []OneAttemptEach
<1>1. Init => Attempts BY DEF Init, Attempts, NoQuestion
<1>2. ASSUME IInv, Attempts, [Next]_vars
      PROVE  Attempts'
  <2>1. CASE UNCHANGED vars BY <1>2, <2>1, AttemptsStand DEF vars, steering, scoring
  <2> QED BY <1>2, <2>1, TimerAttempts, PlayerAttempts, StaffAttempts DEF Next
<1>3. Attempts => OneAttemptEach BY DEF Attempts, OneAttemptEach
<1> QED BY <1>1, <1>2, <1>3, Inductive, PTL DEF Spec
=============================================================================
