-------------------------- MODULE JudgeFlowProofs ---------------------------
(***************************************************************************)
(* What is proved of the automatic judge (JudgeFlow), for every number of  *)
(* players, answers and questions, every setup and every size of the       *)
(* cache: the types, that a confirmation is for the answer that waits,     *)
(* that a judgement costs at most four requests, and that an early verdict *)
(* of the showman stands.                                                  *)
(***************************************************************************)
EXTENDS JudgeFlow, FiniteSetTheorems, SequenceTheorems, WellFoundedInduction, TLAPS

\* The phases of a question and what waits in them.
Shape(g) ==
    /\ g.question = None <=> g.sub = "none"
    /\ g.sub = "none" => \A p \in Players : g.pre[p].by = None
    /\ g.sub = "answering" => g.answerer \in Players
    /\ IF g.sub = "validating"
       THEN g.pending.person \in Players /\ g.pending.text \in Texts
       ELSE g.pending = Nobody

EngineOK == game \in Games /\ Shape(game) /\ table \subseteq Questions /\ paused \in BOOLEAN

\* Where the judge judges alone no human is a showman.
RoomOK ==
    /\ mode \in {"human", "ai", "hybrid"} /\ human \in BOOLEAN /\ lost \in BOOLEAN
    /\ human => mode # "ai"
    /\ moves \in Nat

\* The confirmation runs while its answer waits, or after a MOVE.
TimerOK ==
    \/ hybrid = NoTimer
    \/ /\ hybrid.question \in Questions /\ hybrid.person \in Players
       /\ hybrid.text \in Texts /\ hybrid.is \in Verdicts
       /\ \/ game.sub = "reveal"
          \/ /\ game.sub = "validating" /\ hybrid.question = game.question
             /\ hybrid.person = game.pending.person /\ hybrid.text = game.pending.text

\* The requests a call has made, by how far it got: at most two without a
\* schema follow at most two with it.
Requested(c) ==
    /\ c.pc = "asked" => c.requests = 0
    /\ c.pc = "sent" => c.requests <= (IF c.schema THEN 1 ELSE 3) + c.attempt
    /\ c.pc = "posted" => c.verdict \in Verdicts
    /\ c.requests <= 4

Counted == {c \in Calls : Requested(c)}

\* Nobody asks a judge in a room whose showman is human.
CallsOK(cs) == cs \in Seq(Counted) /\ (mode = "human" => cs = <<>>)

Kept == [key : Questions \X Texts, verdict : Verdicts]

ServiceOK ==
    cache \in Seq(Kept) /\ Len(cache) <= CacheSize /\ useSchema \in BOOLEAN /\ flaky \in BOOLEAN

IInv == EngineOK /\ RoomOK /\ TimerOK /\ CallsOK(calls) /\ ServiceOK
-----------------------------------------------------------------------------
(* Sets of numbers.                                                        *)

\* A set within another.
Within(Y, X) == Y \subseteq X /\ Y # X

\* Of finite sets there is one that no other is within.
LEMMA SmallestSet ==
  ASSUME NEW S, NEW T, T # {}, \A X \in T : X \subseteq S /\ IsFiniteSet(X)
  PROVE  \E X \in T : \A Y \in T : ~Within(Y, X)
<1>1. T \subseteq FiniteSubsetsOf(S)
  BY DEF FiniteSubsetsOf
<1> DEFINE R == StrictSubsetOrdering(S)
           F == FiniteSubsetsOf(S)
<1>0. IsWellFoundedOn(R, F) /\ T \subseteq F
  BY <1>1, FS_StrictSubsetOrderingWellFounded
<1> HIDE DEF R, F
<1>2. PICK X \in T : \A Y \in T : ~(<<Y, X>> \in R)
  BY <1>0, WFMin
<1>3. \A Y \in T : Within(Y, X) => <<Y, X>> \in R
  BY DEF R, StrictSubsetOrdering, Within
<1> QED
  BY <1>2, <1>3

\* Min of a set of naturals that is not empty is in it.
LEMMA MinOfSet ==
  ASSUME NEW S, S \subseteq Nat, S # {}
  PROVE  Min(S) \in S /\ \A x \in S : Min(S) <= x
<1> DEFINE Below(p) == {o \in S : o <= p}
<1>1. \A p \in S : IsFiniteSet(Below(p))
  BY FS_BoundedSetOfNaturals
<1>2. PICK X \in {Below(p) : p \in S} : \A Y \in {Below(p) : p \in S} : ~Within(Y, X)
  <2>0. \A p \in S : Below(p) \subseteq S
    OBVIOUS
  <2>1. {Below(p) : p \in S} # {} /\ \A X \in {Below(p) : p \in S} : X \subseteq S /\ IsFiniteSet(X)
    <3> HIDE DEF Below
    <3> QED
      BY <1>1, <2>0
  <2> DEFINE T == {Below(p) : p \in S}
  <2>2. T # {} /\ \A X \in T : X \subseteq S /\ IsFiniteSet(X)
    BY <2>1
  <2> HIDE DEF T
  <2>3. \E X \in T : \A Y \in T : ~Within(Y, X)
    BY <2>2, SmallestSet
  <2> QED
    BY <2>3 DEF T
<1>3. PICK m \in S : X = Below(m)
  OBVIOUS
<1>4. \A y \in S : m <= y
  <2> SUFFICES ASSUME NEW y \in S, y < m PROVE FALSE
    BY SMT
  <2>1. m \in Nat /\ y \in Nat /\ \A o \in S : o \in Nat
    OBVIOUS
  <2>2. m \in Below(m) /\ m \notin Below(y)
    BY <2>1
  <2>3. \A o \in Below(y) : o \in Below(m)
    BY <2>1
  <2> HIDE DEF Below
  <2>4. Within(Below(y), Below(m))
    BY <2>2, <2>3 DEF Within
  <2> QED
    BY <2>4, <1>2, <1>3
<1> QED
  BY <1>4 DEF Min

\* Max of a finite set of naturals that is not empty is in it.
LEMMA MaxOfSet ==
  ASSUME NEW S, S \subseteq Nat, IsFiniteSet(S), S # {}
  PROVE  Max(S) \in S
<1> DEFINE Above(p) == {o \in S : o >= p}
<1>1. \A p \in S : IsFiniteSet(Above(p))
  BY FS_Subset
<1>2. PICK X \in {Above(p) : p \in S} : \A Y \in {Above(p) : p \in S} : ~Within(Y, X)
  <2>0. \A p \in S : Above(p) \subseteq S
    OBVIOUS
  <2>1. {Above(p) : p \in S} # {} /\ \A X \in {Above(p) : p \in S} : X \subseteq S /\ IsFiniteSet(X)
    <3> HIDE DEF Above
    <3> QED
      BY <1>1, <2>0
  <2> DEFINE T == {Above(p) : p \in S}
  <2>2. T # {} /\ \A X \in T : X \subseteq S /\ IsFiniteSet(X)
    BY <2>1
  <2> HIDE DEF T
  <2>3. \E X \in T : \A Y \in T : ~Within(Y, X)
    BY <2>2, SmallestSet
  <2> QED
    BY <2>3 DEF T
<1>3. PICK m \in S : X = Above(m)
  OBVIOUS
<1>4. \A y \in S : m >= y
  <2> SUFFICES ASSUME NEW y \in S, y > m PROVE FALSE
    BY SMT
  <2>1. m \in Nat /\ y \in Nat /\ \A o \in S : o \in Nat
    OBVIOUS
  <2>2. m \in Above(m) /\ m \notin Above(y)
    BY <2>1
  <2>3. \A o \in Above(y) : o \in Above(m)
    BY <2>1
  <2> HIDE DEF Above
  <2>4. Within(Above(y), Above(m))
    BY <2>2, <2>3 DEF Within
  <2> QED
    BY <2>4, <1>2, <1>3
<1> QED
  BY <1>4 DEF Max
-----------------------------------------------------------------------------
(* The functions of the engine.                                            *)

\* The fields that every function below but Validate leaves alone.
SameQuestion(g, h) == h \in Games /\ h.question = g.question /\ h.pre = g.pre

\* showAnswer: nothing waits in the reveal.
LEMMA ShowAnswerGame ==
  ASSUME NEW g \in Games
  PROVE  LET h == ShowAnswer(g)
         IN  SameQuestion(g, h) /\ h.sub = "reveal" /\ h.pending = Nobody
BY DEF ShowAnswer, Games, SameQuestion, Nobody, TimerStatus

\* askValidate: the answer waits.
LEMMA AskValidateGame ==
  ASSUME NEW g \in Games, NEW p \in Players, NEW x \in Texts, paused \in BOOLEAN
  PROVE  LET h == AskValidate(g, p, x)
         IN  /\ SameQuestion(g, h) /\ h.sub = "validating"
             /\ h.pending.person = p /\ h.pending.text = x
<1>1. Live(paused) \in TimerStatus
  BY DEF Live, TimerStatus
<1> QED
  BY <1>1 DEF AskValidate, Games, SameQuestion

\* applyOutcome: nothing waits any more.
LEMMA OutcomeGame ==
  ASSUME NEW g \in Games, NEW x \in Texts \union {None}, NEW is \in Verdicts
  PROVE  LET h == Outcome(g, x, is)
         IN  SameQuestion(g, h) /\ h.pending = Nobody /\ h.sub = g.sub /\ h.toReveal = g.toReveal
<1>1. (IF x = None THEN g.cache ELSE [g.cache EXCEPT ![x] = is]) \in [Texts -> Verdicts \union {None}]
  BY DEF Games
<1> QED
  BY <1>1 DEF Outcome, Games, SameQuestion, Nobody

\* applyVerdict: the button again, or the reveal.
LEMMA ApplyVerdictGame ==
  ASSUME NEW g \in Games, NEW p \in Players, NEW x \in Texts \union {None}, NEW is \in Verdicts
  PROVE  LET h == ApplyVerdict(g, p, x, is)
         IN  SameQuestion(g, h) /\ h.sub \in {"button", "reveal"} /\ h.pending = Nobody
<1> DEFINE o == Outcome(g, x, is)
           h == [o EXCEPT !.clock = "off", !.canPress = IF is = "right" THEN @ ELSE @ \ {p}]
<1>1. SameQuestion(g, o) /\ o.pending = Nobody
  BY OutcomeGame
<1> HIDE DEF o
<1>2. SameQuestion(g, h) /\ h.pending = Nobody
  BY <1>1 DEF SameQuestion, Games, TimerStatus
<1> HIDE DEF h
<1>3. SameQuestion(g, ShowAnswer(h)) /\ ShowAnswer(h).sub = "reveal" /\ ShowAnswer(h).pending = Nobody
  BY <1>2, ShowAnswerGame DEF SameQuestion
<1> DEFINE b == [h EXCEPT !.sub = "button", !.answerer = 0]
<1>4. SameQuestion(g, b) /\ b.sub = "button" /\ b.pending = Nobody
  BY <1>2 DEF SameQuestion, Games
<1> HIDE DEF b
<1>5. ApplyVerdict(g, p, x, is) = IF is = "right" \/ h.canPress = {} THEN ShowAnswer(h) ELSE b
  BY DEF ApplyVerdict, h, b, o
<1> QED
  BY <1>3, <1>4, <1>5

\* hiddenRevealNext: the next answer waits, or all are revealed.
Revealed(g, h) ==
    /\ SameQuestion(g, h)
    /\ \/ h.sub = "reveal" /\ h.pending = Nobody
       \/ h.sub = "validating" /\ h.pending.person \in Players /\ h.pending.text \in Texts

LEMMA RevealNextGame ==
  ASSUME NEW g \in Games, g.pending = Nobody, paused \in BOOLEAN
  PROVE  Revealed(g, RevealNext(g))
<1> DEFINE unknown == {p \in g.toReveal : ~Known(g, p)}
           told == {p \in g.toReveal : \A o \in unknown : p < o}
           early == [x \in Texts |-> {p \in told : g.answer[p] = x /\ g.pre[p].is # None}]
           cached == [x \in Texts |-> IF early[x] = {} THEN g.cache[x] ELSE g.pre[Max(early[x])].is]
           h == [g EXCEPT !.toReveal = @ \ told, !.clock = "off",
                          !.cache = [x \in Texts |-> IF early[x] = {} THEN @[x] ELSE g.pre[Max(early[x])].is]]
           p == Min(unknown)
           k == [h EXCEPT !.toReveal = @ \ {p}]
<1>0. unknown \subseteq Players /\ told \subseteq Players /\ Players \subseteq Nat /\ IsFiniteSet(Players)
  BY PlayersAssumption DEF Games
<1>1. \A x \in Texts : early[x] # {} => Max(early[x]) \in Players
  <2> SUFFICES ASSUME NEW x \in Texts, early[x] # {} PROVE Max(early[x]) \in Players
    OBVIOUS
  <2>1. early[x] \subseteq Players
    BY <1>0
  <2>2. early[x] \subseteq Nat /\ IsFiniteSet(early[x])
    BY <2>1, <1>0, FS_Subset
  <2> QED
    BY <2>1, <2>2, MaxOfSet
<1>2. cached \in [Texts -> Verdicts \union {None}]
  <2> HIDE DEF early
  <2> SUFFICES ASSUME NEW x \in Texts PROVE cached[x] \in Verdicts \union {None}
    OBVIOUS
  <2> QED
    BY <1>1 DEF Games
<1>3. h.cache = cached /\ h = [g EXCEPT !.toReveal = @ \ told, !.clock = "off", !.cache = cached]
  BY DEF Games
<1> HIDE DEF cached, early
<1>4. SameQuestion(g, h) /\ h.pending = Nobody
  <2> DEFINE e == [g EXCEPT !.toReveal = @ \ told, !.clock = "off", !.cache = cached]
  <2>1. e \in Games /\ e.question = g.question /\ e.pre = g.pre /\ e.pending = g.pending
    BY <1>0, <1>2 DEF Games, TimerStatus
  <2> QED
    BY <2>1, <1>3 DEF SameQuestion
<1> HIDE DEF h
<1>5. CASE unknown = {}
  <2>1. RevealNext(g) = ShowAnswer(h)
    BY <1>5 DEF RevealNext, h, early
  <2> QED
    BY <2>1, <1>4, ShowAnswerGame DEF Revealed, SameQuestion
<1>6. CASE unknown # {}
  <2>1. p \in unknown
    BY <1>0, <1>6, MinOfSet
  <2>2. p \in Players /\ g.answer[p] \in Texts
    BY <2>1, <1>0 DEF Known, Games
  <2> HIDE DEF p
  <2>3. SameQuestion(g, k)
    BY <1>4 DEF SameQuestion, Games
  <2> HIDE DEF k
  <2>4. RevealNext(g) = AskValidate(k, p, g.answer[p])
    BY <1>6 DEF RevealNext, h, early, p, k
  <2> QED
    BY <2>2, <2>3, <2>4, AskValidateGame DEF Revealed, SameQuestion
<1> QED
  BY <1>5, <1>6

\* VALIDATE: a verdict given early, or the next answer, the button, the reveal.
Validated(g, h, by) ==
    /\ h \in Games /\ Shape(h) /\ h.question = g.question
    /\ (h.sub = g.sub /\ h.pending = g.pending) \/ g.sub = "validating"
    /\ h.pre = g.pre \/ (g.sub = "hiddenAnswering" /\ \A p \in Players : h.pre[p].by \in {g.pre[p].by, by})

LEMMA ValidateGame ==
  ASSUME NEW g \in Games, Shape(g), paused \in BOOLEAN,
         NEW p \in Players, NEW is \in Verdicts, NEW by \in {"showman", "room"}
  PROVE  Validated(g, Validate(g, p, is, by), by)
<1>1. CASE ~Validatable(g, p)
  BY <1>1 DEF Validate, Validated
<1>2. CASE Validatable(g, p) /\ g.sub = "hiddenAnswering"
  <2> DEFINE h == [g EXCEPT !.pre[p] = [by |-> by, is |-> is]]
  <2>1. Validate(g, p, is, by) = h
    BY <1>2 DEF Validate
  <2>2. h \in Games /\ h.question = g.question /\ h.sub = g.sub /\ h.pending = g.pending
    BY DEF Games
  <2>3. \A o \in Players : h.pre[o].by \in {g.pre[o].by, by}
    BY DEF Games
  <2> HIDE DEF h
  <2>4. Shape(h)
    BY <1>2, <2>2 DEF Shape
  <2> QED
    BY <1>2, <2>1, <2>2, <2>3, <2>4 DEF Validated
<1>3. CASE Validatable(g, p) /\ g.sub # "hiddenAnswering"
  <2>1. g.sub = "validating" /\ g.pending.person = p /\ g.pending.text \in Texts /\ g.question # None
    BY <1>3 DEF Validatable, Shape
  <2>2. CASE IsHidden(g)
    <3> DEFINE o == Outcome(g, g.pending.text, is)
    <3>1. SameQuestion(g, o) /\ o.pending = Nobody
      BY <2>1, OutcomeGame
    <3>2. Validate(g, p, is, by) = RevealNext(o)
      BY <1>3, <2>2 DEF Validate
    <3> HIDE DEF o
    <3>3. Revealed(o, RevealNext(o))
      BY <3>1, RevealNextGame DEF SameQuestion
    <3> QED
      BY <2>1, <3>1, <3>2, <3>3 DEF Revealed, SameQuestion, Validated, Shape
  <2>3. CASE ~IsHidden(g)
    <3> DEFINE h == ApplyVerdict(g, p, g.pending.text, is)
    <3>1. SameQuestion(g, h) /\ h.sub \in {"button", "reveal"} /\ h.pending = Nobody
      BY <2>1, ApplyVerdictGame
    <3>2. Validate(g, p, is, by) = h
      BY <1>3, <2>3 DEF Validate
    <3> HIDE DEF h
    <3> QED
      BY <2>1, <3>1, <3>2 DEF SameQuestion, Validated, Shape
  <2> QED
    BY <2>2, <2>3
<1> QED
  BY <1>1, <1>2, <1>3

\* Before the first question there is nothing.
LEMMA NoQuestionGame ==
  NoQuestion \in Games /\ Shape(NoQuestion)
<1>1. NoQuestion \in Games
  BY DEF NoQuestion, Games, Nobody, TimerStatus
<1> QED
  BY <1>1 DEF NoQuestion, Shape
-----------------------------------------------------------------------------
(* The functions of the room and of the judge.                             *)

\* observe: the timer is stopped, or is still for the answer that waits.
LEMMA ObserveTimer ==
  ASSUME EngineOK, TimerOK, NEW h \in Games, Shape(h), h.question \in {game.question, None},
         game.sub = "reveal" => h.sub = "reveal" \/ h.question = None,
         game' = h, hybrid' = Observe(h)
  PROVE  TimerOK'
<1>1. CASE hybrid = NoTimer \/ Cancels(game, h)
  BY <1>1 DEF Observe, TimerOK
<1>2. CASE hybrid # NoTimer /\ ~Cancels(game, h)
  <2>1. hybrid' = hybrid /\ h.question = game.question /\ h.question # None
    BY <1>2 DEF Observe, Cancels
  <2>2. CASE game.sub = "reveal"
    BY <1>2, <2>1, <2>2 DEF TimerOK
  <2>3. CASE game.sub # "reveal"
    <3>1. game.sub = "validating" /\ game.pending # Nobody
      BY <1>2, <2>3, PlayersAssumption DEF TimerOK, EngineOK, Shape, Nobody
    <3>2. h.pending = game.pending /\ h.sub = "validating"
      BY <1>2, <3>1 DEF Cancels, Shape
    <3> QED
      BY <1>2, <2>1, <2>3, <3>2 DEF TimerOK
  <2> QED
    BY <2>2, <2>3
<1> QED
  BY <1>1, <1>2

\* A call is made for a question and one of its answers.
LEMMA CallCounted ==
  ASSUME NEW g \in Games, g.question # None, NEW p \in Players, NEW x \in Texts, NEW preview \in BOOLEAN
  PROVE  Call(g, p, x, preview) \in Counted
<1>1. g.question \in Questions
  BY DEF Games
<1> QED
  BY <1>1 DEF Call, Calls, Counted, Requested

\* onAskValidate: the calls stay counted, and a human room makes none.
LEMMA AskedCalls ==
  ASSUME NEW cs, CallsOK(cs), NEW g \in Games, Shape(g)
  PROVE  CallsOK(Asked(cs, g))
<1>1. CASE g.pending = Nobody \/ mode = "human"
  BY <1>1 DEF Asked
<1>2. CASE g.pending # Nobody /\ mode # "human"
  <2> DEFINE c == Call(g, g.pending.person, g.pending.text, FALSE)
  <2>1. c \in Counted
    BY <1>2, CallCounted DEF Shape
  <2>2. Asked(cs, g) = Append(cs, c)
    BY <1>2 DEF Asked
  <2> HIDE DEF c
  <2>3. Append(cs, c) \in Seq(Counted)
    BY <2>1, AppendProperties DEF CallsOK
  <2> QED
    BY <1>2, <2>2, <2>3 DEF CallsOK
<1> QED
  BY <1>1, <1>2

\* A sequence without one of its elements.
LEMMA RemoveAtSeq ==
  ASSUME NEW S, NEW s \in Seq(S), NEW i \in DOMAIN s
  PROVE  RemoveAt(s, i) \in Seq(S) /\ Len(RemoveAt(s, i)) = Len(s) - 1
<1>1. i \in 1..Len(s) /\ Len(s) \in Nat /\ \A j \in 1..Len(s) : s[j] \in S
  BY LenProperties, ElementOfSeq
<1>2. SubSeq(s, 1, i - 1) \in Seq(S) /\ Len(SubSeq(s, 1, i - 1)) = i - 1
  BY <1>1, SubSeqProperties
<1>3. SubSeq(s, i + 1, Len(s)) \in Seq(S) /\ Len(SubSeq(s, i + 1, Len(s))) = Len(s) - i
  <2>1. \A j \in (i + 1)..Len(s) : s[j] \in S
    BY <1>1
  <2>2. /\ SubSeq(s, i + 1, Len(s)) \in Seq(S)
        /\ Len(SubSeq(s, i + 1, Len(s))) = IF i + 1 <= Len(s) THEN Len(s) - (i + 1) + 1 ELSE 0
    BY <1>1, <2>1, SubSeqProperties
  <2> QED
    BY <1>1, <2>2
<1> DEFINE a == SubSeq(s, 1, i - 1)
           z == SubSeq(s, i + 1, Len(s))
<1>4. RemoveAt(s, i) = a \o z
  BY DEF RemoveAt
<1>5. a \in Seq(S) /\ z \in Seq(S) /\ Len(a) = i - 1 /\ Len(z) = Len(s) - i
  BY <1>2, <1>3
<1> HIDE DEF a, z
<1>6. a \o z \in Seq(S) /\ Len(a \o z) = Len(a) + Len(z)
  BY <1>5, ConcatProperties
<1>7. i \in Int /\ Len(s) \in Int
  BY <1>1
<1> QED
  BY <1>4, <1>5, <1>6, <1>7

\* Where a call is, the room is not human; and there it may be changed.
LEMMA CallsSteps ==
  ASSUME CallsOK(calls), NEW i \in DOMAIN calls
  PROVE  /\ mode # "human" /\ calls[i] \in Counted
         /\ CallsOK(RemoveAt(calls, i))
         /\ \A c \in Counted : CallsOK([calls EXCEPT ![i] = c])
<1>1. mode # "human" /\ i \in 1..Len(calls)
  BY LenProperties, EmptySeq DEF CallsOK
<1>2. calls[i] \in Counted
  BY <1>1, ElementOfSeq DEF CallsOK
<1>3. RemoveAt(calls, i) \in Seq(Counted)
  BY RemoveAtSeq DEF CallsOK
<1>4. \A c \in Counted : [calls EXCEPT ![i] = c] \in Seq(Counted)
  BY <1>1, ExceptSeq DEF CallsOK
<1> QED
  BY <1>1, <1>2, <1>3, <1>4 DEF CallsOK

\* Cache.Put keeps the cache within its size.
LEMMA PutKeeps ==
  ASSUME ServiceOK, NEW k \in Questions \X Texts, NEW v \in Verdicts, Put(k, v),
         useSchema' = useSchema, flaky' = flaky
  PROVE  ServiceOK'
<1> DEFINE e == [key |-> k, verdict |-> v]
           c == <<e>> \o Others(k)
<1>0. cache \in Seq(Kept) /\ Len(cache) <= CacheSize /\ Len(cache) \in Nat /\ DOMAIN cache = 1..Len(cache)
  BY LenProperties DEF ServiceOK
<1>1. Others(k) \in Seq(Kept) /\ Len(Others(k)) <= CacheSize
  <2>1. CASE Entries(k) = {}
    BY <1>0, <2>1 DEF Others
  <2>2. CASE Entries(k) # {}
    <3>1. Entries(k) \subseteq DOMAIN cache /\ Entries(k) \subseteq Nat
      BY <1>0 DEF Entries
    <3>2. Min(Entries(k)) \in DOMAIN cache
      BY <2>2, <3>1, MinOfSet
    <3>3. RemoveAt(cache, Min(Entries(k))) \in Seq(Kept) /\ Len(RemoveAt(cache, Min(Entries(k)))) = Len(cache) - 1
      BY <1>0, <3>2, RemoveAtSeq
    <3> QED
      BY <1>0, <2>2, <3>3, BoundsAssumption DEF Others
  <2> QED
    BY <2>1, <2>2
<1>2. <<e>> \in Seq(Kept) /\ Len(<<e>>) = 1
  BY DEF Kept
<1>3. c \in Seq(Kept) /\ Len(c) = 1 + Len(Others(k)) /\ Len(Others(k)) \in Nat
  BY <1>1, <1>2, ConcatProperties, LenProperties
<1>4. cache' = IF Len(c) > CacheSize THEN Front(c) ELSE c
  BY DEF Put
<1> HIDE DEF c
<1>5. Front(c) \in Seq(Kept) /\ Len(Front(c)) = Len(c) - 1
  <2>1. Len(c) \in Nat \ {0} /\ \A j \in 1..(Len(c) - 1) : c[j] \in Kept
    BY <1>3, ElementOfSeq
  <2> DEFINE n == Len(c) - 1
             f == SubSeq(c, 1, n)
  <2>2. n \in Nat /\ \A j \in 1..n : c[j] \in Kept
    BY <2>1
  <2>3. Front(c) = f
    BY DEF Front
  <2> HIDE DEF n
  <2>4. f \in Seq(Kept) /\ Len(f) = IF 1 <= n THEN n - 1 + 1 ELSE 0
    BY <2>2, SubSeqProperties
  <2> HIDE DEF f
  <2>5. Len(f) = n
    BY <2>2, <2>4
  <2> QED
    BY <2>3, <2>4, <2>5 DEF n
<1>6. cache' \in Seq(Kept) /\ Len(cache') <= CacheSize
  BY <1>1, <1>3, <1>4, <1>5, BoundsAssumption
<1> QED
  BY <1>6 DEF ServiceOK
-----------------------------------------------------------------------------
(* The steps.                                                              *)

\* The calls of the next state.
LEMMA CallsNext ==
  ASSUME NEW cs, CallsOK(cs), calls' = cs, mode' = mode
  PROVE  CallsOK(calls)'
BY DEF CallsOK

\* A handler of the engine, and the calls and the timer after it.
LEMMA BecomesKeeps ==
  ASSUME IInv, NEW g \in Games, Shape(g), g.question = game.question, game.sub # "reveal",
         Becomes(g), UNCHANGED <<table, paused, mode, human, lost, cache, useSchema, flaky, moves>>
  PROVE  IInv'
<1>1. game' = g /\ calls' = Asked(calls, g) /\ hybrid' = Observe(g)
  BY DEF Becomes
<1>2. EngineOK'
  BY <1>1 DEF IInv, EngineOK, Shape
<1>3. TimerOK'
  BY <1>1, ObserveTimer DEF IInv, EngineOK
<1>4. CallsOK(calls)'
  BY <1>1, AskedCalls, CallsNext DEF IInv
<1> QED
  BY <1>2, <1>3, <1>4 DEF IInv, RoomOK, ServiceOK

\* A step that asks nobody and leaves the timer.
LEMMA EngineKeeps ==
  ASSUME IInv, EngineOK', TimerOK', UNCHANGED <<mode, human, lost, service>>, moves' \in Nat
  PROVE  IInv'
BY DEF IInv, RoomOK, CallsOK, ServiceOK, service

\* startQuestion: no timer runs before it.
LEMMA StartQuestionKeeps ==
  ASSUME IInv, NEW q \in Questions, StartQuestion(q)
  PROVE  IInv'
<1> DEFINE g == [NoQuestion EXCEPT !.question = q, !.sub = IF q \in Hidden THEN "hiddenAnswering" ELSE "button",
                                   !.canPress = IF q \in Hidden THEN {} ELSE Players]
<1>1. game' = g
  BY DEF StartQuestion
<1>2. g \in Games /\ g.question = q /\ g.sub \in {"hiddenAnswering", "button"} /\ g.pending = NoQuestion.pending
  BY NoQuestionGame DEF Games
<1>3. NoQuestion.pending = Nobody
  BY DEF NoQuestion
<1> HIDE DEF g
<1>4. EngineOK'
  BY <1>1, <1>2, <1>3, QuestionsAssumption DEF StartQuestion, IInv, EngineOK, Shape
<1>5. TimerOK'
  BY DEF StartQuestion, IInv, TimerOK, room
<1> QED
  BY <1>4, <1>5, EngineKeeps DEF StartQuestion, IInv, RoomOK, room

\* onButtonResult.
LEMMA PressKeeps ==
  ASSUME IInv, NEW p \in Players, Press(p)
  PROVE  IInv'
<1> DEFINE g == [game EXCEPT !.sub = "answering", !.answerer = p]
<1>1. game' = g
  BY DEF Press
<1>2. g \in Games /\ g.question = game.question /\ g.sub = "answering" /\ g.answerer = p /\ g.pending = game.pending
  BY DEF IInv, EngineOK, Games
<1> HIDE DEF g
<1>3. EngineOK'
  BY <1>1, <1>2 DEF Press, IInv, EngineOK, Shape
<1>4. TimerOK'
  BY DEF Press, IInv, TimerOK, room
<1> QED
  BY <1>3, <1>4, EngineKeeps DEF Press, IInv, RoomOK, room

\* onAnswer at the button.
LEMMA AnswerKeeps ==
  ASSUME IInv, NEW p \in Players, NEW x \in Texts, Answer(p, x)
  PROVE  IInv' /\ game'.pre = game.pre
<1> DEFINE h == IF game.cache[x] # None THEN ApplyVerdict(game, p, x, game.cache[x]) ELSE AskValidate(game, p, x)
<1>1. game \in Games /\ Shape(game) /\ paused \in BOOLEAN /\ game.sub = "answering" /\ game.question # None
  BY DEF Answer, IInv, EngineOK, Shape
<1>2. game.cache[x] # None => game.cache[x] \in Verdicts
  BY <1>1 DEF Games
<1>3. h \in Games /\ h.question = game.question /\ h.pre = game.pre /\ Shape(h)
  <2>1. CASE game.cache[x] # None
    <3>1. LET v == ApplyVerdict(game, p, x, game.cache[x])
          IN  SameQuestion(game, v) /\ v.sub \in {"button", "reveal"} /\ v.pending = Nobody
      BY <1>1, <1>2, <2>1, ApplyVerdictGame
    <3>2. h = ApplyVerdict(game, p, x, game.cache[x])
      BY <2>1
    <3> HIDE DEF h
    <3> QED
      BY <1>1, <3>1, <3>2 DEF SameQuestion, Shape
  <2>2. CASE game.cache[x] = None
    <3>1. LET v == AskValidate(game, p, x)
          IN  /\ SameQuestion(game, v) /\ v.sub = "validating"
              /\ v.pending.person = p /\ v.pending.text = x
      BY <1>1, AskValidateGame
    <3>2. h = AskValidate(game, p, x)
      BY <2>2
    <3> HIDE DEF h
    <3> QED
      BY <1>1, <3>1, <3>2 DEF SameQuestion, Shape
  <2> QED
    BY <2>1, <2>2
<1>4. Becomes(h) /\ UNCHANGED <<table, paused, mode, human, lost, cache, useSchema, flaky, moves>>
  BY DEF Answer
<1> HIDE DEF h
<1> QED
  BY <1>1, <1>3, <1>4, BecomesKeeps DEF Becomes

\* answerTimeout.
LEMMA TimeoutAnsweringKeeps ==
  ASSUME IInv, TimeoutAnswering
  PROVE  IInv' /\ game'.pre = game.pre
<1> DEFINE h == ApplyVerdict(game, game.answerer, None, "wrong")
<1>1. game \in Games /\ Shape(game) /\ game.sub = "answering" /\ game.answerer \in Players /\ game.question # None
  BY DEF TimeoutAnswering, IInv, EngineOK, Shape
<1>2. SameQuestion(game, h) /\ h.sub \in {"button", "reveal"} /\ h.pending = Nobody
  BY <1>1, ApplyVerdictGame DEF Verdicts
<1>3. Becomes(h) /\ UNCHANGED <<table, paused, mode, human, lost, cache, useSchema, flaky, moves>>
  BY DEF TimeoutAnswering
<1> HIDE DEF h
<1>4. Shape(h)
  BY <1>1, <1>2 DEF SameQuestion, Shape
<1> QED
  BY <1>1, <1>2, <1>3, <1>4, BecomesKeeps DEF SameQuestion, Becomes

\* The reveal of written answers is a game that may follow.
LEMMA RevealedShape ==
  ASSUME NEW g \in Games, g.question # None, NEW h, Revealed(g, h)
  PROVE  h \in Games /\ Shape(h) /\ h.question = g.question /\ h.pre = g.pre
BY DEF Revealed, SameQuestion, Shape

\* hiddenAnsweringDone.
LEMMA TimeoutHiddenAnsweringKeeps ==
  ASSUME IInv, TimeoutHiddenAnswering
  PROVE  IInv' /\ game'.pre = game.pre
<1> DEFINE g == [game EXCEPT !.toReveal = Players]
<1>1. game \in Games /\ Shape(game) /\ paused \in BOOLEAN /\ game.sub = "hiddenAnswering" /\ game.question # None
  BY DEF TimeoutHiddenAnswering, IInv, EngineOK, Shape
<1>2. g \in Games /\ g.question = game.question /\ g.pre = game.pre /\ g.pending = Nobody
  BY <1>1 DEF Games, Shape
<1>3. Becomes(RevealNext(g)) /\ UNCHANGED <<table, paused, mode, human, lost, cache, useSchema, flaky, moves>>
  BY DEF TimeoutHiddenAnswering
<1> HIDE DEF g
<1> DEFINE h == RevealNext(g)
<1>4. h \in Games /\ Shape(h) /\ h.question = g.question /\ h.pre = g.pre
  BY <1>1, <1>2, RevealNextGame, RevealedShape
<1> HIDE DEF h
<1>5. IInv'
  BY <1>1, <1>2, <1>3, <1>4, BecomesKeeps DEF h
<1> QED
  BY <1>2, <1>3, <1>4, <1>5 DEF Becomes, h

\* onAnswer in the written phase.
LEMMA AnswerHiddenKeeps ==
  ASSUME IInv, NEW p \in Players, NEW x \in Texts, AnswerHidden(p, x)
  PROVE  IInv' /\ game'.pre = game.pre
<1> DEFINE g == [game EXCEPT !.answer[p] = x]
           r == [g EXCEPT !.toReveal = Players]
           h == RevealNext(r)
           asked == IF mode = "human" THEN calls ELSE Append(calls, Call(game, p, x, TRUE))
<1>1. game \in Games /\ Shape(game) /\ paused \in BOOLEAN /\ game.sub = "hiddenAnswering" /\ game.question # None
  BY DEF AnswerHidden, IInv, EngineOK, Shape
<1>2. g \in Games /\ g.question = game.question /\ g.pre = game.pre /\ g.pending = Nobody /\ g.sub = game.sub
  BY <1>1 DEF Games, Shape
<1>3. /\ game' = g \/ game' = h
      /\ calls' = Asked(asked, game')
      /\ UNCHANGED <<table, paused, room, cache, useSchema, flaky, moves>>
  BY DEF AnswerHidden
<1> HIDE DEF g
<1>4. r \in Games /\ r.question = game.question /\ r.pre = game.pre /\ r.pending = Nobody
  BY <1>2 DEF Games
<1> HIDE DEF r
<1>5. h \in Games /\ Shape(h) /\ h.question = game.question /\ h.pre = game.pre
  BY <1>1, <1>4, RevealNextGame, RevealedShape
<1>6. Shape(g)
  BY <1>1, <1>2 DEF Shape
<1> HIDE DEF h
<1>7. game' \in Games /\ Shape(game') /\ game'.question = game.question /\ game'.pre = game.pre
  BY <1>2, <1>3, <1>5, <1>6
<1>8. CallsOK(asked)
  <2>1. CASE mode = "human"
    BY <2>1 DEF IInv
  <2>2. CASE mode # "human"
    <3>1. Call(game, p, x, TRUE) \in Counted
      BY <1>1, CallCounted
    <3>2. Append(calls, Call(game, p, x, TRUE)) \in Seq(Counted)
      BY <3>1, AppendProperties DEF IInv, CallsOK
    <3> QED
      BY <2>2, <3>2 DEF CallsOK
  <2> QED
    BY <2>1, <2>2
<1> HIDE DEF asked
<1>9. CallsOK(calls)'
  BY <1>3, <1>7, <1>8, AskedCalls, CallsNext DEF room
<1>10. EngineOK'
  BY <1>3, <1>7 DEF IInv, EngineOK, Shape
<1>11. TimerOK'
  BY <1>1, <1>3 DEF IInv, TimerOK, room
<1> QED
  BY <1>3, <1>7, <1>9, <1>10, <1>11 DEF IInv, RoomOK, ServiceOK, room

\* An early verdict of the showman that stands in this step.
Standing ==
    \A p \in Players :
        human /\ game.pre[p].by = "showman" /\ game'.question = game.question => game'.pre[p].by = "showman"

\* A VALIDATE that the engine is given: from the showman, or from the room when
\* no showman is there or the answer was given at the button.
LEMMA ValidateKeeps ==
  ASSUME IInv, NEW p \in Players, NEW is \in Verdicts, NEW by \in {"showman", "room"},
         game' = Validate(game, p, is, by), hybrid' \in {NoTimer, Observe(Validate(game, p, is, by))},
         NEW cs, CallsOK(cs), calls' \in {cs, Asked(cs, Validate(game, p, is, by))},
         UNCHANGED <<table, paused, mode, human, cache, useSchema, flaky, moves>>, lost' \in BOOLEAN,
         human /\ game.sub = "hiddenAnswering" => by = "showman"
  PROVE  IInv' /\ Standing
<1> DEFINE h == Validate(game, p, is, by)
<1>1. game \in Games /\ Shape(game) /\ paused \in BOOLEAN
  BY DEF IInv, EngineOK
<1>2. Validated(game, h, by)
  BY <1>1, ValidateGame
<1>3. game' = h /\ hybrid' \in {NoTimer, Observe(h)} /\ calls' \in {cs, Asked(cs, h)}
  OBVIOUS
<1> HIDE DEF h
<1>4. EngineOK'
  BY <1>2, <1>3 DEF IInv, EngineOK, Shape, Validated
<1>5. TimerOK'
  <2>1. CASE hybrid' = NoTimer
    BY <2>1 DEF TimerOK
  <2>2. CASE hybrid' = Observe(h)
    <3>1. game.sub = "reveal" => h.sub = "reveal"
      BY <1>2 DEF Validated
    <3> QED
      BY <1>2, <1>3, <2>2, <3>1, ObserveTimer DEF IInv, Validated
  <2> QED
    BY <1>3, <2>1, <2>2
<1>6. CallsOK(calls)'
  <2>1. CallsOK(Asked(cs, h))
    BY <1>2, AskedCalls DEF Validated
  <2>2. CallsOK(calls')
    BY <1>3, <2>1
  <2> QED
    BY <2>2, CallsNext
<1>7. Standing
  <2> SUFFICES ASSUME NEW o \in Players, human, game.pre[o].by = "showman" PROVE game'.pre[o].by = "showman"
    BY DEF Standing
  <2> QED
    BY <1>2, <1>3 DEF Validated
<1> QED
  BY <1>4, <1>5, <1>6, <1>7 DEF IInv, RoomOK, ServiceOK

\* VALIDATION_TIMEOUT.
LEMMA TimeoutShowmanDecisionKeeps ==
  ASSUME IInv, TimeoutShowmanDecision
  PROVE  IInv' /\ Standing
<1>1. game.sub = "validating" /\ game.pending.person \in Players /\ game.pending.text \in Texts
  BY DEF TimeoutShowmanDecision, IInv, EngineOK, Shape
<1>2. FuzzyJudge(game.pending.text) \in Verdicts
  BY <1>1, TextsAssumption DEF FuzzyJudge
<1>3. Becomes(Validate(game, game.pending.person, FuzzyJudge(game.pending.text), "room"))
  BY DEF TimeoutShowmanDecision
<1>4. UNCHANGED <<table, paused, mode, human, lost, cache, useSchema, flaky, moves>>
  BY DEF TimeoutShowmanDecision
<1>5. CallsOK(calls) /\ lost' \in BOOLEAN
  BY <1>4 DEF IInv, RoomOK
<1> QED
  BY <1>1, <1>2, <1>3, <1>4, <1>5, ValidateKeeps DEF Becomes

\* VALIDATE of the showman.
LEMMA ShowmanValidatesKeeps ==
  ASSUME IInv, NEW p \in Players, NEW is \in Verdicts, ShowmanValidates(p, is)
  PROVE  IInv' /\ Standing
<1> DEFINE h == Validate(game, p, is, "showman")
<1>1. UNCHANGED <<table, paused, mode, human, lost, cache, useSchema, flaky, moves>>
  BY DEF ShowmanValidates
<1>2. CallsOK(calls) /\ lost' \in BOOLEAN
  BY <1>1 DEF IInv, RoomOK
<1>3. game' = h
  BY DEF ShowmanValidates, Becomes
<1>4. calls' \in {calls, Asked(calls, h)}
  BY DEF ShowmanValidates, Becomes
<1>5. hybrid' \in {NoTimer, Observe(h)}
  <2>1. CASE game.sub = "hiddenAnswering"
    <3>1. hybrid' = hybrid
      BY <2>1 DEF ShowmanValidates
    <3> QED
      BY <2>1, <3>1 DEF IInv, TimerOK
  <2>2. CASE game.sub # "hiddenAnswering"
    BY <2>2 DEF ShowmanValidates, Becomes
  <2> QED
    BY <2>1, <2>2
<1> HIDE DEF h
<1> QED
  BY <1>1, <1>2, <1>3, <1>4, <1>5, ValidateKeeps DEF h

\* The end of a question, or its return to the table.
LEMMA EndsKeeps ==
  ASSUME IInv, game.question # None, game' = NoQuestion, hybrid' = Observe(NoQuestion),
         table' \subseteq Questions, moves' \in Nat, UNCHANGED <<paused, mode, human, lost, service>>
  PROVE  IInv' /\ Standing
<1>1. NoQuestion \in Games /\ Shape(NoQuestion) /\ NoQuestion.question = None
  BY NoQuestionGame DEF NoQuestion
<1>2. hybrid' = NoTimer
  BY <1>1 DEF Observe, Cancels
<1>3. EngineOK' /\ TimerOK'
  BY <1>1, <1>2 DEF IInv, EngineOK, Shape, TimerOK
<1>4. Standing
  BY <1>1 DEF Standing
<1> QED
  BY <1>3, <1>4, EngineKeeps

\* endQuestion.
LEMMA TimeoutReflectionKeeps ==
  ASSUME IInv, TimeoutReflection
  PROVE  IInv' /\ Standing
<1>1. game.question # None /\ table' \subseteq Questions /\ moves' \in Nat
  BY DEF TimeoutReflection, IInv, EngineOK, RoomOK, Shape
<1> QED
  BY <1>1, EndsKeeps DEF TimeoutReflection

\* MOVE -1: returnQuestionToTable.
LEMMA MoveBackKeeps ==
  ASSUME IInv, MoveBack
  PROVE  IInv' /\ Standing
<1>1. game.question # None /\ game.question \in Questions
  BY DEF MoveBack, IInv, EngineOK, Games
<1>2. table' \subseteq Questions /\ moves' \in Nat
  BY <1>1 DEF MoveBack, IInv, EngineOK, RoomOK
<1> QED
  BY <1>1, <1>2, EndsKeeps DEF MoveBack

\* MOVE 1: the timer of the room runs on, over a reveal.
LEMMA MoveForwardKeeps ==
  ASSUME IInv, MoveForward
  PROVE  IInv' /\ game'.pre = game.pre
<1> DEFINE h == ShowAnswer(game)
<1>1. SameQuestion(game, h) /\ h.sub = "reveal" /\ h.pending = Nobody
  BY ShowAnswerGame DEF IInv, EngineOK
<1>2. game' = h /\ hybrid' = hybrid /\ game.question # None
  BY DEF MoveForward, room
<1> HIDE DEF h
<1>3. EngineOK'
  BY <1>1, <1>2 DEF MoveForward, IInv, EngineOK, Shape, SameQuestion
<1>4. TimerOK'
  BY <1>1, <1>2 DEF IInv, TimerOK
<1>5. moves' \in Nat
  BY DEF MoveForward, IInv, RoomOK
<1>6. game'.pre = game.pre
  BY <1>1, <1>2 DEF SameQuestion
<1> QED
  BY <1>3, <1>4, <1>5, <1>6, EngineKeeps DEF MoveForward, room

\* A pause holds the clock.
LEMMA PausesKeep ==
  ASSUME IInv, Pause \/ Resume
  PROVE  IInv' /\ game'.pre = game.pre
<1>1. PICK c \in TimerStatus : game' = [game EXCEPT !.clock = c]
  <2>1. game.clock \in TimerStatus
    BY DEF IInv, EngineOK, Games
  <2>2. CASE Pause
    <3>1. game' = [game EXCEPT !.clock = IF game.clock = "run" THEN "held" ELSE game.clock]
      BY <2>2 DEF Pause
    <3> QED
      BY <2>1, <3>1 DEF TimerStatus
  <2>3. CASE Resume
    <3>1. game' = [game EXCEPT !.clock = IF game.clock = "held" THEN "run" ELSE game.clock]
      BY <2>3 DEF Resume
    <3> QED
      BY <2>1, <3>1 DEF TimerStatus
  <2> QED
    BY <2>2, <2>3
<1>2. /\ game' \in Games /\ game'.question = game.question /\ game'.sub = game.sub
      /\ game'.pending = game.pending /\ game'.pre = game.pre /\ game'.answerer = game.answerer
  BY <1>1 DEF IInv, EngineOK, Games
<1>3. hybrid' = hybrid /\ table' = table /\ paused' \in BOOLEAN /\ moves' \in Nat
  <2>1. moves \in Nat
    BY DEF IInv, RoomOK
  <2>2. moves' \in {moves, moves - 1} /\ (moves' = moves \/ moves > 0)
    BY DEF Pause, Resume
  <2>3. paused' \in BOOLEAN
    BY Zenon DEF Pause, Resume
  <2> QED
    BY <2>1, <2>2, <2>3 DEF Pause, Resume, room
<1>4. EngineOK' /\ TimerOK'
  BY <1>2, <1>3 DEF IInv, EngineOK, TimerOK, Shape
<1>5. UNCHANGED <<mode, human, lost, service>>
  BY DEF Pause, Resume, room
<1>6. IInv'
  BY <1>3, <1>4, <1>5, EngineKeeps
<1> QED
  BY <1>2, <1>6

\* The showman's seat.
LEMMA SeatKeeps ==
  ASSUME IInv, ShowmanLeaves \/ ShowmanJoins
  PROVE  IInv' /\ game' = game
<1>1. UNCHANGED <<engine, mode, hybrid, lost, service>>
  BY DEF ShowmanLeaves, ShowmanJoins
<1>0. moves' \in Nat
  <2>1. moves \in Nat
    BY DEF IInv, RoomOK
  <2>2. CASE ShowmanLeaves
    <3>1. moves > 0 /\ moves' = moves - 1
      BY <2>2 DEF ShowmanLeaves
    <3> QED
      BY <2>1, <3>1
  <2>3. CASE ShowmanJoins
    BY <2>1, <2>3 DEF ShowmanJoins
  <2> QED
    BY <2>2, <2>3
<1>2. human' \in BOOLEAN /\ (human' => mode # "ai")
  BY Zenon DEF ShowmanLeaves, ShowmanJoins
<1>3. EngineOK' /\ TimerOK'
  BY <1>1 DEF IInv, EngineOK, Shape, TimerOK, engine
<1>4. RoomOK'
  BY <1>0, <1>1, <1>2 DEF IInv, RoomOK
<1>5. CallsOK(calls)' /\ ServiceOK'
  BY <1>1 DEF IInv, CallsOK, ServiceOK, service
<1> QED
  BY <1>1, <1>3, <1>4, <1>5 DEF IInv, engine

\* A step of the judge's goroutine changes the calls and the cache alone.
LEMMA ServiceKeeps ==
  ASSUME IInv, CallsOK(calls'), ServiceOK', UNCHANGED <<engine, room, moves>>
  PROVE  IInv' /\ game' = game
<1>1. CallsOK(calls)'
  BY CallsNext DEF room
<1>2. EngineOK' /\ RoomOK' /\ TimerOK'
  BY DEF IInv, EngineOK, Shape, RoomOK, TimerOK, engine, room
<1> QED
  BY <1>1, <1>2 DEF IInv, engine

\* A call with a verdict is counted.
LEMMA PostedCounted ==
  ASSUME NEW c \in Counted, NEW v \in Verdicts
  PROVE  [c EXCEPT !.pc = "posted", !.verdict = v] \in Counted
BY DEF Counted, Calls, Requested

\* Posting a verdict keeps the calls counted.
LEMMA PostsKeeps ==
  ASSUME IInv, NEW i \in DOMAIN calls, NEW v \in Verdicts, Posts(i, v)
  PROVE  CallsOK(calls')
<1>1. calls[i] \in Counted /\ \A c \in Counted : CallsOK([calls EXCEPT ![i] = c])
  BY CallsSteps DEF IInv
<1>2. calls' = [calls EXCEPT ![i] = [calls[i] EXCEPT !.pc = "posted", !.verdict = v]]
  BY DEF Posts
<1> QED
  BY <1>1, <1>2, PostedCounted

\* Composite.Judge up to the first request, which is the first it counts.
LEMMA LookUpKeeps ==
  ASSUME IInv, NEW i \in DOMAIN calls, LookUp(i)
  PROVE  IInv' /\ game' = game
<1> DEFINE c == calls[i]
<1>1. c \in Counted /\ \A d \in Counted : CallsOK([calls EXCEPT ![i] = d])
  BY CallsSteps DEF IInv
<1>2. c.text \in Texts /\ Key(c) \in Questions \X Texts /\ c.pc = "asked"
  BY <1>1 DEF Counted, Calls, Key, LookUp
<1>3. UNCHANGED <<engine, room, useSchema, flaky, moves>>
  BY DEF LookUp
<1>4. CASE ExactMatch(c.text)
  <2>1. Posts(i, FuzzyJudge(c.text)) /\ cache' = cache
    BY <1>4 DEF LookUp
  <2>2. FuzzyJudge(c.text) \in Verdicts
    BY <1>2, TextsAssumption DEF FuzzyJudge
  <2>3. CallsOK(calls') /\ ServiceOK'
    BY <1>3, <2>1, <2>2, PostsKeeps DEF IInv, ServiceOK
  <2> QED
    BY <1>3, <2>3, ServiceKeeps
<1>5. CASE ~ExactMatch(c.text) /\ Entries(Key(c)) # {}
  <2>1. PICK e \in Entries(Key(c)) : Posts(i, cache[e].verdict) /\ Put(Key(c), cache[e].verdict)
    BY <1>5 DEF LookUp
  <2>2. e \in 1..Len(cache)
    BY LenProperties DEF Entries, IInv, ServiceOK
  <2>3. cache[e] \in Kept
    BY <2>2, ElementOfSeq DEF IInv, ServiceOK
  <2>4. cache[e].verdict \in Verdicts
    BY <2>3 DEF Kept
  <2>5. CallsOK(calls')
    BY <2>1, <2>4, PostsKeeps
  <2>6. ServiceOK'
    BY <1>2, <1>3, <2>1, <2>4, PutKeeps DEF IInv
  <2> QED
    BY <1>3, <2>5, <2>6, ServiceKeeps
<1>6. CASE ~ExactMatch(c.text) /\ Entries(Key(c)) = {}
  <2> DEFINE d == [c EXCEPT !.pc = "sent", !.schema = useSchema, !.requests = 1]
  <2>1. calls' = [calls EXCEPT ![i] = d] /\ cache' = cache
    BY <1>6 DEF LookUp
  <2>2. d \in Counted
    <3>1. d \in Calls /\ d.pc = "sent" /\ d.requests = 1 /\ d.attempt \in {0, 1}
      BY <1>1 DEF Counted, Calls, IInv, ServiceOK
    <3> HIDE DEF d
    <3> QED
      BY <3>1 DEF Counted, Requested
  <2> HIDE DEF d
  <2>3. CallsOK(calls') /\ ServiceOK'
    BY <1>1, <1>3, <2>1, <2>2 DEF IInv, ServiceOK
  <2> QED
    BY <1>3, <2>3, ServiceKeeps
<1> QED
  BY <1>4, <1>5, <1>6

\* doWithRetry.
LEMMA RepeatKeeps ==
  ASSUME IInv, NEW i \in DOMAIN calls, Repeat(i)
  PROVE  IInv' /\ game' = game
<1> DEFINE c == calls[i]
           d == [c EXCEPT !.attempt = 1, !.requests = c.requests + 1]
<1>1. c \in Counted /\ \A e \in Counted : CallsOK([calls EXCEPT ![i] = e])
  BY CallsSteps DEF IInv
<1>2. calls' = [calls EXCEPT ![i] = d] /\ c.pc = "sent" /\ c.attempt = 0
  BY DEF Repeat
<1>3. c \in Calls /\ c.requests \in Nat /\ c.schema \in BOOLEAN /\ c.requests <= (IF c.schema THEN 1 ELSE 3)
  BY <1>1, <1>2 DEF Counted, Calls, Requested
<1> HIDE DEF c
<1>4. d \in Calls /\ d.pc = "sent" /\ d.attempt = 1 /\ d.requests = c.requests + 1
  <2>1. c.requests + 1 \in Nat
    BY <1>3
  <2> QED
    BY <1>2, <1>3, <2>1 DEF Calls
<1>8. d.schema = c.schema
  BY <1>3 DEF Calls
<1> HIDE DEF d
<1>5. d.requests <= (IF d.schema THEN 1 ELSE 3) + d.attempt /\ d.requests <= 4
  BY <1>3, <1>4, <1>8
<1>6. d \in Counted
  BY <1>4, <1>5 DEF Counted, Requested
<1>7. CallsOK(calls') /\ ServiceOK'
  BY <1>1, <1>2, <1>6 DEF Repeat, IInv, ServiceOK
<1> QED
  BY <1>7, ServiceKeeps DEF Repeat

\* complete: the two requests with the schema are behind it.
LEMMA WithoutSchemaKeeps ==
  ASSUME IInv, NEW i \in DOMAIN calls, WithoutSchema(i)
  PROVE  IInv' /\ game' = game
<1> DEFINE c == calls[i]
           d == [c EXCEPT !.schema = FALSE, !.attempt = 0, !.requests = c.requests + 1]
<1>1. c \in Counted /\ \A e \in Counted : CallsOK([calls EXCEPT ![i] = e])
  BY CallsSteps DEF IInv
<1>2. calls' = [calls EXCEPT ![i] = d] /\ c.pc = "sent" /\ c.schema
  BY DEF WithoutSchema
<1>3. c \in Calls /\ c.requests \in Nat /\ c.attempt \in {0, 1} /\ c.requests <= 1 + c.attempt
  BY <1>1, <1>2 DEF Counted, Calls, Requested
<1> HIDE DEF c
<1>4. d \in Calls /\ d.pc = "sent" /\ d.attempt = 0 /\ d.requests = c.requests + 1 /\ d.schema = FALSE
  <2>1. c.requests + 1 \in Nat
    BY <1>3
  <2>2. d \in Calls /\ d.pc = "sent" /\ d.attempt = 0 /\ d.requests = c.requests + 1
    BY <1>2, <1>3, <2>1 DEF Calls
  <2>3. d.schema = FALSE
    BY <1>3 DEF Calls
  <2> QED
    BY <2>2, <2>3
<1> HIDE DEF d
<1>5. d.requests <= (IF d.schema THEN 1 ELSE 3) + d.attempt /\ d.requests <= 4
  BY <1>3, <1>4
<1>6. d \in Counted
  BY <1>4, <1>5 DEF Counted, Requested
<1>7. CallsOK(calls') /\ ServiceOK'
  BY <1>1, <1>2, <1>6 DEF WithoutSchema, IInv, ServiceOK
<1> QED
  BY <1>7, ServiceKeeps DEF WithoutSchema

\* judgeAI.
LEMMA ServiceAnswersKeeps ==
  ASSUME IInv, NEW i \in DOMAIN calls, NEW v \in Verdicts, ServiceAnswers(i, v)
  PROVE  IInv' /\ game' = game
<1>1. calls[i] \in Counted
  BY CallsSteps DEF IInv
<1>2. Key(calls[i]) \in Questions \X Texts
  BY <1>1 DEF Counted, Calls, Key
<1>3. CallsOK(calls')
  BY PostsKeeps DEF ServiceAnswers
<1>4. ServiceOK'
  BY <1>2, PutKeeps DEF ServiceAnswers, IInv
<1> QED
  BY <1>3, <1>4, ServiceKeeps DEF ServiceAnswers

\* mapCtxErr.
LEMMA ServiceFailsKeeps ==
  ASSUME IInv, NEW i \in DOMAIN calls, ServiceFails(i)
  PROVE  IInv' /\ game' = game
<1>1. calls[i].text \in Texts
  BY CallsSteps DEF IInv, Counted, Calls
<1>2. FuzzyJudge(calls[i].text) \in Verdicts
  BY <1>1, TextsAssumption DEF FuzzyJudge
<1> QED
  BY <1>2, ServiceAnswersKeeps DEF ServiceFails

\* onAIVerdict: what the judge says early is the room's only where no showman is.
LEMMA OnAIVerdictKeeps ==
  ASSUME IInv, NEW i \in DOMAIN calls, OnAIVerdict(i)
  PROVE  IInv' /\ Standing
<1> DEFINE c == calls[i]
           rest == RemoveAt(calls, i)
           h == Validate(game, c.person, c.verdict, "room")
<1>1. mode # "human" /\ c \in Counted /\ CallsOK(rest)
  BY CallsSteps DEF IInv
<1>2. c.person \in Players /\ c.verdict \in Verdicts /\ c.text \in Texts
  BY <1>1 DEF Counted, Calls, Requested, OnAIVerdict
<1>3. UNCHANGED <<table, paused, mode, human, cache, useSchema, flaky, moves>>
  BY DEF OnAIVerdict
<1>4. CASE calls' = rest /\ UNCHANGED <<game, hybrid, lost>>
  <2> HIDE DEF rest
  <2>1. CallsOK(calls)'
    BY <1>1, <1>3, <1>4, CallsNext
  <2>2. EngineOK' /\ RoomOK' /\ TimerOK' /\ ServiceOK'
    BY <1>3, <1>4 DEF IInv, EngineOK, Shape, RoomOK, TimerOK, ServiceOK
  <2> QED
    BY <1>4, <2>1, <2>2 DEF IInv, Standing
<1>5. CASE /\ ValidationPending(c) /\ ~c.preview /\ calls' = rest /\ UNCHANGED <<game, lost>>
           /\ hybrid' = [question |-> game.question, person |-> c.person, text |-> c.text, is |-> c.verdict]
  <2>1. game.sub = "validating" /\ game.pending = [person |-> c.person, text |-> c.text]
    BY <1>5 DEF ValidationPending
  <2>2. game.question \in Questions
    BY <2>1 DEF IInv, EngineOK, Shape, Games
  <2>3. TimerOK'
    BY <1>2, <1>5, <2>1, <2>2 DEF TimerOK
  <2> HIDE DEF rest
  <2>4. CallsOK(calls)'
    BY <1>1, <1>3, <1>5, CallsNext
  <2>5. EngineOK' /\ RoomOK' /\ ServiceOK'
    BY <1>3, <1>5 DEF IInv, EngineOK, Shape, RoomOK, ServiceOK
  <2> QED
    BY <1>5, <2>3, <2>4, <2>5 DEF IInv, Standing
<1>6. CASE ~(mode = "hybrid" /\ human) /\ Apply(c, c.verdict, rest)
  <2>1. ~human
    BY <1>1, <1>6 DEF IInv, RoomOK
  <2>2. game' = h /\ hybrid' = Observe(h) /\ calls' \in {rest, Asked(rest, h)} /\ lost' \in BOOLEAN
    <3>1. game' = h /\ hybrid' = Observe(h) /\ calls' \in {rest, Asked(rest, h)}
      BY <1>6 DEF Apply
    <3>2. lost' \in BOOLEAN
      BY <1>6 DEF Apply, IInv, RoomOK
    <3> QED
      BY <3>1, <3>2
  <2> HIDE DEF c, rest, h
  <2> QED
    BY <1>1, <1>2, <1>3, <2>1, <2>2, ValidateKeeps DEF h
<1> QED
  BY <1>4, <1>5, <1>6 DEF OnAIVerdict

\* applyHybrid: the answer was given at the button or is revealed.
LEMMA ApplyHybridKeeps ==
  ASSUME IInv, ApplyHybrid
  PROVE  IInv' /\ Standing
<1> DEFINE h == Validate(game, hybrid.person, hybrid.is, "room")
<1>1. UNCHANGED <<table, paused, mode, human, cache, useSchema, flaky, moves>> /\ hybrid' = NoTimer
  BY DEF ApplyHybrid
<1>2. hybrid.person \in Players /\ hybrid.is \in Verdicts /\ CallsOK(calls)
  BY DEF ApplyHybrid, IInv, TimerOK
<1>3. CASE game' = h /\ game.sub = "validating" /\ calls' \in {calls, Asked(calls, h)} /\ lost' \in BOOLEAN
  BY <1>1, <1>2, <1>3, ValidateKeeps
<1>4. CASE UNCHANGED <<game, calls, lost>>
  <2>1. EngineOK' /\ RoomOK' /\ TimerOK' /\ ServiceOK'
    BY <1>1, <1>4 DEF IInv, EngineOK, Shape, RoomOK, TimerOK, ServiceOK
  <2>2. CallsOK(calls)'
    BY <1>1, <1>2, <1>4, CallsNext
  <2> QED
    BY <1>4, <2>1, <2>2 DEF IInv, Standing
<1>5. lost' \in BOOLEAN
  BY DEF ApplyHybrid, IInv, RoomOK
<1> QED
  BY <1>3, <1>4, <1>5 DEF ApplyHybrid
-----------------------------------------------------------------------------
(* The theorems.                                                           *)

\* The first state: no question, no timer, no call.
LEMMA InitHolds ==
  ASSUME Init
  PROVE  IInv
<1>1. PICK s \in Setups : mode = s.mode /\ table = s.table /\ flaky = s.flaky /\ moves = s.moves
  BY DEF Init
<1>2. /\ mode \in {"human", "ai", "hybrid"} /\ table \subseteq Questions /\ moves \in Nat
  BY <1>1, SetupsAssumption
<1>3. flaky \in BOOLEAN
  BY <1>1, SetupsAssumption
<1>4. game = NoQuestion /\ paused = FALSE /\ hybrid = NoTimer /\ calls = <<>> /\ cache = <<>>
  BY DEF Init
<1>5. useSchema \in BOOLEAN /\ lost \in BOOLEAN /\ human \in BOOLEAN /\ (human => mode # "ai")
  BY DEF Init
<1>6. EngineOK
  BY <1>2, <1>4, NoQuestionGame DEF EngineOK
<1>7. CallsOK(calls)
  BY <1>4, EmptySeq DEF CallsOK
<1>8. cache \in Seq(Kept) /\ Len(cache) <= CacheSize
  BY <1>4, EmptySeq, BoundsAssumption
<1>9. ServiceOK
  BY <1>3, <1>5, <1>8 DEF ServiceOK
<1>10. RoomOK
  BY <1>2, <1>5 DEF RoomOK
<1>11. TimerOK
  BY <1>4 DEF TimerOK
<1> QED
  BY <1>6, <1>7, <1>9, <1>10, <1>11 DEF IInv

\* Every step of the judge keeps the invariant and the early verdicts.
LEMMA StepKeeps ==
  ASSUME IInv, Next
  PROVE  IInv' /\ Standing
<1>1. game'.pre = game.pre \/ game'.question # game.question => Standing
  BY DEF Standing
<1>2. ASSUME NEW q \in Questions, StartQuestion(q) PROVE IInv' /\ Standing
  <2>1. game.question = None /\ game'.question = q
    BY <1>2, NoQuestionGame DEF StartQuestion, IInv, EngineOK, Shape, Games
  <2> QED
    BY <1>1, <1>2, <2>1, StartQuestionKeeps, QuestionsAssumption
<1>3. ASSUME NEW p \in Players, Press(p) PROVE IInv' /\ Standing
  <2>1. game'.pre = game.pre
    BY <1>3 DEF Press, IInv, EngineOK, Games
  <2> QED
    BY <1>1, <1>3, <2>1, PressKeeps
<1>4. ASSUME NEW p \in Players, NEW x \in Texts, Answer(p, x) \/ AnswerHidden(p, x) PROVE IInv' /\ Standing
  BY <1>1, <1>4, AnswerKeeps, AnswerHiddenKeeps
<1>5. ASSUME NEW p \in Players, NEW is \in Verdicts, ShowmanValidates(p, is) PROVE IInv' /\ Standing
  BY <1>5, ShowmanValidatesKeeps
<1>6. CASE Timeouts
  <2>1. CASE TimeoutAnswering
    BY <1>1, <2>1, TimeoutAnsweringKeeps
  <2>2. CASE TimeoutHiddenAnswering
    BY <1>1, <2>2, TimeoutHiddenAnsweringKeeps
  <2>3. CASE TimeoutShowmanDecision
    BY <2>3, TimeoutShowmanDecisionKeeps
  <2>4. CASE TimeoutReflection
    BY <2>4, TimeoutReflectionKeeps
  <2> QED
    BY <1>6, <2>1, <2>2, <2>3, <2>4 DEF Timeouts
<1>7. CASE Pause \/ Resume
  BY <1>1, <1>7, PausesKeep
<1>8. CASE MoveForward
  BY <1>1, <1>8, MoveForwardKeeps
<1>9. CASE MoveBack
  BY <1>9, MoveBackKeeps
<1>10. CASE ShowmanLeaves \/ ShowmanJoins
  BY <1>1, <1>10, SeatKeeps
<1>11. ASSUME NEW i \in DOMAIN calls, Service(i) PROVE IInv' /\ Standing
  <2>1. IInv' /\ game' = game
    BY <1>11, LookUpKeeps, RepeatKeeps, WithoutSchemaKeeps, ServiceFailsKeeps DEF Service
  <2> QED
    BY <1>1, <2>1
<1>12. ASSUME NEW i \in DOMAIN calls, OnAIVerdict(i) PROVE IInv' /\ Standing
  BY <1>12, OnAIVerdictKeeps
<1>13. ASSUME NEW i \in DOMAIN calls, NEW v \in Verdicts, ServiceAnswers(i, v) PROVE IInv' /\ Standing
  BY <1>1, <1>13, ServiceAnswersKeeps
<1>14. CASE ApplyHybrid
  BY <1>14, ApplyHybridKeeps
<1> QED
  BY <1>2, <1>3, <1>4, <1>5, <1>6, <1>7, <1>8, <1>9, <1>10, <1>11, <1>12, <1>13, <1>14 DEF Next

\* A step that changes nothing.
LEMMA StutterKeeps ==
  ASSUME IInv, UNCHANGED vars
  PROVE  IInv'
<1>1. UNCHANGED <<engine, room, moves>> /\ UNCHANGED service
  BY DEF vars
<1>2. CallsOK(calls')
  BY <1>1 DEF IInv, service
<1>3. ServiceOK'
  BY <1>1 DEF IInv, ServiceOK, service
<1> QED
  BY <1>1, <1>2, <1>3, ServiceKeeps

\* The parts of the invariant hold in every state of the judge.
THEOREM Invariant == Spec => []IInv
<1>1. Init => IInv
  BY InitHolds
<1>2. IInv /\ [Next]_vars => IInv'
  BY StepKeeps, StutterKeeps
<1> QED
  BY <1>1, <1>2, PTL DEF Spec

\* Every variable of the judge has its type.
THEOREM TypeCorrect == Spec => []TypeOK
<1>1. IInv => TypeOK
  <2> SUFFICES ASSUME IInv PROVE TypeOK
    OBVIOUS
  <2>1. calls \in Seq(Calls)
    <3>1. Counted \subseteq Calls
      BY DEF Counted
    <3> QED
      BY <3>1, SeqMonotonic DEF IInv, CallsOK
  <2>2. game \in Games /\ table \subseteq Questions /\ paused \in BOOLEAN
    BY DEF IInv, EngineOK
  <2>3. mode \in {"human", "ai", "hybrid"} /\ human \in BOOLEAN /\ lost \in BOOLEAN /\ moves \in Nat
    BY DEF IInv, RoomOK
  <2>4. hybrid = NoTimer \/ (hybrid.question \in Questions /\ hybrid.person \in Players
                             /\ hybrid.text \in Texts /\ hybrid.is \in Verdicts)
    BY DEF IInv, TimerOK
  <2>5. /\ cache \in Seq([key : Questions \X Texts, verdict : Verdicts]) /\ Len(cache) <= CacheSize
        /\ useSchema \in BOOLEAN /\ flaky \in BOOLEAN
    BY DEF IInv, ServiceOK, Kept
  <2> QED
    BY <2>1, <2>2, <2>3, <2>4, <2>5 DEF TypeOK
<1> QED
  BY <1>1, Invariant, PTL

\* cancelHybrid comes with every verdict and every end of a question: the
\* confirmation that runs is for the answer that waits.
THEOREM TheConfirmationIsCurrent == Spec => []ConfirmationIsCurrent
<1>1. IInv => ConfirmationIsCurrent
  BY DEF IInv, EngineOK, Shape, TimerOK, ConfirmationIsCurrent
<1> QED
  BY <1>1, Invariant, PTL

\* complete and doWithRetry: at most four requests for one judgement.
THEOREM RequestsStayBounded == Spec => []RequestsAreBounded
<1>1. IInv => RequestsAreBounded
  <2> SUFFICES ASSUME IInv, NEW i \in DOMAIN calls PROVE calls[i].requests <= 4
    BY DEF RequestsAreBounded
  <2>1. calls[i] \in Counted
    BY CallsSteps DEF IInv
  <2> QED
    BY <2>1 DEF Counted, Requested
<1> QED
  BY <1>1, Invariant, PTL

\* onAIVerdict: what the showman said early no later verdict of the judge
\* changes while a showman is there.
THEOREM EarlyVerdictsStand == Spec => EarlyVerdictStands
<1>1. IInv /\ [Next]_vars => [Standing]_vars
  BY StepKeeps
<1> QED
  BY <1>1, Invariant, PTL DEF Spec, EarlyVerdictStands, Standing
=============================================================================
