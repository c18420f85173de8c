-------------------------- MODULE RoundFlowProofs ---------------------------
(***************************************************************************)
(* What is proved of the rounds and of the secrets (RoundFlow), for every  *)
(* pack, mode, number of players and bound: the types, that RoundFlow      *)
(* implements Rounds, that a returned question leaves no trace in the      *)
(* scores, that a secret is given to somebody else, and that the players   *)
(* choose in turn in the turn-taking mode.                                 *)
(*                                                                         *)
(* The functions of RoundFlow go from game to game, so a lemma on each     *)
(* says what it makes of a game, in terms of the fields that matter to     *)
(* Rounds; the steps are then put together from them.                      *)
(***************************************************************************)
EXTENDS RoundFlow, FiniteSetTheorems, SequenceTheorems, WellFoundedInduction, TLAPS

Tables == rules.tables
InRound == {"roundIntro", "selecting", "question"}

\* A question has scored what its history says.
Balanced(g) == \A p \in Players : g.scores[p] = g.before[p] + g.history[p]

\* A secret that must be given away is offered, and given, to the others.
GivenAway(g) ==
    /\ g.candidates \subseteq g.others
    /\ g.answerer # NoPlayer /\ g.others # {} => g.answerer \in g.others

\* What holds of a game that a function returns to a handler: where the round is
\* dealt, what each phase and each timer belongs to.
Shape(g) ==
    /\ g.stage \in InRound \union {"roundEnd"} => g.round \in DOMAIN Tables /\ g.open \subseteq Tables[g.round]
    /\ g.stage = "question" <=> g.sub # "none"
    /\ g.stage = "question" => g.cell \in Tables[g.round] /\ Balanced(g)
    /\ g.tie # {} => g.stage = "selecting"
    /\ g.candidates # {} => g.sub = "secretTransfer"
    /\ g.timers["reflection"] # "off" => g.sub = "reveal"
    /\ g.timers["stakeMaking"] # "off" => g.sub = "priceSelect"
    /\ g.timers["round"] # "off" => ~g.late /\ g.stage \in InRound
    /\ g.stage = "lobby" => g.round = 0 /\ g.open = {} /\ ~g.late /\ ~paused
    /\ rules.except => GivenAway(g)

IInv == TypeOK /\ Shape(game) /\ game.sub # "end"

\* What the lemmas on the functions assume of the step they are used in.
Setting ==
    /\ active' \subseteq Players /\ IsFiniteSet(active') /\ paused \in BOOLEAN /\ rules \in Setups
-----------------------------------------------------------------------------
(* Sets of numbers.                                                        *)

\* A set within another.
Within(Y, X) == Y \subseteq X /\ Y # X

\* Of finite sets there is one that no other is within.
LEMMA SmallestSet ==
  ASSUME NEW S, NEW T, T # {}, \A X \in T : X \subseteq S /\ IsFiniteSet(X)
  PROVE  \E X \in T : \A Y \in T : ~Within(Y, X)
<1>1. T \subseteq FiniteSubsetsOf(S)
  BY DEF FiniteSubsetsOf
<1> DEFINE R == StrictSubsetOrdering(S)
           F == FiniteSubsetsOf(S)
<1>0. IsWellFoundedOn(R, F) /\ T \subseteq F
  BY <1>1, FS_StrictSubsetOrderingWellFounded
<1> HIDE DEF R, F
<1>2. PICK X \in T : \A Y \in T : ~(<<Y, X>> \in R)
  BY <1>0, WFMin
<1>3. \A Y \in T : Within(Y, X) => <<Y, X>> \in R
  BY DEF R, StrictSubsetOrdering, Within
<1> QED
  BY <1>2, <1>3

\* Min of a set of naturals that is not empty is in it.
LEMMA MinOfSet ==
  ASSUME NEW S, S \subseteq Nat, S # {}
  PROVE  Min(S) \in S /\ \A x \in S : Min(S) <= x
<1> DEFINE Below(p) == {o \in S : o <= p}
<1>1. \A p \in S : IsFiniteSet(Below(p))
  BY FS_BoundedSetOfNaturals
<1>2. PICK X \in {Below(p) : p \in S} : \A Y \in {Below(p) : p \in S} : ~Within(Y, X)
  <2>0. \A p \in S : Below(p) \subseteq S
    OBVIOUS
  <2>1. {Below(p) : p \in S} # {} /\ \A X \in {Below(p) : p \in S} : X \subseteq S /\ IsFiniteSet(X)
    <3> HIDE DEF Below
    <3> QED
      BY <1>1, <2>0
  <2> DEFINE T == {Below(p) : p \in S}
  <2>2. T # {} /\ \A X \in T : X \subseteq S /\ IsFiniteSet(X)
    BY <2>1
  <2> HIDE DEF T
  <2>3. \E X \in T : \A Y \in T : ~Within(Y, X)
    BY <2>2, SmallestSet
  <2> QED
    BY <2>3 DEF T
<1>3. PICK m \in S : X = Below(m)
  OBVIOUS
<1>4. \A y \in S : m <= y
  <2> SUFFICES ASSUME NEW y \in S, y < m PROVE FALSE
    BY SMT
  <2>1. m \in Nat /\ y \in Nat /\ \A o \in S : o \in Nat
    OBVIOUS
  <2>2. m \in Below(m) /\ m \notin Below(y)
    BY <2>1
  <2>3. \A o \in Below(y) : o \in Below(m)
    BY <2>1
  <2> HIDE DEF Below
  <2>4. Within(Below(y), Below(m))
    BY <2>2, <2>3 DEF Within
  <2> QED
    BY <2>4, <1>2, <1>3
<1> QED
  BY <1>4 DEF Min

\* Max of a finite set of naturals that is not empty is in it.
LEMMA MaxOfSet ==
  ASSUME NEW S, S \subseteq Nat, IsFiniteSet(S), S # {}
  PROVE  Max(S) \in S
<1> DEFINE Above(p) == {o \in S : o >= p}
<1>1. \A p \in S : IsFiniteSet(Above(p))
  BY FS_Subset
<1>2. PICK X \in {Above(p) : p \in S} : \A Y \in {Above(p) : p \in S} : ~Within(Y, X)
  <2>0. \A p \in S : Above(p) \subseteq S
    OBVIOUS
  <2>1. {Above(p) : p \in S} # {} /\ \A X \in {Above(p) : p \in S} : X \subseteq S /\ IsFiniteSet(X)
    <3> HIDE DEF Above
    <3> QED
      BY <1>1, <2>0
  <2> DEFINE T == {Above(p) : p \in S}
  <2>2. T # {} /\ \A X \in T : X \subseteq S /\ IsFiniteSet(X)
    BY <2>1
  <2> HIDE DEF T
  <2>3. \E X \in T : \A Y \in T : ~Within(Y, X)
    BY <2>2, SmallestSet
  <2> QED
    BY <2>3 DEF T
<1>3. PICK m \in S : X = Above(m)
  OBVIOUS
<1>4. \A y \in S : m >= y
  <2> SUFFICES ASSUME NEW y \in S, y > m PROVE FALSE
    BY SMT
  <2>1. m \in Nat /\ y \in Nat /\ \A o \in S : o \in Nat
    OBVIOUS
  <2>2. m \in Above(m) /\ m \notin Above(y)
    BY <2>1
  <2>3. \A o \in Above(y) : o \in Above(m)
    BY <2>1
  <2> HIDE DEF Above
  <2>4. Within(Above(y), Above(m))
    BY <2>2, <2>3 DEF Within
  <2> QED
    BY <2>4, <1>2, <1>3
<1> QED
  BY <1>4 DEF Max

\* Somebody has the lowest score.
LEMMA LowestExists ==
  ASSUME Setting, NEW g \in Games, active' # {}
  PROVE  Lowest(g) # {} /\ Lowest(g) \subseteq Players
<1> DEFINE Under(p) == {o \in active' : g.scores[o] <= g.scores[p]}
           T == {Under(p) : p \in active'}
<1>0. \A p \in active' : g.scores[p] \in Int
  BY DEF Setting, Games
<1>1. T # {} /\ \A X \in T : X \subseteq active' /\ IsFiniteSet(X)
  <2>1. \A p \in active' : Under(p) \subseteq active'
    OBVIOUS
  <2> HIDE DEF Under
  <2>2. \A p \in active' : IsFiniteSet(Under(p))
    BY <2>1, FS_Subset DEF Setting
  <2> QED
    BY <2>1, <2>2
<1> HIDE DEF T
<1>2. PICK X \in T : \A Y \in T : ~Within(Y, X)
  BY <1>1, SmallestSet
<1>3. PICK m \in active' : X = Under(m)
  BY DEF T
<1>4. \A o \in active' : g.scores[m] <= g.scores[o]
  <2> SUFFICES ASSUME NEW o \in active', g.scores[o] < g.scores[m] PROVE FALSE
    BY <1>0
  <2>1. m \in Under(m) /\ m \notin Under(o)
    BY <1>0
  <2>2. \A q \in Under(o) : q \in Under(m)
    BY <1>0
  <2>3. Under(o) \in T
    BY DEF T
  <2> HIDE DEF Under
  <2>4. Within(Under(o), Under(m))
    BY <2>1, <2>2 DEF Within
  <2> QED
    BY <2>3, <2>4, <1>2, <1>3
<1> QED
  BY <1>4 DEF Lowest, Setting
-----------------------------------------------------------------------------
(* The pack and the timers.                                                *)

\* A pack of the setups.
LEMMA PackFacts ==
  ASSUME rules \in Setups
  PROVE  /\ Tables \in Seq(SUBSET (Nat \ {0}))
         /\ DOMAIN Tables = 1..Len(Tables) /\ Len(Tables) \in Nat
         /\ \A r \in DOMAIN Tables : Tables[r] \subseteq Cells /\ Tables[r] \subseteq Nat \ {0}
         /\ \A c \in Cells : c \in Nat \ {0} /\ rules.kind[c] \in CellKinds
         /\ rules.mode = "simple" => \A c \in Cells : rules.kind[c] # "noQuestion"
<1>1. Tables \in Seq(SUBSET (Nat \ {0}))
  BY SetupsAssumption DEF Tables
<1>2. DOMAIN Tables = 1..Len(Tables) /\ Len(Tables) \in Nat /\ \A r \in DOMAIN Tables : Tables[r] \in SUBSET (Nat \ {0})
  BY <1>1, LenProperties, ElementOfSeq
<1>3. \A r \in DOMAIN Tables : Tables[r] \subseteq Cells
  BY DEF Cells, Tables
<1>4. \A c \in Cells : \E r \in DOMAIN Tables : c \in Tables[r]
  BY DEF Cells, Tables
<1>5. \A c \in Cells : c \in Nat \ {0} /\ rules.kind[c] \in CellKinds
  BY <1>2, <1>4, SetupsAssumption DEF Tables
<1>6. rules.mode = "simple" => \A c \in Cells : rules.kind[c] # "noQuestion"
  BY <1>4, SetupsAssumption DEF Tables
<1> QED
  BY <1>1, <1>2, <1>3, <1>5, <1>6

\* The bar of timers alone changes.
SameButTimers(g, h) ==
    /\ h.stage = g.stage /\ h.round = g.round /\ h.open = g.open /\ h.late = g.late
    /\ h.chooser = g.chooser /\ h.tie = g.tie /\ h.cell = g.cell /\ h.sub = g.sub
    /\ h.decider = g.decider /\ h.candidates = g.candidates /\ h.answerer = g.answerer
    /\ h.price = g.price /\ h.scores = g.scores /\ h.history = g.history
    /\ h.before = g.before /\ h.others = g.others /\ h.turns = g.turns

LEMMA ClockGame ==
  ASSUME paused \in BOOLEAN, NEW g \in Games, NEW kind \in Kinds
  PROVE  LET h == Clock(g, kind)
         IN  /\ h \in Games /\ SameButTimers(g, h)
             /\ h.timers = [g.timers EXCEPT ![kind] = Live(paused)]
             /\ \A k \in Kinds \ {kind} : h.timers[k] = g.timers[k]
<1>1. Live(paused) \in TimerStatus
  BY DEF Live, TimerStatus
<1>2. [g.timers EXCEPT ![kind] = Live(paused)] \in [Kinds -> TimerStatus]
  BY <1>1 DEF Games
<1>3. Clock(g, kind) = [g EXCEPT !.timers = [g.timers EXCEPT ![kind] = Live(paused)]]
  BY DEF Clock, StartTimer
<1>4. \A k \in Kinds \ {kind} : [g.timers EXCEPT ![kind] = Live(paused)][k] = g.timers[k]
  BY DEF Games
<1> DEFINE t == [g.timers EXCEPT ![kind] = Live(paused)]
<1> HIDE DEF t
<1>5. [g EXCEPT !.timers = t] \in Games /\ [g EXCEPT !.timers = t].timers = t
  BY <1>2 DEF Games, t
<1>6. SameButTimers(g, [g EXCEPT !.timers = t])
  BY DEF Games, SameButTimers
<1> QED
  BY <1>3, <1>4, <1>5, <1>6 DEF t
-----------------------------------------------------------------------------
(* A question.                                                             *)

\* The fields Rounds sees, and what the question is worth.
Kept(g, h) ==
    /\ h.stage = g.stage /\ h.round = g.round /\ h.open = g.open /\ h.late = g.late
    /\ h.timers["round"] = g.timers["round"]
    /\ h.cell = g.cell /\ h.scores = g.scores

\* Stopping timers changes nothing else, and turns none on.
LEMMA StopGame ==
  ASSUME NEW g \in Games, NEW t \in [Kinds -> TimerStatus],
         \A k \in Kinds : t[k] \in {g.timers[k], "off"}, t["round"] = g.timers["round"]
  PROVE  LET h == [g EXCEPT !.timers = t]
         IN  h \in Games /\ SameButTimers(g, h) /\ h.timers = t /\ (Shape(g) => Shape(h))
<1> DEFINE h == [g EXCEPT !.timers = t]
<1>1. h \in Games /\ h.timers = t
  BY DEF Games
<1>2. SameButTimers(g, h)
  BY DEF Games, SameButTimers
<1> HIDE DEF h
<1>3. Shape(g) => Shape(h)
  BY <1>1, <1>2 DEF Shape, SameButTimers, Balanced, GivenAway, Kinds
<1> QED
  BY <1>1, <1>2, <1>3 DEF h

\* stopKind and stopAllExcept of others than the timer of the round.
LEMMA StopBars ==
  ASSUME NEW g \in Games
  PROVE  /\ \A kinds : "round" \notin kinds =>
                LET t == StopKinds(g.timers, kinds)
                IN  /\ t \in [Kinds -> TimerStatus] /\ t["round"] = g.timers["round"]
                    /\ \A k \in Kinds : t[k] \in {g.timers[k], "off"}
         /\ \A kind \in Kinds \ {"round"} :
                LET t == StopKind(g.timers, kind)
                IN  /\ t \in [Kinds -> TimerStatus] /\ t["round"] = g.timers["round"]
                    /\ t[kind] = "off" /\ \A k \in Kinds : t[k] \in {g.timers[k], "off"}
         /\ LET t == StopAllExcept(g.timers, {"round"})
            IN  /\ t \in [Kinds -> TimerStatus] /\ t["round"] = g.timers["round"]
                /\ \A k \in Kinds \ {"round"} : t[k] = "off"
BY DEF StopKinds, StopKind, StopAllExcept, Games, Kinds, TimerStatus

\* AskChoose: a selection goes on.
LEMMA AskChooseGame ==
  ASSUME paused \in BOOLEAN, NEW g \in Games, Shape(g), g.stage = "selecting"
  PROVE  LET h == AskChoose(g)
         IN  /\ h \in Games /\ Shape(h) /\ Kept(g, h) /\ h.tie = {} /\ h.sub = g.sub
             /\ h.answerer = g.answerer /\ h.others = g.others
<1> DEFINE m == [g EXCEPT !.tie = {}]
           h == Clock(m, "questionSelection")
<1>1. m \in Games /\ m.tie = {} /\ m.timers = g.timers
  BY DEF Games
<1>2. /\ m.stage = g.stage /\ m.round = g.round /\ m.open = g.open /\ m.late = g.late
      /\ m.cell = g.cell /\ m.sub = g.sub /\ m.candidates = g.candidates /\ m.answerer = g.answerer
      /\ m.scores = g.scores /\ m.history = g.history /\ m.before = g.before /\ m.others = g.others
  BY DEF Games
<1> HIDE DEF m
<1>3. /\ h \in Games /\ SameButTimers(m, h)
      /\ \A k \in Kinds \ {"questionSelection"} : h.timers[k] = m.timers[k]
  BY <1>1, ClockGame DEF Kinds
<1>4. AskChoose(g) = h
  BY DEF AskChoose, m
<1> HIDE DEF h
<1>5. /\ h.timers["round"] = g.timers["round"] /\ h.timers["reflection"] = g.timers["reflection"]
      /\ h.timers["stakeMaking"] = g.timers["stakeMaking"]
  BY <1>1, <1>3 DEF Kinds
<1>6. Shape(h)
  BY <1>1, <1>2, <1>3, <1>5 DEF SameButTimers, Shape, Balanced, GivenAway, InRound
<1>7. Kept(g, h) /\ h.tie = {} /\ h.sub = g.sub /\ h.answerer = g.answerer /\ h.others = g.others
  BY <1>1, <1>2, <1>3, <1>5 DEF SameButTimers, Kept
<1> QED
  BY <1>3, <1>4, <1>6, <1>7

\* showAnswer.
LEMMA ShowAnswerGame ==
  ASSUME Setting, NEW g \in Games, Shape(g), g.stage = "question"
  PROVE  LET h == ShowAnswer(g)
         IN  /\ h \in Games /\ Shape(h) /\ Kept(g, h) /\ h.sub = "reveal"
             /\ h.answerer = g.answerer /\ h.others = g.others /\ h.before = g.before
<1> DEFINE t == StopAllExcept(g.timers, {"round"})
           m == [Stop(g, {"round"}) EXCEPT !.sub = "reveal", !.decider = NoPlayer, !.candidates = {}]
<1>1. /\ t \in [Kinds -> TimerStatus] /\ t["round"] = g.timers["round"]
      /\ \A k \in Kinds \ {"round"} : t[k] = "off"
  BY StopBars
<1> HIDE DEF t
<1>2. m = [[g EXCEPT !.timers = t] EXCEPT !.sub = "reveal", !.decider = NoPlayer, !.candidates = {}]
  BY DEF Stop, t
<1>3. /\ m \in Games /\ m.timers = t /\ m.sub = "reveal" /\ m.candidates = {}
  BY <1>1, <1>2 DEF Games
<1>4. /\ m.stage = g.stage /\ m.round = g.round /\ m.open = g.open /\ m.late = g.late
      /\ m.cell = g.cell /\ m.tie = g.tie /\ m.answerer = g.answerer
      /\ m.scores = g.scores /\ m.history = g.history /\ m.before = g.before /\ m.others = g.others
  BY <1>2 DEF Games
<1> HIDE DEF m
<1>5. Shape(m)
  BY <1>1, <1>3, <1>4 DEF Shape, Balanced, GivenAway, InRound, Kinds
<1>6. CASE rules.managed
  <2>1. ShowAnswer(g) = m
    BY <1>6 DEF ShowAnswer, m
  <2> QED
    BY <2>1, <1>1, <1>3, <1>4, <1>5 DEF Kept
<1>7. CASE ~rules.managed
  <2> DEFINE h == Clock(m, "reflection")
  <2>1. ShowAnswer(g) = h
    BY <1>7 DEF ShowAnswer, m
  <2>2. /\ h \in Games /\ SameButTimers(m, h)
        /\ \A k \in Kinds \ {"reflection"} : h.timers[k] = m.timers[k]
    BY <1>3, ClockGame DEF Kinds, Setting
  <2> HIDE DEF h
  <2>3. h.timers["round"] = m.timers["round"] /\ h.timers["stakeMaking"] = m.timers["stakeMaking"]
    BY <2>2 DEF Kinds
  <2>4. Shape(h)
    BY <1>3, <1>5, <2>2, <2>3 DEF SameButTimers, Shape, Balanced, GivenAway
  <2>5. Kept(g, h) /\ h.sub = "reveal" /\ h.answerer = g.answerer /\ h.others = g.others /\ h.before = g.before
    BY <1>1, <1>3, <1>4, <2>2, <2>3 DEF SameButTimers, Kept
  <2> QED
    BY <2>1, <2>2, <2>4, <2>5
<1> QED
  BY <1>6, <1>7

\* NoQuestion forgets the question and nothing else.
LEMMA NoQuestionGame ==
  ASSUME NEW g \in Games
  PROVE  LET h == NoQuestion(g)
         IN  /\ h \in Games
             /\ h.stage = g.stage /\ h.round = g.round /\ h.open = g.open /\ h.late = g.late
             /\ h.chooser = g.chooser /\ h.tie = g.tie /\ h.scores = g.scores /\ h.timers = g.timers
             /\ h.turns = g.turns
             /\ h.cell = 0 /\ h.sub = "none" /\ h.candidates = {} /\ h.answerer = NoPlayer
             /\ h.others = {} /\ h.history = NoScores /\ h.before = NoScores
<1>1. NoScores \in [Players -> Int] /\ NoPlayer \in Players \union {NoPlayer}
  BY DEF NoScores
<1> DEFINE n == NoScores
<1> HIDE DEF n
<1>2. n \in [Players -> Int]
  BY <1>1 DEF n
<1>3. NoQuestion(g) = [g EXCEPT !.cell = 0, !.sub = "none", !.answerer = NoPlayer, !.price = 0,
                                !.decider = NoPlayer, !.candidates = {}, !.history = n, !.before = n,
                                !.others = {}]
  BY DEF NoQuestion, n
<1> DEFINE h == [g EXCEPT !.cell = 0, !.sub = "none", !.answerer = NoPlayer, !.price = 0,
                          !.decider = NoPlayer, !.candidates = {}, !.history = n, !.before = n,
                          !.others = {}]
<1>4. h \in Games
  <2> DEFINE z == [g EXCEPT !.cell = 0]
             c == [z EXCEPT !.price = 0]
             a == [c EXCEPT !.sub = "none", !.answerer = NoPlayer]
             b == [a EXCEPT !.decider = NoPlayer, !.candidates = {}, !.others = {}]
             d == [b EXCEPT !.history = n, !.before = n]
  <2>1. h = d
    BY DEF Games
  <2>3. z \in Games
    BY DEF Games
  <2> HIDE DEF z
  <2>0. c \in Games
    BY <2>3 DEF Games
  <2> HIDE DEF c
  <2>2. a \in Games
    BY <2>0 DEF Games
  <2> HIDE DEF a
  <2>5. b \in Games
    BY <2>2 DEF Games
  <2> HIDE DEF b
  <2>4. d \in Games
    BY <1>2, <2>5 DEF Games
  <2> QED
    BY <2>1, <2>4
<1>5. /\ h.stage = g.stage /\ h.round = g.round /\ h.open = g.open /\ h.late = g.late
      /\ h.chooser = g.chooser /\ h.tie = g.tie /\ h.scores = g.scores /\ h.timers = g.timers
      /\ h.turns = g.turns
      /\ h.cell = 0 /\ h.sub = "none" /\ h.candidates = {} /\ h.answerer = NoPlayer
      /\ h.others = {} /\ h.history = n /\ h.before = n
  BY DEF Games
<1>6. n = NoScores
  BY DEF n
<1> HIDE DEF h
<1>7. NoQuestion(g) = h
  BY <1>3 DEF h
<1> QED
  BY <1>4, <1>5, <1>6, <1>7

\* A closed room.
LEMMA ClosedGame ==
  ASSUME NEW g \in Games
  PROVE  LET h == Closed(g)
         IN  /\ h \in Games /\ Shape(h) /\ h.stage = "closed" /\ h.sub = "none"
             /\ h.round = g.round /\ h.open = g.open
<1> DEFINE m == NoQuestion(g)
           off == [k \in Kinds |-> "off"]
           h == [m EXCEPT !.stage = "closed", !.timers = off, !.tie = {}]
<1>1. /\ m \in Games /\ m.round = g.round /\ m.open = g.open /\ m.sub = "none" /\ m.candidates = {}
      /\ m.answerer = NoPlayer /\ m.others = {}
  BY NoQuestionGame
<1> HIDE DEF m
<1>2. off \in [Kinds -> TimerStatus] /\ \A k \in Kinds : off[k] = "off"
  BY DEF TimerStatus
<1> HIDE DEF off
<1>3. /\ h \in Games /\ h.stage = "closed" /\ h.timers = off /\ h.tie = {}
      /\ h.round = m.round /\ h.open = m.open /\ h.sub = m.sub /\ h.candidates = m.candidates
      /\ h.answerer = m.answerer /\ h.others = m.others
  BY <1>1, <1>2 DEF Games
<1>4. Closed(g) = h
  BY DEF Closed, m, off
<1> HIDE DEF h
<1>5. Shape(h)
  BY <1>1, <1>2, <1>3 DEF Shape, GivenAway, Kinds, InRound
<1> QED
  BY <1>1, <1>3, <1>4, <1>5

\* Scoring is kept in the history.
LEMMA ScoreGame ==
  ASSUME NEW g \in Games, NEW p \in Players, NEW n \in Int
  PROVE  LET h == Score(g, p, n)
         IN  /\ h \in Games
             /\ h.stage = g.stage /\ h.round = g.round /\ h.open = g.open /\ h.late = g.late
             /\ h.chooser = g.chooser /\ h.tie = g.tie /\ h.cell = g.cell /\ h.sub = g.sub
             /\ h.candidates = g.candidates /\ h.answerer = g.answerer /\ h.timers = g.timers
             /\ h.before = g.before /\ h.others = g.others
             /\ Balanced(g) => Balanced(h)
<1> DEFINE s == [g.scores EXCEPT ![p] = @ + n]
           y == [g.history EXCEPT ![p] = @ + n]
           h == [g EXCEPT !.scores = s, !.history = y]
<1>1. g.scores \in [Players -> Int] /\ g.history \in [Players -> Int] /\ g.before \in [Players -> Int]
  BY DEF Games
<1>2. s \in [Players -> Int] /\ y \in [Players -> Int]
  BY <1>1
<1>3. Score(g, p, n) = h
  BY DEF Score, Games
<1>4. \A o \in Players : g.scores[o] = g.before[o] + g.history[o] => s[o] = g.before[o] + y[o]
  <2>1. \A o \in Players : g.scores[o] \in Int /\ g.history[o] \in Int /\ g.before[o] \in Int
    BY <1>1
  <2>2. \A o \in Players : /\ s[o] = IF o = p THEN g.scores[o] + n ELSE g.scores[o]
                           /\ y[o] = IF o = p THEN g.history[o] + n ELSE g.history[o]
    BY <1>1
  <2> HIDE DEF s, y
  <2> QED
    BY <2>1, <2>2
<1> HIDE DEF s, y
<1>5. /\ h \in Games
      /\ h.stage = g.stage /\ h.round = g.round /\ h.open = g.open /\ h.late = g.late
      /\ h.chooser = g.chooser /\ h.tie = g.tie /\ h.cell = g.cell /\ h.sub = g.sub
      /\ h.candidates = g.candidates /\ h.answerer = g.answerer /\ h.timers = g.timers
      /\ h.before = g.before /\ h.others = g.others /\ h.scores = s /\ h.history = y
  BY <1>2 DEF Games
<1> HIDE DEF h
<1>6. Balanced(g) => Balanced(h)
  BY <1>4, <1>5 DEF Balanced
<1> QED
  BY <1>3, <1>5, <1>6

\* A question that is drawn, before its phase is known.
Drawn(g) ==
    /\ g \in Games /\ g.stage = "question" /\ g.round \in DOMAIN Tables /\ g.open \subseteq Tables[g.round]
    /\ g.cell \in Tables[g.round] /\ g.tie = {} /\ Balanced(g)
    /\ g.timers["reflection"] = "off" /\ g.timers["stakeMaking"] = "off"
    /\ g.timers["round"] # "off" => ~g.late

\* What a question of some kinds does by itself: it may be over, or break the game.
Led(g, h, kinds) ==
    /\ h \in Games /\ Shape(h) /\ h.round = g.round /\ h.open = g.open
    /\ \/ h.stage = "closed" /\ rules.kind[g.cell] \in kinds
       \/ /\ h.stage = "question" /\ h.late = g.late /\ h.timers["round"] = g.timers["round"]
          /\ IF h.sub = "end" THEN rules.kind[g.cell] \in kinds ELSE h.scores = g.scores

\* The condition on who receives a secret.
Rightful(g, p) == rules.except /\ p # NoPlayer /\ g.others # {} => p \in g.others

\* secretAfterPrice.
LEMMA AfterPriceGame ==
  ASSUME Setting, NEW g, Drawn(g), g.candidates = {}, Rightful(g, g.answerer), NEW n \in Int
  PROVE  Led(g, AfterPrice(g, n), {"noQuestion", "pricedNoQuestion"})
<1> DEFINE none == {"noQuestion", "pricedNoQuestion"}
           b == [g EXCEPT !.price = n]
<1>1. /\ b \in Games /\ b.stage = g.stage /\ b.round = g.round /\ b.open = g.open /\ b.late = g.late
      /\ b.cell = g.cell /\ b.tie = g.tie /\ b.answerer = g.answerer /\ b.candidates = g.candidates
      /\ b.scores = g.scores /\ b.history = g.history /\ b.before = g.before /\ b.others = g.others
      /\ b.timers = g.timers
  BY DEF Drawn, Games
<1> HIDE DEF b
<1>2. CASE rules.kind[g.cell] \notin none
  <2> DEFINE m == [b EXCEPT !.sub = "play"]
             h == Clock(m, "content")
  <2>1. /\ m \in Games /\ m.sub = "play" /\ m.stage = b.stage /\ m.round = b.round /\ m.open = b.open
        /\ m.late = b.late /\ m.cell = b.cell /\ m.tie = b.tie /\ m.answerer = b.answerer
        /\ m.candidates = b.candidates /\ m.scores = b.scores /\ m.history = b.history
        /\ m.before = b.before /\ m.others = b.others /\ m.timers = b.timers
    BY <1>1 DEF Games
  <2>2. AfterPrice(g, n) = h
    BY <1>2 DEF AfterPrice, b
  <2> HIDE DEF m
  <2>3. h \in Games /\ SameButTimers(m, h) /\ \A k \in Kinds \ {"content"} : h.timers[k] = m.timers[k]
    BY <2>1, ClockGame DEF Kinds, Setting
  <2> HIDE DEF h
  <2>4. /\ h.timers["round"] = g.timers["round"] /\ h.timers["reflection"] = "off"
        /\ h.timers["stakeMaking"] = "off"
    BY <1>1, <2>1, <2>3 DEF Kinds, Drawn
  <2>5. Shape(h)
    BY <1>1, <2>1, <2>3, <2>4 DEF Drawn, Rightful, Shape, Balanced, GivenAway, SameButTimers, InRound
  <2> QED
    BY <1>1, <2>1, <2>2, <2>3, <2>4, <2>5 DEF Led, SameButTimers, Drawn
<1>3. CASE rules.kind[g.cell] \in none /\ g.answerer = NoPlayer
  <2>1. AfterPrice(g, n) = Closed(g)
    BY <1>3 DEF AfterPrice
  <2> QED
    BY <1>3, <2>1, ClosedGame DEF Led, Drawn
<1>4. CASE rules.kind[g.cell] \in none /\ g.answerer # NoPlayer
  <2> DEFINE p == g.answerer
             e == Score(b, p, n)
             t == StopAllExcept(e.timers, {"round"})
             h == [Stop(e, {"round"}) EXCEPT !.sub = "end"]
  <2>1. AfterPrice(g, n) = h
    BY <1>4 DEF AfterPrice, b
  <2>2. p \in Players
    BY <1>4 DEF Drawn, Games
  <2>3. /\ e \in Games /\ e.stage = b.stage /\ e.round = b.round /\ e.open = b.open /\ e.late = b.late
        /\ e.cell = b.cell /\ e.tie = b.tie /\ e.answerer = b.answerer /\ e.candidates = b.candidates
        /\ e.before = b.before /\ e.others = b.others /\ e.timers = b.timers
    BY <1>1, <2>2, ScoreGame
  <2>4. Balanced(e)
    <3>1. Balanced(b)
      BY <1>1 DEF Drawn, Balanced
    <3> QED
      BY <1>1, <2>2, <3>1, ScoreGame
  <2> HIDE DEF e, p
  <2>5. /\ t \in [Kinds -> TimerStatus] /\ t["round"] = e.timers["round"]
        /\ \A k \in Kinds \ {"round"} : t[k] = "off"
    BY <2>3, StopBars
  <2> HIDE DEF t
  <2>6. h = [[e EXCEPT !.timers = t] EXCEPT !.sub = "end"]
    BY DEF Stop, t
  <2>7. /\ h \in Games /\ h.sub = "end" /\ h.timers = t /\ h.stage = e.stage /\ h.round = e.round
        /\ h.open = e.open /\ h.late = e.late /\ h.cell = e.cell /\ h.tie = e.tie
        /\ h.answerer = e.answerer /\ h.candidates = e.candidates /\ h.scores = e.scores
        /\ h.history = e.history /\ h.before = e.before /\ h.others = e.others
    BY <2>3, <2>5, <2>6 DEF Games
  <2> HIDE DEF h
  <2>8. t["reflection"] = "off" /\ t["stakeMaking"] = "off"
    BY <2>5 DEF Kinds
  <2>9. Shape(h)
    BY <1>1, <2>3, <2>4, <2>5, <2>7, <2>8 DEF Drawn, Rightful, Shape, Balanced, GivenAway, InRound
  <2> QED
    BY <1>1, <1>4, <2>1, <2>3, <2>5, <2>7, <2>9 DEF Led, Drawn
<1> QED
  BY <1>2, <1>3, <1>4
\* secretRecipientChosen: the price is asked, or the question goes on.
LEMMA RecipientChosenGame ==
  ASSUME Setting, NEW g, Drawn(g), NEW p \in Players \union {NoPlayer}, Rightful(g, p)
  PROVE  Led(g, RecipientChosen(g, p), {"noQuestion"})
<1> DEFINE priced == {"priced", "pricedNoQuestion"}
           b == [g EXCEPT !.answerer = p, !.chooser = p, !.decider = NoPlayer, !.candidates = {}]
<1>1. /\ b \in Games /\ b.stage = g.stage /\ b.round = g.round /\ b.open = g.open /\ b.late = g.late
      /\ b.cell = g.cell /\ b.tie = g.tie /\ b.answerer = p /\ b.candidates = {}
      /\ b.scores = g.scores /\ b.history = g.history /\ b.before = g.before /\ b.others = g.others
      /\ b.timers = g.timers
  BY DEF Drawn, Games
<1> HIDE DEF b
<1>2. Drawn(b)
  BY <1>1 DEF Drawn, Balanced
<1>3. CASE rules.kind[g.cell] \in priced
  <2> DEFINE m == [b EXCEPT !.sub = "priceSelect"]
             h == Clock(m, "stakeMaking")
  <2>1. /\ m \in Games /\ m.sub = "priceSelect" /\ m.stage = b.stage /\ m.round = b.round
        /\ m.open = b.open /\ m.late = b.late /\ m.cell = b.cell /\ m.tie = b.tie
        /\ m.answerer = b.answerer /\ m.candidates = b.candidates /\ m.scores = b.scores
        /\ m.history = b.history /\ m.before = b.before /\ m.others = b.others /\ m.timers = b.timers
    BY <1>1 DEF Games
  <2>2. RecipientChosen(g, p) = h
    BY <1>3 DEF RecipientChosen, b
  <2> HIDE DEF m
  <2>3. h \in Games /\ SameButTimers(m, h) /\ \A k \in Kinds \ {"stakeMaking"} : h.timers[k] = m.timers[k]
    BY <2>1, ClockGame DEF Kinds, Setting
  <2> HIDE DEF h
  <2>4. h.timers["round"] = g.timers["round"] /\ h.timers["reflection"] = "off"
    BY <1>1, <2>1, <2>3 DEF Kinds, Drawn
  <2>5. Shape(h)
    BY <1>1, <2>1, <2>3, <2>4 DEF Drawn, Rightful, Shape, Balanced, GivenAway, SameButTimers, InRound
  <2> QED
    BY <1>1, <2>1, <2>2, <2>3, <2>4, <2>5 DEF Led, SameButTimers, Drawn
<1>4. CASE rules.kind[g.cell] \notin priced
  <2>1. RecipientChosen(g, p) = AfterPrice(b, Price)
    BY <1>4 DEF RecipientChosen, b
  <2>2. Rightful(b, b.answerer)
    BY <1>1 DEF Rightful
  <2>3. Price \in Int
    BY NumbersAssumption
  <2>4. Led(b, AfterPrice(b, Price), {"noQuestion", "pricedNoQuestion"})
    BY <1>1, <1>2, <2>2, <2>3, AfterPriceGame
  <2> QED
    BY <1>1, <1>4, <2>1, <2>4 DEF Led
<1> QED
  BY <1>3, <1>4

\* currentChooser.
LEMMA ChooserIsPlayer ==
  ASSUME Setting, NEW g \in Games
  PROVE  CurrentChooser(g) \in Players \union {NoPlayer}
<1>1. CASE g.chooser \in active'
  BY <1>1 DEF CurrentChooser, Setting
<1>2. CASE g.chooser \notin active' /\ active' = {}
  BY <1>2 DEF CurrentChooser
<1>3. CASE g.chooser \notin active' /\ active' # {}
  <2>1. Lowest(g) # {} /\ Lowest(g) \subseteq Players
    BY <1>3, LowestExists
  <2>2. Min(Lowest(g)) \in Lowest(g)
    BY <2>1, MinOfSet, PlayersAssumption
  <2> QED
    BY <1>3, <2>1, <2>2 DEF CurrentChooser
<1> QED
  BY <1>1, <1>2, <1>3

\* secretBegin.
LEMMA SecretBeginGame ==
  ASSUME Setting, NEW g, Drawn(g), g.answerer = NoPlayer, g.candidates = {}
  PROVE  Led(g, SecretBegin(g), {"noQuestion"})
<1> DEFINE chooser == CurrentChooser(g)
           cands == Candidates(chooser)
           others == active' \ {chooser}
           b == [g EXCEPT !.decider = chooser, !.others = others]
<1>1. chooser \in Players \union {NoPlayer}
  BY ChooserIsPlayer DEF Drawn
<1> HIDE DEF chooser
<1>2. /\ cands \subseteq active' /\ (rules.except => cands = others) /\ others \subseteq Players
      /\ active' \subseteq Players
  BY DEF Candidates, Setting
<1>3. IsFiniteSet(cands)
  BY <1>2, FS_Subset DEF Setting
<1>4. SecretBegin(g) = CASE cands = {} -> RecipientChosen(b, chooser)
          [] Cardinality(cands) = 1 -> RecipientChosen(b, CHOOSE p \in cands : TRUE)
          [] OTHER -> Clock([b EXCEPT !.sub = "secretTransfer", !.candidates = cands], "playerSelection")
  BY DEF SecretBegin, chooser
<1> HIDE DEF cands, others
<1>5. /\ b \in Games /\ b.stage = g.stage /\ b.round = g.round /\ b.open = g.open /\ b.late = g.late
      /\ b.cell = g.cell /\ b.tie = g.tie /\ b.answerer = g.answerer /\ b.candidates = g.candidates
      /\ b.scores = g.scores /\ b.history = g.history /\ b.before = g.before /\ b.others = others
      /\ b.timers = g.timers
  BY <1>1, <1>2 DEF Drawn, Games
<1> HIDE DEF b
<1>6. Drawn(b)
  BY <1>5 DEF Drawn, Balanced
<1>7. CASE cands = {}
  <2>1. Cardinality(cands) # 1
    BY <1>7, FS_EmptySet
  <2>2. SecretBegin(g) = RecipientChosen(b, chooser)
    BY <1>4, <1>7, <2>1
  <2>3. Rightful(b, chooser)
    BY <1>2, <1>5, <1>7 DEF Rightful
  <2>4. Led(b, RecipientChosen(b, chooser), {"noQuestion"})
    BY <1>1, <1>6, <2>3, RecipientChosenGame
  <2> QED
    BY <1>5, <2>2, <2>4 DEF Led
<1>8. CASE cands # {} /\ Cardinality(cands) = 1
  <2> DEFINE p == CHOOSE p \in cands : TRUE
  <2>1. p \in cands
    BY <1>8
  <2>2. SecretBegin(g) = RecipientChosen(b, p)
    BY <1>4, <1>8
  <2> HIDE DEF p
  <2>3. Rightful(b, p) /\ p \in Players
    BY <1>2, <1>5, <2>1 DEF Rightful
  <2>4. Led(b, RecipientChosen(b, p), {"noQuestion"})
    BY <1>6, <2>3, RecipientChosenGame
  <2> QED
    BY <1>5, <2>2, <2>4 DEF Led
<1>9. CASE cands # {} /\ Cardinality(cands) # 1
  <2> DEFINE m == [b EXCEPT !.sub = "secretTransfer", !.candidates = cands]
             h == Clock(m, "playerSelection")
  <2>1. SecretBegin(g) = h
    BY <1>4, <1>9
  <2>2. /\ m \in Games /\ m.sub = "secretTransfer" /\ m.stage = b.stage /\ m.round = b.round
        /\ m.open = b.open /\ m.late = b.late /\ m.cell = b.cell /\ m.tie = b.tie
        /\ m.answerer = b.answerer /\ m.candidates = cands /\ m.scores = b.scores
        /\ m.history = b.history /\ m.before = b.before /\ m.others = b.others /\ m.timers = b.timers
    BY <1>2, <1>5 DEF Games
  <2> HIDE DEF m
  <2>3. h \in Games /\ SameButTimers(m, h) /\ \A k \in Kinds \ {"playerSelection"} : h.timers[k] = m.timers[k]
    BY <2>2, ClockGame DEF Kinds, Setting
  <2> HIDE DEF h
  <2>4. /\ h.timers["round"] = g.timers["round"] /\ h.timers["reflection"] = "off"
        /\ h.timers["stakeMaking"] = "off"
    BY <1>5, <2>2, <2>3 DEF Kinds, Drawn
  <2>5. Shape(h)
    BY <1>2, <1>5, <2>2, <2>3, <2>4 DEF Drawn, Shape, Balanced, GivenAway, SameButTimers, InRound
  <2> QED
    BY <1>5, <2>1, <2>2, <2>3, <2>4, <2>5 DEF Led, SameButTimers, Drawn
<1> QED
  BY <1>7, <1>8, <1>9

\* A game in a round, where a question may be drawn.
Ready(g) ==
    /\ g \in Games /\ g.round \in DOMAIN Tables /\ g.open \subseteq Tables[g.round]
    /\ g.timers["reflection"] = "off" /\ g.timers["stakeMaking"] = "off"
    /\ g.timers["round"] # "off" => ~g.late

\* startQuestion, as seen from the table: the cell is off it.
Asked(g, h, c) ==
    /\ h \in Games /\ Shape(h) /\ h.round = g.round /\ h.open = g.open \ {c}
    /\ \/ h.stage = "closed" /\ rules.kind[c] = "noQuestion"
       \/ /\ h.stage = "question" /\ h.late = g.late /\ h.timers["round"] = g.timers["round"]
          /\ IF h.sub = "end" THEN rules.kind[c] = "noQuestion" ELSE h.scores = g.scores

LEMMA StartQuestionGame ==
  ASSUME Setting, NEW g, Ready(g), NEW c \in g.open
  PROVE  Asked(g, StartQuestion(g, c), c)
<1> DEFINE m == NoQuestion(g)
           turns == [p \in Players |-> IF p = m.chooser THEN m.turns[p] + 1 ELSE m.turns[p]]
           open == m.open \ {c}
           b == [m EXCEPT !.stage = "question", !.cell = c, !.open = open, !.tie = {},
                          !.before = g.scores, !.price = Price, !.turns = turns]
<1>1. /\ m \in Games
      /\ m.stage = g.stage /\ m.round = g.round /\ m.open = g.open /\ m.late = g.late
      /\ m.chooser = g.chooser /\ m.tie = g.tie /\ m.scores = g.scores /\ m.timers = g.timers
      /\ m.turns = g.turns
      /\ m.cell = 0 /\ m.sub = "none" /\ m.candidates = {} /\ m.answerer = NoPlayer
      /\ m.others = {} /\ m.history = NoScores /\ m.before = NoScores
  BY NoQuestionGame DEF Ready
<1>2. StartQuestion(g, c) = IF rules.kind[c] = "simple" THEN Clock([b EXCEPT !.sub = "play"], "content")
                            ELSE SecretBegin(b)
  <2>1. [NoQuestion(g) EXCEPT !.stage = "question", !.cell = c, !.open = @ \ {c}, !.tie = {},
                              !.before = g.scores, !.price = Price,
                              !.turns = [p \in Players |-> IF p = g.chooser THEN @[p] + 1 ELSE @[p]]] = b
    BY <1>1 DEF Games
  <2> HIDE DEF b
  <2> QED
    BY <2>1 DEF StartQuestion
<1> HIDE DEF m
<1>3. c \in Cells /\ c \in Tables[g.round]
  BY PackFacts DEF Setting, Ready
<1>4. /\ turns \in [Players -> Nat] /\ open \in SUBSET Cells /\ g.scores \in [Players -> Int]
      /\ open \subseteq Tables[g.round] /\ open = g.open \ {c} /\ Price \in Int
  <2>1. m.turns \in [Players -> Nat] /\ m.open \in SUBSET Cells /\ g.scores \in [Players -> Int]
    BY <1>1 DEF Ready, Games
  <2>2. turns \in [Players -> Nat]
    BY <2>1
  <2>3. Price \in Int
    BY NumbersAssumption
  <2> QED
    BY <1>1, <2>1, <2>2, <2>3 DEF Ready
<1> HIDE DEF turns, open
<1>5. /\ b.stage = "question" /\ b.cell = c /\ b.open = open /\ b.tie = {} /\ b.before = g.scores
      /\ b.round = m.round /\ b.late = m.late /\ b.sub = m.sub /\ b.candidates = m.candidates
      /\ b.answerer = m.answerer /\ b.scores = m.scores /\ b.history = m.history
      /\ b.timers = m.timers /\ b.others = m.others
  BY <1>1 DEF Games
<1>6. b \in Games
  <2> DEFINE w == [m EXCEPT !.cell = c]
             x == [w EXCEPT !.stage = "question", !.open = open, !.tie = {}]
             y == [x EXCEPT !.before = g.scores, !.price = Price, !.turns = turns]
  <2>0. w \in Games
    BY <1>1, <1>3 DEF Games
  <2>2. b = y
    BY <1>1 DEF Games
  <2> HIDE DEF w
  <2>1. x \in Games
    BY <1>4, <2>0 DEF Games
  <2> HIDE DEF x, b
  <2>3. y \in Games
    BY <1>4, <2>1 DEF Games
  <2> QED
    BY <2>2, <2>3
<1> HIDE DEF b
<1>7. Balanced(b)
  <2>1. \A p \in Players : b.history[p] = 0 /\ g.scores[p] \in Int
    BY <1>1, <1>4, <1>5 DEF NoScores
  <2> QED
    BY <1>1, <1>5, <2>1 DEF Balanced
<1>8. Drawn(b)
  BY <1>1, <1>3, <1>4, <1>5, <1>6, <1>7 DEF Drawn, Ready
<1>9. CASE rules.kind[c] = "simple"
  <2> DEFINE q == [b EXCEPT !.sub = "play"]
             h == Clock(q, "content")
  <2>1. /\ q \in Games /\ q.sub = "play" /\ q.stage = b.stage /\ q.round = b.round /\ q.open = b.open
        /\ q.late = b.late /\ q.cell = b.cell /\ q.tie = b.tie /\ q.answerer = b.answerer
        /\ q.candidates = b.candidates /\ q.scores = b.scores /\ q.history = b.history
        /\ q.before = b.before /\ q.others = b.others /\ q.timers = b.timers
    BY <1>6 DEF Games
  <2>2. StartQuestion(g, c) = h
    BY <1>2, <1>9
  <2> HIDE DEF q
  <2>3. h \in Games /\ SameButTimers(q, h) /\ \A k \in Kinds \ {"content"} : h.timers[k] = q.timers[k]
    BY <2>1, ClockGame DEF Kinds, Setting
  <2> HIDE DEF h
  <2>4. /\ h.timers["round"] = g.timers["round"] /\ h.timers["reflection"] = "off"
        /\ h.timers["stakeMaking"] = "off"
    BY <1>1, <1>5, <2>1, <2>3 DEF Kinds, Ready
  <2>5. Shape(h)
    BY <1>1, <1>5, <1>8, <2>1, <2>3, <2>4 DEF Drawn, Shape, Balanced, GivenAway, SameButTimers, InRound
  <2> QED
    BY <1>1, <1>4, <1>5, <2>1, <2>2, <2>3, <2>4, <2>5 DEF Asked, SameButTimers
<1>10. CASE rules.kind[c] # "simple"
  <2>1. StartQuestion(g, c) = SecretBegin(b)
    BY <1>2, <1>10
  <2>2. Led(b, SecretBegin(b), {"noQuestion"})
    BY <1>1, <1>5, <1>8, SecretBeginGame
  <2> QED
    BY <1>1, <1>4, <1>5, <2>1, <2>2 DEF Led, Asked
<1> QED
  BY <1>9, <1>10
-----------------------------------------------------------------------------
(* The rounds.                                                             *)

\* What every function on the rounds returns: a game in order, with no question
\* that is over, and the scores it had.
Sound(g, h) == h \in Games /\ Shape(h) /\ h.sub # "end" /\ h.scores = g.scores

\* The next question is chosen, or is already drawn.
Selected(g, h) ==
    /\ Sound(g, h) /\ h.round = g.round /\ h.late = g.late /\ h.timers["round"] = g.timers["round"]
    /\ \/ h.stage = "selecting" /\ h.open = g.open
       \/ h.stage = "question" /\ Sequential /\ \E c \in g.open : h.open = g.open \ {c}

\* beginSelection where there is a cell, time and somebody to choose.
LEMMA SelectionGame ==
  ASSUME Setting, NEW g, Ready(g), g.open # {}, NEW roundStart \in BOOLEAN,
         Sequential \/ (~roundStart /\ g.chooser \in active') \/ active' # {}
  PROVE  Selected(g, Selection(g, roundStart))
<1> DEFINE m == NoQuestion(g)
           b == [m EXCEPT !.stage = "selecting", !.tie = {}]
<1>1. /\ m \in Games
      /\ m.stage = g.stage /\ m.round = g.round /\ m.open = g.open /\ m.late = g.late
      /\ m.chooser = g.chooser /\ m.tie = g.tie /\ m.scores = g.scores /\ m.timers = g.timers
      /\ m.turns = g.turns
      /\ m.cell = 0 /\ m.sub = "none" /\ m.candidates = {} /\ m.answerer = NoPlayer
      /\ m.others = {} /\ m.history = NoScores /\ m.before = NoScores
  BY NoQuestionGame DEF Ready
<1>2. Selection(g, roundStart) =
          CASE Sequential -> StartQuestion(b, Min(g.open))
            [] ~Sequential /\ ~roundStart /\ g.chooser \in active' -> AskChoose(b)
            [] ~Sequential /\ (roundStart \/ g.chooser \notin active') /\ Cardinality(Lowest(g)) = 1 ->
                   AskChoose([b EXCEPT !.chooser = Min(Lowest(g))])
            [] OTHER -> Clock([b EXCEPT !.tie = Lowest(g)], "showmanDecision")
  BY DEF Selection
<1> HIDE DEF m
<1>3. /\ b \in Games /\ b.stage = "selecting" /\ b.tie = {} /\ b.round = g.round /\ b.open = g.open
      /\ b.late = g.late /\ b.chooser = g.chooser /\ b.scores = g.scores /\ b.timers = g.timers
      /\ b.cell = 0 /\ b.sub = "none" /\ b.candidates = {} /\ b.answerer = NoPlayer /\ b.others = {}
  BY <1>1 DEF Games
<1> HIDE DEF b
<1>4. Ready(b)
  BY <1>3 DEF Ready
<1>5. Shape(b)
  BY <1>3 DEF Ready, Shape, GivenAway, InRound
<1>6. CASE Sequential
  <2> DEFINE c == Min(g.open)
  <2>1. g.open \subseteq Nat /\ g.open \subseteq Cells
    BY PackFacts DEF Ready, Setting
  <2>2. c \in g.open
    BY <2>1, MinOfSet
  <2>3. Selection(g, roundStart) = StartQuestion(b, c)
    BY <1>2, <1>6
  <2> HIDE DEF c
  <2>4. rules.kind[c] # "noQuestion"
    BY <1>6, <2>1, <2>2, PackFacts DEF Sequential, Setting
  <2>5. Asked(b, StartQuestion(b, c), c)
    BY <1>3, <1>4, <2>2, StartQuestionGame
  <2> QED
    BY <1>3, <1>6, <2>2, <2>3, <2>4, <2>5 DEF Asked, Selected, Sound
<1>7. CASE ~Sequential /\ ~roundStart /\ g.chooser \in active'
  <2>1. Selection(g, roundStart) = AskChoose(b)
    BY <1>2, <1>7
  <2>2. LET h == AskChoose(b) IN h \in Games /\ Shape(h) /\ Kept(b, h) /\ h.sub = b.sub
    BY <1>3, <1>5, AskChooseGame DEF Setting
  <2> QED
    BY <1>3, <2>1, <2>2 DEF Selected, Sound, Kept
<1>8. CASE ~Sequential /\ (roundStart \/ g.chooser \notin active')
  <2>1. Lowest(g) # {} /\ Lowest(g) \subseteq Players
    BY <1>8, LowestExists DEF Ready
  <2>2. CASE Cardinality(Lowest(g)) = 1
    <3> DEFINE p == Min(Lowest(g))
               q == [b EXCEPT !.chooser = p]
    <3>1. p \in Players
      BY <2>1, MinOfSet, PlayersAssumption
    <3>2. Selection(g, roundStart) = AskChoose(q)
      BY <1>2, <1>8, <2>2
    <3> HIDE DEF p
    <3>3. /\ q \in Games /\ q.stage = b.stage /\ q.tie = b.tie /\ q.round = b.round /\ q.open = b.open
          /\ q.late = b.late /\ q.scores = b.scores /\ q.timers = b.timers
          /\ q.cell = b.cell /\ q.sub = b.sub /\ q.candidates = b.candidates /\ q.answerer = b.answerer
          /\ q.others = b.others
      BY <1>3, <3>1 DEF Games
    <3> HIDE DEF q
    <3>4. Shape(q)
      BY <1>3, <3>3 DEF Ready, Shape, GivenAway, InRound
    <3>5. LET h == AskChoose(q) IN h \in Games /\ Shape(h) /\ Kept(q, h) /\ h.sub = q.sub
      BY <1>3, <3>3, <3>4, AskChooseGame DEF Setting
    <3> QED
      BY <1>3, <3>2, <3>3, <3>5 DEF Selected, Sound, Kept
  <2>3. CASE Cardinality(Lowest(g)) # 1
    <3> DEFINE low == Lowest(g)
               q == [b EXCEPT !.tie = low]
               h == Clock(q, "showmanDecision")
    <3>1. Selection(g, roundStart) = h
      BY <1>2, <1>8, <2>3
    <3>2. low \subseteq Players
      BY <2>1
    <3> HIDE DEF low
    <3>3. /\ q \in Games /\ q.stage = b.stage /\ q.round = b.round /\ q.open = b.open
          /\ q.late = b.late /\ q.scores = b.scores /\ q.timers = b.timers
          /\ q.cell = b.cell /\ q.sub = b.sub /\ q.candidates = b.candidates /\ q.answerer = b.answerer
          /\ q.others = b.others
      BY <1>3, <3>2 DEF Games
    <3> HIDE DEF q
    <3>4. h \in Games /\ SameButTimers(q, h) /\ \A k \in Kinds \ {"showmanDecision"} : h.timers[k] = q.timers[k]
      BY <3>3, ClockGame DEF Kinds, Setting
    <3> HIDE DEF h
    <3>5. /\ h.timers["round"] = g.timers["round"] /\ h.timers["reflection"] = "off"
          /\ h.timers["stakeMaking"] = "off"
      BY <1>3, <3>3, <3>4 DEF Kinds, Ready
    <3>6. Shape(h)
      BY <1>3, <3>3, <3>4, <3>5 DEF Ready, Shape, GivenAway, SameButTimers, InRound
    <3> QED
      BY <1>3, <3>1, <3>3, <3>4, <3>5, <3>6 DEF Selected, Sound, SameButTimers
  <2> QED
    BY <2>2, <2>3
<1> QED
  BY <1>6, <1>7, <1>8

\* endGame.
LEMMA EndGameGame ==
  ASSUME NEW g \in Games
  PROVE  LET h == EndGame(g) IN Sound(g, h) /\ h.stage = "gameEnd"
<1> DEFINE m == NoQuestion(g)
           off == [k \in Kinds |-> "off"]
           h == [m EXCEPT !.stage = "gameEnd", !.timers = off, !.tie = {}, !.late = FALSE]
<1>1. /\ m \in Games /\ m.scores = g.scores /\ m.sub = "none" /\ m.candidates = {}
      /\ m.answerer = NoPlayer /\ m.others = {}
  BY NoQuestionGame
<1>2. EndGame(g) = h
  BY DEF EndGame
<1> HIDE DEF m
<1>3. off \in [Kinds -> TimerStatus] /\ \A k \in Kinds : off[k] = "off"
  BY DEF TimerStatus
<1> HIDE DEF off
<1>4. /\ h \in Games /\ h.stage = "gameEnd" /\ h.timers = off /\ h.tie = {}
      /\ h.scores = m.scores /\ h.sub = m.sub /\ h.candidates = m.candidates
      /\ h.answerer = m.answerer /\ h.others = m.others
  BY <1>1, <1>3 DEF Games
<1> HIDE DEF h
<1>5. Shape(h)
  BY <1>1, <1>3, <1>4 DEF Shape, GivenAway, Kinds, InRound
<1> QED
  BY <1>1, <1>2, <1>4, <1>5 DEF Sound

\* A round that is dealt.
LEMMA DealtGame ==
  ASSUME Setting, NEW g \in Games, NEW r \in DOMAIN Tables
  PROVE  LET h == Dealt(g, r)
         IN  /\ Sound(g, h) /\ Ready(h) /\ h.stage = "roundIntro" /\ h.round = r
             /\ h.open = Tables[r] /\ h.late = FALSE
             /\ h.timers["round"] \in {"off", Live(paused)}
<1> DEFINE m == NoQuestion(g)
           t == [k \in Kinds |-> IF k = "round" /\ rules.timed THEN Live(paused) ELSE "off"]
           s == NoScores
           o == Tables[r]
           h == [m EXCEPT !.stage = "roundIntro", !.round = r, !.open = o, !.late = FALSE,
                          !.tie = {}, !.turns = s, !.timers = t]
<1>1. /\ m \in Games /\ m.scores = g.scores /\ m.sub = "none" /\ m.candidates = {}
      /\ m.answerer = NoPlayer /\ m.others = {}
  BY NoQuestionGame
<1>2. Dealt(g, r) = h
  BY DEF Dealt, Tables
<1> HIDE DEF m
<1>3. /\ t \in [Kinds -> TimerStatus] /\ t["round"] \in {"off", Live(paused)}
      /\ t["reflection"] = "off" /\ t["stakeMaking"] = "off"
  BY DEF TimerStatus, Live, Kinds
<1>4. s \in [Players -> Nat] /\ r \in Nat /\ o \in SUBSET Cells
  <2>1. s \in [Players -> Nat]
    BY DEF NoScores
  <2>2. DOMAIN Tables = 1..Len(Tables) /\ o \subseteq Cells
    BY PackFacts DEF Setting
  <2> QED
    BY <2>1, <2>2
<1> HIDE DEF t, s, o
<1>5. /\ h.stage = "roundIntro" /\ h.round = r /\ h.open = o /\ h.late = FALSE /\ h.tie = {}
      /\ h.timers = t /\ h.scores = m.scores /\ h.sub = m.sub /\ h.candidates = m.candidates
      /\ h.answerer = m.answerer /\ h.others = m.others
  BY <1>1 DEF Games
<1>6. h \in Games
  <2> DEFINE w == [m EXCEPT !.round = r]
             x == [w EXCEPT !.stage = "roundIntro", !.open = o]
             y == [x EXCEPT !.late = FALSE, !.tie = {}]
             z == [y EXCEPT !.turns = s, !.timers = t]
  <2>1. h = z
    BY <1>1 DEF Games
  <2>0. w \in Games
    BY <1>1, <1>4 DEF Games
  <2> HIDE DEF h, w
  <2>2. x \in Games
    BY <1>4, <2>0 DEF Games
  <2> HIDE DEF x
  <2>3. y \in Games
    BY <2>2 DEF Games
  <2> HIDE DEF y
  <2>4. z \in Games
    BY <1>3, <1>4, <2>3 DEF Games
  <2> QED
    BY <2>1, <2>4
<1> HIDE DEF h
<1>7. Shape(h)
  BY <1>1, <1>3, <1>5 DEF o, Shape, GivenAway, InRound
<1> QED
  BY <1>1, <1>2, <1>3, <1>5, <1>6, <1>7 DEF o, Sound, Ready

\* A round from r on is dealt, none before it could be played.
Opened(g, h, r) ==
    /\ Sound(g, h) /\ h.stage \in InRound /\ h.round \in DOMAIN Tables /\ h.round >= r
    /\ \A i \in r..(h.round - 1) : Tables[i] = {}
    /\ h.open \subseteq Tables[h.round] /\ ~h.late /\ h.timers["round"] \in {"off", Live(paused)}

\* The game is over, no round from r on can be played.
Over(g, h, r) ==
    /\ Sound(g, h) /\ h.stage = "gameEnd"
    /\ active' = {} \/ \A i \in DOMAIN Tables : i >= r => Tables[i] = {}

\* startRound.
LEMMA StartRoundGame ==
  ASSUME Setting, NEW g \in Games, NEW r \in Nat \ {0}
  PROVE  Opened(g, StartRound(g, r), r) \/ Over(g, StartRound(g, r), r)
<1> DEFINE h == StartRound(g, r)
           rounds == {i \in DOMAIN Tables : i >= r}
           playable == {i \in rounds : Tables[i] # {} /\ (Sequential \/ active' # {})}
           last == Max(rounds)
           u == [g EXCEPT !.round = last, !.open = Tables[last]]
<1>1. h = CASE rounds = {} -> EndGame(g)
            [] rounds # {} /\ rules.managed -> Dealt(g, Min(rounds))
            [] rounds # {} /\ ~rules.managed /\ playable # {} -> Selection(Dealt(g, Min(playable)), TRUE)
            [] OTHER -> EndGame(u)
  BY DEF StartRound, Tables
<1>2. /\ DOMAIN Tables = 1..Len(Tables) /\ Len(Tables) \in Nat
      /\ \A i \in DOMAIN Tables : Tables[i] \subseteq Cells
  BY PackFacts DEF Setting
<1>3. rounds \subseteq Nat /\ IsFiniteSet(rounds) /\ playable \subseteq rounds /\ rounds \subseteq DOMAIN Tables
  <2>1. IsFiniteSet(1..Len(Tables)) /\ rounds \subseteq 1..Len(Tables)
    BY <1>2, FS_Interval
  <2> QED
    BY <1>2, <2>1, FS_Subset
<1>4. \A n \in DOMAIN Tables : \A i \in r..(n - 1) : i \in rounds
  BY <1>2
<1>5. CASE rounds = {}
  <2>1. h = EndGame(g)
    BY <1>1, <1>5
  <2> QED
    BY <1>5, <2>1, EndGameGame DEF Over
<1>6. CASE rounds # {} /\ rules.managed
  <2> DEFINE m == Min(rounds)
  <2>1. m \in rounds /\ \A i \in rounds : m <= i
    BY <1>3, <1>6, MinOfSet
  <2>2. h = Dealt(g, m)
    BY <1>1, <1>6
  <2> HIDE DEF m, h
  <2>3. m \in DOMAIN Tables /\ m >= r /\ m \in Nat
    BY <1>3, <2>1
  <2>4. \A i \in r..(m - 1) : Tables[i] = {}
    BY <1>3, <1>4, <2>1, <2>3
  <2>5. /\ Sound(g, h) /\ h.stage = "roundIntro" /\ h.round = m
        /\ h.open = Tables[m] /\ h.late = FALSE
        /\ h.timers["round"] \in {"off", Live(paused)}
    BY <2>2, <2>3, DealtGame
  <2> QED
    BY <2>3, <2>4, <2>5 DEF h, Opened, InRound
<1>7. CASE rounds # {} /\ ~rules.managed /\ playable # {}
  <2> DEFINE m == Min(playable)
             d == Dealt(g, m)
  <2>1. m \in playable /\ \A i \in playable : m <= i
    BY <1>3, <1>7, MinOfSet
  <2>2. h = Selection(d, TRUE)
    BY <1>1, <1>7
  <2> HIDE DEF m, h
  <2>3. m \in DOMAIN Tables /\ m >= r /\ m \in Nat /\ Tables[m] # {} /\ (Sequential \/ active' # {})
    BY <1>3, <2>1
  <2>4. \A i \in r..(m - 1) : Tables[i] = {}
    BY <1>3, <1>4, <2>1, <2>3
  <2>5. /\ Sound(g, d) /\ Ready(d) /\ d.stage = "roundIntro" /\ d.round = m
        /\ d.open = Tables[m] /\ d.late = FALSE
        /\ d.timers["round"] \in {"off", Live(paused)}
    BY <2>3, DealtGame
  <2> HIDE DEF d
  <2>6. Selected(d, h)
    BY <2>2, <2>3, <2>5, SelectionGame
  <2>7. Sound(g, h)
    BY <2>5, <2>6 DEF Sound, Selected
  <2> QED
    BY <2>3, <2>4, <2>5, <2>6, <2>7 DEF h, Opened, Selected, InRound
<1>8. CASE rounds # {} /\ ~rules.managed /\ playable = {}
  <2>1. h = EndGame(u)
    BY <1>1, <1>8
  <2>2. last \in rounds
    BY <1>3, <1>8, MaxOfSet
  <2> HIDE DEF last, h
  <2>3. last \in Nat /\ Tables[last] \subseteq Cells
    BY <1>2, <1>3, <2>2
  <2>4. u \in Games /\ u.scores = g.scores
    BY <2>3 DEF Games
  <2>5. Sound(u, h) /\ h.stage = "gameEnd"
    BY <2>1, <2>4, EndGameGame
  <2>6. active' = {} \/ \A i \in DOMAIN Tables : i >= r => Tables[i] = {}
    BY <1>8
  <2> QED
    BY <2>4, <2>5, <2>6 DEF h, Over, Sound
<1> QED
  BY <1>5, <1>6, <1>7, <1>8

\* A round is left: the showman has the next one to open, or it is there at once.
Left(g, h) ==
    \/ Sound(g, h) /\ h.stage = "roundEnd" /\ h.round = g.round
    \/ Opened(g, h, g.round + 1)
    \/ Over(g, h, g.round + 1)

\* endRound.
LEMMA EndRoundGame ==
  ASSUME Setting, NEW g \in Games, g.round \in DOMAIN Tables, g.open \subseteq Tables[g.round]
  PROVE  Left(g, EndRound(g))
<1>1. CASE rules.managed
  <2> DEFINE m == NoQuestion(g)
             off == [k \in Kinds |-> "off"]
             h == [m EXCEPT !.stage = "roundEnd", !.timers = off, !.tie = {}]
  <2>1. /\ m \in Games /\ m.scores = g.scores /\ m.sub = "none" /\ m.candidates = {}
        /\ m.answerer = NoPlayer /\ m.others = {} /\ m.round = g.round /\ m.open = g.open
    BY NoQuestionGame
  <2>2. EndRound(g) = h
    BY <1>1 DEF EndRound
  <2> HIDE DEF m
  <2>3. off \in [Kinds -> TimerStatus] /\ \A k \in Kinds : off[k] = "off"
    BY DEF TimerStatus
  <2> HIDE DEF off
  <2>4. /\ h \in Games /\ h.stage = "roundEnd" /\ h.timers = off /\ h.tie = {} /\ h.round = m.round
        /\ h.open = m.open /\ h.scores = m.scores /\ h.sub = m.sub /\ h.candidates = m.candidates
        /\ h.answerer = m.answerer /\ h.others = m.others
    BY <2>1, <2>3 DEF Games
  <2> HIDE DEF h
  <2>5. Shape(h)
    BY <2>1, <2>3, <2>4 DEF Shape, GivenAway, Kinds, InRound
  <2> QED
    BY <2>1, <2>2, <2>4, <2>5 DEF Sound, Left
<1>2. CASE ~rules.managed
  <2>1. EndRound(g) = StartRound(g, g.round + 1)
    BY <1>2 DEF EndRound
  <2>2. g.round + 1 \in Nat \ {0}
    BY DEF Games
  <2> QED
    BY <2>1, <2>2, StartRoundGame DEF Left
<1> QED
  BY <1>1, <1>2

\* What follows in a round: a choice while there is time, or the end of the round.
Went(g, h) ==
    \/ Left(g, h) /\ (g.late \/ g.open = {} \/ active' = {})
    \/ Selected(g, h) /\ ~g.late

\* beginSelection.
LEMMA BeginSelectionGame ==
  ASSUME Setting, NEW g, Ready(g), NEW roundStart \in BOOLEAN
  PROVE  Went(g, BeginSelection(g, roundStart))
<1> DEFINE stop == g.late \/ g.open = {} \/ (~Sequential /\ (roundStart \/ g.chooser \notin active') /\ active' = {})
<1>1. CASE stop
  BY <1>1, EndRoundGame DEF BeginSelection, Ready, Went
<1>2. CASE ~stop
  BY <1>2, SelectionGame DEF BeginSelection, Went
<1> QED
  BY <1>1, <1>2

\* What follows a question: endQuestion.
LEMMA EndQuestionGame ==
  ASSUME Setting, NEW g \in Games, Shape(g), g.stage = "question"
  PROVE  Went(g, EndQuestion(g))
<1> DEFINE t == StopAllExcept(g.timers, {"round"})
           m == [Stop(g, {"round"}) EXCEPT !.sub = "end"]
           c == IF rules.mode = "turnTaking" /\ active' # {} THEN Rotated(m.chooser) ELSE m.chooser
           b == [m EXCEPT !.chooser = c]
<1>1. /\ t \in [Kinds -> TimerStatus] /\ t["round"] = g.timers["round"]
      /\ \A k \in Kinds \ {"round"} : t[k] = "off"
  BY StopBars
<1>2. m = [g EXCEPT !.timers = t, !.sub = "end"]
  BY DEF Stop, Games
<1>3. EndQuestion(g) = BeginSelection([m EXCEPT !.chooser =
            IF rules.mode = "turnTaking" /\ active' # {} THEN Rotated(@) ELSE @], FALSE)
  BY DEF EndQuestion, AfterQuestion
<1> HIDE DEF t
<1>4. /\ m \in Games /\ m.timers = t /\ m.stage = g.stage /\ m.round = g.round /\ m.open = g.open
      /\ m.late = g.late /\ m.scores = g.scores
  BY <1>1, <1>2 DEF Games
<1> HIDE DEF m
<1>5. c \in Players \union {NoPlayer}
  <2>1. active' # {} => Rotated(m.chooser) \in Players
    <3> SUFFICES ASSUME active' # {} PROVE Rotated(m.chooser) \in Players
      OBVIOUS
    <3> DEFINE after == {p \in active' : p > m.chooser}
    <3>1. Min(active') \in active' /\ (after # {} => Min(after) \in after)
      BY MinOfSet, PlayersAssumption DEF Setting
    <3>2. Rotated(m.chooser) = IF m.chooser \in active' /\ after # {} THEN Min(after) ELSE Min(active')
      BY DEF Rotated
    <3> QED
      BY <3>1, <3>2 DEF Setting
  <2>2. m.chooser \in Players \union {NoPlayer}
    BY <1>4 DEF Games
  <2> QED
    BY <2>1, <2>2
<1>6. EndQuestion(g) = BeginSelection(b, FALSE)
  BY <1>3, <1>4 DEF Games
<1> HIDE DEF c
<1>7. /\ b \in Games /\ b.timers = t /\ b.stage = g.stage /\ b.round = g.round /\ b.open = g.open
      /\ b.late = g.late /\ b.scores = g.scores
  BY <1>4, <1>5 DEF Games
<1> HIDE DEF b
<1>8. Ready(b)
  BY <1>1, <1>7 DEF Ready, Shape, Kinds, InRound
<1>9. Went(b, EndQuestion(g))
  BY <1>6, <1>8, BeginSelectionGame
<1> QED
  BY <1>1, <1>7, <1>9 DEF Went, Left, Selected, Opened, Over, Sound
-----------------------------------------------------------------------------
(* What a step looks like to Rounds.                                       *)

\* The views of a game.
LEMMA Looks ==
  ASSUME NEW g, g.late \in BOOLEAN
  PROVE  /\ g.stage = "lobby" => Phase(g) = "before"
         /\ g.stage \in InRound => Phase(g) = "play"
         /\ g.stage = "roundEnd" => Phase(g) = "done"
         /\ g.stage = "gameEnd" => Phase(g) = "over"
         /\ g.stage = "closed" => Phase(g) = "broken"
         /\ g.late /\ g.stage = "selecting" => TimeLeft(g) = "lastCall"
         /\ g.late /\ g.stage # "selecting" => TimeLeft(g) = "up"
         /\ ~g.late /\ g.timers["round"] = "off" => TimeLeft(g) = "none"
         /\ ~g.late /\ g.timers["round"] = "run" => TimeLeft(g) = "running"
         /\ ~g.late /\ g.timers["round"] \notin {"off", "run"} => TimeLeft(g) = "held"
BY DEF Phase, TimeLeft, InRound

\* A pack stays as it is.
LEMMA Views ==
  ASSUME rules' = rules
  PROVE  /\ Phase(game)' = Phase(game') /\ TimeLeft(game)' = TimeLeft(game')
         /\ Instant' = Instant /\ Tables' = Tables
BY DEF Phase, TimeLeft, Instant, Cells, Tables

\* The size of a set is the same in Rounds.
LEMMA SameSize ==
  ASSUME NEW S
  PROVE  Plan!Cardinality(S) = Cardinality(S)
BY DEF Plan!Cardinality, Cardinality

\* Why a round may be left, in the words of RoundFlow.
Leaving ==
    \/ game.stage = "roundEnd" \/ game.late \/ game.timers["round"] = "run"
    \/ game.open = {} \/ (game.open \subseteq Instant /\ Cardinality(game.open) <= 1)
    \/ active' = {} \/ staff' = staff + 1

LEMMA LeavingIsFinished ==
  ASSUME game \in Games, rules' = rules, game.stage \in InRound \union {"roundEnd"}, Leaving
  PROVE  Plan!Dealing /\ Plan!Finished
<1>1. game.late \in BOOLEAN
  BY DEF Games
<1>2. Plan!Dealing
  BY <1>1, Looks DEF Plan!Dealing
<1>3. game.open = {} => game.open \subseteq Instant /\ Cardinality(game.open) <= 1
  BY FS_EmptySet
<1>4. game.stage = "roundEnd" => Phase(game) = "done"
  BY <1>1, Looks
<1>5. game.late \/ game.timers["round"] = "run" => TimeLeft(game) \notin {"none", "held"}
  BY <1>1, Looks
<1> QED
  BY <1>2, <1>3, <1>4, <1>5, SameSize DEF Leaving, Plan!Finished, Plan!Nobody, Plan!Staff

\* A round is dealt, or the game is over: Deal and Finish.
LEMMA DealStep ==
  ASSUME game \in Games, rules \in Setups, paused \in BOOLEAN, rules' = rules,
         game.stage \in InRound \union {"roundEnd"}, Leaving, NEW g, NEW r \in Nat,
         Opened(g, game', r) \/ Over(g, game', r), r = game.round + 1 \/ staff' = staff + 1
  PROVE  Plan!Next
<1>1. Plan!Dealing /\ Plan!Finished
  BY LeavingIsFinished
<1>2. game.round \in Nat /\ game.late \in BOOLEAN
  BY DEF Games
<1>3. Phase(game) \in {"play", "done"}
  BY <1>1 DEF Plan!Dealing
<1>4. CASE Opened(g, game', r)
  <2>1. game'.round \in DOMAIN Tables /\ DOMAIN Tables \subseteq Nat
    BY <1>4, PackFacts DEF Opened
  <2>2. game'.round \in Nat
    BY <2>1
  <2>3. game'.late \in BOOLEAN /\ ~game'.late /\ game'.stage \in InRound
    BY <1>4 DEF Opened, Sound, Games
  <2>4. Phase(game') = "play"
    BY <2>3, Looks
  <2>5. TimeLeft(game') \in {"none", "running", "held"}
    BY <2>3, Looks
  <2>6. staff' = staff + 1 \/ (game'.round > game.round
              /\ \A i \in (game.round + 1)..(game'.round - 1) : Tables[i] = {})
    BY <1>2, <1>4, <2>2 DEF Opened
  <2>7. game'.open \subseteq Tables[game'.round]
    BY <1>4 DEF Opened
  <2>8. Plan!Deal
    BY <1>1, <2>1, <2>4, <2>5, <2>6, <2>7, Views DEF Plan!Deal, Plan!Staff, Tables
  <2> QED
    BY <2>8, Views DEF Plan!Next, Tables
<1>5. CASE Over(g, game', r)
  <2>1. game'.late \in BOOLEAN /\ game'.stage = "gameEnd"
    BY <1>5, Views DEF Over, Sound, Games
  <2>2. Phase(game') = "over"
    BY <2>1, Looks
  <2>3. staff' = staff + 1 \/ active' = {} \/ \A i \in DOMAIN Tables : i >= game.round + 1 => Tables[i] = {}
    BY <1>5 DEF Over
  <2>4. Plan!Finish
    BY <1>1, <1>3, <2>2, <2>3, Views DEF Plan!Finish, Plan!Staff, Plan!Exhausted, Plan!Nobody, Tables
  <2> QED
    BY <2>4, Views DEF Plan!Next, Tables
<1> QED
  BY <1>4, <1>5

\* A round is left: Close, Deal and Finish.
LEMMA LeftStep ==
  ASSUME game \in Games, rules \in Setups, paused \in BOOLEAN, rules' = rules,
         game.stage \in InRound \union {"roundEnd"}, Leaving, NEW g, g.round = game.round, Left(g, game')
  PROVE  Plan!Next
<1>1. CASE Sound(g, game') /\ game'.stage = "roundEnd" /\ game'.round = g.round
  <2>1. game'.late \in BOOLEAN
    BY <1>1 DEF Sound, Games
  <2>2. Phase(game') = "done"
    BY <1>1, <2>1, Looks
  <2>3. Plan!Close
    BY <1>1, <2>2, LeavingIsFinished, Views DEF Plan!Close
  <2> QED
    BY <2>3, Views DEF Plan!Next, Tables
<1>2. CASE ~(Sound(g, game') /\ game'.stage = "roundEnd" /\ game'.round = g.round)
  <2>1. Opened(g, game', game.round + 1) \/ Over(g, game', game.round + 1)
    BY <1>2 DEF Left
  <2>2. game.round + 1 \in Nat
    BY DEF Games
  <2> QED
    BY <2>1, <2>2, DealStep
<1> QED
  BY <1>1, <1>2

\* What Rounds sees stays the same.
LEMMA StillStep ==
  ASSUME game \in Games, game' \in Games, rules' = rules, staff' = staff, game'.round = game.round,
         game'.open = game.open, game'.late = game.late, game'.timers["round"] = game.timers["round"],
         game'.stage = game.stage \/ (game.stage \in InRound /\ game'.stage \in InRound /\ ~game.late)
  PROVE  Plan!Next
<1>1. game.late \in BOOLEAN /\ game'.late \in BOOLEAN
  BY DEF Games
<1>2. Phase(game') = Phase(game)
  <2>1. CASE game'.stage = game.stage
    BY <2>1 DEF Phase
  <2>2. CASE game.stage \in InRound /\ game'.stage \in InRound
    BY <1>1, <2>2, Looks
  <2> QED
    BY <2>1, <2>2
<1>3. TimeLeft(game') = TimeLeft(game)
  <2>1. CASE game'.stage = game.stage
    BY <2>1 DEF TimeLeft
  <2>2. CASE ~game.late
    BY <1>1, <2>2, Looks
  <2> QED
    BY <2>1, <2>2
<1>4. Plan!Presence
  BY <1>2, <1>3, Views DEF Plan!Presence
<1> QED
  BY <1>4, Views DEF Plan!Next, Tables

\* A cell is played.
LEMMA PlayStep ==
  ASSUME game \in Games, game' \in Games, rules' = rules, game'.round = game.round,
         game.stage \in InRound, game'.stage \in InRound,
         game'.late = game.late, game'.timers["round"] = game.timers["round"],
         NEW c \in game.open, game'.open = game.open \ {c},
         ~game.late \/ (game.stage = "selecting" /\ game'.stage = "question")
  PROVE  Plan!Next
<1>1. game.late \in BOOLEAN /\ game'.late \in BOOLEAN
  BY DEF Games
<1>2. Phase(game) = "play" /\ Phase(game') = "play"
  BY <1>1, Looks
<1>3. TimeLeft(game) # "up" /\ TimeLeft(game') = IF TimeLeft(game) = "lastCall" THEN "up" ELSE TimeLeft(game)
  BY <1>1, Looks
<1>4. Plan!Play
  BY <1>2, <1>3, Views DEF Plan!Play
<1> QED
  BY <1>4, Views DEF Plan!Next, Tables

\* The game breaks.
LEMMA BreakStep ==
  ASSUME game \in Games, game' \in Games, rules' = rules, game.stage \in InRound,
         game'.stage = "closed", game'.round = game.round, game'.open \subseteq game.open
  PROVE  Plan!Next
<1>1. game.late \in BOOLEAN /\ game'.late \in BOOLEAN
  BY DEF Games
<1>2. Plan!Break
  BY <1>1, Looks, Views DEF Plan!Break
<1> QED
  BY <1>2, Views DEF Plan!Next, Tables
\* A set within one element.
LEMMA AtMostOne ==
  ASSUME NEW S, NEW c, S \subseteq {c}
  PROVE  Cardinality(S) <= 1
<1>1. S = {} \/ S = {c}
  OBVIOUS
<1> QED
  BY <1>1, FS_EmptySet, FS_Singleton

\* The showman changes the table, or nothing that Rounds sees.
LEMMA ReviseStep ==
  ASSUME game \in Games, game' \in Games, rules' = rules, staff' = staff + 1, game'.round = game.round,
         game'.late = game.late, game'.timers["round"] = game.timers["round"],
         game.stage \in InRound \union {"roundEnd"},
         game'.stage = game.stage \/ (game.stage \in InRound /\ game'.stage \in InRound /\ ~game.late),
         game'.open \subseteq Tables[game.round],
         NEW c, NEW d, game'.open \ game.open \subseteq {c}, game.open \ game'.open \subseteq {d}
  PROVE  Plan!Next
<1>1. game.late \in BOOLEAN /\ game'.late \in BOOLEAN
  BY DEF Games
<1>2. Phase(game') = Phase(game) /\ Phase(game) \in {"play", "done"}
  <2>1. Phase(game) \in {"play", "done"}
    BY <1>1, Looks
  <2>2. CASE game'.stage = game.stage
    BY <2>1, <2>2 DEF Phase
  <2>3. CASE game.stage \in InRound /\ game'.stage \in InRound
    BY <1>1, <2>3, Looks
  <2> QED
    BY <2>1, <2>2, <2>3
<1>3. TimeLeft(game') = TimeLeft(game)
  <2>1. CASE game'.stage = game.stage
    BY <2>1 DEF TimeLeft
  <2>2. CASE ~game.late
    BY <1>1, <2>2, Looks
  <2> QED
    BY <2>1, <2>2
<1>4. /\ Plan!Cardinality(game'.open \ game.open) <= 1
      /\ Plan!Cardinality(game.open \ game'.open) <= 1
  BY AtMostOne, SameSize
<1>5. Plan!Revise
  BY <1>2, <1>3, <1>4, Views DEF Plan!Revise, Plan!Staff, Plan!Dealing, Tables
<1> QED
  BY <1>5, Views DEF Plan!Next, Tables

\* What a handler leaves behind.
Order(h) == h \in Games /\ Shape(h) /\ h.sub # "end"

\* The game goes on after a question, or a round begins.
LEMMA WentStep ==
  ASSUME game \in Games, rules \in Setups, paused \in BOOLEAN, rules' = rules, staff' = staff,
         game.stage \in InRound, NEW m, m.round = game.round, m.open = game.open, m.late = game.late,
         m.timers["round"] = game.timers["round"], Went(m, game')
  PROVE  Order(game') /\ Plan!Next
<1>1. CASE Left(m, game') /\ (m.late \/ m.open = {} \/ active' = {})
  <2>1. Leaving
    BY <1>1 DEF Leaving
  <2>2. Plan!Next
    BY <1>1, <2>1, LeftStep
  <2> QED
    BY <1>1, <2>2 DEF Left, Opened, Over, Sound, Order
<1>2. CASE Selected(m, game') /\ ~m.late
  <2>1. /\ game' \in Games /\ game'.round = game.round /\ game'.late = game.late
        /\ game'.timers["round"] = game.timers["round"]
    BY <1>2 DEF Selected, Sound
  <2>2. CASE game'.stage = "selecting" /\ game'.open = m.open
    BY <1>2, <2>1, <2>2, StillStep DEF InRound, Selected, Sound, Order
  <2>3. CASE game'.stage = "question" /\ \E c \in m.open : game'.open = m.open \ {c}
    <3>1. PICK c \in game.open : game'.open = game.open \ {c}
      BY <2>3
    <3>2. Plan!Next
      BY <1>2, <2>1, <2>3, <3>1, PlayStep DEF InRound
    <3> QED
      BY <1>2, <3>2 DEF Selected, Sound, Order
  <2> QED
    BY <1>2, <2>2, <2>3 DEF Selected
<1> QED
  BY <1>1, <1>2 DEF Went

\* Only a question that is over is settled.
LEMMA SettledGame ==
  ASSUME Setting, NEW g \in Games, Shape(g)
  PROVE  /\ g.sub # "end" => Settled(g) = g
         /\ g.sub = "end" => g.stage = "question" /\ Went(g, Settled(g))
<1>1. g.sub = "end" => g.stage = "question"
  BY DEF Shape
<1> QED
  BY <1>1, EndQuestionGame DEF Settled

\* A secret finds who answers it, and its price.
LEMMA LedStep ==
  ASSUME Setting, game \in Games, rules' = rules, staff' = staff, game.stage = "question",
         NEW m, m.round = game.round, m.open = game.open, m.late = game.late,
         m.timers["round"] = game.timers["round"], NEW h, NEW kinds, Led(m, h, kinds), game' = Settled(h)
  PROVE  Order(game') /\ Plan!Next
<1>1. h \in Games /\ Shape(h) /\ h.round = m.round /\ h.open = m.open
  BY DEF Led
<1>2. CASE h.stage = "closed"
  <2>1. h.sub # "end"
    BY <1>1, <1>2 DEF Shape
  <2>2. game' = h
    BY <1>1, <2>1, SettledGame
  <2> QED
    BY <1>1, <1>2, <2>1, <2>2, BreakStep DEF Order, InRound
<1>3. CASE h.stage = "question"
  <2>1. h.late = m.late /\ h.timers["round"] = m.timers["round"]
    BY <1>3 DEF Led
  <2>2. CASE h.sub = "end"
    <3>1. Went(h, game')
      BY <1>1, <2>2, SettledGame
    <3> QED
      BY <1>1, <2>1, <3>1, WentStep DEF Setting, InRound
  <2>3. CASE h.sub # "end"
    <3>1. game' = h
      BY <1>1, <2>3, SettledGame
    <3> QED
      BY <1>1, <1>3, <2>1, <2>3, <3>1, StillStep DEF Order
  <2> QED
    BY <2>2, <2>3
<1> QED
  BY <1>2, <1>3 DEF Led

\* A question begins, and some are over at once.
LEMMA AskedStep ==
  ASSUME Setting, game \in Games, rules' = rules, staff' = staff, game.stage = "selecting",
         game.round \in DOMAIN Tables, game.open \subseteq Tables[game.round],
         NEW m, m.round = game.round, m.open = game.open, m.late = game.late,
         m.timers["round"] = game.timers["round"], NEW c \in game.open, NEW h, Asked(m, h, c),
         game' = Settled(h)
  PROVE  Order(game') /\ Plan!Next
<1>1. h \in Games /\ Shape(h) /\ h.round = m.round /\ h.open = game.open \ {c}
  BY DEF Asked
<1>2. CASE h.stage = "closed"
  <2>1. h.sub # "end"
    BY <1>1, <1>2 DEF Shape
  <2>2. game' = h
    BY <1>1, <2>1, SettledGame
  <2> QED
    BY <1>1, <1>2, <2>1, <2>2, BreakStep DEF Order, InRound
<1>3. CASE h.stage = "question"
  <2>1. h.late = m.late /\ h.timers["round"] = m.timers["round"]
    BY <1>3 DEF Asked
  <2>2. CASE h.sub # "end"
    <3>1. game' = h
      BY <1>1, <2>2, SettledGame
    <3> QED
      BY <1>1, <1>3, <2>1, <2>2, <3>1, PlayStep DEF Order, InRound
  <2>3. CASE h.sub = "end"
    <3>1. Went(h, game') /\ rules.kind[c] = "noQuestion"
      BY <1>1, <1>3, <2>3, SettledGame DEF Asked
    <3>2. c \in Instant
      BY <3>1, PackFacts DEF Instant, Setting
    <3>3. ~Sequential
      BY <3>1, <3>2, PackFacts DEF Instant, Setting, Sequential
    <3>4. CASE Left(h, game') /\ (h.late \/ h.open = {} \/ active' = {})
      <4>1. h.open = {} => game.open \subseteq {c}
        BY <1>1
      <4>2. h.open = {} => game.open \subseteq Instant /\ Cardinality(game.open) <= 1
        BY <3>2, <4>1, AtMostOne
      <4>3. Leaving
        BY <2>1, <3>4, <4>2 DEF Leaving
      <4>4. Plan!Next
        BY <1>1, <3>4, <4>3, LeftStep DEF Setting, InRound
      <4> QED
        BY <3>4, <4>4 DEF Left, Opened, Over, Sound, Order
    <3>5. CASE Selected(h, game') /\ ~h.late
      <4>1. /\ Order(game') /\ game'.round = game.round /\ game'.late = game.late
            /\ game'.timers["round"] = game.timers["round"]
            /\ game'.stage = "selecting" /\ game'.open = game.open \ {c}
        BY <1>1, <2>1, <3>3, <3>5 DEF Selected, Sound, Order
      <4> QED
        BY <2>1, <3>5, <4>1, PlayStep DEF Order, InRound
    <3> QED
      BY <3>1, <3>4, <3>5 DEF Went
  <2> QED
    BY <2>2, <2>3
<1> QED
  BY <1>2, <1>3 DEF Asked
-----------------------------------------------------------------------------
(* The steps.                                                              *)

\* The players are few, whoever comes and goes.
LEMMA SettingHolds ==
  ASSUME IInv, active' \subseteq Players
  PROVE  Setting
<1>1. IsFiniteSet(active')
  BY FS_Subset, PlayersAssumption
<1> QED
  BY <1>1 DEF IInv, TypeOK, Setting

\* Start.
LEMMA StartStep ==
  ASSUME IInv, Start
  PROVE  Order(game') /\ Plan!Next
<1> DEFINE h == StartRound(game, 1)
<1>1. /\ game.stage = "lobby" /\ active' = active /\ active # {} /\ rules' = rules /\ staff' = staff
      /\ game' = Settled(h)
  BY DEF Start, Unmoved, Becomes
<1>2. Setting /\ game \in Games
  BY <1>1, SettingHolds DEF IInv, TypeOK
<1>3. game.round = 0 /\ game.open = {} /\ ~game.late /\ ~paused /\ game.late \in BOOLEAN
  BY <1>1, <1>2 DEF IInv, Shape, Games
<1>4. Opened(game, h, 1) \/ Over(game, h, 1)
  BY <1>2, StartRoundGame
<1> HIDE DEF h
<1>5. Order(h) /\ game' = h
  <2>1. Order(h)
    BY <1>4 DEF Opened, Over, Sound, Order
  <2> QED
    BY <1>1, <1>2, <2>1, SettledGame DEF Order
<1>6. game'.late \in BOOLEAN
  BY <1>5 DEF Order, Games
<1>7. Phase(game) = "before"
  BY <1>1, <1>3, Looks
<1>8. CASE Opened(game, h, 1)
  <2>1. Phase(game') = "play"
    BY <1>5, <1>6, <1>8, Looks DEF Opened
  <2>2. TimeLeft(game') \in {"none", "running"}
    <3>1. game'.timers["round"] \in {"off", "run"} /\ ~game'.late
      BY <1>3, <1>5, <1>8 DEF Opened, Live
    <3> QED
      BY <1>6, <3>1, Looks
  <2>3. Plan!Start
    BY <1>1, <1>5, <1>7, <1>8, <2>1, <2>2, Views DEF Plan!Start, Opened, Tables
  <2> QED
    BY <1>1, <1>5, <2>3, Views DEF Plan!Next, Tables
<1>9. CASE Over(game, h, 1)
  <2>1. Phase(game') = "over"
    BY <1>5, <1>6, <1>9, Looks DEF Over
  <2>2. \A i \in DOMAIN Tables : i >= game.round + 1 => Tables[i] = {}
    BY <1>1, <1>3, <1>9 DEF Over
  <2>3. Plan!Finish
    BY <1>1, <1>7, <2>1, <2>2, Views DEF Plan!Finish, Plan!Dealing, Plan!Exhausted, Tables
  <2> QED
    BY <1>1, <1>5, <2>3, Views DEF Plan!Next, Tables
<1> QED
  BY <1>4, <1>8, <1>9

\* A cell is chosen, by a player or by the timer.
LEMMA ChosenStep ==
  ASSUME IInv, Unmoved, game.stage = "selecting", NEW c \in game.open,
         Becomes(StartQuestion([game EXCEPT !.timers = StopKind(@, "questionSelection")], c))
  PROVE  Order(game') /\ Plan!Next
<1> DEFINE t == StopKind(game.timers, "questionSelection")
           m == [game EXCEPT !.timers = t]
           h == StartQuestion(m, c)
<1>1. game \in Games /\ active' = active /\ rules' = rules /\ staff' = staff
  BY DEF IInv, TypeOK, Unmoved
<1>2. Setting
  BY <1>1, SettingHolds DEF IInv, TypeOK
<1>3. /\ t \in [Kinds -> TimerStatus] /\ t["round"] = game.timers["round"]
      /\ \A k \in Kinds : t[k] \in {game.timers[k], "off"}
  BY <1>1, StopBars DEF Kinds
<1>4. game' = Settled(h)
  BY DEF Becomes
<1> HIDE DEF t
<1>5. m \in Games /\ SameButTimers(game, m) /\ m.timers = t /\ Shape(m)
  BY <1>1, <1>3, StopGame DEF IInv
<1> HIDE DEF m
<1>6. Ready(m)
  BY <1>5 DEF Ready, Shape, SameButTimers, InRound
<1>7. c \in m.open
  BY <1>5 DEF SameButTimers
<1>8. Asked(m, h, c)
  BY <1>2, <1>6, <1>7, StartQuestionGame
<1> HIDE DEF h
<1>9. game.round \in DOMAIN Tables /\ game.open \subseteq Tables[game.round]
  BY DEF IInv, Shape, InRound
<1> QED
  BY <1>1, <1>2, <1>3, <1>4, <1>5, <1>8, <1>9, AskedStep DEF SameButTimers

\* CHOOSE_QUESTION, and the time to choose is up.
LEMMA ChooseStep ==
  ASSUME IInv, NEW c \in Cells, ChooseQuestion(c)
  PROVE  Order(game') /\ Plan!Next
BY ChosenStep DEF ChooseQuestion

LEMMA SelectionTimeoutStep ==
  ASSUME IInv, TimeoutQuestionSelection
  PROVE  Order(game') /\ Plan!Next
<1>1. game \in Games /\ active' = active /\ rules' = rules /\ staff' = staff /\ game.stage = "selecting"
  BY DEF IInv, TypeOK, Unmoved, TimeoutQuestionSelection
<1>2. Setting
  BY <1>1, SettingHolds DEF IInv, TypeOK
<1>3. CASE game.open = {}
  <2> DEFINE h == Closed(game)
  <2>1. game' = Settled(h)
    BY <1>3 DEF TimeoutQuestionSelection, Becomes
  <2>2. h \in Games /\ Shape(h) /\ h.stage = "closed" /\ h.sub = "none" /\ h.round = game.round /\ h.open = game.open
    BY <1>1, ClosedGame
  <2> HIDE DEF h
  <2>3. game' = h
    BY <1>2, <2>1, <2>2, SettledGame
  <2>4. Plan!Next
    BY <1>1, <2>2, <2>3, BreakStep DEF InRound
  <2> QED
    BY <2>2, <2>3, <2>4 DEF Order
<1>4. CASE game.open # {}
  <2>1. PICK c \in game.open : Becomes(StartQuestion(Spent("questionSelection"), c))
    BY <1>4 DEF TimeoutQuestionSelection
  <2>2. Unmoved
    BY DEF TimeoutQuestionSelection
  <2> QED
    BY <1>1, <2>1, <2>2, ChosenStep DEF Spent
<1> QED
  BY <1>3, <1>4

\* A tie of choosers, or the recipient of a secret, is decided.
LEMMA ResolvedStep ==
  ASSUME IInv, Unmoved, NEW p \in game.tie \union game.candidates,
         NEW t \in [Kinds -> TimerStatus], \A k \in Kinds : t[k] \in {game.timers[k], "off"},
         t["round"] = game.timers["round"], Becomes(Resolved([game EXCEPT !.timers = t], p))
  PROVE  Order(game') /\ Plan!Next
<1> DEFINE g == [game EXCEPT !.timers = t]
           u == StopKinds(g.timers, {"showmanDecision", "playerSelection"})
           b == [g EXCEPT !.timers = u]
<1>1. game \in Games /\ active' = active /\ rules' = rules /\ staff' = staff
  BY DEF IInv, TypeOK, Unmoved
<1>2. Setting
  BY <1>1, SettingHolds DEF IInv, TypeOK
<1>3. g \in Games /\ SameButTimers(game, g) /\ g.timers = t /\ Shape(g)
  BY <1>1, StopGame DEF IInv
<1>4. game' = Settled(IF g.tie # {} THEN AskChoose([b EXCEPT !.chooser = p]) ELSE RecipientChosen(b, p))
  BY DEF Becomes, Resolved
<1> HIDE DEF g
<1>5. /\ u \in [Kinds -> TimerStatus] /\ u["round"] = g.timers["round"]
      /\ \A k \in Kinds : u[k] \in {g.timers[k], "off"}
  BY <1>3, StopBars
<1> HIDE DEF u
<1>6. b \in Games /\ SameButTimers(g, b) /\ b.timers = u /\ Shape(b)
  BY <1>3, <1>5, StopGame
<1> HIDE DEF b
<1>7. /\ b.stage = game.stage /\ b.round = game.round /\ b.open = game.open /\ b.late = game.late
      /\ b.tie = game.tie /\ b.candidates = game.candidates /\ b.others = game.others
      /\ b.timers["round"] = game.timers["round"] /\ g.tie = game.tie /\ b.sub = game.sub
  BY <1>3, <1>5, <1>6 DEF SameButTimers
<1>8. p \in Players
  BY <1>1 DEF Games
<1>9. CASE game.tie # {}
  <2> DEFINE q == [b EXCEPT !.chooser = p]
             h == AskChoose(q)
  <2>1. game' = Settled(h)
    BY <1>4, <1>7, <1>9
  <2>2. game.stage = "selecting"
    BY <1>9 DEF IInv, Shape
  <2>3. /\ q \in Games /\ q.stage = b.stage /\ q.tie = b.tie /\ q.round = b.round /\ q.open = b.open
        /\ q.late = b.late /\ q.scores = b.scores /\ q.timers = b.timers
        /\ q.cell = b.cell /\ q.sub = b.sub /\ q.candidates = b.candidates /\ q.answerer = b.answerer
        /\ q.others = b.others
    BY <1>6, <1>8 DEF Games
  <2> HIDE DEF q
  <2>4. Shape(q)
    BY <1>6, <1>7, <2>2, <2>3 DEF Shape, GivenAway, InRound
  <2>5. h \in Games /\ Shape(h) /\ Kept(q, h) /\ h.sub = q.sub
    BY <1>2, <1>7, <2>2, <2>3, <2>4, AskChooseGame DEF Setting
  <2> HIDE DEF h
  <2>6. Order(h)
    BY <1>7, <2>3, <2>5 DEF IInv, Order
  <2>7. game' = h
    BY <1>2, <2>1, <2>6, SettledGame DEF Order
  <2>8. /\ game'.round = game.round /\ game'.open = game.open /\ game'.late = game.late
        /\ game'.timers["round"] = game.timers["round"] /\ game'.stage = game.stage
    BY <1>7, <2>3, <2>5, <2>7 DEF Kept
  <2>9. Plan!Next
    BY <1>1, <2>6, <2>7, <2>8, StillStep DEF Order
  <2> QED
    BY <2>6, <2>7, <2>9
<1>10. CASE game.tie = {}
  <2> DEFINE h == RecipientChosen(b, p)
  <2>1. game' = Settled(h)
    BY <1>4, <1>7, <1>10
  <2>2. p \in game.candidates /\ game.sub = "secretTransfer" /\ game.stage = "question"
    BY <1>10 DEF IInv, Shape
  <2>3. Drawn(b)
    BY <1>6, <1>7, <1>10, <2>2 DEF Shape, Drawn, InRound
  <2>4. Rightful(b, p)
    BY <1>6, <1>7, <2>2 DEF Shape, GivenAway, Rightful
  <2>5. Led(b, h, {"noQuestion"})
    BY <1>2, <1>8, <2>3, <2>4, RecipientChosenGame
  <2> HIDE DEF h
  <2> QED
    BY <1>1, <1>2, <1>7, <2>1, <2>2, <2>5, LedStep
<1> QED
  BY <1>9, <1>10

\* SELECT_PLAYER.
LEMMA SelectStep ==
  ASSUME IInv, NEW p \in Players, SelectPlayer(p)
  PROVE  Order(game') /\ Plan!Next
<1> DEFINE t == game.timers
<1>1. game \in Games
  BY DEF IInv, TypeOK
<1>2. t \in [Kinds -> TimerStatus] /\ [game EXCEPT !.timers = t] = game
  BY <1>1 DEF Games
<1>3. Unmoved /\ p \in game.tie \union game.candidates /\ Becomes(Resolved(game, p))
  BY DEF SelectPlayer
<1> QED
  BY <1>2, <1>3, ResolvedStep

\* The time of the showman, or of who has the secret, is up.
LEMMA DecisionTimeoutStep ==
  ASSUME IInv, TimeoutShowmanDecision \/ TimeoutPlayerSelection
  PROVE  Order(game') /\ Plan!Next
<1>1. game \in Games /\ Unmoved
  BY DEF IInv, TypeOK, TimeoutShowmanDecision, TimeoutPlayerSelection
<1>2. PICK k \in {"showmanDecision", "playerSelection"}, p \in game.tie \union game.candidates :
          Becomes(Resolved(Spent(k), p))
  <2>1. CASE TimeoutShowmanDecision
    BY <2>1 DEF TimeoutShowmanDecision
  <2>2. CASE TimeoutPlayerSelection
    BY <2>2 DEF TimeoutPlayerSelection
  <2> QED
    BY <2>1, <2>2
<1> DEFINE t == StopKind(game.timers, k)
<1>3. /\ t \in [Kinds -> TimerStatus] /\ t["round"] = game.timers["round"]
      /\ \A j \in Kinds : t[j] \in {game.timers[j], "off"}
  BY <1>1, <1>2, StopBars DEF Kinds
<1>4. Becomes(Resolved([game EXCEPT !.timers = t], p))
  BY <1>2 DEF Spent
<1> HIDE DEF t
<1> QED
  BY <1>1, <1>2, <1>3, <1>4, ResolvedStep

\* The price of a secret is chosen.
LEMMA PricedStep ==
  ASSUME IInv, Unmoved, game.sub = "priceSelect", NEW n \in Int,
         Becomes(AfterPrice([game EXCEPT !.timers = StopKind(@, "stakeMaking")], n))
  PROVE  Order(game') /\ Plan!Next
<1> DEFINE t == StopKind(game.timers, "stakeMaking")
           m == [game EXCEPT !.timers = t]
           h == AfterPrice(m, n)
<1>1. game \in Games /\ active' = active /\ rules' = rules /\ staff' = staff
  BY DEF IInv, TypeOK, Unmoved
<1>2. Setting
  BY <1>1, SettingHolds DEF IInv, TypeOK
<1>3. /\ t \in [Kinds -> TimerStatus] /\ t["round"] = game.timers["round"] /\ t["stakeMaking"] = "off"
      /\ \A k \in Kinds : t[k] \in {game.timers[k], "off"}
  BY <1>1, StopBars DEF Kinds
<1>4. game' = Settled(h)
  BY DEF Becomes
<1> HIDE DEF t
<1>5. m \in Games /\ SameButTimers(game, m) /\ m.timers = t /\ Shape(m)
  BY <1>1, <1>3, StopGame DEF IInv
<1> HIDE DEF m
<1>6. game.stage = "question" /\ m.candidates = {} /\ m.tie = {}
  BY <1>5 DEF IInv, Shape, SameButTimers
<1>7. Drawn(m)
  BY <1>3, <1>5, <1>6 DEF Shape, Drawn, InRound, SameButTimers
<1>8. Rightful(m, m.answerer)
  BY <1>5 DEF Shape, GivenAway, Rightful
<1>9. Led(m, h, {"noQuestion", "pricedNoQuestion"})
  BY <1>2, <1>6, <1>7, <1>8, AfterPriceGame
<1> HIDE DEF h
<1> QED
  BY <1>1, <1>2, <1>3, <1>4, <1>5, <1>6, <1>9, LedStep DEF SameButTimers

\* SET_STAKE, and the time to choose a price is up.
LEMMA PriceStep ==
  ASSUME IInv, (\E n \in {Price, HighPrice} : SetPrice(n)) \/ TimeoutStakeMaking
  PROVE  Order(game') /\ Plan!Next
<1>1. {Price, HighPrice} \subseteq Int
  BY NumbersAssumption
<1>2. CASE \E n \in {Price, HighPrice} : SetPrice(n)
  <2>1. PICK n \in {Price, HighPrice} : SetPrice(n)
    BY <1>2
  <2> QED
    BY <1>1, <2>1, PricedStep DEF SetPrice
<1>3. CASE TimeoutStakeMaking
  <2>1. game.sub = "priceSelect"
    BY <1>3 DEF TimeoutStakeMaking, Expires, IInv, Shape
  <2>2. Unmoved /\ Becomes(AfterPrice([game EXCEPT !.timers = StopKind(@, "stakeMaking")], Price))
    BY <1>3 DEF TimeoutStakeMaking, Spent
  <2> QED
    BY <1>1, <2>1, <2>2, PricedStep
<1> QED
  BY <1>2, <1>3
\* The answer of a question is shown.
LEMMA RevealedStep ==
  ASSUME Setting, game \in Games, game.stage = "question", NEW g \in Games, Shape(g),
         g.stage = game.stage, g.round = game.round, g.open = game.open, g.late = game.late,
         g.timers = game.timers,
         rules' = rules, staff' = staff \/ staff' = staff + 1, game' = ShowAnswer(g)
  PROVE  Order(game') /\ Plan!Next
<1>1. game' \in Games /\ Shape(game') /\ Kept(g, game') /\ game'.sub = "reveal"
  BY ShowAnswerGame DEF Kept
<1>2. /\ game'.stage = game.stage /\ game'.round = game.round /\ game'.open = game.open
      /\ game'.late = game.late /\ game'.timers["round"] = game.timers["round"]
  BY <1>1 DEF Kept
<1>3. game'.open \subseteq Tables[game.round]
  BY <1>1, <1>2 DEF Shape, InRound
<1>4. CASE staff' = staff
  BY <1>1, <1>2, <1>4, StillStep DEF Order
<1>5. CASE staff' = staff + 1
  <2>1. game'.open \ game.open \subseteq {0} /\ game.open \ game'.open \subseteq {0}
    BY <1>2
  <2>2. game.stage \in InRound \union {"roundEnd"}
    BY DEF InRound
  <2>3. Plan!Next
    BY <1>1, <1>2, <1>3, <1>5, <2>1, <2>2, ReviseStep
  <2> QED
    BY <1>1, <2>3 DEF Order
<1> QED
  BY <1>4, <1>5

\* The answers of a question, or none.
LEMMA PlayedStep ==
  ASSUME IInv, NEW p \in Players, NEW right \in BOOLEAN, Played(p, right)
  PROVE  Order(game') /\ Plan!Next
<1>1. game \in Games /\ rules' = rules /\ staff' = staff /\ active' = active
  BY DEF IInv, TypeOK, Played, Unmoved
<1>2. Setting
  BY <1>1, SettingHolds DEF IInv, TypeOK
<1>3. game.stage = "question" /\ game.sub = "play" /\ Shape(game)
  BY DEF IInv, Shape, Played
<1> DEFINE n == IF right THEN game.price ELSE -game.price
           g == Score(game, p, n)
           c == IF right /\ rules.mode = "classic" /\ rules.kind[game.cell] = "simple" THEN p ELSE g.chooser
           b == [g EXCEPT !.chooser = c]
<1>4. n \in Int
  BY <1>1 DEF Games
<1>5. game' = ShowAnswer([g EXCEPT !.chooser =
           IF right /\ rules.mode = "classic" /\ rules.kind[game.cell] = "simple" THEN p ELSE @])
  BY DEF Played
<1> HIDE DEF n
<1>6. /\ g \in Games
      /\ g.stage = game.stage /\ g.round = game.round /\ g.open = game.open /\ g.late = game.late
      /\ g.chooser = game.chooser /\ g.tie = game.tie /\ g.cell = game.cell /\ g.sub = game.sub
      /\ g.candidates = game.candidates /\ g.answerer = game.answerer /\ g.timers = game.timers
      /\ g.before = game.before /\ g.others = game.others
      /\ Balanced(game) => Balanced(g)
  BY <1>1, <1>4, ScoreGame
<1> HIDE DEF g
<1>7. c \in Players \union {NoPlayer}
  BY <1>6 DEF Games
<1>8. game' = ShowAnswer(b)
  BY <1>5, <1>6 DEF Games
<1> HIDE DEF c
<1>9. /\ b \in Games
      /\ b.stage = game.stage /\ b.round = game.round /\ b.open = game.open /\ b.late = game.late
      /\ b.tie = game.tie /\ b.cell = game.cell /\ b.sub = game.sub
      /\ b.candidates = game.candidates /\ b.answerer = game.answerer /\ b.timers = game.timers
      /\ b.before = game.before /\ b.others = game.others
      /\ b.scores = g.scores /\ b.history = g.history
  BY <1>6, <1>7 DEF Games
<1> HIDE DEF b
<1>10. Balanced(b)
  BY <1>3, <1>6, <1>9 DEF Balanced, Shape
<1>11. Shape(b)
  BY <1>3, <1>9, <1>10 DEF Shape, GivenAway, InRound
<1> QED
  BY <1>1, <1>2, <1>3, <1>8, <1>9, <1>11, RevealedStep

\* Nobody answers, or the showman shows the answer.
LEMMA ShownStep ==
  ASSUME IInv, NobodyAnswered \/ MoveToAnswer
  PROVE  Order(game') /\ Plan!Next
<1>1. /\ game \in Games /\ rules' = rules /\ active' = active /\ (staff' = staff \/ staff' = staff + 1)
      /\ game' = ShowAnswer(game)
  BY DEF IInv, TypeOK, NobodyAnswered, MoveToAnswer, Unmoved, Intervention
<1>2. Setting
  BY <1>1, SettingHolds DEF IInv, TypeOK
<1>3. game.stage = "question" /\ Shape(game)
  BY DEF IInv, Shape, NobodyAnswered, MoveToAnswer
<1> QED
  BY <1>1, <1>2, <1>3, RevealedStep

\* A question is over.
LEMMA QuestionOverStep ==
  ASSUME IInv, Unmoved, game.stage = "question", Becomes(EndQuestion(game))
  PROVE  Order(game') /\ Plan!Next
<1> DEFINE h == EndQuestion(game)
<1>1. game \in Games /\ rules' = rules /\ staff' = staff /\ active' = active /\ Shape(game) /\ game' = Settled(h)
  BY DEF IInv, TypeOK, Unmoved, Becomes
<1>2. Setting
  BY <1>1, SettingHolds DEF IInv, TypeOK
<1>3. Went(game, h)
  BY <1>1, <1>2, EndQuestionGame
<1> HIDE DEF h
<1>4. Order(h)
  BY <1>3 DEF Went, Left, Opened, Over, Selected, Sound, Order
<1>5. game' = h
  BY <1>1, <1>2, <1>4, SettledGame DEF Order
<1> QED
  BY <1>1, <1>2, <1>3, <1>5, WentStep DEF Setting, InRound

\* The answer has been shown long enough.
LEMMA ReflectionStep ==
  ASSUME IInv, TimeoutReflection
  PROVE  Order(game') /\ Plan!Next
<1>1. game.stage = "question"
  BY DEF TimeoutReflection, Expires, IInv, Shape
<1>2. Unmoved /\ Becomes(EndQuestion(game))
  BY DEF TimeoutReflection, Becomes
<1> QED
  BY <1>1, <1>2, QuestionOverStep

\* NEXT and MOVE 1.
LEMMA GoOnStep ==
  ASSUME IInv, GoOn
  PROVE  Order(game') /\ Plan!Next
<1>1. game \in Games /\ rules' = rules /\ staff' = staff /\ active' = active /\ Shape(game) /\ Unmoved
  BY DEF IInv, TypeOK, Unmoved, GoOn
<1>2. Setting
  BY <1>1, SettingHolds DEF IInv, TypeOK
<1>3. CASE game.stage = "roundIntro"
  <2> DEFINE h == BeginSelection(game, TRUE)
  <2>1. game' = Settled(h)
    BY <1>3 DEF GoOn, Becomes
  <2>2. Ready(game)
    BY <1>1, <1>3 DEF Ready, Shape, InRound
  <2>3. Went(game, h)
    BY <1>2, <2>2, BeginSelectionGame
  <2> HIDE DEF h
  <2>4. Order(h)
    BY <2>3 DEF Went, Left, Opened, Over, Selected, Sound, Order
  <2>5. game' = h
    BY <1>2, <2>1, <2>4, SettledGame DEF Order
  <2> QED
    BY <1>1, <1>2, <1>3, <2>3, <2>5, WentStep DEF Setting, InRound
<1>4. CASE game.stage = "roundEnd"
  <2> DEFINE h == StartRound(game, game.round + 1)
  <2>1. game' = Settled(h)
    BY <1>4 DEF GoOn, Becomes
  <2>2. game.round + 1 \in Nat \ {0}
    BY <1>1 DEF Games
  <2>3. Opened(game, h, game.round + 1) \/ Over(game, h, game.round + 1)
    BY <1>1, <1>2, <2>2, StartRoundGame
  <2> HIDE DEF h
  <2>4. Order(h)
    BY <2>3 DEF Opened, Over, Sound, Order
  <2>5. game' = h
    BY <1>2, <2>1, <2>4, SettledGame DEF Order
  <2>6. Leaving
    BY <1>4 DEF Leaving
  <2>7. Plan!Next
    BY <1>1, <1>2, <1>4, <2>2, <2>3, <2>5, <2>6, DealStep DEF Setting
  <2> QED
    BY <2>4, <2>5, <2>7
<1>5. CASE game.stage = "question"
  <2>1. Becomes(EndQuestion(game))
    BY <1>5 DEF GoOn
  <2> QED
    BY <1>1, <1>5, <2>1, QuestionOverStep
<1> QED
  BY <1>3, <1>4, <1>5 DEF GoOn

\* The time of the round is up.
LEMMA RoundTimeoutStep ==
  ASSUME IInv, TimeoutRound
  PROVE  Order(game') /\ Plan!Next
<1>1. game \in Games /\ rules' = rules /\ staff' = staff /\ active' = active /\ Shape(game)
  BY DEF IInv, TypeOK, Unmoved, TimeoutRound
<1>2. Setting
  BY <1>1, SettingHolds DEF IInv, TypeOK
<1>3. game.timers["round"] = "run" /\ ~game.late /\ game.stage \in InRound
  BY <1>1 DEF TimeoutRound, Expires, Shape
<1> DEFINE t == StopKind(game.timers, "round")
           g == [game EXCEPT !.timers = t, !.late = TRUE]
<1>4. t \in [Kinds -> TimerStatus] /\ t["round"] = "off" /\ \A k \in Kinds \ {"round"} : t[k] = game.timers[k]
  BY <1>1 DEF StopKind, Games, TimerStatus, Kinds
<1>5. game' = Settled(IF g.stage = "selecting" /\ g.tie = {} THEN EndRound(g) ELSE g)
  <2>1. [Spent("round") EXCEPT !.late = TRUE] = g
    BY <1>1 DEF Spent, Games
  <2> HIDE DEF g
  <2> QED
    BY <2>1 DEF TimeoutRound, Becomes
<1> HIDE DEF t
<1>6. /\ g \in Games /\ g.timers = t /\ g.late = TRUE
      /\ g.stage = game.stage /\ g.round = game.round /\ g.open = game.open
      /\ g.tie = game.tie /\ g.cell = game.cell /\ g.sub = game.sub
      /\ g.candidates = game.candidates /\ g.answerer = game.answerer
      /\ g.before = game.before /\ g.others = game.others
      /\ g.scores = game.scores /\ g.history = game.history
  BY <1>1, <1>4 DEF Games
<1> HIDE DEF g
<1>7. t["reflection"] = game.timers["reflection"] /\ t["stakeMaking"] = game.timers["stakeMaking"]
  BY <1>4 DEF Kinds
<1>8. Shape(g)
  BY <1>1, <1>3, <1>4, <1>6, <1>7 DEF Shape, Balanced, GivenAway, InRound
<1>9. CASE g.stage = "selecting" /\ g.tie = {}
  <2> DEFINE h == EndRound(g)
  <2>1. game' = Settled(h)
    BY <1>5, <1>9
  <2>2. g.round \in DOMAIN Tables /\ g.open \subseteq Tables[g.round]
    BY <1>8, <1>9 DEF Shape, InRound
  <2>3. Left(g, h)
    BY <1>2, <1>6, <2>2, EndRoundGame
  <2> HIDE DEF h
  <2>4. Order(h)
    BY <2>3 DEF Left, Opened, Over, Sound, Order
  <2>5. game' = h
    BY <1>2, <2>1, <2>4, SettledGame DEF Order
  <2>6. Leaving
    BY <1>3 DEF Leaving
  <2>7. Plan!Next
    BY <1>1, <1>2, <1>3, <1>6, <2>3, <2>5, <2>6, LeftStep DEF Setting
  <2> QED
    BY <2>4, <2>5, <2>7
<1>10. CASE ~(g.stage = "selecting" /\ g.tie = {})
  <2>1. Order(g)
    BY <1>6, <1>8 DEF IInv, Order
  <2>2. game' = g
    BY <1>2, <1>5, <1>10, <2>1, SettledGame DEF Order
  <2>3. /\ game.late \in BOOLEAN /\ game'.late \in BOOLEAN /\ game.late = FALSE /\ game'.late = TRUE
        /\ game'.stage = game.stage
    BY <1>1, <1>3, <1>6, <2>2 DEF Games
  <2>4. TimeLeft(game) = "running" /\ Phase(game) = "play" /\ Phase(game') = "play"
    BY <1>3, <2>3, Looks
  <2>5. TimeLeft(game') \in {"lastCall", "up"}
    <3>1. CASE game'.stage = "selecting"
      BY <2>3, <3>1, Looks
    <3>2. CASE game'.stage # "selecting"
      BY <2>3, <3>2, Looks
    <3> QED
      BY <3>1, <3>2
  <2>6. Plan!TimeUp
    BY <1>6, <2>2, <2>4, <2>5, Views DEF Plan!TimeUp
  <2> QED
    BY <1>1, <2>1, <2>2, <2>6, Views DEF Plan!Next, Tables
<1> QED
  BY <1>9, <1>10

\* PAUSE and its end.
LEMMA HoldStep ==
  ASSUME IInv, Pause \/ Resume
  PROVE  Order(game') /\ Plan!Next
<1>1. game \in Games /\ rules' = rules /\ staff' = staff /\ active' = active /\ Shape(game)
  BY DEF IInv, TypeOK, Pause, Resume
<1> DEFINE t == IF Pause THEN HoldAll(game.timers) ELSE ReleaseAll(game.timers)
<1>2. /\ t \in [Kinds -> TimerStatus] /\ \A k \in Kinds : t[k] = "off" <=> game.timers[k] = "off"
      /\ t["round"] = game.timers["round"]
            \/ <<game.timers["round"], t["round"]>> \in {<<"run", "held">>, <<"held", "run">>}
  <2>1. game.timers \in [Kinds -> TimerStatus]
    BY <1>1 DEF Games
  <2>2. CASE Pause
    BY <2>1, <2>2 DEF HoldAll, Kinds, TimerStatus
  <2>3. CASE ~Pause
    BY <2>1, <2>3 DEF ReleaseAll, Kinds, TimerStatus
  <2> QED
    BY <2>2, <2>3
<1>3. game' = [game EXCEPT !.timers = t]
  BY DEF Pause, Resume
<1> HIDE DEF t
<1>4. /\ game' \in Games /\ game'.timers = t
  BY <1>1, <1>2, <1>3 DEF Games
<1>5. SameButTimers(game, game')
  BY <1>1, <1>3 DEF Games, SameButTimers
<1>6. Shape(game')
  BY <1>1, <1>2, <1>4, <1>5 DEF SameButTimers, Shape, Balanced, GivenAway, Kinds
<1>7. Order(game')
  BY <1>4, <1>5, <1>6 DEF IInv, Order, SameButTimers
<1>8. CASE t["round"] = game.timers["round"]
  BY <1>1, <1>4, <1>5, <1>7, <1>8, StillStep DEF SameButTimers
<1>9. CASE <<game.timers["round"], t["round"]>> \in {<<"run", "held">>, <<"held", "run">>}
  <2>1. ~game.late /\ ~game'.late /\ game.late \in BOOLEAN /\ game'.late \in BOOLEAN
    BY <1>1, <1>5, <1>9 DEF Shape, SameButTimers, Games
  <2>2. <<TimeLeft(game), TimeLeft(game')>> \in {<<"running", "held">>, <<"held", "running">>}
    <3>1. CASE game.timers["round"] = "run" /\ t["round"] = "held"
      BY <1>4, <2>1, <3>1, Looks
    <3>2. CASE game.timers["round"] = "held" /\ t["round"] = "run"
      BY <1>4, <2>1, <3>2, Looks
    <3> QED
      BY <1>9, <3>1, <3>2
  <2>3. Phase(game') = Phase(game)
    BY <1>5 DEF Phase, SameButTimers
  <2>4. Plan!Hold
    BY <1>5, <2>2, <2>3, Views DEF Plan!Hold, SameButTimers
  <2> QED
    BY <1>1, <1>7, <2>4, Views DEF Plan!Next, Tables
<1> QED
  BY <1>2, <1>8, <1>9

\* Players come and go.
LEMMA PresenceStep ==
  ASSUME IInv, UNCHANGED <<game, rules, staff>>
  PROVE  Order(game') /\ Plan!Next
<1>1. game \in Games /\ Shape(game) /\ game.sub # "end"
  BY DEF IInv, TypeOK
<1>2. game' \in Games /\ Shape(game') /\ game'.sub # "end"
  BY <1>1
<1> QED
  BY <1>1, <1>2, StillStep DEF Order
\* What an intervention of the showman leaves alone, and where it is possible.
LEMMA InterventionFacts ==
  ASSUME IInv, Intervention
  PROVE  /\ Setting /\ game \in Games /\ Shape(game) /\ rules' = rules /\ active' = active
         /\ staff' = staff + 1 /\ game.stage \in InRound \union {"roundEnd"}
         /\ game.round \in DOMAIN Tables /\ game.open \subseteq Tables[game.round] /\ Leaving
<1>1. /\ game \in Games /\ Shape(game) /\ rules' = rules /\ active' = active /\ staff' = staff + 1
      /\ game.stage \notin {"lobby", "gameEnd", "closed"}
  BY DEF IInv, TypeOK, Intervention
<1>2. Setting
  BY <1>1, SettingHolds DEF IInv, TypeOK
<1>3. game.stage \in InRound \union {"roundEnd"}
  BY <1>1 DEF Games, InRound
<1> QED
  BY <1>1, <1>2, <1>3 DEF Shape, Leaving

\* The question that is given back: what it scored is taken back too.
LEMMA ReturnedGame ==
  ASSUME game \in Games, Shape(game), game.stage = "question", rules \in Setups
  PROVE  LET m == Returned(game)
         IN  /\ Ready(m) /\ m.round = game.round /\ m.late = game.late
             /\ m.open = game.open \union {game.cell} /\ m.scores = game.before
             /\ m.timers["round"] = game.timers["round"]
<1> DEFINE t == StopAllExcept(game.timers, {"round"})
           b == [game EXCEPT !.timers = t]
           n == NoQuestion(b)
           open == n.open \union {game.cell}
           scores == [p \in Players |-> n.scores[p] - game.history[p]]
           m == [n EXCEPT !.open = open, !.scores = scores]
<1>1. /\ t \in [Kinds -> TimerStatus] /\ t["round"] = game.timers["round"]
      /\ \A k \in Kinds \ {"round"} : t[k] = "off"
  BY StopBars
<1>2. b = Stop(game, {"round"})
  BY DEF Stop
<1>3. \A k \in Kinds : t[k] \in {game.timers[k], "off"}
  BY <1>1
<1> HIDE DEF t
<1>4. b \in Games /\ SameButTimers(game, b) /\ b.timers = t
  BY <1>1, <1>3, StopGame
<1> HIDE DEF b
<1>5. /\ n \in Games /\ n.round = b.round /\ n.open = b.open /\ n.late = b.late
      /\ n.scores = b.scores /\ n.timers = b.timers
  BY <1>4, NoQuestionGame
<1>6. Returned(game) = m
  BY <1>2, <1>4, <1>5 DEF Returned, Games
<1> HIDE DEF n
<1>7. game.cell \in Tables[game.round] /\ game.round \in DOMAIN Tables /\ game.open \subseteq Tables[game.round]
      /\ Balanced(game)
  BY DEF Shape, InRound
<1>8. open \in SUBSET Cells /\ open = game.open \union {game.cell} /\ open \subseteq Tables[game.round]
  BY <1>4, <1>5, <1>7, PackFacts DEF SameButTimers
<1>9. scores \in [Players -> Int] /\ scores = game.before
  <2>1. n.scores = game.scores
    BY <1>4, <1>5 DEF SameButTimers
  <2>2. game.scores \in [Players -> Int] /\ game.history \in [Players -> Int] /\ game.before \in [Players -> Int]
    BY DEF Games
  <2>3. \A p \in Players : game.scores[p] - game.history[p] = game.before[p]
    <3> TAKE p \in Players
    <3>1. game.scores[p] \in Int /\ game.history[p] \in Int /\ game.before[p] \in Int
      BY <2>2
    <3>2. game.scores[p] = game.before[p] + game.history[p]
      BY <1>7 DEF Balanced
    <3> QED
      BY <3>1, <3>2
  <2>4. scores = [p \in Players |-> game.before[p]]
    BY <2>1, <2>3
  <2>5. scores = game.before
    BY <2>2, <2>4
  <2> QED
    BY <2>2, <2>5
<1> HIDE DEF open, scores
<1>10. /\ m \in Games /\ m.round = n.round /\ m.open = open /\ m.late = n.late /\ m.scores = scores
       /\ m.timers = n.timers
  BY <1>5, <1>8, <1>9 DEF Games
<1> HIDE DEF m
<1>11. Ready(m)
  BY <1>1, <1>4, <1>5, <1>7, <1>8, <1>10 DEF Ready, SameButTimers, Shape, Kinds
<1> QED
  BY <1>1, <1>4, <1>5, <1>6, <1>8, <1>9, <1>10, <1>11 DEF SameButTimers

\* MOVE -1 and 0: the question goes back to the table.
LEMMA MoveBackStep ==
  ASSUME IInv, MoveBack
  PROVE  Order(game') /\ Plan!Next /\ game'.scores = game.before
<1> DEFINE m == Returned(game)
           h == BeginSelection(m, FALSE)
<1>1. /\ Setting /\ game \in Games /\ Shape(game) /\ rules' = rules /\ active' = active
      /\ staff' = staff + 1 /\ game.stage \in InRound \union {"roundEnd"}
      /\ game.round \in DOMAIN Tables /\ game.open \subseteq Tables[game.round] /\ Leaving
  BY InterventionFacts DEF MoveBack
<1>2. game.stage = "question" /\ game' = Settled(h)
  BY DEF MoveBack, Becomes
<1>3. /\ Ready(m) /\ m.round = game.round /\ m.late = game.late
      /\ m.open = game.open \union {game.cell} /\ m.scores = game.before
      /\ m.timers["round"] = game.timers["round"]
  BY <1>1, <1>2, ReturnedGame DEF Setting
<1> HIDE DEF m
<1>4. Went(m, h)
  BY <1>1, <1>3, BeginSelectionGame
<1> HIDE DEF h
<1>5. Order(h) /\ h.scores = m.scores
  BY <1>4 DEF Went, Left, Opened, Over, Selected, Sound, Order
<1>6. game' = h
  BY <1>1, <1>2, <1>5, SettledGame DEF Order
<1>7. CASE Left(m, h)
  <2>1. Plan!Next
    BY <1>1, <1>3, <1>6, <1>7, LeftStep DEF Setting
  <2> QED
    BY <1>3, <1>5, <1>6, <2>1
<1>8. CASE Selected(m, h) /\ ~m.late
  <2>1. /\ game' \in Games /\ game'.round = game.round /\ game'.late = game.late /\ ~game.late
        /\ game'.timers["round"] = game.timers["round"] /\ game'.stage \in {"selecting", "question"}
        /\ Shape(game')
    BY <1>3, <1>6, <1>8 DEF Selected, Sound
  <2>2. game'.open \subseteq Tables[game.round]
    BY <2>1 DEF Shape, InRound
  <2>3. PICK d : game'.open = m.open \/ game'.open = m.open \ {d}
    BY <1>6, <1>8 DEF Selected
  <2>4. game'.open \ game.open \subseteq {game.cell} /\ game.open \ game'.open \subseteq {d}
    BY <1>3, <2>3
  <2>5. Plan!Next
    BY <1>1, <1>2, <2>1, <2>2, <2>4, ReviseStep DEF InRound
  <2> QED
    BY <1>3, <1>5, <1>6, <2>5
<1> QED
  BY <1>4, <1>7, <1>8 DEF Went

\* MOVE to the end of the round, or to a round.
LEMMA MoveOnStep ==
  ASSUME IInv, MoveToEnd \/ \E r \in DOMAIN rules.tables : MoveToRound(r)
  PROVE  Order(game') /\ Plan!Next
<1>1. /\ Setting /\ game \in Games /\ Shape(game) /\ rules' = rules /\ active' = active
      /\ staff' = staff + 1 /\ game.stage \in InRound \union {"roundEnd"}
      /\ game.round \in DOMAIN Tables /\ game.open \subseteq Tables[game.round] /\ Leaving
  BY InterventionFacts DEF MoveToEnd, MoveToRound
<1>2. CASE MoveToEnd
  <2> DEFINE h == EndRound(game)
  <2>1. game' = Settled(h)
    BY <1>2 DEF MoveToEnd, Becomes
  <2>2. Left(game, h)
    BY <1>1, EndRoundGame
  <2> HIDE DEF h
  <2>3. Order(h)
    BY <2>2 DEF Left, Opened, Over, Sound, Order
  <2>4. game' = h
    BY <1>1, <2>1, <2>3, SettledGame DEF Order
  <2>5. Plan!Next
    BY <1>1, <2>2, <2>4, LeftStep DEF Setting
  <2> QED
    BY <2>3, <2>4, <2>5
<1>3. CASE \E r \in DOMAIN rules.tables : MoveToRound(r)
  <2>1. PICK r \in DOMAIN Tables : MoveToRound(r)
    BY <1>3 DEF Tables
  <2> DEFINE h == StartRound(game, r)
  <2>2. game' = Settled(h)
    BY <2>1 DEF MoveToRound, Becomes
  <2>3. r \in Nat \ {0}
    BY <1>1, PackFacts DEF Setting
  <2>4. Opened(game, h, r) \/ Over(game, h, r)
    BY <1>1, <2>3, StartRoundGame
  <2> HIDE DEF h
  <2>5. Order(h)
    BY <2>4 DEF Opened, Over, Sound, Order
  <2>6. game' = h
    BY <1>1, <2>2, <2>5, SettledGame DEF Order
  <2>7. Plan!Next
    BY <1>1, <2>3, <2>4, <2>6, DealStep DEF Setting
  <2> QED
    BY <2>5, <2>6, <2>7
<1> QED
  BY <1>2, <1>3

\* TOGGLE.
LEMMA ToggleStep ==
  ASSUME IInv, NEW c \in Cells, Toggle(c)
  PROVE  Order(game') /\ Plan!Next
<1> DEFINE open == IF c \in game.open THEN game.open \ {c} ELSE game.open \union {c}
           g == [game EXCEPT !.open = open]
<1>1. /\ Setting /\ game \in Games /\ Shape(game) /\ rules' = rules /\ active' = active
      /\ staff' = staff + 1 /\ game.stage \in InRound \union {"roundEnd"}
      /\ game.round \in DOMAIN Tables /\ game.open \subseteq Tables[game.round] /\ Leaving
  BY InterventionFacts DEF Toggle
<1>2. game' = Settled(IF g.stage = "selecting" /\ g.tie = {} /\ g.open = {} THEN EndRound(g) ELSE g)
  <2>1. [game EXCEPT !.open = IF c \in @ THEN @ \ {c} ELSE @ \union {c}] = g
    BY <1>1 DEF Games
  <2> HIDE DEF g
  <2> QED
    BY <2>1 DEF Toggle, Becomes
<1>3. open \in SUBSET Cells /\ open \subseteq Tables[game.round] /\ open \ game.open \subseteq {c}
      /\ game.open \ open \subseteq {c}
  <2>1. c \in Tables[game.round]
    BY DEF Toggle, Tables
  <2>2. game.open \in SUBSET Cells
    BY <1>1 DEF Games
  <2> QED
    BY <1>1, <2>1, <2>2
<1> HIDE DEF open
<1>4. /\ g \in Games /\ g.open = open /\ g.timers = game.timers /\ g.late = game.late
      /\ g.stage = game.stage /\ g.round = game.round
      /\ g.tie = game.tie /\ g.cell = game.cell /\ g.sub = game.sub
      /\ g.candidates = game.candidates /\ g.answerer = game.answerer
      /\ g.before = game.before /\ g.others = game.others
      /\ g.scores = game.scores /\ g.history = game.history
  BY <1>1, <1>3 DEF Games
<1> HIDE DEF g
<1>5. Shape(g)
  BY <1>1, <1>3, <1>4 DEF Shape, Balanced, GivenAway, InRound
<1>6. CASE g.stage = "selecting" /\ g.tie = {} /\ g.open = {}
  <2> DEFINE h == EndRound(g)
  <2>1. game' = Settled(h)
    BY <1>2, <1>6
  <2>2. Left(g, h)
    BY <1>1, <1>3, <1>4, EndRoundGame
  <2> HIDE DEF h
  <2>3. Order(h)
    BY <2>2 DEF Left, Opened, Over, Sound, Order
  <2>4. game' = h
    BY <1>1, <2>1, <2>3, SettledGame DEF Order
  <2>5. Plan!Next
    BY <1>1, <1>4, <2>2, <2>4, LeftStep DEF Setting
  <2> QED
    BY <2>3, <2>4, <2>5
<1>7. CASE ~(g.stage = "selecting" /\ g.tie = {} /\ g.open = {})
  <2>1. Order(g)
    BY <1>4, <1>5 DEF IInv, Order
  <2>2. game' = g
    BY <1>1, <1>2, <1>7, <2>1, SettledGame DEF Order
  <2>3. Plan!Next
    BY <1>1, <1>3, <1>4, <2>2, ReviseStep
  <2> QED
    BY <2>1, <2>2, <2>3
<1> QED
  BY <1>6, <1>7

\* SET_CHOOSER.
LEMMA SetChooserStep ==
  ASSUME IInv, NEW p \in Players, SetChooser(p)
  PROVE  Order(game') /\ Plan!Next
<1> DEFINE g == [game EXCEPT !.chooser = p]
           t == StopKinds(g.timers, {"showmanDecision", "questionSelection"})
           b == [g EXCEPT !.timers = t]
<1>1. /\ Setting /\ game \in Games /\ Shape(game) /\ rules' = rules /\ active' = active
      /\ staff' = staff + 1 /\ game.stage \in InRound \union {"roundEnd"}
      /\ game.round \in DOMAIN Tables /\ game.open \subseteq Tables[game.round] /\ Leaving
  BY InterventionFacts DEF SetChooser
<1>2. game' = IF g.stage = "selecting" THEN AskChoose(b) ELSE g
  BY DEF SetChooser
<1>3. /\ g \in Games /\ g.open = game.open /\ g.timers = game.timers /\ g.late = game.late
      /\ g.stage = game.stage /\ g.round = game.round
      /\ g.tie = game.tie /\ g.cell = game.cell /\ g.sub = game.sub
      /\ g.candidates = game.candidates /\ g.answerer = game.answerer
      /\ g.before = game.before /\ g.others = game.others
      /\ g.scores = game.scores /\ g.history = game.history
  BY <1>1 DEF Games
<1> HIDE DEF g
<1>4. Shape(g)
  BY <1>1, <1>3 DEF Shape, Balanced, GivenAway, InRound
<1>5. Order(game') /\ game'.stage = game.stage /\ game'.round = game.round /\ game'.open = game.open
      /\ game'.late = game.late /\ game'.timers["round"] = game.timers["round"]
  <2>1. CASE g.stage = "selecting"
    <3>1. /\ t \in [Kinds -> TimerStatus] /\ t["round"] = g.timers["round"]
          /\ \A k \in Kinds : t[k] \in {g.timers[k], "off"}
      BY <1>3, StopBars
    <3>2. game' = AskChoose(b)
      BY <1>2, <2>1
    <3> HIDE DEF t
    <3>3. b \in Games /\ SameButTimers(g, b) /\ b.timers = t /\ Shape(b)
      BY <1>3, <1>4, <3>1, StopGame
    <3> HIDE DEF b
    <3>4. game' \in Games /\ Shape(game') /\ Kept(b, game') /\ game'.sub = b.sub
      BY <1>1, <2>1, <3>2, <3>3, AskChooseGame DEF SameButTimers, Setting
    <3> QED
      BY <1>3, <3>1, <3>3, <3>4 DEF SameButTimers, Kept, IInv, Order
  <2>2. CASE g.stage # "selecting"
    <3>1. game' = g
      BY <1>2, <2>2
    <3> QED
      BY <1>3, <1>4, <3>1 DEF IInv, Order
  <2> QED
    BY <2>1, <2>2
<1>6. game'.open \ game.open \subseteq {0} /\ game.open \ game'.open \subseteq {0}
  BY <1>5
<1>7. Plan!Next
  BY <1>1, <1>5, <1>6, ReviseStep DEF Order
<1> QED
  BY <1>5, <1>7
-----------------------------------------------------------------------------
(* The theorems.                                                           *)

\* Every step leaves the game in order, and is one of Rounds.
LEMMA NextStep ==
  ASSUME IInv, Next
  PROVE  Order(game') /\ Plan!Next
<1>1. CASE TimerStep
  BY <1>1, RoundTimeoutStep, SelectionTimeoutStep, DecisionTimeoutStep, PriceStep, ShownStep, ReflectionStep
     DEF TimerStep
<1>2. CASE Start \/ GoOn \/ Pause \/ Resume \/ MoveToAnswer \/ MoveBack \/ MoveToEnd
  BY <1>2, StartStep, GoOnStep, HoldStep, ShownStep, MoveBackStep, MoveOnStep
<1>3. CASE \E p \in Players : SelectPlayer(p) \/ SetChooser(p) \/ Gone(p) \/ PlayerJoined(p)
  <2>1. PICK p \in Players : SelectPlayer(p) \/ SetChooser(p) \/ Gone(p) \/ PlayerJoined(p)
    BY <1>3
  <2>2. Gone(p) \/ PlayerJoined(p) => UNCHANGED <<game, rules, staff>>
    BY DEF Gone, PlayerJoined
  <2> QED
    BY <2>1, <2>2, SelectStep, SetChooserStep, PresenceStep
<1>4. CASE \E p \in Players, right \in BOOLEAN : Played(p, right)
  BY <1>4, PlayedStep
<1>5. CASE \E c \in Cells : ChooseQuestion(c) \/ Toggle(c)
  BY <1>5, ChooseStep, ToggleStep
<1>6. CASE \E n \in {Price, HighPrice} : SetPrice(n)
  BY <1>6, PriceStep
<1>7. CASE \E r \in DOMAIN rules.tables : MoveToRound(r)
  BY <1>7, MoveOnStep
<1> QED
  BY <1>1, <1>2, <1>3, <1>4, <1>5, <1>6, <1>7 DEF Next

\* What a step makes of the rest of the state.
LEMMA RestStep ==
  ASSUME TypeOK, Next
  PROVE  /\ rules' = rules /\ active' \subseteq Players /\ paused' \in BOOLEAN
         /\ staff' \in 0..MaxStaff /\ breaks' \in 0..MaxBreaks
         /\ paused' = paused \/ (game.stage # "lobby" /\ game'.stage = game.stage)
<1> DEFINE Rest == /\ rules' = rules /\ active' \subseteq Players /\ paused' \in BOOLEAN
                   /\ staff' \in 0..MaxStaff /\ breaks' \in 0..MaxBreaks
                   /\ paused' = paused \/ (game.stage # "lobby" /\ game'.stage = game.stage)
<1>0. /\ MaxStaff \in Nat /\ MaxBreaks \in Nat /\ game \in Games
      /\ active \subseteq Players /\ paused \in BOOLEAN
      /\ staff \in 0..MaxStaff /\ breaks \in 0..MaxBreaks /\ rules.seats \subseteq Players
  BY NumbersAssumption, SetupsAssumption DEF TypeOK
<1>1. ASSUME Unmoved PROVE Rest
  BY <1>0, <1>1 DEF Unmoved
<1>2. ASSUME Intervention PROVE Rest
  BY <1>0, <1>2 DEF Intervention
<1>3. ASSUME NEW p \in Players, Gone(p) PROVE Rest
  BY <1>0, <1>3 DEF Gone
<1>4. ASSUME NEW p \in Players, PlayerJoined(p) PROVE Rest
  BY <1>0, <1>4 DEF PlayerJoined
<1>5. ASSUME Pause \/ Resume PROVE Rest
  <2>1. game'.stage = game.stage /\ game.stage # "lobby"
    BY <1>0, <1>5 DEF Pause, Resume, Games
  <2>2. paused' \in BOOLEAN /\ rules' = rules /\ active' = active /\ staff' = staff
    BY <1>5 DEF Pause, Resume
  <2>3. breaks' \in 0..MaxBreaks
    BY <1>0, <1>5 DEF Pause, Resume
  <2> QED
    BY <1>0, <2>1, <2>2, <2>3
<1> SUFFICES Rest
  OBVIOUS
<1> HIDE DEF Rest
<1>6. CASE TimerStep
  BY <1>1, <1>6 DEF TimerStep, TimeoutRound, TimeoutQuestionSelection, TimeoutShowmanDecision,
                    TimeoutPlayerSelection, TimeoutStakeMaking, NobodyAnswered, TimeoutReflection
<1>7. CASE Start \/ GoOn \/ Pause \/ Resume \/ MoveToAnswer \/ MoveBack \/ MoveToEnd
  BY <1>1, <1>2, <1>5, <1>7 DEF Start, GoOn, MoveToAnswer, MoveBack, MoveToEnd
<1>8. CASE \E p \in Players : SelectPlayer(p) \/ SetChooser(p) \/ Gone(p) \/ PlayerJoined(p)
  BY <1>1, <1>2, <1>3, <1>4, <1>8 DEF SelectPlayer, SetChooser
<1>9. CASE \/ \E p \in Players, right \in BOOLEAN : Played(p, right)
           \/ \E c \in Cells : ChooseQuestion(c) \/ Toggle(c)
           \/ \E n \in {Price, HighPrice} : SetPrice(n)
           \/ \E r \in DOMAIN rules.tables : MoveToRound(r)
  BY <1>1, <1>2, <1>9 DEF Played, ChooseQuestion, Toggle, SetPrice, MoveToRound
<1> QED
  BY <1>6, <1>7, <1>8, <1>9 DEF Next

\* A new game is in order.
LEMMA InitHolds ==
  ASSUME Init
  PROVE  IInv /\ Plan!Init
<1> DEFINE n == NoScores
           t == [k \in Kinds |-> "off"]
<1>1. n \in [Players -> Int] /\ n \in [Players -> Nat]
  BY DEF NoScores
<1>2. t \in [Kinds -> TimerStatus] /\ \A k \in Kinds : t[k] = "off"
  BY DEF TimerStatus
<1>3. game = [stage |-> "lobby", round |-> 0, open |-> {}, late |-> FALSE, chooser |-> NoPlayer,
              tie |-> {}, cell |-> 0, sub |-> "none", decider |-> NoPlayer, candidates |-> {},
              answerer |-> NoPlayer, price |-> 0, scores |-> n, history |-> n,
              timers |-> t, before |-> n, others |-> {}, turns |-> n]
  BY DEF Init
<1> HIDE DEF n, t
<1>4. /\ game.stage = "lobby" /\ game.round = 0 /\ game.open = {} /\ game.late = FALSE
      /\ game.tie = {} /\ game.sub = "none" /\ game.candidates = {} /\ game.answerer = NoPlayer
      /\ game.others = {} /\ game.timers = t
  BY <1>3
<1>5. game \in Games
  <2>1. NoPlayer \in Players \union {NoPlayer} /\ 0 \in Cells \union {0} /\ {} \in SUBSET Cells /\ {} \in SUBSET Players
    OBVIOUS
  <2> QED
    BY <1>1, <1>2, <1>3, <2>1 DEF Games
<1>6. TypeOK
  <2>1. rules \in Setups /\ active = rules.seats /\ paused = FALSE /\ staff = 0 /\ breaks = 0
    BY DEF Init
  <2>2. active \subseteq Players
    BY <2>1, SetupsAssumption
  <2>3. 0 \in 0..MaxStaff /\ 0 \in 0..MaxBreaks
    BY NumbersAssumption
  <2> QED
    BY <1>5, <2>1, <2>2, <2>3 DEF TypeOK
<1>7. Shape(game)
  BY <1>2, <1>4 DEF Init, Shape, GivenAway, Kinds, InRound
<1>8. Phase(game) = "before" /\ TimeLeft(game) = "none"
  BY <1>2, <1>4 DEF Phase, TimeLeft, Kinds
<1> QED
  BY <1>4, <1>6, <1>7, <1>8 DEF IInv, Init, Plan!Init

\* The invariant is inductive.
LEMMA InvariantStep ==
  ASSUME IInv, [Next]_vars
  PROVE  IInv'
<1>1. CASE Next
  <2>1. Order(game')
    BY <1>1, NextStep
  <2>2. /\ rules' = rules /\ active' \subseteq Players /\ paused' \in BOOLEAN
        /\ staff' \in 0..MaxStaff /\ breaks' \in 0..MaxBreaks
        /\ paused' = paused \/ (game.stage # "lobby" /\ game'.stage = game.stage)
    BY <1>1, RestStep DEF IInv
  <2>3. Cells' = Cells /\ Tables' = Tables
    BY <2>2 DEF Cells, Tables
  <2>4. Games' = Games
    BY <2>3 DEF Games
  <2>5. TypeOK'
    BY <2>1, <2>2, <2>4 DEF IInv, TypeOK, Order
  <2>6. Shape(game)'
    <3>1. Shape(game')
      BY <2>1 DEF Order
    <3> QED
      BY <2>2, <2>3, <3>1 DEF Shape, Balanced, GivenAway
  <2> QED
    BY <2>1, <2>5, <2>6 DEF IInv, Order
<1>2. CASE UNCHANGED vars
  BY <1>2 DEF vars, IInv, TypeOK, Games, Cells, Shape, Tables, Balanced, GivenAway
<1> QED
  BY <1>1, <1>2

\* Every game stays in order, whatever the pack, the mode, the players and the
\* showman do (engine.go: apply).
THEOREM Invariant == Spec => []IInv
<1>1. Init => IInv
  BY InitHolds
<1> QED
  BY <1>1, InvariantStep, PTL DEF Spec

\* The variables have their types.
THEOREM TypeCorrect == Spec => []TypeOK
<1>1. IInv => TypeOK
  BY DEF IInv
<1> QED
  BY <1>1, Invariant, PTL

\* RoundFlow implements Rounds: a round is played from its own table, a cell at a
\* time, and is left for a reason; once its time is up only a selection already
\* under way still leads to a question; and rounds follow each other in order
\* (engine.go: startRound, beginSelection, endRound, onTimeout, moveTo).
THEOREM TheRoundsArePlayed == Spec => RoundsArePlayed
<1>1. Init => Plan!Init
  BY InitHolds
<1>2. IInv /\ [Next]_vars => [Plan!Next]_(Plan!vars)
  <2>1. IInv /\ Next => Plan!Next
    BY NextStep
  <2>2. UNCHANGED vars => UNCHANGED Plan!vars
    BY DEF vars, Plan!vars, Phase, TimeLeft, Instant, Cells
  <2> QED
    BY <2>1, <2>2
<1> QED
  BY <1>1, <1>2, Invariant, PTL DEF Spec, RoundsArePlayed, Plan!Spec

\* A question that is given back leaves no trace in the scores
\* (engine.go: returnQuestionToTable).
THEOREM ReturnsLeaveNoTrace == Spec => ReturnLeavesNoTrace
<1>1. IInv /\ [Next]_vars => [MoveBack => game'.scores = game.before]_vars
  BY MoveBackStep
<1> QED
  BY <1>1, Invariant, PTL DEF Spec, ReturnLeavesNoTrace

\* A secret that must be given away goes to one of the others who were there
\* (question.go: secretBegin, secretTransfer, secretRecipientChosen).
THEOREM SecretsAreGiven == Spec => SecretIsGiven
<1> DEFINE Given == rules.except /\ game'.cell = game.cell /\ game'.answerer \notin {game.answerer, NoPlayer}
                    /\ game'.others # {} => game'.answerer \in game'.others
<1>1. IInv /\ [Next]_vars => [Given]_vars
  <2>1. ASSUME IInv, Next PROVE Given
    <3>1. Shape(game')
      BY <2>1, NextStep DEF Order
    <3> QED
      BY <3>1 DEF Shape, GivenAway
  <2> QED
    BY <2>1
<1> QED
  BY <1>1, Invariant, PTL DEF Spec, SecretIsGiven
-----------------------------------------------------------------------------
(* The turns.  Those who have chosen once more than the others in a round  *)
(* sit next to each other, from somebody f up to the chooser.              *)

\* Seat p is from f on and before c, going round the table.
Before(f, p, c) == (f <= p /\ p < c) \/ (c < f /\ (f <= p \/ p < c))

\* The chooser is about to choose, or has chosen.
Waiting(g, act) ==
    /\ g.chooser \in act
    /\ \E f \in act, k \in Nat : \A p \in act : g.turns[p] = IF Before(f, p, g.chooser) THEN k + 1 ELSE k
Chosen(g, act) ==
    /\ g.chooser \in act
    /\ \E f \in act, k \in Nat :
           \A p \in act : g.turns[p] = IF Before(f, p, g.chooser) \/ p = g.chooser THEN k + 1 ELSE k
Spread(g, act) == \A p, o \in act : g.turns[p] <= g.turns[o] + 1

InTurn(g, act) ==
    /\ g.stage \in {"lobby", "roundIntro"} => g.turns = NoScores /\ g.timers["questionSelection"] = "off"
    /\ g.stage = "selecting" /\ g.tie # {} =>
           g.turns = NoScores /\ g.timers["questionSelection"] = "off" /\ g.tie \subseteq act
    /\ g.stage = "selecting" /\ g.tie = {} => Waiting(g, act)
    /\ g.stage = "question" => g.sub \in {"play", "reveal"} /\ Chosen(g, act)
    /\ Spread(g, act)

Steady == rules.mode = "turnTaking" /\ breaks = 0 /\ staff = 0 /\ (\A c \in Cells : rules.kind[c] = "simple")
TurnInv == Steady => active = rules.seats /\ InTurn(game, active)

\* Nobody is a turn ahead by more than one.
LEMMA SpreadHolds ==
  ASSUME NEW g, NEW act
  PROVE  /\ Waiting(g, act) => Spread(g, act)
         /\ Chosen(g, act) => Spread(g, act)
         /\ act \subseteq Players /\ g.turns = NoScores => Spread(g, act)
<1>1. ASSUME Waiting(g, act) PROVE Spread(g, act)
  <2>1. PICK k \in Nat : \A p \in act : g.turns[p] = k \/ g.turns[p] = k + 1
    BY <1>1 DEF Waiting
  <2> QED
    BY <2>1 DEF Spread
<1>2. ASSUME Chosen(g, act) PROVE Spread(g, act)
  <2>1. PICK k \in Nat : \A p \in act : g.turns[p] = k \/ g.turns[p] = k + 1
    BY <1>2 DEF Chosen
  <2> QED
    BY <2>1 DEF Spread
<1>3. ASSUME act \subseteq Players, g.turns = NoScores PROVE Spread(g, act)
  <2>1. \A p \in act : g.turns[p] = 0
    BY <1>3 DEF NoScores
  <2> QED
    BY <2>1 DEF Spread
<1> QED
  BY <1>1, <1>2, <1>3

\* The seat d after c, going round the table: who was up to c is before d, unless
\* d is where the round of turns began.
LEMMA NextTurn ==
  ASSUME NEW act \in SUBSET Nat, NEW c \in act, NEW d \in act, NEW f \in act, NEW p \in act,
         \/ d > c /\ \A o \in act : o > c => d <= o
         \/ \A o \in act : o <= c /\ d <= o
  PROVE  IF d = f THEN Before(f, p, c) \/ p = c ELSE Before(f, p, d) <=> Before(f, p, c) \/ p = c
<1>1. c \in Nat /\ d \in Nat /\ f \in Nat /\ p \in Nat
  OBVIOUS
<1>2. CASE d > c /\ \A o \in act : o > c => d <= o
  <2>1. (p > c => d <= p) /\ (f > c => d <= f)
    BY <1>2
  <2> QED
    BY <1>1, <1>2, <2>1 DEF Before
<1>3. CASE \A o \in act : o <= c /\ d <= o
  <2>1. p <= c /\ d <= p /\ f <= c /\ d <= f /\ d <= c
    BY <1>3
  <2> QED
    BY <1>1, <2>1 DEF Before
<1> QED
  BY <1>2, <1>3

\* AskChoose keeps who has chosen, and Clock everything.
LEMMA AskChooseTurns ==
  ASSUME paused \in BOOLEAN, NEW g \in Games
  PROVE  LET h == AskChoose(g)
         IN  h.stage = g.stage /\ h.tie = {} /\ h.chooser = g.chooser /\ h.turns = g.turns /\ h.sub = g.sub
<1> DEFINE m == [g EXCEPT !.tie = {}]
           h == Clock(m, "questionSelection")
<1>1. /\ m \in Games /\ m.tie = {} /\ m.stage = g.stage /\ m.sub = g.sub
      /\ m.chooser = g.chooser /\ m.turns = g.turns
  BY DEF Games
<1>2. AskChoose(g) = h
  BY DEF AskChoose
<1> HIDE DEF m
<1>3. SameButTimers(m, h)
  BY <1>1, ClockGame DEF Kinds
<1> QED
  BY <1>1, <1>2, <1>3 DEF SameButTimers

\* Who chooses first in a round.
LEMMA FreshSelection ==
  ASSUME Setting, NEW g, Ready(g), ~Sequential, active' # {}, g.turns = NoScores,
         g.timers["questionSelection"] = "off"
  PROVE  InTurn(Selection(g, TRUE), active')
<1> DEFINE m == NoQuestion(g)
           b == [m EXCEPT !.stage = "selecting", !.tie = {}]
           low == Lowest(g)
           h == Selection(g, TRUE)
<1> SUFFICES InTurn(h, active')
  OBVIOUS
<1>1. m \in Games /\ m.timers = g.timers /\ m.turns = g.turns
  BY NoQuestionGame DEF Ready
<1>2. h = IF Cardinality(low) = 1 THEN AskChoose([b EXCEPT !.chooser = Min(low)])
          ELSE Clock([b EXCEPT !.tie = low], "showmanDecision")
  BY DEF Selection
<1> HIDE DEF m, h
<1>3. b \in Games /\ b.stage = "selecting" /\ b.timers = g.timers /\ b.turns = NoScores
  BY <1>1 DEF Games
<1> HIDE DEF b
<1>4. low # {} /\ low \subseteq Players /\ low \subseteq active'
  BY LowestExists DEF Ready, Lowest
<1>5. active' \subseteq Players /\ active' \subseteq Nat
  BY PlayersAssumption DEF Setting
<1>6. CASE Cardinality(low) = 1
  <2> DEFINE p == Min(low)
             q == [b EXCEPT !.chooser = p]
  <2>1. p \in low
    BY <1>4, <1>5, MinOfSet
  <2>2. h = AskChoose(q)
    BY <1>2, <1>6
  <2> HIDE DEF p, low
  <2>3. q \in Games /\ q.stage = "selecting" /\ q.chooser = p /\ q.turns = NoScores
    BY <1>3, <1>4, <2>1 DEF Games
  <2> HIDE DEF q
  <2>4. h.stage = "selecting" /\ h.tie = {} /\ h.chooser = p /\ h.turns = NoScores
    BY <2>2, <2>3, AskChooseTurns DEF Setting
  <2>5. Waiting(h, active')
    <3>1. p \in active' /\ \A o \in active' : h.turns[o] = 0 /\ ~Before(p, o, p)
      BY <1>4, <1>5, <2>1, <2>4 DEF NoScores, Before
    <3>2. 0 \in Nat /\ \A o \in active' : h.turns[o] = IF Before(p, o, h.chooser) THEN 0 + 1 ELSE 0
      BY <2>4, <3>1
    <3> QED
      BY <2>4, <3>1, <3>2 DEF Waiting
  <2> QED
    BY <2>4, <2>5, SpreadHolds DEF InTurn
<1>7. CASE Cardinality(low) # 1
  <2> DEFINE q == [b EXCEPT !.tie = low]
  <2>1. h = Clock(q, "showmanDecision")
    BY <1>2, <1>7
  <2> HIDE DEF low
  <2>2. q \in Games /\ q.stage = "selecting" /\ q.tie = low /\ q.turns = NoScores /\ q.timers = g.timers
    BY <1>3, <1>4 DEF Games
  <2> HIDE DEF q
  <2>3. SameButTimers(q, h) /\ \A k \in Kinds \ {"showmanDecision"} : h.timers[k] = q.timers[k]
    BY <2>1, <2>2, ClockGame DEF Kinds, Setting
  <2>4. h.stage = "selecting" /\ h.tie = low /\ h.turns = NoScores /\ h.timers["questionSelection"] = "off"
    BY <2>2, <2>3 DEF SameButTimers, Kinds
  <2> QED
    BY <1>4, <1>5, <2>4, SpreadHolds DEF InTurn
<1> QED
  BY <1>6, <1>7

\* The end of the game, and of a round.
LEMMA OverTurns ==
  ASSUME NEW g \in Games, Spread(g, active')
  PROVE  InTurn(EndGame(g), active') /\ (rules.managed => InTurn(EndRound(g), active'))
<1> DEFINE m == NoQuestion(g)
           t == [k \in Kinds |-> "off"]
           a == [m EXCEPT !.stage = "gameEnd", !.timers = t, !.tie = {}, !.late = FALSE]
           b == [m EXCEPT !.stage = "roundEnd", !.timers = t, !.tie = {}]
<1>1. m \in Games /\ m.turns = g.turns
  BY NoQuestionGame
<1>2. EndGame(g) = a /\ (rules.managed => EndRound(g) = b)
  BY DEF EndGame, EndRound
<1> HIDE DEF m, t
<1>3. a.stage = "gameEnd" /\ a.turns = g.turns /\ b.stage = "roundEnd" /\ b.turns = g.turns
  BY <1>1 DEF Games
<1> HIDE DEF a, b
<1>4. InTurn(a, active') /\ InTurn(b, active')
  BY <1>3 DEF InTurn, Spread
<1> QED
  BY <1>2, <1>4

\* A round that is dealt.
LEMMA DealtTurns ==
  ASSUME Setting, NEW g \in Games, NEW r \in DOMAIN Tables
  PROVE  LET d == Dealt(g, r)
         IN  /\ Ready(d) /\ d.stage = "roundIntro" /\ d.turns = NoScores
             /\ d.timers["questionSelection"] = "off" /\ InTurn(d, active')
<1> DEFINE m == NoQuestion(g)
           t == [k \in Kinds |-> IF k = "round" /\ rules.timed THEN Live(paused) ELSE "off"]
           n == NoScores
           o == Tables[r]
           d == [m EXCEPT !.stage = "roundIntro", !.round = r, !.open = o, !.late = FALSE,
                          !.tie = {}, !.turns = n, !.timers = t]
<1>1. m \in Games
  BY NoQuestionGame
<1>2. Dealt(g, r) = d
  BY DEF Dealt, Tables
<1>3. t["questionSelection"] = "off"
  BY DEF Kinds
<1>4. Ready(Dealt(g, r))
  BY DealtGame
<1> HIDE DEF m, t, n, o
<1>5. d.stage = "roundIntro" /\ d.turns = n /\ d.timers = t
  BY <1>1 DEF Games
<1> HIDE DEF d
<1>6. Spread(d, active')
  BY <1>5, SpreadHolds DEF Setting, n
<1>7. InTurn(d, active')
  BY <1>3, <1>5, <1>6 DEF InTurn, n
<1> QED
  BY <1>2, <1>3, <1>4, <1>5, <1>7 DEF n

\* A round that begins, or the end of the game.
LEMMA StartRoundTurns ==
  ASSUME Setting, NEW g \in Games, NEW r \in Nat \ {0}, ~Sequential, Spread(g, active')
  PROVE  InTurn(StartRound(g, r), active')
<1> DEFINE h == StartRound(g, r)
           rounds == {i \in DOMAIN Tables : i >= r}
           playable == {i \in rounds : Tables[i] # {} /\ (Sequential \/ active' # {})}
           last == Max(rounds)
           u == [g EXCEPT !.round = last, !.open = Tables[last]]
<1>1. h = CASE rounds = {} -> EndGame(g)
            [] rounds # {} /\ rules.managed -> Dealt(g, Min(rounds))
            [] rounds # {} /\ ~rules.managed /\ playable # {} -> Selection(Dealt(g, Min(playable)), TRUE)
            [] OTHER -> EndGame(u)
  BY DEF StartRound, Tables
<1>2. /\ DOMAIN Tables = 1..Len(Tables) /\ Len(Tables) \in Nat
      /\ \A i \in DOMAIN Tables : Tables[i] \subseteq Cells
  BY PackFacts DEF Setting
<1>3. rounds \subseteq Nat /\ IsFiniteSet(rounds) /\ playable \subseteq rounds /\ rounds \subseteq DOMAIN Tables
  <2>1. IsFiniteSet(1..Len(Tables)) /\ rounds \subseteq 1..Len(Tables)
    BY <1>2, FS_Interval
  <2> QED
    BY <1>2, <2>1, FS_Subset
<1>4. CASE rounds = {}
  <2>1. h = EndGame(g)
    BY <1>1, <1>4
  <2> HIDE DEF h
  <2>2. InTurn(h, active')
    BY <2>1, OverTurns
  <2> QED
    BY <2>2 DEF h
<1>5. CASE rounds # {} /\ rules.managed
  <2> DEFINE m == Min(rounds)
  <2>1. m \in DOMAIN Tables
    BY <1>3, <1>5, MinOfSet
  <2>2. h = Dealt(g, m)
    BY <1>1, <1>5
  <2> HIDE DEF m, h
  <2>3. InTurn(h, active')
    BY <2>1, <2>2, DealtTurns
  <2> QED
    BY <2>3 DEF h
<1>6. CASE rounds # {} /\ ~rules.managed /\ playable # {}
  <2> DEFINE m == Min(playable)
             d == Dealt(g, m)
  <2>1. m \in playable
    BY <1>3, <1>6, MinOfSet
  <2>2. h = Selection(d, TRUE)
    BY <1>1, <1>6
  <2> HIDE DEF m, h
  <2>3. m \in DOMAIN Tables /\ active' # {}
    BY <1>3, <2>1
  <2>4. Ready(d) /\ d.turns = NoScores /\ d.timers["questionSelection"] = "off"
    BY <2>3, DealtTurns
  <2> HIDE DEF d
  <2>5. InTurn(h, active')
    BY <2>2, <2>3, <2>4, FreshSelection
  <2> QED
    BY <2>5 DEF h
<1>7. CASE rounds # {} /\ ~rules.managed /\ playable = {}
  <2>1. h = EndGame(u)
    BY <1>1, <1>7
  <2>2. last \in rounds
    BY <1>3, <1>7, MaxOfSet
  <2> HIDE DEF last, h
  <2>3. last \in Nat /\ Tables[last] \subseteq Cells
    BY <1>2, <1>3, <2>2
  <2>4. u \in Games /\ u.turns = g.turns
    BY <2>3 DEF Games
  <2> HIDE DEF u
  <2>5. Spread(u, active')
    BY <2>4 DEF Spread
  <2>6. InTurn(h, active')
    BY <2>1, <2>4, <2>5, OverTurns
  <2> QED
    BY <2>6 DEF h
<1> QED
  BY <1>4, <1>5, <1>6, <1>7

\* A round that is left.
LEMMA EndRoundTurns ==
  ASSUME Setting, NEW g \in Games, ~Sequential, Spread(g, active')
  PROVE  InTurn(EndRound(g), active')
<1>1. CASE rules.managed
  BY <1>1, OverTurns
<1>2. CASE ~rules.managed
  <2>1. EndRound(g) = StartRound(g, g.round + 1)
    BY <1>2 DEF EndRound
  <2>2. g.round + 1 \in Nat \ {0}
    BY DEF Games
  <2> QED
    BY <2>1, <2>2, StartRoundTurns
<1> QED
  BY <1>1, <1>2
\* The next choice in a round, and the first.
LEMMA BeginTurns ==
  ASSUME Setting, NEW g, Ready(g), ~Sequential, NEW roundStart \in BOOLEAN, Spread(g, active'),
         roundStart => g.turns = NoScores /\ g.timers["questionSelection"] = "off",
         ~roundStart => active' = {} \/ Waiting(g, active')
  PROVE  InTurn(BeginSelection(g, roundStart), active')
<1> DEFINE stop == g.late \/ g.open = {} \/ (~Sequential /\ (roundStart \/ g.chooser \notin active') /\ active' = {})
<1>1. g \in Games
  BY DEF Ready
<1>2. CASE stop
  BY <1>1, <1>2, EndRoundTurns DEF BeginSelection
<1>3. CASE ~stop /\ roundStart
  <2>1. active' # {} /\ BeginSelection(g, roundStart) = Selection(g, TRUE)
    BY <1>3 DEF BeginSelection
  <2> QED
    BY <1>3, <2>1, FreshSelection
<1>4. CASE ~stop /\ ~roundStart
  <2> DEFINE m == NoQuestion(g)
             b == [m EXCEPT !.stage = "selecting", !.tie = {}]
             h == AskChoose(b)
  <2>1. m \in Games /\ m.chooser = g.chooser /\ m.turns = g.turns
    BY NoQuestionGame DEF Ready
  <2>2. Waiting(g, active')
    BY <1>4 DEF Waiting
  <2>3. BeginSelection(g, roundStart) = h
    BY <1>4, <2>2 DEF BeginSelection, Selection, Waiting
  <2> HIDE DEF m
  <2>4. b \in Games /\ b.stage = "selecting" /\ b.chooser = g.chooser /\ b.turns = g.turns
    BY <2>1 DEF Games
  <2> HIDE DEF b
  <2>5. h.stage = "selecting" /\ h.tie = {} /\ h.chooser = g.chooser /\ h.turns = g.turns
    BY <2>4, AskChooseTurns DEF Setting
  <2> HIDE DEF h
  <2>6. Waiting(h, active')
    BY <2>2, <2>5 DEF Waiting
  <2>7. Spread(h, active')
    BY <2>6, SpreadHolds
  <2> QED
    BY <2>3, <2>5, <2>6, <2>7 DEF InTurn
<1> QED
  BY <1>2, <1>3, <1>4

\* The chooser has chosen.
LEMMA StartQuestionTurns ==
  ASSUME Setting, NEW g, Ready(g), NEW c \in g.open, rules.kind[c] = "simple", Waiting(g, active')
  PROVE  InTurn(StartQuestion(g, c), active') /\ StartQuestion(g, c).sub = "play"
<1> DEFINE m == NoQuestion(g)
           turns == [p \in Players |-> IF p = m.chooser THEN m.turns[p] + 1 ELSE m.turns[p]]
           open == m.open \ {c}
           q == [m EXCEPT !.stage = "question", !.cell = c, !.open = open, !.tie = {},
                          !.before = g.scores, !.price = Price, !.turns = turns, !.sub = "play"]
           h == Clock(q, "content")
<1>1. m \in Games /\ m.chooser = g.chooser /\ m.turns = g.turns /\ m.open = g.open
  BY NoQuestionGame DEF Ready
<1>2. StartQuestion(g, c) = h
  <2> DEFINE b == [NoQuestion(g) EXCEPT !.stage = "question", !.cell = c, !.open = @ \ {c}, !.tie = {},
                              !.before = g.scores, !.price = Price,
                              !.turns = [p \in Players |-> IF p = g.chooser THEN @[p] + 1 ELSE @[p]]]
  <2>1. [b EXCEPT !.sub = "play"] = q
    BY <1>1 DEF Games
  <2>2. StartQuestion(g, c) = Clock([b EXCEPT !.sub = "play"], "content")
    BY DEF StartQuestion
  <2> HIDE DEF b, q
  <2> QED
    BY <2>1, <2>2
<1> HIDE DEF m
<1>3. /\ turns \in [Players -> Nat] /\ open \in SUBSET Cells /\ g.scores \in [Players -> Int]
      /\ Price \in Int /\ c \in Cells
      /\ \A p \in Players : turns[p] = IF p = g.chooser THEN g.turns[p] + 1 ELSE g.turns[p]
  <2>1. m.turns \in [Players -> Nat] /\ m.open \in SUBSET Cells /\ g.scores \in [Players -> Int]
    BY <1>1 DEF Ready, Games
  <2>2. turns \in [Players -> Nat]
    BY <2>1
  <2>3. c \in Cells
    BY <1>1, <2>1
  <2> QED
    BY <1>1, <2>1, <2>2, <2>3, NumbersAssumption
<1> HIDE DEF turns, open
<1>4. /\ q.stage = "question" /\ q.sub = "play" /\ q.chooser = g.chooser /\ q.turns = turns
  BY <1>1 DEF Games
<1>5. q \in Games
  <2> DEFINE w == [m EXCEPT !.cell = c]
             x == [w EXCEPT !.stage = "question", !.open = open, !.tie = {}]
             y == [x EXCEPT !.before = g.scores, !.price = Price]
             z == [y EXCEPT !.turns = turns, !.sub = "play"]
  <2>0. w \in Games
    BY <1>1, <1>3 DEF Games
  <2>1. q = z
    BY <1>1 DEF Games
  <2> HIDE DEF w, q
  <2>2. x \in Games
    BY <1>3, <2>0 DEF Games
  <2> HIDE DEF x
  <2>3. y \in Games
    BY <1>3, <2>2 DEF Games
  <2> HIDE DEF y
  <2>4. z \in Games
    BY <1>3, <2>3 DEF Games
  <2> QED
    BY <2>1, <2>4
<1> HIDE DEF q
<1>6. SameButTimers(q, h)
  BY <1>5, ClockGame DEF Kinds, Setting
<1> HIDE DEF h
<1>7. h.stage = "question" /\ h.sub = "play" /\ h.chooser = g.chooser /\ h.turns = turns
  BY <1>4, <1>6 DEF SameButTimers
<1>8. Chosen(h, active')
  <2>1. PICK f \in active', k \in Nat :
            \A p \in active' : g.turns[p] = IF Before(f, p, g.chooser) THEN k + 1 ELSE k
    BY DEF Waiting
  <2>2. active' \subseteq Players /\ Players \subseteq Nat /\ g.chooser \in active' /\ g.chooser \in Nat
    BY PlayersAssumption DEF Setting, Waiting
  <2>3. ~Before(f, g.chooser, g.chooser)
    <3>1. f \in Nat /\ g.chooser \in Nat
      BY <2>2
    <3> QED
      BY <3>1 DEF Before
  <2>4. \A p \in active' : h.turns[p] = IF Before(f, p, h.chooser) \/ p = h.chooser THEN k + 1 ELSE k
    <3> SUFFICES ASSUME NEW p \in active'
                 PROVE  h.turns[p] = IF Before(f, p, h.chooser) \/ p = h.chooser THEN k + 1 ELSE k
      OBVIOUS
    <3>1. p \in Players /\ h.turns[p] = IF p = g.chooser THEN g.turns[p] + 1 ELSE g.turns[p]
      BY <1>3, <1>7, <2>2
    <3>2. CASE p = g.chooser
      BY <1>7, <2>1, <2>3, <3>1, <3>2
    <3>3. CASE p # g.chooser
      BY <1>7, <2>1, <3>1, <3>3
    <3> QED
      BY <3>2, <3>3
  <2> QED
    BY <1>7, <2>2, <2>4 DEF Chosen
<1>9. Spread(h, active')
  BY <1>8, SpreadHolds
<1> QED
  BY <1>2, <1>7, <1>8, <1>9 DEF InTurn

\* The next at the table is to choose.
LEMMA RotatedTurns ==
  ASSUME Setting, NEW g, Chosen(g, active'), NEW h, h.turns = g.turns, h.chooser = Rotated(g.chooser)
  PROVE  Waiting(h, active')
<1> DEFINE c == g.chooser
           after == {p \in active' : p > c}
           d == Rotated(c)
<1>1. c \in active' /\ active' \subseteq Nat /\ after \subseteq Nat
  BY PlayersAssumption DEF Setting, Chosen
<1>2. /\ d \in active'
      /\ \/ d > c /\ \A o \in active' : o > c => d <= o
         \/ \A o \in active' : o <= c /\ d <= o
  <2>1. d = IF after # {} THEN Min(after) ELSE Min(active')
    BY <1>1 DEF Rotated
  <2> HIDE DEF d
  <2>2. CASE after # {}
    <3>1. d \in after /\ \A o \in after : d <= o
      BY <1>1, <2>1, <2>2, MinOfSet
    <3> QED
      BY <3>1
  <2>3. CASE after = {}
    <3>1. d \in active' /\ \A o \in active' : d <= o
      BY <1>1, <2>1, <2>3, MinOfSet
    <3>2. \A o \in active' : o <= c
      BY <1>1, <2>3
    <3> QED
      BY <3>1, <3>2
  <2> QED
    BY <2>2, <2>3
<1>3. PICK f \in active', k \in Nat :
          \A p \in active' : g.turns[p] = IF Before(f, p, c) \/ p = c THEN k + 1 ELSE k
  BY DEF Chosen
<1> HIDE DEF c, d, after
<1>4. \A p \in active' :
          IF d = f THEN Before(f, p, c) \/ p = c ELSE Before(f, p, d) <=> Before(f, p, c) \/ p = c
  BY <1>1, <1>2, NextTurn
<1>5. h.turns = g.turns /\ h.chooser = d
  BY DEF c, d
<1>6. CASE d = f
  <2>1. \A p \in active' : ~Before(d, p, d)
    BY <1>1, <1>2 DEF Before
  <2>2. k + 1 \in Nat /\ \A p \in active' : h.turns[p] = IF Before(d, p, h.chooser) THEN (k + 1) + 1 ELSE k + 1
    BY <1>3, <1>4, <1>5, <1>6, <2>1
  <2> QED
    BY <1>2, <1>5, <2>2 DEF Waiting
<1>7. CASE d # f
  <2>1. \A p \in active' : h.turns[p] = IF Before(f, p, h.chooser) THEN k + 1 ELSE k
    BY <1>3, <1>4, <1>5, <1>7
  <2> QED
    BY <1>2, <1>3, <1>5, <2>1 DEF Waiting
<1> QED
  BY <1>6, <1>7

\* What follows a question in the turn-taking mode.
LEMMA EndQuestionTurns ==
  ASSUME Setting, NEW g \in Games, Shape(g), g.stage = "question", Chosen(g, active'),
         rules.mode = "turnTaking"
  PROVE  InTurn(EndQuestion(g), active')
<1> DEFINE t == StopAllExcept(g.timers, {"round"})
           m == [Stop(g, {"round"}) EXCEPT !.sub = "end"]
           c == Rotated(g.chooser)
           b == [m EXCEPT !.chooser = c]
<1>0. active' # {}
  BY DEF Chosen
<1>1. /\ t \in [Kinds -> TimerStatus] /\ t["round"] = g.timers["round"]
      /\ \A k \in Kinds \ {"round"} : t[k] = "off"
  BY StopBars
<1>2. m = [g EXCEPT !.timers = t, !.sub = "end"]
  BY DEF Stop, Games
<1>3. EndQuestion(g) = BeginSelection([m EXCEPT !.chooser =
            IF rules.mode = "turnTaking" /\ active' # {} THEN Rotated(@) ELSE @], FALSE)
  BY DEF EndQuestion, AfterQuestion
<1> HIDE DEF t
<1>4. /\ m \in Games /\ m.timers = t /\ m.stage = g.stage /\ m.round = g.round /\ m.open = g.open
      /\ m.late = g.late /\ m.turns = g.turns /\ m.chooser = g.chooser
  BY <1>1, <1>2 DEF Games
<1> HIDE DEF m
<1>5. c \in Players
  <2> DEFINE w == [m EXCEPT !.chooser = c]
  <2>1. w.turns = g.turns /\ w.chooser = c
    BY <1>4 DEF Games
  <2> HIDE DEF w, c
  <2>2. Waiting(w, active')
    BY <2>1, RotatedTurns DEF c
  <2> QED
    BY <2>1, <2>2 DEF Waiting, Setting
<1>6. EndQuestion(g) = BeginSelection(b, FALSE)
  BY <1>0, <1>3, <1>4 DEF Games
<1>7. b.chooser = c
  BY <1>4 DEF Games
<1>8. /\ b \in Games /\ b.timers = t /\ b.stage = g.stage /\ b.round = g.round /\ b.open = g.open
      /\ b.late = g.late /\ b.turns = g.turns
  <2> HIDE DEF c
  <2> QED
    BY <1>4, <1>5 DEF Games
<1> HIDE DEF b
<1>9. Ready(b)
  BY <1>1, <1>8 DEF Ready, Shape, Kinds, InRound
<1>10. Waiting(b, active')
  BY <1>7, <1>8, RotatedTurns
<1>11. Spread(b, active')
  BY <1>10, SpreadHolds
<1> QED
  BY <1>6, <1>9, <1>10, <1>11, BeginTurns DEF Sequential
\* What a step of a steady game starts from.
Turning == IInv /\ Steady /\ InTurn(game, active)

\* A step of a steady game that leaves the players alone.
LEMMA TurningFacts ==
  ASSUME Turning, active' = active
  PROVE  /\ Setting /\ game \in Games /\ Shape(game) /\ game.sub # "end" /\ InTurn(game, active')
         /\ rules.mode = "turnTaking" /\ ~Sequential /\ \A c \in Cells : rules.kind[c] = "simple"
<1>1. Setting
  BY SettingHolds DEF Turning, IInv, TypeOK
<1>2. InTurn(game, active')
  BY DEF Turning
<1> QED
  BY <1>1, <1>2 DEF Turning, IInv, TypeOK, Steady, Sequential

\* The showing of the answer keeps who has chosen.
LEMMA ShowAnswerTurns ==
  ASSUME paused \in BOOLEAN, NEW g \in Games, g.stage = "question", NEW act, Chosen(g, act)
  PROVE  InTurn(ShowAnswer(g), act)
<1> DEFINE t == StopAllExcept(g.timers, {"round"})
           m == [Stop(g, {"round"}) EXCEPT !.sub = "reveal", !.decider = NoPlayer, !.candidates = {}]
           h == ShowAnswer(g)
<1>1. t \in [Kinds -> TimerStatus]
  BY StopBars
<1>2. m = [[g EXCEPT !.timers = t] EXCEPT !.sub = "reveal", !.decider = NoPlayer, !.candidates = {}]
  BY DEF Stop
<1>3. h = IF rules.managed THEN m ELSE Clock(m, "reflection")
  BY DEF ShowAnswer
<1> HIDE DEF t
<1>4. m \in Games /\ m.stage = "question" /\ m.sub = "reveal" /\ m.chooser = g.chooser /\ m.turns = g.turns
  BY <1>1, <1>2 DEF Games
<1> HIDE DEF m
<1>5. SameButTimers(m, Clock(m, "reflection"))
  BY <1>4, ClockGame DEF Kinds
<1> HIDE DEF h
<1>6. h.stage = "question" /\ h.sub = "reveal" /\ h.chooser = g.chooser /\ h.turns = g.turns
  BY <1>3, <1>4, <1>5 DEF SameButTimers
<1>7. Chosen(h, act)
  BY <1>6 DEF Chosen
<1>8. Spread(h, act)
  BY <1>7, SpreadHolds
<1>9. InTurn(h, act)
  BY <1>6, <1>7, <1>8 DEF InTurn
<1> QED
  BY <1>9 DEF h

\* CHOOSE_QUESTION, and the time to choose is up.
LEMMA ChooseTurns ==
  ASSUME Turning, Unmoved, game.stage = "selecting", game.tie = {}, NEW c \in game.open,
         Becomes(StartQuestion([game EXCEPT !.timers = StopKind(@, "questionSelection")], c))
  PROVE  InTurn(game', active')
<1> DEFINE t == StopKind(game.timers, "questionSelection")
           m == [game EXCEPT !.timers = t]
           h == StartQuestion(m, c)
<1>1. /\ Setting /\ game \in Games /\ Shape(game) /\ InTurn(game, active')
      /\ \A o \in Cells : rules.kind[o] = "simple"
  BY TurningFacts DEF Unmoved
<1>2. /\ t \in [Kinds -> TimerStatus] /\ t["round"] = game.timers["round"]
      /\ \A k \in Kinds : t[k] \in {game.timers[k], "off"}
  BY <1>1, StopBars DEF Kinds
<1>3. game' = Settled(h)
  BY DEF Becomes
<1> HIDE DEF t
<1>4. m \in Games /\ SameButTimers(game, m) /\ m.timers = t /\ Shape(m)
  BY <1>1, <1>2, StopGame
<1> HIDE DEF m
<1>5. Ready(m)
  BY <1>4 DEF Ready, Shape, SameButTimers, InRound
<1>6. c \in m.open /\ rules.kind[c] = "simple"
  BY <1>1, <1>4 DEF SameButTimers, Games
<1>7. Waiting(game, active')
  BY <1>1 DEF InTurn
<1>8. m.chooser = game.chooser /\ m.turns = game.turns
  BY <1>4 DEF SameButTimers
<1>9. Waiting(m, active')
  BY <1>7, <1>8 DEF Waiting
<1>10. InTurn(h, active') /\ h.sub = "play"
  BY <1>1, <1>5, <1>6, <1>9, StartQuestionTurns
<1> HIDE DEF h
<1> QED
  BY <1>3, <1>10 DEF Settled

\* The time to choose is up, with cells to choose from or with none.
LEMMA SelectionTimeoutTurns ==
  ASSUME Turning, TimeoutQuestionSelection
  PROVE  InTurn(game', active')
<1>1. /\ Unmoved /\ game.stage = "selecting" /\ game.timers["questionSelection"] = "run"
  BY DEF TimeoutQuestionSelection, Expires
<1>2. game \in Games /\ InTurn(game, active')
  BY <1>1, TurningFacts DEF Unmoved
<1>3. game.tie = {}
  BY <1>1, <1>2 DEF InTurn
<1>4. CASE game.open = {}
  <2> DEFINE m == NoQuestion(game)
             off == [k \in Kinds |-> "off"]
             h == [m EXCEPT !.stage = "closed", !.timers = off, !.tie = {}]
  <2>1. m \in Games /\ m.turns = game.turns /\ m.sub = "none"
    BY <1>2, NoQuestionGame
  <2>2. game' = Settled(h)
    BY <1>4 DEF TimeoutQuestionSelection, Becomes, Closed
  <2> HIDE DEF m, off
  <2>3. h.stage = "closed" /\ h.turns = game.turns /\ h.sub = "none"
    BY <2>1 DEF Games
  <2> HIDE DEF h
  <2>4. game' = h
    BY <2>2, <2>3 DEF Settled
  <2> QED
    BY <1>2, <2>3, <2>4 DEF InTurn, Spread
<1>5. CASE game.open # {}
  <2>1. PICK c \in game.open : Becomes(StartQuestion(Spent("questionSelection"), c))
    BY <1>5 DEF TimeoutQuestionSelection
  <2> QED
    BY <1>1, <1>3, <2>1, ChooseTurns DEF Spent
<1> QED
  BY <1>4, <1>5

\* A tie of choosers is decided: nobody has chosen yet.
LEMMA ResolvedTurns ==
  ASSUME Turning, Unmoved, NEW p \in game.tie \union game.candidates,
         NEW t \in [Kinds -> TimerStatus], Becomes(Resolved([game EXCEPT !.timers = t], p))
  PROVE  InTurn(game', active')
<1> DEFINE g == [game EXCEPT !.timers = t]
           u == StopKinds(g.timers, {"showmanDecision", "playerSelection"})
           b == [g EXCEPT !.timers = u]
           q == [b EXCEPT !.chooser = p]
           h == AskChoose(q)
<1>1. Setting /\ game \in Games /\ Shape(game) /\ InTurn(game, active') /\ game.sub # "end"
  BY TurningFacts DEF Unmoved
<1>2. game.candidates = {} /\ p \in game.tie /\ game.stage = "selecting"
  BY <1>1 DEF InTurn, Shape
<1>3. game.turns = NoScores /\ p \in active' /\ p \in Players /\ active' \subseteq Players
  BY <1>1, <1>2 DEF InTurn, Setting
<1>4. game' = Settled(IF g.tie # {} THEN h ELSE RecipientChosen(b, p))
  BY DEF Becomes, Resolved
<1>5. g \in Games /\ g.tie = game.tie /\ g.stage = game.stage /\ g.sub = game.sub /\ g.turns = game.turns
  BY <1>1 DEF Games
<1> HIDE DEF g
<1>6. u \in [Kinds -> TimerStatus]
  BY <1>5, StopBars
<1> HIDE DEF u
<1>7. b \in Games /\ b.stage = game.stage /\ b.sub = game.sub /\ b.turns = game.turns
  BY <1>5, <1>6 DEF Games
<1> HIDE DEF b
<1>8. q \in Games /\ q.stage = game.stage /\ q.sub = game.sub /\ q.turns = game.turns /\ q.chooser = p
  BY <1>3, <1>7 DEF Games
<1> HIDE DEF q
<1>9. h.stage = "selecting" /\ h.tie = {} /\ h.chooser = p /\ h.turns = NoScores /\ h.sub = game.sub
  BY <1>1, <1>2, <1>3, <1>8, AskChooseTurns DEF Setting
<1> HIDE DEF h
<1>10. game' = h
  BY <1>1, <1>2, <1>4, <1>5, <1>9 DEF Settled
<1>11. Waiting(h, active')
  <2>1. p \in Nat /\ \A o \in active' : o \in Nat /\ h.turns[o] = 0
    BY <1>3, <1>9, PlayersAssumption DEF NoScores
  <2>2. \A o \in active' : ~Before(p, o, p)
    BY <2>1 DEF Before
  <2>3. 0 \in Nat /\ \A o \in active' : h.turns[o] = IF Before(p, o, h.chooser) THEN 0 + 1 ELSE 0
    BY <1>9, <2>1, <2>2
  <2> QED
    BY <1>3, <1>9, <2>3 DEF Waiting
<1>12. Spread(h, active')
  BY <1>11, SpreadHolds
<1> QED
  BY <1>9, <1>10, <1>11, <1>12 DEF InTurn

\* SELECT_PLAYER, and the time to decide is up.
LEMMA DecisionTurns ==
  ASSUME Turning, TimeoutShowmanDecision \/ TimeoutPlayerSelection \/ \E p \in Players : SelectPlayer(p)
  PROVE  InTurn(game', active')
<1>1. game \in Games
  BY DEF Turning, IInv, TypeOK
<1>2. ASSUME NEW p \in Players, SelectPlayer(p)
      PROVE  InTurn(game', active')
  <2> DEFINE t == game.timers
  <2>1. t \in [Kinds -> TimerStatus] /\ [game EXCEPT !.timers = t] = game
    BY <1>1 DEF Games
  <2>2. Unmoved /\ p \in game.tie \union game.candidates /\ Becomes(Resolved(game, p))
    BY <1>2 DEF SelectPlayer
  <2> HIDE DEF t
  <2> QED
    BY <2>1, <2>2, ResolvedTurns
<1>3. ASSUME TimeoutShowmanDecision \/ TimeoutPlayerSelection
      PROVE  InTurn(game', active')
  <2>1. PICK k \in {"showmanDecision", "playerSelection"}, p \in game.tie \union game.candidates :
            Becomes(Resolved(Spent(k), p))
    <3>1. CASE TimeoutShowmanDecision
      BY <3>1 DEF TimeoutShowmanDecision
    <3>2. CASE TimeoutPlayerSelection
      BY <3>2 DEF TimeoutPlayerSelection
    <3> QED
      BY <1>3, <3>1, <3>2
  <2> DEFINE t == StopKind(game.timers, k)
  <2>2. t \in [Kinds -> TimerStatus]
    BY <1>1, <2>1, StopBars DEF Kinds
  <2>3. Becomes(Resolved([game EXCEPT !.timers = t], p))
    BY <2>1 DEF Spent
  <2>4. Unmoved
    BY <1>3 DEF TimeoutShowmanDecision, TimeoutPlayerSelection
  <2> HIDE DEF t
  <2> QED
    BY <2>1, <2>2, <2>3, <2>4, ResolvedTurns
<1> QED
  BY <1>2, <1>3
\* START.
LEMMA StartTurns ==
  ASSUME Turning, Start
  PROVE  InTurn(game', active')
<1> DEFINE h == StartRound(game, 1)
<1>1. /\ Setting /\ game \in Games /\ InTurn(game, active') /\ ~Sequential
      /\ game' = Settled(h)
  BY TurningFacts DEF Start, Unmoved, Becomes
<1>2. InTurn(h, active')
  BY <1>1, StartRoundTurns DEF InTurn
<1>3. h.sub # "end"
  BY <1>1, StartRoundGame DEF Opened, Over, Sound
<1> HIDE DEF h
<1> QED
  BY <1>1, <1>2, <1>3 DEF Settled

\* A question is over: the next at the table is to choose.
LEMMA QuestionOverTurns ==
  ASSUME Turning, Unmoved, game.stage = "question", Becomes(EndQuestion(game))
  PROVE  InTurn(game', active')
<1> DEFINE h == EndQuestion(game)
<1>1. /\ Setting /\ game \in Games /\ Shape(game) /\ InTurn(game, active') /\ game' = Settled(h)
      /\ rules.mode = "turnTaking"
  BY TurningFacts DEF Unmoved, Becomes
<1>2. Chosen(game, active')
  BY <1>1 DEF InTurn
<1>3. InTurn(h, active')
  BY <1>1, <1>2, EndQuestionTurns
<1>4. h.sub # "end"
  BY <1>1, EndQuestionGame DEF Went, Left, Opened, Over, Selected, Sound
<1> HIDE DEF h
<1> QED
  BY <1>1, <1>3, <1>4 DEF Settled

\* NEXT, MOVE 1, and the answer has been shown long enough.
LEMMA GoOnTurns ==
  ASSUME Turning, GoOn \/ TimeoutReflection
  PROVE  InTurn(game', active')
<1>0. Unmoved
  BY DEF GoOn, TimeoutReflection
<1>1. Setting /\ game \in Games /\ Shape(game) /\ InTurn(game, active') /\ ~Sequential
  BY <1>0, TurningFacts DEF Unmoved
<1>2. CASE TimeoutReflection
  <2>1. game.stage = "question" /\ Becomes(EndQuestion(game))
    BY <1>1, <1>2 DEF TimeoutReflection, Expires, Shape, Becomes
  <2> QED
    BY <1>0, <2>1, QuestionOverTurns
<1>3. CASE GoOn /\ game.stage = "roundIntro"
  <2> DEFINE h == BeginSelection(game, TRUE)
  <2>1. game' = Settled(h)
    BY <1>3 DEF GoOn, Becomes
  <2>2. Ready(game)
    BY <1>1, <1>3 DEF Ready, Shape, InRound
  <2>3. InTurn(h, active')
    BY <1>1, <1>3, <2>2, BeginTurns DEF InTurn
  <2>4. h.sub # "end"
    BY <1>1, <2>2, BeginSelectionGame DEF Went, Left, Opened, Over, Selected, Sound
  <2> HIDE DEF h
  <2> QED
    BY <2>1, <2>3, <2>4 DEF Settled
<1>4. CASE GoOn /\ game.stage = "roundEnd"
  <2> DEFINE h == StartRound(game, game.round + 1)
  <2>1. game' = Settled(h)
    BY <1>4 DEF GoOn, Becomes
  <2>2. game.round + 1 \in Nat \ {0}
    BY <1>1 DEF Games
  <2>3. InTurn(h, active')
    BY <1>1, <2>2, StartRoundTurns DEF InTurn
  <2>4. h.sub # "end"
    BY <1>1, <2>2, StartRoundGame DEF Opened, Over, Sound
  <2> HIDE DEF h
  <2> QED
    BY <2>1, <2>3, <2>4 DEF Settled
<1>5. CASE GoOn /\ game.stage = "question"
  <2>1. Becomes(EndQuestion(game))
    BY <1>5 DEF GoOn
  <2> QED
    BY <1>0, <1>5, <2>1, QuestionOverTurns
<1> QED
  BY <1>2, <1>3, <1>4, <1>5 DEF GoOn

\* The time of the round is up.
LEMMA RoundTimeoutTurns ==
  ASSUME Turning, TimeoutRound
  PROVE  InTurn(game', active')
<1> DEFINE t == StopKind(game.timers, "round")
           g == [game EXCEPT !.timers = t, !.late = TRUE]
<1>1. /\ Setting /\ game \in Games /\ Shape(game) /\ InTurn(game, active') /\ ~Sequential
      /\ game.sub # "end"
  BY TurningFacts DEF TimeoutRound, Unmoved
<1>2. game.stage \in InRound
  BY <1>1 DEF TimeoutRound, Expires, Shape
<1>3. t \in [Kinds -> TimerStatus] /\ t["questionSelection"] = game.timers["questionSelection"]
  BY <1>1 DEF StopKind, Games, TimerStatus, Kinds
<1>4. game' = Settled(IF g.stage = "selecting" /\ g.tie = {} THEN EndRound(g) ELSE g)
  <2>1. [Spent("round") EXCEPT !.late = TRUE] = g
    BY <1>1 DEF Spent, Games
  <2> HIDE DEF g
  <2> QED
    BY <2>1 DEF TimeoutRound, Becomes
<1> HIDE DEF t
<1>5. /\ g \in Games /\ g.timers = t
      /\ g.stage = game.stage /\ g.round = game.round /\ g.open = game.open
      /\ g.tie = game.tie /\ g.sub = game.sub /\ g.chooser = game.chooser /\ g.turns = game.turns
  BY <1>1, <1>3 DEF Games
<1> HIDE DEF g
<1>6. InTurn(g, active')
  BY <1>1, <1>3, <1>5 DEF InTurn, Waiting, Chosen, Spread
<1>7. CASE g.stage = "selecting" /\ g.tie = {}
  <2> DEFINE h == EndRound(g)
  <2>1. game' = Settled(h)
    BY <1>4, <1>7
  <2>2. g.round \in DOMAIN Tables /\ g.open \subseteq Tables[g.round]
    BY <1>1, <1>2, <1>5 DEF Shape, InRound
  <2>3. InTurn(h, active')
    BY <1>1, <1>5, <1>6, EndRoundTurns DEF InTurn
  <2>4. h.sub # "end"
    BY <1>1, <1>5, <2>2, EndRoundGame DEF Left, Opened, Over, Sound
  <2> HIDE DEF h
  <2> QED
    BY <2>1, <2>3, <2>4 DEF Settled
<1>8. CASE ~(g.stage = "selecting" /\ g.tie = {})
  BY <1>1, <1>4, <1>5, <1>6, <1>8 DEF Settled
<1> QED
  BY <1>7, <1>8

\* The answers to a question.
LEMMA PlayedTurns ==
  ASSUME Turning, NobodyAnswered \/ \E p \in Players, right \in BOOLEAN : Played(p, right)
  PROVE  InTurn(game', active')
<1>0. game.sub = "play" /\ Unmoved
  BY DEF NobodyAnswered, Played
<1>1. /\ Setting /\ game \in Games /\ Shape(game) /\ InTurn(game, active')
      /\ rules.mode = "turnTaking"
  BY <1>0, TurningFacts DEF Unmoved
<1>2. game.stage = "question" /\ Chosen(game, active') /\ paused \in BOOLEAN
  BY <1>0, <1>1 DEF Shape, InTurn, Setting
<1>3. CASE NobodyAnswered
  BY <1>1, <1>2, <1>3, ShowAnswerTurns DEF NobodyAnswered
<1>4. ASSUME NEW p \in Players, NEW right \in BOOLEAN, Played(p, right)
      PROVE  InTurn(game', active')
  <2> DEFINE n == IF right THEN game.price ELSE -game.price
             s == [game.scores EXCEPT ![p] = @ + n]
             y == [game.history EXCEPT ![p] = @ + n]
             g == [game EXCEPT !.scores = s, !.history = y]
             b == [g EXCEPT !.chooser = g.chooser]
  <2>1. n \in Int
    BY <1>1 DEF Games
  <2>2. game' = ShowAnswer(b)
    <3>1. Score(game, p, n) = g
      BY <1>1 DEF Score, Games
    <3>2. game' = ShowAnswer([Score(game, p, n) EXCEPT !.chooser =
             IF right /\ rules.mode = "classic" /\ rules.kind[game.cell] = "simple" THEN p ELSE @])
      BY <1>4 DEF Played
    <3> HIDE DEF n, g
    <3> QED
      BY <1>1, <3>1, <3>2
  <2> HIDE DEF n
  <2>3. s \in [Players -> Int] /\ y \in [Players -> Int]
    BY <1>1, <2>1 DEF Games
  <2> HIDE DEF s, y
  <2>4. g \in Games /\ g.stage = game.stage /\ g.chooser = game.chooser /\ g.turns = game.turns
    BY <1>1, <2>3 DEF Games
  <2> HIDE DEF g
  <2>5. b \in Games /\ b.stage = game.stage /\ b.chooser = game.chooser /\ b.turns = game.turns
    BY <2>4 DEF Games
  <2> HIDE DEF b
  <2>6. Chosen(b, active')
    BY <1>2, <2>5 DEF Chosen
  <2> QED
    BY <1>2, <2>2, <2>5, <2>6, ShowAnswerTurns
<1> QED
  BY <1>3, <1>4

\* The end of a pause; in a steady game none has begun.
LEMMA ResumeTurns ==
  ASSUME Turning, Resume
  PROVE  InTurn(game', active')
<1> DEFINE t == ReleaseAll(game.timers)
<1>1. game \in Games /\ InTurn(game, active') /\ game' = [game EXCEPT !.timers = t]
  BY TurningFacts DEF Resume
<1>2. game.timers["questionSelection"] = "off" => t["questionSelection"] = "off"
  BY <1>1 DEF ReleaseAll, Games, Kinds
<1> HIDE DEF t
<1>3. /\ game'.stage = game.stage /\ game'.tie = game.tie /\ game'.sub = game.sub
      /\ game'.chooser = game.chooser /\ game'.turns = game.turns /\ game'.timers = t
  BY <1>1 DEF Games
<1> QED
  BY <1>1, <1>2, <1>3 DEF InTurn, Waiting, Chosen, Spread

\* There are no prices of secrets to choose.
LEMMA NoPrices ==
  ASSUME Turning
  PROVE  ~TimeoutStakeMaking /\ \A n \in {Price, HighPrice} : ~SetPrice(n)
<1>1. Shape(game) /\ InTurn(game, active)
  BY DEF Turning, IInv
<1>2. game.sub # "priceSelect"
  BY <1>1 DEF Shape, InTurn
<1> QED
  BY <1>1, <1>2 DEF TimeoutStakeMaking, SetPrice, Expires, Shape

\* A steady game stays in turn.
LEMMA TurnsStep ==
  ASSUME IInv, TurnInv, Next
  PROVE  TurnInv'
<1>1. rules' = rules /\ staff' \in 0..MaxStaff /\ breaks' \in 0..MaxBreaks
  BY RestStep DEF IInv
<1>2. Cells' = Cells
  BY <1>1 DEF Cells
<1> SUFFICES ASSUME Steady' PROVE active' = rules'.seats /\ InTurn(game', active')
  BY DEF TurnInv, InTurn, Waiting, Chosen, Spread
<1>3. /\ rules.mode = "turnTaking" /\ (\A c \in Cells : rules.kind[c] = "simple")
      /\ breaks' = 0 /\ staff' = 0
  BY <1>1, <1>2 DEF Steady
<1>4. breaks \in Nat /\ staff \in Nat
  BY NumbersAssumption DEF IInv, TypeOK
<1>5. ~Intervention /\ ~Pause /\ \A p \in Players : ~Gone(p)
  BY <1>3, <1>4 DEF Intervention, Pause, Gone
<1>6. ~MoveToAnswer /\ ~MoveBack /\ ~MoveToEnd /\ (\A p \in Players : ~SetChooser(p))
      /\ (\A c \in Cells : ~Toggle(c)) /\ \A r \in DOMAIN rules.tables : ~MoveToRound(r)
  <2>1. ~MoveToAnswer /\ ~MoveBack /\ ~MoveToEnd
    BY <1>5 DEF MoveToAnswer, MoveBack, MoveToEnd
  <2>2. \A p \in Players : ~SetChooser(p)
    BY <1>5 DEF SetChooser
  <2>3. \A c \in Cells : ~Toggle(c)
    BY <1>5 DEF Toggle
  <2>4. \A r \in DOMAIN rules.tables : ~MoveToRound(r)
    BY <1>5 DEF MoveToRound
  <2> QED
    BY <2>1, <2>2, <2>3, <2>4
<1>7. CASE \E p \in Players : PlayerJoined(p)
  <2>1. active # rules.seats /\ staff = 0 /\ breaks = 0
    BY <1>3, <1>7 DEF PlayerJoined
  <2> QED
    BY <1>3, <2>1 DEF TurnInv, Steady
<1>8. CASE ~\E p \in Players : PlayerJoined(p)
  <2>1. \/ Unmoved
        \/ Resume
    <3>1. CASE TimerStep
      BY <3>1 DEF TimerStep, TimeoutRound, TimeoutQuestionSelection, TimeoutShowmanDecision,
                  TimeoutPlayerSelection, TimeoutStakeMaking, NobodyAnswered, TimeoutReflection
    <3> QED
      BY <1>5, <1>6, <1>8, <3>1 DEF Next, Start, GoOn, SelectPlayer, Played, ChooseQuestion, SetPrice
  <2>2. active' = active /\ staff = 0 /\ breaks = 0
    BY <1>3, <2>1 DEF Unmoved, Resume
  <2>3. Turning /\ active = rules.seats
    BY <1>3, <2>2 DEF TurnInv, Steady, Turning
  <2>4. ASSUME TimerStep PROVE InTurn(game', active')
    BY <2>3, <2>4, RoundTimeoutTurns, SelectionTimeoutTurns, DecisionTurns, NoPrices, PlayedTurns, GoOnTurns
       DEF TimerStep
  <2>5. ASSUME Start \/ GoOn \/ Resume PROVE InTurn(game', active')
    BY <2>3, <2>5, StartTurns, GoOnTurns, ResumeTurns
  <2>6. ASSUME \E p \in Players : SelectPlayer(p) PROVE InTurn(game', active')
    BY <2>3, <2>6, DecisionTurns
  <2>7. ASSUME \E p \in Players, right \in BOOLEAN : Played(p, right) PROVE InTurn(game', active')
    BY <2>3, <2>7, PlayedTurns
  <2>8. ASSUME \E c \in Cells : ChooseQuestion(c) PROVE InTurn(game', active')
    BY <2>3, <2>8, ChooseTurns DEF ChooseQuestion
  <2>9. InTurn(game', active')
    BY <1>5, <1>6, <1>8, <2>3, <2>4, <2>5, <2>6, <2>7, <2>8, NoPrices DEF Next
  <2> QED
    BY <1>1, <2>2, <2>3, <2>9
<1> QED
  BY <1>7, <1>8

\* In the turn-taking mode nobody is a turn ahead by more than one (endQuestion,
\* nextChooser), in a round without secrets, departures and interventions.
THEOREM TurnsGoRoundAlways == Spec => []TurnsGoRound
<1>1. Init => TurnInv
  <2> SUFFICES ASSUME Init PROVE TurnInv
    OBVIOUS
  <2>1. game.stage = "lobby" /\ game.turns = NoScores /\ game.timers = [k \in Kinds |-> "off"]
    BY DEF Init
  <2>2. game.timers["questionSelection"] = "off"
    BY <2>1 DEF Kinds
  <2>3. active \subseteq Players /\ active = rules.seats
    BY SetupsAssumption DEF Init
  <2>4. Spread(game, active)
    BY <2>1, <2>3, SpreadHolds
  <2> QED
    BY <2>1, <2>2, <2>3, <2>4 DEF TurnInv, InTurn
<1>2. IInv /\ TurnInv /\ [Next]_vars => TurnInv'
  <2>1. CASE UNCHANGED vars
    BY <2>1 DEF vars, TurnInv, Steady, Cells, InTurn, Waiting, Chosen, Spread
  <2> QED
    BY <2>1, TurnsStep
<1>3. TurnInv => TurnsGoRound
  BY DEF TurnInv, Steady, InTurn, Spread, TurnsGoRound
<1> QED
  BY <1>1, <1>2, <1>3, Invariant, PTL DEF Spec
=============================================================================
