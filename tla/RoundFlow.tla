----------------------------- MODULE RoundFlow ------------------------------
(***************************************************************************)
(* The rounds of a game (internal/engine/engine.go) and the questions with *)
(* a secret (question.go): the start of a round, who chooses, the choice,  *)
(* the transfer and the price of a secret, what follows a question, the    *)
(* round timer, NEXT, MOVE, TOGGLE and SET_CHOOSER, and the players coming *)
(* and going.  The content, the answers and the reveal of a question are   *)
(* two phases here, "play" and "reveal": QuestionFlow has their steps, as  *)
(* Appeals, StakeAuction and FinalRound have those of theirs.              *)
(*                                                                         *)
(* The game is one record, and the functions of the code that call each    *)
(* other are operators from game to game.  A handler assigns active'       *)
(* before it calls one: they read the active players primed.               *)
(***************************************************************************)
EXTENDS Integers, Sequences, FiniteSets, FiniteSetsExt, SequencesExt, EngineTimers

CONSTANTS
    Players,      \* the seats at the table, numbered
    NoPlayer,     \* the empty person id
    Setups,       \* games: [mode, managed, timed, tables, kind, except, seats]
    Price,        \* the nominal price of a question
    HighPrice,    \* the other price a recipient may choose
    MaxStaff,     \* BOUND: interventions of the showman
    MaxBreaks     \* BOUND: departures and pauses

Modes == {"classic", "simple", "turnTaking"}
\* "priced": the recipient chooses the price; "noQuestion": the price is fixed
\* and received; "pricedNoQuestion": chosen and received.
CellKinds == {"simple", "secret", "priced", "noQuestion", "pricedNoQuestion"}
Kinds == {"round", "questionSelection", "showmanDecision", "playerSelection", "stakeMaking",
          "content", "reflection"}

ASSUME PlayersAssumption == Players \subseteq Nat /\ IsFiniteSet(Players) /\ NoPlayer \notin Players
\* In a sequential mode a question that takes no time would start the next one
\* in the same command, and so on; such packs are left out.
ASSUME SetupsAssumption ==
    \A s \in Setups :
        /\ s.mode \in Modes /\ s.managed \in BOOLEAN /\ s.timed \in BOOLEAN /\ s.except \in BOOLEAN
        /\ s.seats \subseteq Players /\ s.tables \in Seq(SUBSET (Nat \ {0}))
        /\ \A r \in DOMAIN s.tables : \A c \in s.tables[r] : s.kind[c] \in CellKinds
        /\ s.mode = "simple" => \A r \in DOMAIN s.tables : \A c \in s.tables[r] : s.kind[c] # "noQuestion"
ASSUME NumbersAssumption == {Price, HighPrice, MaxStaff, MaxBreaks} \subseteq Nat

VARIABLES
    game,    \* the game
    active,  \* who is connected and not kicked
    paused,  \* State.Paused
    rules,   \* the pack, Rules.Mode, Rules.Managed and whether RoundMs > 0
    staff,   \* MOVE, TOGGLE and SET_CHOOSER so far
    breaks   \* departures and pauses so far

vars == <<game, active, paused, rules, staff, breaks>>

Cells == UNION {rules.tables[r] : r \in DOMAIN rules.tables}

Games ==
    [stage : {"lobby", "roundIntro", "selecting", "question", "roundEnd", "gameEnd", "closed"},
     round : Nat,                                \* RoundIndex + 1
     open : SUBSET Cells,                        \* neither Played nor Removed
     late : BOOLEAN,                             \* RoundTimedOut
     chooser : Players \union {NoPlayer}, tie : SUBSET Players,
     cell : Cells \union {0},
     sub : {"none", "secretTransfer", "priceSelect", "play", "reveal", "end"},
     decider : Players \union {NoPlayer}, candidates : SUBSET Players,
     answerer : Players \union {NoPlayer}, price : Int,
     scores : [Players -> Int],
     history : [Players -> Int],                 \* the sum of History, by player
     timers : [Kinds -> TimerStatus],
     before : [Players -> Int],                  \* history: the scores when the question began
     others : SUBSET Players,                    \* history: who else was there when a secret was drawn
     turns : [Players -> Nat]]                   \* history: questions of the round this player chose

Sequential == rules.mode = "simple"
NoScores == [p \in Players |-> 0]
Stop(g, kept) == [g EXCEPT !.timers = StopAllExcept(@, kept)]
Clock(g, kind) == [g EXCEPT !.timers = StartTimer(@, kind, paused)]
Lowest(g) == {p \in active' : \A o \in active' : g.scores[p] <= g.scores[o]}
Score(g, p, n) == [g EXCEPT !.scores[p] = @ + n, !.history[p] = @ + n]

NoQuestion(g) ==
    [g EXCEPT !.cell = 0, !.sub = "none", !.answerer = NoPlayer, !.price = 0, !.decider = NoPlayer,
              !.candidates = {}, !.history = NoScores, !.before = NoScores, !.others = {}]

\* A panic: the actor of the room closes it (runGuarded).
Closed(g) == [NoQuestion(g) EXCEPT !.stage = "closed", !.timers = [k \in Kinds |-> "off"], !.tie = {}]
-----------------------------------------------------------------------------
(* A question.                                                             *)

ShowAnswer(g) ==
    LET h == [Stop(g, {"round"}) EXCEPT !.sub = "reveal", !.decider = NoPlayer, !.candidates = {}]
    IN  IF rules.managed THEN h ELSE Clock(h, "reflection")

\* secretAfterPrice: the one who only receives the price has nothing to answer,
\* and the question is over at once.  Nobody to receive it is a nil pointer.
AfterPrice(g, n) ==
    LET h == [g EXCEPT !.price = n]
    IN  CASE rules.kind[g.cell] \notin {"noQuestion", "pricedNoQuestion"} -> Clock([h EXCEPT !.sub = "play"], "content")
          [] rules.kind[g.cell] \in {"noQuestion", "pricedNoQuestion"} /\ g.answerer = NoPlayer -> Closed(g)
          [] OTHER -> [Stop(Score(h, g.answerer, n), {"round"}) EXCEPT !.sub = "end"]

\* secretRecipientChosen and secretPriceSelect.
RecipientChosen(g, p) ==
    LET h == [g EXCEPT !.answerer = p, !.chooser = p, !.decider = NoPlayer, !.candidates = {}]
    IN  IF rules.kind[g.cell] \in {"priced", "pricedNoQuestion"}
        THEN Clock([h EXCEPT !.sub = "priceSelect"], "stakeMaking")
        ELSE AfterPrice(h, Price)

\* currentChooser.
CurrentChooser(g) ==
    IF g.chooser \in active' THEN g.chooser
    ELSE IF active' = {} THEN NoPlayer ELSE Min(Lowest(g))

\* Mutant of Candidates: whoever draws a secret may always keep it.
CandidatesAll(chooser) == active'

Candidates(chooser) == IF rules.except THEN active' \ {chooser} ELSE active'

\* secretBegin and secretTransfer.
SecretBegin(g) ==
    LET chooser == CurrentChooser(g)
        cands == Candidates(chooser)
        h == [g EXCEPT !.decider = chooser, !.others = active' \ {chooser}]
    IN  CASE cands = {} -> RecipientChosen(h, chooser)
          [] Cardinality(cands) = 1 -> RecipientChosen(h, CHOOSE p \in cands : TRUE)
          [] OTHER -> Clock([h EXCEPT !.sub = "secretTransfer", !.candidates = cands], "playerSelection")

StartQuestion(g, c) ==
    LET h == [NoQuestion(g) EXCEPT !.stage = "question", !.cell = c, !.open = @ \ {c}, !.tie = {},
                                   !.before = g.scores, !.price = Price,
                                   !.turns = [p \in Players |-> IF p = g.chooser THEN @[p] + 1 ELSE @[p]]]
    IN  IF rules.kind[c] = "simple" THEN Clock([h EXCEPT !.sub = "play"], "content") ELSE SecretBegin(h)
-----------------------------------------------------------------------------
(* The rounds.                                                             *)

\* Mutant of AskChoose: nobody chooses for who does not.
AskChooseUntimed(g) == [g EXCEPT !.tie = {}]

AskChoose(g) == Clock([g EXCEPT !.tie = {}], "questionSelection")

\* beginSelection where there is a cell, time and somebody to choose: the lowest
\* score chooses first, the showman decides between several.
Selection(g, roundStart) ==
    LET h == [NoQuestion(g) EXCEPT !.stage = "selecting", !.tie = {}]
    IN  CASE Sequential -> StartQuestion(h, Min(g.open))
          [] ~Sequential /\ ~roundStart /\ g.chooser \in active' -> AskChoose(h)
          [] ~Sequential /\ (roundStart \/ g.chooser \notin active') /\ Cardinality(Lowest(g)) = 1 ->
                 AskChoose([h EXCEPT !.chooser = Min(Lowest(g))])
          [] OTHER -> Clock([h EXCEPT !.tie = Lowest(g)], "showmanDecision")

EndGame(g) ==
    [NoQuestion(g) EXCEPT !.stage = "gameEnd", !.timers = [k \in Kinds |-> "off"], !.tie = {}, !.late = FALSE]

Dealt(g, r) ==
    [NoQuestion(g) EXCEPT
        !.stage = "roundIntro", !.round = r, !.open = rules.tables[r], !.late = FALSE, !.tie = {},
        !.turns = NoScores,
        !.timers = [k \in Kinds |-> IF k = "round" /\ rules.timed THEN Live(paused) ELSE "off"]]

\* startRound: unless the showman has to open it, a round that cannot be played
\* (no cells, or nobody to choose) ends at once, and the next one starts.
StartRound(g, r) ==
    LET rounds == {i \in DOMAIN rules.tables : i >= r}
        playable == {i \in rounds : rules.tables[i] # {} /\ (Sequential \/ active' # {})}
    IN  CASE rounds = {} -> EndGame(g)
          [] rounds # {} /\ rules.managed -> Dealt(g, Min(rounds))
          [] rounds # {} /\ ~rules.managed /\ playable # {} -> Selection(Dealt(g, Min(playable)), TRUE)
          [] OTHER -> EndGame([g EXCEPT !.round = Max(rounds), !.open = rules.tables[Max(rounds)]])

EndRound(g) ==
    IF rules.managed
    THEN [NoQuestion(g) EXCEPT !.stage = "roundEnd", !.timers = [k \in Kinds |-> "off"], !.tie = {}]
    ELSE StartRound(g, g.round + 1)

\* Mutant of BeginSelection: the time of the round is forgotten.
BeginSelectionLate(g, roundStart) ==
    IF g.open = {} \/ (~Sequential /\ (roundStart \/ g.chooser \notin active') /\ active' = {})
    THEN EndRound(g)
    ELSE Selection(g, roundStart)

BeginSelection(g, roundStart) ==
    IF g.late \/ g.open = {} \/ (~Sequential /\ (roundStart \/ g.chooser \notin active') /\ active' = {})
    THEN EndRound(g)
    ELSE Selection(g, roundStart)

\* Mutant of Rotated: the seat after the first, whoever has chosen.
RotatedStuck(chooser) == Min(active')

\* The next active player in seat order.
Rotated(chooser) ==
    LET after == {p \in active' : p > chooser}
    IN  IF chooser \in active' /\ after # {} THEN Min(after) ELSE Min(active')

AfterQuestion(g) ==
    BeginSelection([g EXCEPT !.chooser = IF rules.mode = "turnTaking" /\ active' # {} THEN Rotated(@) ELSE @],
                   FALSE)

\* endQuestion, also for a question that was over before it began.
EndQuestion(g) == AfterQuestion([Stop(g, {"round"}) EXCEPT !.sub = "end"])
Settled(g) == IF g.sub = "end" THEN EndQuestion(g) ELSE g
-----------------------------------------------------------------------------
(* The commands.                                                           *)

Unmoved == UNCHANGED <<active, paused, rules, staff, breaks>>
Becomes(g) == game' = Settled(g)

Start ==
    /\ game.stage = "lobby" /\ active # {}
    /\ Unmoved
    /\ Becomes(StartRound(game, 1))

ChooseQuestion(c) ==
    /\ ~paused /\ game.stage = "selecting" /\ game.tie = {}
    /\ game.chooser \in active /\ c \in game.open
    /\ Unmoved
    /\ Becomes(StartQuestion([game EXCEPT !.timers = StopKind(@, "questionSelection")], c))

\* onSelectPlayer and resolvePending: a tie of choosers, or the recipient of a
\* secret.
Resolved(g, p) ==
    LET h == [g EXCEPT !.timers = StopKinds(@, {"showmanDecision", "playerSelection"})]
    IN  IF g.tie # {} THEN AskChoose([h EXCEPT !.chooser = p]) ELSE RecipientChosen(h, p)

SelectPlayer(p) ==
    /\ ~paused /\ p \in game.tie \union game.candidates
    /\ game.tie # {} \/ game.decider \in active
    /\ Unmoved
    /\ Becomes(Resolved(game, p))

\* SET_STAKE of the recipient.
SetPrice(n) ==
    /\ ~paused /\ game.sub = "priceSelect" /\ game.answerer \in active
    /\ Unmoved
    /\ Becomes(AfterPrice([game EXCEPT !.timers = StopKind(@, "stakeMaking")], n))

\* The content and the answers of the question: who is asked is right or wrong,
\* or nobody answers.  A right answer at the button makes the chooser.
Played(p, right) ==
    /\ ~paused /\ game.sub = "play"
    /\ IF rules.kind[game.cell] = "simple" THEN p \in active ELSE p = game.answerer
    /\ Unmoved
    /\ LET g == Score(game, p, IF right THEN game.price ELSE -game.price)
       IN  game' = ShowAnswer([g EXCEPT !.chooser =
                       IF right /\ rules.mode = "classic" /\ rules.kind[game.cell] = "simple" THEN p ELSE @])

NobodyAnswered ==
    /\ game.sub = "play" /\ game.timers["content"] = "run" /\ ~paused
    /\ Unmoved
    /\ game' = ShowAnswer(game)

Expires(k) == game.timers[k] = "run" /\ ~paused
Spent(k) == [game EXCEPT !.timers = StopKind(@, k)]

TimeoutRound ==
    /\ Expires("round")
    /\ Unmoved
    /\ LET g == [Spent("round") EXCEPT !.late = TRUE]
       IN  Becomes(IF g.stage = "selecting" /\ g.tie = {} THEN EndRound(g) ELSE g)

\* A cell at random; with no cell, randomCell is out of range.
TimeoutQuestionSelection ==
    /\ Expires("questionSelection") /\ game.stage = "selecting"
    /\ Unmoved
    /\ IF game.open = {} THEN Becomes(Closed(game))
       ELSE \E c \in game.open : Becomes(StartQuestion(Spent("questionSelection"), c))

TimeoutShowmanDecision ==
    /\ Expires("showmanDecision")
    /\ Unmoved
    /\ \E p \in game.tie : Becomes(Resolved(Spent("showmanDecision"), p))

TimeoutPlayerSelection ==
    /\ Expires("playerSelection")
    /\ Unmoved
    /\ LET rest == game.candidates \ {game.chooser}
       IN  \E p \in IF rest # {} THEN rest ELSE game.candidates : Becomes(Resolved(Spent("playerSelection"), p))

TimeoutStakeMaking ==
    /\ Expires("stakeMaking")
    /\ Unmoved
    /\ Becomes(AfterPrice(Spent("stakeMaking"), Price))

TimeoutReflection ==
    /\ Expires("reflection")
    /\ Unmoved
    /\ game' = Settled(EndQuestion(game))

\* NEXT and MOVE 1 between questions and rounds.
GoOn ==
    /\ Unmoved
    /\ CASE game.stage = "roundIntro" -> Becomes(BeginSelection(game, TRUE))
         [] game.stage = "roundEnd" -> Becomes(StartRound(game, game.round + 1))
         [] game.stage = "question" /\ game.sub = "reveal" -> Becomes(EndQuestion(game))
         [] OTHER -> FALSE

Pause ==
    /\ ~paused /\ game.stage \notin {"lobby", "gameEnd", "closed"} /\ breaks < MaxBreaks
    /\ paused' = TRUE /\ breaks' = breaks + 1
    /\ game' = [game EXCEPT !.timers = HoldAll(@)]
    /\ UNCHANGED <<active, rules, staff>>

Resume ==
    /\ paused /\ game.stage \notin {"lobby", "gameEnd", "closed"}
    /\ paused' = FALSE
    /\ game' = [game EXCEPT !.timers = ReleaseAll(@)]
    /\ UNCHANGED <<active, rules, staff, breaks>>

Intervention ==
    /\ game.stage \notin {"lobby", "gameEnd", "closed"}
    /\ staff < MaxStaff /\ staff' = staff + 1
    /\ UNCHANGED <<active, paused, rules, breaks>>

\* MOVE 1 in a question: abortQuestionToAnswer.
MoveToAnswer ==
    /\ game.stage = "question" /\ game.sub # "reveal" /\ Intervention
    /\ game' = ShowAnswer(game)

\* Mutant of Returned: what the question scored is kept.
ReturnedScored(g) == [NoQuestion(Stop(g, {"round"})) EXCEPT !.open = @ \union {g.cell}]

\* returnQuestionToTable.
Returned(g) ==
    [NoQuestion(Stop(g, {"round"})) EXCEPT
        !.open = @ \union {g.cell},
        !.scores = [p \in Players |-> @[p] - g.history[p]]]

MoveBack ==
    /\ game.stage = "question" /\ Intervention
    /\ Becomes(BeginSelection(Returned(game), FALSE))

\* MOVE 2, and MOVE -2 and 3.
MoveToEnd == Intervention /\ Becomes(EndRound(game))

MoveToRound(r) == Intervention /\ Becomes(StartRound(game, r))

Toggle(c) ==
    /\ Intervention /\ c \in rules.tables[game.round] /\ c # game.cell
    /\ LET g == [game EXCEPT !.open = IF c \in @ THEN @ \ {c} ELSE @ \union {c}]
       IN  Becomes(IF g.stage = "selecting" /\ g.tie = {} /\ g.open = {} THEN EndRound(g) ELSE g)

SetChooser(p) ==
    /\ p \in active /\ Intervention
    /\ LET g == [game EXCEPT !.chooser = p]
       IN  game' = IF g.stage = "selecting"
                   THEN AskChoose([g EXCEPT !.timers = StopKinds(@, {"showmanDecision", "questionSelection"})])
                   ELSE g

\* PLAYER_LEFT and KICK: the game goes on by its timers.
Gone(p) ==
    /\ p \in active /\ breaks < MaxBreaks
    /\ active' = active \ {p} /\ breaks' = breaks + 1
    /\ UNCHANGED <<game, paused, rules, staff>>

PlayerJoined(p) ==
    /\ p \in rules.seats \ active
    /\ active' = active \union {p}
    /\ UNCHANGED <<game, paused, rules, staff, breaks>>
-----------------------------------------------------------------------------
Init ==
    /\ rules \in Setups
    /\ game = [stage |-> "lobby", round |-> 0, open |-> {}, late |-> FALSE, chooser |-> NoPlayer,
               tie |-> {}, cell |-> 0, sub |-> "none", decider |-> NoPlayer, candidates |-> {},
               answerer |-> NoPlayer, price |-> 0, scores |-> NoScores, history |-> NoScores,
               timers |-> [k \in Kinds |-> "off"], before |-> NoScores, others |-> {}, turns |-> NoScores]
    /\ active = rules.seats /\ paused = FALSE /\ staff = 0 /\ breaks = 0

TimerStep ==
    \/ TimeoutRound \/ TimeoutQuestionSelection \/ TimeoutShowmanDecision \/ TimeoutPlayerSelection
    \/ TimeoutStakeMaking \/ NobodyAnswered \/ TimeoutReflection

Next ==
    \/ TimerStep
    \/ Start \/ GoOn \/ Pause \/ Resume \/ MoveToAnswer \/ MoveBack \/ MoveToEnd
    \/ \E p \in Players : SelectPlayer(p) \/ SetChooser(p) \/ Gone(p) \/ PlayerJoined(p)
    \/ \E p \in Players, right \in BOOLEAN : Played(p, right)
    \/ \E c \in Cells : ChooseQuestion(c) \/ Toggle(c)
    \/ \E n \in {Price, HighPrice} : SetPrice(n)
    \/ \E r \in DOMAIN rules.tables : MoveToRound(r)

Spec == Init /\ [][Next]_vars

\* A running timer gets to its end; a pause disables it without resetting it.
FairSpec == Spec /\ SF_vars(TimerStep)
-----------------------------------------------------------------------------
(* Properties.                                                             *)

TypeOK ==
    /\ game \in Games
    /\ active \subseteq Players /\ paused \in BOOLEAN /\ rules \in Setups
    /\ staff \in 0..MaxStaff /\ breaks \in 0..MaxBreaks

\* What the game looks like to Rounds.
Phase(g) ==
    CASE g.stage = "lobby" -> "before"
      [] g.stage \in {"roundIntro", "selecting", "question"} -> "play"
      [] g.stage = "roundEnd" -> "done"
      [] g.stage = "gameEnd" -> "over"
      [] OTHER -> "broken"

TimeLeft(g) ==
    CASE g.late /\ g.stage = "selecting" -> "lastCall"
      [] g.late /\ g.stage # "selecting" -> "up"
      [] ~g.late /\ g.timers["round"] = "off" -> "none"
      [] ~g.late /\ g.timers["round"] = "run" -> "running"
      [] OTHER -> "held"

Instant == {c \in Cells : rules.kind[c] = "noQuestion"}

Plan == INSTANCE Rounds WITH
    tables <- rules.tables, instant <- Instant, round <- game.round, phase <- Phase(game),
    left <- game.open, time <- TimeLeft(game), present <- active, staff <- staff

\* The rounds keep what Rounds promises: cells are played once, rounds are left
\* for a reason and in order, and the time of a round stops it.
RoundsArePlayed == Plan!Spec

\* A game that nobody has to open round by round ends by its timers alone, if it
\* is not paused for ever: startRound, beginSelection and onTimeout never leave
\* it without a clock, whoever comes and goes.
GameEnds ==
    (~rules.managed /\ []<>(~paused)) =>
        [](game.stage # "lobby" => <>(game.stage \in {"gameEnd", "closed"}))

\* A question returned to the table leaves no trace in the scores, whatever was
\* won, lost or received in it (returnQuestionToTable).
ReturnLeavesNoTrace == [][MoveBack => game'.scores = game.before]_vars

\* docs/research/01-sigame-rules.md, section 5.3: a secret that must be given away
\* goes to somebody else, if somebody else was there when it was drawn, also when
\* the timer chooses and players come and go meanwhile.
SecretIsGiven ==
    [][rules.except /\ game'.cell = game.cell /\ game'.answerer \notin {game.answerer, NoPlayer}
       /\ game'.others # {} => game'.answerer \in game'.others]_vars

\* In the turn-taking mode the players choose in turn: nobody is a turn ahead by
\* more than one, in a round without secrets, departures and interventions.
TurnsGoRound ==
    rules.mode = "turnTaking" /\ breaks = 0 /\ staff = 0 /\ (\A c \in Cells : rules.kind[c] = "simple")
    => \A p, o \in active : game.turns[p] <= game.turns[o] + 1

\* internal/engine/rules.go:80: "the round ends after the current question".
NoQuestionAfterTheTime == [][game.late /\ game'.late => game'.open = game.open \/ staff' # staff]_vars
=============================================================================
