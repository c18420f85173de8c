# A verification project for sigame-server

sigame-server runs SIGame (a "Jeopardy"-like quiz with a buzzer) for rooms of up
to a dozen people. This directory models the parts of the server that decide
something: TLA+ modules translated from `src/`, TLC runs on small instances, and
theorems checked by TLAPS. `PROJECT.json` is the index: components, runs,
mutants, the lines behind every definition, findings, hazards, theorems.

## 1. The system

| component | state | operations | what makes it correct | module |
|---|---|---|---|---|
| **engine: question play** `engine/question.go`, `engine.go` | stage, `QuestionState` (phase `Sub`, content cursor, `Armed`, `CanPress`, answerer, pending answer, history, options), timers, pause, rules, seats | START of a question, BUTTON_RESULT, PASS, ANSWER, VALIDATE, MEDIA_COMPLETED, TIMEOUT of 8 timers, PAUSE, NEXT, MOVE, SET_OPTIONS, KICK, players leaving and coming | the question is always driven on, by one clock at a time; one attempt each; the thinking time is spent once | QuestionFlow |
| **engine: timers** `engine.go:283-409` | a list of timers, each running, held by the pause or frozen by the game | start, stop, freeze, resume, hold all, release all | two owners of one pause do not undo each other | EngineTimers |
| **engine: appeals** `appeal.go` | queue of requests, open appeal, history of outcomes, scores, counters, chooser | APPELLATE, VOTE_APPEAL, the vote's timeout, the resumption | scores follow the history; one right answer; every request is served | Appeals |
| **engine: stake auction** `stake.go` | `StakeState`: bidders, order, leader, stake, what is allowed; a pending tie | SET_STAKE, PASS, SELECT_PLAYER, timeouts, leaving, CHANGE_SCORE | the last one standing wins; all-in stands; it ends | StakeAuction |
| **engine: rounds and table** `engine.go:520-1160` | round, table, chooser, turns, round timer, tie of choosers | startRound, CHOOSE_QUESTION, TOGGLE, MOVE, SET_CHOOSER, endRound, end of the game | a cell is played once unless it is given back; a round is left for a reason; the game ends | Rounds, RoundFlow |
| **engine: secret questions** `question.go:461-586` | recipient, price | SELECT_PLAYER, SET_STAKE as a price, their timeouts | a secret goes to somebody else when the rule says so; it gets an answerer | RoundFlow |
| **engine: final round, hidden answers** `final.go`, `hidden.go` | groups of equal scores, rotation, deleter; stakes, written answers, reveal order | DELETE_THEME, SET_STAKE, ANSWER, VALIDATE, timeouts, the reveal one by one | deletions are shared; everybody is judged once; it ends | FinalRound |
| **judge flow** `room/judge.go`; **AI judges** `ai/` | calls of the judge, their requests, the cache, the hybrid confirmation, early verdicts | verdict, preview, confirmation, timeout, retries | a late verdict is not taken for another answer; an early one of the showman stands | JudgeFlow |
| **room button** `room/buzzer.go`, **buzzer arm** `buzzer/arm.go` | the open arm: presses, deadline, eligible players, lockouts | arm, press, misfire, resolve, cancel, re-open | one decision per arm; the engine and the arm agree; races are fair | Button, RoomButton |
| **room sessions** `room/room.go`, `session.go`, `ws/handler.go` | persons, tokens, connections by generation, bans, host, the engine's seats | join, attach, detach, leave, kick, ban, transfer, settings, start, close | one live connection per person; the engine's table is the room's | RoomSessions |
| **room actor** `room/room.go`; **manager** `room/manager.go` | mailbox, done channel; rooms by code, ids being created | post, call, run; Create, Get, sweep, Shutdown | every call returns; Shutdown ends the rooms | RoomManager |
| **packs** `packs/`, `httpapi/packs.go`, `nested.go`; **media store** `media/`; **import** `siq/` | rows of packs, media and their references; files | create, replace, edit, copy, import, delete; Put, Delete, Sweep | rows, references and files agree, also after a crash | PackStore |
| **buzzer clock model** `buzzer/conn.go`, **projections, transport, HTTP, web client** | statistics; views; I/O | | | (section 6) |

**Interaction.** A room is one goroutine with a mailbox. Client messages,
expired timers, verdicts and detached sockets are messages of it. It calls
`engine.Apply`, a function from state and command to events, and then acts on
the events in order: it starts and stops real timers, opens and cancels arms of
the button, asks the judge, sends to clients. What it submits to the engine
meanwhile is queued and applied after the batch. So every handler of the engine
is atomic, and the concurrency of a room is the order of messages: a timer that
expired before it was stopped, a press in flight while the question moves on, a
verdict that arrives late, a detach of a socket that was replaced. Around the
rooms there is real concurrency: HTTP requests and sockets that call into rooms
which close meanwhile, and requests that change packs and media in several steps
while the garbage collector runs.

**Hard parts.** (1) Timers are paused by two owners. (2) Handlers call one
another deeply (`onValidate` -> `applyVerdict` -> `rearm` -> `contentGroupDone`
-> `showGroup` -> `contentFinished` -> `armButton`; `endRound` -> `startRound`
-> `endRound`), so what a command leaves behind is not seen in one place.
(3) State that belongs to a former step is kept (`Pending.Candidates`,
`AllowedModes`, `OutcomeIdx`, `hybridKey`). (4) Appeals rewrite the past.
(5) The showman may interfere at any moment. (6) A person, a session, a
connection and a seat of the engine live and die apart. (7) A file and its row
are two writes. PROJECT.json lists each at its line under `hazards`.

## 2. The plan

| | module | state |
|---|---|---|
| 1 | `EngineTimers`, `QuestionFlow`, `QuestionFlowProofs` | done |
| 2 | `Appeals`, `AppealsProofs`, `StakeAuction`, `StakeAuctionProofs` | done |
| 3 | `Button`, the abstract button of a question, `RoomButton`, which implements it, and `RoomButtonProofs` | done |
| 4 | `Rounds`, the abstract specification of the rounds, `RoundFlow`, which implements it, and `RoundFlowProofs` | done |
| 5 | `FinalRound` | done |
| 6 | `JudgeFlow`, `JudgeFlowProofs` | done |
| 7 | `RoomSessions`, `RoomManager` | done |
| 8 | `PackStore`, `PackStoreProofs` | done |
| 9 | `RoomSessionsProofs` | done |
| 10 | the replay of missed messages | to come |

Modules are written so that they can be proved about: parameters are constants
with named assumptions, an action per command, invariants are conjunctions of
named parts, no RECURSIVE operator. `StakeAuction` has a recursive function.

## 3. The modules

### EngineTimers
`State.Timers` as a function from kinds to `off`, `run`, `held` (the showman's
pause) and `frozen` (the game logic: `Timer.Frozen`). The operators are
`startTimer`, `stopKind`, `stopAllExcept`, `pauseTimer`, `resumeTimer`,
`pauseAllTimers`, `resumeAllTimers`. That a list holds one timer of a kind at
most is what `startTimer` does first.

### QuestionFlow
One question from the choice of the cell to the next selection, again and again.
Every command of the engine that acts in a question is an action under the name
of its handler; every helper is an operator on the record of fields the handler
has changed so far, so that a handler is translated call by call. Kinds of
questions: by the button, by one known player (noRisk, stake and secret once
they have an answerer), scored by hand (custom). Content groups: timed, media
(everybody reports the end, or a fallback timer), manual (NEXT).

Abstractions: a written answer is a model value, and "the same answer" is
equality; a remaining time is kept for the thinking timer only, in ticks;
`ReflectionMs` is zero or not; scores and the chooser are not kept (Appeals has
them) nor is the round timer; `UseAppellations` is off, so `EndQuestion` goes on
to the selection; the model stops where another round starts (`nextRound`);
`mediaDone` is cleared where the code no longer reads it; the "all media done" of
the room itself (no player's message) is the expiry of the fallback timer, which
does the same; the room answers VALIDATION_TIMEOUT with a VALIDATE before any
other message, so they are one step.

MOVE 2 is `MoveEndRound`: it stops every timer, and in a managed game leaves the
question behind it as it was, button, answerer and pending answer included, at
the stage `roundEnd`, until NEXT or another MOVE (`LeaveRound`). So `ArmedSound`
and `PendingSound` speak of that stage too: what is left there is what a question
may be in, and nobody is asked by it.

### Appeals
One round in classic mode with appeals on. The play of a question is reduced to
its outcomes (`Judge`, one per player, in the order the answer phases allow);
the reveal, the end of the question, the selection with its tie and timers are
whole. `ProcessAppeals` is the recursion processAppeals - appealStart -
appealFinish written out: a vote that is decided as it opens is always rejected
(the appellant alone, or the showman with the answerer, are a majority), so the
recursion is a scan of the queue for the first request that is voted on. The
panic of an index outside the history is the stage `closed`. `mixed` is a
history variable: a question was started under an open appeal, which no property
survives (4 among the disagreements of section 4).

Abstractions: factor 1; one pair of prices; CHANGE_SCORE left out; the first
chooser is known; the model stops at the end of the round.

### StakeAuction
The auction as one record; `stakeAskBid`, `stakeApply`, `stakeSetPass`,
`stakeAdvance` and `stakeWinner`, which call each other, are operators from
auction to auction (`AskBid`, `Bid`, `SetPass`, `Advance`, `Won`), and the
commands are actions. `AskBid` is a recursive function, as the calls are: a
bidder who cannot pay passes, and the next is asked. The module ends where the
content of the question begins (`content`) or nobody bids (`reveal`). The cell's
price may be 0, as `packs/validate.go:88` permits: a nominal bid of 0 is then a
bid after which the next bidder is asked for the opening again, as the code takes
stake 0 for "no bid yet". The table is finite (`PlayersAssumption`).

### Button and RoomButton
The room's side is one record, `room`: the arm (its question, the eligible, the
presses, its phase), whether its deadline has passed, whether its timer runs,
and the `onArmResolve` callbacks posted. The engine's side is the part of the
question the button depends on: phase, `Armed`, `CanPress`, the answerer,
whether the content is done. The two are changed in one action, as the events of
a command are dispatched in the turn of the actor that applied it. `StartArm`,
`CloseArm`, `SetIneligible` and `ScheduleResolve` are `startArm`, `cancelArm`,
`Arm.SetEligible` and `scheduleResolve`; `Press`, `PressRefused`, `FalseStart`
and `Misfire` are the outcomes of `onPress` and `onMisfire`; `Detach` and
`Attach` those of the sockets, where `Detach` may also end the content (the
player was the one whose media was waited for); `Elapse`, `Fire`, `Resolve` and
`ResolveFormer` are time, the `time.AfterFunc` of the arm, and the callback for
the open arm or a replaced one. `Winner` and `Nobody` are `finishArm` with
`onButtonResult` of the engine after it.

What the module leaves out: the instants, of which `due` is all that matters to
who may do what (a deadline may pass at any moment, and moves as presses come);
scores and tie-breaks, so any player who pressed may win; a callback of one arm
posted twice counts once, the second finds nothing due or another generation; a
kick, which is a departure here; the reveal takes a step even when
`ReflectionMs` is 0; the payload of messages. A lockout is of the connection
(`locked`: the arm and the room know it; a new connection has none) or of the
room (`barred`).

`ArmStays` is worth reading twice: it says exactly when the button of a question
can go dead, armed in the engine and without an arm in the room. `onButtonResult`
drops a decision in a pause (or of a winner who has left), and `finishArm` has
closed the arm by then. The showman's re-opening or the thinking time end it.
MOVE 2 (`MoveEndRound`) is no exception to this but another case: its ROUND_END
closes any arm (`room.go:750`), a managed game keeps `q.Armed` until NEXT
(`LeaveRound`), and the question is over.

`Button` says what the two sides together promise the players, without an arm, a
socket, a timer or a mailbox: a question opens a race in which nobody is yet;
players at the table who may still press join it, once; one of them may win, and
then has pressed for the last time in this question, as has who passes; the race
begins anew for those who are left, when somebody passes, when a wrong answer is
given, when nobody pressed in time or when the host says so; it is lost without
a winner (`GoDark`) only by a decision that comes in a pause or after a presser
has left; and the answer shown ends it. `RoomButton` implements it
(`RacesAreFair`). The mapping (`Abstract == INSTANCE Button WITH ...`) takes
`CanPress` for `may` and who is connected for `present`; the race is what the arm
has collected, but only while the engine has its button armed, so an arm that a
MOVE to another round has left behind (-2 or 3, which send no ROUND_END) shows
nothing, whatever is still pressed on it; the button
is lit when armed with an arm and dark when armed without one. Lockouts,
deadlines and callbacks are invisible. `Button` lets the answer be shown with
presses in the race, because the code does: the thinking time may run out on
them (the hazard at `engine.go:952`).

### Rounds and RoundFlow
`Rounds` says what the rounds of a game promise without saying how: from the
table of a round one cell at a time; a round is left when its table is empty,
when its time is up, when nobody is at the table, or by the showman; once the
time is up only a selection under way still leads to a question; the rounds
follow the order of the pack, empty ones skipped; what is over stays over.
`RoundFlow` has the commands. `endRound` and `startRound` call each other until
a round with cells is found; the module takes the first such round at once. A
question is choice, transfer of a secret, its price, then two phases `play` and
`reveal` that stand for the steps of the other modules. The refinement (`Plan ==
INSTANCE Rounds WITH ...`) maps the open cells of the current table to `left`,
the round timer with `RoundTimedOut` and the selection in progress to `time` and
the stages to `phase` (the operators `TimeLeft` and `Phase`); `Instant` are the
questions that are over as they begin; `breaks` and everything about secrets,
prices and the chooser is invisible. Panics of the code are the stage `closed`: drawing from an
empty table after TOGGLE during a tie of choosers (`engine.go:852`) and a secret
without question for an empty table (`question.go:577`); `Rounds` calls that
`Break`.

Left out: what a managed game keeps of a question after MOVE 2 (QuestionFlow has
it; here `EndRound` clears the question at once); scores are what questions without
an answer change (the secret that is received); the stake and hidden questions (their modules); the first chooser is
any of the players with the lowest score, as the code draws one.

### FinalRound
The round of `final.go` from its start to its end, and the questions that
everybody answers in writing (`hidden.go`), also the `forAll` question of a
plain round. Groups of equal scores, the rotation offset, the order of deletion
with departures, ties resolved by the showman or by lot (`tie`), TOGGLE and MOVE
among them, stakes made in any order and replaced by 1 at the timeout, the
reveal with early verdicts. `EveryAnswerIsJudged` says of a reveal that has ended
by itself that who wrote an answer was judged once, and who wrote none and was at
the table when the turn came was judged wrong. `slots` holds a group once for each of its members.

### JudgeFlow
The room's side of judging and the judge's. A call of the judge is a goroutine:
`asked`, its request `sent` up to four times (two attempts, each with and
without the schema), its verdict `posted` to the mailbox, `done`. The room may
by then have another question, another showman mode, an early verdict, or a
confirmation of the answer before. `hybrid` is `hybridTimer` with `hybridKey`,
`pre` the verdicts given early, `cache` the engine's `ValidationCache` and the
LRU of `composite.go` apart from it. Identical texts are one model value; what
the service says is any verdict. Left out: the factor of a verdict, `uncertain`
(judged as wrong), what is sent to the clients.

### RoomSessions
The persons of a room, the sockets with a read loop each, and the seats of the
engine. A socket that is closed by the actor still has a loop that ends later
with a `detach` of its own generation; what it has delivered comes before.
`Join` is a new person or a session for a person of this name who is not
connected (`Reclaim`); the host token gives host rights when nobody has them.
Left out: the password, `allowViewers` (on), the person that stands for the AI,
resumption with replay of missed messages, trust, and settings other than the
join mode and the showman.

### RoomManager
Rooms as goroutines: `Create` reserves an id under the lock, writes the row,
starts the loop; calls look a room up, post to its bounded mailbox and wait for
the answer or for `done`; a call may be cancelled (`use` is `join` with its
context, `leave` the ones that wait without one); the loop runs what is posted
and may close or panic; the sweeper closes idle rooms; `Shutdown` posts to the
rooms it finds and waits. What is used last is not kept, so the sweeper may find
any running room idle. `closeRoom` is one step, unless it panics itself
(`CloseFails`): `closing` is set by then, so the recovery's `closeRoom` returns
early (`room.go:865`), `done` stays open, and the room runs on and can never be
closed. A second panic in the recovery, which would end the process, the columns
of the row, and the failure of its later updates are left out.

### PackStore
Three tables and a directory. SQLite is opened with one connection, so a
transaction and a single statement are one step each, and a request is its
statements in order, interleaved with others and cut off by a crash. `Put` is
the move of the file and the insertion of the row (with its look for an old
row), `Delete` the row and then the file, `Sweep` the list of the collectable
and a delete for each; an import stores its media and then the pack; an edit
reads the pack, changes it and writes it if the version then is the one it
insists on: the one it read or, if the client gave one, that of If-Match, which
may be any number (`IfMatches`, with MaxVersion as a bound) and is not compared
with the one read. `EditsCompose` is about edits that do not insist on a version
later than the one they read; the others are disagreement 12. A document is a function from questions to media; edits on rounds and themes are
represented by those on questions, as they go through the same read, check and
write. Refusals (`Validate`, limits) leave nothing and are not steps. `raced` is
a history variable: a content stored while it was deleted.

## 4. The runs

Each takes between a second and two and a half minutes with two workers.

| run | shows | bounds |
|---|---|---|
| `QuestionFlow` | `Driven OneClock ArmedSound OneAttemptEach ThinkingNeverRefills` | 2 players, 6 shapes of question, all 8 rule settings, ThinkTime 2, one cell (MOVE -1 gives it back), one outcome by hand. A second presser, a second content group and a second tick are what re-arming, resuming and refilling need. |
| `QuestionFlowEnds` | `QuestionEnds` under fairness | 2 players, 3 shapes of question, rules fixed |
| `Appeals` | `RightIsLast ContestedStands QueueIsServed ScoresFollowHistory` | 3 players, one question of any kind, up to 3 outcomes (wrong, wrong, right and every other order), 1 player away. `MinAgainst` is 2 where the code has 3, so that three players can contest. |
| `StakeAuction` | `WonByTheLast AllInStands AuctionEnds` | 3 players, scores 1, 3 or 6, price and step 2 (below the price, between, above; odd, so that roundUp and "all the rest" differ), one score correction. `StakeAuctionFree.cfg`, kept beside it, checks the first two at price 0. |
| `RoomButton` | `RacesAreFair` (the refinement), `ArmFollowsEngine ArmStays RaceEnds` | 2 players, 2 questions. A second player is needed for a press that waits for another and for a pass or a verdict with somebody left; a second question for an arm that outlives its own (MOVE to another round) and for its decision. Every MOVE 2 is taken in a managed game and in one that is not. |
| `RoundFlow` | `RoundsArePlayed` (the refinement), `GameEnds ReturnLeavesNoTrace SecretIsGiven TurnsGoRound` | three games: 3 players with secrets over two rounds and an empty one between them, 2 players taking turns against the round timer, a managed game without choices; 1 intervention of the showman, 2 departures or pauses |
| `FinalRound` | `TopGroupDeletesLast DeletionsAreShared EveryAnswerIsJudged RoundEnds` | 2 players tied with 3 themes, with a leader and 4 themes, or only one above zero and one theme of 2 questions; 2 events. The second makes three deletions among two, so the rotation is by one (without it `TopGroupDeletesLast` fails: its mutant). `FinalRoundThree.cfg`, kept beside it, passes with 3 players, 3 themes and a rotation by one of three. |
| `JudgeFlow` | `ConfirmationIsCurrent RequestsAreBounded EarlyVerdictStands EveryAnswerIsJudged` | 2 players, 2 texts of which one is known, each showman mode with a plain and a hidden question, a service that fails; up to 2 interventions |
| `PackStore` | `ReferencesHold BytesUnlessRaced EditsCompose GarbageIsCollected` | 2 clients and the collector, 2 packs, 2 contents, 2 questions, 4 requests, 1 crash. Two requests on one content or one pack at a time are what the races need. |
| `RoomSessions` | `SeatsFollowSockets SocketsAreOwned OneOfEach SeatsAreKept` | 2 names (interchangeable), 3 persons, 3 sockets, 2 players. A third person is somebody who takes a freed name; a third socket replaces the one that replaced another. |
| `RoomManager` | `EveryCallReturns ShutdownEndsRooms` | 1 caller, 1 creator, 2 rooms ever, a mailbox of one place (it stands for 1024: full and not full are what matters) |
| `PackStoreBytes` | *violation*, see below | 2 clients, 1 content, no crash |

Deadlock is checked in QuestionFlow, QuestionFlowEnds and RoomButton; the other
modules stop where the auction, the round, the game, the requests or the sockets
end.

The type invariants (`TypeOK`) hold under the same configurations; so do the
inductive invariants of the eight modules that have proofs, which TLC was asked
about before each proof.

**Fairness.** `SF_vars(TimerStep)` in QuestionFlow, StakeAuction, FinalRound
and RoundFlow: a timer that runs posts its TIMEOUT. It is strong because a pause
disables a timer without resetting it (it is rescheduled with what remains); the
liveness properties assume that the game is not paused for ever. RoomButton has
weak fairness of `Elapse`, `Fire` and `Resolve`: time passes, `time.AfterFunc`
posts the callback, and the actor serves its mailbox; the arm does not stop in a
pause, so neither does its fairness. JudgeFlow is weakly fair to the engine's
timeouts, and to nothing else: not to the service. RoomManager is weakly fair to
every goroutine that can run and strongly to a sender at a full mailbox (the
senders of a Go channel are served in order). PackStore is weakly fair to the
collector, a ticker whose steps wait for no request. No fairness is assumed of
players, showman, clients or what a judge says.

**Exemptions in the properties.** `EveryCallReturns` and `ShutdownEndsRooms`
leave out rooms whose row could not be written: such a room has no loop and never
closes `done`, so its callers wait for ever (below, 11); and rooms whose
`closeRoom` panicked. `AuctionEnds` leaves out the tie of disagreement 5 and
cells of price 0 (13); `AllInStands` corrected scores and an all-in at stake 0.
`TopGroupDeletesLast` is about finals without departures, TOGGLE and changed
scores, `TurnsGoRound` about rounds without departures and interventions;
`EditsCompose` leaves out an If-Match ahead of what was read (12).

### Disagreements between the code and what is said of it

The run `PackStoreBytes` is listed under findings. The others have a
configuration each, kept here beside the listed runs: `tlc -config X.cfg
MCY.tla` gives the counterexample.

1. *A row without bytes* (`PackStoreBytes`, MCPackStore): `store.go:295-297` says that a deletion leaves at most an orphan file, never a row without bytes. Without any crash, a Delete between an upload's move and its row removes the file of the new row.
2. *Excluded options* (`QuestionFlowOptions`, MCQuestionFlow): "-" of a timed-out answer counts as an option.
3. *Appeal queue* (`AppealsStall`, MCAppeals): a request dropped because of the appeal before it leaves every timer frozen and the game at rest.
4. *Choosing during an appeal* (`AppealsNext`, MCAppeals): the vote lands in another history, or in none: a panic. *Chooser not asked* (`AppealsChooser`): the change of chooser is forgotten when a second appeal is open.
5. *Tie of bidders* (`StakeAuctionStall`, MCStakeAuction): a candidate who passed meanwhile is chosen, and nobody is asked.
6. *Lowering the stake* (`StakeAuctionLower`, MCStakeAuction): the last bidder may bid again, lower, while a tie is open.
7. *Race cut short* (`RoomButtonRace`, MCRoomButton): the engine's thinking timer and the arm's window are independent (5 s each by default); presses acknowledged as "in the race" are dropped when the former ends first.
8. *A verdict announced and not applied* (`JudgeFlowPaused`, MCJudgeFlow): in a pause the engine refuses the AI's verdict, and the room announces it as applied (`judge.go:178`, `214`).
9. *A question after the time* (`RoundFlowTime`, MCRoundFlow): `rules.go:80` says the round ends after the current question; a selection that was open when the time ran out still leads to one.
10. *Who plays the final question* (`FinalRoundAdmitted`, MCFinalRound): `hidden.go:24` says the players admitted at the round start; who is admitted is computed again at the question, so a score changed meanwhile lets another in.
11. *A room that answers nobody* (`RoomManagerUnstored`, MCRoomManager): `Create` puts a room among the rooms before its row is written; if that fails the room is taken out, but its `done` is never closed. A call that found it waits for ever, and so does `Shutdown` if its mailbox is full.
12. *An edit overwritten* (`PackStoreEdits`, MCPackStore): `nested.go:18-20` says that concurrent edits never overwrite each other, for the version read is insisted on when If-Match is absent; with If-Match nothing compares the two. An edit with If-Match v+1 reads version v, another edit commits v+1, and the first then passes the check of `repo.go:185` and replaces it by a document computed from v.
13. *An auction for nothing* (`StakeAuctionFreeStall`, MCStakeAuction): at price 0 the nominal bids of two bidders whose time is out are 0 each, nobody is ever passed, and the auction does not end by its timers.

Seen while modelling, without a run of their own:

14. Two equal hidden answers judged at the same time may get different verdicts (`composite.go:20` speaks of one); a late verdict on an earlier question is applied if the same person gave the same text (`judge.go:34`).
15. `docs/ai-showman.md` sends an uncertain verdict to the human showman; the hybrid mode applies it after `hybridConfirmMs`. An early verdict of the showman can be replaced after the showman has left a hybrid room.
16. `room.go:411` says that a seated player of a running game keeps the seat and everyone else is removed; a player stays, seated or not, and also after the end of the game.
17. `Create` may pass its check before `Shutdown` collects the rooms (`main.go:105` stops the rooms before the HTTP server); a cancelled `join` may still seat the person; the sweeper closes a room that was used after its look.
18. `Put` returns an old row as it is; if it was unreferenced, `Sweep` may delete it at once, though `store.go:332` says the grace period lets an upload be attached.
19. MOVE 2 between rounds of a managed game emits ROUND_END twice. `rules.go:38` keeps players at or below zero out of the final; they play it if nobody is above.
20. A room loads its pack once; the pack and its media may be deleted and swept during the game. A crash loses the rooms, and their rows stay "playing".

## 5. The proofs

`QuestionFlowProofs` proves about `QuestionFlow`, for every set of players,
questions, texts, options, rule settings, and all times and bounds: `Inductive`,
`TypeCorrect`, `DrivenAlways`, `OneClockAlways`, `FrozenAlways`, `ArmedAlways`,
`PendingAlways`, `ThinkingNeverRefillsAlways`, `PauseIsStillAlways`. The
assumptions are the named ones of the module: NoPlayer is no player, questions
and rules are well formed, numbers are naturals, the written texts are neither
empty nor "-".

None of the properties is inductive: that the thinking timer is resumed after a
wrong answer depends on what was frozen when the button was pressed. `Shape`
says, for every phase, which timers may exist and how they stand: only the
content's in `content`; the thinking timer alone in `buttonWait`, with no more
left than ThinkingRemain; in `answering` and `validating` what the press holds
back (`HeldBack`) beside the answer's own timer; only the reflection in
`reveal`; none outside a question (`Closed`, which also says what MOVE 2 may
leave of the button and the pending answer in a managed game: what the question
could have shown in that phase). `IInv == TypeOK /\ Shape` is inductive and
each property follows from it; TLC finds it kept in the configuration of run
`QuestionFlow` as well. The proof has a lemma for each helper (what
`ShowAnswer`, `AskAnswer`, `Rearm`, `ShowGroup`... establish from a record of
the right form), one for each action, and one case split over `Next`.

`RoomButtonProofs` proves every safety property of `RoomButton`, for every set
of players and number of questions (assumptions: NoPlayer is no player, the
bound is a natural number): `Inductive`, `TypeCorrect`,
`ArmFollowsEngineAlways`, `PressesStillAllowedAlways`, `ArmIsWatchedAlways`,
`AnswererPressedAlways`, `ArmStaysAlways`, and that it implements `Button`:
`RacesAreAlwaysFair`, that is `Spec => Abstract!Spec`. The invariant is `IInv == Plain /\
Sound(room, question, sub, armed, canPress)`. `Sound` adds to the properties
what each handler relies on: there is no arm where a managed game's round has
ended, whatever is left armed; the arm is never of a later question (so the arm a
MOVE leaves behind cannot be taken for the next question's), and while the
button is armed not only the presses but the eligible players of the arm are
among `CanPress` (so that the next press is allowed too). It is stated about a
room and a game as arguments, so that the lemmas about `StartArm`, `CloseArm`
and the others say it of the room they return. The two action properties follow
from the invariant and from `AnswerBegins` and `ArmLost`: only a decision of the
arm begins an answer, or takes the arm from a button that stays armed. The
refinement needs one fact more, `Seated`: whoever the arm still takes a press
from is connected. `Looks` says what the mapping shows in each phase and follows
from the invariant, so a step's lemma compares two looks and names the step of
Button, or none. There is one for every command, one for what a departure does
to the button (`Leaving`) and `ResolveSeen`, with a case for each way a decision
of the arm can end.

`RoomSessionsProofs` proves every property of `RoomSessions`, for every set of
names, every set of showman and join modes and all limits: `Inductive`,
`TypeCorrect`, `SeatsFollowSocketsAlways`, `SocketsAreOwnedAlways`,
`OneOfEachAlways`, `SeatsAreKeptAlways`. The assumptions are that limits are
naturals, `room.maxPlayers` is at most `engine.MaxPlayers` (the settings are
clamped to it), the modes are the known ones, and nobody is called "". The
invariant has four parts. `Naming`: who is here has a name of his own that is
not banned, and the banned names are those of the banned persons, one each;
without the last, a lifted ban would let a name in that another ban keeps out.
`Ranks`: one host, one showman. `Links`: a socket that is read is somebody's
connection, a connection is a socket of its person that is read or whose detach
is still to come; this is why a late detach of a replaced socket finds another
generation. `Table`: whom the engine has kicked is gone for good, the seats of a
running game are those of players here, and the players are at most
`MaxPlayers`; so the engine always has a seat for a player who attaches, and
does not silently leave the player out, which is the step `SeatsFollowSockets`
would not survive. Each call has a lemma that it keeps the four parts; Leave and
Kick share `PartingLinks`, Join is split into a seat taken back and a new
person.

`OneAttemptEach` of QuestionFlow is `OneAttemptAlways`. Its invariant,
`Attempts`, is about the history: whoever is in it is not among `canPress`, and
who answers a question by the button is in neither. A verdict therefore adds a
person who is not in the history yet, and the lemmas on the helpers (`...Shuts`)
say that none of them lets anybody new press: only a new question fills
`canPress`, and it empties the history.

`PackStoreProofs` proves every safety property of `PackStore`, for all clients,
packs, contents, questions and documents: `Invariant`, `TypeCorrect`,
`ReferencesAlwaysHold`, `RowsKeepBytes`, `EditsDoCompose`. `ReferencesHold` is
not inductive as long as `pack_media` is free: `Counted` ties its pairs to the
documents of the stored packs and the counters to the pairs, so that the
counters an edit moves (up for what it brings in, down for what it takes out)
come out right. `Covered` is the reason why a row has its file: unless a Put ran
beside a Delete of the same content (`raced`), whoever is between the move and
the row has the file, and no row is there while a Delete is between the row and
the file. `Edit` says what an edit under way knows: while the version it read is
still the one of the pack, its document is the pack's document edited, and the
pack has not fallen behind what was read. `EditsCompose` follows: an edit writes
only over the version it insists on, and if that is not ahead of the one it read,
it is that one. Nothing is said of If-Match but its type.

`JudgeFlowProofs` proves every safety property of `JudgeFlow`, for all players,
texts, questions, setups and sizes of the cache: `Invariant`, `TypeCorrect`,
`TheConfirmationIsCurrent`, `RequestsStayBounded`, `EarlyVerdictsStand`.
`TimerOK` is the strengthening for the confirmation: the timer runs while *its*
answer waits, or the question is already revealed (after a MOVE). `Requested`
counts requests by how far a call got, which is what keeps two attempts with two
shapes at four. The queue of calls is a sequence that only such calls enter, and
is empty with a human showman, as nobody asks a judge there.

`RoundFlowProofs` proves, for every pack, mode, number of players and bound,
that `RoundFlow` implements `Rounds` (`TheRoundsArePlayed`, that is `Spec =>
Plan!Spec`), and with it `Invariant`, `TypeCorrect`, `ReturnsLeaveNoTrace`,
`SecretsAreGiven` and `TurnsGoRoundAlways`. The assumptions are those of the
module; `SetupsAssumption` says that the tables of a pack are a sequence of sets
of cells, and that a sequential game has no question that takes no time.

- The invariant `IInv == TypeOK /\ Shape(game) /\ game.sub # "end"` says where a
  round is dealt, what each phase and timer belongs to, that what a question
  scored is in its history (`Balanced`: the price of ReturnLeavesNoTrace), and
  that a secret to be given away is offered to others only (`GivenAway`: the
  candidates, drawn once, stay among those who were there, although players come
  and go).
- The functions of the module go from game to game, and so do the lemmas: each
  says what the function makes of a game in the terms Rounds can see (`Led` for a
  secret on its way, `Asked` for a question that begins, `Selected` for a choice,
  `Opened` and `Over` for a round, `Left` and `Went` for what follows).
- Seven lemmas say which look of a step is which action of Rounds or none
  (`StillStep`, `PlayStep`, `LeftStep`, `DealStep`, `WentStep`, `ReviseStep`,
  `BreakStep`); every action of RoundFlow then has one lemma that brings both
  together. The question that is over as it is chosen and ends the round in
  the same step is the case for which `Finished` of Rounds has `instant`.
- That players choose in turn is not inductive: a player could be asked who is
  already ahead. `InTurn` adds that those who are ahead sit next to each other,
  from somebody up to the chooser (`Waiting`, `Chosen`). The core is the lemma
  `NextTurn` about seats: the one `Rotated` finds either continues that stretch
  or closes the circle, and then all are even.

`AppealsProofs` proves every safety property of `Appeals`, for all players,
prices and bounds: `Invariant`, `TypeCorrect`, `RightIsLastAlways`,
`ContestedAlwaysStands`, `QueueIsAlwaysServed`, `ScoresFollowHistoryAlways`. The
assumptions are that the table is finite, that prices and bounds are numbers, and
that neither the showman nor nobody sits at the table. The invariant ties four
things together. Every queued request is `About` an outcome of the history, and
outcomes keep their person and verdict when they are reverted (`AboutKept`), so a
request is as true when it is served as when it was made. A vote is held at the
end of a question and is about an outcome that counts (`VoteInv`); its timer is
off without it. A right answer ends the play (`LastInv`), so until the first vote
nothing follows it; `FlippedLast` is the argument for the votes: one for the
appellant reverts everything after the contested outcome and whatever counted as
right before it was reverted already, as the contested outcome still counts; one
against appends a wrong answer. `QueueServed` says it of `ProcessAppeals`, however
long the queue is, and `VoteEnds` of the end of a vote.

That scores follow the history is about sums over the outcomes that count.

- The sum of the model is the one of the community modules, a function defined by
  recursion over sets. `SumEquation` (a sum is the chosen element and the sum over
  the rest) is proved as for `AskBid` below: among the finite sets for which it
  fails there would be a smallest one. `SumRemove`, `SumSame` and `SumUnion` are
  what the proofs then use: any element may be taken out first, a sum depends on
  the points in it only, and disjoint sets add up.
- A verdict adds an outcome (`JudgeFollows`), MOVE -1 takes all points back
  (`MoveBackFollows`), and a granted appeal reverts some outcomes and adds at most
  one (`FlipFollows`, from what `FlippedHistory` says of the history flipped).
- The last needs that the outcome voted on counts even where `ContestedStands`
  says nothing, after a question was started under the vote (`mixed`, the hazard
  at `engine.go:817`): otherwise its points were taken back twice. `Fresh` in
  `VoteInv` says so: nothing in the question that has come meanwhile reverts an
  outcome, so the index of the appeal names one that counts or none.
- `Sound` adds the types that the steps keep only together, whose turn it is and
  how many cells are left among them; each command has a lemma that it keeps them
  and accounts for its scores (`Accounted`).

`StakeAuctionProofs` proves `Invariant`, `TypeCorrect`, `WonByTheLastAlways` and
`AllInAlwaysStands`, for all tables, scores, amounts, steps and prices, 0 included.

- The recursion first. A recursive function of TLA+ is whatever satisfies its
  equation, if anything does. Here something does, because every call makes one
  call at most and returns what it returns: `Results` is what all relations that
  follow the calls agree on, a call has the results of the call it makes
  (`SameResults`), one that makes none has one (`OneResult`), and so `AskBid`
  satisfies its equation (`AskBidEquation`). This needs no induction.
- That the recursion keeps an auction sound does: over `Left`, the bidders and
  whether the one who is asked is bound to the nominal bid. Each call leaves a
  bidder less, or makes the nominal bid of one who is bound and asks one who is
  not, at price 0 too (`MovesBetween`, `CallsLess`), so among the calls that would
  go wrong one would have the least left, and it has none to blame (`SmallestSet`,
  `AskBidSound`).
- The invariant is `Sound(auction)`. For `WonByTheLast` it says that a bidder who
  has bid is in the order of the first bids (`Lined`) and that whoever is asked
  takes part (`Held`): otherwise `Bidders` could be empty with somebody still
  bidding, and stakeAdvance would end the auction (`BiddersParts`, `EndsOver`).
- For `AllInStands` the offer matters as well as the bids: after an all-in it is
  a pass or another all-in, unless the bidder is all-in himself (`ModesOK`), so
  the nominal bid made when his time is out does not beat it; and whoever may be
  asked can pay (`Able`), so no offer outlives a bidder passed for lack of
  money. A corrected score breaks `Able`: hence `edits = 0` in the property. At
  price 0 an all-in bidder who is chosen again by a tie can bid the nominal 0
  himself, and then the next is asked for the opening: hence `stake > 0`. It is a
  property of steps, proved for each action in `AllInKept`.

Only model-checked: the safety of FinalRound (`TopGroupDeletesLast` and
`DeletionsAreShared`: groups, rotations and counts of deletions, small and
explored to the end), RoomManager (its two properties are liveness), and all
liveness: the prover has no ENABLED, hence no fairness.

## 6. What is not modelled

- The *clock model* of the buzzer (`buzzer/conn.go`): offsets, medians and
  probabilities over floating point numbers. What it decides, which of the
  presses in the window wins, is a free choice in RoomButton.
- *Projections and events* of the engine, the wire types, the web client: views
  of the state.
- *HTTP and WebSocket plumbing* (decoding, limits, send queues), the parsing of
  SIQ files, their export, the validation of documents, the similarity of
  texts: functions without protocol state. Their outcomes are inputs.
- *Replay* after a reconnection, trust levels, passwords, the AI as a person,
  the settings that do not decide who may join, the columns of the stored room.
- *Durations*, but for the thinking time in ticks: a timer that runs may expire
  at any moment.
- The *composition* of all engine modules into one: QuestionFlow, Appeals,
  StakeAuction, FinalRound and RoundFlow each reduce what the others detail; a
  product of them is out of TLC's reach. RoomButton and JudgeFlow compose the
  room with the part of the engine they talk to.
