----------------------------- MODULE RoomButton -----------------------------
(***************************************************************************)
(* The button, between the room and the engine: the room actor keeps the   *)
(* arm (internal/room/buzzer.go, internal/buzzer/arm.go) that collects the *)
(* presses and decides; the engine keeps who may press and whether the     *)
(* button is armed.  The engine tells the room by BUTTON_ARM_REQUEST,      *)
(* BUTTON_DISARM_REQUEST, QUESTION_END and ROUND_END, the room the engine  *)
(* by BUTTON_RESULT.  A command and the events it emits are handled in one *)
(* turn of the actor, so one action changes both sides; what is concurrent *)
(* is the players, the sockets and the timers, whose callbacks wait in the *)
(* mailbox of the actor.                                                   *)
(*                                                                         *)
(* Of the engine only what the button depends on is here; QuestionFlow has *)
(* the whole question.  Of the arm the instants are left out: "due" says   *)
(* that the instant NextDeadline returns has passed.  Any press collected  *)
(* may be ranked the winner.                                               *)
(***************************************************************************)
EXTENDS Naturals, FiniteSets

CONSTANTS
    Players,        \* the seats at the table
    NoPlayer,       \* the empty person id
    MaxQuestions    \* BOUND: button questions played

ASSUME PlayersAssumption == NoPlayer \notin Players
ASSUME BoundAssumption == MaxQuestions \in Nat

Phases == {"armed", "draining", "collecting"}
NoArm == [question |-> 0, eligible |-> {}, pressed |-> {}, phase |-> "none"]

\* due: the deadline of the arm has passed; timer: armState.deadline is running;
\* mailbox: the onArmResolve callbacks posted, of this arm and of former ones.
NoRoom == [arm |-> NoArm, due |-> FALSE, timer |-> FALSE, mailbox |-> {}]

VARIABLES
    question,       \* the question played last, by number
    sub,            \* QuestionState.Sub; "none" outside stage question, and "roundEnd"
                    \* where MOVE 2 has left the question of a managed game
    contentDone,    \* QuestionState.ContentDone
    armed,          \* QuestionState.Armed
    canPress,       \* players with CanPress
    answerer,       \* QuestionState.AnswererID
    paused,         \* State.Paused
    connected,      \* persons with a socket, Player.Connected of the engine
    locked,         \* persons under a lockout of their connection
    barred,         \* persons under a lockout of the room
    room            \* Room.arm and its timer: see NoRoom

game == <<question, sub, contentDone, armed, canPress, answerer>>
persons == <<connected, locked, barred>>
vars == <<game, paused, persons, room>>

arm == room.arm

InQuestion == sub \notin {"none", "roundEnd"}
Reading == sub = "content" \/ sub = "buttonWait"
-----------------------------------------------------------------------------
(* The room, as its operations leave r.                                    *)

\* The callback posted for the arm that goes is one of a former arm now.
Outdated(r) == IF r.mailbox = {} THEN {} ELSE {"former"}

\* buzzerPlayers: of those the engine lets press, who has a socket and no lockout.
Eligible(players) == (players \intersect connected') \ (locked \union barred)

\* Mutant of StartArm: an arm that is open is left as it is.
StartArmKeepsOld(r, q, players) ==
    IF r.arm # NoArm
    THEN r
    ELSE [arm |-> [question |-> q, eligible |-> Eligible(players),
                   pressed |-> {}, phase |-> "armed"],
          due |-> FALSE, timer |-> TRUE, mailbox |-> Outdated(r)]

\* startArm, which replaces the arm that is open.
StartArm(r, q, players) ==
    [arm |-> [question |-> q, eligible |-> Eligible(players),
              pressed |-> {}, phase |-> "armed"],
     due |-> FALSE, timer |-> TRUE, mailbox |-> Outdated(r)]

\* Mutant of CloseArm: the timer of the arm is stopped, the arm stays.
CloseArmTimerOnly(r) == [r EXCEPT !.timer = FALSE]

\* cancelArm, and what finishArm does to the room.
CloseArm(r) == [NoRoom EXCEPT !.mailbox = Outdated(r)]

\* The players whose press the arm a still waits for.
Waiting(a) == (a.eligible \ a.pressed) \ locked

\* Arm.SetEligible(p, FALSE), which moves the deadline of an arm that collects.
SetIneligible(r, p) ==
    LET a == [r.arm EXCEPT !.eligible = @ \ {p}]
    IN  [r EXCEPT !.arm = a,
                  !.due = IF p \in r.arm.eligible /\ a.phase = "collecting"
                          THEN Waiting(a) = {} ELSE @]

\* Mutant of ScheduleResolve: a deadline that has passed is not scheduled.
ScheduleResolveFuture(r) == [r EXCEPT !.timer = r.arm # NoArm /\ ~r.due]

ScheduleResolve(r) == [r EXCEPT !.timer = r.arm # NoArm]

\* What detach does last, with the player p who is gone; NoPlayer: nobody is.
WithoutPlayer(r, p) == IF p = NoPlayer THEN r ELSE ScheduleResolve(SetIneligible(r, p))
-----------------------------------------------------------------------------
(* The engine.                                                             *)

MayPress == canPress' \intersect connected'

\* showAnswer, with the button disarmed if it is armed.  It is called as gone
\* leaves, or by a handler in which NoPlayer does.
ShowAnswer(gone) ==
    /\ sub' = "reveal"
    /\ armed' = FALSE
    /\ room' = WithoutPlayer(IF armed THEN CloseArm(room) ELSE room, gone)

\* simpleBegin: without false starts the button opens before the content.  A
\* sequential game comes to it in a pause too, by the showman's NEXT or MOVE.
StartQuestion(open) ==
    /\ sub = "none"
    /\ question < MaxQuestions /\ connected # {}
    /\ question' = question + 1
    /\ sub' = "content" /\ contentDone' = FALSE
    /\ canPress' = connected
    /\ armed' = open
    /\ answerer' = NoPlayer
    /\ UNCHANGED <<paused, persons>>
    /\ room' = IF open THEN StartArm(room, question', canPress') ELSE room

\* contentFinished.  The group in hand ends by its timer, by the media or by
\* NEXT, which the showman has during a pause too.
ContentFinished(gone) ==
    /\ sub = "content"
    /\ contentDone' = TRUE
    /\ UNCHANGED <<question, canPress, answerer>>
    /\ IF MayPress = {}
       THEN ShowAnswer(gone)
       ELSE /\ sub' = "buttonWait" /\ armed' = TRUE
            /\ room' = WithoutPlayer(IF armed THEN room ELSE StartArm(room, question, MayPress), gone)

\* The timer of the thinking time: nobodyAnswered.
TimeoutButtonPressing ==
    /\ sub = "buttonWait" /\ ~paused
    /\ UNCHANGED <<question, contentDone, canPress, answerer, paused, persons>>
    /\ ShowAnswer(NoPlayer)

\* Mutant of Pass: the arm goes on with the press of who passes.
PassNoRearm(p) ==
    /\ Reading /\ ~paused
    /\ p \in canPress \intersect connected
    /\ canPress' = canPress \ {p}
    /\ UNCHANGED <<question, contentDone, answerer, paused, persons>>
    /\ IF MayPress = {} /\ sub = "buttonWait"
       THEN ShowAnswer(NoPlayer)
       ELSE UNCHANGED <<sub, armed, room>>

\* PASS: the button opens anew for the others, or closes.
Pass(p) ==
    /\ Reading /\ ~paused
    /\ p \in canPress \intersect connected
    /\ canPress' = canPress \ {p}
    /\ UNCHANGED <<question, contentDone, answerer, paused, persons>>
    /\ IF MayPress = {} /\ sub = "buttonWait"
       THEN ShowAnswer(NoPlayer)
       ELSE /\ sub' = sub
            /\ armed' = (armed /\ MayPress # {})
            /\ room' = CASE ~armed -> room
                         [] armed /\ MayPress = {} -> CloseArm(room)
                         [] armed /\ MayPress # {} -> StartArm(room, question, MayPress)

\* A right answer, or a wrong one: the button opens anew for those who are
\* left.  The content that was interrupted may end at once.
Verdict(right) ==
    /\ sub = "answering" /\ ~paused
    /\ UNCHANGED <<question, canPress, answerer, paused, persons>>
    /\ IF right \/ MayPress = {}
       THEN ShowAnswer(NoPlayer) /\ UNCHANGED contentDone
       ELSE /\ contentDone' \in {contentDone, TRUE}
            /\ sub' = IF contentDone' THEN "buttonWait" ELSE "content"
            /\ armed' = TRUE
            /\ room' = StartArm(room, question, MayPress)

\* The question is over: QUESTION_END closes any arm.
EndQuestion ==
    /\ sub' = "none" /\ armed' = FALSE /\ canPress' = {} /\ contentDone' = FALSE
    /\ UNCHANGED <<question, answerer>>
    /\ room' = CloseArm(room)

ReflectionOver == UNCHANGED <<paused, persons>> /\ sub = "reveal" /\ EndQuestion

ContentOver == UNCHANGED <<paused, persons>> /\ ContentFinished(NoPlayer)
-----------------------------------------------------------------------------
(* The showman and the host, who act during a pause too.                   *)

Pause(on) ==
    /\ on # paused
    /\ paused' = on
    /\ UNCHANGED <<game, persons, room>>

\* MOVE 1 shows the answer, MOVE -1 takes the question back.
Move(forward) ==
    /\ InQuestion
    /\ UNCHANGED <<paused, persons>>
    /\ IF forward /\ sub # "reveal"
       THEN ShowAnswer(NoPlayer) /\ UNCHANGED <<question, contentDone, canPress, answerer>>
       ELSE EndQuestion

\* startRound forgets the question and sends no disarm.
Forget ==
    /\ sub' = "none" /\ armed' = FALSE /\ canPress' = {} /\ contentDone' = FALSE
    /\ UNCHANGED <<question, answerer>>

\* MOVE -2 and 3, at any time; NEXT and MOVE 1 where the round has ended.
LeaveRound ==
    /\ Forget
    /\ UNCHANGED <<paused, persons, room>>

\* MOVE 2: endRound, whose ROUND_END closes any arm.  A managed game keeps the
\* question, armed or not, until the showman's NEXT.
MoveEndRound(managed) ==
    /\ IF managed
       THEN sub' = "roundEnd" /\ UNCHANGED <<question, contentDone, armed, canPress, answerer>>
       ELSE Forget
    /\ room' = CloseArm(room)
    /\ UNCHANGED <<paused, persons>>

\* BUTTON_REOPEN of the host.
ReopenButton ==
    /\ InQuestion /\ armed
    /\ UNCHANGED <<game, paused, persons>>
    /\ room' = StartArm(room, question, MayPress)
-----------------------------------------------------------------------------
(* The players and their sockets.                                          *)

\* onPress with the id of the open arm, scored as a press of the race.
Press(p) ==
    /\ p \in Waiting(arm)
    /\ LET a == [arm EXCEPT !.pressed = @ \union {p}, !.phase = "collecting"]
       IN  room' = [room EXCEPT !.arm = a, !.due = Waiting(a) = {}, !.timer = TRUE]
    /\ UNCHANGED <<game, paused, persons>>

\* onPress refused: late, a duplicate, not eligible, locked out.
PressRefused ==
    /\ room' = ScheduleResolve(room)
    /\ UNCHANGED <<game, paused, persons>>

\* A press before the light of the arm, scored or reported by MISFIRE.
FalseStart(p) ==
    /\ p \in arm.eligible \ locked
    /\ locked' = locked \union {p}
    /\ room' \in {room, ScheduleResolve(room)}
    /\ UNCHANGED <<game, paused, connected, barred>>

\* A press without an arm, or a MISFIRE of somebody the arm does not know.
Misfire(p) ==
    /\ p \in connected \ barred
    /\ barred' = barred \union {p}
    /\ room' \in {room, ScheduleResolve(room)}
    /\ UNCHANGED <<game, paused, connected, locked>>

\* A lockout expires.
LockoutOver(p) ==
    /\ p \in locked \union barred
    /\ \/ locked' = locked \ {p} /\ barred' = barred
       \/ barred' = barred \ {p} /\ locked' = locked
    /\ UNCHANGED <<game, paused, connected, room>>

\* detach and disconnect.  The content may have waited for this player's media.
Detach(p) ==
    /\ p \in connected
    /\ connected' = connected \ {p}
    /\ UNCHANGED <<paused, locked, barred>>
    /\ \/ room' = WithoutPlayer(room, p) /\ UNCHANGED game
       \/ ContentFinished(p)

\* attach, of a player who is back or whose session is replaced: the connection
\* is new.  The deadline may move and the timer is not set again.
Attach(p) ==
    /\ connected' = connected \union {p}
    /\ locked' = locked \ {p}
    /\ room' = SetIneligible(room, p)
    /\ UNCHANGED <<game, paused, barred>>
-----------------------------------------------------------------------------
(* The timer of the arm.                                                   *)

Elapse ==
    /\ arm # NoArm /\ ~room.due
    /\ room' = [room EXCEPT !.due = TRUE]
    /\ UNCHANGED <<game, paused, persons>>

\* time.AfterFunc posts the callback.
Fire ==
    /\ room.timer /\ room.due
    /\ room' = [room EXCEPT !.timer = FALSE, !.mailbox = @ \union {"current"}]
    /\ UNCHANGED <<game, paused, persons>>

\* When onButtonResult takes a decision of the arm.
Decides == InQuestion /\ armed /\ ~paused

\* onButtonResult takes the player who won, or drops a decision it calls stale
\* or whose winner cannot press; finishArm has closed the arm.
Winner(p, r) ==
    /\ room' = CloseArm(r)
    /\ IF Decides /\ p \in canPress \intersect connected
       THEN /\ sub' = "answering" /\ armed' = FALSE /\ answerer' = p
            /\ canPress' = canPress \ {p}
            /\ UNCHANGED <<question, contentDone>>
       ELSE UNCHANGED game

\* nobody: during the content a new arm opens, after it the answer is shown.
Nobody(r) ==
    IF Decides /\ sub = "content"
    THEN UNCHANGED game /\ room' = StartArm(r, arm.question, MayPress)
    ELSE /\ room' = CloseArm(r)
         /\ IF Decides
            THEN sub' = "reveal" /\ armed' = FALSE
                 /\ UNCHANGED <<question, contentDone, canPress, answerer>>
            ELSE UNCHANGED game

\* Resolve: nothing to decide yet; the press window over, and the arm drains
\* before it decides; nobody pressed; one of those who did.
Resolve ==
    /\ "current" \in room.mailbox
    /\ UNCHANGED <<paused, persons>>
    /\ LET r == [room EXCEPT !.mailbox = @ \ {"current"}]
       IN  \/ ~r.due /\ room' = ScheduleResolve(r) /\ UNCHANGED game
           \/ /\ r.due /\ arm.phase = "armed"
              /\ room' = ScheduleResolve([r EXCEPT !.arm.phase = "draining", !.due = FALSE])
              /\ UNCHANGED game
           \/ r.due /\ arm.phase # "collecting" /\ Nobody(r)
           \/ r.due /\ arm.phase = "collecting" /\ \E p \in arm.pressed : Winner(p, r)

\* onArmResolve of a former arm: another generation.
ResolveFormer ==
    /\ "former" \in room.mailbox
    /\ room' = [room EXCEPT !.mailbox = @ \ {"former"}]
    /\ UNCHANGED <<game, paused, persons>>
-----------------------------------------------------------------------------
Init ==
    /\ question = 0 /\ sub = "none" /\ contentDone = FALSE
    /\ armed = FALSE /\ canPress = {} /\ answerer = NoPlayer
    /\ paused = FALSE
    /\ connected = Players /\ locked = {} /\ barred = {}
    /\ room = NoRoom

EngineStep ==
    \/ \E open \in BOOLEAN : StartQuestion(open)
    \/ ContentOver
    \/ TimeoutButtonPressing
    \/ \E p \in Players : Pass(p)
    \/ \E right \in BOOLEAN : Verdict(right)
    \/ ReflectionOver

ControlStep ==
    \/ \E on \in BOOLEAN : Pause(on)
    \/ \E forward \in BOOLEAN : Move(forward)
    \/ LeaveRound
    \/ \E managed \in BOOLEAN : MoveEndRound(managed)
    \/ ReopenButton

PlayerStep ==
    \/ PressRefused
    \/ \E p \in Players :
          \/ Press(p) \/ FalseStart(p) \/ Misfire(p) \/ LockoutOver(p)
          \/ Detach(p) \/ Attach(p)

Next == EngineStep \/ ControlStep \/ PlayerStep
        \/ Elapse \/ Fire \/ Resolve \/ ResolveFormer

Spec == Init /\ [][Next]_vars

\* Time passes, time.AfterFunc fires, and the actor serves its mailbox.
FairSpec == Spec /\ WF_vars(Elapse) /\ WF_vars(Fire) /\ WF_vars(Resolve)
-----------------------------------------------------------------------------
Arms == [question : 1 .. MaxQuestions, eligible : SUBSET Players,
         pressed : SUBSET Players, phase : Phases]
Rooms == [arm : Arms \union {NoArm}, due : BOOLEAN, timer : BOOLEAN,
          mailbox : SUBSET {"current", "former"}]

\* The variables have their types.
TypeOK ==
    /\ question \in 0 .. MaxQuestions
    /\ sub \in {"none", "content", "buttonWait", "answering", "reveal", "roundEnd"}
    /\ contentDone \in BOOLEAN /\ armed \in BOOLEAN /\ paused \in BOOLEAN
    /\ canPress \subseteq Players /\ connected \subseteq Players
    /\ locked \subseteq Players /\ barred \subseteq Players
    /\ answerer \in Players \union {NoPlayer}
    /\ room \in Rooms

\* An arm of the question in play is open only while the engine has its button
\* armed: no press can be collected for an answer being given or shown.
ArmFollowsEngine ==
    arm # NoArm /\ InQuestion /\ arm.question = question => armed

\* While the engine has the button armed, a press collected is one for the
\* question in play and of a player who may press: whatever came in between
\* (PASS, a verdict, MOVE to another round), no decision is refused for it.
PressesStillAllowed ==
    armed => /\ arm # NoArm => arm.question = question
             /\ arm.pressed \subseteq canPress

\* An open arm is never forgotten: its timer runs or its callback is posted.
ArmIsWatched ==
    /\ arm # NoArm => room.timer \/ "current" \in room.mailbox
    /\ arm = NoArm => ~room.timer /\ "current" \notin room.mailbox

\* The player who is given the answer pressed the button of this very question
\* and has not answered it, or passed, before.
AnswererPressed ==
    [][sub' = "answering" /\ sub # "answering" =>
          /\ arm.question = question
          /\ answerer' \in arm.pressed \intersect canPress \intersect connected]_vars

\* A button that stays armed in its question loses its arm, so that nobody can
\* press, only by a decision the engine refused: in a pause, or for a presser who
\* has left.  (MOVE 2 closes the arm and leaves q.Armed behind in a managed game,
\* but the question is over then: the engine takes no press of it.)
ArmStays ==
    [][armed /\ armed' /\ InQuestion' /\ arm # NoArm /\ arm' = NoArm =>
          paused \/ arm.pressed \ connected # {}]_vars

\* A press accepted into the race does not hang: the arm decides, closes or
\* is replaced, paused or not, and however the others come and go.
RaceEnds == \A p \in Players : p \in arm.pressed ~> p \notin arm.pressed

\* The protocol tells a client that a pending press is in the race and that a
\* lost one is answered late, stale or duplicate: the thinking time does not
\* run out on a race.
RaceIsRun == [][TimeoutButtonPressing => arm.pressed \intersect connected = {}]_vars
-----------------------------------------------------------------------------
(* The refinement.                                                         *)

\* What the button looks like to Button.
ButtonPhase ==
    CASE ~InQuestion -> "idle"
      [] Reading -> IF ~armed THEN "reading" ELSE IF arm = NoArm THEN "dark" ELSE "lit"
      [] sub = "answering" -> "answering"
      [] sub = "reveal" -> "shown"

Racing == IF ButtonPhase = "lit" THEN arm.pressed ELSE {}
Answering == IF sub = "answering" THEN answerer ELSE NoPlayer
May == IF InQuestion THEN canPress ELSE {}

Abstract == INSTANCE Button WITH
    phase <- ButtonPhase, may <- May, race <- Racing, answerer <- Answering,
    present <- connected

\* Whatever the players, their sockets and the timers do to the arm, the button
\* is the one Button promises: a press is taken from a player at the table who has
\* not passed or answered yet, one who pressed wins at most, nobody wins twice in
\* a question, and the button goes dark only by a decision that came in a pause
\* or after a presser had left.
RacesAreFair == Abstract!Spec
=============================================================================
