-------------------------- MODULE RoomButtonProofs --------------------------
(***************************************************************************)
(* The safety properties of RoomButton, for every set of players and every *)
(* number of questions.  Sound says of the arm and the button together     *)
(* what each handler has to keep; IInv adds the types.                     *)
(***************************************************************************)
EXTENDS RoomButton, TLAPS

Watched(r) ==
    /\ r.arm # NoArm => r.timer \/ "current" \in r.mailbox
    /\ r.arm = NoArm => ~r.timer /\ "current" \notin r.mailbox

\* The room r fits a game whose question is q in phase s, with the button armed
\* or not and the players cp allowed to press.
Sound(r, q, s, open, cp) ==
    /\ r \in Rooms /\ Watched(r)
    /\ r.arm.question <= q
    /\ r.arm # NoArm /\ s \notin {"none", "roundEnd"} /\ r.arm.question = q => open
    /\ s = "roundEnd" => r.arm = NoArm
    /\ open => /\ s \in {"content", "buttonWait", "roundEnd"}
               /\ r.arm # NoArm => r.arm.question = q
               /\ r.arm.pressed \subseteq cp
               /\ r.arm.eligible \subseteq cp

Plain ==
    /\ question \in 0 .. MaxQuestions
    /\ sub \in {"none", "content", "buttonWait", "answering", "reveal", "roundEnd"}
    /\ InQuestion => question # 0
    /\ contentDone \in BOOLEAN /\ armed \in BOOLEAN /\ paused \in BOOLEAN
    /\ canPress \subseteq Players /\ connected \subseteq Players
    /\ locked \subseteq Players /\ barred \subseteq Players
    /\ answerer \in Players \union {NoPlayer}

IInv == Plain /\ Sound(room, question, sub, armed, canPress)
-----------------------------------------------------------------------------
(* The operations of the room.                                             *)

\* An arm is a record of its four fields, and NoArm is the one of question 0.
LEMMA ArmForm ==
    ASSUME NEW a \in Arms \union {NoArm}
    PROVE  /\ a \in [question : 0 .. MaxQuestions, eligible : SUBSET Players,
                     pressed : SUBSET Players, phase : Phases \union {"none"}]
           /\ a = NoArm <=> a.question = 0
           /\ a = NoArm => a.eligible = {} /\ a.pressed = {} /\ a.phase = "none"
           /\ a # NoArm => a \in Arms /\ a.phase \in Phases /\ a.question \in 1 .. MaxQuestions
BY BoundAssumption DEF Arms, NoArm

LEMMA RealArm == \A a \in Arms : a # NoArm
BY DEF Arms, NoArm

\* startArm opens an arm for the question, without presses, under a timer.
LEMMA StartArmOpens ==
    ASSUME NEW r \in Rooms, NEW q \in 1 .. MaxQuestions, NEW ps \in SUBSET Players
    PROVE  LET s == StartArm(r, q, ps)
           IN  /\ s \in Rooms /\ Watched(s) /\ s.arm # NoArm
               /\ s.arm.question = q /\ s.arm.pressed = {} /\ s.arm.eligible \subseteq ps
<1> DEFINE s == StartArm(r, q, ps)
<1>1. Outdated(r) \in SUBSET {"current", "former"} BY DEF Outdated
<1>2. Eligible(ps) \subseteq ps BY DEF Eligible
<1>3. s.arm \in Arms /\ s.arm.question = q /\ s.arm.pressed = {} /\ s.arm.eligible \subseteq ps
  BY <1>2 DEF StartArm, Arms, Phases
<1>4. s.arm # NoArm BY <1>3, ArmForm
<1>5. s \in Rooms BY <1>1, <1>3 DEF StartArm, Rooms
<1>6. s.timer BY DEF StartArm
<1> QED BY <1>3, <1>4, <1>5, <1>6 DEF Watched

\* cancelArm leaves no arm and no timer.
LEMMA CloseArmCloses ==
    ASSUME NEW r \in Rooms
    PROVE  CloseArm(r) \in Rooms /\ Watched(CloseArm(r)) /\ CloseArm(r).arm = NoArm
<1>1. Outdated(r) \in SUBSET {"former"} BY DEF Outdated
<1> QED BY <1>1 DEF CloseArm, NoRoom, Rooms, Watched

\* The same arm as r's, for fewer players perhaps.
SameArm(s, r) ==
    /\ s.arm = NoArm <=> r.arm = NoArm
    /\ s.arm.question = r.arm.question
    /\ s.arm.pressed = r.arm.pressed
    /\ s.arm.eligible \subseteq r.arm.eligible

\* SetEligible keeps the arm and its presses.
LEMMA SetIneligibleKeeps ==
    ASSUME NEW r \in Rooms, Watched(r), NEW p
    PROVE  LET s == SetIneligible(r, p)
           IN  s \in Rooms /\ Watched(s) /\ SameArm(s, r)
<1> DEFINE s == SetIneligible(r, p)
           a == [r.arm EXCEPT !.eligible = @ \ {p}]
<1>1. r.arm \in Arms \union {NoArm} BY DEF Rooms
<1>2. CASE r.arm = NoArm
  <2>1. a = NoArm BY <1>2 DEF NoArm
  <2>2. ~(a.phase = "collecting") BY <2>1 DEF NoArm
  <2>3. s = r BY <1>2, <2>1, <2>2 DEF SetIneligible, Rooms
  <2> QED BY <2>3 DEF SameArm
<1>3. CASE r.arm # NoArm
  <2>1. r.arm \in Arms BY <1>1, <1>3
  <2>2. a \in Arms /\ a.question = r.arm.question /\ a.pressed = r.arm.pressed
        /\ a.eligible \subseteq r.arm.eligible
    BY <2>1 DEF Arms
  <2>3. a # NoArm
    <3> HIDE DEF a
    <3> QED BY <2>2, RealArm
  <2>4. s \in Rooms /\ s.arm = a /\ s.timer = r.timer /\ s.mailbox = r.mailbox
    BY <2>2 DEF SetIneligible, Rooms
  <2> QED BY <1>3, <2>2, <2>3, <2>4 DEF Watched, SameArm
<1> QED BY <1>2, <1>3

\* scheduleResolve keeps the arm and gives it a timer.
LEMMA ScheduleResolveKeeps ==
    ASSUME NEW r \in Rooms, r.arm = NoArm => "current" \notin r.mailbox
    PROVE  LET s == ScheduleResolve(r)
           IN  s \in Rooms /\ Watched(s) /\ SameArm(s, r) /\ s.arm = r.arm
BY DEF ScheduleResolve, Rooms, Watched, SameArm

\* detach keeps the arm and its presses.
LEMMA WithoutPlayerKeeps ==
    ASSUME NEW r \in Rooms, Watched(r), NEW p
    PROVE  LET s == WithoutPlayer(r, p)
           IN  s \in Rooms /\ Watched(s) /\ SameArm(s, r)
<1> DEFINE i == SetIneligible(r, p)
<1>1. CASE p = NoPlayer BY <1>1 DEF WithoutPlayer, SameArm
<1>2. CASE p # NoPlayer
  <2>1. i \in Rooms /\ Watched(i) /\ SameArm(i, r) BY SetIneligibleKeeps
  <2>2. LET s == ScheduleResolve(i) IN s \in Rooms /\ Watched(s) /\ SameArm(s, i)
    BY <2>1, ScheduleResolveKeeps DEF Watched
  <2> QED BY <1>2, <2>1, <2>2 DEF WithoutPlayer, SameArm
<1> QED BY <1>1, <1>2
-----------------------------------------------------------------------------
(* The same operations, and what is sound after them.                      *)

LEMMA SoundStart ==
    ASSUME NEW r \in Rooms, NEW q \in 1 .. MaxQuestions, NEW ps \in SUBSET Players,
           NEW cp, ps \subseteq cp, NEW s \in {"content", "buttonWait"}
    PROVE  Sound(StartArm(r, q, ps), q, s, TRUE, cp)
<1> DEFINE t == StartArm(r, q, ps)
<1>1. /\ t \in Rooms /\ Watched(t) /\ t.arm # NoArm
      /\ t.arm.question = q /\ t.arm.pressed = {} /\ t.arm.eligible \subseteq ps
  BY StartArmOpens
<1> HIDE DEF t
<1>2. Sound(t, q, s, TRUE, cp) BY <1>1, BoundAssumption DEF Sound
<1> QED BY <1>2 DEF t

LEMMA SoundClose ==
    ASSUME NEW r \in Rooms, NEW q \in 0 .. MaxQuestions, NEW s, NEW open, NEW cp,
           open => s \in {"content", "buttonWait", "roundEnd"}
    PROVE  Sound(CloseArm(r), q, s, open, cp)
<1> DEFINE t == CloseArm(r)
<1>1. t \in Rooms /\ Watched(t) /\ t.arm = NoArm BY CloseArmCloses
<1> HIDE DEF t
<1>2. Sound(t, q, s, open, cp) BY <1>1, BoundAssumption DEF Sound, NoArm
<1> QED BY <1>2 DEF t

LEMMA SoundSame ==
    ASSUME NEW r, NEW t \in Rooms, NEW q, NEW s, NEW open, NEW cp,
           Sound(r, q, s, open, cp), Watched(t), SameArm(t, r)
    PROVE  Sound(t, q, s, open, cp)
BY DEF Sound, SameArm

\* showAnswer leaves the button closed on both sides.
LEMMA ShowAnswerSound ==
    ASSUME IInv, InQuestion, NEW p, ShowAnswer(p), NEW cp
    PROVE  sub' = "reveal" /\ armed' = FALSE /\ Sound(room', question, "reveal", FALSE, cp)
<1> DEFINE r == IF armed THEN CloseArm(room) ELSE room
<1>1. room \in Rooms /\ question \in 0 .. MaxQuestions /\ armed \in BOOLEAN
  BY DEF IInv, Sound, Plain
<1>2. Sound(r, question, "reveal", FALSE, cp)
  <2>1. CASE armed
    <3>1. r = CloseArm(room) BY <2>1
    <3>2. Sound(CloseArm(room), question, "reveal", FALSE, cp) BY <1>1, SoundClose
    <3> QED BY <3>1, <3>2
  <2>2. CASE ~armed
    <3>1. r = room BY <2>2
    <3>2. Sound(room, question, "reveal", FALSE, cp) BY <2>2 DEF IInv, Sound, InQuestion
    <3> QED BY <3>1, <3>2
  <2> QED BY <1>1, <2>1, <2>2
<1> HIDE DEF r
<1>3. r \in Rooms /\ Watched(r) BY <1>2 DEF Sound
<1> DEFINE t == WithoutPlayer(r, p)
<1>4. t \in Rooms /\ Watched(t) /\ SameArm(t, r) BY <1>3, WithoutPlayerKeeps
<1> HIDE DEF t
<1>5. Sound(t, question, "reveal", FALSE, cp) BY <1>2, <1>4, SoundSame
<1> QED BY <1>5 DEF ShowAnswer, r, t
-----------------------------------------------------------------------------
(* The actions.                                                            *)

LEMMA InitSound == ASSUME Init PROVE IInv
<1>1. NoRoom \in Rooms /\ Watched(NoRoom) /\ NoRoom.arm = NoArm
  BY DEF NoRoom, Rooms, Watched
<1>2. NoRoom.arm.question = 0 BY <1>1 DEF NoArm
<1>3. Plain
  <2>1. question \in 0 .. MaxQuestions /\ sub = "none" BY BoundAssumption DEF Init
  <2> QED BY <2>1, Zenon DEF Init, Plain, InQuestion
<1> HIDE DEF NoRoom
<1>4. Sound(NoRoom, question, sub, armed, canPress) BY <1>1, <1>2 DEF Init, Sound
<1> QED BY <1>3, <1>4 DEF Init, IInv

LEMMA StartQuestionSound == ASSUME IInv, NEW open \in BOOLEAN, StartQuestion(open) PROVE IInv'
<1> USE BoundAssumption
<1>1. Plain'
  <2>1. /\ question \in 0 .. MaxQuestions /\ question < MaxQuestions
        /\ question' = question + 1 /\ sub' = "content" /\ contentDone' = FALSE
        /\ canPress' = connected /\ armed' = open /\ answerer' = NoPlayer
        /\ paused' = paused /\ connected' = connected /\ locked' = locked /\ barred' = barred
    BY DEF IInv, Plain, InQuestion, StartQuestion, persons
  <2>2. question' \in 0 .. MaxQuestions /\ question' # 0 BY <2>1
  <2> QED BY <2>1, <2>2 DEF IInv, Plain, InQuestion
<1>2. question' \in 1 .. MaxQuestions /\ canPress' \in SUBSET Players /\ room \in Rooms
      /\ question \in Nat /\ question' = question + 1 /\ sub' = "content" /\ armed' = open
  BY DEF IInv, Plain, InQuestion, Sound, StartQuestion
<1>3. CASE open
  <2>1. Sound(StartArm(room, question', canPress'), question', "content", TRUE, canPress')
    BY <1>2, SoundStart
  <2> QED BY <1>1, <1>2, <1>3, <2>1 DEF IInv, StartQuestion
<1>4. CASE ~open
  <2>1. room' = room BY <1>4 DEF StartQuestion
  <2>2. room.arm.question \in Nat BY <1>2, ArmForm DEF Rooms
  <2>3. Sound(room, question', "content", FALSE, canPress')
    BY <1>2, <2>2 DEF IInv, Sound
  <2> QED BY <1>1, <1>2, <1>4, <2>1, <2>3 DEF IInv
<1> QED BY <1>3, <1>4

\* contentFinished, alone or as the player p leaves.
LEMMA ContentFinishedSound ==
    ASSUME IInv, NEW p, ContentFinished(p), connected' \in SUBSET Players,
           locked' \in SUBSET Players, barred' \in SUBSET Players, paused' \in BOOLEAN
    PROVE  IInv'
<1>1. /\ sub = "content" /\ question' = question /\ question \in 1 .. MaxQuestions
      /\ canPress' = canPress /\ MayPress \in SUBSET Players /\ MayPress \subseteq canPress
      /\ room \in Rooms /\ Watched(room) /\ armed \in BOOLEAN
  BY BoundAssumption DEF IInv, Plain, InQuestion, Sound, ContentFinished, MayPress
<1>2. CASE MayPress = {}
  <2>1. ShowAnswer(p) BY <1>2 DEF ContentFinished
  <2>2. sub' = "reveal" /\ armed' = FALSE /\ Sound(room', question, "reveal", FALSE, canPress)
    BY <1>1, <2>1, ShowAnswerSound DEF InQuestion
  <2>3. Plain' BY <1>1, <2>2 DEF IInv, Plain, InQuestion, ContentFinished
  <2> QED BY <1>1, <2>2, <2>3 DEF IInv
<1>3. CASE MayPress # {}
  <2> DEFINE r == IF armed THEN room ELSE StartArm(room, question, MayPress)
             t == WithoutPlayer(r, p)
  <2>1. sub' = "buttonWait" /\ armed' = TRUE /\ room' = t BY <1>3 DEF ContentFinished
  <2>2. Sound(r, question, "buttonWait", TRUE, canPress)
    <3>1. CASE armed
      <4>1. Sound(room, question, "buttonWait", TRUE, canPress) BY <1>1, <3>1 DEF IInv, Sound
      <4> QED BY <3>1, <4>1
    <3>2. CASE ~armed
      <4>1. Sound(StartArm(room, question, MayPress), question, "buttonWait", TRUE, canPress)
        BY <1>1, SoundStart
      <4> QED BY <3>2, <4>1
    <3> QED BY <3>1, <3>2
  <2> HIDE DEF r
  <2>3. r \in Rooms /\ Watched(r) BY <2>2 DEF Sound
  <2>4. t \in Rooms /\ Watched(t) /\ SameArm(t, r) BY <2>3, WithoutPlayerKeeps
  <2> HIDE DEF t
  <2>5. Sound(t, question, "buttonWait", TRUE, canPress) BY <2>2, <2>4, SoundSame
  <2>6. Plain' BY <1>1, <2>1 DEF IInv, Plain, InQuestion, ContentFinished
  <2> QED BY <1>1, <2>1, <2>5, <2>6 DEF IInv
<1> QED BY <1>2, <1>3

LEMMA TimeoutSound == ASSUME IInv, TimeoutButtonPressing PROVE IInv'
<1>1. InQuestion /\ ShowAnswer(NoPlayer) BY DEF TimeoutButtonPressing, InQuestion
<1>2. sub' = "reveal" /\ armed' = FALSE /\ Sound(room', question, "reveal", FALSE, canPress)
  BY <1>1, ShowAnswerSound
<1>3. Plain' BY <1>1, <1>2 DEF IInv, Plain, InQuestion, TimeoutButtonPressing, persons
<1> QED BY <1>2, <1>3 DEF IInv, TimeoutButtonPressing

LEMMA PassSound == ASSUME IInv, NEW p, Pass(p) PROVE IInv'
<1>1. /\ sub \in {"content", "buttonWait"} /\ question' = question /\ question \in 1 .. MaxQuestions
      /\ canPress' \in SUBSET canPress /\ canPress' \in SUBSET Players
      /\ MayPress \in SUBSET Players /\ MayPress \subseteq canPress'
      /\ contentDone' = contentDone /\ answerer' = answerer /\ paused' = paused
      /\ connected' = connected /\ locked' = locked /\ barred' = barred
      /\ room \in Rooms /\ armed \in BOOLEAN /\ Sound(room, question, sub, armed, canPress)
  BY BoundAssumption DEF IInv, Plain, InQuestion, Sound, Pass, MayPress, Reading, persons
<1>2. CASE MayPress = {} /\ sub = "buttonWait"
  <2>1. ShowAnswer(NoPlayer) BY <1>2 DEF Pass
  <2>2. sub' = "reveal" /\ armed' = FALSE /\ Sound(room', question, "reveal", FALSE, canPress')
    BY <1>1, <2>1, ShowAnswerSound DEF InQuestion
  <2>3. Plain' BY <1>1, <2>2 DEF IInv, Plain, InQuestion
  <2> QED BY <1>1, <2>2, <2>3 DEF IInv
<1>3. CASE ~(MayPress = {} /\ sub = "buttonWait")
  <2>1. sub' = sub BY <1>3 DEF Pass
  <2>2. CASE ~armed
    <3>1. armed' = FALSE /\ room' = room BY <1>3, <2>2 DEF Pass
    <3>2. Sound(room, question, sub, FALSE, canPress') BY <1>1, <2>2 DEF Sound
    <3>3. Plain' BY <1>1, <2>1, <3>1 DEF IInv, Plain, InQuestion
    <3> QED BY <1>1, <2>1, <3>1, <3>2, <3>3 DEF IInv
  <2>3. CASE armed /\ MayPress = {}
    <3>1. armed' = FALSE /\ room' = CloseArm(room) BY <1>3, <2>3 DEF Pass
    <3>2. question \in 0 .. MaxQuestions BY <1>1
    <3>3. Sound(CloseArm(room), question, sub, FALSE, canPress') BY <1>1, <3>2, SoundClose
    <3>4. Plain' BY <1>1, <2>1, <3>1 DEF IInv, Plain, InQuestion
    <3> QED BY <1>1, <2>1, <3>1, <3>3, <3>4 DEF IInv
  <2>4. CASE armed /\ MayPress # {}
    <3>1. armed' = TRUE /\ room' = StartArm(room, question, MayPress) BY <1>3, <2>4 DEF Pass
    <3>2. Sound(StartArm(room, question, MayPress), question, sub, TRUE, canPress')
      BY <1>1, SoundStart
    <3>3. Plain' BY <1>1, <2>1, <3>1 DEF IInv, Plain, InQuestion
    <3> QED BY <1>1, <2>1, <3>1, <3>2, <3>3 DEF IInv
  <2> QED BY <1>1, <2>2, <2>3, <2>4
<1> QED BY <1>2, <1>3

LEMMA VerdictSound == ASSUME IInv, NEW right \in BOOLEAN, Verdict(right) PROVE IInv'
<1>1. /\ sub = "answering" /\ question' = question /\ question \in 1 .. MaxQuestions
      /\ canPress' = canPress /\ MayPress \in SUBSET Players /\ MayPress \subseteq canPress
      /\ answerer' = answerer /\ paused' = paused
      /\ connected' = connected /\ locked' = locked /\ barred' = barred
      /\ room \in Rooms /\ contentDone \in BOOLEAN
  BY BoundAssumption DEF IInv, Plain, InQuestion, Sound, Verdict, MayPress, persons
<1>2. CASE right \/ MayPress = {}
  <2>1. ShowAnswer(NoPlayer) /\ contentDone' = contentDone BY <1>2 DEF Verdict
  <2>2. sub' = "reveal" /\ armed' = FALSE /\ Sound(room', question, "reveal", FALSE, canPress)
    BY <1>1, <2>1, ShowAnswerSound DEF InQuestion
  <2>3. Plain' BY <1>1, <2>1, <2>2 DEF IInv, Plain, InQuestion
  <2> QED BY <1>1, <2>2, <2>3 DEF IInv
<1>3. CASE ~(right \/ MayPress = {})
  <2>1. /\ contentDone' \in BOOLEAN /\ sub' \in {"buttonWait", "content"}
        /\ armed' = TRUE /\ room' = StartArm(room, question, MayPress)
    BY <1>1, <1>3 DEF Verdict
  <2>2. Sound(StartArm(room, question, MayPress), question, sub', TRUE, canPress)
    BY <1>1, <2>1, SoundStart
  <2>3. Plain' BY <1>1, <2>1 DEF IInv, Plain, InQuestion
  <2> QED BY <1>1, <2>1, <2>2, <2>3 DEF IInv
<1> QED BY <1>2, <1>3

LEMMA EndQuestionSound ==
    ASSUME IInv, EndQuestion, UNCHANGED <<paused, persons>> PROVE IInv'
<1>1. /\ question' = question /\ question \in 0 .. MaxQuestions /\ room \in Rooms
      /\ sub' = "none" /\ armed' = FALSE /\ canPress' = {} /\ contentDone' = FALSE
      /\ answerer' = answerer /\ room' = CloseArm(room) /\ paused' = paused
      /\ connected' = connected /\ locked' = locked /\ barred' = barred
  BY DEF IInv, Plain, InQuestion, Sound, EndQuestion, persons
<1>2. Sound(CloseArm(room), question, "none", FALSE, {}) BY <1>1, SoundClose
<1>3. Plain' BY <1>1 DEF IInv, Plain, InQuestion
<1> QED BY <1>1, <1>2, <1>3 DEF IInv

LEMMA MoveSound == ASSUME IInv, NEW forward \in BOOLEAN, Move(forward) PROVE IInv'
<1>1. CASE forward /\ sub # "reveal"
  <2>1. /\ InQuestion /\ ShowAnswer(NoPlayer) /\ question' = question
        /\ contentDone' = contentDone /\ canPress' = canPress /\ answerer' = answerer
        /\ paused' = paused /\ connected' = connected /\ locked' = locked /\ barred' = barred
    BY <1>1 DEF Move, InQuestion, persons
  <2>2. sub' = "reveal" /\ armed' = FALSE /\ Sound(room', question, "reveal", FALSE, canPress)
    BY <2>1, ShowAnswerSound DEF InQuestion
  <2>3. Plain' BY <2>1, <2>2 DEF IInv, Plain, InQuestion
  <2> QED BY <2>1, <2>2, <2>3 DEF IInv
<1>2. CASE ~(forward /\ sub # "reveal")
  BY <1>2, EndQuestionSound DEF Move
<1> QED BY <1>1, <1>2

\* The question is forgotten, and the room keeps its arm or closes it.
LEMMA ForgetSound ==
    ASSUME IInv, Forget, UNCHANGED <<paused, persons>>, room' \in {room, CloseArm(room)}
    PROVE  IInv'
<1>1. /\ question' = question /\ question \in 0 .. MaxQuestions /\ room \in Rooms
      /\ sub' = "none" /\ armed' = FALSE /\ canPress' = {} /\ contentDone' = FALSE
      /\ answerer' = answerer /\ paused' = paused
      /\ connected' = connected /\ locked' = locked /\ barred' = barred
  BY DEF IInv, Plain, Sound, Forget, persons
<1>2. Sound(room, question, "none", FALSE, {}) BY DEF IInv, Sound
<1>3. Sound(CloseArm(room), question, "none", FALSE, {}) BY <1>1, SoundClose
<1>4. Plain' BY <1>1 DEF IInv, Plain, InQuestion
<1> QED BY <1>1, <1>2, <1>3, <1>4 DEF IInv

\* MOVE 2 closes the arm; the question it leaves takes no press.
LEMMA MoveEndRoundSound ==
    ASSUME IInv, NEW managed \in BOOLEAN, MoveEndRound(managed) PROVE IInv'
<1>1. CASE managed
  <2>1. /\ question' = question /\ question \in 0 .. MaxQuestions /\ room \in Rooms
        /\ sub' = "roundEnd" /\ armed' = armed /\ canPress' = canPress
        /\ contentDone' = contentDone /\ answerer' = answerer /\ paused' = paused
        /\ connected' = connected /\ locked' = locked /\ barred' = barred
        /\ room' = CloseArm(room)
    BY <1>1 DEF IInv, Plain, Sound, MoveEndRound, persons
  <2>2. Sound(CloseArm(room), question, "roundEnd", armed, canPress) BY <2>1, SoundClose
  <2>3. Plain' BY <2>1 DEF IInv, Plain, InQuestion
  <2> QED BY <2>1, <2>2, <2>3 DEF IInv
<1>2. CASE ~managed
  BY <1>2, ForgetSound DEF MoveEndRound
<1> QED BY <1>1, <1>2

LEMMA ReopenButtonSound == ASSUME IInv, ReopenButton PROVE IInv'
<1>1. /\ InQuestion /\ armed /\ UNCHANGED <<game, paused, persons>>
      /\ room' = StartArm(room, question, MayPress) BY DEF ReopenButton
<1>2. /\ sub \in {"content", "buttonWait"} /\ question \in 1 .. MaxQuestions
      /\ room \in Rooms /\ MayPress \in SUBSET Players /\ MayPress \subseteq canPress
  BY <1>1, BoundAssumption DEF IInv, Plain, InQuestion, Sound, MayPress, game
<1>3. Sound(StartArm(room, question, MayPress), question, sub, TRUE, canPress)
  BY <1>2, SoundStart
<1>4. Sound(StartArm(room, question, MayPress), question, sub, armed, canPress)
  BY <1>1, <1>3 DEF Sound
<1>5. Plain' BY <1>1 DEF IInv, Plain, InQuestion, game, persons
<1> QED BY <1>1, <1>4, <1>5 DEF IInv, game
-----------------------------------------------------------------------------
(* The actions that leave the engine alone.                                *)

People == /\ connected' \in SUBSET Players /\ locked' \in SUBSET Players
          /\ barred' \in SUBSET Players /\ paused' \in BOOLEAN

LEMMA PeopleStay ==
    ASSUME IInv, UNCHANGED <<paused, persons>> PROVE People
BY DEF IInv, Plain, People, persons

\* A handler that leaves the engine alone and keeps the arm.
LEMMA SameArmSound ==
    ASSUME IInv, UNCHANGED game, People,
           room' \in Rooms, Watched(room'), SameArm(room', room)
    PROVE  IInv'
<1>1. Sound(room', question, sub, armed, canPress) BY SoundSame DEF IInv
<1>2. Plain' BY DEF IInv, Plain, InQuestion, People, game
<1> QED BY <1>1, <1>2 DEF IInv, game

LEMMA RoomFacts ==
    ASSUME IInv
    PROVE  room \in Rooms /\ Watched(room) /\ SameArm(room, room)
BY DEF IInv, Sound, SameArm

\* The room is left, or its timer is set again.
LEMMA ScheduledSound ==
    ASSUME IInv, UNCHANGED game, People, room' \in {room, ScheduleResolve(room)}
    PROVE  IInv'
<1>1. room' \in Rooms /\ Watched(room') /\ SameArm(room', room)
  <2>1. ScheduleResolve(room) \in Rooms /\ Watched(ScheduleResolve(room))
        /\ SameArm(ScheduleResolve(room), room)
    BY RoomFacts, ScheduleResolveKeeps DEF Watched
  <2> QED BY <2>1, RoomFacts
<1> QED BY <1>1, SameArmSound

LEMMA PressSound == ASSUME IInv, NEW p \in Players, Press(p) PROVE IInv'
<1> DEFINE a == [arm EXCEPT !.pressed = @ \union {p}, !.phase = "collecting"]
<1>1. /\ p \in arm.eligible /\ room' = [room EXCEPT !.arm = a, !.due = Waiting(a) = {}, !.timer = TRUE]
      /\ UNCHANGED <<game, paused, persons>>
  BY DEF Press, Waiting
<1>2. arm \in Arms
  <2>1. arm \in Arms \union {NoArm} BY RoomFacts DEF Rooms, arm
  <2> QED BY <1>1, <2>1 DEF NoArm
<1>3. a \in Arms /\ a.question = arm.question /\ a.eligible = arm.eligible
      /\ a.pressed = arm.pressed \union {p}
  BY <1>2 DEF Arms, Phases
<1>4. arm # NoArm BY <1>2, RealArm
<1> HIDE DEF a
<1>5. a # NoArm BY <1>3, RealArm
<1>6. room' \in Rooms /\ room'.arm = a /\ room'.timer BY <1>1, <1>3, RoomFacts DEF Rooms
<1>7. Watched(room') BY <1>5, <1>6 DEF Watched
<1>8. Sound(room', question, sub, armed, canPress)
  BY <1>1, <1>3, <1>4, <1>5, <1>6, <1>7 DEF IInv, Sound, arm
<1>9. Plain' BY <1>1 DEF IInv, Plain, InQuestion, game, persons
<1> QED BY <1>1, <1>8, <1>9 DEF IInv, game

LEMMA PressRefusedSound == ASSUME IInv, PressRefused PROVE IInv'
BY PeopleStay, ScheduledSound DEF PressRefused

LEMMA FalseStartSound == ASSUME IInv, NEW p \in Players, FalseStart(p) PROVE IInv'
<1>1. People BY DEF IInv, Plain, People, FalseStart
<1> QED BY <1>1, ScheduledSound DEF FalseStart

LEMMA MisfireSound == ASSUME IInv, NEW p \in Players, Misfire(p) PROVE IInv'
<1>1. People BY DEF IInv, Plain, People, Misfire
<1> QED BY <1>1, ScheduledSound DEF Misfire

LEMMA LockoutOverSound == ASSUME IInv, NEW p \in Players, LockoutOver(p) PROVE IInv'
<1>1. People BY DEF IInv, Plain, People, LockoutOver
<1> QED BY <1>1, ScheduledSound DEF LockoutOver

LEMMA DetachSound == ASSUME IInv, NEW p \in Players, Detach(p) PROVE IInv'
<1>1. People BY DEF IInv, Plain, People, Detach
<1>2. CASE room' = WithoutPlayer(room, p) /\ UNCHANGED game
  <2>1. room' \in Rooms /\ Watched(room') /\ SameArm(room', room)
    BY <1>2, RoomFacts, WithoutPlayerKeeps
  <2> QED BY <1>1, <1>2, <2>1, SameArmSound
<1>3. CASE ContentFinished(p) BY <1>1, <1>3, ContentFinishedSound DEF People
<1> QED BY <1>2, <1>3 DEF Detach

LEMMA AttachSound == ASSUME IInv, NEW p \in Players, Attach(p) PROVE IInv'
<1>1. People BY DEF IInv, Plain, People, Attach
<1>2. room' \in Rooms /\ Watched(room') /\ SameArm(room', room)
  BY RoomFacts, SetIneligibleKeeps DEF Attach
<1> QED BY <1>1, <1>2, SameArmSound DEF Attach

LEMMA PauseSound == ASSUME IInv, NEW on \in BOOLEAN, Pause(on) PROVE IInv'
<1>1. People BY DEF IInv, Plain, People, Pause, persons
<1> QED BY <1>1, ScheduledSound DEF Pause

LEMMA ElapseSound == ASSUME IInv, Elapse PROVE IInv'
<1>1. room' \in Rooms /\ Watched(room') /\ SameArm(room', room)
  BY RoomFacts DEF Elapse, Rooms, Watched, SameArm
<1> QED BY <1>1, PeopleStay, SameArmSound DEF Elapse

LEMMA FireSound == ASSUME IInv, Fire PROVE IInv'
<1>1. room' \in Rooms /\ Watched(room') /\ SameArm(room', room)
  BY RoomFacts DEF Fire, Rooms, Watched, SameArm
<1> QED BY <1>1, PeopleStay, SameArmSound DEF Fire

LEMMA ResolveFormerSound == ASSUME IInv, ResolveFormer PROVE IInv'
<1>1. room' \in Rooms /\ Watched(room') /\ SameArm(room', room)
  BY RoomFacts DEF ResolveFormer, Rooms, Watched, SameArm
<1> QED BY <1>1, PeopleStay, SameArmSound DEF ResolveFormer
-----------------------------------------------------------------------------
(* The decision of the arm.                                                *)

\* The room as the callback finds it: the arm it was posted for is open.
LEMMA Served ==
    ASSUME IInv, "current" \in room.mailbox
    PROVE  LET r == [room EXCEPT !.mailbox = @ \ {"current"}]
           IN  r \in Rooms /\ r.arm = arm /\ arm \in Arms /\ "current" \notin r.mailbox
<1>1. arm # NoArm BY RoomFacts DEF Watched, arm
<1>2. arm \in Arms BY <1>1, RoomFacts DEF Rooms, arm
<1> QED BY <1>2, RoomFacts DEF Rooms, arm

\* The button of an arm that is open is the one of a question.
LEMMA ArmedIsAsked ==
    ASSUME IInv, arm \in Arms
    PROVE  armed => InQuestion /\ sub \in {"content", "buttonWait"}
BY RealArm DEF IInv, Sound, arm, InQuestion

LEMMA ArmIsReal == ASSUME IInv, arm # NoArm PROVE arm \in Arms
BY RoomFacts DEF Rooms, arm

LEMMA WinnerSound ==
    ASSUME IInv, UNCHANGED <<paused, persons>>, NEW r \in Rooms, NEW p \in Players, Winner(p, r)
    PROVE  IInv'
<1>1. question \in 0 .. MaxQuestions /\ room' = CloseArm(r) BY DEF IInv, Plain, InQuestion, Winner
<1>2. CASE Decides /\ p \in canPress \intersect connected
  <2>1. /\ sub' = "answering" /\ armed' = FALSE /\ answerer' = p /\ canPress' = canPress \ {p}
        /\ question' = question /\ contentDone' = contentDone
    BY <1>2 DEF Winner
  <2>2. Sound(CloseArm(r), question, "answering", FALSE, canPress \ {p}) BY <1>1, SoundClose
  <2>3. question # 0 BY <1>2 DEF IInv, Plain, Decides
  <2>4. Plain' BY <2>1, <2>3 DEF IInv, Plain, InQuestion, persons
  <2> QED BY <1>1, <2>1, <2>2, <2>4 DEF IInv
<1>3. CASE ~(Decides /\ p \in canPress \intersect connected)
  <2>1. UNCHANGED game BY <1>3 DEF Winner
  <2>2. room' \in Rooms /\ Watched(room') /\ room'.arm = NoArm BY <1>1, CloseArmCloses
  <2>3. Sound(room', question, sub, armed, canPress)
    BY <1>1, <2>2 DEF IInv, Sound, NoArm
  <2>4. Plain' BY <2>1 DEF IInv, Plain, InQuestion, game, persons
  <2> QED BY <2>1, <2>3, <2>4 DEF IInv, game
<1> QED BY <1>2, <1>3

LEMMA NobodySound ==
    ASSUME IInv, UNCHANGED <<paused, persons>>, NEW r \in Rooms, arm \in Arms, Nobody(r)
    PROVE  IInv'
<1>1. /\ question \in 0 .. MaxQuestions /\ arm.question \in 1 .. MaxQuestions /\ arm # NoArm
      /\ MayPress \subseteq canPress /\ MayPress \in SUBSET Players
  BY RealArm DEF IInv, Plain, InQuestion, Arms, MayPress, persons, Nobody, game
<1>2. CASE Decides /\ sub = "content"
  <2>1. UNCHANGED game /\ room' = StartArm(r, arm.question, MayPress) BY <1>2 DEF Nobody
  <2>2. armed /\ arm.question = question BY <1>1, <1>2 DEF IInv, Sound, arm, Decides
  <2>3. Sound(StartArm(r, question, MayPress), question, sub, TRUE, canPress)
    BY <1>1, <1>2, <2>2, SoundStart
  <2>4. Sound(StartArm(r, question, MayPress), question, sub, armed, canPress)
    BY <2>2, <2>3 DEF Sound
  <2>5. Plain' BY <2>1 DEF IInv, Plain, InQuestion, game, persons
  <2> QED BY <2>1, <2>2, <2>4, <2>5 DEF IInv, game
<1>3. CASE ~(Decides /\ sub = "content")
  <2>1. room' = CloseArm(r) BY <1>3 DEF Nobody
  <2>2. CASE Decides
    <3>1. /\ sub' = "reveal" /\ armed' = FALSE /\ question' = question
          /\ contentDone' = contentDone /\ canPress' = canPress /\ answerer' = answerer
      BY <1>3, <2>2 DEF Nobody
    <3>2. Sound(CloseArm(r), question, "reveal", FALSE, canPress) BY <1>1, SoundClose
    <3>3. question # 0 BY <2>2 DEF IInv, Plain, Decides
    <3>4. Plain' BY <3>1, <3>3 DEF IInv, Plain, InQuestion, persons
    <3> QED BY <2>1, <3>1, <3>2, <3>4 DEF IInv
  <2>3. CASE ~Decides
    <3>1. UNCHANGED game BY <1>3, <2>3 DEF Nobody
    <3>2. room' \in Rooms /\ Watched(room') /\ room'.arm = NoArm BY <2>1, CloseArmCloses
    <3>3. Sound(room', question, sub, armed, canPress)
      BY <1>1, <3>2 DEF IInv, Sound, NoArm
    <3>4. Plain' BY <3>1 DEF IInv, Plain, InQuestion, game, persons
    <3> QED BY <3>1, <3>3, <3>4 DEF IInv, game
  <2> QED BY <2>2, <2>3
<1> QED BY <1>2, <1>3

LEMMA ResolveSound == ASSUME IInv, Resolve PROVE IInv'
<1> DEFINE r == [room EXCEPT !.mailbox = @ \ {"current"}]
           d == [r EXCEPT !.arm.phase = "draining", !.due = FALSE]
<1>1. "current" \in room.mailbox /\ UNCHANGED <<paused, persons>> BY DEF Resolve
<1>2. r \in Rooms /\ r.arm = arm /\ arm \in Arms /\ arm # NoArm /\ "current" \notin r.mailbox
  BY <1>1, Served, RealArm
<1>3. People BY <1>1, PeopleStay
<1>4. CASE ~r.due /\ room' = ScheduleResolve(r) /\ UNCHANGED game
  <2> HIDE DEF r
  <2>1. room' \in Rooms /\ Watched(room') /\ room'.arm = arm BY <1>2, <1>4, ScheduleResolveKeeps
  <2>2. SameArm(room', room) BY <2>1 DEF SameArm, arm
  <2> QED BY <1>3, <1>4, <2>1, <2>2, SameArmSound
<1>5. CASE room' = ScheduleResolve(d) /\ UNCHANGED game
  <2>1. d \in Rooms /\ d.arm \in Arms /\ d.arm.question = arm.question
        /\ d.arm.pressed = arm.pressed /\ d.arm.eligible = arm.eligible
    BY <1>2 DEF Rooms, Arms, Phases
  <2>2. d.arm # NoArm BY <2>1, RealArm
  <2> HIDE DEF d
  <2>3. room' \in Rooms /\ Watched(room') /\ room'.arm = d.arm
    BY <1>5, <2>1, <2>2, ScheduleResolveKeeps
  <2>4. SameArm(room', room) BY <1>2, <2>1, <2>2, <2>3 DEF SameArm, arm
  <2> QED BY <1>3, <1>5, <2>3, <2>4, SameArmSound
<1>6. CASE Nobody(r) BY <1>1, <1>2, <1>6, NobodySound
<1>7. CASE \E p \in arm.pressed : Winner(p, r)
  <2>1. PICK p \in arm.pressed : Winner(p, r) BY <1>7
  <2>2. p \in Players BY <1>2, <2>1 DEF Arms
  <2> QED BY <1>1, <1>2, <2>1, <2>2, WinnerSound
<1> QED BY <1>4, <1>5, <1>6, <1>7 DEF Resolve
-----------------------------------------------------------------------------
\* Nothing happens.
LEMMA StutterSound == ASSUME IInv, UNCHANGED vars PROVE IInv'
<1>1. UNCHANGED game /\ UNCHANGED <<paused, persons>> /\ room' = room BY DEF vars
<1> QED BY <1>1, PeopleStay, ScheduledSound

\* Sound is kept by every handler of the engine, of the room and of its timer.
THEOREM Inductive == Spec => []IInv
<1>1. Init => IInv BY InitSound
<1>2. IInv /\ [Next]_vars => IInv'
  <2> SUFFICES ASSUME IInv, [Next]_vars PROVE IInv'
    OBVIOUS
  <2>1. CASE EngineStep
    BY <2>1, StartQuestionSound, ContentFinishedSound, PeopleStay, TimeoutSound, PassSound,
       VerdictSound, EndQuestionSound
    DEF EngineStep, ContentOver, ReflectionOver, People
  <2>2. CASE ControlStep
    BY <2>2, PauseSound, MoveSound, ForgetSound, MoveEndRoundSound, ReopenButtonSound
    DEF ControlStep, LeaveRound
  <2>3. CASE PlayerStep
    BY <2>3, PressRefusedSound, PressSound, FalseStartSound, MisfireSound, LockoutOverSound,
       DetachSound, AttachSound
    DEF PlayerStep
  <2>4. CASE Elapse \/ Fire \/ Resolve \/ ResolveFormer
    BY <2>4, ElapseSound, FireSound, ResolveSound, ResolveFormerSound
  <2>5. CASE UNCHANGED vars BY <2>5, StutterSound
  <2> QED BY <2>1, <2>2, <2>3, <2>4, <2>5 DEF Next
<1> QED BY <1>1, <1>2, PTL DEF Spec

\* The variables have their types, for any number of players and questions.
THEOREM TypeCorrect == Spec => []TypeOK
<1>1. IInv => TypeOK BY DEF IInv, Plain, Sound, TypeOK
<1> QED BY <1>1, Inductive, PTL

\* The arm of the question in play is open only while the engine's button is armed.
THEOREM ArmFollowsEngineAlways == Spec => []ArmFollowsEngine
<1>1. IInv => ArmFollowsEngine BY DEF IInv, Sound, ArmFollowsEngine, arm, InQuestion
<1> QED BY <1>1, Inductive, PTL

\* A press collected while the button is armed is for the question in play, by
\* a player who may press.
THEOREM PressesStillAllowedAlways == Spec => []PressesStillAllowed
<1>1. IInv => PressesStillAllowed BY DEF IInv, Sound, PressesStillAllowed, arm
<1> QED BY <1>1, Inductive, PTL

\* An open arm has its timer running or its callback posted.
THEOREM ArmIsWatchedAlways == Spec => []ArmIsWatched
<1>1. IInv => ArmIsWatched BY DEF IInv, Sound, Watched, ArmIsWatched, arm
<1> QED BY <1>1, Inductive, PTL
-----------------------------------------------------------------------------
(* What a step may not do.                                                 *)

\* An answer begins only by a decision of the arm.
LEMMA AnswerBegins ==
    ASSUME IInv, [Next]_vars, sub # "answering", sub' = "answering" PROVE Resolve
<1>1. ~EngineStep
  BY DEF EngineStep, StartQuestion, ContentOver, ContentFinished, ShowAnswer, TimeoutButtonPressing,
         Pass, Verdict, ReflectionOver, EndQuestion
<1>2. ~ControlStep
  BY DEF ControlStep, Pause, Move, LeaveRound, MoveEndRound, Forget, ReopenButton, ShowAnswer,
         EndQuestion, game
<1>3. ~PlayerStep
  BY DEF PlayerStep, Press, PressRefused, FalseStart, Misfire, LockoutOver, Detach, Attach,
         ContentFinished, ShowAnswer, game
<1>4. ~Elapse /\ ~Fire /\ ~ResolveFormer BY DEF Elapse, Fire, ResolveFormer, game
<1> QED BY <1>1, <1>2, <1>3, <1>4 DEF Next, vars, game

\* What Resolve decides when it takes a winner or closes an arm in vain.
LEMMA Decided ==
    ASSUME IInv, Resolve, arm # NoArm,
           (sub # "answering" /\ sub' = "answering") \/ (armed /\ armed' /\ arm' = NoArm)
    PROVE  \/ \E p \in arm.pressed, r \in Rooms : Winner(p, r)
           \/ paused
<1> DEFINE r == [room EXCEPT !.mailbox = @ \ {"current"}]
           d == [r EXCEPT !.arm.phase = "draining", !.due = FALSE]
<1>1. r \in Rooms /\ r.arm = arm /\ arm \in Arms /\ "current" \notin r.mailbox
  BY Served DEF Resolve
<1>2. CASE ~r.due /\ room' = ScheduleResolve(r) /\ UNCHANGED game
  <2>1. room'.arm = arm BY <1>1, <1>2 DEF ScheduleResolve, Rooms
  <2> QED BY <1>2, <2>1 DEF game, arm
<1>3. CASE room' = ScheduleResolve(d) /\ UNCHANGED game
  <2>1. d \in Rooms /\ d.arm \in Arms BY <1>1 DEF Rooms, Arms, Phases
  <2>2. d.arm # NoArm BY <2>1, RealArm
  <2> HIDE DEF d
  <2>3. room'.arm # NoArm BY <1>3, <2>1, <2>2 DEF ScheduleResolve, Rooms
  <2> QED BY <1>3, <2>3 DEF game, arm
<1>4. CASE Nobody(r)
  <2>1. CASE Decides /\ sub = "content"
    <3>1. UNCHANGED game /\ room' = StartArm(r, arm.question, MayPress) BY <1>4, <2>1 DEF Nobody
    <3>2. arm.question \in 1 .. MaxQuestions /\ MayPress \in SUBSET Players
      BY <1>1, <3>1 DEF Arms, IInv, Plain, MayPress, game
    <3>3. room'.arm # NoArm BY <1>1, <3>1, <3>2, StartArmOpens
    <3> QED BY <3>1, <3>3 DEF game, arm
  <2>2. CASE ~(Decides /\ sub = "content")
    BY <1>1, <1>4, <2>2, ArmedIsAsked DEF Nobody, Decides, game
  <2> QED BY <2>1, <2>2
<1>5. CASE \E p \in arm.pressed : Winner(p, r) BY <1>1, <1>5
<1> QED BY <1>2, <1>3, <1>4, <1>5 DEF Resolve

\* The player given the answer pressed the button of this question, and has
\* not answered it or passed before.
THEOREM AnswererPressedAlways == Spec => AnswererPressed
<1> DEFINE Fair == /\ arm.question = question
                   /\ answerer' \in arm.pressed \intersect canPress \intersect connected
<1>1. ASSUME IInv, [Next]_vars, sub # "answering", sub' = "answering" PROVE Fair
  <2>1. Resolve BY <1>1, AnswerBegins
  <2>2. arm # NoArm BY <2>1, RoomFacts, <1>1 DEF Watched, Resolve, arm
  <2>3. \/ \E p \in arm.pressed, r \in Rooms : Winner(p, r)
        \/ paused
    BY <1>1, <2>1, <2>2, Decided
  <2>4. ~paused
    <3>1. SUFFICES ASSUME paused PROVE FALSE OBVIOUS
    <3>2. ASSUME NEW r, Nobody(r) PROVE FALSE BY <1>1, <3>1, <3>2 DEF Nobody, Decides, game
    <3>3. ASSUME NEW r, NEW p, Winner(p, r) PROVE FALSE
      BY <1>1, <3>1, <3>3 DEF Winner, Decides, game
    <3>4. ~UNCHANGED game BY <1>1 DEF game
    <3> QED BY <2>1, <3>2, <3>3, <3>4 DEF Resolve
  <2>5. PICK p \in arm.pressed, r \in Rooms : Winner(p, r) BY <2>3, <2>4
  <2>6. armed /\ answerer' = p /\ p \in canPress \intersect connected
    BY <1>1, <2>5 DEF Winner, Decides, game
  <2>7. arm.question = question BY <1>1, <2>2, <2>6 DEF IInv, Sound, arm
  <2> QED BY <2>5, <2>6, <2>7
<1>2. IInv /\ [Next]_vars => [sub' = "answering" /\ sub # "answering" => Fair]_vars
  BY <1>1
<1> QED BY <1>2, Inductive, PTL DEF Spec, AnswererPressed

\* A button that stays armed in its question loses its arm only by a decision.
LEMMA ArmLost ==
    ASSUME IInv, [Next]_vars, armed, armed', InQuestion', arm # NoArm, arm' = NoArm PROVE Resolve
<1>1. sub \in {"content", "buttonWait"} /\ question \in 1 .. MaxQuestions /\ arm = room.arm
      /\ room \in Rooms /\ Watched(room) /\ SameArm(room, room)
  BY RoomFacts, BoundAssumption DEF IInv, Plain, InQuestion, Sound, arm
<1>2. ASSUME room' \in Rooms, SameArm(room', room) PROVE FALSE
  BY <1>1, <1>2 DEF SameArm, arm
<1>3. ASSUME NEW ps \in SUBSET Players, room' = StartArm(room, question, ps) PROVE FALSE
  <2>1. StartArm(room, question, ps).arm # NoArm BY <1>1, StartArmOpens
  <2> QED BY <1>3, <2>1 DEF arm
<1>4. MayPress \in SUBSET Players \/ canPress' # canPress
  BY DEF MayPress, IInv, Plain
<1>5. ScheduleResolve(room) \in Rooms /\ SameArm(ScheduleResolve(room), room)
  BY <1>1, ScheduleResolveKeeps DEF Watched
<1>6. ASSUME NEW p, ContentFinished(p) PROVE FALSE
  <2>1. sub' = "buttonWait" /\ room' = WithoutPlayer(room, p)
    BY <1>6 DEF ContentFinished, ShowAnswer
  <2> QED BY <1>1, <1>2, <2>1, WithoutPlayerKeeps
<1>7. ASSUME NEW p, Pass(p) PROVE FALSE
  <2>1. MayPress \in SUBSET Players BY <1>7 DEF MayPress, Pass, IInv, Plain
  <2>2. room' = StartArm(room, question, MayPress) BY <1>7 DEF Pass, ShowAnswer
  <2> QED BY <1>3, <2>1, <2>2
<1>8. ~EngineStep
  BY <1>1, <1>6, <1>7
  DEF EngineStep, StartQuestion, InQuestion, ContentOver, TimeoutButtonPressing, ShowAnswer,
      Verdict, ReflectionOver, EndQuestion
<1>9. ~ControlStep
  <2>1. ~ReopenButton BY <1>3, <1>4 DEF ReopenButton, game
  <2>2. ~(\E on \in BOOLEAN : Pause(on)) BY <1>1, <1>2 DEF Pause
  <2> QED
    BY <2>1, <2>2
    DEF ControlStep, Move, LeaveRound, MoveEndRound, Forget, ShowAnswer, EndQuestion, InQuestion
<1>10. ASSUME NEW p \in Players PROVE ~Press(p)
  <2> DEFINE a == [arm EXCEPT !.pressed = @ \union {p}, !.phase = "collecting"]
  <2>1. SUFFICES ASSUME Press(p) PROVE FALSE OBVIOUS
  <2>2. arm \in Arms BY <1>1 DEF Rooms
  <2>3. a \in Arms BY <2>2 DEF Arms, Phases
  <2>4. a # NoArm BY <2>3, RealArm
  <2>5. room' = [room EXCEPT !.arm = a, !.due = Waiting(a) = {}, !.timer = TRUE]
    BY <2>1 DEF Press
  <2> HIDE DEF a
  <2>6. room'.arm = a BY <1>1, <2>5 DEF Rooms
  <2> QED BY <2>4, <2>6 DEF arm
<1>11. ASSUME NEW p \in Players PROVE ~Detach(p) /\ ~Attach(p)
  <2>1. WithoutPlayer(room, p) \in Rooms /\ SameArm(WithoutPlayer(room, p), room)
    BY <1>1, WithoutPlayerKeeps
  <2>2. SetIneligible(room, p) \in Rooms /\ SameArm(SetIneligible(room, p), room)
    BY <1>1, SetIneligibleKeeps
  <2> QED BY <1>2, <1>6, <2>1, <2>2 DEF Detach, Attach
<1>12. ~PlayerStep
  BY <1>1, <1>2, <1>5, <1>10, <1>11 DEF PlayerStep, PressRefused, FalseStart, Misfire, LockoutOver
<1>13. ~Elapse /\ ~Fire /\ ~ResolveFormer
  BY <1>1 DEF Elapse, Fire, ResolveFormer, Rooms, arm
<1>14. ~UNCHANGED vars BY <1>1 DEF vars, arm
<1> QED BY <1>8, <1>9, <1>12, <1>13, <1>14 DEF Next

\* A button that stays armed in its question loses its arm only by a decision
\* the engine refused: in a pause, or for a presser who has left.
THEOREM ArmStaysAlways == Spec => ArmStays
<1> DEFINE Excuse == paused \/ arm.pressed \ connected # {}
<1>1. ASSUME IInv, [Next]_vars, armed, armed', InQuestion', arm # NoArm, arm' = NoArm PROVE Excuse
  <2>1. Resolve BY <1>1, ArmLost
  <2>2. CASE ~paused
    <3>1. PICK p \in arm.pressed, r \in Rooms : Winner(p, r) BY <1>1, <2>1, <2>2, Decided
    <3>2. Decides BY <1>1, <2>2, ArmIsReal, ArmedIsAsked DEF Decides
    <3>3. p \notin canPress \intersect connected BY <1>1, <3>1, <3>2 DEF Winner
    <3>4. p \in canPress BY <1>1 DEF IInv, Sound, arm
    <3> QED BY <3>1, <3>4, <3>3
  <2> QED BY <2>2
<1>2. IInv /\ [Next]_vars => [armed /\ armed' /\ InQuestion' /\ arm # NoArm /\ arm' = NoArm => Excuse]_vars
  BY <1>1
<1> QED BY <1>2, Inductive, PTL DEF Spec, ArmStays
-----------------------------------------------------------------------------
(* RoomButton implements Button.                                           *)

\* Whoever the arm waits for is at the table.
Seated == room.arm.eligible \subseteq connected

\* What Button sees of a sound state.
Looks ==
    /\ ~InQuestion =>
          ButtonPhase = "idle" /\ Racing = {} /\ Answering = NoPlayer /\ May = {}
    /\ InQuestion => ButtonPhase # "idle" /\ May = canPress
    /\ sub = "reveal" => ButtonPhase = "shown" /\ Racing = {} /\ Answering = NoPlayer
    /\ sub = "answering" => ButtonPhase = "answering" /\ Racing = {} /\ Answering = answerer
    /\ sub \in {"content", "buttonWait"} =>
          /\ Answering = NoPlayer
          /\ ~armed => ButtonPhase = "reading" /\ Racing = {}
          /\ armed /\ arm = NoArm => ButtonPhase = "dark" /\ Racing = {}
          /\ armed /\ arm # NoArm => ButtonPhase = "lit" /\ Racing = arm.pressed
    /\ armed /\ InQuestion => sub \in {"content", "buttonWait"}
    /\ sub \in {"none", "content", "buttonWait", "answering", "reveal", "roundEnd"}

LEMMA LooksHold == IInv => Looks
BY DEF IInv, Plain, InQuestion, Sound, Looks, ButtonPhase, Reading, Racing, Answering, May

LEMMA LooksNext == IInv' => Looks'
BY DEF IInv, Plain, InQuestion, Sound, Looks, ButtonPhase, Reading, Racing, Answering, May

\* The new arm has no presses and seats only those at the table.
LEMMA NewArm ==
    ASSUME NEW r \in Rooms, NEW q \in 1 .. MaxQuestions, NEW ps \in SUBSET Players
    PROVE  LET s == StartArm(r, q, ps)
           IN  s \in Rooms /\ Watched(s) /\ s.arm # NoArm /\ s.arm.pressed = {}
               /\ s.arm.eligible \subseteq connected'
<1>1. StartArm(r, q, ps).arm.eligible \subseteq connected' BY DEF StartArm, Eligible
<1> QED BY <1>1, StartArmOpens

LEMMA NoArmLeft ==
    ASSUME NEW r \in Rooms
    PROVE  CloseArm(r) \in Rooms /\ Watched(CloseArm(r)) /\ CloseArm(r).arm = NoArm
           /\ CloseArm(r).arm.eligible = {}
BY CloseArmCloses DEF NoArm

\* Who is gone is not waited for.
LEMMA GoneIsOut ==
    ASSUME NEW r \in Rooms, Watched(r), NEW C, r.arm.eligible \subseteq C, NEW p
    PROVE  /\ WithoutPlayer(r, p).arm.eligible \subseteq C
           /\ p # NoPlayer => WithoutPlayer(r, p).arm.eligible \subseteq C \ {p}
<1>1. SameArm(WithoutPlayer(r, p), r) BY WithoutPlayerKeeps
<1>2. ASSUME p # NoPlayer PROVE p \notin WithoutPlayer(r, p).arm.eligible
  <2> DEFINE i == SetIneligible(r, p)
             a == [r.arm EXCEPT !.eligible = @ \ {p}]
  <2>1. r.arm \in Arms \union {NoArm} BY DEF Rooms
  <2>2. p \notin a.eligible BY <2>1 DEF Arms, NoArm
  <2> HIDE DEF a
  <2>3. i.arm = a BY DEF SetIneligible, Rooms, a
  <2>4. i \in Rooms BY SetIneligibleKeeps
  <2> HIDE DEF i
  <2>5. ScheduleResolve(i).arm = i.arm BY <2>4 DEF ScheduleResolve, Rooms
  <2> QED BY <1>2, <2>2, <2>3, <2>5 DEF WithoutPlayer, i
<1> QED BY <1>1, <1>2 DEF SameArm

\* A step that leaves the engine alone and keeps the arm is none of Button's.
LEMMA NothingSeen ==
    ASSUME UNCHANGED game, SameArm(room', room)
    PROVE  Abstract!Next
<1>1. /\ sub' = sub /\ armed' = armed /\ canPress' = canPress /\ question' = question
      /\ answerer' = answerer /\ arm'.pressed = arm.pressed /\ (arm' = NoArm <=> arm = NoArm)
  BY DEF game, SameArm, arm
<1>2. ButtonPhase' = ButtonPhase BY <1>1 DEF ButtonPhase, InQuestion, Reading
<1>3. Racing' = Racing /\ Answering' = Answering /\ May' = May
  BY <1>1, <1>2 DEF Racing, Answering, May, InQuestion
<1>4. Abstract!Environment BY <1>1, <1>2, <1>3 DEF Abstract!Environment
<1> QED BY <1>4 DEF Abstract!Next

\* Those who leave are out of the arm as well.
Leaving(p) == connected' = connected \/ (p # NoPlayer /\ connected' = connected \ {p})

LEMMA ShowAnswerSeen ==
    ASSUME IInv, IInv', Seated, sub \in {"content", "buttonWait", "answering"},
           NEW p, Leaving(p), ShowAnswer(p), question' = question, canPress' \subseteq canPress
    PROVE  Abstract!Next /\ Seated'
<1>1. Looks /\ Looks' BY LooksHold, LooksNext
<1>2. sub' = "reveal" BY DEF ShowAnswer
<1>3. ButtonPhase \in {"reading", "lit", "dark", "answering"} BY <1>1 DEF Looks
<1>4. ButtonPhase' = "shown" /\ Racing' = {} /\ Answering' = NoPlayer BY <1>1, <1>2 DEF Looks
<1>5. May' \subseteq May BY <1>1, <1>2 DEF Looks, InQuestion
<1>6. Abstract!Show BY <1>3, <1>4, <1>5 DEF Abstract!Show
<1> DEFINE r == IF armed THEN CloseArm(room) ELSE room
<1>7. r \in Rooms /\ Watched(r) /\ r.arm.eligible \subseteq connected
  BY RoomFacts, NoArmLeft DEF Seated
<1>8. room' = WithoutPlayer(r, p) BY DEF ShowAnswer
<1> HIDE DEF r
<1>9. Seated' BY <1>7, <1>8, GoneIsOut DEF Leaving, Seated
<1> QED BY <1>9, <1>6 DEF Abstract!Next

LEMMA StartQuestionSeen ==
    ASSUME IInv, IInv', Seated, NEW open \in BOOLEAN, StartQuestion(open)
    PROVE  Abstract!Next /\ Seated'
<1>1. Looks /\ Looks' BY LooksHold, LooksNext
<1>2. /\ sub = "none" /\ question' = question + 1 /\ canPress' = connected
      /\ sub' = "content" /\ armed' = open /\ connected' = connected
      /\ room' = IF open THEN StartArm(room, question', canPress') ELSE room
  BY DEF StartQuestion, InQuestion, persons
<1>3. room \in Rooms /\ canPress' \in SUBSET Players /\ question' \in 1 .. MaxQuestions
  BY <1>2, BoundAssumption DEF IInv, Plain, InQuestion, Sound
<1>4. /\ open => arm' # NoArm /\ arm'.pressed = {}
      /\ Seated'
  <2>1. open => room'.arm # NoArm /\ room'.arm.pressed = {} /\ room'.arm.eligible \subseteq connected'
    BY <1>2, <1>3, NewArm
  <2> QED BY <1>2, <2>1 DEF arm, Seated
<1>5. ButtonPhase = "idle" /\ ButtonPhase' \in {"reading", "lit"}
      /\ Racing' = {} /\ Answering' = NoPlayer /\ May' = canPress'
  BY <1>1, <1>2, <1>4 DEF Looks, InQuestion
<1>6. Abstract!Ask BY <1>2, <1>5 DEF Abstract!Ask
<1> QED BY <1>4, <1>6 DEF Abstract!Next

\* The end of the content opens the button, finds it open, or shows the answer.
LEMMA ContentFinishedSeen ==
    ASSUME IInv, IInv', Seated, NEW p, Leaving(p), ContentFinished(p)
    PROVE  Abstract!Next /\ Seated'
<1>1. Looks /\ Looks' BY LooksHold, LooksNext
<1>2. /\ sub = "content" /\ UNCHANGED <<question, canPress, answerer>>
      /\ room \in Rooms /\ Watched(room) /\ question \in 1 .. MaxQuestions
      /\ MayPress \in SUBSET Players
  BY BoundAssumption DEF ContentFinished, IInv, Plain, InQuestion, Sound, MayPress
<1>3. CASE MayPress = {}
  BY <1>2, <1>3, ShowAnswerSeen DEF ContentFinished
<1>4. CASE MayPress # {} /\ armed
  <2>1. sub' = "buttonWait" /\ armed' = TRUE /\ room' = WithoutPlayer(room, p)
    BY <1>4 DEF ContentFinished
  <2>2. SameArm(room', room) BY <1>2, <2>1, WithoutPlayerKeeps
  <2>3. ButtonPhase' = ButtonPhase /\ Racing' = Racing /\ Answering' = Answering /\ May' = May
    BY <1>1, <1>2, <1>4, <2>1, <2>2 DEF Looks, SameArm, arm, InQuestion
  <2>4. Abstract!Environment BY <1>2, <2>3 DEF Abstract!Environment
  <2>5. Seated' BY <1>2, <2>1, GoneIsOut DEF Leaving, Seated
  <2> QED BY <2>4, <2>5 DEF Abstract!Next
<1>5. CASE MayPress # {} /\ ~armed
  <2> DEFINE r == StartArm(room, question, MayPress)
  <2>1. sub' = "buttonWait" /\ armed' = TRUE /\ room' = WithoutPlayer(r, p)
    BY <1>5 DEF ContentFinished
  <2>2. /\ r \in Rooms /\ Watched(r) /\ r.arm # NoArm /\ r.arm.pressed = {}
        /\ r.arm.eligible \subseteq connected'
    BY <1>2, NewArm
  <2> HIDE DEF r
  <2>3. SameArm(room', r) /\ Seated'
    BY <2>1, <2>2, WithoutPlayerKeeps, GoneIsOut DEF Seated
  <2>4. /\ ButtonPhase = "reading" /\ ButtonPhase' = "lit"
        /\ Racing' = {} /\ Answering' = NoPlayer
        /\ May' = May /\ May' = canPress'
    BY <1>1, <1>2, <1>5, <2>1, <2>2, <2>3 DEF Looks, SameArm, arm, InQuestion
  <2>5. Abstract!SomebodyLeft BY <1>5, <2>4 DEF Abstract!SomebodyLeft, MayPress
  <2>6. Abstract!Open BY <1>2, <2>4, <2>5 DEF Abstract!Open, Abstract!Lit
  <2> QED BY <2>3, <2>6 DEF Abstract!Next
<1> QED BY <1>3, <1>4, <1>5

LEMMA PassSeen ==
    ASSUME IInv, IInv', Seated, NEW p, Pass(p)
    PROVE  Abstract!Next /\ Seated'
<1>1. Looks /\ Looks' BY LooksHold, LooksNext
<1>2. /\ sub \in {"content", "buttonWait"} /\ ~paused /\ p \in canPress \intersect connected
      /\ canPress' = canPress \ {p} /\ question' = question /\ connected' = connected
      /\ room \in Rooms /\ question \in 1 .. MaxQuestions /\ MayPress \in SUBSET Players
  BY BoundAssumption DEF Pass, Reading, IInv, Plain, InQuestion, Sound, MayPress, persons
<1>3. May = canPress BY <1>1, <1>2 DEF Looks, InQuestion
<1>4. CASE MayPress = {} /\ sub = "buttonWait"
  <2>1. ShowAnswer(NoPlayer) /\ Leaving(NoPlayer) BY <1>2, <1>4 DEF Pass, Leaving
  <2> QED BY <1>2, <2>1, ShowAnswerSeen
<1>5. CASE ~(MayPress = {} /\ sub = "buttonWait")
  <2>1. /\ sub' = sub /\ armed' = (armed /\ MayPress # {})
        /\ ~armed => room' = room
        /\ armed /\ MayPress = {} => room' = CloseArm(room)
        /\ armed /\ MayPress # {} => room' = StartArm(room, question, MayPress)
    BY <1>5 DEF Pass
  <2>2. May' = May \ {p} BY <1>1, <1>2, <1>3, <2>1 DEF Looks, InQuestion
  <2>3. Abstract!SomebodyLeft <=> MayPress # {}
    BY <1>2, <1>3, <2>2 DEF Abstract!SomebodyLeft, MayPress
  <2>4. CASE armed /\ MayPress # {}
    <3>1. arm' # NoArm /\ arm'.pressed = {} /\ Seated'
      BY <1>2, <2>1, <2>4, NewArm DEF arm, Seated
    <3>2. /\ ButtonPhase \in {"lit", "dark"} /\ ButtonPhase' = "lit"
          /\ Racing' = {} /\ Answering' = NoPlayer
      BY <1>1, <1>2, <2>1, <2>4, <3>1 DEF Looks, InQuestion
    <3>3. Abstract!Pass BY <1>2, <1>3, <2>4, <2>2, <2>3, <3>2 DEF Abstract!Pass, Abstract!Lit
    <3> QED BY <3>1, <3>3 DEF Abstract!Next
  <2>5. CASE ~(armed /\ MayPress # {})
    <3>1. Seated' BY <1>2, <2>1, <2>5, NoArmLeft DEF Seated
    <3>2. /\ ButtonPhase \in {"reading", "lit", "dark"}
          /\ ButtonPhase = "reading" \/ MayPress = {}
          /\ ButtonPhase' = "reading" /\ Racing' = {} /\ Answering' = Answering
      BY <1>1, <1>2, <2>1, <2>5 DEF Looks, InQuestion
    <3>3. Abstract!Pass BY <1>2, <1>3, <2>2, <2>3, <3>2 DEF Abstract!Pass
    <3> QED BY <3>1, <3>3 DEF Abstract!Next
  <2> QED BY <2>4, <2>5
<1> QED BY <1>4, <1>5

LEMMA VerdictSeen ==
    ASSUME IInv, IInv', Seated, NEW right \in BOOLEAN, Verdict(right)
    PROVE  Abstract!Next /\ Seated'
<1>1. Looks /\ Looks' BY LooksHold, LooksNext
<1>2. /\ sub = "answering" /\ ~paused /\ UNCHANGED <<question, canPress>> /\ connected' = connected
      /\ room \in Rooms /\ question \in 1 .. MaxQuestions /\ MayPress \in SUBSET Players
  BY BoundAssumption DEF Verdict, IInv, Plain, InQuestion, Sound, MayPress, persons
<1>3. CASE right \/ MayPress = {}
  <2>1. ShowAnswer(NoPlayer) /\ Leaving(NoPlayer) BY <1>2, <1>3 DEF Verdict, Leaving
  <2> QED BY <1>2, <2>1, ShowAnswerSeen
<1>4. CASE ~(right \/ MayPress = {})
  <2>1. /\ sub' \in {"buttonWait", "content"} /\ armed' = TRUE
        /\ room' = StartArm(room, question, MayPress)
    BY <1>4 DEF Verdict
  <2>2. arm' # NoArm /\ arm'.pressed = {} /\ Seated' BY <1>2, <2>1, NewArm DEF arm, Seated
  <2>3. /\ ButtonPhase = "answering" /\ ButtonPhase' = "lit"
        /\ Racing' = {} /\ Answering' = NoPlayer /\ May' = May /\ May' = canPress'
    BY <1>1, <1>2, <2>1, <2>2 DEF Looks, InQuestion
  <2>4. Abstract!SomebodyLeft BY <1>4, <2>3 DEF Abstract!SomebodyLeft, MayPress
  <2>5. Abstract!Retry BY <1>2, <2>3, <2>4 DEF Abstract!Retry, Abstract!Lit
  <2> QED BY <2>2, <2>5 DEF Abstract!Next
<1> QED BY <1>3, <1>4

\* A question that ends, by itself or by the showman, or is not there any more.
LEMMA EndSeen ==
    ASSUME IInv, IInv', Seated, sub' \in {"none", "roundEnd"}, question' = question,
           connected' = connected, room' \in {room, CloseArm(room)}
    PROVE  Abstract!Next /\ Seated'
<1>1. Looks /\ Looks' BY LooksHold, LooksNext
<1>2. ButtonPhase' = "idle" /\ Racing' = {} /\ Answering' = NoPlayer /\ May' = {}
  BY <1>1 DEF Looks, InQuestion
<1>3. Seated' BY RoomFacts, NoArmLeft DEF Seated
<1>4. CASE InQuestion
  <2>1. ButtonPhase # "idle" BY <1>1, <1>4 DEF Looks
  <2>2. Abstract!End BY <1>2, <2>1 DEF Abstract!End
  <2> QED BY <1>3, <2>2 DEF Abstract!Next
<1>5. CASE ~InQuestion
  <2>1. ButtonPhase = "idle" /\ Racing = {} /\ Answering = NoPlayer /\ May = {}
    BY <1>1, <1>5 DEF Looks
  <2>2. Abstract!Environment BY <1>2, <2>1 DEF Abstract!Environment
  <2> QED BY <1>3, <2>2 DEF Abstract!Next
<1> QED BY <1>4, <1>5

LEMMA EngineSeen ==
    ASSUME IInv, IInv', Seated, EngineStep
    PROVE  Abstract!Next /\ Seated'
<1>1. ASSUME NEW open \in BOOLEAN, StartQuestion(open) PROVE Abstract!Next /\ Seated'
  BY <1>1, StartQuestionSeen
<1>2. CASE ContentOver
  <2>1. ContentFinished(NoPlayer) /\ Leaving(NoPlayer) BY <1>2 DEF ContentOver, Leaving, persons
  <2> QED BY <2>1, ContentFinishedSeen
<1>3. CASE TimeoutButtonPressing
  <2>1. /\ ShowAnswer(NoPlayer) /\ Leaving(NoPlayer) /\ sub = "buttonWait"
        /\ question' = question /\ canPress' = canPress
    BY <1>3 DEF TimeoutButtonPressing, Leaving, persons
  <2> QED BY <2>1, ShowAnswerSeen
<1>4. ASSUME NEW p \in Players, Pass(p) PROVE Abstract!Next /\ Seated'
  BY <1>4, PassSeen
<1>5. ASSUME NEW right \in BOOLEAN, Verdict(right) PROVE Abstract!Next /\ Seated'
  BY <1>5, VerdictSeen
<1>6. CASE ReflectionOver
  BY <1>6, EndSeen DEF ReflectionOver, EndQuestion, persons
<1> QED BY <1>1, <1>2, <1>3, <1>4, <1>5, <1>6 DEF EngineStep

LEMMA ControlSeen ==
    ASSUME IInv, IInv', Seated, ControlStep
    PROVE  Abstract!Next /\ Seated'
<1>1. ASSUME NEW on \in BOOLEAN, Pause(on) PROVE Abstract!Next /\ Seated'
  <2>1. UNCHANGED game /\ SameArm(room', room) /\ Seated'
    BY <1>1, RoomFacts DEF Pause, persons, Seated
  <2> QED BY <2>1, NothingSeen
<1>2. ASSUME NEW forward \in BOOLEAN, Move(forward) PROVE Abstract!Next /\ Seated'
  <2>1. InQuestion /\ connected' = connected BY <1>2 DEF Move, persons
  <2>2. CASE forward /\ sub # "reveal"
    <3>1. /\ ShowAnswer(NoPlayer) /\ Leaving(NoPlayer) /\ question' = question /\ canPress' = canPress
      BY <1>2, <2>1, <2>2 DEF Move, Leaving
    <3>2. sub \in {"content", "buttonWait", "answering"} BY <2>1, <2>2 DEF IInv, Plain, InQuestion
    <3> QED BY <3>1, <3>2, ShowAnswerSeen
  <2>3. CASE ~(forward /\ sub # "reveal")
    BY <1>2, <2>1, <2>3, EndSeen DEF Move, EndQuestion
  <2> QED BY <2>2, <2>3
<1>3. CASE LeaveRound \/ \E managed \in BOOLEAN : MoveEndRound(managed)
  BY <1>3, EndSeen DEF LeaveRound, MoveEndRound, Forget, persons
<1>4. CASE ReopenButton
  <2>1. /\ armed /\ InQuestion /\ UNCHANGED <<game, paused, persons>>
        /\ room' = StartArm(room, question, MayPress)
    BY <1>4 DEF ReopenButton
  <2>2. /\ Looks /\ Looks' /\ sub \in {"content", "buttonWait"}
        /\ room \in Rooms /\ question \in 1 .. MaxQuestions /\ MayPress \in SUBSET Players
    BY <2>1, LooksHold, LooksNext, BoundAssumption DEF IInv, Plain, InQuestion, Sound, MayPress, game
  <2>3. arm' # NoArm /\ arm'.pressed = {} /\ Seated' BY <2>1, <2>2, NewArm DEF arm, Seated
  <2>4. /\ ButtonPhase \in {"lit", "dark"} /\ ButtonPhase' = "lit"
        /\ Racing' = {} /\ Answering' = NoPlayer
    BY <2>1, <2>2, <2>3 DEF Looks, game
  <2>5. May' = May BY <2>1 DEF May, InQuestion, game
  <2>6. Abstract!Again BY <2>1, <2>4, <2>5 DEF Abstract!Again, Abstract!Lit, game
  <2> QED BY <2>3, <2>6 DEF Abstract!Next
<1> QED BY <1>1, <1>2, <1>3, <1>4 DEF ControlStep

\* A press of a race is one more in it; one of an arm the engine does not wait for
\* any more is not seen.
LEMMA PressSeen ==
    ASSUME IInv, IInv', Seated, NEW p \in Players, Press(p)
    PROVE  Abstract!Next /\ Seated'
<1> DEFINE a == [arm EXCEPT !.pressed = @ \union {p}, !.phase = "collecting"]
<1>1. /\ p \in arm.eligible /\ p \notin arm.pressed /\ UNCHANGED <<game, paused, persons>>
      /\ room' = [room EXCEPT !.arm = a, !.due = Waiting(a) = {}, !.timer = TRUE]
  BY DEF Press, Waiting
<1>2. arm \in Arms
  <2>1. arm \in Arms \union {NoArm} BY RoomFacts DEF Rooms, arm
  <2> QED BY <1>1, <2>1 DEF NoArm
<1>3. a \in Arms /\ a.eligible = arm.eligible /\ a.pressed = arm.pressed \union {p}
  BY <1>2 DEF Arms, Phases
<1> HIDE DEF a
<1>4. arm' = a BY <1>1, <1>3, RoomFacts DEF Rooms, arm
<1>5. arm # NoArm /\ arm' # NoArm BY <1>2, <1>3, <1>4, RealArm
<1>6. Seated' BY <1>1, <1>3, <1>4 DEF Seated, arm, persons
<1>7. Looks /\ Looks' BY LooksHold, LooksNext
<1>8. May' = May /\ InQuestion' = InQuestion BY <1>1 DEF May, InQuestion, game
<1>9. CASE armed
  <2>1. InQuestion /\ May = canPress BY <1>2, <1>7, <1>9, ArmedIsAsked DEF Looks
  <2>2. ButtonPhase = "lit" /\ Racing = arm.pressed BY <1>5, <1>7, <1>9, <2>1 DEF Looks, InQuestion
  <2>3. ButtonPhase' = "lit" /\ Racing' = Racing \union {p} /\ Answering' = Answering
    BY <1>1, <1>3, <1>4, <1>5, <1>7, <1>9, <2>1, <2>2 DEF Looks, InQuestion, game
  <2>4. p \in (May \intersect connected) \ Racing
    BY <1>1, <1>9, <2>1, <2>2 DEF Seated, IInv, Sound, arm
  <2>5. Abstract!Press BY <1>1, <1>8, <2>2, <2>3, <2>4 DEF Abstract!Press, game
  <2> QED BY <1>6, <2>5 DEF Abstract!Next
<1>10. CASE ~armed
  <2>1. ButtonPhase' = ButtonPhase /\ Answering' = Answering
    BY <1>1, <1>10 DEF ButtonPhase, InQuestion, Reading, Answering, game
  <2>2. ButtonPhase # "lit" BY <1>7, <1>10 DEF Looks, InQuestion
  <2>3. Racing' = Racing BY <2>1, <2>2 DEF Racing
  <2>4. Abstract!Environment BY <1>1, <1>8, <2>1, <2>3 DEF Abstract!Environment, game
  <2> QED BY <1>6, <2>4 DEF Abstract!Next
<1> QED BY <1>9, <1>10

LEMMA PlayerSeen ==
    ASSUME IInv, IInv', Seated, PlayerStep
    PROVE  Abstract!Next /\ Seated'
<1>1. /\ SameArm(room, room) /\ SameArm(ScheduleResolve(room), room)
      /\ room \in Rooms /\ Watched(room)
  BY RoomFacts, ScheduleResolveKeeps DEF Watched
<1>2. ASSUME UNCHANGED game, SameArm(room', room), connected \subseteq connected'
      PROVE  Abstract!Next /\ Seated'
  BY <1>2, NothingSeen DEF Seated, SameArm
<1>3. CASE PressRefused BY <1>1, <1>2, <1>3 DEF PressRefused, persons
<1>4. ASSUME NEW p \in Players, FalseStart(p) \/ Misfire(p) \/ LockoutOver(p)
      PROVE  Abstract!Next /\ Seated'
  BY <1>1, <1>2, <1>4 DEF FalseStart, Misfire, LockoutOver
<1>5. ASSUME NEW p \in Players, Press(p) PROVE Abstract!Next /\ Seated'
  BY <1>5, PressSeen
<1>6. ASSUME NEW p \in Players, Detach(p) PROVE Abstract!Next /\ Seated'
  <2>1. connected' = connected \ {p} /\ p # NoPlayer BY <1>6, PlayersAssumption DEF Detach
  <2>2. CASE room' = WithoutPlayer(room, p) /\ UNCHANGED game
    <3>1. SameArm(room', room) BY <1>1, <2>2, WithoutPlayerKeeps
    <3>2. Seated' BY <1>1, <2>1, <2>2, GoneIsOut DEF Seated
    <3> QED BY <2>2, <3>1, <3>2, NothingSeen
  <2>3. CASE ContentFinished(p)
    BY <2>1, <2>3, ContentFinishedSeen DEF Leaving
  <2> QED BY <1>6, <2>2, <2>3 DEF Detach
<1>7. ASSUME NEW p \in Players, Attach(p) PROVE Abstract!Next /\ Seated'
  <2>1. SameArm(SetIneligible(room, p), room) BY <1>1, SetIneligibleKeeps
  <2> QED BY <1>2, <1>7, <2>1 DEF Attach
<1> QED BY <1>3, <1>4, <1>5, <1>6, <1>7 DEF PlayerStep

\* A decision of the arm: somebody wins, it is opened anew, the answer is shown,
\* or the engine refuses it.
LEMMA ResolveSeen ==
    ASSUME IInv, IInv', Seated, Resolve
    PROVE  Abstract!Next /\ Seated'
<1> DEFINE r == [room EXCEPT !.mailbox = @ \ {"current"}]
           d == [r EXCEPT !.arm.phase = "draining", !.due = FALSE]
<1>1. /\ "current" \in room.mailbox /\ UNCHANGED <<paused, persons>> /\ connected' = connected
  BY DEF Resolve, persons
<1>2. r \in Rooms /\ r.arm = arm /\ arm \in Arms /\ arm # NoArm /\ "current" \notin r.mailbox
  BY <1>1, Served, RealArm
<1>3. /\ Looks /\ Looks'
      /\ armed => InQuestion /\ May = canPress /\ sub \in {"content", "buttonWait"}
  BY <1>2, LooksHold, LooksNext, ArmedIsAsked DEF Looks
<1>4. UNCHANGED game => May' = May /\ InQuestion' = InQuestion BY DEF May, InQuestion, game
<1>5. ASSUME UNCHANGED game, SameArm(room', room) PROVE Abstract!Next /\ Seated'
  BY <1>1, <1>5, NothingSeen DEF Seated, SameArm
<1>6. ASSUME UNCHANGED game, arm' = NoArm, Seated', armed => paused \/ arm.pressed \ connected # {}
      PROVE  Abstract!Next
  <2>1. CASE armed
    <3>1. ButtonPhase = "lit" /\ Racing = arm.pressed BY <1>2, <1>3, <2>1 DEF Looks
    <3>2. ButtonPhase' = "dark" /\ Racing' = {} /\ Answering' = Answering
      BY <1>3, <1>6, <1>4, <2>1 DEF Looks, game
    <3>3. Abstract!GoDark BY <1>6, <1>4, <2>1, <3>1, <3>2 DEF Abstract!GoDark, game
    <3> QED BY <3>3 DEF Abstract!Next
  <2>2. CASE ~armed
    <3>1. ButtonPhase' = ButtonPhase /\ Answering' = Answering
      BY <1>6, <2>2 DEF ButtonPhase, InQuestion, Reading, Answering, game
    <3>2. ButtonPhase # "lit" BY <1>3, <2>2 DEF Looks, InQuestion
    <3>3. Racing' = Racing BY <3>1, <3>2 DEF Racing
    <3>4. Abstract!Environment BY <1>6, <1>4, <3>1, <3>3 DEF Abstract!Environment, game
    <3> QED BY <3>4 DEF Abstract!Next
  <2> QED BY <2>1, <2>2
<1>7. CASE ~r.due /\ room' = ScheduleResolve(r) /\ UNCHANGED game
  <2> HIDE DEF r
  <2>1. room'.arm = arm BY <1>2, <1>7, ScheduleResolveKeeps
  <2>2. SameArm(room', room) BY <2>1 DEF SameArm, arm
  <2> QED BY <1>5, <1>7, <2>2
<1>8. CASE room' = ScheduleResolve(d) /\ UNCHANGED game
  <2>1. d \in Rooms /\ d.arm \in Arms /\ d.arm.question = arm.question
        /\ d.arm.pressed = arm.pressed /\ d.arm.eligible = arm.eligible
    BY <1>2 DEF Rooms, Arms, Phases
  <2>2. d.arm # NoArm BY <2>1, RealArm
  <2> HIDE DEF d
  <2>3. room'.arm = d.arm BY <1>8, <2>1, <2>2, ScheduleResolveKeeps
  <2>4. SameArm(room', room) BY <1>2, <2>1, <2>2, <2>3 DEF SameArm, arm
  <2> QED BY <1>5, <1>8, <2>4
<1>9. CASE Nobody(r)
  <2> HIDE DEF r
  <2>1. CASE Decides /\ sub = "content"
    <3>1. UNCHANGED game /\ room' = StartArm(r, arm.question, MayPress) BY <1>9, <2>1 DEF Nobody
    <3>2. arm.question \in 1 .. MaxQuestions /\ MayPress \in SUBSET Players
      BY <1>2, <3>1 DEF Arms, IInv, Plain, MayPress, game
    <3>3. arm' # NoArm /\ arm'.pressed = {} /\ Seated'
      BY <1>2, <3>1, <3>2, NewArm DEF arm, Seated
    <3>4. ButtonPhase = "lit" /\ ButtonPhase' = "lit" /\ Racing' = {} /\ Answering' = NoPlayer
      BY <1>2, <1>3, <1>4, <2>1, <3>1, <3>3 DEF Looks, Decides, game
    <3>5. Abstract!Again BY <1>4, <3>1, <3>4 DEF Abstract!Again, Abstract!Lit, game
    <3> QED BY <3>3, <3>5 DEF Abstract!Next
  <2>2. CASE ~(Decides /\ sub = "content")
    <3>1. room' = CloseArm(r) BY <1>9, <2>2 DEF Nobody
    <3>2. arm' = NoArm /\ Seated' BY <1>2, <3>1, NoArmLeft DEF arm, Seated
    <3>3. CASE Decides
      <4>1. sub' = "reveal" /\ UNCHANGED <<question, canPress>> BY <1>9, <2>2, <3>3 DEF Nobody
      <4>2. ButtonPhase = "lit" BY <1>2, <1>3, <3>3 DEF Looks, Decides
      <4>3. ButtonPhase' = "shown" /\ Racing' = {} /\ Answering' = NoPlayer /\ May' = May
        BY <1>3, <3>3, <4>1 DEF Looks, Decides, InQuestion
      <4>4. Abstract!Show BY <4>1, <4>2, <4>3 DEF Abstract!Show
      <4> QED BY <3>2, <4>4 DEF Abstract!Next
    <3>4. CASE ~Decides
      <4>1. UNCHANGED game BY <1>9, <2>2, <3>4 DEF Nobody
      <4>2. armed => paused BY <1>3, <3>4 DEF Decides
      <4> QED BY <1>6, <3>2, <4>1, <4>2
    <3> QED BY <3>3, <3>4
  <2> QED BY <2>1, <2>2
<1>10. CASE \E p \in arm.pressed : Winner(p, r)
  <2>1. PICK p \in arm.pressed : Winner(p, r) BY <1>10
  <2> HIDE DEF r
  <2>2. room' = CloseArm(r) BY <2>1 DEF Winner
  <2>3. arm' = NoArm /\ Seated' BY <1>2, <2>2, NoArmLeft DEF arm, Seated
  <2>4. CASE Decides /\ p \in canPress \intersect connected
    <3>1. /\ sub' = "answering" /\ answerer' = p /\ canPress' = canPress \ {p}
          /\ question' = question
      BY <2>1, <2>4 DEF Winner
    <3>2. ButtonPhase = "lit" /\ Racing = arm.pressed BY <1>2, <1>3, <2>4 DEF Looks, Decides
    <3>3. ButtonPhase' = "answering" /\ Racing' = {} /\ Answering' = p /\ May' = May \ {p}
      BY <1>3, <2>4, <3>1 DEF Looks, Decides, InQuestion
    <3>4. May = canPress /\ ~paused BY <1>3, <2>4 DEF Decides
    <3>5. Abstract!Win BY <2>4, <3>4, <3>1, <3>2, <3>3 DEF Abstract!Win
    <3> QED BY <2>3, <3>5 DEF Abstract!Next
  <2>5. CASE ~(Decides /\ p \in canPress \intersect connected)
    <3>1. UNCHANGED game BY <2>1, <2>5 DEF Winner
    <3>2. armed => p \in canPress BY DEF IInv, Sound, arm
    <3>3. armed => paused \/ arm.pressed \ connected # {}
      BY <1>3, <2>5, <3>2 DEF Decides
    <3> QED BY <1>6, <2>3, <3>1, <3>3
  <2> QED BY <2>4, <2>5
<1> QED BY <1>7, <1>8, <1>9, <1>10 DEF Resolve

LEMMA NextSeen ==
    ASSUME IInv, IInv', Seated, Next
    PROVE  Abstract!Next /\ Seated'
<1>1. CASE Elapse \/ Fire \/ ResolveFormer
  <2>1. UNCHANGED game /\ connected' = connected /\ SameArm(room', room)
    BY <1>1, RoomFacts DEF Elapse, Fire, ResolveFormer, Rooms, SameArm, persons
  <2> QED BY <2>1, NothingSeen DEF Seated, SameArm
<1> QED BY <1>1, EngineSeen, ControlSeen, PlayerSeen, ResolveSeen DEF Next

\* RoomButton implements Button: whatever the players, the sockets, the showman
\* and the timers do to the arm of the room, a press is taken from players at the
\* table who have not passed or answered yet, one of those who pressed wins at
\* most, nobody wins twice in a question, and the button goes dark only by a
\* decision that came in a pause or after a presser had left (buzzer.go: startArm,
\* onPress, onArmResolve, finishArm; question.go: onButtonResult, onPass).
THEOREM RacesAreAlwaysFair == Spec => RacesAreFair
<1>1. Init => Abstract!Init /\ Seated
  <2> SUFFICES ASSUME Init PROVE Abstract!Init /\ Seated
    OBVIOUS
  <2>1. Looks BY InitSound, LooksHold
  <2> QED BY <2>1 DEF Init, InQuestion, Looks, Abstract!Init, Seated, NoRoom, NoArm
<1>2. IInv /\ IInv' /\ Seated /\ [Next]_vars => [Abstract!Next]_(Abstract!vars) /\ Seated'
  <2>1. IInv /\ IInv' /\ Seated /\ Next => Abstract!Next /\ Seated'
    BY NextSeen
  <2>2. Seated /\ UNCHANGED vars => UNCHANGED Abstract!vars /\ Seated'
    BY DEF vars, game, persons, Seated, arm, Abstract!vars, ButtonPhase, InQuestion, Reading,
           Racing, Answering, May
  <2> QED BY <2>1, <2>2
<1> QED BY <1>1, <1>2, Inductive, PTL DEF Spec, RacesAreFair, Abstract!Spec
=============================================================================
