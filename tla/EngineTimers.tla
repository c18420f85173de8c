---------------------------- MODULE EngineTimers ----------------------------
(***************************************************************************)
(* The timers of the engine (internal/engine/engine.go, "timers").         *)
(*                                                                         *)
(* State.Timers is a list with at most one timer of each kind, because     *)
(* startTimer first stops the timer of the same kind.  It is modelled as a *)
(* function from kinds to a status:                                        *)
(*   "off"     no timer of the kind is in the list;                        *)
(*   "run"     it runs: ~Paused;                                           *)
(*   "held"    Paused /\ ~Frozen, the showman's PAUSE holds it;            *)
(*   "frozen"  Paused /\ Frozen, the game logic holds it (a button win, an *)
(*             appeal) and a showman's resume leaves it alone.             *)
(* The durations are left out; a module that needs a remaining time keeps  *)
(* it beside the timers.                                                   *)
(***************************************************************************)
TimerStatus == {"off", "run", "held", "frozen"}

\* A timer just started or resumed: it is held at once if the game is paused.
Live(on) == IF on THEN "held" ELSE "run"

StartTimer(ts, kind, on) == [ts EXCEPT ![kind] = Live(on)]

StopKind(ts, kind) == [ts EXCEPT ![kind] = "off"]

\* stopKind for every kind of a set.
StopKinds(ts, kinds) == [k \in DOMAIN ts |-> IF k \in kinds THEN "off" ELSE ts[k]]

\* stopAllExcept.
StopAllExcept(ts, kept) == [k \in DOMAIN ts |-> IF k \in kept THEN ts[k] ELSE "off"]

\* pauseTimer: by the game logic.
FreezeKinds(ts, kinds) ==
    [k \in DOMAIN ts |-> IF k \in kinds /\ ts[k] # "off" THEN "frozen" ELSE ts[k]]

\* resumeTimer: whoever holds the timer, and whether the game is paused or not.
ResumeKinds(ts, kinds) ==
    [k \in DOMAIN ts |-> IF k \in kinds /\ ts[k] # "off" THEN "run" ELSE ts[k]]

\* pauseAllTimers: the showman's PAUSE.
HoldAll(ts) == [k \in DOMAIN ts |-> IF ts[k] = "run" THEN "held" ELSE ts[k]]

\* resumeAllTimers: the frozen ones are not resumed.
ReleaseAll(ts) == [k \in DOMAIN ts |-> IF ts[k] = "held" THEN "run" ELSE ts[k]]
=============================================================================
