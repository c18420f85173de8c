---------------------------- MODULE StakeAuction ----------------------------
(***************************************************************************)
(* The auction of a stake question (internal/engine/stake.go): who bids    *)
(* next, what may be bid, who passes, and how the auction ends, with the   *)
(* showman's tie decisions, early passes, timeouts, pauses, disconnects    *)
(* and score corrections.                                                  *)
(*                                                                         *)
(* The auction is one record: the StakeState of the code, the pending tie, *)
(* the two timers and the outcome.  The functions of the code that call    *)
(* each other (stakeAskBid, stakeApply, stakeSetPass, stakeAdvance) are    *)
(* operators from auction to auction.  The module ends where the content   *)
(* of the question begins.                                                 *)
(***************************************************************************)
EXTENDS Naturals, Integers, Sequences, FiniteSets, EngineTimers

CONSTANTS
    Players,    \* the seats at the table
    NoPlayer,   \* the empty person id
    Scores,     \* the scores players may have
    Amounts,    \* the amounts a SET_STAKE may name
    Nominal,    \* the price of the cell
    Step,       \* stakeStep: bids rise by multiples of it
    MaxEdits    \* BOUND: CHANGE_SCORE commands

ASSUME PlayersAssumption == NoPlayer \notin Players /\ IsFiniteSet(Players)
ASSUME PriceAssumption == Nominal \in Nat /\ Step \in Nat \ {0}
ASSUME ScoresAssumption == Scores \cup Amounts \subseteq Int /\ MaxEdits \in Nat

Modes == {"nominal", "stake", "allIn", "pass"}
Kinds == {"stakeMaking", "showmanDecision"}

VARIABLES
    auction,    \* the auction
    scores,     \* Player.Score
    connected,  \* the active players
    paused,     \* State.Paused
    edits       \* CHANGE_SCORE commands so far

vars == <<auction, scores, connected, paused, edits>>

Auctions ==
    [sub : {"announcing", "stakes", "content", "reveal"},  \* QuestionState.Sub
     participants : SUBSET Players, active : SUBSET Players, hasBid : SUBSET Players,
     allIn : SUBSET Players, order : Seq(Players),
     current : Players \union {NoPlayer}, leader : Players \union {NoPlayer},
     stake : Int, modes : SUBSET Modes, min : Int, max : Int,
     tie : SUBSET Players,                                 \* State.Pending: its candidates
     answerer : Players \union {NoPlayer},
     timers : [Kinds -> TimerStatus]]
-----------------------------------------------------------------------------
(* From auction to auction.                                                *)

RoundUp(v) == IF v % Step = 0 THEN v ELSE (v \div Step + 1) * Step

\* stakeMarkPass.
MarkPass(a, p) == [a EXCEPT !.active = @ \ {p}, !.hasBid = @ \union {p}]

\* stakeWinner, up to the content.  A decision timer is left alone.
Won(a) == [a EXCEPT !.sub = "content", !.answerer = a.leader, !.tie = {},
                    !.timers = StopKind(@, "stakeMaking")]

\* showAnswer: nobody bids.
Reveal(a) == [a EXCEPT !.sub = "reveal", !.tie = {}, !.timers = [k \in Kinds |-> "off"]]

\* What a bid does to the bidder and, by passing them, to those who cannot pay.
Bid(a, p, mode, amount) ==
    LET sum == CASE mode = "nominal" -> Nominal [] mode = "allIn" -> scores[p] [] OTHER -> amount
        poor == {o \in a.active \ {p} : scores[o] <= sum}
    IN  [a EXCEPT !.stake = sum, !.leader = p,
                  !.allIn = IF mode = "allIn" THEN @ \union {p} ELSE @,
                  !.hasBid = @ \union {p} \union poor,
                  !.active = @ \ poor,
                  !.timers = StopKind(@, "stakeMaking")]

\* The beginning of stakeAskBid.
TurnTo(a, p) ==
    [a EXCEPT !.current = p, !.tie = {},
              !.order = IF p \in a.hasBid \/ \E i \in DOMAIN @ : @[i] = p THEN @ ELSE Append(@, p)]

\* Mutant of Offer: a raise by any amount.
OfferAnyRaise(a, p) ==
    [a EXCEPT !.modes = {"pass", "stake", "allIn"}, !.min = Nominal, !.max = scores[p],
              !.timers = StartTimer(@, "stakeMaking", paused)]

\* Its end: what the bidder may do, and the timer.
Offer(a, p) ==
    LET least == RoundUp(a.stake + Step)
        opening == [a EXCEPT !.modes = {"nominal", "allIn"}
                                       \union (IF scores[p] > Nominal THEN {"stake"} ELSE {}),
                             !.min = Nominal]
        raising == [a EXCEPT !.modes = {"pass", "allIn"}
                                       \union (IF a.allIn = {} /\ least <= scores[p] THEN {"stake"} ELSE {}),
                             !.min = least]
        offer == IF a.stake = 0 THEN opening ELSE raising
    IN  [offer EXCEPT !.max = scores[p], !.timers = StartTimer(@, "stakeMaking", paused)]

\* Whose turn it may be next: among those who have not bid, the lowest scores;
\* then, in the order of the first bids, the first after the current bidder who
\* is still bidding and is not the leader.
Bidders(a) ==
    LET unbid == a.active \ a.hasBid
        lowest == {p \in unbid : \A o \in unbid : scores[p] <= scores[o]}
        n == Len(a.order)
        start == IF \E i \in DOMAIN a.order : a.order[i] = a.current
                 THEN CHOOSE i \in DOMAIN a.order : a.order[i] = a.current ELSE 1
        at(i) == a.order[((start + i - 1) % n) + 1]
        able == {i \in 1..n : at(i) \in a.active /\ at(i) # a.leader}
    IN  IF unbid # {} THEN lowest
        ELSE {at(i) : i \in {j \in able : \A o \in able : j <= o}}

\* Mutant of Over: the auction goes to the leader while another still bids.
OverTooSoon(a) == a.active = {} \/ a.leader \in a.active

\* Nobody, or nobody but the leader, is bidding.
Over(a) == a.active = {} \/ a.active = {a.leader}

\* stakeAdvance, Ask standing for stakeAskBid.  A tie is put to the showman.
AdvanceBy(a, Ask(_, _)) ==
    CASE (Over(a) \/ Bidders(a) = {}) /\ a.leader = NoPlayer -> Reveal(a)
      [] (Over(a) \/ Bidders(a) = {}) /\ a.leader # NoPlayer -> Won(a)
      [] ~Over(a) /\ Cardinality(Bidders(a)) = 1 -> Ask(a, CHOOSE o \in Bidders(a) : TRUE)
      [] ~Over(a) /\ Cardinality(Bidders(a)) > 1 ->
             [a EXCEPT !.tie = Bidders(a), !.timers = StartTimer(@, "showmanDecision", paused)]

\* stakeAskBid of the player on the auction, both the argument: the bidder is
\* asked; or passed for lack of money, or bound to bid the nominal price, and
\* then the auction goes on.
AskBid[x \in Auctions \X Players] ==
    LET p == x[2]
        a == TurnTo(x[1], p)
        advance(b) == AdvanceBy(b, LAMBDA c, o : AskBid[<<c, o>>])
        broke == a.stake > 0 /\ scores[p] <= a.stake
        bound == a.stake = 0 /\ (scores[p] < Nominal \/ Cardinality(a.participants) = 1)
    IN  CASE broke /\ p \in a.active ->
                 advance([MarkPass(a, p) EXCEPT !.timers = StopKind(@, "stakeMaking")])
          [] broke /\ p \notin a.active -> a
          [] bound -> advance(Bid(a, p, "nominal", Nominal))
          [] OTHER -> Offer(a, p)

Advance(a) == AdvanceBy(a, LAMBDA c, o : AskBid[<<c, o>>])

\* Mutant of SetPass: an early pass stops the bidder's clock.
SetPassClockStopped(a, p) ==
    LET b == [MarkPass(a, p) EXCEPT !.timers = StopKind(@, "stakeMaking")]
    IN  CASE p \notin a.active -> a
          [] p \in a.active /\ a.current = p -> Advance(b)
          [] OTHER -> IF b.active = {b.leader} THEN Won(b) ELSE b

\* stakeSetPass.
SetPass(a, p) ==
    LET b == MarkPass(a, p)
    IN  CASE p \notin a.active -> a
          [] p \in a.active /\ a.current = p ->
                 Advance([b EXCEPT !.timers = StopKind(@, "stakeMaking")])
          [] OTHER -> IF b.active = {b.leader} THEN Won(b) ELSE b
-----------------------------------------------------------------------------
(* The commands.                                                           *)

Bidding == auction.sub = "stakes"

\* stakeBegin, the chooser given: those who can afford more than the price, and
\* the chooser, take part.
Begin(chooser) ==
    /\ auction.sub = "announcing" /\ chooser \in connected
    /\ LET part == {p \in connected : p = chooser \/ scores[p] > Nominal}
           a == [auction EXCEPT !.sub = "stakes", !.participants = part, !.active = part]
       IN  auction' = AskBid[<<a, chooser>>]
    /\ UNCHANGED <<scores, connected, paused, edits>>

\* stakeBegin with nobody at the table.
BeginAlone ==
    /\ auction.sub = "announcing" /\ connected = {}
    /\ auction' = Reveal(auction)
    /\ UNCHANGED <<scores, connected, paused, edits>>

\* SET_STAKE of the current bidder.  Whether a tie is pending is not checked.
SetStake(mode, amount) ==
    /\ Bidding /\ ~paused
    /\ mode \in auction.modes
    /\ mode = "stake" => /\ amount \in auction.min..auction.max
                         /\ (amount - auction.min) % Step = 0 \/ amount = auction.max
    /\ auction' = IF mode = "pass" THEN SetPass(auction, auction.current)
                  ELSE Advance(Bid(auction, auction.current, mode, amount))
    /\ UNCHANGED <<scores, connected, paused, edits>>

\* PASS, in turn or early.
Pass(p) ==
    /\ Bidding /\ ~paused
    /\ p \in auction.active
    /\ auction.leader # p
    /\ ~(auction.current = p /\ auction.stake = 0)
    /\ auction' = SetPass(auction, p)
    /\ UNCHANGED <<scores, connected, paused, edits>>

Expires(k) == auction.timers[k] = "run" /\ ~paused

\* resolvePending, by the showman's SELECT_PLAYER or at random.
ResolveTie(p) ==
    /\ Bidding /\ ~paused
    /\ p \in auction.tie
    /\ auction' = AskBid[<<[auction EXCEPT !.tie = {}, !.timers = StopKind(@, "showmanDecision")], p>>]
    /\ UNCHANGED <<scores, connected, paused, edits>>

TimeoutStakeMaking ==
    /\ Expires("stakeMaking")
    /\ LET a == [auction EXCEPT !.timers = StopKind(@, "stakeMaking")]
       IN  auction' = IF ~Bidding THEN a
                      ELSE IF "pass" \in a.modes THEN SetPass(a, a.current)
                      ELSE Advance(Bid(a, a.current, "nominal", Nominal))
    /\ UNCHANGED <<scores, connected, paused, edits>>

TimeoutShowmanDecision ==
    /\ Expires("showmanDecision")
    /\ IF Bidding /\ auction.tie # {}
       THEN \E p \in auction.tie : ResolveTie(p)
       ELSE /\ auction' = [auction EXCEPT !.timers = StopKind(@, "showmanDecision")]
            /\ UNCHANGED <<scores, connected, paused, edits>>

Pause(on) ==
    /\ Bidding /\ on # paused
    /\ paused' = on
    /\ auction' = [auction EXCEPT !.timers = IF on THEN HoldAll(@) ELSE ReleaseAll(@)]
    /\ UNCHANGED <<scores, connected, edits>>

\* PLAYER_LEFT or KICK, with playerGone.
PlayerLeft(p) ==
    /\ Bidding /\ p \in connected
    /\ connected' = connected \ {p}
    /\ auction' = IF p \in auction.active /\ auction.leader # p THEN SetPass(auction, p) ELSE auction
    /\ UNCHANGED <<scores, paused, edits>>

PlayerJoined(p) ==
    /\ Bidding /\ p \notin connected
    /\ connected' = connected \union {p}
    /\ UNCHANGED <<auction, scores, paused, edits>>

\* CHANGE_SCORE does not touch the auction.
ChangeScore(p, sum) ==
    /\ Bidding /\ edits < MaxEdits
    /\ scores' = [scores EXCEPT ![p] = sum]
    /\ edits' = edits + 1
    /\ UNCHANGED <<auction, connected, paused>>

\* MOVE 1: the answer is revealed.
MoveForward ==
    /\ Bidding
    /\ auction' = Reveal(auction)
    /\ UNCHANGED <<scores, connected, paused, edits>>
-----------------------------------------------------------------------------
Init ==
    /\ auction = [sub |-> "announcing", participants |-> {}, active |-> {}, hasBid |-> {},
                  allIn |-> {}, order |-> <<>>, current |-> NoPlayer, leader |-> NoPlayer,
                  stake |-> 0, modes |-> {}, min |-> 0, max |-> 0, tie |-> {},
                  answerer |-> NoPlayer, timers |-> [k \in Kinds |-> "off"]]
    /\ scores \in [Players -> Scores]
    /\ connected \in SUBSET Players
    /\ paused = FALSE /\ edits = 0

TimerStep == TimeoutStakeMaking \/ TimeoutShowmanDecision

Next ==
    \/ TimerStep
    \/ \E p \in Players : Begin(p) \/ Pass(p) \/ ResolveTie(p)
    \/ \E p \in Players : PlayerLeft(p) \/ PlayerJoined(p)
    \/ BeginAlone
    \/ \E mode \in Modes : \E amount \in Amounts : SetStake(mode, amount)
    \/ \E p \in Players, sum \in Scores : ChangeScore(p, sum)
    \/ \E on \in BOOLEAN : Pause(on)
    \/ MoveForward

Spec == Init /\ [][Next]_vars

\* A running timer gets to its end; a pause disables it without resetting it.
FairSpec == Spec /\ SF_vars(TimerStep)
-----------------------------------------------------------------------------
(* Properties.                                                             *)

TypeOK ==
    /\ auction \in Auctions
    /\ auction.active \cup auction.allIn \cup auction.tie \subseteq auction.participants
    /\ scores \in [Players -> Int] /\ connected \subseteq Players
    /\ paused \in BOOLEAN /\ edits \in Nat

Turn == auction.tie # {} \/ auction.current \in auction.active

Clocked ==
    IF auction.tie # {} THEN auction.timers["showmanDecision"] = Live(paused)
                        ELSE auction.timers["stakeMaking"] = Live(paused)

\* The auction is not won while somebody else is still bidding, and the winner
\* holds the highest bid.
WonByTheLast ==
    auction.sub = "content" =>
        /\ auction.active \subseteq {auction.answerer}
        /\ auction.answerer = auction.leader /\ auction.leader # NoPlayer

\* All-in is beaten by all-in only, unless the showman changes scores meanwhile:
\* from a stake above 0 that is all-in the lead goes to an all-in, on any path
\* through ties, passes, timeouts and what is left on offer from an earlier turn.
AllInStands ==
    [][Bidding /\ edits' = 0 /\ auction.stake > 0 /\ auction.leader \in auction.allIn
         => auction'.leader \in auction'.allIn]_vars

\* The auction ends, by its timers alone, if the game is not paused for ever and
\* it is never the turn of a player who passed.
EndsByTimers == []<>(~paused) /\ [](Bidding => Turn) => [](Bidding => <>(~Bidding))

\* So it is at a price above 0.  A nominal bid of 0 leaves the stake at 0, "no bid
\* yet", and the opening is offered again, for ever.
AuctionEnds == Nominal > 0 => EndsByTimers

\* docs/protocol-engine.md:140, "bidding: pass (nominal for the opener)": a bid
\* that does not come is taken for a pass, so somebody is always on the clock.
BidsTimeOut == Bidding => Clocked

\* docs/research/01-sigame-rules.md:88, "minimum raise = currentStake + StakeStep":
\* no bid lowers the stake.
StakeNeverFalls == [][Bidding /\ edits' = 0 => auction'.stake >= auction.stake]_vars
=============================================================================
