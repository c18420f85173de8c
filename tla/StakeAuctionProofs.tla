-------------------------- MODULE StakeAuctionProofs --------------------------
(***************************************************************************)
(* What is proved of the auction (StakeAuction), for every number of       *)
(* players, all scores, prices, steps and amounts: that the recursion      *)
(* stakeAskBid - stakeAdvance comes to an end and keeps the types, that    *)
(* the auction goes to the last who bids, and that only an all-in beats an *)
(* all-in.                                                                 *)
(***************************************************************************)
EXTENDS StakeAuction, FiniteSetTheorems, WellFoundedInduction, SequenceTheorems, TLAPS

\* A question whose auction has not begun.
Blank ==
    [sub |-> "announcing", participants |-> {}, active |-> {}, hasBid |-> {},
     allIn |-> {}, order |-> <<>>, current |-> NoPlayer, leader |-> NoPlayer,
     stake |-> 0, modes |-> {}, min |-> 0, max |-> 0, tie |-> {},
     answerer |-> NoPlayer, timers |-> [k \in Kinds |-> "off"]]

Seated(a) == a \in Auctions /\ a.active \union a.allIn \union a.tie \subseteq a.participants

InOrder(a, p) == \E i \in DOMAIN a.order : a.order[i] = p

\* Who bids on is in the order of the first bids, so his turn comes.
Lined(a) ==
    /\ \A p \in a.active \intersect a.hasBid : InOrder(a, p)
    /\ a.leader # NoPlayer => a.leader \in a.hasBid

\* Somebody has been asked.
Held(a) == a.current \in a.participants /\ (a.current \in a.active => InOrder(a, a.current))

\* p can pay for the next bid.
Able(a, p) == IF a.stake = 0 THEN scores[p] >= Nominal ELSE scores[p] > a.stake

\* Without a leader there is no stake and nobody is all-in.
Fair(a) == a.stake >= 0 /\ (a.leader = NoPlayer => a.stake = 0 /\ a.allIn = {})

\* The least that may be on offer: with a price of 0 a bid may be 0.
Least == IF Nominal = 0 THEN 0 ELSE 1

\* What is on offer can be paid for; after an all-in it is a pass or another.
ModesOK(a) ==
    /\ a.modes # {} => scores[a.current] >= Least /\ a.min >= Least
    /\ a.stake > 0 /\ a.leader \in a.allIn /\ a.current \notin a.allIn =>
           a.modes \subseteq {"pass", "allIn"} /\ "pass" \in a.modes

\* The last bidder has it.
LastBidder(a) == a.active \subseteq {a.answerer} /\ a.answerer = a.leader /\ a.leader # NoPlayer

Sound(a) ==
    /\ Seated(a)
    /\ a.sub = "announcing" => a = Blank
    /\ a.sub = "content" => LastBidder(a)
    /\ a.sub = "stakes" =>
           /\ Lined(a) /\ Held(a)
           /\ edits = 0 => /\ Fair(a) /\ ModesOK(a)
                           /\ \A p \in (a.active \ {a.leader}) \union a.tie : Able(a, p)

IInv ==
    /\ scores \in [Players -> Int] /\ connected \subseteq Players
    /\ paused \in BOOLEAN /\ edits \in Nat
    /\ Sound(auction)
-----------------------------------------------------------------------------
(* Sets of numbers.                                                        *)

\* A set within another.
Within(Y, X) == Y \subseteq X /\ Y # X

\* Of finite sets there is one that no other is within.
LEMMA SmallestSet ==
  ASSUME NEW S, NEW T, T # {}, \A X \in T : X \subseteq S /\ IsFiniteSet(X)
  PROVE  \E X \in T : \A Y \in T : ~Within(Y, X)
<1>1. T \subseteq FiniteSubsetsOf(S)
  BY DEF FiniteSubsetsOf
<1> DEFINE R == StrictSubsetOrdering(S)
           F == FiniteSubsetsOf(S)
<1>2. IsWellFoundedOn(R, F) /\ T \subseteq F
  BY <1>1, FS_StrictSubsetOrderingWellFounded
<1> HIDE DEF R, F
<1>3. PICK X \in T : \A Y \in T : ~(<<Y, X>> \in R)
  BY <1>2, WFMin
<1>4. \A Y \in T : Within(Y, X) => <<Y, X>> \in R
  BY DEF R, StrictSubsetOrdering, Within
<1> QED
  BY <1>3, <1>4

\* In a finite set that is not empty somebody has the lowest score.
LEMMA LowestExists ==
  ASSUME NEW S, S # {}, IsFiniteSet(S), NEW f, \A p \in S : f[p] \in Int
  PROVE  \E p \in S : \A o \in S : f[p] <= f[o]
<1> DEFINE Below(p) == {o \in S : f[o] <= f[p]}
           T == {Below(p) : p \in S}
<1>1. \A p \in S : IsFiniteSet(Below(p)) /\ Below(p) \subseteq S
  BY FS_Subset
<1>2. T # {} /\ \A X \in T : X \subseteq S /\ IsFiniteSet(X)
  <2> HIDE DEF Below
  <2> QED
    BY <1>1
<1>3. PICK X \in T : \A Y \in T : ~Within(Y, X)
  <2> HIDE DEF T
  <2> QED
    BY <1>2, SmallestSet
<1>4. PICK p \in S : X = Below(p)
  OBVIOUS
<1>5. ASSUME NEW o \in S, f[o] < f[p] PROVE FALSE
  <2>1. f[o] \in Int /\ f[p] \in Int /\ \A q \in S : f[q] \in Int
    OBVIOUS
  <2>2. p \in Below(p) /\ p \notin Below(o) /\ \A q \in Below(o) : q \in Below(p)
    BY <2>1, <1>5
  <2> HIDE DEF Below
  <2>3. Within(Below(o), Below(p))
    BY <2>2 DEF Within
  <2> QED
    BY <2>3, <1>3, <1>4
<1>6. \A o \in S : f[p] <= f[o]
  <2> SUFFICES ASSUME NEW o \in S PROVE f[p] <= f[o]
    OBVIOUS
  <2>1. f[o] \in Int /\ f[p] \in Int /\ ~(f[o] < f[p])
    BY <1>5
  <2> QED
    BY <2>1
<1> QED
  BY <1>6

-----------------------------------------------------------------------------
(* What the operators make of an auction.                                  *)

Numbers == scores \in [Players -> Int] /\ paused \in BOOLEAN

\* The parts of an auction.
LEMMA Parts ==
  ASSUME NEW a \in Auctions
  PROVE  /\ a.sub \in {"announcing", "stakes", "content", "reveal"}
         /\ a.participants \subseteq Players /\ a.active \subseteq Players /\ a.hasBid \subseteq Players
         /\ a.allIn \subseteq Players /\ a.tie \subseteq Players /\ a.order \in Seq(Players)
         /\ a.current \in Players \union {NoPlayer} /\ a.leader \in Players \union {NoPlayer}
         /\ a.answerer \in Players \union {NoPlayer} /\ a.stake \in Int /\ a.min \in Int /\ a.max \in Int
         /\ a.modes \subseteq Modes /\ a.timers \in [Kinds -> TimerStatus]
  BY DEF Auctions

\* The timers keep their types.
LEMMA TimerTypes ==
  ASSUME NEW ts \in [Kinds -> TimerStatus], NEW k \in Kinds, NEW on
  PROVE  /\ StartTimer(ts, k, on) \in [Kinds -> TimerStatus] /\ StopKind(ts, k) \in [Kinds -> TimerStatus]
         /\ HoldAll(ts) \in [Kinds -> TimerStatus] /\ ReleaseAll(ts) \in [Kinds -> TimerStatus]
<1>1. Live(on) \in TimerStatus
  BY DEF Live, TimerStatus
<1>2. StartTimer(ts, k, on) \in [Kinds -> TimerStatus] /\ StopKind(ts, k) \in [Kinds -> TimerStatus]
  BY <1>1 DEF StartTimer, StopKind, TimerStatus
<1>3. HoldAll(ts) \in [Kinds -> TimerStatus] /\ ReleaseAll(ts) \in [Kinds -> TimerStatus]
  BY DEF HoldAll, ReleaseAll, TimerStatus
<1> QED
  BY <1>2, <1>3

\* An auction with other timers.
LEMMA WithTimers ==
  ASSUME NEW a \in Auctions, NEW ts \in [Kinds -> TimerStatus]
  PROVE  [a EXCEPT !.timers = ts] \in Auctions
  BY DEF Auctions

\* What a pass changes.
LEMMA MarkPassParts ==
  ASSUME NEW a \in Auctions, NEW p \in Players
  PROVE  LET b == MarkPass(a, p)
         IN  /\ b \in Auctions
             /\ b.active = a.active \ {p} /\ b.hasBid = a.hasBid \union {p}
             /\ b.sub = a.sub /\ b.participants = a.participants /\ b.allIn = a.allIn
             /\ b.order = a.order /\ b.current = a.current /\ b.leader = a.leader
             /\ b.stake = a.stake /\ b.modes = a.modes /\ b.min = a.min /\ b.tie = a.tie
             /\ b.timers = a.timers
<1>1. MarkPass(a, p) \in Auctions
  <2>1. a.active \ {p} \subseteq Players /\ a.hasBid \union {p} \subseteq Players
    BY Parts
  <2> QED
    BY <2>1 DEF MarkPass, Auctions
<1> QED
  BY <1>1 DEF MarkPass, Auctions

\* What winning changes.
LEMMA WonParts ==
  ASSUME NEW a \in Auctions
  PROVE  LET b == Won(a)
         IN  /\ b \in Auctions
             /\ b.sub = "content" /\ b.answerer = a.leader /\ b.leader = a.leader
             /\ b.active = a.active /\ b.tie = {} /\ b.participants = a.participants
             /\ b.allIn = a.allIn
<1>1. StopKind(a.timers, "stakeMaking") \in [Kinds -> TimerStatus]
  BY Parts, TimerTypes DEF Kinds
<1>2. Won(a) \in Auctions
  BY <1>1, Parts DEF Won, Auctions
<1> QED
  BY <1>2 DEF Won, Auctions

\* What revealing the answer changes.
LEMMA RevealParts ==
  ASSUME NEW a \in Auctions
  PROVE  LET b == Reveal(a)
         IN  /\ b \in Auctions /\ b.sub = "reveal" /\ b.tie = {}
             /\ b.active = a.active /\ b.participants = a.participants /\ b.allIn = a.allIn
<1>1. [k \in Kinds |-> "off"] \in [Kinds -> TimerStatus]
  BY DEF TimerStatus
<1>2. Reveal(a) \in Auctions
  BY <1>1 DEF Reveal, Auctions
<1> QED
  BY <1>2 DEF Reveal, Auctions

\* Those whom a bid of sum leaves without the money for another.
Poor(a, p, sum) == {o \in a.active \ {p} : scores[o] <= sum}

Sum(p, mode, amount) == CASE mode = "nominal" -> Nominal [] mode = "allIn" -> scores[p] [] OTHER -> amount

\* What a bid changes.
LEMMA BidParts ==
  ASSUME Numbers, NEW a \in Auctions, NEW p \in Players, NEW mode \in Modes, NEW amount \in Int
  PROVE  LET b == Bid(a, p, mode, amount)
             sum == Sum(p, mode, amount)
         IN  /\ b \in Auctions /\ sum \in Int
             /\ b.stake = sum /\ b.leader = p
             /\ mode = "allIn" => b.allIn = a.allIn \union {p}
             /\ mode # "allIn" => b.allIn = a.allIn
             /\ b.hasBid = a.hasBid \union {p} \union Poor(a, p, sum)
             /\ b.active = a.active \ Poor(a, p, sum)
             /\ b.sub = a.sub /\ b.participants = a.participants
             /\ b.order = a.order /\ b.current = a.current
             /\ b.modes = a.modes /\ b.min = a.min /\ b.tie = a.tie
<1> DEFINE sum == Sum(p, mode, amount)
           all == IF mode = "allIn" THEN a.allIn \union {p} ELSE a.allIn
           done == a.hasBid \union {p} \union Poor(a, p, sum)
           left == a.active \ Poor(a, p, sum)
           ts == StopKind(a.timers, "stakeMaking")
<1>1. sum \in Int
  BY PriceAssumption DEF Sum, Numbers
<1>2. all \subseteq Players /\ done \subseteq Players /\ left \subseteq Players
  BY Parts DEF Poor
<1>3. ts \in [Kinds -> TimerStatus]
  BY Parts, TimerTypes DEF Kinds
<1>4. Bid(a, p, mode, amount) = [a EXCEPT !.stake = sum, !.leader = p, !.allIn = all, !.hasBid = done,
                                          !.active = left, !.timers = ts]
  BY DEF Bid, Sum, Poor, Auctions
<1> HIDE DEF sum, all, done, left, ts
<1>5. [a EXCEPT !.stake = sum, !.leader = p, !.allIn = all, !.hasBid = done,
                !.active = left, !.timers = ts] \in Auctions
  BY <1>1, <1>2, <1>3 DEF Auctions
<1>6. LET b == Bid(a, p, mode, amount)
      IN  /\ b.stake = sum /\ b.leader = p /\ b.allIn = all /\ b.hasBid = done /\ b.active = left
          /\ b.sub = a.sub /\ b.participants = a.participants
          /\ b.order = a.order /\ b.current = a.current
          /\ b.modes = a.modes /\ b.min = a.min /\ b.tie = a.tie
  BY <1>4 DEF Auctions
<1> QED
  BY <1>1, <1>4, <1>5, <1>6 DEF sum, all, done, left

\* What being asked changes: the bidder is in the order unless he has bid.
LEMMA TurnToParts ==
  ASSUME NEW a \in Auctions, NEW p \in Players
  PROVE  LET b == TurnTo(a, p)
         IN  /\ b \in Auctions
             /\ b.current = p /\ b.tie = {} /\ (p \notin a.hasBid => InOrder(b, p))
             /\ \A o : InOrder(a, o) => InOrder(b, o)
             /\ b.sub = a.sub /\ b.participants = a.participants /\ b.active = a.active
             /\ b.hasBid = a.hasBid /\ b.allIn = a.allIn /\ b.leader = a.leader
             /\ b.stake = a.stake /\ b.modes = a.modes /\ b.min = a.min /\ b.timers = a.timers
<1> DEFINE line == IF p \in a.hasBid \/ InOrder(a, p) THEN a.order ELSE Append(a.order, p)
<1>1. a.order \in Seq(Players)
  BY Parts
<1>2. /\ Append(a.order, p) \in Seq(Players) /\ Len(Append(a.order, p)) = Len(a.order) + 1
      /\ \A i \in 1..Len(a.order) : Append(a.order, p)[i] = a.order[i]
      /\ Append(a.order, p)[Len(a.order) + 1] = p
  BY <1>1, AppendProperties
<1>3. DOMAIN a.order = 1..Len(a.order) /\ Len(a.order) \in Nat
  BY <1>1
<1>4. line \in Seq(Players)
  BY <1>1, <1>2
<1>5. p \notin a.hasBid => \E i \in DOMAIN line : line[i] = p
  <2>1. CASE InOrder(a, p)
    BY <2>1 DEF InOrder
  <2>2. CASE ~InOrder(a, p) /\ p \notin a.hasBid
    <3>1. line = Append(a.order, p) /\ Len(a.order) + 1 \in DOMAIN Append(a.order, p)
      BY <1>2, <1>3, <2>2
    <3> QED
      BY <3>1, <1>2
  <2> QED
    BY <2>1, <2>2
<1>6. \A o : InOrder(a, o) => \E i \in DOMAIN line : line[i] = o
  <2> SUFFICES ASSUME NEW o, InOrder(a, o) PROVE \E i \in DOMAIN line : line[i] = o
    OBVIOUS
  <2>1. PICK i \in 1..Len(a.order) : a.order[i] = o
    BY <1>3 DEF InOrder
  <2>2. i \in DOMAIN Append(a.order, p) /\ Append(a.order, p)[i] = o
    BY <1>2, <1>3, <2>1
  <2> QED
    BY <1>3, <2>1, <2>2
<1>7. TurnTo(a, p) = [a EXCEPT !.current = p, !.tie = {}, !.order = line]
  BY DEF TurnTo, InOrder, Auctions
<1> HIDE DEF line
<1>8. [a EXCEPT !.current = p, !.tie = {}, !.order = line] \in Auctions
  BY <1>4 DEF Auctions
<1>9. LET b == TurnTo(a, p)
      IN  /\ b.current = p /\ b.tie = {} /\ b.order = line
          /\ b.sub = a.sub /\ b.participants = a.participants /\ b.active = a.active
          /\ b.hasBid = a.hasBid /\ b.allIn = a.allIn /\ b.leader = a.leader
          /\ b.stake = a.stake /\ b.modes = a.modes /\ b.min = a.min /\ b.timers = a.timers
  BY <1>7 DEF Auctions
<1> QED
  BY <1>5, <1>6, <1>7, <1>8, <1>9 DEF InOrder

\* A multiple of the step that is not less than a bid.
LEMMA RoundUpPositive ==
  ASSUME NEW v \in Int, v > 0
  PROVE  RoundUp(v) \in Int /\ RoundUp(v) > 0
<1>1. Step \in Int /\ Step > 0
  BY PriceAssumption
<1>2. v \div Step \in Int /\ v \div Step >= 0
  BY <1>1
<1>3. (v \div Step + 1) * Step \in Int /\ (v \div Step + 1) * Step > 0
  <2>1. \A x, y \in Int : x > 0 /\ y > 0 => x * y \in Int /\ x * y > 0
    OBVIOUS
  <2> QED
    BY <1>1, <1>2, <2>1
<1> QED
  BY <1>3 DEF RoundUp

\* What an offer holds.
LEMMA OfferParts ==
  ASSUME Numbers, NEW a \in Auctions, NEW p \in Players
  PROVE  LET b == Offer(a, p)
         IN  /\ b \in Auctions
             /\ b.modes # {}
             /\ b.min = IF a.stake = 0 THEN Nominal ELSE RoundUp(a.stake + Step)
             /\ a.stake # 0 /\ a.allIn # {} => b.modes = {"pass", "allIn"}
             /\ b.sub = a.sub /\ b.participants = a.participants /\ b.active = a.active
             /\ b.hasBid = a.hasBid /\ b.allIn = a.allIn /\ b.leader = a.leader
             /\ b.order = a.order /\ b.current = a.current /\ b.stake = a.stake /\ b.tie = a.tie
<1> DEFINE least == RoundUp(a.stake + Step)
           modes == IF a.stake = 0
                    THEN {"nominal", "allIn"} \union (IF scores[p] > Nominal THEN {"stake"} ELSE {})
                    ELSE {"pass", "allIn"}
                         \union (IF a.allIn = {} /\ least <= scores[p] THEN {"stake"} ELSE {})
           min == IF a.stake = 0 THEN Nominal ELSE least
           ts == StartTimer(a.timers, "stakeMaking", paused)
<1>1. least \in Int /\ min \in Int
  <2>1. Step \in Int /\ Step > 0 /\ Nominal \in Int /\ a.stake \in Int
    BY PriceAssumption, Parts
  <2>2. a.stake + Step \in Int /\ (a.stake + Step) \div Step \in Int
    BY <2>1
  <2>3. ((a.stake + Step) \div Step + 1) * Step \in Int
    BY <2>1, <2>2
  <2>4. least \in Int
    BY <2>2, <2>3 DEF RoundUp
  <2> QED
    BY <2>1, <2>4
<1>2. modes \subseteq Modes /\ modes # {} /\ (a.stake # 0 /\ a.allIn # {} => modes = {"pass", "allIn"})
  BY DEF Modes
<1>3. ts \in [Kinds -> TimerStatus]
  BY Parts, TimerTypes DEF Kinds
<1>4. scores[p] \in Int
  BY DEF Numbers
<1>5. Offer(a, p) = [a EXCEPT !.modes = modes, !.min = min, !.max = scores[p], !.timers = ts]
  <2>1. CASE a.stake = 0
    BY <2>1 DEF Offer, Auctions
  <2>2. CASE a.stake # 0
    BY <2>2 DEF Offer, Auctions
  <2> QED
    BY <2>1, <2>2
<1> HIDE DEF modes, min, ts
<1>6. [a EXCEPT !.modes = modes, !.min = min, !.max = scores[p], !.timers = ts] \in Auctions
  BY <1>1, <1>2, <1>3, <1>4 DEF Auctions
<1>7. LET b == Offer(a, p)
      IN  /\ b.modes = modes /\ b.min = min
          /\ b.sub = a.sub /\ b.participants = a.participants /\ b.active = a.active
          /\ b.hasBid = a.hasBid /\ b.allIn = a.allIn /\ b.leader = a.leader
          /\ b.order = a.order /\ b.current = a.current /\ b.stake = a.stake /\ b.tie = a.tie
  BY <1>5 DEF Auctions
<1> QED
  BY <1>2, <1>5, <1>6, <1>7 DEF min
-----------------------------------------------------------------------------
(* Whose turn it is.                                                       *)

\* Going round n places.
LEMMA Round ==
  ASSUME NEW n \in Nat, NEW k \in Nat, k < n
  PROVE  k % n = k /\ (k + n) % n = k
  OBVIOUS

\* Bidders are bidding; the leader is not among them; and while somebody besides
\* the leader is bidding, there is one.
LEMMA BiddersParts ==
  ASSUME Numbers, NEW a \in Auctions
  PROVE  /\ Bidders(a) \subseteq a.active
         /\ a.leader \in a.hasBid => a.leader \notin Bidders(a)
         /\ Lined(a) /\ ~Over(a) => Bidders(a) # {}
<1> DEFINE unbid == a.active \ a.hasBid
           lowest == {p \in unbid : \A o \in unbid : scores[p] <= scores[o]}
           n == Len(a.order)
           start == IF \E i \in DOMAIN a.order : a.order[i] = a.current
                    THEN CHOOSE i \in DOMAIN a.order : a.order[i] = a.current ELSE 1
           at(i) == a.order[((start + i - 1) % n) + 1]
           able == {i \in 1..n : at(i) \in a.active /\ at(i) # a.leader}
           turns == {at(i) : i \in {j \in able : \A o \in able : j <= o}}
<1>1. Bidders(a) = IF unbid # {} THEN lowest ELSE turns
  BY DEF Bidders
<1>2. lowest \subseteq a.active /\ turns \subseteq a.active /\ a.leader \notin turns
  OBVIOUS
<1>3. a.leader \in a.hasBid => a.leader \notin lowest
  OBVIOUS
<1>4. ASSUME Lined(a), ~Over(a), unbid # {} PROVE lowest # {}
  <2>1. IsFiniteSet(unbid) /\ \A p \in unbid : scores[p] \in Int
    BY Parts, PlayersAssumption, FS_Subset DEF Numbers
  <2> HIDE DEF unbid
  <2>2. PICK p \in unbid : \A o \in unbid : scores[p] <= scores[o]
    BY <1>4, <2>1, LowestExists
  <2> QED
    BY <2>2
<1>5. ASSUME Lined(a), ~Over(a), unbid = {} PROVE turns # {}
  <2>1. PICK q \in a.active : q # a.leader
    BY <1>5 DEF Over
  <2>2. q \in a.active \intersect a.hasBid
    BY <1>5
  <2>3. DOMAIN a.order = 1..n /\ n \in Nat
    BY Parts
  <2>4. PICK j \in 1..n : a.order[j] = q
    BY <1>5, <2>2, <2>3 DEF Lined, InOrder
  <2>5. start \in 1..n
    BY <2>3, <2>4
  <2> HIDE DEF start, n
  <2> DEFINE i == IF j > start THEN j - start ELSE j - start + n
  <2>6. i \in 1..n
    BY <2>3, <2>5
  <2>7. (start + i - 1) % n = j - 1
    <3>1. j - 1 \in Nat /\ j - 1 < n /\ n \in Nat
      BY <2>3, <2>4
    <3>2. start + i - 1 = j - 1 \/ start + i - 1 = (j - 1) + n
      BY <2>3, <2>5
    <3> HIDE DEF i
    <3> QED
      BY <3>1, <3>2, Round
  <2>8. at(i) = q
    <3>1. (j - 1) + 1 = j
      BY <2>3
    <3> QED
      BY <2>4, <2>7, <3>1
  <2> HIDE DEF i, at
  <2>9. i \in able
    BY <2>1, <2>6, <2>8
  <2>10. able # {} /\ IsFiniteSet(able) /\ \A k \in able : k \in Int
    <3>1. IsFiniteSet(1..n)
      BY <2>3, FS_Interval
    <3>2. able \subseteq 1..n
      OBVIOUS
    <3> QED
      BY <2>3, <2>9, <3>1, <3>2, FS_Subset
  <2> HIDE DEF able
  <2>11. PICK k \in able : \A o \in able : k <= o
    <3> DEFINE f == [o \in able |-> o]
    <3>1. \A o \in able : f[o] = o
      OBVIOUS
    <3>2. \A o \in able : f[o] \in Int
      BY <2>10
    <3> HIDE DEF f
    <3>3. PICK k \in able : \A o \in able : f[k] <= f[o]
      BY <2>10, <3>2, LowestExists
    <3> QED
      BY <3>1, <3>3
  <2> QED
    BY <2>11
<1> HIDE DEF lowest, turns, unbid
<1> QED
  BY <1>1, <1>2, <1>3, <1>4, <1>5

\* Whether stakeAdvance asks somebody, whom, and what it does otherwise.
Ends(a) == Over(a) \/ Bidders(a) = {}
Asks(a) == ~Ends(a) /\ Cardinality(Bidders(a)) = 1
Asked(a) == CHOOSE o \in Bidders(a) : TRUE
Tied(a) == [a EXCEPT !.tie = Bidders(a), !.timers = StartTimer(@, "showmanDecision", paused)]
Settled(a) == IF Ends(a) THEN IF a.leader = NoPlayer THEN Reveal(a) ELSE Won(a) ELSE Tied(a)

\* It asks one, or there are several.
LEMMA OneOrSeveral ==
  ASSUME Numbers, NEW a \in Auctions, ~Ends(a)
  PROVE  /\ Asked(a) \in Bidders(a) /\ Asked(a) \in Players
         /\ ~Asks(a) => Cardinality(Bidders(a)) > 1
<1>1. Bidders(a) \subseteq Players
  BY BiddersParts, Parts
<1>2. Cardinality(Bidders(a)) \in Nat
  BY <1>1, PlayersAssumption, FS_Subset, FS_CardinalityType
<1>3. Cardinality(Bidders(a)) # 0
  <2>1. IsFiniteSet(Bidders(a)) /\ Bidders(a) # {}
    BY <1>1, PlayersAssumption, FS_Subset DEF Ends
  <2> QED
    BY <2>1, FS_EmptySet
<1>4. Asked(a) \in Bidders(a)
  BY DEF Asked, Ends
<1> QED
  BY <1>1, <1>2, <1>3, <1>4 DEF Asks

\* What stakeAdvance leaves when it asks nobody.
LEMMA SettledParts ==
  ASSUME Numbers, NEW a \in Auctions
  PROVE  /\ Settled(a) \in Auctions
         /\ ~Ends(a) => LET b == Tied(a)
                        IN  /\ b \in Auctions /\ b.tie = Bidders(a)
                            /\ b.sub = a.sub /\ b.participants = a.participants /\ b.active = a.active
                            /\ b.hasBid = a.hasBid /\ b.allIn = a.allIn /\ b.leader = a.leader
                            /\ b.order = a.order /\ b.current = a.current /\ b.stake = a.stake
                            /\ b.modes = a.modes /\ b.min = a.min
<1>1. Tied(a) \in Auctions
  <2>1. Bidders(a) \subseteq Players
    BY BiddersParts, Parts
  <2>2. StartTimer(a.timers, "showmanDecision", paused) \in [Kinds -> TimerStatus]
    BY Parts, TimerTypes DEF Kinds
  <2> QED
    BY <2>1, <2>2 DEF Tied, Auctions
<1> QED
  BY <1>1, WonParts, RevealParts DEF Settled, Tied, Auctions
-----------------------------------------------------------------------------
(* The recursion stakeAskBid - stakeAdvance.                               *)

Turns == Auctions \X Players

\* What stakeAskBid finds: the player it is put to cannot raise, or is bound to bid
\* the nominal price.
At(x) == TurnTo(x[1], x[2])
Broke(x) == At(x).stake > 0 /\ scores[x[2]] <= At(x).stake
Bound(x) == At(x).stake = 0 /\ (scores[x[2]] < Nominal \/ Cardinality(At(x).participants) = 1)

\* Whether stakeAdvance follows, and the auction it is called on.
Moved(x) == IF Broke(x) THEN x[2] \in At(x).active ELSE Bound(x)
Moves(x) ==
    IF Broke(x) THEN [MarkPass(At(x), x[2]) EXCEPT !.timers = StopKind(@, "stakeMaking")]
                ELSE Bid(At(x), x[2], "nominal", Nominal)

\* The next call, if there is one, and the result, if there is none.
Calls(x) == Moved(x) /\ Asks(Moves(x))
Called(x) == <<Moves(x), Asked(Moves(x))>>
Final(x) == IF Moved(x) THEN Settled(Moves(x)) ELSE IF Broke(x) THEN At(x) ELSE Offer(At(x), x[2])

\* The types of a call, of what it makes and of the call that follows.
LEMMA MovesParts ==
  ASSUME Numbers, NEW x \in Turns
  PROVE  /\ x[1] \in Auctions /\ x[2] \in Players /\ At(x) \in Auctions
         /\ Moves(x) \in Auctions /\ Final(x) \in Auctions
         /\ Calls(x) => Called(x) \in Turns
<1>1. x[1] \in Auctions /\ x[2] \in Players
  BY DEF Turns
<1>2. At(x) \in Auctions
  BY <1>1, TurnToParts DEF At
<1>3. Moves(x) \in Auctions
  <2>1. Bid(At(x), x[2], "nominal", Nominal) \in Auctions
    <3>1. Nominal \in Int /\ "nominal" \in Modes
      BY PriceAssumption DEF Modes
    <3> QED
      BY <1>1, <1>2, <3>1, BidParts
  <2>2. MarkPass(At(x), x[2]) \in Auctions
    BY <1>1, <1>2, MarkPassParts
  <2>3. StopKind(MarkPass(At(x), x[2]).timers, "stakeMaking") \in [Kinds -> TimerStatus]
    BY <2>2, Parts, TimerTypes DEF Kinds
  <2>4. [MarkPass(At(x), x[2]) EXCEPT !.timers = StopKind(@, "stakeMaking")] \in Auctions
    BY <2>2, <2>3, WithTimers
  <2> QED
    BY <2>1, <2>4 DEF Moves
<1>4. Final(x) \in Auctions
  BY <1>1, <1>2, <1>3, SettledParts, OfferParts DEF Final
<1>5. Calls(x) => Called(x) \in Turns
  BY <1>3, OneOrSeveral DEF Calls, Called, Asks, Turns
<1> QED
  BY <1>1, <1>2, <1>3, <1>4, <1>5

\* The results of x: every relation that follows the calls has them.
Follows(R) ==
    /\ \A x \in Turns : ~Calls(x) => <<x, Final(x)>> \in R
    /\ \A x \in Turns, b \in Auctions : Calls(x) /\ <<Called(x), b>> \in R => <<x, b>> \in R
Results(x) == {b \in Auctions : \A R : Follows(R) => <<x, b>> \in R}
Result(S) == CHOOSE b \in S : TRUE

\* A call that calls another has its results.
LEMMA SameResults ==
  ASSUME Numbers, NEW x \in Turns, Calls(x)
  PROVE  Results(x) = Results(Called(x))
<1>1. Called(x) \in Turns
  BY MovesParts
<1>2. ASSUME NEW b \in Results(Called(x)) PROVE b \in Results(x)
  BY <1>2 DEF Results, Follows
<1>3. ASSUME NEW b \in Auctions, b \notin Results(Called(x)) PROVE b \notin Results(x)
  <2>1. PICK R : Follows(R) /\ <<Called(x), b>> \notin R
    BY <1>3 DEF Results
  <2> DEFINE Q == R \ {<<x, b>>}
  <2>2. Follows(Q)
    <3>1. ASSUME NEW y \in Turns, ~Calls(y) PROVE <<y, Final(y)>> \in Q
      BY <2>1, <3>1 DEF Follows
    <3>2. ASSUME NEW y \in Turns, NEW c \in Auctions, Calls(y), <<Called(y), c>> \in Q
          PROVE  <<y, c>> \in Q
      <4>1. <<Called(y), c>> \in R /\ <<y, c>> \in R
        BY <2>1, <3>2 DEF Follows
      <4>2. ~(y = x /\ c = b)
        BY <2>1, <4>1
      <4> QED
        BY <4>1, <4>2
    <3> HIDE DEF Q
    <3> QED
      BY <3>1, <3>2 DEF Follows
  <2> QED
    BY <2>2 DEF Results
<1> QED
  BY <1>2, <1>3 DEF Results

\* A call that calls no other has one result.
LEMMA OneResult ==
  ASSUME Numbers, NEW x \in Turns, ~Calls(x)
  PROVE  Results(x) = {Final(x)}
<1>1. Final(x) \in Auctions
  BY MovesParts
<1>2. Final(x) \in Results(x)
  BY <1>1 DEF Results, Follows
<1>3. ASSUME NEW b \in Auctions, b # Final(x) PROVE b \notin Results(x)
  <2> DEFINE Q == (Turns \X Auctions) \ {<<x, b>>}
  <2>1. Follows(Q)
    <3>1. ASSUME NEW y \in Turns, ~Calls(y) PROVE <<y, Final(y)>> \in Q
      <4>1. Final(y) \in Auctions
        BY MovesParts
      <4>2. ~(y = x /\ Final(y) = b)
        BY <1>3
      <4> QED
        BY <4>1, <4>2
    <3>2. ASSUME NEW y \in Turns, NEW c \in Auctions, Calls(y), <<Called(y), c>> \in Q
          PROVE  <<y, c>> \in Q
      <4>1. y # x
        BY <3>2
      <4> QED
        BY <4>1
    <3> HIDE DEF Q
    <3> QED
      BY <3>1, <3>2 DEF Follows
  <2>2. <<x, b>> \notin Q
    OBVIOUS
  <2> QED
    BY <2>1, <2>2 DEF Results
<1> QED
  BY <1>2, <1>3 DEF Results

\* AskBid is what its definition says: the bidder's result, or that of the next
\* bidder asked.
LEMMA AskBidEquation ==
  ASSUME Numbers
  PROVE  \A x \in Turns : AskBid[x] = IF Calls(x) THEN AskBid[Called(x)] ELSE Final(x)
<1> DEFINE Body(f) ==
             [x \in Auctions \X Players |->
                LET p == x[2]
                    a == TurnTo(x[1], p)
                    advance(b) == AdvanceBy(b, LAMBDA c, o : f[<<c, o>>])
                    broke == a.stake > 0 /\ scores[p] <= a.stake
                    bound == a.stake = 0 /\ (scores[p] < Nominal \/ Cardinality(a.participants) = 1)
                IN  CASE broke /\ p \in a.active ->
                             advance([MarkPass(a, p) EXCEPT !.timers = StopKind(@, "stakeMaking")])
                      [] broke /\ p \notin a.active -> a
                      [] bound -> advance(Bid(a, p, "nominal", Nominal))
                      [] OTHER -> Offer(a, p)]
           Law(f) == [x \in Turns |-> IF Calls(x) THEN f[Called(x)] ELSE Final(x)]
           F == [x \in Turns |-> Result(Results(x))]
<1>1. AskBid = CHOOSE f : f = Body(f)
  BY Zenon DEF AskBid
<1>2. ASSUME NEW f PROVE Body(f) = Law(f)
  <2>1. ASSUME NEW x \in Turns PROVE Body(f)[x] = Law(f)[x]
    <3> DEFINE p == x[2]
               a == TurnTo(x[1], p)
               broke == a.stake > 0 /\ scores[p] <= a.stake
               bound == a.stake = 0 /\ (scores[p] < Nominal \/ Cardinality(a.participants) = 1)
               step(b) == IF Asks(b) THEN f[<<b, Asked(b)>>] ELSE Settled(b)
               passed == AdvanceBy([MarkPass(a, p) EXCEPT !.timers = StopKind(@, "stakeMaking")],
                                   LAMBDA c, o : f[<<c, o>>])
               bid == AdvanceBy(Bid(a, p, "nominal", Nominal), LAMBDA c, o : f[<<c, o>>])
               offer == Offer(a, p)
    <3>1. ASSUME NEW b \in Auctions
          PROVE  AdvanceBy(b, LAMBDA c, o : f[<<c, o>>]) = step(b)
      <4>1. CASE Ends(b)
        <5>1. Bidders(b) = {} => Cardinality(Bidders(b)) = 0
          BY FS_EmptySet
        <5> QED
          BY <4>1, <5>1 DEF AdvanceBy, Ends, Asks, Settled
      <4>2. CASE Asks(b)
        BY <4>2 DEF AdvanceBy, Ends, Asks, Asked
      <4>3. CASE ~Ends(b) /\ ~Asks(b)
        <5>1. Cardinality(Bidders(b)) > 1 /\ Cardinality(Bidders(b)) # 1
          BY <4>3, OneOrSeveral DEF Asks
        <5> QED
          BY <4>3, <5>1 DEF AdvanceBy, Ends, Asks, Settled, Tied
      <4> QED
        BY <4>1, <4>2, <4>3
    <3>2. x \in Auctions \X Players /\ Moves(x) \in Auctions
      BY MovesParts DEF Turns
    <3>3. At(x) = a /\ (Broke(x) <=> broke) /\ (Bound(x) <=> bound)
      BY DEF At, Broke, Bound
    <3>4. Body(f)[x] = CASE broke /\ p \in a.active -> passed
                         [] broke /\ p \notin a.active -> a
                         [] bound -> bid
                         [] OTHER -> offer
      BY <3>2, Zenon
    <3>5. ~(broke /\ bound)
      OBVIOUS
    <3>6. /\ broke /\ p \in a.active => Body(f)[x] = passed
          /\ broke /\ p \notin a.active => Body(f)[x] = a
          /\ ~broke /\ bound => Body(f)[x] = bid
          /\ ~broke /\ ~bound => Body(f)[x] = offer
      <4> HIDE DEF broke, bound, passed, bid, offer, a, p, Body
      <4> QED
        BY <3>4, <3>5
    <3>7. CASE broke /\ p \in a.active
      <4>1. Body(f)[x] = AdvanceBy([MarkPass(a, p) EXCEPT !.timers = StopKind(@, "stakeMaking")],
                                   LAMBDA c, o : f[<<c, o>>])
        BY <3>6, <3>7
      <4>2. Moves(x) = [MarkPass(a, p) EXCEPT !.timers = StopKind(@, "stakeMaking")] /\ Moved(x)
        BY <3>3, <3>7 DEF Moves, Moved
      <4>3. Body(f)[x] = step(Moves(x))
        BY <4>1, <4>2, <3>1, <3>2
      <4> QED
        BY <4>2, <4>3 DEF Calls, Called, Final
    <3>8. CASE broke /\ p \notin a.active
      <4>1. Body(f)[x] = a
        BY <3>6, <3>8
      <4> QED
        BY <4>1, <3>3, <3>8 DEF Calls, Final, Moved
    <3>9. CASE ~broke /\ bound
      <4>1. Body(f)[x] = AdvanceBy(Bid(a, p, "nominal", Nominal), LAMBDA c, o : f[<<c, o>>])
        BY <3>6, <3>9
      <4>2. Moves(x) = Bid(a, p, "nominal", Nominal) /\ Moved(x)
        BY <3>3, <3>9 DEF Moves, Moved
      <4>3. Body(f)[x] = step(Moves(x))
        BY <4>1, <4>2, <3>1, <3>2
      <4> QED
        BY <4>2, <4>3 DEF Calls, Called, Final
    <3>10. CASE ~broke /\ ~bound
      <4>1. Body(f)[x] = Offer(a, p)
        BY <3>6, <3>10
      <4> QED
        BY <4>1, <3>3, <3>10 DEF Calls, Final, Moved
    <3> QED
      BY <3>7, <3>8, <3>9, <3>10
  <2> QED
    BY <2>1 DEF Turns
<1>3. F = Law(F)
  <2>1. ASSUME NEW x \in Turns PROVE F[x] = Law(F)[x]
    <3>1. CASE Calls(x)
      <4>1. Called(x) \in Turns
        BY <3>1, MovesParts
      <4>2. F[x] = Result(Results(x)) /\ F[Called(x)] = Result(Results(Called(x)))
        BY <4>1
      <4> HIDE DEF F
      <4> QED
        BY <3>1, <4>2, SameResults
    <3>2. CASE ~Calls(x)
      <4>1. F[x] = Result({Final(x)})
        BY <3>2, OneResult
      <4>2. Result({Final(x)}) = Final(x)
        BY DEF Result
      <4> HIDE DEF F
      <4> QED
        BY <3>2, <4>1, <4>2
    <3> QED
      BY <3>1, <3>2
  <2> HIDE DEF Law
  <2>2. Law(F) = [x \in Turns |-> Law(F)[x]]
    BY DEF Law
  <2> QED
    BY <2>1, <2>2
<1> HIDE DEF Body, F
<1>4. F = Body(F)
  BY <1>2, <1>3
<1>5. AskBid = Body(AskBid)
  BY <1>1, <1>4
<1>6. AskBid = Law(AskBid)
  BY <1>2, <1>5
<1> QED
  BY <1>6

\* stakeAdvance in the same terms.
LEMMA AdvanceEquation ==
  ASSUME Numbers, NEW b \in Auctions
  PROVE  Advance(b) = IF Asks(b) THEN AskBid[<<b, Asked(b)>>] ELSE Settled(b)
<1>1. CASE Ends(b)
  <2>1. Bidders(b) = {} => Cardinality(Bidders(b)) = 0
    BY FS_EmptySet
  <2> QED
    BY <1>1, <2>1 DEF Advance, AdvanceBy, Ends, Asks, Settled
<1>2. CASE Asks(b)
  BY <1>2 DEF Advance, AdvanceBy, Ends, Asks, Asked
<1>3. CASE ~Ends(b) /\ ~Asks(b)
  <2>1. Cardinality(Bidders(b)) > 1 /\ Cardinality(Bidders(b)) # 1
    BY <1>3, OneOrSeveral DEF Asks
  <2> QED
    BY <1>3, <2>1 DEF Advance, AdvanceBy, Ends, Asks, Settled, Tied
<1> QED
  BY <1>1, <1>2, <1>3
-----------------------------------------------------------------------------
(* Soundness, through the recursion.                                       *)

\* What stakeAskBid may be called on.
Ready(a, p) ==
    /\ Seated(a) /\ a.sub = "stakes" /\ p \in a.participants /\ Lined(a)
    /\ edits = 0 => /\ Fair(a)
                    /\ \A o \in a.active \ {a.leader, p} : Able(a, o)
                    /\ a.stake # 0 \/ a.modes # {} => Able(a, p)

\* What stakeAdvance may be called on.
Between(a) ==
    /\ Seated(a) /\ a.sub = "stakes" /\ Lined(a) /\ Held(a)
    /\ edits = 0 => /\ Fair(a)
                    /\ \A o \in a.active \ {a.leader} : Able(a, o)
                    /\ Over(a) \/ ModesOK(a)

\* stakeAdvance finds no bidder only when the auction is over.
LEMMA EndsOver ==
  ASSUME Numbers, NEW a, Between(a)
  PROVE  Ends(a) => Over(a)
  BY BiddersParts DEF Between, Ends, Seated

\* A bidder whom stakeAdvance may ask can pay and does not lead.
LEMMA BiddersAble ==
  ASSUME Numbers, NEW a, Between(a), NEW p \in Bidders(a)
  PROVE  p \in a.active /\ p # a.leader /\ (edits = 0 => Able(a, p))
<1>1. a \in Auctions /\ p \in a.active /\ p \in Players
  BY BiddersParts, Parts DEF Between, Seated
<1>2. p # a.leader
  <2>1. CASE a.leader = NoPlayer
    BY <1>1, <2>1, PlayersAssumption
  <2>2. CASE a.leader # NoPlayer
    BY <1>1, <2>2, BiddersParts DEF Between, Lined
  <2> QED
    BY <2>1, <2>2
<1> QED
  BY <1>1, <1>2 DEF Between

\* Where the recursion stops in stakeAdvance: revealed, won or tied.
LEMMA SettledSound ==
  ASSUME Numbers, NEW a, Between(a)
  PROVE  Sound(Settled(a))
<1>1. a \in Auctions /\ Seated(a)
  BY DEF Between, Seated
<1>2. CASE Ends(a) /\ a.leader = NoPlayer
  <2>1. Settled(a) = Reveal(a)
    BY <1>2 DEF Settled
  <2> QED
    BY <1>1, <2>1, RevealParts DEF Sound, Seated
<1>3. CASE Ends(a) /\ a.leader # NoPlayer
  <2>1. Settled(a) = Won(a)
    BY <1>3 DEF Settled
  <2>2. a.active \subseteq {a.leader}
    BY <1>3, EndsOver DEF Over
  <2>3. LastBidder(Won(a))
    BY <1>1, <1>3, <2>2, WonParts DEF LastBidder
  <2> QED
    BY <1>1, <2>1, <2>3, WonParts DEF Sound, Seated
<1>4. CASE ~Ends(a)
  <2> DEFINE b == Tied(a)
  <2>1. Settled(a) = b
    BY <1>4 DEF Settled
  <2>2. /\ b \in Auctions /\ b.tie = Bidders(a)
        /\ b.sub = a.sub /\ b.participants = a.participants /\ b.active = a.active
        /\ b.hasBid = a.hasBid /\ b.allIn = a.allIn /\ b.leader = a.leader
        /\ b.order = a.order /\ b.current = a.current /\ b.stake = a.stake
        /\ b.modes = a.modes /\ b.min = a.min
    BY <1>1, <1>4, SettledParts
  <2>3. Bidders(a) \subseteq a.active
    BY <1>1, BiddersParts
  <2>4. ~Over(a)
    BY <1>4 DEF Ends
  <2> HIDE DEF b
  <2>5. Seated(b)
    BY <1>1, <2>2, <2>3 DEF Seated
  <2>6. Lined(b) /\ Held(b)
    BY <2>2 DEF Between, Lined, Held, InOrder
  <2>7. edits = 0 => Fair(b) /\ ModesOK(b)
    BY <2>2, <2>4 DEF Between, Fair, ModesOK
  <2>8. ASSUME edits = 0, NEW o \in (b.active \ {b.leader}) \union b.tie PROVE Able(b, o)
    <3>1. Able(a, o)
      BY <2>2, <2>8, BiddersAble DEF Between
    <3> QED
      BY <2>2, <3>1 DEF Able
  <2>9. b.sub = "stakes"
    BY <2>2 DEF Between
  <2> QED
    BY <2>1, <2>5, <2>6, <2>7, <2>8, <2>9 DEF Sound
<1> QED
  BY <1>2, <1>3, <1>4

\* stakeAdvance calls stakeAskBid as it may be called.
LEMMA AskedReady ==
  ASSUME Numbers, NEW a, Between(a), Asks(a)
  PROVE  Ready(a, Asked(a))
<1>1. a \in Auctions /\ Asked(a) \in Bidders(a)
  BY OneOrSeveral DEF Between, Seated, Asks
<1>2. Asked(a) \in a.active /\ (edits = 0 => Able(a, Asked(a)))
  BY <1>1, BiddersAble
<1> QED
  BY <1>2 DEF Ready, Between, Seated

\* stakeAskBid calls stakeAdvance on a sound auction: the bidder is passed, or the
\* nominal bid is made for him.
LEMMA MovesBetween ==
  ASSUME Numbers, NEW x \in Turns, Ready(x[1], x[2]), Moved(x)
  PROVE  /\ Between(Moves(x)) /\ Moves(x).participants = x[1].participants
         /\ Broke(x) => /\ Moves(x).active = x[1].active \ {x[2]} /\ x[2] \in x[1].active
                        /\ Moves(x).stake = x[1].stake
         /\ ~Broke(x) => /\ Moves(x).active \subseteq x[1].active /\ Moves(x).leader = x[2]
                         /\ \A o \in Moves(x).active \ {x[2]} : scores[o] > Nominal
<1> DEFINE a == x[1]
           p == x[2]
           c == At(x)
           b == Moves(x)
<1>1. a \in Auctions /\ p \in Players /\ c \in Auctions /\ b \in Auctions
  BY MovesParts
<1>2. /\ c.current = p /\ c.tie = {} /\ (p \notin a.hasBid => InOrder(c, p))
      /\ \A o : InOrder(a, o) => InOrder(c, o)
      /\ c.sub = a.sub /\ c.participants = a.participants /\ c.active = a.active
      /\ c.hasBid = a.hasBid /\ c.allIn = a.allIn /\ c.leader = a.leader
      /\ c.stake = a.stake /\ c.modes = a.modes /\ c.min = a.min
  BY <1>1, TurnToParts DEF At
<1>3. /\ a.active \union a.allIn \union a.tie \subseteq a.participants /\ a.sub = "stakes"
      /\ p \in a.participants /\ Lined(a)
      /\ edits = 0 => /\ Fair(a)
                      /\ \A o \in a.active \ {a.leader, p} : Able(a, o)
                      /\ a.stake # 0 \/ a.modes # {} => Able(a, p)
  BY DEF Ready, Seated
<1>4. a.stake \in Int /\ scores[p] \in Int /\ NoPlayer \notin a.active /\ p # NoPlayer
      /\ a.participants \subseteq Players /\ Nominal \in Int /\ Nominal >= 0
  BY <1>1, Parts, PlayersAssumption, PriceAssumption DEF Numbers
<1>5. p \in a.active => InOrder(c, p)
  BY <1>2, <1>3 DEF Lined
<1>6. CASE Broke(x)
  <2> DEFINE m == MarkPass(c, p)
  <2>1. /\ m \in Auctions
        /\ m.active = c.active \ {p} /\ m.hasBid = c.hasBid \union {p}
        /\ m.sub = c.sub /\ m.participants = c.participants /\ m.allIn = c.allIn
        /\ m.order = c.order /\ m.current = c.current /\ m.leader = c.leader
        /\ m.stake = c.stake /\ m.modes = c.modes /\ m.min = c.min /\ m.tie = c.tie
    BY <1>1, MarkPassParts
  <2>2. b = [m EXCEPT !.timers = StopKind(@, "stakeMaking")]
    BY <1>6 DEF Moves
  <2> HIDE DEF m, b, c, a, p
  <2>3. /\ b.active = a.active \ {p} /\ b.hasBid = a.hasBid \union {p}
        /\ b.sub = a.sub /\ b.participants = a.participants /\ b.allIn = a.allIn
        /\ b.order = c.order /\ b.current = p /\ b.leader = a.leader
        /\ b.stake = a.stake /\ b.tie = {}
    BY <1>2, <2>1, <2>2 DEF Auctions
  <2>4. p \in a.active
    BY <1>2, <1>6 DEF Moved, a, p, c
  <2>5. edits # 0
    <3>1. a.stake > 0 /\ scores[p] <= a.stake
      BY <1>2, <1>6 DEF Broke, a, p, c
    <3> QED
      BY <1>3, <1>4, <3>1 DEF Able
  <2>6. Seated(b) /\ Held(b)
    BY <1>1, <1>3, <2>3 DEF Seated, Held
  <2>7. Lined(b)
    <3>1. \A o \in b.active \intersect b.hasBid : InOrder(c, o)
      BY <1>2, <1>3, <2>3 DEF Lined
    <3> QED
      BY <1>3, <2>3, <3>1 DEF Lined, InOrder
  <2>8. Between(b)
    BY <1>3, <2>3, <2>5, <2>6, <2>7 DEF Between
  <2> QED
    BY <1>6, <2>3, <2>4, <2>8 DEF a, b, p
<1>7. CASE ~Broke(x)
  <2>1. a.stake = 0 /\ (scores[p] < Nominal \/ Cardinality(a.participants) = 1)
    BY <1>2, <1>7 DEF Moved, Bound
  <2>2. b = Bid(c, p, "nominal", Nominal)
    BY <1>7 DEF Moves
  <2>3. Sum(p, "nominal", Nominal) = Nominal
    BY DEF Sum
  <2> HIDE DEF a, b, c, p
  <2>4. /\ b.stake = Nominal /\ b.leader = p /\ b.allIn = c.allIn
        /\ b.hasBid = c.hasBid \union {p} \union Poor(c, p, Nominal)
        /\ b.active = c.active \ Poor(c, p, Nominal)
        /\ b.sub = c.sub /\ b.participants = c.participants
        /\ b.order = c.order /\ b.current = c.current
        /\ b.modes = c.modes /\ b.min = c.min /\ b.tie = c.tie
    <3>1. "nominal" \in Modes
      BY DEF Modes
    <3> QED
      BY <1>1, <1>4, <2>2, <2>3, <3>1, BidParts
  <2>5. Seated(b)
    BY <1>1, <1>2, <1>3, <2>4 DEF Seated
  <2>6. Lined(b) /\ Held(b)
    <3>1. \A o \in b.active \intersect b.hasBid : InOrder(c, o)
      BY <1>2, <1>3, <1>5, <2>4 DEF Lined
    <3>2. p \in b.active => InOrder(c, p)
      BY <1>2, <1>5, <2>4
    <3> QED
      BY <1>2, <1>3, <2>4, <3>1, <3>2 DEF Lined, Held, InOrder
  <2>7. ASSUME edits = 0
        PROVE  /\ Fair(b)
               /\ \A o \in b.active \ {b.leader} : Able(b, o)
               /\ Over(b) \/ ModesOK(b)
    <3>1. Fair(b) /\ b.current = b.leader
      BY <1>2, <1>4, <2>4 DEF Fair
    <3>2. \A o \in b.active \ {b.leader} : Able(b, o)
      <4> SUFFICES ASSUME NEW o \in b.active \ {b.leader} PROVE Able(b, o)
        OBVIOUS
      <4>1. o \in Players /\ scores[o] \in Int /\ ~(scores[o] <= Nominal)
        BY <1>1, <2>4, Parts DEF Poor, Numbers
      <4> QED
        BY <1>4, <2>4, <4>1 DEF Able
    <3>3. CASE a.modes = {}
      BY <1>2, <2>4, <3>1, <3>2, <3>3 DEF ModesOK
    <3>4. CASE a.modes # {}
      <4>1. scores[p] >= Nominal
        BY <1>3, <2>1, <2>7, <3>4 DEF Able
      <4>2. Cardinality(a.participants) = 1
        BY <1>4, <2>1, <4>1
      <4>3. PICK o : a.participants = {o}
        BY <1>4, <4>2, PlayersAssumption, FS_Subset, FS_Singleton
      <4>4. b.active \subseteq {p}
        BY <1>2, <1>3, <2>4, <4>3
      <4>5. Over(b)
        BY <2>4, <4>4 DEF Over
      <4> QED
        BY <3>1, <3>2, <4>5
    <3> QED
      BY <3>3, <3>4
  <2>8. Between(b)
    BY <1>2, <1>3, <2>4, <2>5, <2>6, <2>7 DEF Between
  <2>9. \A o \in b.active \ {p} : scores[o] > Nominal
    <3> SUFFICES ASSUME NEW o \in b.active \ {p} PROVE scores[o] > Nominal
      OBVIOUS
    <3>1. scores[o] \in Int /\ ~(scores[o] <= Nominal)
      BY <1>1, <2>4, Parts DEF Poor, Numbers
    <3> QED
      BY <1>4, <3>1
  <2> QED
    BY <1>2, <1>7, <2>4, <2>8, <2>9 DEF a, b, p
<1> QED
  BY <1>6, <1>7

\* What is left for the recursion to do: the bidders, and the nominal bid of one who
\* is bound to it.
Left(x) == x[1].active \union (IF Bound(x) THEN {NoPlayer} ELSE {})

\* stakeAskBid calls itself with less to do: a bidder less, or, the nominal bid made,
\* for somebody who can pay more than the price.
LEMMA CallsLess ==
  ASSUME Numbers, NEW x \in Turns, Ready(x[1], x[2]), Calls(x)
  PROVE  Within(Left(Called(x)), Left(x))
<1> DEFINE z == Called(x)
           b == Moves(x)
<1>1. /\ Between(b) /\ b.participants = x[1].participants
      /\ Broke(x) => /\ b.active = x[1].active \ {x[2]} /\ x[2] \in x[1].active
                     /\ b.stake = x[1].stake
      /\ ~Broke(x) => /\ b.active \subseteq x[1].active /\ b.leader = x[2]
                      /\ \A o \in b.active \ {x[2]} : scores[o] > Nominal
  BY MovesBetween DEF Calls
<1>2. z[1] = b /\ z[2] = Asked(b) /\ b \in Auctions /\ z \in Turns /\ x[1] \in Auctions /\ x[2] \in Players
  BY MovesParts DEF Called
<1>3. z[2] \in b.active /\ z[2] # b.leader
  BY <1>1, <1>2, OneOrSeveral, BiddersAble DEF Calls, Asks
<1>4. /\ At(x).stake = x[1].stake /\ At(x).participants = x[1].participants
      /\ At(z).stake = b.stake /\ At(z).participants = b.participants
  BY <1>2, MovesParts, TurnToParts DEF At
<1>5. NoPlayer \notin x[1].active /\ x[2] \in x[1].participants /\ z[2] \in x[1].participants
  BY <1>1, <1>2, <1>3, Parts, PlayersAssumption DEF Ready, Between, Seated
<1> HIDE DEF z, b
<1>6. CASE Broke(x)
  <2>1. ~Bound(z)
    BY <1>1, <1>4, <1>6 DEF Bound, Broke
  <2> QED
    BY <1>1, <1>2, <1>6, <2>1 DEF Left, Within, z
<1>7. CASE ~Broke(x)
  <2>1. Bound(x)
    BY <1>7 DEF Calls, Moved
  <2>2. scores[z[2]] > Nominal /\ z[2] # x[2]
    BY <1>1, <1>3, <1>7
  <2>3. Cardinality(b.participants) # 1
    <3>1. IsFiniteSet(b.participants)
      BY <1>2, Parts, PlayersAssumption, FS_Subset
    <3>2. ASSUME NEW o, b.participants = {o} PROVE FALSE
      BY <1>1, <1>5, <2>2, <3>2
    <3> QED
      BY <3>1, <3>2, FS_Singleton
  <2>4. scores[z[2]] \in Int /\ Nominal \in Int
    BY <1>2, <1>3, Parts, PriceAssumption DEF Numbers
  <2>5. ~Bound(z)
    BY <1>4, <2>2, <2>3, <2>4 DEF Bound
  <2> QED
    BY <1>1, <1>2, <1>5, <1>7, <2>1, <2>5 DEF Left, Within, z
<1> QED
  BY <1>6, <1>7

\* A bidder who is not passed is on the clock with bids that can be paid for.
LEMMA FinalSound ==
  ASSUME Numbers, NEW x \in Turns, Ready(x[1], x[2]), ~Calls(x)
  PROVE  Sound(Final(x))
<1> DEFINE a == x[1]
           p == x[2]
           c == At(x)
           b == Offer(c, p)
<1>1. a \in Auctions /\ p \in Players /\ c \in Auctions
  BY MovesParts
<1>2. /\ c.current = p /\ c.tie = {} /\ (p \notin a.hasBid => InOrder(c, p))
      /\ \A o : InOrder(a, o) => InOrder(c, o)
      /\ c.sub = a.sub /\ c.participants = a.participants /\ c.active = a.active
      /\ c.hasBid = a.hasBid /\ c.allIn = a.allIn /\ c.leader = a.leader
      /\ c.stake = a.stake /\ c.modes = a.modes /\ c.min = a.min
  BY <1>1, TurnToParts DEF At
<1>3. /\ a.active \union a.allIn \union a.tie \subseteq a.participants /\ a.sub = "stakes"
      /\ p \in a.participants /\ Lined(a)
      /\ edits = 0 => /\ Fair(a)
                      /\ \A o \in a.active \ {a.leader, p} : Able(a, o)
                      /\ a.stake # 0 \/ a.modes # {} => Able(a, p)
  BY DEF Ready, Seated
<1>4. a.stake \in Int /\ scores[p] \in Int /\ p # NoPlayer
      /\ a.participants \subseteq Players /\ Nominal \in Int /\ Nominal >= 0
  BY <1>1, Parts, PlayersAssumption, PriceAssumption DEF Numbers
<1>5. Seated(c) /\ Lined(c) /\ Held(c)
  BY <1>1, <1>2, <1>3 DEF Seated, Lined, Held
<1>6. CASE Moved(x)
  <2>1. Final(x) = Settled(Moves(x))
    BY <1>6 DEF Final
  <2> QED
    BY <1>6, <2>1, MovesBetween, SettledSound
<1>7. CASE ~Moved(x) /\ Broke(x)
  <2>1. Final(x) = c
    BY <1>7 DEF Final
  <2>2. c.stake > 0 /\ scores[p] <= c.stake
    BY <1>7 DEF Broke
  <2> HIDE DEF a, c, p
  <2>3. edits # 0
    BY <1>2, <1>3, <1>4, <2>2 DEF Able
  <2> QED
    BY <1>2, <1>3, <1>5, <2>1, <2>3 DEF Sound
<1>8. CASE ~Moved(x) /\ ~Broke(x)
  <2>1. Final(x) = b
    BY <1>8 DEF Final
  <2>2. ~(a.stake > 0 /\ scores[p] <= a.stake) /\ ~(a.stake = 0 /\ scores[p] < Nominal)
    BY <1>2, <1>8 DEF Broke, Moved, Bound
  <2>3. /\ b \in Auctions
        /\ b.modes # {}
        /\ b.min = IF c.stake = 0 THEN Nominal ELSE RoundUp(c.stake + Step)
        /\ c.stake # 0 /\ c.allIn # {} => b.modes = {"pass", "allIn"}
        /\ b.sub = c.sub /\ b.participants = c.participants /\ b.active = c.active
        /\ b.hasBid = c.hasBid /\ b.allIn = c.allIn /\ b.leader = c.leader
        /\ b.order = c.order /\ b.current = c.current /\ b.stake = c.stake /\ b.tie = c.tie
    BY <1>1, OfferParts
  <2> HIDE DEF a, b, c, p
  <2>4. Seated(b) /\ Lined(b) /\ Held(b)
    BY <1>5, <2>3 DEF Seated, Lined, Held, InOrder
  <2>5. ASSUME edits = 0
        PROVE  /\ Fair(b) /\ ModesOK(b)
               /\ \A o \in (b.active \ {b.leader}) \union b.tie : Able(b, o)
    <3>1. Fair(b)
      BY <1>2, <1>3, <2>3, <2>5 DEF Fair
    <3>2. a.stake >= 0
      BY <1>3, <2>5 DEF Fair
    <3>3. Able(a, p)
      BY <1>4, <2>2, <3>2 DEF Able
    <3>4. \A o \in (b.active \ {b.leader}) \union b.tie : Able(b, o)
      <4>1. \A o \in a.active \ {a.leader} : Able(a, o)
        BY <1>3, <2>5, <3>3
      <4> QED
        BY <1>2, <2>3, <4>1 DEF Able
    <3>5. scores[p] >= Least
      BY <1>4, <3>2, <3>3 DEF Able, Least
    <3>6. b.min >= Least
      <4>1. CASE a.stake = 0
        BY <1>2, <1>4, <2>3, <4>1 DEF Least
      <4>2. CASE a.stake # 0
        <5>1. a.stake + Step \in Int /\ a.stake + Step > 0
          BY <1>4, <3>2, PriceAssumption
        <5> QED
          BY <1>2, <2>3, <4>2, <5>1, RoundUpPositive DEF Least
      <4> QED
        BY <4>1, <4>2
    <3>7. b.stake > 0 /\ b.allIn # {} => b.modes = {"pass", "allIn"}
      BY <1>2, <1>4, <2>3
    <3>8. ModesOK(b)
      BY <1>2, <2>3, <3>5, <3>6, <3>7 DEF ModesOK
    <3> QED
      BY <3>1, <3>4, <3>8
  <2>6. b.sub = "stakes"
    BY <1>2, <1>3, <2>3
  <2> QED
    BY <2>1, <2>4, <2>5, <2>6 DEF Sound
<1> QED
  BY <1>6, <1>7, <1>8

\* However long the recursion: of the calls that would come to something unsound
\* take one with the least left to do; the call it makes has less.
LEMMA AskBidSound ==
  ASSUME Numbers, NEW w \in Turns, Ready(w[1], w[2])
  PROVE  Sound(AskBid[w])
<1> DEFINE Bad == {y \in Turns : Ready(y[1], y[2]) /\ ~Sound(AskBid[y])}
           T == {Left(y) : y \in Bad}
           S == Players \union {NoPlayer}
<1>1. SUFFICES ASSUME Bad # {} PROVE FALSE
  OBVIOUS
<1>2. \A X \in T : X \subseteq S /\ IsFiniteSet(X)
  <2>1. IsFiniteSet(S)
    BY PlayersAssumption, FS_AddElement
  <2>2. \A y \in Turns : Left(y) \subseteq S
    <3> SUFFICES ASSUME NEW y \in Turns PROVE Left(y) \subseteq S
      OBVIOUS
    <3>1. y[1].active \subseteq Players
      BY Parts DEF Turns
    <3> QED
      BY <3>1 DEF Left
  <2> HIDE DEF S
  <2>3. \A X \in T : X \subseteq S
    BY <2>2
  <2> QED
    BY <2>1, <2>3, FS_Subset
<1>3. T # {}
  BY <1>1
<1> HIDE DEF T, S
<1>4. PICK X \in T : \A Y \in T : ~Within(Y, X)
  BY <1>2, <1>3, SmallestSet
<1>5. PICK y \in Bad : X = Left(y)
  BY DEF T
<1>6. y \in Turns /\ Ready(y[1], y[2]) /\ ~Sound(AskBid[y])
  OBVIOUS
<1> HIDE DEF Bad
<1>7. AskBid[y] = IF Calls(y) THEN AskBid[Called(y)] ELSE Final(y)
  BY <1>6, AskBidEquation
<1>8. Calls(y)
  BY <1>6, <1>7, FinalSound
<1> DEFINE z == Called(y)
<1>9. z \in Turns /\ z[1] = Moves(y) /\ z[2] = Asked(Moves(y))
  BY <1>6, <1>8, MovesParts DEF Called
<1>10. Between(Moves(y)) /\ Within(Left(z), Left(y))
  BY <1>6, <1>8, MovesBetween, CallsLess DEF Calls
<1>11. Ready(z[1], z[2])
  BY <1>8, <1>9, <1>10, AskedReady DEF Calls
<1>12. z \in Bad
  BY <1>6, <1>7, <1>8, <1>9, <1>11 DEF Bad
<1>13. Left(z) \in T /\ Within(Left(z), X)
  BY <1>5, <1>9, <1>10, <1>12 DEF T
<1> QED
  BY <1>4, <1>13

\* What stakeAdvance makes of an auction.
LEMMA AdvanceSound ==
  ASSUME Numbers, NEW b, Between(b)
  PROVE  Sound(Advance(b))
<1>1. b \in Auctions
  BY DEF Between, Seated
<1>2. Advance(b) = IF Asks(b) THEN AskBid[<<b, Asked(b)>>] ELSE Settled(b)
  BY <1>1, AdvanceEquation
<1>3. CASE Asks(b)
  <2> DEFINE x == <<b, Asked(b)>>
  <2>1. x \in Turns /\ x[1] = b /\ x[2] = Asked(b)
    BY <1>1, <1>3, OneOrSeveral DEF Turns, Asks
  <2>2. Ready(x[1], x[2])
    BY <1>3, <2>1, AskedReady
  <2> HIDE DEF x
  <2>3. Sound(AskBid[x])
    BY <2>1, <2>2, AskBidSound
  <2> QED
    BY <1>2, <1>3, <2>3 DEF x
<1>4. CASE ~Asks(b)
  BY <1>2, <1>4, SettledSound
<1> QED
  BY <1>3, <1>4

\* A bid that can be paid for.
LEMMA BidBetween ==
  ASSUME Numbers, NEW a, Sound(a), a.sub = "stakes",
         NEW mode \in Modes, NEW amount \in Int,
         edits = 0 => Sum(a.current, mode, amount) >= Least
  PROVE  Between(Bid(a, a.current, mode, amount))
<1> DEFINE p == a.current
           sum == Sum(p, mode, amount)
           b == Bid(a, p, mode, amount)
<1>1. a \in Auctions /\ Seated(a) /\ Lined(a) /\ Held(a)
      /\ (edits = 0 => Fair(a) /\ \A o \in (a.active \ {a.leader}) \union a.tie : Able(a, o))
  BY DEF Sound, Seated
<1>2. p \in a.participants /\ p \in Players /\ p # NoPlayer
  BY <1>1, Parts, PlayersAssumption DEF Held
<1>3. /\ b \in Auctions /\ sum \in Int
      /\ b.stake = sum /\ b.leader = p
      /\ mode = "allIn" => b.allIn = a.allIn \union {p}
      /\ mode # "allIn" => b.allIn = a.allIn
      /\ b.hasBid = a.hasBid \union {p} \union Poor(a, p, sum)
      /\ b.active = a.active \ Poor(a, p, sum)
      /\ b.sub = a.sub /\ b.participants = a.participants
      /\ b.order = a.order /\ b.current = a.current
      /\ b.modes = a.modes /\ b.min = a.min /\ b.tie = a.tie
  BY <1>1, <1>2, BidParts
<1>4. \A o \in b.active : o # p => scores[o] \in Int /\ scores[o] > sum
  BY <1>1, <1>3, Parts DEF Poor, Numbers
<1> HIDE DEF sum, b
<1>5. Seated(b)
  BY <1>1, <1>2, <1>3 DEF Seated
<1>6. Lined(b) /\ Held(b)
  BY <1>1, <1>2, <1>3 DEF Lined, Held, InOrder, Poor
<1>7. ASSUME edits = 0
      PROVE  /\ Fair(b)
             /\ \A o \in b.active \ {b.leader} : Able(b, o)
             /\ Over(b) \/ ModesOK(b)
  <2>1. sum >= Least /\ sum >= 0 /\ (sum = 0 => Nominal = 0)
    BY <1>3, <1>7 DEF sum, Least
  <2>2. Fair(b)
    BY <1>2, <1>3, <1>7, <2>1 DEF Fair
  <2>3. \A o \in b.active \ {b.leader} : Able(b, o)
    BY <1>3, <1>4, <2>1 DEF Able
  <2>4. ModesOK(b)
    <3>1. b.current = b.leader
      BY <1>3
    <3>2. b.modes # {} => scores[b.current] >= Least /\ b.min >= Least
      BY <1>3, <1>7 DEF Sound, ModesOK
    <3> QED
      BY <3>1, <3>2 DEF ModesOK
  <2> QED
    BY <2>2, <2>3, <2>4
<1>8. b.sub = "stakes"
  BY <1>3
<1> QED
  BY <1>5, <1>6, <1>7, <1>8 DEF Between, b

-----------------------------------------------------------------------------
(* The commands.                                                           *)

\* An auction with a bidder less.
LEMMA MarkedSound ==
  ASSUME Numbers, NEW a, Sound(a), a.sub = "stakes", NEW p \in Players
  PROVE  LET b == MarkPass(a, p)
         IN  /\ b \in Auctions /\ Sound(b) /\ b.sub = "stakes"
             /\ \A ts \in [Kinds -> TimerStatus] : p = a.current => Between([b EXCEPT !.timers = ts])
             /\ b.active = {b.leader} => Sound(Won(b))
<1> DEFINE b == MarkPass(a, p)
<1>1. /\ a \in Auctions /\ Seated(a) /\ Lined(a) /\ Held(a)
      /\ edits = 0 => /\ Fair(a) /\ ModesOK(a)
                      /\ \A o \in (a.active \ {a.leader}) \union a.tie : Able(a, o)
  BY DEF Sound, Seated
<1>2. /\ b \in Auctions
      /\ b.active = a.active \ {p} /\ b.hasBid = a.hasBid \union {p}
      /\ b.sub = a.sub /\ b.participants = a.participants /\ b.allIn = a.allIn
      /\ b.order = a.order /\ b.current = a.current /\ b.leader = a.leader
      /\ b.stake = a.stake /\ b.modes = a.modes /\ b.min = a.min /\ b.tie = a.tie
  BY <1>1, MarkPassParts
<1> HIDE DEF b
<1>3. Seated(b)
  BY <1>1, <1>2 DEF Seated
<1>4. Lined(b) /\ Held(b)
  BY <1>1, <1>2 DEF Lined, Held, InOrder
<1>5. edits = 0 => /\ Fair(b) /\ ModesOK(b)
                   /\ \A o \in (b.active \ {b.leader}) \union b.tie : Able(b, o)
  <2> SUFFICES ASSUME edits = 0
               PROVE  /\ Fair(b) /\ ModesOK(b)
                      /\ \A o \in (b.active \ {b.leader}) \union b.tie : Able(b, o)
    OBVIOUS
  <2>1. Fair(b) /\ ModesOK(b)
    BY <1>1, <1>2 DEF Fair, ModesOK
  <2>2. \A o \in (a.active \ {a.leader}) \union a.tie : Able(b, o)
    BY <1>1, <1>2 DEF Able
  <2> QED
    BY <1>2, <2>1, <2>2
<1>6. Sound(b) /\ b.sub = "stakes"
  BY <1>2, <1>3, <1>4, <1>5 DEF Sound
<1>7. ASSUME NEW ts \in [Kinds -> TimerStatus]
      PROVE  Between([b EXCEPT !.timers = ts])
  <2> DEFINE c == [b EXCEPT !.timers = ts]
  <2>1. /\ c \in Auctions
        /\ c.active = b.active /\ c.hasBid = b.hasBid
        /\ c.sub = b.sub /\ c.participants = b.participants /\ c.allIn = b.allIn
        /\ c.order = b.order /\ c.current = b.current /\ c.leader = b.leader
        /\ c.stake = b.stake /\ c.modes = b.modes /\ c.min = b.min /\ c.tie = b.tie
    <3>1. c \in Auctions
      BY <1>2, WithTimers
    <3> QED
      BY <1>2, <3>1 DEF Auctions
  <2> HIDE DEF c
  <2>2. Seated(c) /\ Lined(c) /\ Held(c)
    BY <1>3, <1>4, <2>1 DEF Seated, Lined, Held, InOrder
  <2>3. edits = 0 => Fair(c) /\ ModesOK(c) /\ \A o \in c.active \ {c.leader} : Able(c, o)
    BY <1>5, <2>1 DEF Fair, ModesOK, Able
  <2> QED
    BY <1>6, <2>1, <2>2, <2>3 DEF Between, c
<1>8. ASSUME b.active = {b.leader} PROVE Sound(Won(b))
  <2>1. b.leader # NoPlayer
    BY <1>2, <1>8, Parts, PlayersAssumption
  <2>2. LastBidder(Won(b))
    BY <1>2, <1>8, <2>1, WonParts DEF LastBidder
  <2> QED
    BY <1>2, <1>3, <2>2, WonParts DEF Sound, Seated
<1> QED
  BY <1>2, <1>6, <1>7, <1>8 DEF b

\* A pass, in turn or early.
LEMMA SetPassSound ==
  ASSUME Numbers, NEW a, Sound(a), a.sub = "stakes", NEW p \in Players
  PROVE  Sound(SetPass(a, p))
<1> DEFINE b == MarkPass(a, p)
           ts == StopKind(b.timers, "stakeMaking")
<1>1. a \in Auctions
  BY DEF Sound, Seated
<1>2. /\ b \in Auctions /\ Sound(b)
      /\ \A t \in [Kinds -> TimerStatus] : p = a.current => Between([b EXCEPT !.timers = t])
      /\ b.active = {b.leader} => Sound(Won(b))
  BY MarkedSound
<1>3. CASE p \notin a.active
  <2>1. SetPass(a, p) = a
    BY <1>3 DEF SetPass
  <2> QED
    BY <2>1
<1>4. CASE p \in a.active /\ a.current = p
  <2>1. SetPass(a, p) = Advance([b EXCEPT !.timers = ts])
    BY <1>4 DEF SetPass
  <2>2. ts \in [Kinds -> TimerStatus]
    BY <1>2, Parts, TimerTypes DEF Kinds
  <2> HIDE DEF b, ts
  <2>3. Between([b EXCEPT !.timers = ts])
    BY <1>2, <1>4, <2>2
  <2> QED
    BY <2>1, <2>3, AdvanceSound
<1>5. CASE p \in a.active /\ a.current # p
  <2>1. SetPass(a, p) = IF b.active = {b.leader} THEN Won(b) ELSE b
    BY <1>5 DEF SetPass
  <2> HIDE DEF b
  <2> QED
    BY <1>2, <2>1
<1> QED
  BY <1>3, <1>4, <1>5

\* An auction with other timers.
LEMMA Retimed ==
  ASSUME Numbers, NEW a, Sound(a), a.sub # "announcing", NEW ts \in [Kinds -> TimerStatus]
  PROVE  LET c == [a EXCEPT !.timers = ts]
         IN  /\ c \in Auctions /\ Sound(c) /\ c.sub = a.sub
             /\ c.active = a.active /\ c.hasBid = a.hasBid /\ c.participants = a.participants
             /\ c.allIn = a.allIn /\ c.order = a.order /\ c.current = a.current
             /\ c.leader = a.leader /\ c.stake = a.stake /\ c.modes = a.modes
             /\ c.min = a.min /\ c.tie = a.tie
<1> DEFINE c == [a EXCEPT !.timers = ts]
<1>1. a \in Auctions /\ Seated(a)
  BY DEF Sound, Seated
<1>2. c \in Auctions
  BY <1>1, WithTimers
<1>3. /\ c.sub = a.sub /\ c.answerer = a.answerer
      /\ c.active = a.active /\ c.hasBid = a.hasBid /\ c.participants = a.participants
      /\ c.allIn = a.allIn /\ c.order = a.order /\ c.current = a.current
      /\ c.leader = a.leader /\ c.stake = a.stake /\ c.modes = a.modes
      /\ c.min = a.min /\ c.tie = a.tie
  BY <1>1 DEF Auctions
<1> HIDE DEF c
<1>4. Seated(c)
  BY <1>1, <1>2, <1>3 DEF Seated
<1>5. c.sub = "content" => LastBidder(c)
  BY <1>3 DEF Sound, LastBidder
<1>6. c.sub = "stakes" => Lined(c) /\ Held(c)
  BY <1>3 DEF Sound, Lined, Held, InOrder
<1>7. c.sub = "stakes" /\ edits = 0 =>
         /\ Fair(c) /\ ModesOK(c)
         /\ \A o \in (c.active \ {c.leader}) \union c.tie : Able(c, o)
  <2> SUFFICES ASSUME c.sub = "stakes", edits = 0
               PROVE  /\ Fair(c) /\ ModesOK(c)
                      /\ \A o \in (c.active \ {c.leader}) \union c.tie : Able(c, o)
    OBVIOUS
  <2>1. /\ Fair(a) /\ ModesOK(a)
        /\ \A o \in (a.active \ {a.leader}) \union a.tie : Able(a, o)
    BY <1>3 DEF Sound
  <2> QED
    BY <1>3, <2>1 DEF Fair, ModesOK, Able
<1>8. Sound(c)
  BY <1>3, <1>4, <1>5, <1>6, <1>7 DEF Sound
<1> QED
  BY <1>2, <1>3, <1>8 DEF c


\* Soundness depends on the auction, the scores and whether they were corrected.
LEMMA SoundNext ==
  ASSUME NEW b, Sound(b), auction' = b, UNCHANGED <<scores, edits>>
  PROVE  Sound(auction)'
<1>1. Seated(auction)' <=> Seated(b)
  BY DEF Seated
<1>2. Lined(auction)' <=> Lined(b)
  BY DEF Lined, InOrder
<1>3. Held(auction)' <=> Held(b)
  BY DEF Held, InOrder
<1>4. Fair(auction)' <=> Fair(b)
  BY DEF Fair
<1>5. ModesOK(auction)' <=> ModesOK(b)
  BY DEF ModesOK
<1>6. \A o : Able(auction, o)' <=> Able(b, o)
  BY DEF Able
<1>7. LastBidder(auction)' <=> LastBidder(b)
  BY DEF LastBidder
<1> QED
  BY <1>1, <1>2, <1>3, <1>4, <1>5, <1>6, <1>7 DEF Sound

\* stakeBegin: the chooser is asked.
LEMMA BeginHolds ==
  ASSUME IInv, NEW chooser \in Players, Begin(chooser)
  PROVE  IInv'
<1>1. Numbers /\ auction = Blank /\ connected \subseteq Players
  BY DEF IInv, Numbers, Sound, Begin
<1> DEFINE part == {p \in connected : p = chooser \/ scores[p] > Nominal}
           a == [auction EXCEPT !.sub = "stakes", !.participants = part, !.active = part]
<1>2. /\ a.sub = "stakes" /\ a.participants = part /\ a.active = part
      /\ a.hasBid = {} /\ a.allIn = {} /\ a.order = <<>> /\ a.current = NoPlayer /\ a.leader = NoPlayer
      /\ a.stake = 0 /\ a.modes = {} /\ a.tie = {}
  BY <1>1 DEF Blank
<1>3. part \subseteq Players /\ chooser \in part
  BY <1>1 DEF Begin
<1>4. a \in Auctions
  <2>1. auction \in Auctions
    BY DEF IInv, Sound, Seated
  <2> QED
    BY <1>3, <2>1 DEF Auctions
<1>5. \A o \in part \ {chooser} : scores[o] \in Int /\ scores[o] > Nominal
  BY <1>1, <1>3 DEF Numbers
<1>6. auction' = AskBid[<<a, chooser>>] /\ UNCHANGED <<scores, connected, paused, edits>>
  BY DEF Begin
<1> HIDE DEF part, a
<1>7. Seated(a) /\ Lined(a)
  BY <1>2, <1>3, <1>4 DEF Seated, Lined
<1>8. Fair(a) /\ \A o \in part \ {chooser} : Able(a, o)
  <2>1. Nominal \in Int
    BY PriceAssumption
  <2> QED
    BY <1>2, <1>5, <2>1 DEF Fair, Able
<1>9. Ready(a, chooser)
  BY <1>2, <1>3, <1>7, <1>8 DEF Ready
<1> DEFINE x == <<a, chooser>>
<1>10. x \in Turns /\ x[1] = a /\ x[2] = chooser
  BY <1>4 DEF Turns
<1> HIDE DEF x
<1>11. Sound(AskBid[x])
  BY <1>1, <1>9, <1>10, AskBidSound
<1>12. Sound(auction)'
  BY <1>6, <1>11, SoundNext DEF x
<1> QED
  BY <1>6, <1>12 DEF IInv

\* stakeBegin with nobody, and MOVE: the answer is revealed.
LEMMA RevealHolds ==
  ASSUME IInv, auction' = Reveal(auction), UNCHANGED <<scores, connected, paused, edits>>
  PROVE  IInv'
<1>1. auction \in Auctions /\ Seated(auction)
  BY DEF IInv, Sound, Seated
<1>2. Sound(Reveal(auction))
  BY <1>1, RevealParts DEF Sound, Seated
<1>3. Sound(auction)'
  BY <1>2, SoundNext
<1> QED
  BY <1>3 DEF IInv

\* SET_STAKE: what is bid was on offer.
LEMMA SetStakeHolds ==
  ASSUME IInv, NEW mode \in Modes, NEW amount \in Amounts, SetStake(mode, amount)
  PROVE  IInv'
<1> DEFINE a == auction
           p == auction.current
<1>1. Numbers /\ Sound(a) /\ a.sub = "stakes" /\ amount \in Int
  BY ScoresAssumption DEF IInv, Numbers, SetStake, Bidding
<1>2. p \in Players /\ a.min \in Int /\ a.max \in Int
  BY <1>1, Parts DEF Sound, Seated, Held
<1>3. UNCHANGED <<scores, connected, paused, edits>> /\ mode \in a.modes
  BY DEF SetStake
<1>4. CASE mode = "pass"
  <2>1. auction' = SetPass(a, p)
    BY <1>4 DEF SetStake
  <2>2. Sound(SetPass(a, p))
    BY <1>1, <1>2, SetPassSound
  <2>3. Sound(auction)'
    BY <1>3, <2>1, <2>2, SoundNext
  <2> QED
    BY <1>3, <2>3 DEF IInv
<1>5. CASE mode # "pass"
  <2>1. auction' = Advance(Bid(a, p, mode, amount))
    BY <1>5 DEF SetStake
  <2>2. ASSUME edits = 0
        PROVE  Sum(p, mode, amount) >= Least
    <3>1. scores[p] >= Least /\ a.min >= Least
      BY <1>1, <1>3, <2>2 DEF Sound, ModesOK
    <3>2. mode = "stake" => amount \in a.min..a.max
      BY DEF SetStake
    <3>3. mode = "stake" => amount >= Least
      BY <1>1, <1>2, <3>1, <3>2 DEF Least
    <3>4. Nominal >= Least /\ mode \in {"nominal", "stake", "allIn"}
      BY <1>5, PriceAssumption DEF Modes, Least
    <3> QED
      BY <3>1, <3>3, <3>4 DEF Sum
  <2>3. Between(Bid(a, p, mode, amount))
    BY <1>1, <2>2, BidBetween
  <2>4. Sound(Advance(Bid(a, p, mode, amount)))
    BY <1>1, <2>3, AdvanceSound
  <2>5. Sound(auction)'
    BY <1>3, <2>1, <2>4, SoundNext
  <2> QED
    BY <1>3, <2>5 DEF IInv
<1> QED
  BY <1>4, <1>5

\* PASS, and a bidder who leaves.
LEMMA SetPassHolds ==
  ASSUME IInv, Bidding, NEW p \in Players, auction' = SetPass(auction, p), UNCHANGED <<scores, edits>>
  PROVE  Sound(auction)'
<1>1. Numbers /\ Sound(auction) /\ auction.sub = "stakes"
  BY DEF IInv, Numbers, Bidding
<1>2. Sound(SetPass(auction, p))
  BY <1>1, SetPassSound
<1> QED
  BY <1>2, SoundNext

\* PASS keeps the invariant.
LEMMA PassHolds ==
  ASSUME IInv, NEW p \in Players, Pass(p)
  PROVE  IInv'
<1>1. Sound(auction)'
  BY SetPassHolds DEF Pass
<1> QED
  BY <1>1 DEF IInv, Pass

\* A player who leaves is passed, unless he leads.
LEMMA PlayerLeftHolds ==
  ASSUME IInv, NEW p \in Players, PlayerLeft(p)
  PROVE  IInv'
<1>1. Bidding /\ UNCHANGED <<scores, paused, edits>> /\ connected' = connected \ {p}
  BY DEF PlayerLeft
<1>2. CASE p \in auction.active /\ auction.leader # p
  <2>1. auction' = SetPass(auction, p)
    BY <1>2 DEF PlayerLeft
  <2>2. Sound(auction)'
    BY <1>1, <2>1, SetPassHolds
  <2> QED
    BY <1>1, <2>2 DEF IInv
<1>3. CASE ~(p \in auction.active /\ auction.leader # p)
  <2>1. auction' = auction
    BY <1>3 DEF PlayerLeft
  <2>2. Sound(auction)'
    BY <1>1, <2>1, SoundNext DEF IInv
  <2> QED
    BY <1>1, <2>2 DEF IInv
<1> QED
  BY <1>2, <1>3

\* resolvePending: one of the tied is asked.
LEMMA ResolveTieHolds ==
  ASSUME IInv, NEW p, ResolveTie(p)
  PROVE  IInv'
<1> DEFINE ts == StopKind(auction.timers, "showmanDecision")
           a == [auction EXCEPT !.tie = {}, !.timers = ts]
           x == <<a, p>>
<1>1. /\ Numbers /\ Sound(auction) /\ auction.sub = "stakes" /\ p \in auction.tie
      /\ auction \in Auctions /\ Seated(auction) /\ Lined(auction)
      /\ edits = 0 => /\ Fair(auction)
                      /\ \A o \in (auction.active \ {auction.leader}) \union auction.tie : Able(auction, o)
  BY DEF IInv, Numbers, ResolveTie, Bidding, Sound, Seated
<1>2. ts \in [Kinds -> TimerStatus]
  BY <1>1, Parts, TimerTypes DEF Kinds
<1>3. auction' = AskBid[x] /\ UNCHANGED <<scores, connected, paused, edits>>
  <2>1. [auction EXCEPT !.tie = {}, !.timers = StopKind(@, "showmanDecision")] = a
    BY <1>1 DEF Auctions
  <2> QED
    BY <2>1 DEF ResolveTie
<1> HIDE DEF ts
<1>4. /\ a \in Auctions
      /\ a.sub = auction.sub /\ a.active = auction.active /\ a.hasBid = auction.hasBid
      /\ a.participants = auction.participants /\ a.allIn = auction.allIn /\ a.order = auction.order
      /\ a.leader = auction.leader /\ a.stake = auction.stake /\ a.tie = {}
  BY <1>1, <1>2 DEF Auctions
<1> HIDE DEF a
<1>5. p \in auction.participants /\ p \in Players
  BY <1>1, Parts DEF Seated
<1>6. Seated(a) /\ Lined(a)
  BY <1>1, <1>4 DEF Seated, Lined, InOrder
<1>7. edits = 0 => Fair(a) /\ Able(a, p) /\ \A o \in a.active \ {a.leader} : Able(a, o)
  BY <1>1, <1>4 DEF Fair, Able
<1>8. Ready(a, p)
  BY <1>1, <1>4, <1>5, <1>6, <1>7 DEF Ready
<1>9. x \in Turns /\ x[1] = a /\ x[2] = p
  BY <1>4, <1>5 DEF Turns
<1> HIDE DEF x
<1>10. Sound(AskBid[x])
  BY <1>1, <1>8, <1>9, AskBidSound
<1>11. Sound(auction)'
  BY <1>3, <1>10, SoundNext
<1> QED
  BY <1>3, <1>11 DEF IInv

\* No timer of a blank auction runs.
LEMMA Running ==
  ASSUME IInv, NEW k \in Kinds, Expires(k)
  PROVE  Numbers /\ Sound(auction) /\ auction \in Auctions /\ auction.sub # "announcing"
<1>1. Numbers /\ Sound(auction) /\ auction \in Auctions
  BY DEF IInv, Numbers, Sound, Seated
<1>2. Blank.timers[k] = "off"
  BY DEF Blank
<1> QED
  BY <1>1, <1>2 DEF Sound, Expires

\* The bidder's time is out: a pass, or the nominal bid of the opener.
LEMMA TimeoutStakeMakingHolds ==
  ASSUME IInv, TimeoutStakeMaking
  PROVE  IInv'
<1> DEFINE ts == StopKind(auction.timers, "stakeMaking")
           a == [auction EXCEPT !.timers = ts]
           p == auction.current
<1>1. Numbers /\ Sound(auction) /\ auction \in Auctions /\ auction.sub # "announcing"
  BY Running DEF TimeoutStakeMaking, Kinds
<1>2. ts \in [Kinds -> TimerStatus]
  BY <1>1, Parts, TimerTypes DEF Kinds
<1>3. UNCHANGED <<scores, connected, paused, edits>>
  BY DEF TimeoutStakeMaking
<1>4. auction' = IF auction.sub # "stakes" THEN a
                 ELSE IF "pass" \in a.modes THEN SetPass(a, a.current)
                 ELSE Advance(Bid(a, a.current, "nominal", Nominal))
  BY Zenon DEF TimeoutStakeMaking, Bidding
<1> HIDE DEF ts
<1>5. /\ Sound(a) /\ a.sub = auction.sub /\ a.current = p /\ a.modes = auction.modes
      /\ a.allIn = auction.allIn
  BY <1>1, <1>2, Retimed
<1> HIDE DEF a
<1>6. ASSUME a.sub = "stakes" PROVE a.current \in Players
  <2>1. a \in Auctions /\ a.current \in a.participants
    BY <1>5, <1>6 DEF Sound, Seated, Held
  <2> QED
    BY <2>1, Parts
<1>7. CASE auction.sub # "stakes"
  <2>1. Sound(auction)'
    BY <1>3, <1>4, <1>5, <1>7, SoundNext
  <2> QED
    BY <1>3, <2>1 DEF IInv
<1>8. CASE auction.sub = "stakes" /\ "pass" \in a.modes
  <2>1. Sound(SetPass(a, a.current))
    BY <1>1, <1>5, <1>6, <1>8, SetPassSound
  <2>2. Sound(auction)'
    BY <1>3, <1>4, <1>8, <2>1, SoundNext
  <2> QED
    BY <1>3, <2>2 DEF IInv
<1>9. CASE auction.sub = "stakes" /\ "pass" \notin a.modes
  <2>1. Nominal \in Int /\ Nominal >= Least /\ "nominal" \in Modes
    BY PriceAssumption DEF Modes, Least
  <2>2. Sum(a.current, "nominal", Nominal) = Nominal
    BY DEF Sum
  <2>3. Between(Bid(a, a.current, "nominal", Nominal))
    BY <1>1, <1>5, <1>9, <2>1, <2>2, BidBetween
  <2>4. Sound(Advance(Bid(a, a.current, "nominal", Nominal)))
    BY <1>1, <2>3, AdvanceSound
  <2>5. Sound(auction)'
    BY <1>3, <1>4, <1>9, <2>4, SoundNext
  <2> QED
    BY <1>3, <2>5 DEF IInv
<1> QED
  BY <1>7, <1>8, <1>9

\* The showman's time is out: any of the tied, or a timer left behind.
LEMMA TimeoutShowmanDecisionHolds ==
  ASSUME IInv, TimeoutShowmanDecision
  PROVE  IInv'
<1>1. Numbers /\ Sound(auction) /\ auction \in Auctions /\ auction.sub # "announcing"
  BY Running DEF TimeoutShowmanDecision, Kinds
<1>2. CASE Bidding /\ auction.tie # {}
  <2>1. PICK p \in auction.tie : ResolveTie(p)
    BY <1>2 DEF TimeoutShowmanDecision
  <2> QED
    BY <2>1, ResolveTieHolds
<1>3. CASE ~(Bidding /\ auction.tie # {})
  <2> DEFINE ts == StopKind(auction.timers, "showmanDecision")
             a == [auction EXCEPT !.timers = ts]
  <2>1. ts \in [Kinds -> TimerStatus]
    BY <1>1, Parts, TimerTypes DEF Kinds
  <2>2. auction' = a /\ UNCHANGED <<scores, connected, paused, edits>>
    <3>1. [auction EXCEPT !.timers = StopKind(@, "showmanDecision")] = a
      BY <1>1 DEF Auctions
    <3> HIDE DEF a
    <3> QED
      BY <1>3, <3>1 DEF TimeoutShowmanDecision
  <2> HIDE DEF ts
  <2>3. Sound(a)
    BY <1>1, <2>1, Retimed
  <2> HIDE DEF a
  <2>4. Sound(auction)'
    BY <2>2, <2>3, SoundNext
  <2> QED
    BY <2>2, <2>4 DEF IInv
<1> QED
  BY <1>2, <1>3

\* A pause changes the timers only.
LEMMA PauseHolds ==
  ASSUME IInv, NEW on \in BOOLEAN, Pause(on)
  PROVE  IInv'
<1> DEFINE ts == IF on THEN HoldAll(auction.timers) ELSE ReleaseAll(auction.timers)
           a == [auction EXCEPT !.timers = ts]
<1>1. Numbers /\ Sound(auction) /\ auction \in Auctions /\ auction.sub # "announcing"
  BY DEF IInv, Numbers, Pause, Bidding, Sound, Seated
<1>2. ts \in [Kinds -> TimerStatus]
  BY <1>1, Parts, TimerTypes DEF Kinds
<1>3. auction' = a /\ paused' = on /\ UNCHANGED <<scores, connected, edits>>
  <2>1. [auction EXCEPT !.timers = IF on THEN HoldAll(@) ELSE ReleaseAll(@)] = a
    BY <1>1 DEF Auctions
  <2> HIDE DEF a
  <2> QED
    BY <2>1 DEF Pause
<1> HIDE DEF ts
<1>4. Sound(a)
  BY <1>1, <1>2, Retimed
<1> HIDE DEF a
<1>5. Sound(auction)'
  BY <1>3, <1>4, SoundNext
<1> QED
  BY <1>3, <1>5 DEF IInv

\* A corrected score: who can pay is not known any more.
LEMMA ChangeScoreHolds ==
  ASSUME IInv, NEW p \in Players, NEW sum \in Scores, ChangeScore(p, sum)
  PROVE  IInv'
<1>1. /\ auction' = auction /\ connected' = connected /\ paused' = paused
      /\ scores' = [scores EXCEPT ![p] = sum] /\ edits' = edits + 1
      /\ auction.sub = "stakes"
  BY DEF ChangeScore, Bidding
<1>2. scores' \in [Players -> Int] /\ edits' \in Nat /\ edits' # 0
  BY <1>1, ScoresAssumption DEF IInv
<1>3. Seated(auction) /\ Lined(auction) /\ Held(auction)
  BY <1>1 DEF IInv, Sound
<1>4. Seated(auction)' /\ Lined(auction)' /\ Held(auction)'
  BY <1>1, <1>3 DEF Seated, Lined, Held, InOrder
<1>5. Sound(auction)'
  BY <1>1, <1>2, <1>4 DEF Sound
<1> QED
  BY <1>1, <1>2, <1>5 DEF IInv

\* A blank auction is sound.
LEMMA InitHolds ==
  ASSUME Init
  PROVE  IInv
<1>1. auction = Blank /\ scores \in [Players -> Scores] /\ connected \in SUBSET Players
      /\ paused = FALSE /\ edits = 0
  BY DEF Init, Blank
<1>2. Blank \in Auctions
  <2>1. [k \in Kinds |-> "off"] \in [Kinds -> TimerStatus]
    BY DEF TimerStatus
  <2>2. <<>> \in Seq(Players)
    OBVIOUS
  <2> QED
    BY <2>1, <2>2 DEF Blank, Auctions
<1>3. /\ Blank.sub = "announcing" /\ Blank.active = {} /\ Blank.allIn = {} /\ Blank.tie = {}
      /\ Blank.participants = {}
  BY DEF Blank
<1>4. Sound(Blank)
  BY <1>2, <1>3 DEF Sound, Seated
<1> QED
  BY <1>1, <1>4, ScoresAssumption DEF IInv

\* Every step keeps the invariant.
LEMMA NextHolds ==
  ASSUME IInv, [Next]_vars
  PROVE  IInv'
<1>1. CASE TimerStep
  BY <1>1, TimeoutStakeMakingHolds, TimeoutShowmanDecisionHolds DEF TimerStep
<1>2. CASE \E p \in Players : Begin(p) \/ Pass(p) \/ ResolveTie(p)
  BY <1>2, BeginHolds, PassHolds, ResolveTieHolds
<1>3. ASSUME NEW p \in Players, PlayerLeft(p) PROVE IInv'
  BY <1>3, PlayerLeftHolds
<1>4. ASSUME NEW p \in Players, PlayerJoined(p) PROVE IInv'
  <2>1. connected' = connected \union {p} /\ UNCHANGED <<auction, scores, paused, edits>>
    BY <1>4 DEF PlayerJoined
  <2>2. Sound(auction)'
    BY <2>1, SoundNext DEF IInv
  <2> QED
    BY <2>1, <2>2 DEF IInv
<1>5. CASE BeginAlone \/ MoveForward
  BY <1>5, RevealHolds DEF BeginAlone, MoveForward
<1>6. CASE \E mode \in Modes : \E amount \in Amounts : SetStake(mode, amount)
  BY <1>6, SetStakeHolds
<1>7. CASE \E p \in Players, sum \in Scores : ChangeScore(p, sum)
  BY <1>7, ChangeScoreHolds
<1>8. CASE \E on \in BOOLEAN : Pause(on)
  BY <1>8, PauseHolds
<1>9. CASE UNCHANGED vars
  <2>1. Sound(auction)'
    BY <1>9, SoundNext DEF IInv, vars
  <2> QED
    BY <1>9, <2>1 DEF IInv, vars
<1> QED
  BY <1>1, <1>2, <1>3, <1>4, <1>5, <1>6, <1>7, <1>8, <1>9 DEF Next
-----------------------------------------------------------------------------
(* All-in.                                                                 *)

\* An all-in leads.
AllInLeads(a) == a.leader \in a.allIn

\* A bidder who can pay is offered his bids, and nothing else changes.
LEMMA OfferedKept ==
  ASSUME Numbers, NEW x \in Turns, ~Broke(x), ~Bound(x), AllInLeads(x[1])
  PROVE  AllInLeads(AskBid[x])
<1> DEFINE c == At(x)
<1>1. x[1] \in Auctions /\ x[2] \in Players /\ c \in Auctions
  BY MovesParts
<1>2. AskBid[x] = Offer(c, x[2])
  BY AskBidEquation DEF Calls, Moved, Final
<1>3. c.leader = x[1].leader /\ c.allIn = x[1].allIn
  BY <1>1, TurnToParts DEF At
<1> HIDE DEF c
<1>4. Offer(c, x[2]).leader = c.leader /\ Offer(c, x[2]).allIn = c.allIn
  BY <1>1, OfferParts
<1> QED
  BY <1>2, <1>3, <1>4 DEF AllInLeads

\* stakeAdvance asks somebody who can pay and does not lead, so nobody is bound to
\* the nominal bid in the place of an all-in.
LEMMA AdvanceKept ==
  ASSUME Numbers, NEW b, Between(b), edits = 0, AllInLeads(b)
  PROVE  AllInLeads(Advance(b))
<1>1. b \in Auctions /\ Seated(b) /\ Fair(b)
  BY DEF Between, Seated
<1>2. Advance(b) = IF Asks(b) THEN AskBid[<<b, Asked(b)>>] ELSE Settled(b)
  BY <1>1, AdvanceEquation
<1>3. CASE Asks(b)
  <2> DEFINE z == Asked(b)
             x == <<b, z>>
  <2>1. z \in Bidders(b) /\ z \in Players
    BY <1>1, <1>3, OneOrSeveral DEF Asks
  <2>2. z \in b.active /\ z # b.leader /\ Able(b, z)
    BY <2>1, BiddersAble
  <2>3. x \in Turns /\ x[1] = b /\ x[2] = z
    BY <1>1, <2>1 DEF Turns
  <2> HIDE DEF x, z
  <2>4. At(x).stake = b.stake /\ At(x).participants = b.participants
    BY <1>1, <2>1, <2>3, TurnToParts DEF At
  <2>5. b.stake \in Int /\ scores[z] \in Int /\ Nominal \in Int
    BY <1>1, <2>1, Parts, PriceAssumption DEF Numbers
  <2>6. ~Broke(x)
    BY <2>2, <2>3, <2>4, <2>5 DEF Broke, Able
  <2>7. Cardinality(b.participants) # 1
    <3>1. IsFiniteSet(b.participants)
      BY <1>1, Parts, PlayersAssumption, FS_Subset
    <3>2. b.leader \in b.participants /\ z \in b.participants
      BY <1>1, <2>2 DEF AllInLeads, Seated
    <3>3. ASSUME NEW o, b.participants = {o} PROVE FALSE
      BY <2>2, <3>2, <3>3
    <3> QED
      BY <3>1, <3>3, FS_Singleton
  <2>8. ~Bound(x)
    BY <2>2, <2>3, <2>4, <2>5, <2>7 DEF Bound, Able
  <2>9. AllInLeads(AskBid[x])
    BY <2>3, <2>6, <2>8, OfferedKept
  <2> QED
    BY <1>2, <1>3, <2>9 DEF x, z
<1>4. CASE ~Asks(b)
  <2>1. Settled(b).leader = b.leader /\ Settled(b).allIn = b.allIn
    BY <1>1 DEF Settled, Reveal, Won, Tied, Auctions
  <2> QED
    BY <1>2, <1>4, <2>1 DEF AllInLeads
<1> QED
  BY <1>3, <1>4

\* A pass does not take the lead.
LEMMA SetPassKept ==
  ASSUME Numbers, NEW a, Sound(a), a.sub = "stakes", edits = 0, AllInLeads(a), NEW p \in Players
  PROVE  AllInLeads(SetPass(a, p))
<1> DEFINE b == MarkPass(a, p)
           ts == StopKind(b.timers, "stakeMaking")
           c == [b EXCEPT !.timers = ts]
<1>1. a \in Auctions
  BY DEF Sound, Seated
<1>2. /\ b \in Auctions /\ b.leader = a.leader /\ b.allIn = a.allIn
      /\ \A t \in [Kinds -> TimerStatus] : p = a.current => Between([b EXCEPT !.timers = t])
  BY <1>1, MarkedSound, MarkPassParts
<1>3. ts \in [Kinds -> TimerStatus]
  BY <1>2, Parts, TimerTypes DEF Kinds
<1>4. SetPass(a, p) = IF p \notin a.active THEN a
                      ELSE IF a.current = p THEN Advance(c)
                      ELSE IF b.active = {b.leader} THEN Won(b) ELSE b
  BY DEF SetPass
<1> HIDE DEF b, ts
<1>5. c.leader = b.leader /\ c.allIn = b.allIn /\ (p = a.current => Between(c))
  BY <1>2, <1>3 DEF Auctions
<1> HIDE DEF c
<1>6. p = a.current => AllInLeads(Advance(c))
  BY <1>2, <1>5, AdvanceKept DEF AllInLeads
<1>7. Won(b).leader = b.leader /\ Won(b).allIn = b.allIn
  BY <1>2, WonParts
<1> QED
  BY <1>2, <1>4, <1>6, <1>7 DEF AllInLeads

\* A bid does: it is another all-in, or of the player whose all-in it was.
LEMMA BidKept ==
  ASSUME Numbers, NEW a, Sound(a), a.sub = "stakes", edits = 0,
         NEW mode \in Modes, NEW amount \in Int,
         Sum(a.current, mode, amount) >= Least,
         mode # "allIn" => a.current \in a.allIn
  PROVE  AllInLeads(Advance(Bid(a, a.current, mode, amount)))
<1> DEFINE b == Bid(a, a.current, mode, amount)
<1>1. a \in Auctions /\ a.current \in Players
  BY Parts DEF Sound, Seated, Held
<1>2. Between(b)
  BY BidBetween
<1>3. b.leader = a.current /\ a.current \in b.allIn
  BY <1>1, BidParts
<1> HIDE DEF b
<1>4. AllInLeads(Advance(b))
  BY <1>2, <1>3, AdvanceKept DEF AllInLeads
<1> QED
  BY <1>4 DEF b

\* A bidder whose turn it is has only a pass or an all-in on offer against an all-in.
LEMMA AllInKept ==
  ASSUME IInv, Next, Bidding, edits' = 0, auction.stake > 0, AllInLeads(auction)
  PROVE  AllInLeads(auction)'
<1> DEFINE a == auction
           p == auction.current
<1>1. /\ Numbers /\ Sound(a) /\ a.sub = "stakes" /\ a \in Auctions /\ Seated(a)
      /\ edits \in Nat /\ p \in Players
  BY Parts DEF IInv, Numbers, Bidding, Sound, Seated, Held
<1>2. SUFFICES AllInLeads(auction')
  BY DEF AllInLeads
<1>3. CASE \E q \in Players, sum \in Scores : ChangeScore(q, sum)
  BY <1>1, <1>3 DEF ChangeScore
<1>4. CASE UNCHANGED edits
  <2>0. edits = 0
    BY <1>4
  <2>1. /\ a.modes # {} => scores[p] >= Least /\ a.min >= Least
        /\ p \notin a.allIn => a.modes \subseteq {"pass", "allIn"} /\ "pass" \in a.modes
        /\ \A o \in a.tie : Able(a, o)
    BY <1>1, <2>0 DEF Sound, ModesOK, AllInLeads
  <2>2. ASSUME NEW mode \in Modes, NEW amount \in Amounts, SetStake(mode, amount)
        PROVE  AllInLeads(auction')
    <3>1. mode \in a.modes /\ amount \in Int /\ a.min \in Int /\ a.max \in Int
      BY <1>1, <2>2, ScoresAssumption, Parts DEF SetStake
    <3>2. CASE mode = "pass"
      <4>1. auction' = SetPass(a, p)
        BY <2>2, <3>2 DEF SetStake
      <4> QED
        BY <1>1, <2>0, <4>1, SetPassKept
    <3>3. CASE mode # "pass"
      <4>1. auction' = Advance(Bid(a, p, mode, amount))
        BY <2>2, <3>3 DEF SetStake
      <4>2. mode # "allIn" => p \in a.allIn
        BY <2>1, <3>1, <3>3
      <4>3. mode = "stake" => amount \in a.min..a.max
        BY <2>2 DEF SetStake
      <4>4. mode = "stake" => amount >= Least
        BY <2>1, <3>1, <4>3 DEF Least
      <4>5. Nominal >= Least /\ mode \in {"nominal", "stake", "allIn"}
        BY <3>3, PriceAssumption DEF Modes, Least
      <4>6. Sum(p, mode, amount) >= Least
        BY <2>1, <3>1, <4>4, <4>5 DEF Sum
      <4> QED
        BY <1>1, <2>0, <3>1, <4>1, <4>2, <4>6, BidKept
    <3> QED
      BY <3>2, <3>3
  <2>3. ASSUME NEW q \in Players, Pass(q) \/ PlayerLeft(q)
        PROVE  AllInLeads(auction')
    <3>1. auction' = SetPass(a, q) \/ auction' = a
      BY <2>3 DEF Pass, PlayerLeft
    <3> QED
      BY <1>1, <2>0, <3>1, SetPassKept
  <2>4. ASSUME NEW q, ResolveTie(q) PROVE AllInLeads(auction')
    <3> DEFINE ts == StopKind(a.timers, "showmanDecision")
               d == [a EXCEPT !.tie = {}, !.timers = ts]
               x == <<d, q>>
    <3>1. q \in a.tie /\ q \in Players /\ Able(a, q) /\ a.stake \in Int /\ scores[q] \in Int
      BY <1>1, <2>1, <2>4, Parts DEF ResolveTie, Numbers
    <3>2. ts \in [Kinds -> TimerStatus]
      BY <1>1, Parts, TimerTypes DEF Kinds
    <3>3. auction' = AskBid[x]
      <4>1. [a EXCEPT !.tie = {}, !.timers = StopKind(@, "showmanDecision")] = d
        BY <1>1 DEF Auctions
      <4> QED
        BY <2>4, <4>1 DEF ResolveTie
    <3> HIDE DEF ts
    <3>4. d \in Auctions /\ d.leader = a.leader /\ d.allIn = a.allIn /\ d.stake = a.stake
      BY <1>1, <3>2 DEF Auctions
    <3>5. x \in Turns /\ x[1] = d /\ x[2] = q
      BY <3>1, <3>4 DEF Turns
    <3> HIDE DEF d, x
    <3>6. At(x).stake = a.stake
      BY <3>1, <3>4, <3>5, TurnToParts DEF At
    <3>7. ~Broke(x) /\ ~Bound(x)
      BY <3>1, <3>5, <3>6 DEF Broke, Bound, Able
    <3> QED
      BY <1>1, <3>3, <3>4, <3>5, <3>7, OfferedKept DEF AllInLeads
  <2>5. CASE TimeoutStakeMaking
    <3> DEFINE ts == StopKind(a.timers, "stakeMaking")
               d == [a EXCEPT !.timers = ts]
    <3>1. ts \in [Kinds -> TimerStatus]
      BY <1>1, Parts, TimerTypes DEF Kinds
    <3>2. auction' = IF "pass" \in d.modes THEN SetPass(d, d.current)
                     ELSE Advance(Bid(d, d.current, "nominal", Nominal))
      BY <2>5, Zenon DEF TimeoutStakeMaking, Bidding
    <3> HIDE DEF ts
    <3>3. /\ Sound(d) /\ d.sub = "stakes" /\ d.current = p /\ d.modes = a.modes
          /\ d.allIn = a.allIn /\ d.leader = a.leader
      BY <1>1, <3>1, Retimed
    <3> HIDE DEF d
    <3>4. CASE "pass" \in d.modes
      BY <1>1, <2>0, <3>2, <3>3, <3>4, SetPassKept DEF AllInLeads
    <3>5. CASE "pass" \notin d.modes
      <4>1. Nominal \in Int /\ Nominal >= Least /\ "nominal" \in Modes /\ "nominal" # "allIn"
        BY PriceAssumption DEF Modes, Least
      <4>2. Sum(d.current, "nominal", Nominal) = Nominal
        BY DEF Sum
      <4>3. d.current \in d.allIn
        BY <2>1, <3>3, <3>5
      <4> QED
        BY <1>1, <2>0, <3>2, <3>3, <3>5, <4>1, <4>2, <4>3, BidKept
    <3> QED
      BY <3>4, <3>5
  <2>6. CASE TimeoutShowmanDecision
    <3>1. CASE a.tie # {}
      BY <2>4, <2>6, <3>1 DEF TimeoutShowmanDecision
    <3>2. CASE a.tie = {}
      <4>1. auction' = [a EXCEPT !.timers = StopKind(@, "showmanDecision")]
        BY <2>6, <3>2 DEF TimeoutShowmanDecision
      <4> QED
        BY <1>1, <4>1 DEF AllInLeads, Auctions
    <3> QED
      BY <3>1, <3>2
  <2>7. ASSUME NEW on \in BOOLEAN, Pause(on) PROVE AllInLeads(auction')
    <3>1. \E ts : auction' = [a EXCEPT !.timers = ts]
      BY <2>7 DEF Pause
    <3> QED
      BY <1>1, <3>1 DEF AllInLeads, Auctions
  <2>8. CASE MoveForward
    BY <1>1, <2>8 DEF MoveForward, Reveal, AllInLeads, Auctions
  <2>9. ASSUME NEW q \in Players, PlayerJoined(q) PROVE AllInLeads(auction')
    BY <2>9 DEF PlayerJoined
  <2>10. ~BeginAlone /\ \A q \in Players : ~Begin(q)
    BY DEF BeginAlone, Begin, Bidding
  <2> QED
    BY <1>4, <2>2, <2>3, <2>4, <2>5, <2>6, <2>7, <2>8, <2>9, <2>10 DEF Next, TimerStep, ChangeScore
<1>5. UNCHANGED edits \/ \E q \in Players, sum \in Scores : ChangeScore(q, sum)
  BY DEF Next, TimerStep, TimeoutStakeMaking, TimeoutShowmanDecision, Begin, Pass, ResolveTie,
         PlayerLeft, PlayerJoined, BeginAlone, SetStake, Pause, MoveForward
<1> QED
  BY <1>3, <1>4, <1>5
-----------------------------------------------------------------------------
\* At every price, 0 included: who bids on is in the order of the first bids, and
\* while no score was corrected whoever may be asked can pay, what is on offer can be
\* paid for, and against a stake that is all-in it is a pass or another all-in.
THEOREM Invariant == Spec => []IInv
<1>1. Init => IInv
  BY InitHolds
<1>2. IInv /\ [Next]_vars => IInv'
  BY NextHolds
<1> QED
  BY <1>1, <1>2, PTL DEF Spec

\* The auction, the scores and the seats keep their types; whoever bids, went
\* all-in or is tied takes part; and the recursion stakeAskBid - stakeAdvance
\* has a result.
THEOREM TypeCorrect == Spec => []TypeOK
<1>1. IInv => TypeOK
  BY DEF IInv, TypeOK, Sound, Seated
<1> QED
  BY <1>1, Invariant, PTL

\* stakeWinner: the auction is not won while somebody else is bidding, and the
\* winner holds the highest bid, whatever passes, leaves, times out or is corrected.
THEOREM WonByTheLastAlways == Spec => []WonByTheLast
<1>1. IInv => WonByTheLast
  BY DEF IInv, WonByTheLast, Sound, LastBidder
<1> QED
  BY <1>1, Invariant, PTL

\* stakeApply: at any price, 0 included, and while the showman corrects no score,
\* from a stake that is all-in the lead goes to an all-in only, the nominal bid made
\* for a bidder whose time is out included.
THEOREM AllInAlwaysStands == Spec => AllInStands
<1>1. IInv /\ [Next]_vars =>
         (Bidding /\ edits' = 0 /\ auction.stake > 0 /\ auction.leader \in auction.allIn
              => auction'.leader \in auction'.allIn)
  <2> SUFFICES ASSUME IInv, [Next]_vars, Bidding, edits' = 0, auction.stake > 0,
                      auction.leader \in auction.allIn
               PROVE  auction'.leader \in auction'.allIn
    OBVIOUS
  <2>1. CASE Next
    BY <2>1, AllInKept DEF AllInLeads
  <2>2. CASE UNCHANGED vars
    BY <2>2 DEF vars
  <2> QED
    BY <2>1, <2>2
<1> QED
  BY <1>1, Invariant, PTL DEF Spec, AllInStands
=============================================================================
