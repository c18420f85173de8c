---------------------------- MODULE AppealsProofs ----------------------------
(***************************************************************************)
(* What is proved of the appeals (Appeals), for every number of players    *)
(* and questions, all prices and bounds: that a right answer is the last   *)
(* word of a question, that what is voted on still stands, that no request *)
(* is forgotten, and that the scores follow the history.                   *)
(***************************************************************************)
EXTENDS Appeals, FiniteSetTheorems, WellFoundedInduction, SequenceTheorems, TLAPS

Voters == Players \union {Showman}

Votes ==
    [kind : {"none", "for", "against"}, appellant : Persons, answerer : Persons, idx : Nat,
     total : Nat, pending : SUBSET Voters, yes : SUBSET Voters, no : SUBSET Voters]

Clocks == [Kinds -> TimerStatus]

\* The types of the question and its appeals; the others come with the scores.
Typed ==
    /\ kind \in QuestionKinds \union {"none"} /\ sub \in {"play", "reveal", "end"}
    /\ history \in Seq(Outcomes) /\ queue \in Seq(Requests) /\ appeal \in Votes
    /\ mixed \in BOOLEAN /\ connected \subseteq Players /\ timers \in Clocks

\* A request names an outcome of the history: a rejected one of the appellant,
\* or an accepted one of somebody else.
About(r, hist) ==
    /\ r.idx \in DOMAIN hist
    /\ hist[r.idx].person = r.answerer
    /\ hist[r.idx].verdict = IF r.kind = "for" THEN "wrong" ELSE "right"
    /\ r.kind = "for" <=> r.appellant = r.answerer

Queued(q, hist) == \A i \in DOMAIN q : About(q[i], hist)

\* A vote is open on an outcome that counts.
Contested(a, hist) ==
    /\ a.kind \in {"for", "against"}
    /\ About(a, hist) /\ ~hist[a.idx].reverted
    /\ a.pending \intersect (a.yes \union a.no) = {}
    /\ a.yes \intersect a.no = {}

\* Nothing reverts the outcome that is voted on, not even a question started
\* meanwhile: its history is empty, or another outcome that counts is there.
Fresh(a, hist) == a.idx \in DOMAIN hist => ~hist[a.idx].reverted

\* Whatever follows an outcome that counts as right is reverted.
Last(hist) ==
    \A i, j \in DOMAIN hist : i < j /\ hist[i].verdict = "right" => hist[i].reverted \/ hist[j].reverted

\* The vote in progress, its timer and the part of the question it is held in.
VoteInv ==
    /\ appeal = NoAppeal => timers["appellation"] = "off"
    /\ appeal # NoAppeal => appeal.kind \in {"for", "against"} /\ Fresh(appeal, history)
    /\ appeal # NoAppeal /\ ~mixed => sub = "end" /\ Contested(appeal, history)

ServedInv == sub = "end" /\ appeal = NoAppeal => queue = <<>>

\* A right answer closes the play, and only a vote appends to what is closed.
LastInv ==
    kind # "hidden" /\ ~mixed =>
        /\ Last(history)
        /\ sub = "play" => \A i \in DOMAIN history : history[i].verdict # "right"

IInv == Typed /\ Queued(queue, history) /\ VoteInv /\ ServedInv /\ LastInv
-----------------------------------------------------------------------------
(* Sets of numbers.                                                        *)

\* A set within another.
Within(Y, X) == Y \subseteq X /\ Y # X

\* Of finite sets there is one that no other is within.
LEMMA SmallestSet ==
  ASSUME NEW S, NEW T, T # {}, \A X \in T : X \subseteq S /\ IsFiniteSet(X)
  PROVE  \E X \in T : \A Y \in T : ~Within(Y, X)
<1>1. T \subseteq FiniteSubsetsOf(S)
  BY DEF FiniteSubsetsOf
<1> DEFINE R == StrictSubsetOrdering(S)
           F == FiniteSubsetsOf(S)
<1>0. IsWellFoundedOn(R, F) /\ T \subseteq F
  BY <1>1, FS_StrictSubsetOrderingWellFounded
<1> HIDE DEF R, F
<1>2. PICK X \in T : \A Y \in T : ~(<<Y, X>> \in R)
  BY <1>0, WFMin
<1>3. \A Y \in T : Within(Y, X) => <<Y, X>> \in R
  BY DEF R, StrictSubsetOrdering, Within
<1> QED
  BY <1>2, <1>3

\* A set of naturals that is not empty has a least element.
LEMMA Least ==
  ASSUME NEW S, S \subseteq Nat, S # {}
  PROVE  \E m \in S : \A x \in S : m <= x
<1> DEFINE Below(p) == {o \in S : o <= p}
           T == {Below(p) : p \in S}
<1>1. \A p \in S : IsFiniteSet(Below(p)) /\ Below(p) \subseteq S
  BY FS_BoundedSetOfNaturals
<1>2. T # {} /\ \A X \in T : X \subseteq S /\ IsFiniteSet(X)
  <2> HIDE DEF Below
  <2> QED
    BY <1>1
<1>3. PICK X \in T : \A Y \in T : ~Within(Y, X)
  <2> HIDE DEF T
  <2> QED
    BY <1>2, SmallestSet
<1>4. PICK m \in S : X = Below(m)
  OBVIOUS
<1>5. ASSUME NEW y \in S, y < m PROVE FALSE
  <2>1. m \in Nat /\ y \in Nat /\ \A o \in S : o \in Nat
    OBVIOUS
  <2>2. m \in Below(m) /\ m \notin Below(y) /\ \A o \in Below(y) : o \in Below(m)
    BY <2>1, <1>5
  <2> HIDE DEF Below
  <2>3. Within(Below(y), Below(m))
    BY <2>2 DEF Within
  <2> QED
    BY <2>3, <1>3, <1>4
<1>6. \A x \in S : m <= x
  <2> SUFFICES ASSUME NEW x \in S PROVE m <= x
    OBVIOUS
  <2>1. m \in Nat /\ x \in Nat /\ ~(x < m)
    BY <1>5
  <2> QED
    BY <2>1
<1> QED
  BY <1>6

\* LastOf takes the last of a set of indices.
LEMMA LastOfSet ==
  ASSUME NEW n \in Nat, NEW S, S \subseteq 1..n, S # {}
  PROVE  LastOf(S) \in S
<1> DEFINE R == {n - x : x \in S}
<1>1. R \subseteq Nat /\ R # {}
  <2>1. \A x \in S : n - x \in Nat
    OBVIOUS
  <2> QED
    BY <2>1
<1>2. PICK m \in R : \A x \in R : m <= x
  <2> HIDE DEF R
  <2> QED
    BY <1>1, Least
<1>3. PICK k \in S : m = n - k
  OBVIOUS
<1>4. \A j \in S : k >= j
  <2> SUFFICES ASSUME NEW j \in S PROVE k >= j
    OBVIOUS
  <2>1. n - k <= n - j /\ k \in Nat /\ j \in Nat
    BY <1>2, <1>3
  <2> QED
    BY <2>1
<1> QED
  BY <1>4 DEF LastOf
-----------------------------------------------------------------------------
(* Sums over outcomes.  MapThenSumSet is defined by recursion over the sets  *)
(* that its argument contains; what is needed of it is proved without        *)
(* induction, from a smallest set for which it would fail.                   *)

Sum(h, S) == MapThenSumSet(LAMBDA i : h[i].delta, S)

\* The recursion: the sums over all subsets of S, one element picked at a time.
Pick(s) == CHOOSE x \in s : TRUE
Rest(s) == s \ {Pick(s)}
Body(h, S, f) == [s \in SUBSET S |-> IF s = {} THEN 0 ELSE h[Pick(s)].delta + f[Rest(s)]]
Table(h, S) == CHOOSE f : f = Body(h, S, f)

\* A sum is an entry of the table of the sums over all subsets.
LEMMA SumTable ==
  ASSUME NEW h, NEW S
  PROVE  Sum(h, S) = Table(h, S)[S]
<1> QED
  BY Zenon DEF Sum, MapThenSumSet, MapThenFoldSet, Body, Pick, Rest, Table

\* What is picked is in the set, and the rest is within it.
LEMMA Picked ==
  ASSUME NEW s, s # {}
  PROVE  Pick(s) \in s /\ Within(Rest(s), s) /\ (IsFiniteSet(s) => IsFiniteSet(Rest(s)))
<1>1. Pick(s) \in s
  BY DEF Pick
<1>2. IsFiniteSet(s) => IsFiniteSet(Rest(s))
  BY FS_Difference DEF Rest
<1> QED
  BY <1>1, <1>2 DEF Within, Rest

\* What a table says of a set.
LEMMA Entry ==
  ASSUME NEW h, NEW S, NEW f, f = Body(h, S, f), NEW s, s \subseteq S
  PROVE  f[s] = IF s = {} THEN 0 ELSE h[Pick(s)].delta + f[Rest(s)]
<1>1. Body(h, S, f)[s] = IF s = {} THEN 0 ELSE h[Pick(s)].delta + f[Rest(s)]
  BY DEF Body
<1> QED
  BY <1>1, Zenon

\* Two tables agree on the finite sets they share.
LEMMA Agree ==
  ASSUME NEW h, NEW S, NEW T, NEW f, NEW g, f = Body(h, S, f), g = Body(h, T, g),
         NEW s, s \subseteq S, s \subseteq T, IsFiniteSet(s)
  PROVE  f[s] = g[s]
<1> DEFINE Bad == {X \in SUBSET s : f[X] # g[X]}
<1>1. \A X \in Bad : X \subseteq s /\ IsFiniteSet(X)
  BY FS_Subset
<1>2. SUFFICES ASSUME f[s] # g[s] PROVE FALSE
  OBVIOUS
<1>3. Bad # {}
  BY <1>2
<1>4. PICK X \in Bad : \A Y \in Bad : ~Within(Y, X)
  <2> HIDE DEF Bad
  <2> QED
    BY <1>1, <1>3, SmallestSet
<1>5. X \subseteq S /\ X \subseteq T /\ f[X] # g[X]
  OBVIOUS
<1>6. f[X] = IF X = {} THEN 0 ELSE h[Pick(X)].delta + f[Rest(X)]
  BY <1>5, Entry
<1>7. g[X] = IF X = {} THEN 0 ELSE h[Pick(X)].delta + g[Rest(X)]
  BY <1>5, Entry
<1>8. X # {}
  BY <1>5, <1>6, <1>7
<1>9. Within(Rest(X), X) /\ Rest(X) \subseteq s
  BY <1>8, Picked DEF Within
<1>10. f[Rest(X)] = g[Rest(X)]
  BY <1>4, <1>9
<1> QED
  BY <1>5, <1>6, <1>7, <1>8, <1>10

\* Every finite set has a table.
LEMMA TableExists ==
  ASSUME NEW h, NEW S, IsFiniteSet(S)
  PROVE  Table(h, S) = Body(h, S, Table(h, S))
<1> DEFINE Has(X) == Table(h, X) = Body(h, X, Table(h, X))
           Bad == {X \in SUBSET S : ~Has(X)}
<1>1. \A X \in Bad : X \subseteq S /\ IsFiniteSet(X)
  BY FS_Subset
<1>2. SUFFICES ASSUME ~Has(S) PROVE FALSE
  OBVIOUS
<1>3. Bad # {}
  BY <1>2
<1>4. PICK X \in Bad : \A Y \in Bad : ~Within(Y, X)
  <2> HIDE DEF Bad
  <2> QED
    BY <1>1, <1>3, SmallestSet
<1>5. IsFiniteSet(X) /\ X \subseteq S /\ ~Has(X)
  BY <1>1
<1>6. \A Y : Within(Y, X) => Has(Y)
  <2> SUFFICES ASSUME NEW Y, Within(Y, X) PROVE Has(Y)
    OBVIOUS
  <2>1. Y \in SUBSET S
    BY <1>5 DEF Within
  <2> QED
    BY <1>4, <2>1
<1> HIDE DEF Has, Bad
<1> DEFINE f == [s \in SUBSET X |->
                   IF s = X THEN IF X = {} THEN 0
                                 ELSE h[Pick(X)].delta + Table(h, Rest(X))[Rest(X)]
                   ELSE Table(h, s)[s]]
<1>7. \A s \in SUBSET X : f[s] = IF s = {} THEN 0 ELSE h[Pick(s)].delta + f[Rest(s)]
  <2> SUFFICES ASSUME NEW s \in SUBSET X
               PROVE  f[s] = IF s = {} THEN 0 ELSE h[Pick(s)].delta + f[Rest(s)]
    OBVIOUS
  <2>1. s # {} => /\ Within(Rest(s), X) /\ Rest(s) # X /\ Rest(s) \subseteq X
                  /\ Rest(s) \subseteq s /\ IsFiniteSet(Rest(s))
    <3>1. IsFiniteSet(s)
      BY <1>5, FS_Subset
    <3> QED
      BY <3>1, Picked DEF Within
  <2>2. s # {} => f[Rest(s)] = Table(h, Rest(s))[Rest(s)]
    BY <2>1
  <2>3. CASE s = X
    BY <2>2, <2>3
  <2>4. CASE s # X
    <3>1. Has(s) /\ f[s] = Table(h, s)[s]
      BY <1>6, <2>4 DEF Within
    <3>2. Table(h, s)[s] = IF s = {} THEN 0 ELSE h[Pick(s)].delta + Table(h, s)[Rest(s)]
      BY <3>1, Entry DEF Has
    <3>3. s # {} => Table(h, s)[Rest(s)] = Table(h, Rest(s))[Rest(s)]
      <4> SUFFICES ASSUME s # {} PROVE Table(h, s)[Rest(s)] = Table(h, Rest(s))[Rest(s)]
        OBVIOUS
      <4>1. Has(Rest(s))
        BY <1>6, <2>1
      <4> QED
        BY <2>1, <3>1, <4>1, Agree DEF Has
    <3> HIDE DEF f
    <3> QED
      BY <2>2, <3>1, <3>2, <3>3
  <2> QED
    BY <2>3, <2>4
<1>8. f = [s \in SUBSET X |-> f[s]]
  OBVIOUS
<1> HIDE DEF f
<1>9. f = Body(h, X, f)
  BY <1>7, <1>8 DEF Body
<1>10. Has(X)
  BY <1>9 DEF Has, Table
<1> QED
  BY <1>5, <1>10

\* What MapThenSumSet computes of a finite set.
LEMMA SumEquation ==
  ASSUME NEW h, NEW S, IsFiniteSet(S)
  PROVE  Sum(h, S) = IF S = {} THEN 0 ELSE h[Pick(S)].delta + Sum(h, Rest(S))
<1>1. Table(h, S) = Body(h, S, Table(h, S))
  BY TableExists
<1>2. Table(h, S)[S] = IF S = {} THEN 0 ELSE h[Pick(S)].delta + Table(h, S)[Rest(S)]
  BY <1>1, Entry
<1>3. S # {} => Table(h, S)[Rest(S)] = Table(h, Rest(S))[Rest(S)]
  <2> SUFFICES ASSUME S # {} PROVE Table(h, S)[Rest(S)] = Table(h, Rest(S))[Rest(S)]
    OBVIOUS
  <2>1. IsFiniteSet(Rest(S)) /\ Rest(S) \subseteq S
    BY Picked DEF Within
  <2>2. Table(h, Rest(S)) = Body(h, Rest(S), Table(h, Rest(S)))
    BY <2>1, TableExists
  <2> QED
    BY <1>1, <2>1, <2>2, Agree
<1> QED
  BY <1>2, <1>3, SumTable

\* Outcomes whose points are integers.
Summable(h, S) == IsFiniteSet(S) /\ \A i \in S : h[i].delta \in Int

\* A sum of integers is one.
LEMMA SumInt ==
  ASSUME NEW h, NEW S, Summable(h, S)
  PROVE  Sum(h, S) \in Int
<1> DEFINE Bad == {X \in SUBSET S : Sum(h, X) \notin Int}
<1>1. \A X \in Bad : X \subseteq S /\ IsFiniteSet(X)
  BY FS_Subset DEF Summable
<1>2. SUFFICES ASSUME Sum(h, S) \notin Int PROVE FALSE
  OBVIOUS
<1>3. Bad # {}
  BY <1>2
<1>4. PICK X \in Bad : \A Y \in Bad : ~Within(Y, X)
  <2> HIDE DEF Bad
  <2> QED
    BY <1>1, <1>3, SmallestSet
<1>5. Sum(h, X) = IF X = {} THEN 0 ELSE h[Pick(X)].delta + Sum(h, Rest(X))
  BY <1>1, SumEquation
<1>6. X # {}
  BY <1>5
<1>7. Pick(X) \in S /\ Within(Rest(X), X) /\ Rest(X) \in SUBSET S
  BY <1>6, Picked DEF Within
<1>8. Sum(h, Rest(X)) \in Int /\ h[Pick(X)].delta \in Int
  BY <1>4, <1>7 DEF Summable
<1> QED
  BY <1>5, <1>6, <1>8

\* Any element can be taken out of a sum, not only the one that is picked.
LEMMA SumRemove ==
  ASSUME NEW h, NEW S, Summable(h, S), NEW x \in S
  PROVE  Sum(h, S) = h[x].delta + Sum(h, S \ {x})
<1> DEFINE Off(X) == \E y \in X : Sum(h, X) # h[y].delta + Sum(h, X \ {y})
           Bad == {X \in SUBSET S : Off(X)}
<1>1. \A X \in Bad : X \subseteq S /\ IsFiniteSet(X)
  BY FS_Subset DEF Summable
<1>2. SUFFICES ASSUME Off(S) PROVE FALSE
  OBVIOUS
<1>3. Bad # {}
  BY <1>2
<1>4. PICK X \in Bad : \A Y \in Bad : ~Within(Y, X)
  <2> HIDE DEF Bad
  <2> QED
    BY <1>1, <1>3, SmallestSet
<1>5. PICK y \in X : Sum(h, X) # h[y].delta + Sum(h, X \ {y})
  OBVIOUS
<1>6. \A Y : Within(Y, X) => \A z \in Y : Sum(h, Y) = h[z].delta + Sum(h, Y \ {z})
  <2> SUFFICES ASSUME NEW Y, Within(Y, X), NEW z \in Y PROVE Sum(h, Y) = h[z].delta + Sum(h, Y \ {z})
    OBVIOUS
  <2>1. Y \in SUBSET S
    BY <1>1 DEF Within
  <2> QED
    BY <1>4, <2>1
<1>7. X \subseteq S /\ IsFiniteSet(X) /\ X # {}
  BY <1>1
<1> HIDE DEF Off, Bad
<1> DEFINE p == Pick(X)
<1>8. p \in X /\ Within(Rest(X), X) /\ Rest(X) = X \ {p}
  BY <1>7, Picked DEF Rest
<1>9. Sum(h, X) = h[p].delta + Sum(h, X \ {p})
  BY <1>7, <1>8, SumEquation
<1> HIDE DEF p
<1>10. y # p
  BY <1>5, <1>9
<1>11. y \in X \ {p} /\ p \in X \ {y} /\ Within(X \ {p}, X) /\ Within(X \ {y}, X)
  BY <1>5, <1>8, <1>10 DEF Within
<1>12. Sum(h, X \ {p}) = h[y].delta + Sum(h, (X \ {p}) \ {y})
  BY <1>6, <1>11
<1>13. Sum(h, X \ {y}) = h[p].delta + Sum(h, (X \ {y}) \ {p})
  BY <1>6, <1>11
<1>14. (X \ {p}) \ {y} = (X \ {y}) \ {p}
  OBVIOUS
<1> DEFINE R == (X \ {y}) \ {p}
<1>15. Sum(h, R) \in Int /\ h[p].delta \in Int /\ h[y].delta \in Int
  <2>1. Summable(h, R)
    BY <1>7, FS_Subset DEF Summable
  <2> HIDE DEF R
  <2> QED
    BY <1>5, <1>7, <1>8, <2>1, SumInt DEF Summable
<1> HIDE DEF R
<1>16. Sum(h, X) = h[p].delta + (h[y].delta + Sum(h, R))
  BY <1>9, <1>12, <1>14 DEF R
<1>17. Sum(h, X \ {y}) = h[p].delta + Sum(h, R)
  BY <1>13 DEF R
<1>18. Sum(h, X) = h[y].delta + Sum(h, X \ {y})
  BY <1>15, <1>16, <1>17
<1> QED
  BY <1>5, <1>18

\* A sum depends on the points of its outcomes alone.
LEMMA SumSame ==
  ASSUME NEW g, NEW h, NEW S, IsFiniteSet(S), \A i \in S : g[i].delta = h[i].delta
  PROVE  Sum(g, S) = Sum(h, S)
<1> DEFINE Bad == {X \in SUBSET S : Sum(g, X) # Sum(h, X)}
<1>1. \A X \in Bad : X \subseteq S /\ IsFiniteSet(X)
  BY FS_Subset
<1>2. SUFFICES ASSUME Sum(g, S) # Sum(h, S) PROVE FALSE
  OBVIOUS
<1>3. Bad # {}
  BY <1>2
<1>4. PICK X \in Bad : \A Y \in Bad : ~Within(Y, X)
  <2> HIDE DEF Bad
  <2> QED
    BY <1>1, <1>3, SmallestSet
<1>5. Sum(g, X) = IF X = {} THEN 0 ELSE g[Pick(X)].delta + Sum(g, Rest(X))
  BY <1>1, SumEquation
<1>6. Sum(h, X) = IF X = {} THEN 0 ELSE h[Pick(X)].delta + Sum(h, Rest(X))
  BY <1>1, SumEquation
<1>7. X # {}
  BY <1>5, <1>6
<1>8. Pick(X) \in S /\ Within(Rest(X), X) /\ Rest(X) \in SUBSET S
  BY <1>7, Picked DEF Within
<1>9. Sum(g, Rest(X)) = Sum(h, Rest(X)) /\ g[Pick(X)].delta = h[Pick(X)].delta
  BY <1>4, <1>8
<1> QED
  BY <1>5, <1>6, <1>7, <1>9

\* The sum over two sets without a common element is the sum of the sums.
LEMMA SumUnion ==
  ASSUME NEW h, NEW S, NEW T, Summable(h, S), Summable(h, T), S \intersect T = {}
  PROVE  Sum(h, S \union T) = Sum(h, S) + Sum(h, T)
<1> DEFINE Off(X) == Sum(h, X \union T) # Sum(h, X) + Sum(h, T)
           Bad == {X \in SUBSET S : Off(X)}
<1>1. \A X \in Bad : X \subseteq S /\ IsFiniteSet(X)
  BY FS_Subset DEF Summable
<1>2. SUFFICES ASSUME Off(S) PROVE FALSE
  OBVIOUS
<1>3. Bad # {}
  BY <1>2
<1>4. PICK X \in Bad : \A Y \in Bad : ~Within(Y, X)
  <2> HIDE DEF Bad
  <2> QED
    BY <1>1, <1>3, SmallestSet
<1>5. Off(X) /\ X \subseteq S /\ IsFiniteSet(X)
  BY <1>1
<1>6. Summable(h, X \union T) /\ Summable(h, X)
  <2>1. IsFiniteSet(X \union T)
    BY <1>5, FS_Union DEF Summable
  <2> QED
    BY <1>5, <2>1 DEF Summable
<1>7. Sum(h, T) \in Int
  BY SumInt
<1>8. X # {}
  <2> SUFFICES ASSUME X = {} PROVE FALSE
    OBVIOUS
  <2>1. Sum(h, X) = 0 /\ X \union T = T
    BY <1>5, SumEquation
  <2> QED
    BY <1>5, <1>7, <2>1
<1>9. PICK y \in X : TRUE
  BY <1>8
<1> DEFINE R == X \ {y}
<1>10. Within(R, X) /\ R \in SUBSET S /\ (X \union T) \ {y} = R \union T /\ Summable(h, R)
  <2>1. IsFiniteSet(R)
    BY <1>5, FS_Difference
  <2>2. y \notin T
    BY <1>5
  <2> QED
    BY <1>5, <1>6, <2>1, <2>2 DEF Within, Summable
<1>11. ~Off(R)
  <2> HIDE DEF Off, R
  <2> QED
    BY <1>4, <1>10
<1>12. Sum(h, X) = h[y].delta + Sum(h, R)
  BY <1>6, SumRemove
<1>13. Sum(h, X \union T) = h[y].delta + Sum(h, R \union T)
  <2>1. Sum(h, X \union T) = h[y].delta + Sum(h, (X \union T) \ {y})
    BY <1>6, SumRemove
  <2> QED
    BY <1>10, <2>1
<1>14. Sum(h, R) \in Int /\ h[y].delta \in Int
  <2> HIDE DEF R
  <2> QED
    BY <1>6, <1>10, SumInt DEF Summable
<1>15. Sum(h, R \union T) = Sum(h, R) + Sum(h, T)
  BY <1>11
<1> HIDE DEF R, Bad
<1>16. Sum(h, X \union T) = Sum(h, X) + Sum(h, T)
  BY <1>7, <1>12, <1>13, <1>14, <1>15
<1> QED
  BY <1>5, <1>16
-----------------------------------------------------------------------------
(* The timers.                                                             *)

Silent(ts) == ts \in Clocks /\ ts["appellation"] = "off"

\* The operations on the timers keep their types.
LEMMA TimerTypes ==
  ASSUME NEW ts \in Clocks, NEW k \in Kinds, NEW on
  PROVE  /\ StartTimer(ts, k, on) \in Clocks /\ StopKind(ts, k) \in Clocks
         /\ StopAllExcept(ts, {"round"}) \in Clocks /\ FreezeKinds(ts, Kinds) \in Clocks
         /\ HoldAll(ts) \in Clocks /\ ReleaseAll(ts) \in Clocks /\ Resumed(ts) \in Clocks
         /\ HeldForVote(ts) \in Clocks
<1>1. Live(on) \in TimerStatus /\ Live(paused) \in TimerStatus
  BY DEF Live, TimerStatus
<1>2. StartTimer(ts, k, on) \in Clocks /\ StopKind(ts, k) \in Clocks
  BY <1>1 DEF Clocks, StartTimer, StopKind, TimerStatus
<1>3. StopAllExcept(ts, {"round"}) \in Clocks /\ FreezeKinds(ts, Kinds) \in Clocks
  BY DEF Clocks, StopAllExcept, FreezeKinds, TimerStatus
<1>4. HoldAll(ts) \in Clocks /\ ReleaseAll(ts) \in Clocks
  BY DEF Clocks, HoldAll, ReleaseAll, TimerStatus
<1>5. Resumed(ts) \in Clocks
  BY <1>1 DEF Clocks, Resumed
<1>6. HeldForVote(ts) \in Clocks
  <2>1. FreezeKinds(ts, Kinds) \in Clocks /\ "appellation" \in Kinds
    BY <1>3 DEF Kinds
  <2> QED
    BY <2>1, <1>1 DEF HeldForVote, StartTimer, Clocks
<1> QED
  BY <1>2, <1>3, <1>4, <1>5, <1>6

\* The timer of a vote is stopped by StopKind and by stopAllExcept, and nothing but
\* a new vote starts it.
LEMMA SilentKept ==
  ASSUME NEW ts \in Clocks, NEW k \in Kinds, NEW on
  PROVE  /\ Silent(StopKind(ts, "appellation")) /\ Silent(StopAllExcept(ts, {"round"}))
         /\ Silent(ts) => /\ Silent(StopKind(ts, k)) /\ Silent(FreezeKinds(ts, Kinds))
                          /\ Silent(HoldAll(ts)) /\ Silent(ReleaseAll(ts)) /\ Silent(Resumed(ts))
                          /\ k # "appellation" => Silent(StartTimer(ts, k, on))
<1>1. "appellation" \in Kinds /\ DOMAIN ts = Kinds
  BY DEF Kinds, Clocks
<1>2. Silent(StopKind(ts, "appellation")) /\ Silent(StopAllExcept(ts, {"round"}))
  BY <1>1, TimerTypes DEF Silent, StopKind, StopAllExcept
<1>3. ASSUME Silent(ts)
      PROVE  /\ Silent(StopKind(ts, k)) /\ Silent(FreezeKinds(ts, Kinds))
             /\ Silent(HoldAll(ts)) /\ Silent(ReleaseAll(ts)) /\ Silent(Resumed(ts))
             /\ k # "appellation" => Silent(StartTimer(ts, k, on))
  <2>1. Silent(StopKind(ts, k)) /\ Silent(FreezeKinds(ts, Kinds))
    BY <1>1, <1>3, TimerTypes DEF Silent, StopKind, FreezeKinds
  <2>2. Silent(HoldAll(ts)) /\ Silent(ReleaseAll(ts)) /\ Silent(Resumed(ts))
    BY <1>1, <1>3, TimerTypes DEF Silent, HoldAll, ReleaseAll, Resumed
  <2>3. k # "appellation" => Silent(StartTimer(ts, k, on))
    BY <1>1, <1>3, TimerTypes DEF Silent, StartTimer
  <2> QED
    BY <2>1, <2>2, <2>3
<1> QED
  BY <1>2, <1>3

\* The end of a round and the way to the next question start no vote.
LEMMA OnwardIsSilent ==
  ASSUME NEW c, NEW s, NEW ts, Silent(ts),
         RoundEnds(c) \/ AskChoose(c, ts) \/ AfterQuestion(c, s, ts)
  PROVE  Silent(timers')
<1>1. ASSUME NEW d, RoundEnds(d) PROVE Silent(timers')
  BY <1>1 DEF RoundEnds, Silent, Clocks, TimerStatus, Kinds
<1>2. \A k \in {"selection", "decision"} : Silent(StartTimer(ts, k, paused))
  <2>1. \A k \in {"selection", "decision"} : k \in Kinds /\ k # "appellation"
    BY DEF Kinds
  <2>2. ts \in Clocks
    BY DEF Silent
  <2> QED
    BY <2>1, <2>2, SilentKept
<1>3. ASSUME NEW d, AskChoose(d, ts) PROVE Silent(timers')
  BY <1>2, <1>3 DEF AskChoose
<1>4. CASE AfterQuestion(c, s, ts)
  <2>1. RoundEnds(c) \/ (\E d : AskChoose(d, ts)) \/ timers' = StartTimer(ts, "decision", paused)
    BY <1>4 DEF AfterQuestion
  <2> QED
    BY <2>1, <1>1, <1>2, <1>3
<1> QED
  BY <1>1, <1>3, <1>4

\* So does the end of a vote.
LEMMA GoOnIsSilent ==
  ASSUME NEW c, NEW s, NEW changed, NEW ts, Silent(ts), GoOn(c, s, changed, ts)
  PROVE  Silent(timers')
<1>1. "round" \in Kinds
  BY DEF Kinds
<1>2. Silent(Resumed(ts))
  BY <1>1, SilentKept DEF Silent
<1>3. AfterQuestion(c, s, Resumed(ts)) \/ AskChoose(c, Resumed(ts)) \/ timers' = Resumed(ts)
  BY DEF GoOn
<1> QED
  BY <1>2, <1>3, OnwardIsSilent
-----------------------------------------------------------------------------
(* The history and the requests about it.                                  *)

\* A request stays about its outcome while persons and verdicts do.
LEMMA AboutKept ==
  ASSUME NEW g, NEW h, DOMAIN g \subseteq DOMAIN h,
         \A i \in DOMAIN g : h[i].person = g[i].person /\ h[i].verdict = g[i].verdict
  PROVE  /\ \A r : About(r, g) => About(r, h)
         /\ \A q : Queued(q, g) => Queued(q, h)
<1>1. \A r : About(r, g) => About(r, h)
  BY DEF About
<1> QED
  BY <1>1 DEF Queued

\* A request joins the queue.
LEMMA JoinsQueue ==
  ASSUME NEW hist, NEW q \in Seq(Requests), NEW r \in Requests, About(r, hist), Queued(q, hist)
  PROVE  Append(q, r) \in Seq(Requests) /\ Queued(Append(q, r), hist)
<1>1. /\ Append(q, r) \in Seq(Requests) /\ DOMAIN Append(q, r) = 1..(Len(q) + 1)
      /\ \A i \in 1..Len(q) : Append(q, r)[i] = q[i]
      /\ Append(q, r)[Len(q) + 1] = r
  BY AppendProperties
<1>2. DOMAIN q = 1..Len(q) /\ Len(q) \in Nat
  OBVIOUS
<1> QED
  BY <1>1, <1>2 DEF Queued

\* What an accepted appeal does to the history: one outcome more, the outcomes it
\* undoes reverted, and nothing else of any outcome changed.
LEMMA FlippedHistory ==
  ASSUME NEW a \in Votes, NEW hist \in Seq(Outcomes), a.idx \in DOMAIN hist
  PROVE  /\ Flipped(a, hist) \in Seq(Outcomes) /\ Len(Flipped(a, hist)) = Len(hist) + 1
         /\ Flipped(a, hist)[Len(hist) + 1] = NewOutcome(a, hist)
         /\ \A i \in DOMAIN hist :
               /\ Flipped(a, hist)[i].person = hist[i].person
               /\ Flipped(a, hist)[i].verdict = hist[i].verdict
               /\ Flipped(a, hist)[i].delta = hist[i].delta
               /\ hist[i].reverted \/ i \in Undone(a, hist) <=> Flipped(a, hist)[i].reverted
<1> DEFINE g == [i \in DOMAIN hist |-> IF i \in Undone(a, hist)
                                       THEN [hist[i] EXCEPT !.reverted = TRUE] ELSE hist[i]]
<1>1. \A i \in DOMAIN hist : hist[i] \in Outcomes
  OBVIOUS
<1>2. \A o \in Outcomes : /\ [o EXCEPT !.reverted = TRUE] \in Outcomes
                          /\ [o EXCEPT !.reverted = TRUE].person = o.person
                          /\ [o EXCEPT !.reverted = TRUE].verdict = o.verdict
                          /\ [o EXCEPT !.reverted = TRUE].delta = o.delta
                          /\ [o EXCEPT !.reverted = TRUE].reverted
  BY DEF Outcomes
<1>3. \A i \in DOMAIN hist : /\ g[i] \in Outcomes
                             /\ g[i].person = hist[i].person /\ g[i].verdict = hist[i].verdict
                             /\ g[i].delta = hist[i].delta
                             /\ hist[i].reverted \/ i \in Undone(a, hist) <=> g[i].reverted
  BY <1>1, <1>2, Zenon
<1>4. DOMAIN hist = 1..Len(hist) /\ Len(hist) \in Nat
  OBVIOUS
<1>5. g \in Seq(Outcomes) /\ Len(g) = Len(hist)
  <2>1. DOMAIN g = 1..Len(hist)
    BY <1>4
  <2> HIDE DEF g
  <2>2. g \in [1..Len(hist) -> Outcomes]
    <3>1. g = [i \in DOMAIN hist |-> g[i]]
      BY DEF g
    <3> QED
      BY <3>1, <1>3, <1>4
  <2> QED
    BY <2>1, <2>2, <1>4
<1>6. NewOutcome(a, hist) \in Outcomes
  <2>1. hist[a.idx] \in Outcomes
    OBVIOUS
  <2>2. PriceRight \in Int /\ 0 - PriceWrong \in Int
    BY NumbersAssumption
  <2> QED
    BY <2>1, <2>2 DEF NewOutcome, Outcomes, Verdicts
<1>7. Flipped(a, hist) = Append(g, NewOutcome(a, hist))
  BY DEF Flipped
<1> HIDE DEF g
<1>8. /\ Append(g, NewOutcome(a, hist)) \in Seq(Outcomes)
      /\ Len(Append(g, NewOutcome(a, hist))) = Len(g) + 1
      /\ \A i \in 1..Len(g) : Append(g, NewOutcome(a, hist))[i] = g[i]
      /\ Append(g, NewOutcome(a, hist))[Len(g) + 1] = NewOutcome(a, hist)
  BY <1>5, <1>6, AppendProperties
<1> QED
  BY <1>3, <1>4, <1>5, <1>7, <1>8

\* The right answer stays the last word under an appeal on an outcome that counts.
LEMMA FlippedLast ==
  ASSUME NEW a \in Votes, NEW hist \in Seq(Outcomes), Contested(a, hist), Last(hist), kind # "hidden"
  PROVE  Last(Flipped(a, hist))
<1> DEFINE h == Flipped(a, hist)
           n == Len(hist)
<1>1. n \in Nat /\ DOMAIN hist = 1..n /\ a.idx \in 1..n /\ a.kind \in {"for", "against"}
  BY DEF Contested, About
<1>2. /\ h \in Seq(Outcomes) /\ Len(h) = n + 1 /\ h[n + 1] = NewOutcome(a, hist)
      /\ \A i \in 1..n : h[i].verdict = hist[i].verdict
      /\ \A i \in 1..n : hist[i].reverted \/ i \in Undone(a, hist) => h[i].reverted
  BY <1>1, FlippedHistory
<1>3. h[a.idx].reverted
  BY <1>1, <1>2 DEF Undone
<1>4. \A i \in 1..n : a.kind = "for" /\ i > a.idx => h[i].reverted
  BY <1>1, <1>2 DEF Undone
<1>5. h[n + 1].verdict = IF a.kind = "for" THEN "right" ELSE "wrong"
  BY <1>2 DEF NewOutcome
<1>6. ~hist[a.idx].reverted /\ hist[a.idx].verdict = IF a.kind = "for" THEN "wrong" ELSE "right"
  BY DEF Contested, About
<1>7. DOMAIN h = 1..(n + 1)
  BY <1>2
<1> HIDE DEF h, n
<1>8. ASSUME NEW i \in 1..(n + 1), NEW j \in 1..(n + 1), i < j, h[i].verdict = "right"
      PROVE  h[i].reverted \/ h[j].reverted
  <2>1. i \in 1..n /\ hist[i].verdict = "right"
    BY <1>1, <1>2, <1>8
  <2>2. CASE j \in 1..n
    <3>1. hist[i].reverted \/ hist[j].reverted
      BY <1>1, <1>8, <2>1, <2>2 DEF Last
    <3> QED
      BY <3>1, <1>2, <2>1, <2>2
  <2>3. CASE i = a.idx
    BY <1>3, <2>3
  <2>4. CASE i < a.idx
    <3>1. hist[i].reverted \/ hist[a.idx].reverted
      BY <1>1, <2>1, <2>4 DEF Last
    <3> QED
      BY <3>1, <1>2, <1>6, <2>1
  <2>5. CASE i > a.idx /\ a.kind = "for"
    BY <1>4, <2>1, <2>5
  <2>6. CASE i > a.idx /\ a.kind = "against"
    <3>1. hist[a.idx].reverted \/ hist[i].reverted
      BY <1>1, <1>6, <2>1, <2>6 DEF Last
    <3> QED
      BY <3>1, <1>2, <1>6, <2>1
  <2>7. a.idx \in Nat /\ i \in Nat
    BY <1>1
  <2> QED
    BY <1>1, <2>3, <2>4, <2>5, <2>6, <2>7
<1>9. Last(h)
  BY <1>7, <1>8 DEF Last
<1> QED
  BY <1>9 DEF h
-----------------------------------------------------------------------------
(* Opening a vote.                                                         *)

LEMMA OpenedVote ==
  ASSUME NEW hist, NEW r \in Requests, About(r, hist), ~hist[r.idx].reverted,
         connected \subseteq Players
  PROVE  Opened(r) \in Votes /\ Opened(r) # NoAppeal /\ Contested(Opened(r), hist)
<1>1. /\ r.kind \in {"for", "against"} /\ r.appellant \in Players /\ r.answerer \in Players
      /\ r.idx \in Nat
  BY DEF Requests
<1>2. Showman \notin Players /\ IsFiniteSet(connected)
  BY PlayersAssumption, FS_Subset
<1>3. Cardinality(connected) + 1 \in Nat
  BY <1>2, FS_CardinalityType
<1>4. /\ Opened(r).kind = r.kind /\ Opened(r).appellant = r.appellant
      /\ Opened(r).answerer = r.answerer /\ Opened(r).idx = r.idx
  BY DEF Opened
<1>5. Opened(r) \in Votes
  BY <1>1, <1>3 DEF Opened, Votes, Voters, Persons
<1>6. Opened(r) # NoAppeal
  BY <1>1, <1>4 DEF NoAppeal
<1>7. About(Opened(r), hist) /\ ~hist[Opened(r).idx].reverted
  BY <1>4 DEF About
<1>8. Opened(r).pending \intersect (Opened(r).yes \union Opened(r).no) = {}
  BY DEF Opened
<1>9. Opened(r).yes \intersect Opened(r).no = {}
  BY <1>1, <1>2 DEF Opened, About
<1> QED
  BY <1>1, <1>4, <1>5, <1>6, <1>7, <1>8, <1>9 DEF Contested

\* processAppeals leaves an empty queue and no vote, or opens a vote on an outcome
\* that counts and leaves requests about the history.
LEMMA QueueServed ==
  ASSUME NEW hist, NEW q \in Seq(Requests), NEW c, NEW s, NEW ts, Queued(q, hist), Silent(ts),
         connected \subseteq Players, ProcessAppeals(q, hist, c, s, ts)
  PROVE  /\ queue' \in Seq(Requests) /\ Queued(queue', hist)
         /\ appeal' \in Votes /\ timers' \in Clocks
         /\ appeal' = NoAppeal => queue' = <<>> /\ timers'["appellation"] = "off"
         /\ appeal' # NoAppeal => Contested(appeal', hist)
<1> DEFINE standing == {i \in DOMAIN q : ~hist[q[i].idx].reverted}
           toVote == {i \in standing : ~Decided(Opened(q[i]))}
           first == CHOOSE i \in toVote : \A j \in toVote : i <= j
<1>0. /\ DOMAIN q = 1..Len(q) /\ Len(q) \in Nat /\ "round" \in Kinds /\ ts \in Clocks
      /\ \A i \in DOMAIN q : q[i] \in Requests
  BY DEF Kinds, Silent
<1>1. CASE toVote # {}
  <2>1. appeal' = Opened(q[first]) /\ queue' = SubSeq(q, first + 1, Len(q)) /\ timers' = HeldForVote(ts)
    BY <1>1 DEF ProcessAppeals
  <2>2. toVote \subseteq Nat
    BY <1>0
  <2>3. first \in toVote
    <3> HIDE DEF toVote
    <3> QED
      BY <1>1, <2>2, Least
  <2>4. first \in 1..Len(q) /\ ~hist[q[first].idx].reverted
    BY <2>3, <1>0
  <2> HIDE DEF first, toVote, standing
  <2>5. q[first] \in Requests /\ About(q[first], hist)
    BY <2>4, <1>0 DEF Queued
  <2>6. Opened(q[first]) \in Votes /\ Opened(q[first]) # NoAppeal /\ Contested(Opened(q[first]), hist)
    BY <2>4, <2>5, OpenedVote
  <2>7. /\ queue' \in Seq(Requests)
        /\ Len(queue') = IF first + 1 <= Len(q) THEN Len(q) - (first + 1) + 1 ELSE 0
        /\ \A i \in 1..(Len(q) - (first + 1) + 1) : queue'[i] = q[first + 1 + i - 1]
    <3>1. first + 1 \in Int /\ Len(q) \in Int /\ \A i \in (first + 1)..Len(q) : q[i] \in Requests
      BY <2>4, <1>0
    <3> QED
      BY <3>1, <2>1, SubSeqProperties
  <2>8. Queued(queue', hist)
    <3> SUFFICES ASSUME NEW i \in DOMAIN queue' PROVE About(queue'[i], hist)
      BY DEF Queued
    <3>1. i \in 1..Len(queue') /\ Len(queue') \in Nat
      BY <2>7
    <3>2. i \in Nat /\ first \in Nat /\ Len(q) \in Nat /\ 1 <= i /\ i <= Len(queue')
      BY <3>1, <2>4, <1>0
    <3>3. first + 1 <= Len(q) /\ i <= Len(q) - (first + 1) + 1
      BY <3>2, <2>7
    <3>4. i \in 1..(Len(q) - (first + 1) + 1) /\ first + 1 + i - 1 \in 1..Len(q)
      BY <3>2, <3>3
    <3> QED
      BY <3>4, <2>7, <1>0 DEF Queued
  <2>9. timers' \in Clocks
    BY <2>1, <1>0, TimerTypes
  <2> QED
    BY <2>1, <2>6, <2>7, <2>8, <2>9
<1>2. CASE toVote = {}
  <2>1. /\ appeal' = NoAppeal /\ queue' = <<>>
        /\ \/ GoOn(c, s, FALSE, ts)
           \/ timers' = ts
           \/ timers' = FreezeKinds(ts, Kinds)
    BY <1>2 DEF ProcessAppeals
  <2>2. Silent(timers')
    <3>1. Silent(FreezeKinds(ts, Kinds))
      BY <1>0, SilentKept
    <3> QED
      BY <2>1, <3>1, GoOnIsSilent
  <2>3. NoAppeal \in Votes
    BY DEF NoAppeal, Votes, Persons
  <2>4. Queued(<<>>, hist)
    BY DEF Queued
  <2> QED
    BY <2>1, <2>2, <2>3, <2>4 DEF Silent
<1> QED
  BY <1>1, <1>2

\* The end of a vote.
LEMMA VoteEnds ==
  ASSUME IInv, NEW a \in Votes, ~mixed => sub = "end" /\ Contested(a, history),
         connected' = connected, AppealFinish(a)
  PROVE  IInv'
<1> DEFINE flips == Accepted(a)
           won == flips /\ a.kind = "for" /\ kind # "hidden"
           c == IF won THEN history[a.idx].person ELSE chooser
           ts == StopKind(timers, "appellation")
           resume(hist, s) ==
               IF queue # <<>>
               THEN ProcessAppeals(queue, hist, c, s, ts)
               ELSE appeal' = NoAppeal /\ queue' = <<>> /\ GoOn(c, s, c # chooser, ts)
<1> USE DEF IInv
<1>0. Typed /\ "appellation" \in Kinds
  BY DEF Kinds
<1>1. CASE UNCHANGED <<requests, points, kind, sub, history, mixed, chooser, asked, tie, timers>>
  <2>1. UNCHANGED <<kind, sub, history, mixed, timers, queue, appeal, connected>>
    BY <1>1 DEF requests
  <2> QED
    BY <2>1 DEF Typed, Queued, VoteInv, ServedInv, LastInv
<1>2. ASSUME NEW hist \in Seq(Outcomes), NEW s, Queued(queue, hist), history' = hist,
             UNCHANGED <<kind, sub, mixed>>, resume(hist, s),
             kind # "hidden" /\ ~mixed => Last(hist)
      PROVE  IInv'
  <2>1. Silent(ts)
    BY <1>0, SilentKept DEF Typed
  <2>2. /\ queue' \in Seq(Requests) /\ Queued(queue', hist)
        /\ appeal' \in Votes /\ timers' \in Clocks
        /\ appeal' = NoAppeal => queue' = <<>> /\ timers'["appellation"] = "off"
        /\ appeal' # NoAppeal => Contested(appeal', hist)
    <3>1. CASE queue # <<>>
      <4>1. ProcessAppeals(queue, hist, c, s, ts)
        BY <1>2, <3>1
      <4>2. queue \in Seq(Requests) /\ connected \subseteq Players
        BY DEF Typed
      <4> HIDE DEF c, ts
      <4> QED
        BY <1>2, <2>1, <4>1, <4>2, QueueServed
    <3>2. CASE queue = <<>>
      <4>1. appeal' = NoAppeal /\ queue' = <<>> /\ GoOn(c, s, c # chooser, ts)
        BY <1>2, <3>2
      <4> HIDE DEF c, ts
      <4>2. Silent(timers')
        BY <2>1, <4>1, GoOnIsSilent
      <4>3. NoAppeal \in Votes /\ Queued(<<>>, hist)
        BY DEF NoAppeal, Votes, Persons, Queued
      <4> QED
        BY <4>1, <4>2, <4>3 DEF Silent
    <3> QED
      BY <3>1, <3>2
  <2>3. Typed'
    BY <1>2, <2>2 DEF Typed
  <2>4. Queued(queue', history')
    BY <1>2, <2>2
  <2>5. VoteInv'
    <3>1. ~mixed => sub' = "end"
      BY <1>2
    <3>2. appeal' # NoAppeal => appeal'.kind \in {"for", "against"} /\ Fresh(appeal', history')
      BY <1>2, <2>2 DEF Contested, Fresh
    <3> QED
      BY <1>2, <2>2, <3>1, <3>2 DEF VoteInv
  <2>6. ServedInv'
    BY <2>2 DEF ServedInv
  <2>7. LastInv'
    BY <1>2 DEF LastInv
  <2> QED
    BY <2>3, <2>4, <2>5, <2>6, <2>7
<1>3. CASE /\ UNCHANGED <<kind, sub, mixed, against, used>>
           /\ flips /\ a.idx \in DOMAIN history
           /\ history' = Flipped(a, history)
           /\ resume(Flipped(a, history), Rescored(a, history))
  <2> DEFINE h == Flipped(a, history)
  <2>1. history \in Seq(Outcomes) /\ queue \in Seq(Requests)
    BY DEF Typed
  <2>2. /\ h \in Seq(Outcomes) /\ Len(h) = Len(history) + 1
        /\ \A i \in DOMAIN history : /\ h[i].person = history[i].person
                                     /\ h[i].verdict = history[i].verdict
    BY <1>3, <2>1, FlippedHistory
  <2>3. kind # "hidden" /\ ~mixed => Last(h)
    BY <2>1, FlippedLast DEF LastInv
  <2>4. history' = h /\ resume(h, Rescored(a, history)) /\ UNCHANGED <<kind, sub, mixed>>
    BY <1>3
  <2> HIDE DEF h
  <2>5. DOMAIN history \subseteq DOMAIN h
    BY <2>1, <2>2
  <2>6. Queued(queue, h)
    BY <2>2, <2>5, AboutKept
  <2> HIDE DEF resume
  <2> QED
    BY <1>2, <2>2, <2>3, <2>4, <2>6
<1>4. CASE UNCHANGED <<kind, sub, mixed, history>> /\ resume(history, scores)
  <2>1. history \in Seq(Outcomes) /\ Queued(queue, history)
    BY DEF Typed
  <2>2. kind # "hidden" /\ ~mixed => Last(history)
    BY DEF LastInv
  <2>3. history' = history /\ UNCHANGED <<kind, sub, mixed>>
    BY <1>4
  <2> HIDE DEF resume
  <2> QED
    BY <1>2, <1>4, <2>1, <2>2, <2>3
<1> QED
  BY <1>1, <1>3, <1>4 DEF AppealFinish
-----------------------------------------------------------------------------
(* Requests and votes.                                                     *)

LEMMA InitHolds == Init => IInv
<1> SUFFICES ASSUME Init PROVE IInv
  OBVIOUS
<1>1. Typed
  <2>1. /\ kind = "none" /\ sub = "end" /\ history = <<>> /\ queue = <<>> /\ mixed = FALSE
        /\ connected = Players
    BY DEF Init
  <2>2. NoAppeal \in Votes
    BY DEF NoAppeal, Votes, Persons
  <2>3. timers \in Clocks
    BY DEF Init, Clocks, TimerStatus
  <2>4. appeal = NoAppeal
    BY DEF Init
  <2>5. history \in Seq(Outcomes) /\ queue \in Seq(Requests)
    BY <2>1
  <2>6. kind \in QuestionKinds \union {"none"} /\ sub \in {"play", "reveal", "end"}
    BY <2>1
  <2>7. mixed \in BOOLEAN /\ connected \subseteq Players
    BY <2>1
  <2> QED
    BY <2>2, <2>3, <2>4, <2>5, <2>6, <2>7 DEF Typed
<1>2. Queued(queue, history) /\ ServedInv
  BY DEF Init, Queued, ServedInv
<1>3. VoteInv
  BY DEF Init, VoteInv, Kinds
<1>4. LastInv
  BY DEF Init, LastInv, Last
<1> QED
  BY <1>1, <1>2, <1>3, <1>4 DEF IInv

\* A request is queued, or voted on at once after the question.
LEMMA RequestStep ==
  ASSUME IInv, NEW r \in Requests, About(r, history), Request(r),
         UNCHANGED <<kind, sub, history, mixed, connected>>
  PROVE  IInv'
<1>0. history \in Seq(Outcomes) /\ queue \in Seq(Requests) /\ Queued(queue, history) /\ timers \in Clocks
  BY DEF IInv, Typed
<1>1. Append(queue, r) \in Seq(Requests) /\ Queued(Append(queue, r), history)
  BY <1>0, JoinsQueue
<1>2. LastInv'
  BY DEF IInv, LastInv, Last
<1>3. CASE sub = "end" /\ appeal = NoAppeal
  <2>1. ProcessAppeals(Append(queue, r), history, chooser, scores, timers)
    BY <1>3 DEF Request
  <2>2. Silent(timers) /\ connected \subseteq Players
    BY <1>0, <1>3 DEF IInv, VoteInv, Silent, Typed
  <2>3. /\ queue' \in Seq(Requests) /\ Queued(queue', history)
        /\ appeal' \in Votes /\ timers' \in Clocks
        /\ appeal' = NoAppeal => queue' = <<>> /\ timers'["appellation"] = "off"
        /\ appeal' # NoAppeal => Contested(appeal', history)
    BY <1>1, <2>1, <2>2, QueueServed
  <2>4. Typed'
    BY <2>3 DEF IInv, Typed
  <2>5. VoteInv'
    <3>1. appeal' # NoAppeal => appeal'.kind \in {"for", "against"} /\ Fresh(appeal', history')
      BY <2>3 DEF Contested, Fresh
    <3> QED
      BY <1>3, <2>3, <3>1 DEF VoteInv
  <2>6. Queued(queue', history') /\ ServedInv'
    BY <2>3 DEF ServedInv
  <2> QED
    BY <1>2, <2>4, <2>5, <2>6 DEF IInv
<1>4. CASE ~(sub = "end" /\ appeal = NoAppeal)
  <2>1. queue' = Append(queue, r) /\ appeal' = appeal /\ timers' = timers
    BY <1>4 DEF Request, selection
  <2>2. Typed' /\ VoteInv' /\ Queued(queue', history')
    BY <1>1, <2>1 DEF IInv, Typed, VoteInv
  <2>3. ServedInv'
    BY <1>4, <2>1 DEF ServedInv
  <2> QED
    BY <1>2, <2>2, <2>3 DEF IInv
<1> QED
  BY <1>3, <1>4

LEMMA AppealForStep ==
  ASSUME IInv, NEW p \in Players, AppealFor(p)
  PROVE  IInv'
<1> DEFINE own == {i \in DOMAIN history : /\ history[i].person = p /\ history[i].verdict = "wrong"
                                          /\ ~history[i].reverted}
           r == [kind |-> "for", appellant |-> p, answerer |-> p, idx |-> LastOf(own)]
<1>1. own # {} /\ Request(r) /\ UNCHANGED <<kind, sub, history, mixed, connected>>
  BY DEF AppealFor
<1>2. DOMAIN history = 1..Len(history) /\ Len(history) \in Nat
  BY DEF IInv, Typed
<1>3. own \subseteq 1..Len(history)
  BY <1>2
<1>4. LastOf(own) \in own
  <2> HIDE DEF own
  <2> QED
    BY <1>1, <1>2, <1>3, LastOfSet
<1>5. LastOf(own) \in DOMAIN history /\ LastOf(own) \in Nat
  BY <1>2, <1>4
<1>6. history[LastOf(own)].person = p /\ history[LastOf(own)].verdict = "wrong"
  BY <1>4
<1> HIDE DEF own
<1>7. r \in Requests /\ About(r, history)
  BY <1>5, <1>6 DEF Requests, About
<1> HIDE DEF r
<1> QED
  BY <1>1, <1>7, RequestStep

LEMMA AppealAgainstStep ==
  ASSUME IInv, NEW p \in Players, AppealAgainst(p)
  PROVE  IInv'
<1> DEFINE rights == {i \in DOMAIN history : history[i].verdict = "right" /\ ~history[i].reverted}
           o == history[LastOf(rights)]
           r == [kind |-> "against", appellant |-> p, answerer |-> o.person, idx |-> LastOf(rights)]
<1>1. /\ rights # {} /\ Request(r) /\ UNCHANGED <<kind, sub, history, mixed, connected>>
      /\ o.person # p
  BY DEF AppealAgainst
<1>2. DOMAIN history = 1..Len(history) /\ Len(history) \in Nat /\ history \in Seq(Outcomes)
  BY DEF IInv, Typed
<1>3. rights \subseteq 1..Len(history)
  BY <1>2
<1>4. LastOf(rights) \in rights
  <2> HIDE DEF rights
  <2> QED
    BY <1>1, <1>2, <1>3, LastOfSet
<1>5. LastOf(rights) \in DOMAIN history /\ LastOf(rights) \in Nat
  BY <1>2, <1>4
<1>6. o.verdict = "right" /\ o \in Outcomes
  BY <1>2, <1>4, <1>5
<1> HIDE DEF rights
<1>7. r \in Requests /\ About(r, history)
  BY <1>1, <1>5, <1>6 DEF Requests, About, Outcomes
<1> HIDE DEF r
<1> QED
  BY <1>1, <1>7, RequestStep

LEMMA VoteStep ==
  ASSUME IInv, NEW p \in Players, NEW yes \in BOOLEAN, VoteAppeal(p, yes)
  PROVE  IInv'
<1> DEFINE a == [appeal EXCEPT !.pending = @ \ {p},
                               !.yes = IF yes THEN @ \union {p} ELSE @,
                               !.no = IF yes THEN @ ELSE @ \union {p}]
<1>1. appeal \in Votes /\ p \in appeal.pending
  BY DEF IInv, Typed, VoteAppeal
<1>2. /\ a.kind = appeal.kind /\ a.appellant = appeal.appellant /\ a.answerer = appeal.answerer
      /\ a.idx = appeal.idx /\ a.total = appeal.total /\ a.pending = appeal.pending \ {p}
      /\ a.yes = IF yes THEN appeal.yes \union {p} ELSE appeal.yes
      /\ a.no = IF yes THEN appeal.no ELSE appeal.no \union {p}
  BY <1>1 DEF Votes
<1>3. a \in Votes
  <2>1. \A y \in SUBSET Voters, n \in SUBSET Voters, e \in SUBSET Voters :
           [appeal EXCEPT !.pending = e, !.yes = y, !.no = n] \in Votes
    BY <1>1 DEF Votes
  <2>2. appeal.pending \ {p} \in SUBSET Voters
    BY <1>1 DEF Votes
  <2>3. (IF yes THEN appeal.yes \union {p} ELSE appeal.yes) \in SUBSET Voters
    BY <1>1 DEF Votes, Voters
  <2>4. (IF yes THEN appeal.no ELSE appeal.no \union {p}) \in SUBSET Voters
    BY <1>1 DEF Votes, Voters
  <2> QED
    BY <2>1, <2>2, <2>3, <2>4
<1>4. appeal # NoAppeal
  BY <1>1 DEF NoAppeal
<1>5. ~mixed => sub = "end" /\ Contested(a, history)
  <2> SUFFICES ASSUME ~mixed PROVE sub = "end" /\ Contested(a, history)
    OBVIOUS
  <2>1. sub = "end" /\ Contested(appeal, history)
    BY <1>4 DEF IInv, VoteInv
  <2>2. About(a, history)
    BY <1>2, <2>1 DEF Contested, About
  <2>3. a.pending \intersect (a.yes \union a.no) = {} /\ a.yes \intersect a.no = {}
    BY <1>1, <1>2, <2>1 DEF Contested
  <2> QED
    BY <1>2, <2>1, <2>2, <2>3 DEF Contested
<1>6. connected' = connected
  BY DEF VoteAppeal
<1>7. CASE Decided(a)
  <2>1. AppealFinish(a)
    BY <1>7 DEF VoteAppeal
  <2> HIDE DEF a
  <2> QED
    BY <1>3, <1>5, <1>6, <2>1, VoteEnds
<1>8. CASE ~Decided(a)
  <2>1. appeal' = a /\ UNCHANGED <<queue, timers, kind, sub, history, mixed>>
    BY <1>8 DEF VoteAppeal, selection
  <2>2. a.kind \in {"for", "against"}
    BY <1>2, <1>4 DEF IInv, VoteInv
  <2>3. a # NoAppeal /\ Fresh(a, history)
    BY <1>2, <1>4, <2>2 DEF IInv, VoteInv, NoAppeal, Fresh
  <2> HIDE DEF a
  <2>4. Typed' /\ Queued(queue', history')
    BY <1>3, <1>6, <2>1 DEF IInv, Typed
  <2>5. VoteInv' /\ ServedInv'
    BY <1>5, <2>1, <2>2, <2>3 DEF VoteInv, ServedInv
  <2>6. LastInv'
    BY <2>1 DEF IInv, LastInv
  <2> QED
    BY <2>4, <2>5, <2>6 DEF IInv
<1> QED
  BY <1>7, <1>8

LEMMA TimeoutStep ==
  ASSUME IInv, TimeoutAppellation
  PROVE  IInv'
<1>1. timers["appellation"] = "run" /\ connected' = connected /\ AppealFinish(appeal)
  BY DEF TimeoutAppellation, Expires
<1>2. appeal \in Votes /\ (~mixed => sub = "end" /\ Contested(appeal, history))
  BY <1>1 DEF IInv, Typed, VoteInv
<1> QED
  BY <1>1, <1>2, VoteEnds
-----------------------------------------------------------------------------
(* The question and the selection around the appeals.                      *)

\* A step that leaves the appeals and the question alone.
LEMMA AsideStep ==
  ASSUME IInv, UNCHANGED <<appeal, queue, history, kind, sub, mixed>>,
         connected' \subseteq Players, timers' \in Clocks,
         appeal = NoAppeal => timers'["appellation"] = "off"
  PROVE  IInv'
<1>1. Typed' /\ Queued(queue', history')
  BY DEF IInv, Typed
<1>2. VoteInv' /\ ServedInv' /\ LastInv'
  BY DEF IInv, VoteInv, ServedInv, LastInv
<1> QED
  BY <1>1, <1>2 DEF IInv

LEMMA StartQuestionStep ==
  ASSUME IInv, NEW k \in QuestionKinds, StartQuestion(k)
  PROVE  IInv'
<1>1. /\ kind' = k /\ sub' = "play" /\ history' = <<>> /\ queue' = <<>>
      /\ mixed' = (mixed \/ appeal # NoAppeal) /\ appeal' = appeal /\ connected' = connected
      /\ timers' = StopKind(timers, "selection")
  BY DEF StartQuestion
<1>2. timers \in Clocks /\ appeal \in Votes /\ connected \subseteq Players /\ "selection" \in Kinds
  BY DEF IInv, Typed, Kinds
<1>3. timers' \in Clocks /\ (Silent(timers) => Silent(timers'))
  BY <1>1, <1>2, TimerTypes, SilentKept
<1>4. Typed'
  <2>1. history' \in Seq(Outcomes) /\ queue' \in Seq(Requests) /\ mixed' \in BOOLEAN
    BY <1>1
  <2> QED
    BY <1>1, <1>2, <1>3, <2>1 DEF Typed
<1>5. VoteInv'
  <2>1. appeal = NoAppeal => Silent(timers)
    BY <1>2 DEF IInv, VoteInv, Silent
  <2>2. ~mixed' => appeal' = NoAppeal
    BY <1>1
  <2> QED
    BY <1>1, <1>3, <2>1, <2>2 DEF IInv, VoteInv, Silent, Fresh
<1>6. Queued(queue', history') /\ ServedInv' /\ LastInv'
  BY <1>1 DEF Queued, ServedInv, LastInv, Last
<1> QED
  BY <1>4, <1>5, <1>6 DEF IInv

\* The reveal stops every timer but the one of the round.
LEMMA RevealStep ==
  ASSUME IInv, Reveal, sub = "play", UNCHANGED <<appeal, queue, history, kind, mixed, connected>>
  PROVE  IInv'
<1>1. sub' = "reveal" /\ timers' = StopAllExcept(timers, {"round"})
  BY DEF Reveal
<1>2. Silent(timers')
  <2>1. timers \in Clocks /\ "round" \in Kinds
    BY DEF IInv, Typed, Kinds
  <2> QED
    BY <1>1, <2>1, SilentKept
<1>3. Typed' /\ Queued(queue', history')
  BY <1>1, <1>2 DEF IInv, Typed, Silent
<1>4. VoteInv' /\ ServedInv'
  BY <1>1, <1>2 DEF IInv, VoteInv, ServedInv, Silent
<1>5. LastInv'
  BY <1>1 DEF IInv, LastInv
<1> QED
  BY <1>3, <1>4, <1>5 DEF IInv

LEMMA JudgeStep ==
  ASSUME IInv, NEW p \in Players, NEW v \in Verdicts, Judge(p, v)
  PROVE  IInv'
<1> DEFINE delta == CASE v = "right" -> PriceRight [] v = "wrong" -> 0 - PriceWrong [] v = "pass" -> 0
           o == [person |-> p, verdict |-> v, reverted |-> FALSE, delta |-> delta]
           n == Len(history)
<1>1. /\ sub = "play" /\ history' = Append(history, o)
      /\ IF v = "right" /\ kind # "hidden" THEN Reveal ELSE UNCHANGED <<sub, timers>>
      /\ UNCHANGED <<appeal, queue, kind, mixed, connected>>
  BY DEF Judge, requests
<1>2. history \in Seq(Outcomes) /\ n \in Nat /\ DOMAIN history = 1..n
  BY DEF IInv, Typed
<1>3. o \in Outcomes
  <2>1. delta \in Int
    BY NumbersAssumption DEF Verdicts
  <2> HIDE DEF delta
  <2> QED
    BY <2>1 DEF Outcomes
<1>4. o.verdict = v /\ ~o.reverted
  OBVIOUS
<1> HIDE DEF o
<1>5. /\ history' \in Seq(Outcomes) /\ Len(history') = n + 1 /\ DOMAIN history' = 1..(n + 1)
      /\ \A i \in 1..n : history'[i] = history[i]
      /\ history'[n + 1] = o
  BY <1>1, <1>2, <1>3, AppendProperties
<1> HIDE DEF n
<1>6. Queued(queue', history')
  <2>1. DOMAIN history \subseteq DOMAIN history'
    BY <1>2, <1>5
  <2>2. \A i \in DOMAIN history : /\ history'[i].person = history[i].person
                                  /\ history'[i].verdict = history[i].verdict
    BY <1>2, <1>5
  <2>3. Queued(queue, history)
    BY DEF IInv
  <2> QED
    BY <1>1, <2>1, <2>2, <2>3, AboutKept
<1>7. kind # "hidden" /\ ~mixed => Last(history')
  <2> SUFFICES ASSUME kind # "hidden", ~mixed, NEW i \in 1..(n + 1), NEW j \in 1..(n + 1), i < j,
                      history'[i].verdict = "right"
               PROVE  FALSE
    BY <1>5 DEF Last
  <2>1. i \in 1..n
    BY <1>2
  <2> QED
    BY <1>1, <1>2, <1>5, <2>1 DEF IInv, LastInv
<1>8. ~mixed => appeal = NoAppeal
  BY <1>1 DEF IInv, VoteInv
<1>9. appeal # NoAppeal => Fresh(appeal', history')
  <2> SUFFICES ASSUME appeal # NoAppeal, appeal.idx \in 1..(n + 1), history'[appeal.idx].reverted
               PROVE  FALSE
    BY <1>1, <1>5 DEF Fresh
  <2>1. appeal.idx = n + 1
    BY <1>2, <1>5 DEF IInv, VoteInv, Fresh
  <2> QED
    BY <1>4, <1>5, <2>1
<1>10. CASE v = "right" /\ kind # "hidden"
  <2>1. sub' = "reveal" /\ timers' = StopAllExcept(timers, {"round"})
    BY <1>1, <1>10 DEF Reveal
  <2>2. Silent(timers')
    <3>1. timers \in Clocks /\ "round" \in Kinds
      BY DEF IInv, Typed, Kinds
    <3> QED
      BY <2>1, <3>1, SilentKept
  <2>3. Typed'
    BY <1>1, <1>5, <2>1, <2>2 DEF IInv, Typed, Silent
  <2>4. VoteInv' /\ ServedInv' /\ LastInv'
    BY <1>1, <1>7, <1>8, <1>9, <2>1, <2>2 DEF IInv, VoteInv, ServedInv, LastInv, Silent
  <2> QED
    BY <1>6, <2>3, <2>4 DEF IInv
<1>11. CASE ~(v = "right" /\ kind # "hidden")
  <2>1. UNCHANGED <<sub, timers>>
    BY <1>1, <1>11
  <2>2. Typed'
    BY <1>1, <1>5, <2>1 DEF IInv, Typed
  <2>3. VoteInv' /\ ServedInv'
    BY <1>1, <1>8, <1>9, <2>1 DEF IInv, VoteInv, ServedInv
  <2>4. kind # "hidden" /\ ~mixed => \A i \in DOMAIN history' : history'[i].verdict # "right"
    <3> SUFFICES ASSUME kind # "hidden", ~mixed, NEW i \in 1..(n + 1)
                 PROVE  history'[i].verdict # "right"
      BY <1>5
    <3>1. CASE i \in 1..n
      BY <1>1, <1>2, <1>5, <3>1 DEF IInv, LastInv
    <3>2. CASE i = n + 1
      BY <1>4, <1>5, <1>11, <3>2
    <3> QED
      BY <1>2, <3>1, <3>2
  <2>5. LastInv'
    BY <1>1, <1>7, <2>4 DEF LastInv
  <2> QED
    BY <1>6, <2>2, <2>3, <2>5 DEF IInv
<1> QED
  BY <1>10, <1>11

LEMMA EndQuestionStep ==
  ASSUME IInv, EndQuestion
  PROVE  IInv'
<1> DEFINE ts == StopAllExcept(timers, {"round"})
<1>1. sub = "reveal" /\ sub' = "end" /\ UNCHANGED <<kind, history, mixed, connected>>
  BY DEF EndQuestion
<1>2. history \in Seq(Outcomes) /\ queue \in Seq(Requests) /\ Queued(queue, history)
      /\ connected \subseteq Players /\ timers \in Clocks /\ "round" \in Kinds
  BY DEF IInv, Typed, Kinds
<1>3. Silent(ts)
  BY <1>2, SilentKept
<1>4. ~mixed => appeal = NoAppeal
  BY <1>1 DEF IInv, VoteInv
<1>5. LastInv'
  BY <1>1 DEF IInv, LastInv
<1>6. CASE appeal # NoAppeal
  <2>1. timers' = ts /\ UNCHANGED <<appeal, queue>>
    BY <1>6 DEF EndQuestion
  <2> HIDE DEF ts
  <2>2. Typed' /\ Queued(queue', history')
    BY <1>1, <1>3, <2>1 DEF IInv, Typed, Silent
  <2>3. VoteInv' /\ ServedInv'
    BY <1>1, <1>4, <1>6, <2>1 DEF IInv, VoteInv, ServedInv
  <2> QED
    BY <1>5, <2>2, <2>3 DEF IInv
<1>7. CASE appeal = NoAppeal /\ queue # <<>>
  <2>1. ProcessAppeals(queue, history, chooser, scores, ts)
    BY <1>7 DEF EndQuestion
  <2> HIDE DEF ts
  <2>2. /\ queue' \in Seq(Requests) /\ Queued(queue', history)
        /\ appeal' \in Votes /\ timers' \in Clocks
        /\ appeal' = NoAppeal => queue' = <<>> /\ timers'["appellation"] = "off"
        /\ appeal' # NoAppeal => Contested(appeal', history)
    BY <1>2, <1>3, <2>1, QueueServed
  <2>3. Typed' /\ Queued(queue', history') /\ ServedInv'
    BY <1>1, <2>2 DEF IInv, Typed, ServedInv
  <2>4. VoteInv'
    <3>1. appeal' # NoAppeal => appeal'.kind \in {"for", "against"} /\ Fresh(appeal', history')
      BY <1>1, <2>2 DEF Contested, Fresh
    <3> QED
      BY <1>1, <2>2, <3>1 DEF VoteInv
  <2> QED
    BY <1>5, <2>3, <2>4 DEF IInv
<1>8. CASE appeal = NoAppeal /\ queue = <<>>
  <2>1. AfterQuestion(chooser, scores, ts) /\ UNCHANGED <<appeal, queue>>
    BY <1>8 DEF EndQuestion
  <2> HIDE DEF ts
  <2>2. Silent(timers')
    BY <1>3, <2>1, OnwardIsSilent
  <2>3. Typed' /\ Queued(queue', history') /\ ServedInv'
    BY <1>1, <1>8, <2>1, <2>2 DEF IInv, Typed, ServedInv, Silent
  <2>4. VoteInv'
    BY <1>8, <2>1, <2>2 DEF VoteInv, Silent
  <2> QED
    BY <1>5, <2>3, <2>4 DEF IInv
<1> QED
  BY <1>6, <1>7, <1>8

LEMMA TimeoutRoundStep ==
  ASSUME IInv, TimeoutRound
  PROVE  IInv'
<1>1. UNCHANGED <<appeal, queue, history, kind, sub, mixed, connected>>
  BY DEF TimeoutRound, requests
<1>2. timers \in Clocks /\ connected \subseteq Players /\ "round" \in Kinds
  BY DEF IInv, Typed, Kinds
<1>3. RoundEnds(chooser) \/ timers' = StopKind(timers, "round")
  BY DEF TimeoutRound
<1>4. timers' \in Clocks /\ (Silent(timers) => Silent(timers'))
  <2>1. StopKind(timers, "round") \in Clocks /\ (Silent(timers) => Silent(StopKind(timers, "round")))
    BY <1>2, TimerTypes, SilentKept
  <2>2. RoundEnds(chooser) => Silent(timers')
    BY DEF RoundEnds, Silent, Clocks, TimerStatus, Kinds
  <2> QED
    BY <1>3, <2>1, <2>2 DEF Silent
<1> QED
  BY <1>1, <1>2, <1>4, AsideStep DEF IInv, VoteInv, Silent

LEMMA MoveBackStep ==
  ASSUME IInv, MoveBack
  PROVE  IInv'
<1> DEFINE s == [p \in Players |-> scores[p] - MapThenSumSet(LAMBDA i : history[i].delta, Given(p))]
           ts == StopAllExcept(timers, {"round"})
<1>1. /\ sub # "end" /\ kind' = "none" /\ sub' = "end" /\ history' = <<>> /\ queue' = <<>>
      /\ UNCHANGED <<appeal, mixed, connected>> /\ AfterQuestion(chooser, s, ts)
  BY DEF MoveBack
<1>2. Silent(timers')
  <2>1. timers \in Clocks /\ "round" \in Kinds
    BY DEF IInv, Typed, Kinds
  <2>2. Silent(ts)
    BY <2>1, SilentKept
  <2> HIDE DEF s, ts
  <2> QED
    BY <1>1, <2>2, OnwardIsSilent
<1> HIDE DEF s, ts
<1>3. Typed'
  <2>1. history' \in Seq(Outcomes) /\ queue' \in Seq(Requests)
    BY <1>1
  <2> QED
    BY <1>1, <1>2, <2>1 DEF IInv, Typed, Silent
<1>4. VoteInv'
  BY <1>1, <1>2 DEF IInv, VoteInv, Silent, Fresh
<1>5. Queued(queue', history') /\ ServedInv' /\ LastInv'
  BY <1>1 DEF Queued, ServedInv, LastInv, Last
<1> QED
  BY <1>3, <1>4, <1>5 DEF IInv

\* The showman and the clock settle who chooses: the selection is asked again.
LEMMA AskedAgain ==
  ASSUME IInv, NEW c, NEW k \in Kinds, UNCHANGED <<appeal, queue, history, kind, sub, mixed, connected>>,
         AskChoose(c, StopKind(timers, k))
  PROVE  IInv'
<1> DEFINE ts == StopKind(timers, k)
<1>1. timers \in Clocks /\ connected \subseteq Players /\ "selection" \in Kinds
  BY DEF IInv, Typed, Kinds
<1>2. ts \in Clocks /\ (Silent(timers) => Silent(ts))
  BY <1>1, TimerTypes, SilentKept
<1>3. timers' = StartTimer(ts, "selection", paused)
  BY DEF AskChoose
<1> HIDE DEF ts
<1>4. timers' \in Clocks /\ (Silent(timers) => Silent(timers'))
  BY <1>1, <1>2, <1>3, TimerTypes, SilentKept
<1> QED
  BY <1>1, <1>4, AsideStep DEF IInv, VoteInv, Silent

LEMMA StaffSteps ==
  ASSUME IInv, StaffStep \/ ShowAnswer \/ (\E p \in Players : ResolveTie(p))
  PROVE  IInv'
<1>1. timers \in Clocks /\ connected \subseteq Players /\ "round" \in Kinds /\ "decision" \in Kinds
  BY DEF IInv, Typed, Kinds
<1>2. appeal = NoAppeal => Silent(timers)
  BY <1>1 DEF IInv, VoteInv, Silent
<1>3. CASE MoveOn
  <2>1. /\ UNCHANGED <<appeal, queue, history, kind, sub, mixed, connected>> /\ appeal = NoAppeal
        /\ AfterQuestion(chooser, scores, timers)
    BY <1>3 DEF MoveOn, requests
  <2>2. Silent(timers')
    BY <1>2, <2>1, OnwardIsSilent
  <2> QED
    BY <1>1, <2>1, <2>2, AsideStep DEF Silent
<1>4. CASE MoveBack
  BY <1>4, MoveBackStep
<1>5. CASE MoveRound
  <2>1. UNCHANGED <<appeal, queue, history, kind, sub, mixed, connected>> /\ RoundEnds(chooser)
    BY <1>5 DEF MoveRound, requests
  <2>2. Silent(timers')
    BY <2>1 DEF RoundEnds, Silent, Clocks, TimerStatus, Kinds
  <2> QED
    BY <1>1, <2>1, <2>2, AsideStep DEF Silent
<1>6. ASSUME NEW p \in Players, ResolveTie(p) PROVE IInv'
  <2>1. /\ UNCHANGED <<appeal, queue, history, kind, sub, mixed, connected>>
        /\ AskChoose(p, StopKind(timers, "decision"))
    BY <1>6 DEF ResolveTie, requests
  <2> QED
    BY <1>1, <2>1, AskedAgain
<1>7. ASSUME NEW p \in Players, SetChooser(p) PROVE IInv'
  <2>1. /\ UNCHANGED <<appeal, queue, history, kind, sub, mixed, connected>>
        /\ AskChoose(p, StopKind(timers, "decision")) \/ timers' = timers
    BY <1>7 DEF SetChooser, requests
  <2>2. CASE AskChoose(p, StopKind(timers, "decision"))
    BY <1>1, <2>1, <2>2, AskedAgain
  <2>3. CASE timers' = timers
    BY <1>1, <1>2, <2>1, <2>3, AsideStep DEF Silent
  <2> QED
    BY <2>1, <2>2, <2>3
<1>8. ASSUME NEW p \in Players, Presence(p) PROVE IInv'
  <2>1. UNCHANGED <<appeal, queue, history, kind, sub, mixed, timers>>
    BY <1>8 DEF Presence, requests, selection
  <2>2. connected' \subseteq Players
    BY <1>1, <1>8 DEF Presence
  <2> QED
    BY <1>1, <1>2, <2>1, <2>2, AsideStep DEF Silent
<1>9. ASSUME NEW on \in BOOLEAN, Pause(on) PROVE IInv'
  <2>1. /\ UNCHANGED <<appeal, queue, history, kind, sub, mixed, connected>>
        /\ timers' = HoldAll(timers) \/ timers' = ReleaseAll(timers)
    BY <1>9 DEF Pause, requests
  <2>2. timers' \in Clocks /\ (Silent(timers) => Silent(timers'))
    BY <1>1, <2>1, TimerTypes, SilentKept
  <2> QED
    BY <1>1, <1>2, <2>1, <2>2, AsideStep DEF Silent
<1>10. CASE ShowAnswer
  <2>1. Reveal /\ sub = "play" /\ UNCHANGED <<appeal, queue, history, kind, mixed, connected>>
    BY <1>10 DEF ShowAnswer, requests
  <2> QED
    BY <2>1, RevealStep
<1> QED
  BY <1>3, <1>4, <1>5, <1>6, <1>7, <1>8, <1>9, <1>10 DEF StaffStep
-----------------------------------------------------------------------------
(* The scores and the history.                                             *)

\* The outcomes of p that count.
Counting(h, p) == {i \in DOMAIN h : h[i].person = p /\ ~h[i].reverted}

LEMMA CountedSum ==
  ASSUME NEW h, NEW p
  PROVE  Counted(h, p) = Sum(h, Counting(h, p))
<1> QED
  BY Zenon DEF Counted, Sum, Counting

\* Outcomes of a history can be summed.
LEMMA HistorySums ==
  ASSUME NEW h \in Seq(Outcomes), NEW S, S \subseteq 1..Len(h)
  PROVE  Summable(h, S) /\ Sum(h, S) \in Int
<1>1. Len(h) \in Nat /\ \A i \in 1..Len(h) : h[i] \in Outcomes
  OBVIOUS
<1>2. \A i \in 1..Len(h) : h[i].delta \in Int
  BY <1>1 DEF Outcomes
<1>3. IsFiniteSet(1..Len(h))
  BY <1>1, FS_Interval
<1>4. IsFiniteSet(S)
  BY <1>3, FS_Subset
<1>5. Summable(h, S)
  BY <1>2, <1>4 DEF Summable
<1> QED
  BY <1>5, SumInt

\* What an outcome more does to the sum over earlier ones.
LEMMA OneMore ==
  ASSUME NEW g \in Seq(Outcomes), NEW h \in Seq(Outcomes), Len(h) = Len(g) + 1,
         \A i \in 1..Len(g) : h[i].delta = g[i].delta,
         NEW S, S \subseteq 1..Len(g)
  PROVE  /\ Sum(h, S) = Sum(g, S)
         /\ Sum(h, S \union {Len(g) + 1}) = Sum(g, S) + h[Len(g) + 1].delta
<1> DEFINE n == Len(g) + 1
           T == S \union {n}
<1>1. Len(g) \in Nat /\ n \notin S /\ T \subseteq 1..Len(h) /\ n \in T
  <2>1. Len(g) \in Nat
    OBVIOUS
  <2>2. \A i \in S : i \in Nat /\ 1 <= i /\ i <= Len(g)
    BY <2>1
  <2>3. n \in Nat /\ 1 <= n /\ Len(g) < n /\ Len(h) = n
    BY <2>1
  <2> HIDE DEF n
  <2>4. \A i \in S : i \in 1..n
    BY <2>1, <2>2, <2>3
  <2>5. n \in 1..n /\ n \notin S
    BY <2>1, <2>2, <2>3
  <2> QED
    BY <2>1, <2>3, <2>4, <2>5
<1>2. Summable(g, S) /\ Sum(g, S) \in Int
  BY HistorySums
<1>3. Summable(h, T)
  BY <1>1, HistorySums
<1>4. Sum(h, S) = Sum(g, S)
  BY <1>2, SumSame DEF Summable
<1>5. T \ {n} = S
  BY <1>1
<1> HIDE DEF T, n
<1>6. Sum(h, T) = h[n].delta + Sum(h, T \ {n})
  BY <1>1, <1>3, SumRemove
<1>7. h[n].delta \in Int
  BY <1>1, <1>3 DEF Summable
<1>8. Sum(h, T) = Sum(g, S) + h[n].delta
  <2>1. Sum(h, T) = h[n].delta + Sum(g, S)
    BY <1>4, <1>5, <1>6
  <2> DEFINE x == Sum(g, S)
             y == h[n].delta
  <2>2. x \in Int /\ y \in Int /\ Sum(h, T) = y + x
    BY <1>2, <1>7, <2>1
  <2> HIDE DEF x, y
  <2>3. Sum(h, T) = x + y
    BY <2>2
  <2> QED
    BY <2>3 DEF x, y
<1> QED
  BY <1>4, <1>8 DEF T, n

Follows == \A p \in Players : scores'[p] - scores[p] = Counted(history', p) - Counted(history, p)

\* A verdict changes the score of its player by the points of the new outcome.
LEMMA JudgeFollows ==
  ASSUME Typed, scores \in [Players -> Int], NEW p \in Players, NEW v \in Verdicts, Judge(p, v)
  PROVE  Follows /\ scores' \in [Players -> Int] /\ stage = "question"
<1> DEFINE delta == CASE v = "right" -> PriceRight [] v = "wrong" -> 0 - PriceWrong [] v = "pass" -> 0
           o == [person |-> p, verdict |-> v, reverted |-> FALSE, delta |-> delta]
           n == Len(history)
<1>1. /\ stage = "question" /\ history' = Append(history, o)
      /\ scores' = [scores EXCEPT ![p] = @ + delta]
  BY DEF Judge
<1>2. delta \in Int
  BY NumbersAssumption DEF Verdicts
<1> HIDE DEF delta
<1>3. o \in Outcomes /\ o.person = p /\ ~o.reverted /\ o.delta = delta
  BY <1>2 DEF Outcomes
<1>4. history \in Seq(Outcomes) /\ n \in Nat /\ DOMAIN history = 1..n
  BY DEF Typed
<1> HIDE DEF o
<1>5. /\ history' \in Seq(Outcomes) /\ Len(history') = n + 1 /\ DOMAIN history' = 1..(n + 1)
      /\ \A i \in 1..n : history'[i] = history[i]
      /\ history'[n + 1] = o
  BY <1>1, <1>3, <1>4, AppendProperties
<1>6. ASSUME NEW q \in Players
      PROVE  scores'[q] - scores[q] = Counted(history', q) - Counted(history, q)
  <2> DEFINE C == Counting(history, q)
  <2>1. C \subseteq 1..n
    BY <1>4 DEF Counting
  <2>2. Counting(history', q) = IF q = p THEN C \union {n + 1} ELSE C
    BY <1>3, <1>4, <1>5 DEF Counting
  <2> HIDE DEF C
  <2>3. Sum(history, C) \in Int
    BY <1>4, <2>1, HistorySums
  <2>4. /\ Sum(history', C) = Sum(history, C)
        /\ Sum(history', C \union {n + 1}) = Sum(history, C) + delta
    <3>1. \A i \in 1..Len(history) : history'[i].delta = history[i].delta
      BY <1>5
    <3>2. Len(history') = Len(history) + 1 /\ C \subseteq 1..Len(history)
      BY <1>5, <2>1
    <3> HIDE DEF n
    <3>3. /\ Sum(history', C) = Sum(history, C)
          /\ Sum(history', C \union {Len(history) + 1}) = Sum(history, C) + history'[Len(history) + 1].delta
      BY <1>4, <1>5, <3>1, <3>2, OneMore
    <3> QED
      BY <1>3, <1>5, <3>3 DEF n
  <2>5. scores[q] \in Int /\ scores'[q] = IF q = p THEN scores[q] + delta ELSE scores[q]
    BY <1>1
  <2>6. Counted(history', q) - Counted(history, q) = IF q = p THEN delta ELSE 0
    <3>1. Counted(history, q) = Sum(history, C) /\ Counted(history', q) = Sum(history', Counting(history', q))
      BY CountedSum DEF C
    <3> QED
      BY <1>2, <2>2, <2>3, <2>4, <3>1
  <2> QED
    BY <1>2, <2>5, <2>6
<1>7. scores' \in [Players -> Int]
  BY <1>1, <1>2
<1> QED
  BY <1>1, <1>6, <1>7 DEF Follows

\* MOVE -1 takes back what counts, and leaves nothing that counts.
LEMMA MoveBackFollows ==
  ASSUME Typed, scores \in [Players -> Int], MoveBack
  PROVE  Follows /\ scores' \in [Players -> Int] /\ stage = "question"
<1>1. stage = "question" /\ history' = <<>>
  BY DEF MoveBack
<1>2. scores' = [p \in Players |-> scores[p] - Sum(history, Counting(history, p))]
  BY Zenon DEF MoveBack, Sum, Given, Counting
<1>3. history \in Seq(Outcomes) /\ DOMAIN history = 1..Len(history)
  BY DEF Typed
<1>4. \A p \in Players : Sum(history, Counting(history, p)) \in Int
  <2>1. \A p \in Players : Counting(history, p) \subseteq 1..Len(history)
    BY <1>3 DEF Counting
  <2> QED
    BY <1>3, <2>1, HistorySums
<1>5. \A p \in Players : Counted(history', p) = 0
  <2>1. \A p \in Players : Counting(history', p) = {}
    BY <1>1 DEF Counting
  <2>2. Sum(history', {}) = 0
    BY SumEquation, FS_EmptySet
  <2> QED
    BY <2>1, <2>2, CountedSum
<1>6. \A p \in Players : Counted(history, p) = Sum(history, Counting(history, p))
  BY CountedSum
<1> QED
  BY <1>1, <1>2, <1>4, <1>5, <1>6 DEF Follows

\* An accepted appeal on an outcome that counts changes each score by what it
\* changes of the outcomes that count.
LEMMA FlipFollows ==
  ASSUME NEW a \in Votes, NEW hist \in Seq(Outcomes), scores \in [Players -> Int],
         a.idx \in DOMAIN hist, ~hist[a.idx].reverted
  PROVE  /\ Rescored(a, hist) \in [Players -> Int]
         /\ \A p \in Players :
               Rescored(a, hist)[p] - scores[p] = Counted(Flipped(a, hist), p) - Counted(hist, p)
<1> DEFINE h == Flipped(a, hist)
           n == Len(hist)
           o == NewOutcome(a, hist)
<1>1. n \in Nat /\ DOMAIN hist = 1..n /\ a.idx \in 1..n
  OBVIOUS
<1>2. /\ h \in Seq(Outcomes) /\ Len(h) = n + 1 /\ h[n + 1] = o
      /\ \A i \in 1..n : /\ h[i].person = hist[i].person /\ h[i].delta = hist[i].delta
                         /\ hist[i].reverted \/ i \in Undone(a, hist) <=> h[i].reverted
  BY <1>1, FlippedHistory
<1>3. DOMAIN h = 1..(n + 1)
  BY <1>2
<1>4. ~o.reverted /\ o.delta \in Int
  BY NumbersAssumption DEF NewOutcome
<1>5. \A i \in Undone(a, hist) : i \in 1..n /\ ~hist[i].reverted
  BY <1>1 DEF Undone
<1>6. Rescored(a, hist) =
        [p \in Players |-> (IF p = o.person THEN scores[p] + o.delta ELSE scores[p])
                           - Sum(hist, {i \in Undone(a, hist) : hist[i].person = p})]
  BY Zenon DEF Rescored, Sum
<1> HIDE DEF h, o
<1>7. ASSUME NEW p \in Players
      PROVE  /\ Rescored(a, hist)[p] \in Int
             /\ Rescored(a, hist)[p] - scores[p] = Counted(h, p) - Counted(hist, p)
  <2> DEFINE U == {i \in Undone(a, hist) : hist[i].person = p}
             S == Counting(hist, p) \ U
  <2>1. /\ Counting(hist, p) = S \union U /\ S \intersect U = {}
        /\ S \subseteq 1..n /\ U \subseteq 1..n
    BY <1>1, <1>5 DEF Counting
  <2>2. Counting(h, p) = IF p = o.person THEN S \union {n + 1} ELSE S
    <3>1. \A i \in 1..n : i \in S <=> h[i].person = p /\ ~h[i].reverted
      BY <1>1, <1>2 DEF Counting
    <3>2. o.person = h[n + 1].person /\ ~h[n + 1].reverted
      BY <1>2, <1>4
    <3>3. Counting(h, p) = {i \in 1..(n + 1) : h[i].person = p /\ ~h[i].reverted}
      BY <1>3 DEF Counting
    <3>4. S \subseteq 1..n /\ n + 1 \notin 1..n /\ 1..(n + 1) = (1..n) \union {n + 1}
      BY <1>1, <2>1
    <3> HIDE DEF S, U, n
    <3>5. CASE p = o.person
      BY <3>1, <3>2, <3>3, <3>4, <3>5
    <3>6. CASE p # o.person
      BY <3>1, <3>2, <3>3, <3>4, <3>6
    <3> QED
      BY <3>5, <3>6
  <2>3. Rescored(a, hist)[p] = (IF p = o.person THEN scores[p] + o.delta ELSE scores[p]) - Sum(hist, U)
    BY <1>6
  <2> HIDE DEF S, U
  <2>4. /\ Summable(hist, S) /\ Sum(hist, S) \in Int
        /\ Summable(hist, U) /\ Sum(hist, U) \in Int
    BY <2>1, HistorySums
  <2>5. Counted(hist, p) = Sum(hist, S) + Sum(hist, U)
    BY <2>1, <2>4, SumUnion, CountedSum
  <2>6. Sum(h, S) = Sum(hist, S) /\ Sum(h, S \union {n + 1}) = Sum(hist, S) + o.delta
    <3>1. Len(h) = Len(hist) + 1 /\ \A i \in 1..Len(hist) : h[i].delta = hist[i].delta
      BY <1>2
    <3>2. h[Len(hist) + 1] = o /\ S \subseteq 1..Len(hist) /\ h \in Seq(Outcomes)
      BY <1>2, <2>1
    <3>3. /\ Sum(h, S) = Sum(hist, S)
          /\ Sum(h, S \union {Len(hist) + 1}) = Sum(hist, S) + h[Len(hist) + 1].delta
      <4> HIDE DEF n
      <4> QED
        BY <3>1, <3>2, OneMore
    <3> QED
      BY <3>2, <3>3
  <2>7. Counted(h, p) = Sum(hist, S) + (IF p = o.person THEN o.delta ELSE 0)
    <3>1. Counted(h, p) = Sum(h, Counting(h, p))
      BY CountedSum
    <3> QED
      BY <2>2, <2>4, <2>6, <3>1
  <2>8. scores[p] \in Int
    OBVIOUS
  <2> QED
    BY <1>4, <2>3, <2>4, <2>5, <2>7, <2>8
<1>8. Rescored(a, hist) \in [Players -> Int]
  <2>1. \A p \in Players : Rescored(a, hist)[p] \in Int
    BY <1>7
  <2>2. Rescored(a, hist) = [p \in Players |-> Rescored(a, hist)[p]]
    BY <1>6
  <2> QED
    BY <2>1, <2>2
<1> QED
  BY <1>7, <1>8 DEF h
-----------------------------------------------------------------------------
(* The rest of the types: whose turn it is, the points and the table.      *)

Stages == {"question", "selecting", "roundEnd", "closed"}

\* A cell is left to choose in every selection.
Turn ==
    /\ stage \in Stages /\ chooser \in Players /\ asked \in Persons /\ tie \subseteq Players
    /\ cells \in Nat /\ (stage = "selecting" => cells # 0)

Ledger == scores \in [Players -> Int] /\ right \in [Players -> Int] /\ wrong \in [Players -> Int]

Details ==
    /\ against \in BOOLEAN /\ used \subseteq Players
    /\ started \in Nat /\ late \in BOOLEAN /\ paused \in BOOLEAN

Sound == IInv /\ Turn /\ Ledger /\ Details

\* The end of a round and the way to the next question leave a player to choose,
\* and start no question.
LEMMA OnwardTurn ==
  ASSUME NEW c \in Players, NEW s, NEW ts, connected \subseteq Players, cells' \in Nat,
         \/ RoundEnds(c)
         \/ AskChoose(c, ts) /\ cells' # 0
         \/ AfterQuestion(c, s, ts)
  PROVE  Turn' /\ stage' # "question"
<1>1. ASSUME RoundEnds(c) PROVE Turn' /\ stage' # "question"
  BY <1>1 DEF RoundEnds, Turn, Stages, Persons
<1>2. ASSUME NEW d \in Players, AskChoose(d, ts), cells' # 0 PROVE Turn' /\ stage' # "question"
  BY <1>2 DEF AskChoose, Turn, Stages, Persons
<1>3. CASE AfterQuestion(c, s, ts)
  <2> DEFINE low == Lowest(s)
  <2>1. low \subseteq Players /\ IsFiniteSet(low)
    <3>1. low \subseteq Players
      BY DEF Lowest
    <3> QED
      BY <3>1, PlayersAssumption, FS_Subset
  <2>2. Cardinality(low) = 1 => (CHOOSE p \in low : TRUE) \in Players
    <3> SUFFICES ASSUME Cardinality(low) = 1 PROVE (CHOOSE p \in low : TRUE) \in Players
      OBVIOUS
    <3>1. low # {}
      BY FS_EmptySet
    <3> HIDE DEF low
    <3> QED
      BY <2>1, <3>1
  <2>3. \/ RoundEnds(c)
        \/ AskChoose(c, ts) /\ cells' # 0
        \/ Cardinality(low) = 1 /\ AskChoose(CHOOSE p \in low : TRUE, ts) /\ cells' # 0
        \/ stage' = "selecting" /\ chooser' = c /\ asked' = NoPlayer /\ tie' = low /\ cells' # 0
    BY <1>3 DEF AfterQuestion
  <2> HIDE DEF low
  <2>4. CASE stage' = "selecting" /\ chooser' = c /\ asked' = NoPlayer /\ tie' = low /\ cells' # 0
    BY <2>1, <2>4 DEF Turn, Stages, Persons
  <2> QED
    BY <1>1, <1>2, <2>2, <2>3, <2>4
<1> QED
  BY <1>1, <1>2, <1>3

\* So does the end of a vote, which leaves the stage or moves on.
LEMMA VoteTurn ==
  ASSUME Turn, NEW c \in Players, NEW s, NEW hist, NEW q, NEW ts, NEW changed,
         connected \subseteq Players, cells' = cells,
         GoOn(c, s, changed, ts) \/ ProcessAppeals(q, hist, c, s, ts)
  PROVE  Turn' /\ ~NextQuestion
<1>1. ASSUME UNCHANGED <<stage, asked, tie>>, chooser' = c PROVE Turn' /\ ~NextQuestion
  BY <1>1 DEF Turn, NextQuestion
<1>2. ASSUME NEW b, GoOn(c, s, b, ts) PROVE Turn' /\ ~NextQuestion
  <2>1. \/ AfterQuestion(c, s, Resumed(ts))
        \/ stage = "selecting" /\ AskChoose(c, Resumed(ts))
        \/ chooser' = c /\ UNCHANGED <<stage, asked, tie>>
    BY <1>2 DEF GoOn
  <2>2. cells' \in Nat /\ (stage = "selecting" => cells' # 0)
    BY DEF Turn
  <2> QED
    BY <1>1, <2>1, <2>2, OnwardTurn DEF NextQuestion
<1>3. CASE ProcessAppeals(q, hist, c, s, ts)
  <2>1. GoOn(c, s, FALSE, ts) \/ (chooser' = c /\ UNCHANGED <<stage, asked, tie>>)
    BY <1>3 DEF ProcessAppeals
  <2> QED
    BY <1>1, <1>2, <2>1
<1> QED
  BY <1>2, <1>3

\* The counters after an accepted appeal are integers.
LEMMA CountersAfter ==
  ASSUME Ledger, NEW a, NEW hist \in Seq(Outcomes), a.idx \in DOMAIN hist
  PROVE  RightAfter(a, hist) \in [Players -> Int] /\ WrongAfter(a, hist) \in [Players -> Int]
<1>1. DOMAIN hist = 1..Len(hist) /\ Len(hist) \in Nat
  OBVIOUS
<1>2. Undone(a, hist) \subseteq 1..Len(hist)
  BY <1>1 DEF Undone
<1>3. \A p, v : LaterUndone(a, hist, p, v) \in Nat
  <2> SUFFICES ASSUME NEW p, NEW v PROVE LaterUndone(a, hist, p, v) \in Nat
    OBVIOUS
  <2> DEFINE S == {i \in Undone(a, hist) \ {a.idx} : hist[i].person = p /\ hist[i].verdict = v}
  <2>1. S \subseteq 1..Len(hist) /\ IsFiniteSet(1..Len(hist))
    BY <1>1, <1>2, FS_Interval
  <2> HIDE DEF S
  <2>2. Cardinality(S) \in Nat
    BY <2>1, FS_Subset, FS_CardinalityType
  <2> QED
    BY <2>2 DEF LaterUndone, S
<1>4. \A p \in Players : right[p] \in Int /\ wrong[p] \in Int
  BY DEF Ledger
<1>5. RightAfter(a, hist) \in [Players -> Int]
  <2>1. \A p \in Players : right[p] - LaterUndone(a, hist, p, "right")
            + (IF p # hist[a.idx].person THEN 0 ELSE IF a.kind = "for" THEN 1 ELSE 0 - 1) \in Int
    BY <1>3, <1>4
  <2> QED
    BY <2>1 DEF RightAfter
<1>6. WrongAfter(a, hist) \in [Players -> Int]
  <2>1. \A p \in Players : wrong[p] - LaterUndone(a, hist, p, "wrong")
            + (IF p # hist[a.idx].person THEN 0 ELSE IF a.kind = "for" THEN 0 - 1 ELSE 1) \in Int
    BY <1>3, <1>4
  <2> QED
    BY <2>1 DEF WrongAfter
<1> QED
  BY <1>5, <1>6

\* The end of a vote moves the scores with the history.
LEMMA VoteFollows ==
  ASSUME Sound, NEW a \in Votes, Fresh(a, history), UNCHANGED <<table, paused, connected>>,
         AppealFinish(a)
  PROVE  Turn' /\ Ledger' /\ Details' /\ Follows /\ ~NextQuestion
<1> DEFINE flips == Accepted(a)
           won == flips /\ a.kind = "for" /\ kind # "hidden"
           c == IF won THEN history[a.idx].person ELSE chooser
           ts == StopKind(timers, "appellation")
           resume(hist, s) ==
               IF queue # <<>>
               THEN ProcessAppeals(queue, hist, c, s, ts)
               ELSE appeal' = NoAppeal /\ queue' = <<>> /\ GoOn(c, s, c # chooser, ts)
<1>0. /\ Typed /\ history \in Seq(Outcomes) /\ connected \subseteq Players
      /\ Turn /\ Ledger /\ Details /\ cells' = cells
  BY DEF Sound, IInv, Typed, table
<1>1. ASSUME UNCHANGED <<history, scores>> PROVE Follows
  <2>1. \A p \in Players : scores[p] \in Int
    BY <1>0 DEF Ledger
  <2>2. \A p \in Players : Counting(history, p) \subseteq 1..Len(history)
    BY <1>0 DEF Counting
  <2>3. \A p \in Players : Counted(history, p) \in Int
    BY <1>0, <2>2, HistorySums, CountedSum
  <2> QED
    BY <1>1, <2>1, <2>3 DEF Follows
<1>2. ASSUME NEW hist, NEW s, c \in Players, resume(hist, s) PROVE Turn' /\ ~NextQuestion
  <2>1. ProcessAppeals(queue, hist, c, s, ts) \/ GoOn(c, s, c # chooser, ts)
    BY <1>2
  <2> HIDE DEF c, ts, resume
  <2> QED
    BY <1>0, <1>2, <2>1, VoteTurn
<1>3. CASE /\ stage' = "closed"
           /\ UNCHANGED <<requests, points, kind, sub, history, mixed, chooser, asked, tie, timers>>
  <2>1. UNCHANGED <<history, scores, right, wrong, against, used, late, started, paused, cells,
                    chooser, asked, tie>>
    BY <1>3 DEF requests, points, table
  <2>2. Turn' /\ Ledger' /\ Details' /\ ~NextQuestion
    BY <1>0, <1>3, <2>1 DEF Turn, Ledger, Details, NextQuestion, Stages
  <2> QED
    BY <1>1, <2>1, <2>2
<1>4. CASE /\ UNCHANGED <<kind, sub, mixed, against, used>>
           /\ flips /\ a.idx \in DOMAIN history
           /\ history' = Flipped(a, history) /\ scores' = Rescored(a, history)
           /\ right' = RightAfter(a, history) /\ wrong' = WrongAfter(a, history)
           /\ resume(Flipped(a, history), Rescored(a, history))
  <2>1. /\ Rescored(a, history) \in [Players -> Int]
        /\ \A p \in Players : Rescored(a, history)[p] - scores[p]
                              = Counted(Flipped(a, history), p) - Counted(history, p)
    BY <1>0, <1>4, FlipFollows DEF Ledger, Fresh
  <2>2. Follows
    BY <1>4, <2>1 DEF Follows
  <2>3. Ledger'
    BY <1>0, <1>4, <2>1, CountersAfter DEF Ledger
  <2>4. c \in Players
    <3>1. history[a.idx] \in Outcomes
      BY <1>0, <1>4
    <3> QED
      BY <1>0, <3>1 DEF Outcomes, Turn
  <2>5. Details'
    BY <1>0, <1>4 DEF Details, table
  <2> HIDE DEF c, resume
  <2> QED
    BY <1>2, <1>4, <2>2, <2>3, <2>4, <2>5
<1>5. CASE /\ UNCHANGED <<kind, sub, mixed, against, used>> /\ ~flips
           /\ UNCHANGED <<history, points>>
           /\ resume(history, scores)
  <2>1. c \in Players
    BY <1>0, <1>5 DEF Turn
  <2>2. Follows /\ Ledger'
    BY <1>0, <1>1, <1>5 DEF points, Ledger
  <2>3. Details'
    BY <1>0, <1>5 DEF Details, table
  <2> HIDE DEF c, resume
  <2> QED
    BY <1>2, <1>5, <2>1, <2>2, <2>3
<1> QED
  BY <1>3, <1>4, <1>5 DEF AppealFinish

\* What a step does to the scores: they follow the history, or are left alone with
\* it or by the start of the next question.
Accounted ==
    \/ Follows /\ ~NextQuestion
    \/ scores' = scores /\ (NextQuestion \/ history' = history)

LEMMA RequestAccounted ==
  ASSUME Sound, NEW p \in Players, AppealFor(p) \/ AppealAgainst(p)
  PROVE  Turn' /\ Ledger' /\ Details' /\ Accounted
<1>1. /\ UNCHANGED <<points, kind, sub, history, mixed, table, paused, connected>>
      /\ against' \in BOOLEAN /\ used' \subseteq Players
  BY DEF AppealFor, AppealAgainst, Sound, Details
<1>2. PICK r : Request(r)
  BY DEF AppealFor, AppealAgainst
<1>3. Ledger' /\ Details' /\ Accounted
  BY <1>1 DEF Sound, Ledger, Details, Accounted, points, table
<1>4. Turn'
  <2>1. UNCHANGED <<stage, chooser, asked, tie>> => Turn'
    BY <1>1 DEF Sound, Turn, table
  <2>2. ProcessAppeals(Append(queue, r), history, chooser, scores, timers) => Turn'
    <3>1. chooser \in Players /\ Turn /\ connected \subseteq Players /\ cells' = cells
      BY <1>1 DEF Sound, Turn, IInv, Typed, table
    <3> QED
      BY <3>1, VoteTurn
  <2> QED
    BY <1>2, <2>1, <2>2 DEF Request, selection
<1> QED
  BY <1>3, <1>4

LEMMA VoteAccounted ==
  ASSUME Sound, (\E p \in Players, yes \in BOOLEAN : VoteAppeal(p, yes)) \/ TimeoutAppellation
  PROVE  Turn' /\ Ledger' /\ Details' /\ Accounted
<1>1. ASSUME NEW a \in Votes, a.idx = appeal.idx, appeal # NoAppeal, AppealFinish(a),
             UNCHANGED <<table, paused, connected>>
      PROVE  Turn' /\ Ledger' /\ Details' /\ Accounted
  <2>1. Fresh(a, history)
    BY <1>1 DEF Sound, IInv, VoteInv, Fresh
  <2> QED
    BY <1>1, <2>1, VoteFollows DEF Accounted
<1>2. appeal \in Votes
  BY DEF Sound, IInv, Typed
<1>3. ASSUME NEW p \in Players, NEW yes \in BOOLEAN, VoteAppeal(p, yes)
      PROVE  Turn' /\ Ledger' /\ Details' /\ Accounted
  <2> DEFINE a == [appeal EXCEPT !.pending = @ \ {p},
                                 !.yes = IF yes THEN @ \union {p} ELSE @,
                                 !.no = IF yes THEN @ ELSE @ \union {p}]
  <2>1. p \in appeal.pending /\ UNCHANGED <<table, paused, connected>>
    BY <1>3 DEF VoteAppeal
  <2>2. appeal # NoAppeal
    BY <2>1 DEF NoAppeal
  <2>3. a.idx = appeal.idx
    BY <1>2 DEF Votes
  <2>4. a \in Votes
    <3>1. \A y \in SUBSET Voters, n \in SUBSET Voters, e \in SUBSET Voters :
             [appeal EXCEPT !.pending = e, !.yes = y, !.no = n] \in Votes
      BY <1>2 DEF Votes
    <3>2. appeal.pending \ {p} \in SUBSET Voters
      BY <1>2 DEF Votes
    <3>3. (IF yes THEN appeal.yes \union {p} ELSE appeal.yes) \in SUBSET Voters
      BY <1>2 DEF Votes, Voters
    <3>4. (IF yes THEN appeal.no ELSE appeal.no \union {p}) \in SUBSET Voters
      BY <1>2 DEF Votes, Voters
    <3> QED
      BY <3>1, <3>2, <3>3, <3>4
  <2>5. CASE Decided(a)
    <3>1. AppealFinish(a)
      BY <1>3, <2>5 DEF VoteAppeal
    <3> HIDE DEF a
    <3> QED
      BY <1>1, <2>1, <2>2, <2>3, <2>4, <3>1
  <2>6. CASE ~Decided(a)
    <3>1. UNCHANGED <<queue, against, used, points, selection, kind, sub, history, mixed>>
      BY <1>3, <2>6 DEF VoteAppeal
    <3> HIDE DEF a
    <3> QED
      BY <2>1, <3>1 DEF Sound, Turn, Ledger, Details, Accounted, points, selection, table
  <2> QED
    BY <2>5, <2>6
<1>4. CASE TimeoutAppellation
  <2>1. timers["appellation"] = "run" /\ AppealFinish(appeal) /\ UNCHANGED <<table, paused, connected>>
    BY <1>4 DEF TimeoutAppellation, Expires
  <2>2. appeal # NoAppeal
    BY <2>1 DEF Sound, IInv, VoteInv
  <2> QED
    BY <1>1, <1>2, <2>1, <2>2
<1> QED
  BY <1>3, <1>4

LEMMA GameAccounted ==
  ASSUME Sound, GameStep
  PROVE  Turn' /\ Ledger' /\ Details' /\ Accounted
<1>0. Typed /\ Turn /\ Ledger /\ Details /\ connected \subseteq Players
  BY DEF Sound, IInv, Typed
<1>1. ASSUME NEW k \in QuestionKinds, StartQuestion(k) PROVE Turn' /\ Ledger' /\ Details' /\ Accounted
  <2>1. /\ stage = "selecting" /\ stage' = "question" /\ cells' = cells - 1 /\ asked' = NoPlayer
        /\ started' = started + 1 /\ against' = FALSE /\ used' = {}
        /\ UNCHANGED <<points, chooser, tie, late, paused>>
    BY <1>1 DEF StartQuestion
  <2>2. cells \in Nat /\ cells # 0
    BY <1>0, <2>1 DEF Turn
  <2>3. Turn'
    BY <1>0, <2>1, <2>2 DEF Turn, Stages, Persons
  <2>4. Ledger' /\ Accounted
    BY <1>0, <2>1 DEF Ledger, Accounted, NextQuestion, points
  <2>5. Details'
    <3>1. started' \in Nat /\ late' \in BOOLEAN /\ paused' \in BOOLEAN
      BY <1>0, <2>1 DEF Details
    <3>2. against' \in BOOLEAN /\ used' \subseteq Players
      BY <2>1
    <3> QED
      BY <3>1, <3>2 DEF Details
  <2> QED
    BY <2>3, <2>4, <2>5
<1>2. ASSUME NEW p \in Players, NEW v \in Verdicts, Judge(p, v)
      PROVE  Turn' /\ Ledger' /\ Details' /\ Accounted
  <2>1. Follows /\ scores' \in [Players -> Int] /\ stage = "question"
    BY <1>0, <1>2, JudgeFollows DEF Ledger
  <2>2. /\ right' = IF v = "right" THEN [right EXCEPT ![p] = @ + 1] ELSE right
        /\ wrong' = IF v = "wrong" THEN [wrong EXCEPT ![p] = @ + 1] ELSE wrong
        /\ chooser' \in {chooser, p}
        /\ UNCHANGED <<requests, stage, asked, tie, table, paused>>
    BY <1>2 DEF Judge
  <2>3. right' \in [Players -> Int] /\ wrong' \in [Players -> Int]
    BY <1>0, <2>2 DEF Ledger
  <2>4. Turn' /\ Details'
    BY <1>0, <2>2 DEF Turn, Details, requests, table
  <2> QED
    BY <2>1, <2>3, <2>4 DEF Ledger, Accounted, NextQuestion
<1>3. CASE ShowAnswer
  <2>1. UNCHANGED <<requests, points, stage, chooser, asked, tie, history, table, paused>>
    BY <1>3 DEF ShowAnswer
  <2> QED
    BY <1>0, <2>1 DEF Turn, Ledger, Details, Accounted, requests, points, table
<1>4. CASE EndQuestion
  <2>1. UNCHANGED <<against, used, points, history, table, paused>>
    BY <1>4 DEF EndQuestion
  <2>2. Ledger' /\ Details' /\ Accounted
    BY <1>0, <2>1 DEF Ledger, Details, Accounted, points, table
  <2>3. chooser \in Players /\ cells' = cells /\ cells' \in Nat
    BY <1>0, <2>1 DEF Turn, table
  <2> DEFINE ts == StopAllExcept(timers, {"round"})
  <2>4. \/ UNCHANGED <<stage, chooser, asked, tie>>
        \/ ProcessAppeals(queue, history, chooser, scores, ts)
        \/ AfterQuestion(chooser, scores, ts)
    BY <1>4 DEF EndQuestion
  <2> HIDE DEF ts
  <2>5. UNCHANGED <<stage, chooser, asked, tie>> => Turn'
    BY <1>0, <2>3 DEF Turn
  <2> QED
    BY <1>0, <2>2, <2>3, <2>4, <2>5, VoteTurn, OnwardTurn
<1>5. CASE TimeoutRound
  <2>1. /\ UNCHANGED <<requests, points, history, cells, started, paused>> /\ late' = TRUE
        /\ RoundEnds(chooser) \/ UNCHANGED <<stage, chooser, asked, tie>>
    BY <1>5 DEF TimeoutRound
  <2>2. Ledger' /\ Details' /\ Accounted
    BY <1>0, <2>1 DEF Ledger, Details, Accounted, points, requests
  <2>3. Turn'
    BY <1>0, <2>1, OnwardTurn DEF Turn
  <2> QED
    BY <2>2, <2>3
<1>6. ASSUME NEW p \in Players, ResolveTie(p) PROVE Turn' /\ Ledger' /\ Details' /\ Accounted
  <2>1. /\ stage = "selecting" /\ UNCHANGED <<requests, points, history, table, paused>>
        /\ AskChoose(p, StopKind(timers, "decision"))
    BY <1>6 DEF ResolveTie
  <2>2. cells' \in Nat /\ cells' # 0
    BY <1>0, <2>1 DEF Turn, table
  <2> QED
    BY <1>0, <2>1, <2>2, OnwardTurn DEF Ledger, Details, Accounted, requests, points, table
<1> QED
  BY <1>1, <1>2, <1>3, <1>4, <1>5, <1>6 DEF GameStep

LEMMA StaffAccounted ==
  ASSUME Sound, StaffStep
  PROVE  Turn' /\ Ledger' /\ Details' /\ Accounted
<1>0. Typed /\ Turn /\ Ledger /\ Details /\ connected \subseteq Players /\ chooser \in Players
  BY DEF Sound, IInv, Typed, Turn
<1>1. CASE MoveOn
  <2>1. /\ UNCHANGED <<requests, points, history, table, paused>>
        /\ AfterQuestion(chooser, scores, timers)
    BY <1>1 DEF MoveOn
  <2>2. cells' \in Nat
    BY <1>0, <2>1 DEF Turn, table
  <2> QED
    BY <1>0, <2>1, <2>2, OnwardTurn DEF Ledger, Details, Accounted, requests, points, table
<1>2. CASE MoveBack
  <2>1. Follows /\ scores' \in [Players -> Int] /\ stage = "question"
    BY <1>0, <1>2, MoveBackFollows DEF Ledger
  <2> DEFINE s == [p \in Players |-> scores[p] - MapThenSumSet(LAMBDA i : history[i].delta, Given(p))]
             ts == StopAllExcept(timers, {"round"})
  <2>2. /\ cells' = cells + 1 /\ against' = FALSE /\ used' = {}
        /\ UNCHANGED <<right, wrong, late, started, paused>> /\ AfterQuestion(chooser, s, ts)
    BY <1>2 DEF MoveBack
  <2> HIDE DEF s, ts
  <2>3. cells' \in Nat
    BY <1>0, <2>2 DEF Turn
  <2>4. Turn'
    BY <1>0, <2>2, <2>3, OnwardTurn
  <2>5. Ledger' /\ Details'
    BY <1>0, <2>1, <2>2 DEF Ledger, Details
  <2> QED
    BY <2>1, <2>4, <2>5 DEF Accounted, NextQuestion
<1>3. CASE MoveRound
  <2>1. UNCHANGED <<requests, points, history, table, paused>> /\ RoundEnds(chooser)
    BY <1>3 DEF MoveRound
  <2>2. cells' \in Nat
    BY <1>0, <2>1 DEF Turn, table
  <2> QED
    BY <1>0, <2>1, <2>2, OnwardTurn DEF Ledger, Details, Accounted, requests, points, table
<1>4. ASSUME NEW p \in Players, SetChooser(p) PROVE Turn' /\ Ledger' /\ Details' /\ Accounted
  <2>1. /\ UNCHANGED <<requests, points, history, table, paused>>
        /\ \/ stage = "selecting" /\ AskChoose(p, StopKind(timers, "decision"))
           \/ chooser' = p /\ UNCHANGED <<stage, asked, tie>>
    BY <1>4 DEF SetChooser
  <2>2. cells' = cells /\ Ledger' /\ Details' /\ Accounted
    BY <1>0, <2>1 DEF Ledger, Details, Accounted, requests, points, table
  <2>3. Turn'
    <3>1. CASE stage = "selecting" /\ AskChoose(p, StopKind(timers, "decision"))
      <4>1. cells' \in Nat /\ cells' # 0
        BY <1>0, <2>2, <3>1 DEF Turn
      <4> QED
        BY <1>0, <3>1, <4>1, OnwardTurn
    <3>2. CASE chooser' = p /\ UNCHANGED <<stage, asked, tie>>
      BY <1>0, <2>2, <3>2 DEF Turn
    <3> QED
      BY <2>1, <3>1, <3>2
  <2> QED
    BY <2>2, <2>3
<1>5. ASSUME NEW p \in Players, Presence(p) PROVE Turn' /\ Ledger' /\ Details' /\ Accounted
  <2>1. UNCHANGED <<requests, points, selection, history, table, paused>>
    BY <1>5 DEF Presence
  <2> QED
    BY <1>0, <2>1 DEF Turn, Ledger, Details, Accounted, requests, points, selection, table
<1>6. ASSUME NEW on \in BOOLEAN, Pause(on) PROVE Turn' /\ Ledger' /\ Details' /\ Accounted
  <2>1. /\ UNCHANGED <<requests, points, stage, chooser, asked, tie, history, cells, late, started>>
        /\ paused' = on
    BY <1>6 DEF Pause
  <2> QED
    BY <1>0, <2>1 DEF Turn, Ledger, Details, Accounted, requests, points
<1> QED
  BY <1>1, <1>2, <1>3, <1>4, <1>5, <1>6 DEF StaffStep
-----------------------------------------------------------------------------
(* The invariant and what follows from it.                                 *)

LEMMA NextHolds == IInv /\ [Next]_vars => IInv'
<1> SUFFICES ASSUME IInv, [Next]_vars PROVE IInv'
  OBVIOUS
<1>1. CASE AppealStep
  BY <1>1, AppealForStep, AppealAgainstStep, VoteStep, TimeoutStep DEF AppealStep
<1>2. CASE GameStep
  BY <1>2, StartQuestionStep, JudgeStep, EndQuestionStep, TimeoutRoundStep, StaffSteps DEF GameStep
<1>3. CASE StaffStep
  BY <1>3, StaffSteps
<1>4. CASE UNCHANGED vars
  <2>1. UNCHANGED <<appeal, queue, history, kind, sub, mixed, connected, timers>>
    BY <1>4 DEF vars, requests, selection
  <2> QED
    BY <2>1, AsideStep DEF IInv, Typed, VoteInv
<1> QED
  BY <1>1, <1>2, <1>3, <1>4 DEF Next

\* The state of the appeals keeps its types, queued requests and the open vote
\* name outcomes of the history, and a right answer closes the play
\* (onAppellate, appealStart, appealApply).
THEOREM Invariant == Spec => []IInv
<1> QED
  BY InitHolds, NextHolds, PTL DEF Spec

\* However many appeals, for and against, are accepted and in whatever order, an
\* outcome that counts as right has no counting outcome after it: no two players
\* keep the price of one question (appealApply).
THEOREM RightIsLastAlways == Spec => []RightIsLast
<1>1. IInv => RightIsLast
  BY DEF IInv, LastInv, Last, RightIsLast
<1> QED
  BY <1>1, Invariant, PTL

\* The open vote is about an outcome of its answerer that no earlier appeal
\* reverted, and nobody votes twice (processAppeals, onAppellateVote).
THEOREM ContestedAlwaysStands == Spec => []ContestedStands
<1>1. IInv => ContestedStands
  <2> SUFFICES ASSUME IInv, appeal # NoAppeal, ~mixed
               PROVE  /\ Contested(appeal, history)
    BY DEF ContestedStands, Contested, About
  <2> QED
    BY DEF IInv, VoteInv
<1> QED
  BY <1>1, Invariant, PTL

\* No request is forgotten: once the question is over the queue waits for the
\* open vote and for nothing else (endQuestion, appealFinish).
THEOREM QueueIsAlwaysServed == Spec => []QueueIsServed
<1>1. IInv => QueueIsServed
  BY DEF IInv, ServedInv, QueueIsServed
<1> QED
  BY <1>1, Invariant, PTL

LEMMA InitSound == Init => Sound
<1> SUFFICES ASSUME Init PROVE Sound
  OBVIOUS
<1>1. Turn
  BY NumbersAssumption DEF Init, Turn, Stages, Persons
<1>2. Ledger
  BY DEF Init, Ledger
<1>3. Details
  <2>1. against = FALSE /\ used = {} /\ started = 0 /\ late = FALSE /\ paused = FALSE
    BY DEF Init
  <2> QED
    BY <2>1 DEF Details
<1> QED
  BY <1>1, <1>2, <1>3, InitHolds DEF Sound

LEMMA NextSound == Sound /\ [Next]_vars => Sound' /\ (Accounted \/ UNCHANGED vars)
<1> SUFFICES ASSUME Sound, [Next]_vars PROVE Sound' /\ (Accounted \/ UNCHANGED vars)
  OBVIOUS
<1>1. IInv'
  BY NextHolds DEF Sound
<1>2. CASE Next
  BY <1>1, <1>2, RequestAccounted, VoteAccounted, GameAccounted, StaffAccounted
     DEF Next, AppealStep, Sound
<1>3. CASE UNCHANGED vars
  BY <1>1, <1>3 DEF Sound, Turn, Ledger, Details, vars, requests, points, selection, table
<1> QED
  BY <1>2, <1>3

\* The types of the whole module: among the rest, the cells left never go below
\* none, since every selection has one to choose (startQuestion, afterQuestion).
THEOREM TypeCorrect == Spec => []TypeOK
<1>1. Sound => TypeOK
  <2> SUFFICES ASSUME Sound PROVE TypeOK
    OBVIOUS
  <2>1. appeal \in Votes
    BY DEF Sound, IInv, Typed
  <2>2. /\ appeal.kind \in {"none", "for", "against"}
        /\ appeal.appellant \in Persons /\ appeal.answerer \in Persons /\ appeal.idx \in Nat
        /\ \A S \in {appeal.pending, appeal.yes, appeal.no} : S \subseteq Players \union {Showman}
        /\ appeal.total \in Nat
    BY <2>1 DEF Votes, Voters
  <2>3. Typed /\ Turn /\ Ledger /\ Details
    BY DEF Sound, IInv
  <2> QED
    BY <2>2, <2>3 DEF Typed, Turn, Ledger, Details, Stages, Clocks, TypeOK
<1> QED
  BY <1>1, InitSound, NextSound, PTL DEF Spec

\* Verdicts, accepted appeals and MOVE -1 change every score by exactly what they
\* change of the outcomes that count, also when a question was started under an
\* open vote (applyVerdict, appealApply, undoQuestion): no answer is paid twice and
\* no penalty is given back twice.
THEOREM ScoresFollowHistoryAlways == Spec => ScoresFollowHistory
<1> DEFINE A == \A p \in Players : scores'[p] - scores[p] = IF NextQuestion THEN 0
                                                            ELSE Counted(history', p) - Counted(history, p)
<1>1. Sound /\ [Next]_vars => [A]_vars
  <2> SUFFICES ASSUME Sound, Accounted PROVE A
    BY NextSound
  <2>1. \A p \in Players : scores[p] \in Int
    BY DEF Sound, Ledger
  <2>2. \A p \in Players : Counted(history, p) \in Int
    <3>1. history \in Seq(Outcomes) /\ DOMAIN history = 1..Len(history)
      BY DEF Sound, IInv, Typed
    <3>2. \A p \in Players : Counting(history, p) \subseteq 1..Len(history)
      BY <3>1 DEF Counting
    <3> QED
      BY <3>1, <3>2, HistorySums, CountedSum
  <2>3. CASE Follows /\ ~NextQuestion
    BY <2>3 DEF Follows
  <2>4. CASE scores' = scores /\ NextQuestion
    BY <2>1, <2>4
  <2>5. CASE scores' = scores /\ history' = history
    BY <2>1, <2>2, <2>5
  <2> QED
    BY <2>3, <2>4, <2>5 DEF Accounted
<1> HIDE DEF A
<1>2. Spec => [][A]_vars
  BY <1>1, InitSound, NextSound, PTL DEF Spec
<1> QED
  BY <1>2 DEF ScoresFollowHistory, A
=============================================================================
