------------------------- MODULE RoomSessionsProofs -------------------------
(***************************************************************************)
(* The properties of RoomSessions, for every set of names, every showman   *)
(* and join mode, and all limits.  Naming and Ranks say of persons, Links  *)
(* of sockets and Table of seats what each call has to keep; IInv joins    *)
(* them.                                                                   *)
(***************************************************************************)
EXTENDS RoomSessions, FiniteSetTheorems, TLAPS

Person == [here : BOOLEAN, name : Names \cup {""}, role : Roles, host : BOOLEAN,
           session : BOOLEAN, connected : BOOLEAN, gen : 0..MaxSockets]

\* What is left alone when rights, sessions or connections change.
SamePerson(k, n) == n.here = k.here /\ n.name = k.name /\ n.role = k.role

\* Who is here has a name that is not banned, and shares it with nobody; who is
\* banned is not here, and the banned names are theirs.
Naming ==
    /\ \A p \in Here : persons[p].name \in Names \ bannedNames
    /\ \A p, q \in Here : persons[p].name = persons[q].name => p = q
    /\ \A p \in bannedIDs : p \notin Here /\ persons[p].name \in Names
    /\ \A p, q \in bannedIDs : persons[p].name = persons[q].name => p = q
    /\ \A n \in bannedNames : \E p \in bannedIDs : persons[p].name = n
    /\ \A p \in bannedIDs : persons[p].name \in bannedNames

\* One host, one human showman, none in a room of the AI.
Ranks ==
    /\ \A p, q \in Hosts : p = q
    /\ \A p, q \in HumanShowmen : p = q
    /\ showman = "ai" => HumanShowmen = {}

\* A socket that is read is somebody's connection, and a connection is a socket
\* of its person whose detach is still to come.
Links ==
    /\ \A s \in Socks : sockets[s].loop # "unused" => sockets[s].person \in Ids
    /\ \A s \in Socks : sockets[s].loop = "reading" => IsCurrent(s)
    /\ \A s \in inbox : sockets[s].loop # "unused"
    /\ \A p \in Ids : persons[p].connected =>
          /\ p \in Here /\ persons[p].gen \in Socks
          /\ sockets[persons[p].gen].person = p
          /\ sockets[persons[p].gen].loop \in {"reading", "closed"}

\* Whom the engine has kicked is gone for good; while a game runs its seats
\* are those of players here, and there is a seat for each of them.
Table ==
    /\ Cardinality(Players) <= MaxPlayers
    /\ \A p \in Ids : seats[p] = "kicked" => p \notin Here /\ persons[p].name # ""
    /\ game = "none" => \A p \in Ids : seats[p] = "none"
    /\ game = "playing" => \A p \in Ids : seats[p] \in {"in", "out"} => p \in Players
    /\ SeatsFollowSockets

IInv == TypeOK /\ Naming /\ Ranks /\ Links /\ Table

-----------------------------------------------------------------------------
(* The start. *)

\* Every room starts well: nobody is here and no socket is open.
LEMMA InitInv == Init => IInv
<1> SUFFICES ASSUME Init PROVE IInv OBVIOUS
<1>1. Nobody \in Person BY Limits DEF Nobody, Person, Roles
<1>2. TypeOK
  <2>1. persons \in [Ids -> Person] BY <1>1 DEF Init
  <2>2. sockets \in [Socks -> [person : 0..MaxPersons, loop : {"unused", "reading", "closed", "done"}]]
    BY Limits DEF Init, Unused
  <2>3. seats \in [Ids -> {"none", "in", "out", "kicked"}] BY DEF Init
  <2> QED BY <2>1, <2>2, <2>3, ModesAreKnown DEF Init, TypeOK, Person
<1>3. Here = {} BY DEF Init, Here, Nobody
<1>4. Naming /\ Ranks BY <1>3 DEF Init, Naming, Ranks, Hosts, HumanShowmen
<1>5. Links BY DEF Init, Links, Nobody, Unused
<1>6. Cardinality(Players) = 0 BY <1>3, FS_EmptySet DEF Players
<1>7. Table BY <1>6, Limits DEF Init, Table, SeatsFollowSockets
<1> QED BY <1>2, <1>4, <1>5, <1>7 DEF IInv

-----------------------------------------------------------------------------
(* The calls that move nobody. *)

\* What a person is here for, unchanged.
LEMMA SamePeople ==
    ASSUME persons' = persons
    PROVE  /\ Here' = Here /\ Players' = Players /\ Connected' = Connected
           /\ Hosts' = Hosts /\ HumanShowmen' = HumanShowmen
BY DEF Here, Players, Connected, Hosts, HumanShowmen

\* The client closes it, the network does, or it is too slow.
LEMMA DropKeeps == ASSUME IInv, NEW s \in Socks, Drop(s) PROVE IInv'
<1> USE DEF IInv
<1>1. TypeOK' BY DEF Drop, CloseSocket, TypeOK, room
<1>2. Naming' /\ Ranks' BY SamePeople DEF Drop, Naming, Ranks, room
<1>3. Links'
  <2>1. /\ UNCHANGED <<persons, inbox>>
        /\ \A t \in Socks : /\ sockets'[t].person = sockets[t].person
                            /\ sockets'[t].loop = IF t = s THEN "closed" ELSE sockets[t].loop
                            /\ t # s => sockets'[t] = sockets[t]
    BY <1>1 DEF Drop, CloseSocket, TypeOK
  <2>2. sockets[s].loop = "reading" BY DEF Drop
  <2>3. \A t \in Socks : sockets'[t].loop = "reading" => IsCurrent(t)'
    BY <2>1, <2>2 DEF Links, IsCurrent
  <2>4. \A q \in Ids : persons[q].connected => sockets'[persons[q].gen].loop \in {"reading", "closed"}
    BY <2>1, <2>2 DEF Links
  <2>5. \A t \in Socks : sockets'[t].loop # "unused" => sockets'[t].person \in Ids
    BY <2>1, <2>2 DEF Links
  <2>6. \A t \in inbox : sockets'[t].loop # "unused" BY <2>1 DEF Links, TypeOK
  <2>7. \A q \in Ids : persons[q].connected => 
         q \in Here /\ persons[q].gen \in Socks /\ sockets'[persons[q].gen].person = q BY <2>1 DEF Links
  <2> QED BY <2>1, <2>3, <2>4, <2>5, <2>6, <2>7, SamePeople DEF Links
<1>4. Table' BY SamePeople DEF Drop, Table, SeatsFollowSockets
<1> QED BY <1>1, <1>2, <1>3, <1>4

\* A message that waits in the mailbox changes nobody.
LEMMA DeliverKeeps == ASSUME IInv, NEW s \in Socks, Deliver(s) PROVE IInv'
<1> USE DEF IInv
<1>1. TypeOK' BY DEF Deliver, TypeOK, room
<1>2. Naming' /\ Ranks' BY SamePeople DEF Deliver, Naming, Ranks, room
<1>3. Links' BY SamePeople DEF Deliver, Links, IsCurrent, TypeOK
<1>4. Table' BY SamePeople DEF Deliver, Table, SeatsFollowSockets
<1> QED BY <1>1, <1>2, <1>3, <1>4

\* The end of a game moves nobody.
LEMMA EndGameKeeps == ASSUME IInv, EndGame PROVE IInv'
<1> USE DEF IInv
<1>1. TypeOK' BY DEF EndGame, TypeOK, room
<1>2. Naming' /\ Ranks' BY SamePeople DEF EndGame, Naming, Ranks, room
<1>3. Links' BY SamePeople DEF EndGame, Links, IsCurrent, TypeOK
<1>4. Table' BY SamePeople DEF EndGame, Table, SeatsFollowSockets
<1> QED BY <1>1, <1>2, <1>3, <1>4

\* The host's settings move nobody, and the AI's mode is refused while a human
\* showman is here.
LEMMA SettingsKeep ==
    ASSUME IInv, \/ \E m \in JoinModes : SetJoinMode(m)
                 \/ \E m \in Modes : SetShowman(m)
    PROVE  IInv'
<1> USE DEF IInv
<1>1. /\ UNCHANGED <<persons, sockets, inbox, bannedNames, bannedIDs, game, seats, closing>>
      /\ joinMode' \in JoinModes /\ showman' \in Modes
      /\ showman' = "ai" => HumanShowmen = {}
  BY DEF SetJoinMode, SetShowman, TypeOK, Ranks
<1>2. TypeOK' BY <1>1 DEF TypeOK
<1>3. Naming' /\ Ranks' BY <1>1, SamePeople DEF Naming, Ranks
<1>4. Links' BY <1>1, SamePeople DEF Links, IsCurrent, TypeOK
<1>5. Table' BY <1>1, SamePeople DEF Table, SeatsFollowSockets
<1> QED BY <1>2, <1>3, <1>4, <1>5

\* A ban is lifted: no other name is let in.
LEMMA UnbanKeeps == ASSUME IInv, NEW p \in Ids, Unban(p) PROVE IInv'
<1> USE DEF IInv
<1>1. TypeOK' BY DEF Unban, TypeOK
<1>2. Naming' BY SamePeople DEF Unban, Naming
<1>5. Ranks' BY SamePeople DEF Unban, Ranks
<1>3. Links' BY SamePeople DEF Unban, Links, IsCurrent, TypeOK
<1>4. Table' BY SamePeople DEF Unban, Table, SeatsFollowSockets
<1> QED BY <1>1, <1>2, <1>3, <1>4, <1>5

\* Nobody new and no ban: the names stay as good as they were.
LEMMA NamingKept ==
    ASSUME TypeOK, Naming, Here' \subseteq Here, UNCHANGED <<bannedIDs, bannedNames>>,
           \A q \in Ids : persons'[q].name = persons[q].name
    PROVE  Naming'
<1>1. Here \subseteq Ids /\ bannedIDs \subseteq Ids BY DEF Here, TypeOK
<1> QED BY <1>1 DEF Naming

\* No new host and no new showman: the ranks stay as good as they were.
LEMMA RanksKept ==
    ASSUME Ranks, Hosts' \subseteq Hosts, HumanShowmen' \subseteq HumanShowmen, UNCHANGED showman
    PROVE  Ranks'
BY DEF Ranks

\* The players are finitely many, and a subset of them are not more.
LEMMA FewerPlayers ==
    ASSUME Players' \subseteq Players
    PROVE  /\ Cardinality(Players') \in Nat /\ Cardinality(Players) \in Nat
           /\ Cardinality(Players') <= Cardinality(Players)
<1>1. IsFiniteSet(Ids) BY Limits, FS_Interval DEF Ids
<1>2. Players \subseteq Ids BY DEF Players, Here
<1> QED BY <1>1, <1>2, FS_Subset, FS_CardinalityType

\* Handing the host's rights over changes nothing else of the person.
LEMMA HostForm ==
    ASSUME NEW k \in Person, NEW h \in BOOLEAN, NEW n, n = [k EXCEPT !.host = h]
    PROVE  /\ n \in Person /\ SamePerson(k, n) /\ n.host = h
           /\ n.connected = k.connected /\ n.gen = k.gen
BY DEF Person, SamePerson

\* There is one host before and after the transfer.
LEMMA TransferHostKeeps == ASSUME IInv, NEW p \in Ids, TransferHost(p) PROVE IInv'
<1> USE DEF IInv
<1>1. UNCHANGED <<sockets, inbox, bannedNames, bannedIDs, showman, joinMode, game, seats, closing>>
  BY DEF TransferHost, room
<1>2. ASSUME NEW q \in Ids
      PROVE  /\ persons'[q] \in Person /\ SamePerson(persons[q], persons'[q])
             /\ persons'[q].host <=> q = p
             /\ persons'[q].connected = persons[q].connected /\ persons'[q].gen = persons[q].gen
  <2>1. persons[q] \in Person BY DEF TypeOK, Person
  <2>2. CASE q = p
    <3>1. persons'[q] = [persons[q] EXCEPT !.host = TRUE] BY <2>2 DEF TransferHost
    <3> QED BY <2>1, <2>2, <3>1, HostForm
  <2>3. CASE q # p
    <3>1. persons'[q] = [persons[q] EXCEPT !.host = FALSE] BY <2>3 DEF TransferHost
    <3> QED BY <2>1, <2>3, <3>1, HostForm
  <2> QED BY <2>2, <2>3
<1>3. TypeOK'
  <2>1. persons' \in [Ids -> Person]
    <3>1. \A q \in Ids : persons'[q] \in Person BY <1>2
    <3>2. persons' = [q \in Ids |-> persons'[q]] BY DEF TransferHost
    <3> QED BY <3>1, <3>2
  <2> QED BY <1>1, <2>1 DEF TypeOK, Person
<1>4. /\ Here' = Here /\ Players' = Players /\ Connected' = Connected
      /\ HumanShowmen' = HumanShowmen /\ Hosts' \subseteq {p}
  BY <1>2 DEF Here, Players, Connected, HumanShowmen, Hosts, SamePerson
<1>5. Naming' /\ Ranks'
  <2>1. \A q \in Ids : persons'[q].name = persons[q].name BY <1>2 DEF SamePerson
  <2>2. Naming' BY <1>1, <1>4, <2>1, NamingKept
  <2> QED BY <1>1, <1>4, <2>2 DEF Ranks
<1>6. Links'
  <2>1. \A s \in Socks : sockets[s].loop = "reading" => IsCurrent(s)'
    BY <1>1, <1>2 DEF Links, IsCurrent, SamePerson
  <2> QED BY <1>1, <1>2, <1>4, <2>1 DEF Links, TypeOK
<1>7. Table' BY <1>1, <1>2, <1>4 DEF Table, SeatsFollowSockets, SamePerson
<1> QED BY <1>3, <1>5, <1>6, <1>7

-----------------------------------------------------------------------------
(* Sockets come and go. *)

\* The old socket of the person is closed and the new one is the connection;
\* the engine seats a player of a running game.
LEMMA AttachKeeps == ASSUME IInv, NEW p \in Ids, NEW s \in Socks, Attach(p, s) PROVE IInv'
<1> USE DEF IInv
<1>1. /\ UNCHANGED <<inbox, bannedNames, bannedIDs, showman, joinMode, game, closing>>
      /\ ~closing /\ p \in Here /\ sockets[s].loop = "unused"
      /\ seats' = Seated(p)
  BY DEF Attach, room, Unused
<1>2. /\ persons' \in [Ids -> Person]
      /\ \A q \in Ids \ {p} : persons'[q] = persons[q]
      /\ SamePerson(persons[p], persons'[p]) /\ persons'[p].host = persons[p].host
      /\ persons'[p].gen = s /\ persons'[p].connected
  <2>1. persons \in [Ids -> Person] BY DEF TypeOK, Person
  <2>2. persons' = [persons EXCEPT ![p] = [persons[p] EXCEPT !.gen = s, !.connected = TRUE]]
    BY <2>1 DEF Attach
  <2>3. s \in 0..MaxSockets BY DEF Socks
  <2>4. persons[p] \in Person BY <2>1
  <2>5. persons'[p] = [persons[p] EXCEPT !.gen = s, !.connected = TRUE] BY <2>1, <2>2
  <2>6. /\ persons'[p] \in Person
        /\ SamePerson(persons[p], persons'[p]) /\ persons'[p].host = persons[p].host
        /\ persons'[p].gen = s /\ persons'[p].connected
    BY <2>3, <2>4, <2>5 DEF Person, SamePerson
  <2>7. \A q \in Ids \ {p} : persons'[q] = persons[q] BY <2>1, <2>2
  <2>8. persons' \in [Ids -> Person] BY <2>1, <2>2, <2>5, <2>6
  <2> QED BY <2>6, <2>7, <2>8
<1>3. /\ Here' = Here /\ Players' = Players /\ Connected' = Connected \union {p}
      /\ HumanShowmen' = HumanShowmen /\ Hosts' = Hosts
  BY <1>1, <1>2 DEF Here, Players, Connected, HumanShowmen, Hosts, SamePerson
<1>4. /\ sockets' \in [Socks -> [person : 0..MaxPersons, loop : {"unused", "reading", "closed", "done"}]]
      /\ sockets'[s].person = p /\ sockets'[s].loop = "reading"
      /\ \A t \in Socks \ {s} :
            /\ sockets'[t].person = sockets[t].person
            /\ (sockets'[t].loop = sockets[t].loop \/ (sockets[t].loop = "reading" /\ sockets'[t].loop = "closed"))
            /\ (persons[p].connected /\ t = persons[p].gen) => sockets'[t].loop # "reading"
  <2>1. \A c \in Socks : CloseSocket(c) \in [Socks -> [person : 0..MaxPersons, loop : {"unused", "reading", "closed", "done"}]]
    BY DEF CloseSocket, TypeOK
  <2>2. \A c \in Socks : CloseSocket(c)[c].loop # "reading"
    BY DEF CloseSocket, TypeOK
  <2>3. \A c, t \in Socks : /\ CloseSocket(c)[t].person = sockets[t].person
                            /\ \/ CloseSocket(c)[t].loop = sockets[t].loop
                               \/ sockets[t].loop = "reading" /\ CloseSocket(c)[t].loop = "closed"
    BY DEF CloseSocket, TypeOK
  <2>4. persons[p].connected => persons[p].gen \in Socks BY DEF Links
  <2>5. PICK f \in [Socks -> [person : 0..MaxPersons, loop : {"unused", "reading", "closed", "done"}]] :
           /\ sockets' = [f EXCEPT ![s] = [person |-> p, loop |-> "reading"]]
           /\ f = IF persons[p].connected THEN CloseSocket(persons[p].gen) ELSE sockets
    BY <2>1, <2>4 DEF Attach, TypeOK
  <2>6. \A t \in Socks : /\ f[t].person = sockets[t].person
                         /\ (f[t].loop = sockets[t].loop \/ (sockets[t].loop = "reading" /\ f[t].loop = "closed"))
                         /\ (persons[p].connected /\ t = persons[p].gen) => f[t].loop # "reading"
    BY <2>2, <2>3, <2>4, <2>5
  <2> QED BY <2>5, <2>6 DEF Ids
<1>5. seats' \in [Ids -> {"none", "in", "out", "kicked"}] /\ \A q \in Ids \ {p} : seats'[q] = seats[q]
  BY <1>1 DEF Seated, TypeOK
<1>6. TypeOK' BY <1>1, <1>2, <1>4, <1>5 DEF TypeOK, Person
<1>7. Naming' BY <1>1, <1>2, <1>3, NamingKept DEF SamePerson
<1>8. Ranks' BY <1>1, <1>3, RanksKept
<1>9. Links'
  <2>1. \A t \in Socks : sockets'[t].loop # "unused" => sockets'[t].person \in Ids BY <1>4 DEF Links
  <2>2. \A t \in Socks : sockets'[t].loop = "reading" => IsCurrent(t)'
    <3>1. SUFFICES ASSUME NEW t \in Socks, sockets'[t].loop = "reading" PROVE IsCurrent(t)' OBVIOUS
    <3>2. CASE t = s BY <1>1, <1>2, <1>4, <3>2 DEF IsCurrent, Here, SamePerson
    <3>3. CASE t # s
      <4>1. IsCurrent(t) /\ sockets'[t].person = sockets[t].person /\ sockets[t].person \in Ids
        BY <1>4, <3>1, <3>3 DEF Links
      <4>2. sockets[t].person # p BY <1>4, <3>1, <3>3, <4>1 DEF IsCurrent
      <4> QED BY <1>2, <4>1, <4>2 DEF IsCurrent
    <3> QED BY <3>2, <3>3
  <2>3. \A t \in inbox : sockets'[t].loop # "unused"
    <3>1. inbox \subseteq Socks BY DEF TypeOK
    <3>2. \A t \in inbox : t # s /\ sockets[t].loop # "unused" BY <1>1 DEF Links
    <3> QED BY <1>4, <3>1, <3>2
  <2>4. \A q \in Ids : persons'[q].connected =>
          /\ q \in Here /\ persons'[q].gen \in Socks
          /\ sockets'[persons'[q].gen].person = q
          /\ sockets'[persons'[q].gen].loop \in {"reading", "closed"}
    BY <1>1, <1>2, <1>4 DEF Links
  <2> QED BY <1>1, <1>3, <2>1, <2>2, <2>3, <2>4 DEF Links
<1>10. Table'
  <2>1. ASSUME game # "none", p \in Players, game = "playing" PROVE seats' = [seats EXCEPT ![p] = "in"]
    <3>1. seats[p] # "kicked" BY <1>1 DEF Table
    <3>2. CASE seats[p] = "none"
      <4>1. IsFiniteSet(Ids) BY Limits, FS_Interval DEF Ids
      <4>2. AtTheTable \subseteq Players \ {p} BY <2>1, <3>2 DEF Table, AtTheTable, TypeOK
      <4>3. Players \subseteq Ids BY DEF Players, Here
      <4>4. /\ Cardinality(Players \ {p}) = Cardinality(Players) - 1
            /\ Cardinality(AtTheTable) <= Cardinality(Players \ {p})
            /\ Cardinality(AtTheTable) \in Nat /\ Cardinality(Players) \in Nat
        BY <2>1, <4>1, <4>2, <4>3, FS_Subset, FS_RemoveElement, FS_CardinalityType
      <4>5. Cardinality(Players) <= MaxPlayers BY DEF Table
      <4>6. ~(Cardinality(AtTheTable) >= EngineMax)
        <5> DEFINE a == Cardinality(AtTheTable)
                   b == Cardinality(Players)
        <5>1. a \in Nat /\ b \in Nat /\ a <= b - 1 /\ b <= MaxPlayers BY <4>4, <4>5
        <5> HIDE DEF a, b
        <5>2. ~(a >= EngineMax) BY <5>1, Limits
        <5> QED BY <5>2 DEF a
      <4> QED BY <1>1, <2>1, <3>1, <4>6 DEF Seated, Players
    <3> QED BY <1>1, <2>1, <3>1, <3>2 DEF Seated, Players
  <2>2. game = "none" \/ p \notin Players => seats' = seats BY <1>1 DEF Seated, Players
  <2>3. \A q \in Ids : seats'[q] = "kicked" => seats[q] = "kicked" BY <1>1, <1>5 DEF Seated, TypeOK
  <2>4. \A q \in Ids : persons'[q].name = persons[q].name BY <1>2 DEF SamePerson
  <2>5. \A q \in Ids : seats'[q] = "kicked" => q \notin Here' /\ persons'[q].name # ""
    BY <1>3, <2>3, <2>4 DEF Table
  <2>6. SeatsFollowSockets' BY <1>1, <1>3, <1>5, <2>1, <2>2 DEF Table, SeatsFollowSockets, TypeOK
  <2>7. game = "playing" => \A q \in Ids : seats'[q] \in {"in", "out"} => q \in Players
    BY <1>5, <2>1, <2>2 DEF Table, TypeOK
  <2> QED BY <1>1, <1>3, <2>2, <2>5, <2>6, <2>7 DEF Table
<1> QED BY <1>6, <1>7, <1>8, <1>9, <1>10

\* Only the detach of the connection ends the connection.
LEMMA DetachKeeps == ASSUME IInv, NEW s \in Socks, Detach(s) PROVE IInv'
<1> USE DEF IInv
<1> DEFINE p == sockets[s].person
<1>1. /\ UNCHANGED <<inbox, bannedNames, bannedIDs, showman, joinMode, game, closing>>
      /\ sockets[s].loop = "closed" /\ s \notin inbox /\ p \in Ids
  BY DEF Detach, room, Links
<1>2. /\ sockets' \in [Socks -> [person : 0..MaxPersons, loop : {"unused", "reading", "closed", "done"}]]
      /\ \A t \in Socks : sockets'[t].person = sockets[t].person
      /\ sockets'[s].loop = "done" /\ \A t \in Socks \ {s} : sockets'[t] = sockets[t]
  BY DEF Detach, TypeOK
<1>3. /\ persons' \in [Ids -> Person]
      /\ \A q \in Ids : /\ SamePerson(persons[q], persons'[q]) /\ persons'[q].host = persons[q].host
                        /\ persons'[q].gen = persons[q].gen
                        /\ (persons'[q].connected <=> (persons[q].connected /\ ~(q = p /\ IsCurrent(s))))
  <2>1. persons \in [Ids -> Person] BY DEF TypeOK, Person
  <2>2. CASE IsCurrent(s)
    <3>1. persons' = [persons EXCEPT ![p].connected = FALSE] BY <2>2 DEF Detach
    <3> QED BY <1>1, <2>1, <2>2, <3>1 DEF Person, SamePerson
  <2>3. CASE ~IsCurrent(s)
    <3>1. persons' = persons BY <2>3 DEF Detach
    <3> QED BY <2>1, <2>3, <3>1 DEF SamePerson
  <2> QED BY <2>2, <2>3
<1>4. /\ Here' = Here /\ Players' = Players
      /\ Connected' = IF IsCurrent(s) THEN Connected \ {p} ELSE Connected
      /\ HumanShowmen' = HumanShowmen /\ Hosts' = Hosts
  BY <1>1, <1>3 DEF Here, Players, Connected, HumanShowmen, Hosts, SamePerson
<1>5. /\ seats' \in [Ids -> {"none", "in", "out", "kicked"}]
      /\ \A q \in Ids : seats'[q] = IF q = p /\ IsCurrent(s) /\ game # "none" /\ seats[q] = "in" THEN "out" ELSE seats[q]
  BY <1>1 DEF Detach, Gone, TypeOK
<1>6. TypeOK' BY <1>1, <1>2, <1>3, <1>5 DEF TypeOK, Person
<1>7. Naming' BY <1>1, <1>3, <1>4, NamingKept DEF SamePerson
<1>8. Ranks' BY <1>1, <1>4, RanksKept
<1>9. Links'
  <2>1. \A t \in Socks : sockets'[t].loop # "unused" => sockets'[t].person \in Ids BY <1>1, <1>2 DEF Links
  <2>2. \A t \in Socks : sockets'[t].loop = "reading" => IsCurrent(t)'
    <3>1. SUFFICES ASSUME NEW t \in Socks, sockets'[t].loop = "reading" PROVE IsCurrent(t)' OBVIOUS
    <3>2. t # s /\ sockets'[t] = sockets[t] /\ IsCurrent(t) /\ sockets[t].person \in Ids BY <1>2, <3>1 DEF Links
    <3>3. ~(sockets[t].person = p /\ IsCurrent(s)) BY <3>2 DEF IsCurrent
    <3> QED BY <1>3, <3>2, <3>3 DEF IsCurrent, SamePerson
  <2>3. \A t \in inbox : sockets'[t].loop # "unused"
    <3>1. inbox \subseteq Socks BY DEF TypeOK
    <3>2. \A t \in inbox : t # s /\ sockets[t].loop # "unused" BY <1>1 DEF Links
    <3> QED BY <1>2, <3>1, <3>2
  <2>4. \A q \in Ids : persons'[q].connected =>
          /\ q \in Here /\ persons'[q].gen \in Socks
          /\ sockets'[persons'[q].gen].person = q
          /\ sockets'[persons'[q].gen].loop \in {"reading", "closed"}
    <3>1. SUFFICES ASSUME NEW q \in Ids, persons'[q].connected
          PROVE  /\ q \in Here /\ persons[q].gen \in Socks
                 /\ sockets'[persons[q].gen].person = q
                 /\ sockets'[persons[q].gen].loop \in {"reading", "closed"}
      BY <1>3
    <3>2. persons[q].connected /\ ~(q = p /\ IsCurrent(s)) BY <1>3, <3>1
    <3>3. persons[q].gen # s BY <3>2 DEF Links, IsCurrent, Here
    <3> QED BY <1>2, <3>2, <3>3 DEF Links
  <2> QED BY <1>1, <1>4, <2>1, <2>2, <2>3, <2>4 DEF Links
<1>10. Table'
  <2>1. \A q \in Ids : persons'[q].name = persons[q].name BY <1>3 DEF SamePerson
  <2>2. SeatsFollowSockets' BY <1>1, <1>4, <1>5 DEF Table, SeatsFollowSockets, TypeOK
  <2> QED BY <1>1, <1>4, <1>5, <2>1, <2>2 DEF Table, TypeOK
<1> QED BY <1>6, <1>7, <1>8, <1>9, <1>10

\* A message of a socket that is no longer the connection starts nothing.
LEMMA StartGameKeeps == ASSUME IInv, NEW s \in Socks, StartGame(s) PROVE IInv'
<1> USE DEF IInv
<1>1. /\ UNCHANGED <<persons, sockets, bannedNames, bannedIDs, showman, joinMode, closing>>
      /\ inbox' \subseteq inbox
  BY DEF StartGame, room
<1>2. \/ UNCHANGED <<game, seats>>
      \/ /\ game = "none" /\ game' = "playing"
         /\ seats' = [i \in Ids |-> IF i \in Connected \cap Players THEN "in" ELSE "none"]
  BY DEF StartGame
<1>3. TypeOK' BY <1>1, <1>2 DEF TypeOK
<1>4. Naming' /\ Ranks' BY <1>1, SamePeople DEF Naming, Ranks
<1>5. Links' BY <1>1, SamePeople DEF Links, IsCurrent
<1>6. Table'
  <2>1. CASE UNCHANGED <<game, seats>> BY <1>1, <2>1, SamePeople DEF Table, SeatsFollowSockets
  <2>2. CASE ~UNCHANGED <<game, seats>>
    <3>1. /\ game' = "playing"
          /\ \A q \in Ids : seats'[q] = IF q \in Connected \cap Players THEN "in" ELSE "none"
      BY <1>2, <2>2
    <3> QED BY <1>1, <3>1, SamePeople DEF Table, SeatsFollowSockets
  <2> QED BY <2>1, <2>2
<1> QED BY <1>3, <1>4, <1>5, <1>6

\* The end of the room closes every socket it knows, which is every one read.
LEMMA CloseRoomKeeps == ASSUME IInv, CloseRoom PROVE IInv'
<1> USE DEF IInv
<1>1. UNCHANGED <<inbox, bannedNames, bannedIDs, showman, joinMode, game, seats>> /\ closing' = TRUE
  BY DEF CloseRoom, room
<1>2. ASSUME NEW q \in Ids
      PROVE  /\ persons'[q] \in Person /\ SamePerson(persons[q], persons'[q])
             /\ persons'[q].host = persons[q].host /\ ~persons'[q].connected
  <2>1. persons[q] \in Person BY DEF TypeOK, Person
  <2>2. persons'[q] = [persons[q] EXCEPT !.connected = FALSE] BY DEF CloseRoom
  <2> QED BY <2>1, <2>2 DEF Person, SamePerson
<1>3. persons' \in [Ids -> Person]
  <2>1. persons' = [q \in Ids |-> persons'[q]] BY DEF CloseRoom
  <2> QED BY <1>2, <2>1
<1>4. ASSUME NEW s \in Socks
      PROVE  /\ sockets'[s] \in [person : 0..MaxPersons, loop : {"unused", "reading", "closed", "done"}]
             /\ sockets'[s].person = sockets[s].person /\ sockets'[s].loop # "reading"
             /\ sockets[s].loop # "unused" => sockets'[s].loop # "unused"
             /\ sockets'[s].loop # "unused" => sockets[s].loop # "unused"
  <2>1. sockets[s] \in [person : 0..MaxPersons, loop : {"unused", "reading", "closed", "done"}] BY DEF TypeOK
  <2>2. CASE sockets[s].loop = "reading"
    <3>1. sockets'[s] = [sockets[s] EXCEPT !.loop = "closed"] BY <2>2 DEF CloseRoom, Links
    <3> QED BY <2>1, <2>2, <3>1
  <2>3. CASE sockets[s].loop # "reading"
    <3>1. sockets'[s] = sockets[s] BY <2>3 DEF CloseRoom
    <3> QED BY <2>1, <2>3, <3>1
  <2> QED BY <2>2, <2>3
<1>5. sockets' \in [Socks -> [person : 0..MaxPersons, loop : {"unused", "reading", "closed", "done"}]]
  <2>1. sockets' = [s \in Socks |-> sockets'[s]] BY DEF CloseRoom
  <2> QED BY <1>4, <2>1
<1>6. /\ Here' = Here /\ Players' = Players /\ HumanShowmen' = HumanShowmen /\ Hosts' = Hosts
  BY <1>2 DEF Here, Players, HumanShowmen, Hosts, SamePerson
<1>7. TypeOK' BY <1>1, <1>3, <1>5 DEF TypeOK, Person
<1>8. \A q \in Ids : persons'[q].name = persons[q].name BY <1>2 DEF SamePerson
<1>9. Naming' BY <1>1, <1>6, <1>8, NamingKept
<1>10. Ranks' BY <1>1, <1>6, RanksKept
<1>11. Links'
  <2>1. inbox \subseteq Socks BY DEF TypeOK
  <2> QED BY <1>1, <1>2, <1>4, <2>1 DEF Links
<1>12. Table' BY <1>1, <1>6, <1>8 DEF Table, SeatsFollowSockets
<1> QED BY <1>7, <1>9, <1>10, <1>11, <1>12

-----------------------------------------------------------------------------
(* People come and go. *)

\* The connection of p ends, and p stays or is removed.
LEMMA PartingLinks ==
    ASSUME TypeOK, Links, TypeOK', NEW p \in Ids, UNCHANGED inbox,
           sockets' = IF persons[p].connected THEN CloseSocket(persons[p].gen) ELSE sockets,
           \A q \in Ids \ {p} : persons'[q] = persons[q],
           ~persons'[p].connected
    PROVE  Links'
<1>1. persons[p].connected => persons[p].gen \in Socks /\ sockets[persons[p].gen].loop \in {"reading", "closed"}
  BY DEF Links
<1>2. \A t \in Socks : /\ sockets'[t].person = sockets[t].person
                       /\ (sockets'[t].loop = sockets[t].loop
                             \/ (sockets[t].loop = "reading" /\ sockets'[t].loop = "closed"))
                       /\ (~persons[p].connected \/ t # persons[p].gen) => sockets'[t] = sockets[t]
                       /\ (persons[p].connected /\ t = persons[p].gen) => sockets'[t].loop # "reading"
  <2>1. CASE ~persons[p].connected BY <2>1
  <2>2. CASE persons[p].connected
    <3>1. \A c \in Socks : CloseSocket(c)[c].loop # "reading" BY DEF CloseSocket, TypeOK
    <3>2. \A c, t \in Socks : /\ CloseSocket(c)[t].person = sockets[t].person
                              /\ \/ CloseSocket(c)[t].loop = sockets[t].loop
                                 \/ sockets[t].loop = "reading" /\ CloseSocket(c)[t].loop = "closed"
      BY DEF CloseSocket, TypeOK
    <3>3. \A c, t \in Socks : t # c => CloseSocket(c)[t] = sockets[t] BY DEF CloseSocket, TypeOK
    <3> QED BY <1>1, <2>2, <3>1, <3>2, <3>3
  <2> QED BY <2>1, <2>2
<1>3. \A t \in Socks : sockets'[t].loop # "unused" => sockets'[t].person \in Ids BY <1>2 DEF Links
<1>4. \A t \in Socks : sockets'[t].loop = "reading" => IsCurrent(t)'
  <2>1. SUFFICES ASSUME NEW t \in Socks, sockets'[t].loop = "reading" PROVE IsCurrent(t)' OBVIOUS
  <2>2. IsCurrent(t) /\ sockets'[t].person = sockets[t].person /\ sockets[t].person \in Ids
    BY <1>2, <2>1 DEF Links
  <2>3. sockets[t].person # p BY <1>2, <2>1, <2>2 DEF IsCurrent
  <2> QED BY <2>2, <2>3 DEF IsCurrent
<1>5. \A t \in inbox' : sockets'[t].loop # "unused"
  <2>1. inbox \subseteq Socks BY DEF TypeOK
  <2> QED BY <1>2, <2>1 DEF Links
<1>6. \A q \in Ids : persons'[q].connected =>
          /\ q \in Here' /\ persons'[q].gen \in Socks
          /\ sockets'[persons'[q].gen].person = q
          /\ sockets'[persons'[q].gen].loop \in {"reading", "closed"}
  <2>1. SUFFICES ASSUME NEW q \in Ids \ {p}, persons[q].connected
        PROVE  /\ q \in Here' /\ persons[q].gen \in Socks
               /\ sockets'[persons[q].gen].person = q
               /\ sockets'[persons[q].gen].loop \in {"reading", "closed"}
    OBVIOUS
  <2>2. q \in Here /\ persons[q].gen \in Socks /\ sockets[persons[q].gen].person = q
        /\ sockets[persons[q].gen].loop \in {"reading", "closed"}
    BY <2>1 DEF Links
  <2>3. q \in Here' BY <2>2 DEF Here
  <2> QED BY <1>2, <2>2, <2>3
<1> QED BY <1>3, <1>4, <1>5, <1>6 DEF Links

\* A person without a connection, and the role of who has none, are in their sets.
LEMMA NoSocket == 0 \in 0..MaxSockets /\ "viewer" \in Roles
BY Limits DEF Roles

\* Who is removed keeps nothing but the name.
LEMMA RemovedPerson ==
    ASSUME NEW x \in Names \cup {""}
    PROVE  [here |-> FALSE, name |-> x, role |-> "viewer", host |-> FALSE,
            session |-> FALSE, connected |-> FALSE, gen |-> 0] \in Person
BY NoSocket, Zenon DEF Person

\* The form of the person after a removal.
LEMMA RemovedForm ==
    ASSUME NEW k \in Person, NEW n, n = [Nobody EXCEPT !.name = k.name]
    PROVE  n \in Person /\ n.name = k.name /\ ~n.here /\ ~n.connected /\ ~n.host
<1>1. n = [here |-> FALSE, name |-> k.name, role |-> "viewer", host |-> FALSE,
           session |-> FALSE, connected |-> FALSE, gen |-> 0]
  BY DEF Nobody
<1>2. k.name \in Names \cup {""} BY DEF Person
<1>3. n \in Person BY <1>1, <1>2, RemovedPerson, Zenon
<1>4. n.name = k.name BY <1>1
<1>5. n.here = FALSE /\ n.connected = FALSE /\ n.host = FALSE BY <1>1
<1> QED BY <1>3, <1>4, <1>5, Zenon

\* Closing a connection keeps the form of the sockets.
LEMMA PartingSockets ==
    ASSUME TypeOK, Links, NEW p \in Ids
    PROVE  (IF persons[p].connected THEN CloseSocket(persons[p].gen) ELSE sockets)
             \in [Socks -> [person : 0..MaxPersons, loop : {"unused", "reading", "closed", "done"}]]
<1>1. CASE ~persons[p].connected BY <1>1 DEF TypeOK
<1>2. CASE persons[p].connected
  <2>1. persons[p].gen \in Socks BY <1>2 DEF Links
  <2> QED BY <1>2, <2>1 DEF CloseSocket, TypeOK
<1> QED BY <1>1, <1>2

\* Who leaves a running game keeps the seat, everyone else is removed; the
\* connection ends either way.
LEMMA LeaveKeeps == ASSUME IInv, NEW p \in Ids, Leave(p) PROVE IInv'
<1> USE DEF IInv
<1>1. /\ UNCHANGED <<inbox, bannedNames, bannedIDs, showman, joinMode, game, closing>>
      /\ p \in Here
      /\ sockets' = IF persons[p].connected THEN CloseSocket(persons[p].gen) ELSE sockets
      /\ seats' = IF persons[p].connected THEN Gone(p) ELSE seats
  BY DEF Leave, room
<1>2. /\ persons' \in [Ids -> Person]
      /\ \A q \in Ids \ {p} : persons'[q] = persons[q]
      /\ persons'[p].name = persons[p].name /\ ~persons'[p].connected
      /\ IF Remains(p) THEN SamePerson(persons[p], persons'[p]) /\ persons'[p].host = persons[p].host
                       ELSE ~persons'[p].here
  <2>1. persons \in [Ids -> Person] BY DEF TypeOK, Person
  <2>2. CASE Remains(p)
    <3>1. persons' = [persons EXCEPT ![p] = [persons[p] EXCEPT !.session = FALSE, !.connected = FALSE]]
      BY <2>1, <2>2 DEF Leave
    <3>2. persons'[p] = [persons[p] EXCEPT !.session = FALSE, !.connected = FALSE] BY <2>1, <3>1
    <3>3. /\ persons'[p] \in Person /\ SamePerson(persons[p], persons'[p])
          /\ persons'[p].host = persons[p].host /\ ~persons'[p].connected
      BY <2>1, <3>2 DEF Person, SamePerson
    <3>4. \A q \in Ids \ {p} : persons'[q] = persons[q] BY <2>1, <3>1
    <3>5. persons' \in [Ids -> Person] BY <2>1, <3>1, <3>2, <3>3
    <3> QED BY <2>2, <3>3, <3>4, <3>5 DEF SamePerson
  <2>3. CASE ~Remains(p)
    <3>1. persons' = [persons EXCEPT ![p] = [Nobody EXCEPT !.name = persons[p].name]] BY <2>3 DEF Leave
    <3>2. persons'[p] = [Nobody EXCEPT !.name = persons[p].name] BY <2>1, <3>1
    <3>3. /\ persons'[p] \in Person /\ persons'[p].name = persons[p].name
          /\ ~persons'[p].here /\ ~persons'[p].connected
      BY <2>1, <3>2, RemovedForm
    <3>4. \A q \in Ids \ {p} : persons'[q] = persons[q] BY <2>1, <3>1
    <3>5. persons' \in [Ids -> Person] BY <2>1, <3>1, <3>2, <3>3
    <3> QED BY <2>3, <3>3, <3>4, <3>5
  <2> QED BY <2>2, <2>3
<1>3. /\ Here' = IF Remains(p) THEN Here ELSE Here \ {p}
      /\ Players' = IF Remains(p) THEN Players ELSE Players \ {p}
      /\ Connected' = Connected \ {p}
      /\ HumanShowmen' \subseteq HumanShowmen /\ Hosts' \subseteq Hosts
  BY <1>1, <1>2 DEF Here, Players, Connected, HumanShowmen, Hosts, SamePerson
<1>4. /\ seats' \in [Ids -> {"none", "in", "out", "kicked"}]
      /\ \A q \in Ids : seats'[q] = IF q = p /\ persons[p].connected /\ game # "none" /\ seats[q] = "in"
                                     THEN "out" ELSE seats[q]
  BY <1>1 DEF Gone, TypeOK
<1>5. TypeOK'
  <2>1. sockets' \in [Socks -> [person : 0..MaxPersons, loop : {"unused", "reading", "closed", "done"}]]
    BY <1>1, PartingSockets
  <2> QED BY <1>1, <1>2, <1>4, <2>1 DEF TypeOK, Person
<1>6. Naming'
  <2>1. \A q \in Ids : persons'[q].name = persons[q].name BY <1>2
  <2>2. Here' \subseteq Here BY <1>3
  <2> QED BY <1>1, <2>1, <2>2, NamingKept
<1>7. Ranks' BY <1>1, <1>3, RanksKept
<1>8. Links' BY <1>1, <1>2, <1>5, PartingLinks
<1>9. Table'
  <2>1. Cardinality(Players') <= MaxPlayers
    <3>1. Players' \subseteq Players BY <1>3
    <3> DEFINE a == Cardinality(Players')
               b == Cardinality(Players)
    <3>2. a \in Nat /\ b \in Nat /\ a <= b /\ b <= MaxPlayers BY <3>1, FewerPlayers DEF Table
    <3> HIDE DEF a, b
    <3>3. a <= MaxPlayers BY <3>2, Limits
    <3> QED BY <3>3 DEF a
  <2>2. \A q \in Ids : seats'[q] = "kicked" => q \notin Here' /\ persons'[q].name # ""
    BY <1>2, <1>3, <1>4 DEF Table
  <2>3. game = "none" => \A q \in Ids : seats'[q] = "none" BY <1>4 DEF Table
  <2>4. game = "playing" => (p \in Players <=> Remains(p)) BY <1>1 DEF Remains, Players
  <2>5. game = "playing" => \A q \in Ids : seats'[q] \in {"in", "out"} => q \in Players'
    BY <1>3, <1>4, <2>4 DEF Table, TypeOK
  <2>6. SeatsFollowSockets'
    <3>1. SUFFICES ASSUME game = "playing", ~closing, NEW q \in Ids
          PROVE  seats'[q] = "in" <=> q \in Connected' \cap Players'
      BY <1>1 DEF SeatsFollowSockets
    <3>2. seats[q] = "in" <=> q \in Connected \cap Players BY <3>1 DEF Table, SeatsFollowSockets
    <3>3. CASE q = p BY <1>1, <1>3, <1>4, <3>1, <3>2, <3>3 DEF Connected
    <3>4. CASE q # p BY <1>3, <1>4, <3>2, <3>4
    <3> QED BY <3>3, <3>4
  <2> QED BY <1>1, <2>1, <2>2, <2>3, <2>5, <2>6 DEF Table
<1> QED BY <1>5, <1>6, <1>7, <1>8, <1>9

\* A kick ends the connection and the seat, and with a ban keeps the name out.
LEMMA KickKeeps == ASSUME IInv, NEW p \in Ids, NEW ban \in BOOLEAN, Kick(p, ban) PROVE IInv'
<1> USE DEF IInv
<1>1. /\ UNCHANGED <<inbox, showman, joinMode, game, closing>>
      /\ p \in Here /\ persons[p].name \in Names
      /\ bannedNames' = IF ban THEN bannedNames \cup {persons[p].name} ELSE bannedNames
      /\ bannedIDs' = IF ban THEN bannedIDs \cup {p} ELSE bannedIDs
      /\ sockets' = IF persons[p].connected THEN CloseSocket(persons[p].gen) ELSE sockets
      /\ seats' = Kicked(p)
  BY DEF Kick, Naming
<1>2. /\ persons' \in [Ids -> Person]
      /\ \A q \in Ids \ {p} : persons'[q] = persons[q]
      /\ persons'[p].name = persons[p].name
      /\ ~persons'[p].here /\ ~persons'[p].connected
  <2>1. persons \in [Ids -> Person] BY DEF TypeOK, Person
  <2>2. persons' = [persons EXCEPT ![p] = [Nobody EXCEPT !.name = persons[p].name]] BY DEF Kick
  <2>3. persons'[p] = [Nobody EXCEPT !.name = persons[p].name] BY <2>1, <2>2
  <2>4. /\ persons'[p] \in Person /\ persons'[p].name = persons[p].name
        /\ ~persons'[p].here /\ ~persons'[p].connected
    BY <2>1, <2>3, RemovedForm
  <2>5. \A q \in Ids \ {p} : persons'[q] = persons[q] BY <2>1, <2>2
  <2>6. persons' \in [Ids -> Person] BY <2>1, <2>2, <2>3, <2>4
  <2> QED BY <2>4, <2>5, <2>6
<1>3. /\ Here' = Here \ {p} /\ Players' = Players \ {p} /\ Connected' = Connected \ {p}
      /\ HumanShowmen' \subseteq HumanShowmen /\ Hosts' \subseteq Hosts
  BY <1>1, <1>2 DEF Here, Players, Connected, HumanShowmen, Hosts
<1>4. /\ seats' \in [Ids -> {"none", "in", "out", "kicked"}]
      /\ \A q \in Ids : seats'[q] = IF q = p /\ game = "playing" /\ seats[q] \in {"in", "out"}
                                     THEN "kicked" ELSE seats[q]
  BY <1>1 DEF Kicked, TypeOK
<1>5. TypeOK'
  <2>1. sockets' \in [Socks -> [person : 0..MaxPersons, loop : {"unused", "reading", "closed", "done"}]]
    BY <1>1, PartingSockets
  <2> QED BY <1>1, <1>2, <1>4, <2>1 DEF TypeOK, Person
<1>6. Naming'
  <2>1. \A q \in Ids : persons'[q].name = persons[q].name BY <1>2
  <2>2. Here \subseteq Ids /\ bannedIDs \subseteq Ids BY DEF Here, TypeOK
  <2>3. \A q \in bannedIDs : persons[q].name # persons[p].name BY <1>1 DEF Naming
  <2>4. CASE ~ban BY <1>1, <1>3, <2>1, <2>2, <2>4 DEF Naming
  <2>5. CASE ban
    <3>1. /\ bannedNames' = bannedNames \cup {persons[p].name}
          /\ bannedIDs' = bannedIDs \cup {p}
      BY <1>1, <2>5
    <3>2. \A q \in Here' : persons'[q].name \in Names \ bannedNames'
      BY <1>1, <1>3, <2>1, <2>2, <3>1 DEF Naming
    <3>3. \A q, t \in Here' : persons'[q].name = persons'[t].name => q = t
      BY <1>3, <2>1, <2>2 DEF Naming
    <3>4. \A q \in bannedIDs' : q \notin Here' /\ persons'[q].name \in Names
      BY <1>1, <1>3, <2>1, <2>2, <3>1 DEF Naming
    <3>5. \A q, t \in bannedIDs' : persons'[q].name = persons'[t].name => q = t
      BY <2>1, <2>2, <2>3, <3>1 DEF Naming
    <3>6. \A n \in bannedNames' : \E q \in bannedIDs' : persons'[q].name = n
      BY <2>1, <2>2, <3>1 DEF Naming
    <3>7. \A q \in bannedIDs' : persons'[q].name \in bannedNames' BY <2>1, <2>2, <3>1 DEF Naming
    <3> QED BY <3>2, <3>3, <3>4, <3>5, <3>6, <3>7 DEF Naming
  <2> QED BY <2>4, <2>5
<1>7. Ranks' BY <1>1, <1>3, RanksKept
<1>8. Links' BY <1>1, <1>2, <1>5, PartingLinks
<1>9. Table'
  <2>1. Cardinality(Players') <= MaxPlayers
    <3>1. Players' \subseteq Players BY <1>3
    <3> DEFINE a == Cardinality(Players')
               b == Cardinality(Players)
    <3>2. a \in Nat /\ b \in Nat /\ a <= b /\ b <= MaxPlayers BY <3>1, FewerPlayers DEF Table
    <3> HIDE DEF a, b
    <3>3. a <= MaxPlayers BY <3>2, Limits
    <3> QED BY <3>3 DEF a
  <2>2. \A q \in Ids : seats'[q] = "kicked" => q \notin Here' /\ persons'[q].name # ""
    BY <1>1, <1>2, <1>3, <1>4, NobodyIsUnnamed DEF Table
  <2>3. game = "none" => \A q \in Ids : seats'[q] = "none" BY <1>4 DEF Table
  <2>5. game = "playing" => \A q \in Ids : seats'[q] \in {"in", "out"} => q \in Players'
    BY <1>3, <1>4 DEF Table, TypeOK
  <2>6. SeatsFollowSockets'
    <3>1. SUFFICES ASSUME game = "playing", ~closing, NEW q \in Ids
          PROVE  seats'[q] = "in" <=> q \in Connected' \cap Players'
      BY <1>1 DEF SeatsFollowSockets
    <3>2. seats[q] = "in" <=> q \in Connected \cap Players BY <3>1 DEF Table, SeatsFollowSockets
    <3>3. CASE q = p BY <1>3, <1>4, <3>1, <3>3
    <3>4. CASE q # p BY <1>3, <1>4, <3>2, <3>4
    <3> QED BY <3>3, <3>4
  <2> QED BY <1>1, <2>1, <2>2, <2>3, <2>5, <2>6 DEF Table
<1> QED BY <1>5, <1>6, <1>7, <1>8, <1>9

\* What taking a seat back changes of the person.
LEMMA ReclaimedForm ==
    ASSUME NEW k \in Person, NEW h \in BOOLEAN, NEW n, n = [k EXCEPT !.session = TRUE, !.host = h]
    PROVE  /\ n \in Person /\ SamePerson(k, n) /\ n.host = h
           /\ n.connected = k.connected /\ n.gen = k.gen
BY DEF Person, SamePerson

\* Who takes a seat back is nobody new, and a host only when there is none.
LEMMA ReclaimKeeps ==
    ASSUME IInv, NEW p \in Here, NEW token \in BOOLEAN, Reclaim(p, token),
           UNCHANGED <<sockets, inbox, bannedNames, bannedIDs, showman, joinMode, game, seats, closing>>
    PROVE  IInv'
<1> USE DEF IInv
<1> DEFINE h == persons[p].host \/ BecomesHost(token)
<1>1. p \in Ids /\ persons \in [Ids -> Person] BY DEF Here, TypeOK, Person
<1>2. /\ persons' \in [Ids -> Person]
      /\ \A q \in Ids \ {p} : persons'[q] = persons[q]
      /\ SamePerson(persons[p], persons'[p])
      /\ persons'[p].connected = persons[p].connected /\ persons'[p].gen = persons[p].gen
      /\ persons'[p].host => persons[p].host \/ Hosts = {}
  <2>1. CASE h
    <3>1. persons' = [persons EXCEPT ![p] = [persons[p] EXCEPT !.session = TRUE, !.host = TRUE]]
      BY <1>1, <2>1 DEF Reclaim
    <3>2. persons'[p] = [persons[p] EXCEPT !.session = TRUE, !.host = TRUE] BY <1>1, <3>1
    <3>3. /\ persons'[p] \in Person /\ SamePerson(persons[p], persons'[p])
          /\ persons'[p].connected = persons[p].connected /\ persons'[p].gen = persons[p].gen
      BY <1>1, <3>2, ReclaimedForm
    <3>4. \A q \in Ids \ {p} : persons'[q] = persons[q] BY <1>1, <3>1
    <3>5. persons' \in [Ids -> Person] BY <1>1, <3>1, <3>2, <3>3
    <3>6. persons[p].host \/ Hosts = {} BY <2>1 DEF BecomesHost
    <3> QED BY <3>3, <3>4, <3>5, <3>6
  <2>2. CASE ~h
    <3>1. persons' = [persons EXCEPT ![p] = [persons[p] EXCEPT !.session = TRUE, !.host = FALSE]]
      BY <1>1, <2>2 DEF Reclaim
    <3>2. persons'[p] = [persons[p] EXCEPT !.session = TRUE, !.host = FALSE] BY <1>1, <3>1
    <3>3. /\ persons'[p] \in Person /\ SamePerson(persons[p], persons'[p]) /\ persons'[p].host = FALSE
          /\ persons'[p].connected = persons[p].connected /\ persons'[p].gen = persons[p].gen
      BY <1>1, <3>2, ReclaimedForm
    <3>4. \A q \in Ids \ {p} : persons'[q] = persons[q] BY <1>1, <3>1
    <3>5. persons' \in [Ids -> Person] BY <1>1, <3>1, <3>2, <3>3
    <3> QED BY <3>3, <3>4, <3>5
  <2> QED BY <2>1, <2>2
<1> HIDE DEF h
<1>3. /\ Here' = Here /\ Players' = Players /\ Connected' = Connected /\ HumanShowmen' = HumanShowmen
      /\ Hosts' \subseteq Hosts \/ (Hosts = {} /\ Hosts' \subseteq {p})
  BY <1>1, <1>2 DEF Here, Players, Connected, HumanShowmen, Hosts, SamePerson
<1>4. \A q \in Ids : /\ SamePerson(persons[q], persons'[q])
                     /\ persons'[q].connected = persons[q].connected /\ persons'[q].gen = persons[q].gen
  BY <1>2 DEF SamePerson
<1>5. TypeOK' BY <1>2 DEF TypeOK, Person
<1>6. Naming'
  <2>1. \A q \in Ids : persons'[q].name = persons[q].name BY <1>4 DEF SamePerson
  <2> QED BY <1>3, <2>1, NamingKept
<1>7. Ranks' BY <1>3 DEF Ranks
<1>8. Links'
  <2>1. \A s \in Socks : sockets[s].loop = "reading" => IsCurrent(s)'
    BY <1>4 DEF Links, IsCurrent, SamePerson
  <2> QED BY <1>3, <1>4, <2>1 DEF Links, TypeOK
<1>9. Table' BY <1>3, <1>4 DEF Table, SeatsFollowSockets, SamePerson
<1> QED BY <1>5, <1>6, <1>7, <1>8, <1>9

\* Who is new has a free name, a rank nobody holds and no seat yet.
LEMMA NewPersonKeeps ==
    ASSUME IInv, NEW x \in Names \ bannedNames, NEW r \in Roles, NEW token \in BOOLEAN,
           Named(x) = {}, NewPerson(x, r, token),
           UNCHANGED <<sockets, inbox, bannedNames, bannedIDs, showman, joinMode, game, seats, closing>>
    PROVE  IInv'
<1> USE DEF IInv
<1>1. /\ r = "showman" => showman # "ai" /\ HumanShowmen = {}
      /\ r = "player" => Cardinality(Players) < MaxPlayers
  BY DEF NewPerson, Admitted
<1>2. PICK p \in Fresh :
        persons' = [persons EXCEPT ![p] = [Nobody EXCEPT !.here = TRUE, !.name = x, !.role = r,
                                            !.host = BecomesHost(token), !.session = TRUE]]
  BY DEF NewPerson
<1>3. p \in Ids /\ persons \in [Ids -> Person] /\ persons[p].name = ""
  BY DEF Fresh, TypeOK, Person
<1>4. p \notin Here /\ p \notin bannedIDs /\ ~persons[p].connected
  <2>1. persons[p].name \notin Names BY <1>3, NobodyIsUnnamed, Zenon
  <2>2. p \notin Here BY <2>1 DEF Naming
  <2>3. p \notin bannedIDs BY <2>1 DEF Naming
  <2>4. ~persons[p].connected BY <1>3, <2>2 DEF Links
  <2> QED BY <2>2, <2>3, <2>4
<1>5. seats[p] # "kicked" /\ (game = "playing" => seats[p] \notin {"in", "out"})
  BY <1>3, <1>4 DEF Table, Players
<1>6. /\ persons' \in [Ids -> Person]
      /\ \A q \in Ids \ {p} : persons'[q] = persons[q]
      /\ persons'[p].here /\ persons'[p].name = x /\ persons'[p].role = r
      /\ ~persons'[p].connected /\ (persons'[p].host => Hosts = {})
  <2> DEFINE h == BecomesHost(token)
  <2>1. h \in BOOLEAN /\ (h => Hosts = {}) BY DEF BecomesHost
  <2>2. persons'[p] = [Nobody EXCEPT !.here = TRUE, !.name = x, !.role = r,
                                     !.host = h, !.session = TRUE]
    BY <1>2, <1>3, Zenon
  <2> HIDE DEF h
  <2>3. persons'[p] = [here |-> TRUE, name |-> x, role |-> r, host |-> h,
                       session |-> TRUE, connected |-> FALSE, gen |-> 0]
    <3>1. CASE h = TRUE
      <4>1. persons'[p] = [Nobody EXCEPT !.here = TRUE, !.name = x, !.role = r,
                                         !.host = TRUE, !.session = TRUE]
        BY <2>2, <3>1, Zenon
      <4>2. persons'[p] = [here |-> TRUE, name |-> x, role |-> r, host |-> TRUE,
                           session |-> TRUE, connected |-> FALSE, gen |-> 0]
        BY <4>1 DEF Nobody
      <4> QED BY <3>1, <4>2, Zenon
    <3>2. CASE h = FALSE
      <4>1. persons'[p] = [Nobody EXCEPT !.here = TRUE, !.name = x, !.role = r,
                                         !.host = FALSE, !.session = TRUE]
        BY <2>2, <3>2, Zenon
      <4>2. persons'[p] = [here |-> TRUE, name |-> x, role |-> r, host |-> FALSE,
                           session |-> TRUE, connected |-> FALSE, gen |-> 0]
        BY <4>1 DEF Nobody
      <4> QED BY <3>2, <4>2, Zenon
    <3> QED BY <2>1, <3>1, <3>2, Zenon
  <2>4. x \in Names \cup {""} OBVIOUS
  <2>5. /\ persons'[p] \in Person /\ persons'[p].here = TRUE /\ persons'[p].name = x
        /\ persons'[p].role = r /\ persons'[p].host = h /\ persons'[p].connected = FALSE
    <3>1. r \in Roles BY DEF Roles
    <3> DEFINE n == persons'[p]
    <3>2. n = [here |-> TRUE, name |-> x, role |-> r, host |-> h,
               session |-> TRUE, connected |-> FALSE, gen |-> 0]
      BY <2>3, Zenon
    <3> HIDE DEF n
    <3>3. n \in Person BY <2>1, <2>4, <3>1, <3>2, NoSocket, Zenon DEF Person
    <3>4. n.here = TRUE BY <3>2, Zenon
    <3>5. n.name = x BY <3>2, Zenon
    <3>6. n.role = r BY <3>2, Zenon
    <3>7. n.host = h BY <3>2, Zenon
    <3>8. n.connected = FALSE BY <3>2, Zenon
    <3> QED BY <3>3, <3>4, <3>5, <3>6, <3>7, <3>8, Zenon DEF n
  <2>6. \A q \in Ids \ {p} : persons'[q] = persons[q] BY <1>2, <1>3, Zenon
  <2>7. persons' \in [Ids -> Person]
    <3>1. persons' = [persons EXCEPT ![p] = persons'[p]] BY <1>2, <2>2, Zenon DEF h
    <3>2. persons'[p] \in Person BY <2>5, Zenon
    <3> QED BY <1>3, <3>1, <3>2
  <2> QED BY <2>1, <2>5, <2>6, <2>7, Zenon
<1>7. /\ Here' = Here \cup {p}
      /\ Players' = IF r = "player" THEN Players \cup {p} ELSE Players
      /\ HumanShowmen' = IF r = "showman" THEN HumanShowmen \cup {p} ELSE HumanShowmen
      /\ Connected' = Connected
      /\ Hosts' \subseteq Hosts \/ (Hosts = {} /\ Hosts' \subseteq {p})
  BY <1>3, <1>4, <1>6 DEF Here, Players, Connected, HumanShowmen, Hosts
<1>8. TypeOK' BY <1>6 DEF TypeOK, Person
<1>9. Naming'
  <2>1. Here \subseteq Ids /\ bannedIDs \subseteq Ids BY DEF Here, TypeOK
  <2>2. \A q \in Here : q # p /\ persons'[q].name = persons[q].name BY <1>4, <1>6, <2>1
  <2>3. \A q \in bannedIDs : q # p /\ persons'[q].name = persons[q].name BY <1>4, <1>6, <2>1
  <2>4. \A q \in Here : persons[q].name # x BY DEF Named
  <2>5. \A q \in Here' : persons'[q].name \in Names \ bannedNames
    BY <1>6, <1>7, <2>2 DEF Naming
  <2>6. \A q, t \in Here' : persons'[q].name = persons'[t].name => q = t
    BY <1>6, <1>7, <2>2, <2>4 DEF Naming
  <2>7. \A q \in bannedIDs : q \notin Here' /\ persons'[q].name \in Names
    BY <1>7, <2>3 DEF Naming
  <2>8. /\ \A q, t \in bannedIDs : persons'[q].name = persons'[t].name => q = t
        /\ \A n \in bannedNames : \E q \in bannedIDs : persons'[q].name = n
        /\ \A q \in bannedIDs : persons'[q].name \in bannedNames
    BY <2>3 DEF Naming
  <2> QED BY <2>5, <2>6, <2>7, <2>8 DEF Naming
<1>10. Ranks' BY <1>1, <1>7 DEF Ranks
<1>11. Links'
  <2>1. \A s \in Socks : sockets[s].loop = "reading" => IsCurrent(s)'
    <3>1. SUFFICES ASSUME NEW s \in Socks, sockets[s].loop = "reading" PROVE IsCurrent(s)' OBVIOUS
    <3>2. IsCurrent(s) /\ sockets[s].person \in Ids BY <3>1 DEF Links
    <3>3. sockets[s].person # p BY <1>4, <3>2 DEF IsCurrent
    <3> QED BY <1>6, <3>2, <3>3 DEF IsCurrent
  <2>2. \A q \in Ids : persons'[q].connected =>
          /\ q \in Here' /\ persons'[q].gen \in Socks
          /\ sockets[persons'[q].gen].person = q
          /\ sockets[persons'[q].gen].loop \in {"reading", "closed"}
    BY <1>6, <1>7 DEF Links
  <2> QED BY <2>1, <2>2 DEF Links
<1>12. Table'
  <2>1. Cardinality(Players') <= MaxPlayers
    <3>1. IsFiniteSet(Ids) /\ Players \subseteq Ids BY Limits, FS_Interval DEF Ids, Players, Here
    <3>2. IsFiniteSet(Players) /\ p \notin Players BY <1>4, <3>1, FS_Subset DEF Players
    <3> DEFINE a == Cardinality(Players')
               b == Cardinality(Players)
    <3>3. b \in Nat /\ b <= MaxPlayers BY <3>2, FS_CardinalityType DEF Table
    <3>4. Cardinality(Players \cup {p}) = b + 1 BY <3>2, FS_AddElement
    <3>5. a = b \/ (a = b + 1 /\ b < MaxPlayers) BY <1>1, <1>7, <3>4
    <3> HIDE DEF a, b
    <3>6. a <= MaxPlayers BY <3>3, <3>5, Limits
    <3> QED BY <3>6 DEF a
  <2>2. \A q \in Ids : seats[q] = "kicked" => q \notin Here' /\ persons'[q].name # ""
    BY <1>5, <1>6, <1>7 DEF Table
  <2>3. game = "playing" => \A q \in Ids : seats[q] \in {"in", "out"} => q \in Players'
    BY <1>7 DEF Table
  <2>4. SeatsFollowSockets'
    <3>1. p \notin Connected BY <1>4 DEF Connected
    <3> QED BY <1>7, <3>1 DEF Table, SeatsFollowSockets
  <2> QED BY <2>1, <2>2, <2>3, <2>4 DEF Table
<1> QED BY <1>8, <1>9, <1>10, <1>11, <1>12

\* A join takes a seat back or brings somebody new.
LEMMA JoinKeeps ==
    ASSUME IInv, NEW name \in Names, NEW role \in Roles, NEW token \in BOOLEAN, Join(name, role, token)
    PROVE  IInv'
<1>1. /\ UNCHANGED <<sockets, inbox, bannedNames, bannedIDs, showman, joinMode, game, seats, closing>>
      /\ name \in Names \ bannedNames
  BY DEF Join, room
<1>2. CASE \E p \in Named(name) : Reclaim(p, token) BY <1>1, <1>2, ReclaimKeeps DEF Named
<1>3. CASE Named(name) = {} /\ NewPerson(name, role, token) BY <1>1, <1>3, NewPersonKeeps
<1> QED BY <1>2, <1>3 DEF Join

-----------------------------------------------------------------------------
(* Every step. *)

\* Every call, and every step of a read loop, keeps the invariant.
LEMMA NextKeeps == IInv /\ [Next]_vars => IInv'
<1> SUFFICES ASSUME IInv, [Next]_vars PROVE IInv' OBVIOUS
<1>1. CASE \E n \in Names, role \in Roles, token \in BOOLEAN : Join(n, role, token) BY <1>1, JoinKeeps
<1>2. CASE \E p \in Ids : Leave(p) \/ Unban(p) \/ TransferHost(p)
  BY <1>2, LeaveKeeps, UnbanKeeps, TransferHostKeeps
<1>3. CASE \E p \in Ids, ban \in BOOLEAN : Kick(p, ban) BY <1>3, KickKeeps
<1>4. CASE \E p \in Ids, s \in Socks : Attach(p, s) BY <1>4, AttachKeeps
<1>5. CASE \E s \in Socks : Drop(s) \/ Detach(s) \/ Deliver(s) \/ StartGame(s)
  BY <1>5, DropKeeps, DetachKeeps, DeliverKeeps, StartGameKeeps
<1>6. CASE (\E m \in JoinModes : SetJoinMode(m)) \/ (\E m \in Modes : SetShowman(m)) BY <1>6, SettingsKeep
<1>7. CASE EndGame \/ CloseRoom BY <1>7, EndGameKeeps, CloseRoomKeeps
<1>8. CASE UNCHANGED vars
  <2>1. UNCHANGED <<persons, sockets, inbox, bannedNames, bannedIDs, showman, joinMode, game, seats, closing>>
    BY <1>8 DEF vars
  <2>2. TypeOK' BY <2>1 DEF TypeOK, IInv
  <2>3. Naming' /\ Ranks' BY <2>1, SamePeople DEF Naming, Ranks, IInv
  <2>4. Links' BY <2>1, SamePeople DEF Links, IsCurrent, IInv
  <2>5. Table' BY <2>1, SamePeople DEF Table, SeatsFollowSockets, IInv
  <2> QED BY <2>2, <2>3, <2>4, <2>5 DEF IInv
<1> QED BY <1>1, <1>2, <1>3, <1>4, <1>5, <1>6, <1>7, <1>8 DEF Next

\* Naming, Ranks, Links and Table hold at every moment of every room (room.go,
\* all the calls that change who sits in it).
THEOREM Inductive == Spec => []IInv
<1>1. Init => IInv BY InitInv
<1>2. IInv /\ [Next]_vars => IInv' BY NextKeeps
<1> QED BY <1>1, <1>2, PTL DEF Spec

\* The state keeps its form.
THEOREM TypeCorrect == Spec => []TypeOK
<1>1. IInv => TypeOK BY DEF IInv
<1> QED BY <1>1, Inductive, PTL

\* While a game runs, a player is connected for the engine exactly when the
\* player has a connection in the room (room.go attach, detach, disconnect).
THEOREM SeatsFollowSocketsAlways == Spec => []SeatsFollowSockets
<1>1. IInv => SeatsFollowSockets BY DEF IInv, Table
<1> QED BY <1>1, Inductive, PTL

\* A socket that is read is the connection of somebody in the room, and a
\* connection is a socket of that person (room.go attach, kick, closeRoom).
THEOREM SocketsAreOwnedAlways == Spec => []SocketsAreOwned
<1>1. IInv => SocketsAreOwned BY DEF IInv, Links, SocketsAreOwned, Connected, Here
<1> QED BY <1>1, Inductive, PTL

\* A set without two different members has at most one.
LEMMA AtMostOne ==
    ASSUME NEW S, IsFiniteSet(S), \A x, y \in S : x = y
    PROVE  Cardinality(S) <= 1
<1>1. CASE S = {} BY <1>1, FS_EmptySet
<1>2. CASE S # {}
  <2>1. PICK x \in S : TRUE BY <1>2
  <2>2. S = {x} BY <2>1
  <2>3. Cardinality(S) = 1 BY <2>2, FS_Singleton
  <2> QED BY <2>3
<1> QED BY <1>1, <1>2

\* One host, one human showman, one person per name, nobody banned, and every
\* ban can be lifted (room.go join, kick, transferHost, updateSettings).
THEOREM OneOfEachAlways == Spec => []OneOfEach
<1>1. ASSUME IInv PROVE OneOfEach
  <2> USE <1>1 DEF IInv
  <2>1. IsFiniteSet(Ids) BY Limits, FS_Interval DEF Ids
  <2>2. IsFiniteSet(Hosts) /\ IsFiniteSet(HumanShowmen)
    <3>1. Hosts \subseteq Ids /\ HumanShowmen \subseteq Ids BY DEF Hosts, HumanShowmen, Here
    <3> QED BY <2>1, <3>1, FS_Subset
  <2>3. Cardinality(Hosts) <= 1
    <3>1. \A x, y \in Hosts : x = y BY DEF Ranks
    <3> QED BY <2>2, <3>1, AtMostOne
  <2>4. Cardinality(HumanShowmen) <= IF showman = "ai" THEN 0 ELSE 1
    <3>1. \A x, y \in HumanShowmen : x = y BY DEF Ranks
    <3>2. Cardinality(HumanShowmen) <= 1 BY <2>2, <3>1, AtMostOne
    <3>3. showman = "ai" => Cardinality(HumanShowmen) = 0 BY FS_EmptySet DEF Ranks
    <3> QED BY <3>2, <3>3
  <2>5. ASSUME NEW n \in Names PROVE Cardinality(Named(n)) <= IF n \in bannedNames THEN 0 ELSE 1
    <3>1. Named(n) \subseteq Ids BY DEF Named, Here
    <3>2. IsFiniteSet(Named(n)) BY <2>1, <3>1, FS_Subset
    <3>3. \A x, y \in Named(n) : x = y BY DEF Named, Naming
    <3>4. Cardinality(Named(n)) <= 1 BY <3>2, <3>3, AtMostOne
    <3>5. n \in bannedNames => Named(n) = {} BY DEF Named, Naming
    <3>6. n \in bannedNames => Cardinality(Named(n)) = 0 BY <3>5, FS_EmptySet
    <3> QED BY <3>4, <3>6
  <2>6. bannedNames = {persons[p].name : p \in bannedIDs} BY DEF Naming
  <2> QED BY <2>3, <2>4, <2>5, <2>6 DEF OneOfEach
<1> QED BY <1>1, Inductive, PTL

\* Only a kick takes a seat at a running game (room.go leave).
THEOREM SeatsAreKeptAlways == Spec => SeatsAreKept
<1> DEFINE A == \A p \in Here : game = "playing" /\ seats[p] \in {"in", "out"} =>
                    p \in Here' \/ seats'[p] = "kicked"
<1>1. ASSUME IInv, [Next]_vars, NEW p \in Here, game = "playing", seats[p] \in {"in", "out"}
      PROVE  p \in Here' \/ seats'[p] = "kicked"
  <2>1. /\ p \in Ids /\ persons \in [Ids -> Person] /\ persons[p].here
        /\ persons[p] \in Person /\ p \in Players
    BY <1>1 DEF IInv, TypeOK, Table, Person, Here
  <2>2. SUFFICES ASSUME persons' # persons PROVE persons'[p].here \/ seats'[p] = "kicked"
    BY <2>1 DEF Here
  <2>3. CASE \E n \in Names, role \in Roles, token \in BOOLEAN : Join(n, role, token)
    <3>1. PICK n \in Names, role \in Roles, token \in BOOLEAN : Join(n, role, token) BY <2>3
    <3>2. CASE \E q \in Named(n) : Reclaim(q, token)
      <4>1. PICK q \in Named(n) : Reclaim(q, token) BY <3>2
      <4>2. q # p => persons'[p] = persons[p] BY <2>1, <4>1 DEF Reclaim
      <4>3. q = p => persons'[p].here = persons[p].here BY <2>1, <4>1 DEF Reclaim, Person
      <4> QED BY <2>1, <4>2, <4>3
    <3>3. CASE NewPerson(n, role, token)
      <4>1. PICK q \in Fresh : persons' = [persons EXCEPT ![q] = [Nobody EXCEPT !.here = TRUE, !.name = n,
                              !.role = role, !.host = BecomesHost(token), !.session = TRUE]]
        BY <3>3 DEF NewPerson
      <4>2. persons[p].name \in Names BY <1>1 DEF IInv, Naming
      <4>3. p # q BY <4>2, NobodyIsUnnamed DEF Fresh
      <4> QED BY <2>1, <4>1, <4>3
    <3> QED BY <3>1, <3>2, <3>3 DEF Join
  <2>4. CASE \E q \in Ids : Leave(q)
    <3>1. PICK q \in Ids : Leave(q) BY <2>4
    <3>2. CASE q = p
      <4>1. Remains(q) BY <1>1, <2>1, <3>2 DEF Remains, Players
      <4>2. persons' = [persons EXCEPT ![q].session = FALSE, ![q].connected = FALSE] BY <3>1, <4>1 DEF Leave
      <4> QED BY <2>1, <3>2, <4>2 DEF Person
    <3>3. CASE q # p
      <4>1. CASE Remains(q) BY <2>1, <3>1, <3>3, <4>1 DEF Leave
      <4>2. CASE ~Remains(q) BY <2>1, <3>1, <3>3, <4>2 DEF Leave
      <4> QED BY <4>1, <4>2
    <3> QED BY <3>2, <3>3
  <2>5. CASE \E q \in Ids, ban \in BOOLEAN : Kick(q, ban)
    <3>1. PICK q \in Ids : seats' = Kicked(q) /\ persons' = [persons EXCEPT ![q] = [Nobody EXCEPT !.name = persons[q].name]]
      BY <2>5 DEF Kick
    <3>2. CASE q = p
      <4>1. seats' = [seats EXCEPT ![p] = "kicked"] BY <1>1, <3>1, <3>2 DEF Kicked
      <4> QED BY <1>1, <2>1, <4>1 DEF IInv, TypeOK
    <3>3. CASE q # p BY <2>1, <3>1, <3>3
    <3> QED BY <3>2, <3>3
  <2>6. CASE \E q \in Ids : TransferHost(q)
    <3>1. PICK q \in Ids : TransferHost(q) BY <2>6
    <3>2. CASE q = p
      <4>1. persons'[p] = [persons[p] EXCEPT !.host = TRUE] BY <2>1, <3>1, <3>2 DEF TransferHost
      <4> QED BY <2>1, <4>1 DEF Person
    <3>3. CASE q # p
      <4>1. persons'[p] = [persons[p] EXCEPT !.host = FALSE] BY <2>1, <3>1, <3>3 DEF TransferHost
      <4> QED BY <2>1, <4>1 DEF Person
    <3> QED BY <3>2, <3>3
  <2>7. CASE \E q \in Ids, s \in Socks : Attach(q, s)
    <3>1. PICK q \in Ids, s \in Socks : persons' = [persons EXCEPT ![q].gen = s, ![q].connected = TRUE]
      BY <2>7 DEF Attach
    <3> QED BY <2>1, <3>1 DEF Person
  <2>8. CASE \E s \in Socks : Detach(s)
    <3>1. PICK q : persons' = [persons EXCEPT ![q].connected = FALSE] BY <2>2, <2>8 DEF Detach
    <3> QED BY <2>1, <3>1 DEF Person
  <2>9. CASE CloseRoom
    <3>1. persons'[p] = [persons[p] EXCEPT !.connected = FALSE] BY <2>1, <2>9 DEF CloseRoom
    <3> QED BY <2>1, <3>1 DEF Person
  <2>10. CASE \/ \E q \in Ids : Unban(q)
              \/ \E s \in Socks : Drop(s) \/ Deliver(s) \/ StartGame(s)
              \/ \E m \in JoinModes : SetJoinMode(m)
              \/ \E m \in Modes : SetShowman(m)
              \/ EndGame \/ UNCHANGED vars
    BY <2>2, <2>10 DEF Unban, Drop, Deliver, StartGame, SetJoinMode, SetShowman, EndGame, vars
  <2> QED BY <1>1, <2>3, <2>4, <2>5, <2>6, <2>7, <2>8, <2>9, <2>10 DEF Next
<1>2. IInv /\ [Next]_vars => [A]_vars BY <1>1
<1> HIDE DEF A
<1>3. Spec => [][A]_vars BY <1>2, Inductive, PTL DEF Spec
<1> QED BY <1>3 DEF A, SeatsAreKept
=============================================================================
