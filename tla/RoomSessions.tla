---------------------------- MODULE RoomSessions ----------------------------
(* Who sits in a room and through which socket: the persons, the sessions,   *)
(* the host rights and the bans of internal/room/room.go (join, leave,       *)
(* attach, detach, kick, transferHost, updateSettings, startGame,            *)
(* closeRoom), the read loop of internal/ws/handler.go, and the seats the    *)
(* engine keeps for the players (engine.go onPlayerJoined, onPlayerLeft,     *)
(* onKick).                                                                  *)
(*                                                                           *)
(* The actor runs one call at a time. A socket is read by a goroutine of its *)
(* own: what it delivers and the detach at its end are posted to the actor,  *)
(* which may meanwhile have closed the socket, given the person another one, *)
(* removed the person or handed the seat to someone else.                    *)
EXTENDS Naturals, FiniteSets

CONSTANTS Names,       \* the names people ask for, compared without case
          Modes,       \* the showman modes the room is created in or set to
          JoinModes,   \* the join modes a host sets
          MaxPlayers,  \* room.maxPlayers
          EngineMax,   \* engine.MaxPlayers
          MaxPersons,  \* bound: the persons that ever join
          MaxSockets   \* bound: the sockets that are ever attached

ASSUME Limits == /\ MaxPlayers \in Nat /\ EngineMax \in Nat /\ MaxPlayers <= EngineMax
                 /\ MaxPersons \in Nat /\ MaxSockets \in Nat
ASSUME NobodyIsUnnamed == "" \notin Names
ASSUME ModesAreKnown == /\ Modes \subseteq {"human", "ai", "hybrid"}
                        /\ "any" \in JoinModes
                        /\ JoinModes \subseteq {"any", "viewersOnly", "closed"}

VARIABLES
    persons,   \* the persons by id: who is in the room, with what rights
    sockets,   \* every socket: whose it is and where its read loop stands
    inbox,     \* the sockets with a START_GAME posted and not yet handled
    bannedNames, bannedIDs,
    showman,   \* the showman mode
    joinMode,
    game,      \* "none", "playing" or "ended"
    seats,     \* the engine's players: "none", "in", "out" or "kicked"
    closing

vars == <<persons, sockets, inbox, bannedNames, bannedIDs, showman, joinMode, game, seats, closing>>
room == <<bannedNames, bannedIDs, showman, joinMode>>

Ids == 1..MaxPersons
Socks == 1..MaxSockets
Roles == {"showman", "player", "viewer"}

\* session: a token exists that attaches this person. gen: the last socket
\* attached; it is the person's conn while the person is connected.
Nobody == [here |-> FALSE, name |-> "", role |-> "viewer", host |-> FALSE,
           session |-> FALSE, connected |-> FALSE, gen |-> 0]
Unused == [person |-> 0, loop |-> "unused"]

TypeOK ==
    /\ persons \in [Ids -> [here : BOOLEAN, name : Names \cup {""}, role : Roles, host : BOOLEAN,
                            session : BOOLEAN, connected : BOOLEAN, gen : 0..MaxSockets]]
    /\ sockets \in [Socks -> [person : 0..MaxPersons, loop : {"unused", "reading", "closed", "done"}]]
    /\ inbox \subseteq Socks
    /\ bannedNames \subseteq Names /\ bannedIDs \subseteq Ids
    /\ showman \in Modes /\ joinMode \in JoinModes
    /\ game \in {"none", "playing", "ended"}
    /\ seats \in [Ids -> {"none", "in", "out", "kicked"}]
    /\ closing \in BOOLEAN

Init ==
    /\ persons = [p \in Ids |-> Nobody]
    /\ sockets = [s \in Socks |-> Unused]
    /\ inbox = {} /\ bannedNames = {} /\ bannedIDs = {}
    /\ showman \in Modes /\ joinMode = "any"
    /\ game = "none" /\ seats = [p \in Ids |-> "none"]
    /\ closing = FALSE

Here == {p \in Ids : persons[p].here}
Players == {p \in Here : persons[p].role = "player"}
Connected == {p \in Here : persons[p].connected}
HumanShowmen == {p \in Here : persons[p].role = "showman"}
Hosts == {p \in Here : persons[p].host}
Named(n) == {p \in Here : persons[p].name = n}
Fresh == {p \in Ids : persons[p].name = ""}
AtTheTable == {p \in Ids : seats[p] \notin {"none", "kicked"}}

\* Sending on a closed socket fails; its read loop ends either way.
CloseSocket(s) ==
    IF sockets[s].loop = "reading" THEN [sockets EXCEPT ![s].loop = "closed"] ELSE sockets
Gone(p) == IF game # "none" /\ seats[p] = "in" THEN [seats EXCEPT ![p] = "out"] ELSE seats

-----------------------------------------------------------------------------
(* Joining and leaving, over HTTP. *)

\* A mutant: the token gives the rights to whoever shows it.
BecomesHostTwice(token) == token

\* The host rights of the host token, when nobody holds them.
BecomesHost(token) == token /\ Hosts = {}

\* The seat of a person of this name and role who is not connected: a new
\* session replaces the old one.
Reclaim(p, token) ==
    /\ ~persons[p].connected /\ p \notin bannedIDs
    /\ (persons[p].role = "showman" \/ persons[p].host) => token
    /\ persons' = [persons EXCEPT ![p].session = TRUE, ![p].host = @ \/ BecomesHost(token)]

Admitted(role, token) ==
    /\ \/ token \/ joinMode = "any"
       \/ joinMode = "viewersOnly" /\ role = "viewer"
    /\ role = "showman" => showman # "ai" /\ HumanShowmen = {}
    /\ role = "player" => /\ Cardinality(Players) < MaxPlayers
                          /\ game # "none" => Cardinality(AtTheTable) < EngineMax

NewPerson(name, role, token) ==
    /\ Admitted(role, token)
    /\ \E p \in Fresh :
          /\ \A q \in Fresh : p <= q
          /\ persons' = [persons EXCEPT ![p] = [Nobody EXCEPT !.here = TRUE, !.name = name, !.role = role,
                                                 !.host = BecomesHost(token), !.session = TRUE]]

Join(name, role, token) ==
    /\ ~closing /\ name \notin bannedNames
    /\ \/ \E p \in Named(name) : persons[p].role = role /\ Reclaim(p, token)
       \/ Named(name) = {} /\ NewPerson(name, role, token)
    /\ UNCHANGED <<sockets, inbox, room, game, seats, closing>>

\* A mutant: whoever leaves is removed.
RemainsNever(p) == FALSE

\* The connection is dropped; a player of a game keeps the seat without a
\* session, everyone else is removed.
Remains(p) == persons[p].role = "player" /\ game # "none"

Leave(p) ==
    /\ p \in Here /\ persons[p].session
    /\ sockets' = IF persons[p].connected THEN CloseSocket(persons[p].gen) ELSE sockets
    /\ persons' = IF Remains(p)
                    THEN [persons EXCEPT ![p].session = FALSE, ![p].connected = FALSE]
                    ELSE [persons EXCEPT ![p] = [Nobody EXCEPT !.name = persons[p].name]]
    /\ seats' = IF persons[p].connected THEN Gone(p) ELSE seats
    /\ UNCHANGED <<inbox, room, game, closing>>

-----------------------------------------------------------------------------
(* Sockets. *)

\* A mutant: who has a seat already is not announced again.
SeatedOnce(p) ==
    IF \/ game = "none" \/ persons[p].role # "player" \/ seats[p] # "none"
       \/ Cardinality(AtTheTable) >= EngineMax
    THEN seats
    ELSE [seats EXCEPT ![p] = "in"]

\* The engine seats a player who attaches, or has the player back.
Seated(p) ==
    IF game = "none" \/ persons[p].role # "player" \/ seats[p] = "kicked" THEN seats
    ELSE IF seats[p] = "none" /\ Cardinality(AtTheTable) >= EngineMax THEN seats
    ELSE [seats EXCEPT ![p] = "in"]

\* A mutant: the old socket is left open.
AttachKeepsOld(p, s) ==
    /\ ~closing /\ p \in Here /\ persons[p].session
    /\ sockets[s] = Unused /\ \A t \in Socks : t < s => sockets[t] # Unused
    /\ sockets' = [sockets EXCEPT ![s] = [person |-> p, loop |-> "reading"]]
    /\ persons' = [persons EXCEPT ![p].gen = s, ![p].connected = TRUE]
    /\ seats' = Seated(p)
    /\ UNCHANGED <<inbox, room, game, closing>>

Attach(p, s) ==
    /\ ~closing /\ p \in Here /\ persons[p].session
    /\ sockets[s] = Unused /\ \A t \in Socks : t < s => sockets[t] # Unused
    /\ sockets' = [IF persons[p].connected THEN CloseSocket(persons[p].gen) ELSE sockets
                     EXCEPT ![s] = [person |-> p, loop |-> "reading"]]
    /\ persons' = [persons EXCEPT ![p].gen = s, ![p].connected = TRUE]
    /\ seats' = Seated(p)
    /\ UNCHANGED <<inbox, room, game, closing>>

\* The client closes it, the network does, or it is too slow or too talkative.
Drop(s) ==
    /\ sockets[s].loop = "reading"
    /\ sockets' = CloseSocket(s)
    /\ UNCHANGED <<persons, inbox, room, game, seats, closing>>

\* Whether a posted call still speaks for the person's connection.
IsCurrent(s) ==
    LET p == sockets[s].person IN
    persons[p].here /\ persons[p].gen = s /\ persons[p].connected

\* The read loop has ended and its detach runs, after all it has delivered.
Detach(s) ==
    LET p == sockets[s].person IN
    /\ sockets[s].loop = "closed" /\ s \notin inbox
    /\ sockets' = [sockets EXCEPT ![s].loop = "done"]
    /\ IF IsCurrent(s)
         THEN persons' = [persons EXCEPT ![p].connected = FALSE] /\ seats' = Gone(p)
         ELSE UNCHANGED <<persons, seats>>
    /\ UNCHANGED <<inbox, room, game, closing>>

Deliver(s) ==
    /\ game = "none" /\ sockets[s].loop = "reading"
    /\ inbox' = inbox \cup {s}
    /\ UNCHANGED <<persons, sockets, room, game, seats, closing>>

StartGame(s) ==
    LET p == sockets[s].person IN
    /\ s \in inbox /\ inbox' = inbox \ {s}
    /\ IF /\ IsCurrent(s) /\ game = "none"
          /\ persons[p].role = "showman" \/ persons[p].host
          /\ Connected \cap Players # {}
          /\ HumanShowmen # {} \/ showman # "human"
         THEN /\ game' = "playing"
              /\ seats' = [i \in Ids |-> IF i \in Connected \cap Players THEN "in" ELSE "none"]
         ELSE UNCHANGED <<game, seats>>
    /\ UNCHANGED <<persons, sockets, room, closing>>

EndGame ==
    /\ ~closing /\ game = "playing" /\ game' = "ended"
    /\ UNCHANGED <<persons, sockets, inbox, room, seats, closing>>

-----------------------------------------------------------------------------
(* The host's calls. *)

\* The engine refuses to kick once the game is over.
Kicked(p) ==
    IF game = "playing" /\ seats[p] \in {"in", "out"} THEN [seats EXCEPT ![p] = "kicked"] ELSE seats

Kick(p, ban) ==
    /\ p \in Here /\ ~persons[p].host
    /\ bannedNames' = IF ban THEN bannedNames \cup {persons[p].name} ELSE bannedNames
    /\ bannedIDs' = IF ban THEN bannedIDs \cup {p} ELSE bannedIDs
    /\ sockets' = IF persons[p].connected THEN CloseSocket(persons[p].gen) ELSE sockets
    /\ seats' = Kicked(p)
    /\ persons' = [persons EXCEPT ![p] = [Nobody EXCEPT !.name = persons[p].name]]
    /\ UNCHANGED <<inbox, showman, joinMode, game, closing>>

Unban(p) ==
    /\ p \in bannedIDs
    /\ bannedIDs' = bannedIDs \ {p}
    /\ bannedNames' = bannedNames \ {persons[p].name}
    /\ UNCHANGED <<persons, sockets, inbox, showman, joinMode, game, seats, closing>>

TransferHost(p) ==
    /\ p \in Here /\ ~persons[p].host
    /\ persons' = [q \in Ids |-> IF q = p THEN [persons[q] EXCEPT !.host = TRUE]
                                          ELSE [persons[q] EXCEPT !.host = FALSE]]
    /\ UNCHANGED <<sockets, inbox, room, game, seats, closing>>

SetJoinMode(m) ==
    /\ ~closing /\ m # joinMode /\ joinMode' = m
    /\ UNCHANGED <<persons, sockets, inbox, bannedNames, bannedIDs, showman, game, seats, closing>>

SetShowman(m) ==
    /\ ~closing /\ game # "playing" /\ m # showman
    /\ m = "ai" => HumanShowmen = {}
    /\ showman' = m
    /\ UNCHANGED <<persons, sockets, inbox, bannedNames, bannedIDs, joinMode, game, seats, closing>>

\* Everyone's socket is closed. What is in the mailbox may still run before
\* the actor's loop sees that the room is done.
CloseRoom ==
    /\ ~closing /\ closing' = TRUE
    /\ persons' = [p \in Ids |-> [persons[p] EXCEPT !.connected = FALSE]]
    /\ sockets' = [s \in Socks |-> IF sockets[s].loop = "reading" /\ IsCurrent(s)
                                     THEN [sockets[s] EXCEPT !.loop = "closed"] ELSE sockets[s]]
    /\ UNCHANGED <<inbox, room, game, seats>>

-----------------------------------------------------------------------------

Next ==
    \/ \E n \in Names, role \in Roles, token \in BOOLEAN : Join(n, role, token)
    \/ \E p \in Ids : Leave(p) \/ Unban(p) \/ TransferHost(p)
    \/ \E p \in Ids, ban \in BOOLEAN : Kick(p, ban)
    \/ \E p \in Ids, s \in Socks : Attach(p, s)
    \/ \E s \in Socks : Drop(s) \/ Detach(s) \/ Deliver(s) \/ StartGame(s)
    \/ \E m \in JoinModes : SetJoinMode(m)
    \/ \E m \in Modes : SetShowman(m)
    \/ EndGame \/ CloseRoom

Spec == Init /\ [][Next]_vars

-----------------------------------------------------------------------------
(* Properties. *)

\* The engine's table and the room's sockets do not drift apart: while a game
\* runs, a player is connected for the engine exactly when the player has a
\* connection in the room, whatever replaced sockets, late detaches, leavers,
\* kicks and players who take their seat back by name (room.go attach,
\* detach, disconnect, kick; engine.go onPlayerJoined, onPlayerLeft, onKick).
SeatsFollowSockets ==
    game = "playing" /\ ~closing =>
        \A p \in Ids : seats[p] = "in" <=> p \in Connected \cap Players

\* No socket is forgotten: a socket that is still read is the connection of
\* somebody in the room, the only one of that person, so a kick, a leave, a
\* replacement or the end of the room reaches it (room.go attach, kick,
\* disconnect, closeRoom).
SocketsAreOwned ==
    /\ \A s \in Socks : sockets[s].loop = "reading" => IsCurrent(s)
    /\ \A p \in Connected : /\ sockets[persons[p].gen].person = p
                             /\ sockets[persons[p].gen].loop \in {"reading", "closed"}

\* One host, one human showman and none in a room of the AI, one person per
\* name, nobody whose name is banned, and a ban that can be lifted: whichever
\* way rights and seats were taken over (room.go join, kick, transferHost,
\* updateSettings, manager.go Unban).
OneOfEach ==
    /\ Cardinality(Hosts) <= 1
    /\ Cardinality(HumanShowmen) <= IF showman = "ai" THEN 0 ELSE 1
    /\ \A n \in Names : Cardinality(Named(n)) <= IF n \in bannedNames THEN 0 ELSE 1
    /\ bannedNames = {persons[p].name : p \in bannedIDs}

\* A seat at a running game outlives its owner's sockets and sessions: only a
\* kick takes it (room.go leave: "keeps the seat and score").
SeatsAreKept ==
    [][\A p \in Here : game = "playing" /\ seats[p] \in {"in", "out"} =>
          p \in Here' \/ seats'[p] = "kicked"]_vars
=============================================================================
