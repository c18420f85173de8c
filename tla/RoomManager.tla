---------------------------- MODULE RoomManager -----------------------------
(* The rooms of a server (internal/room/manager.go) and the calls into their *)
(* actors (internal/room/room.go run, runGuarded, post, call, closeRoom).    *)
(*                                                                           *)
(* Requests create rooms, look them up in a map under a lock, post functions *)
(* to a room's bounded mailbox and wait for the answer; each room runs a     *)
(* loop of its own; a sweeper closes rooms nobody uses; Shutdown closes the  *)
(* rooms it finds. A room may close, by its host, by a panic, by the sweeper *)
(* or by Shutdown, between any two of these steps.                           *)
(*                                                                           *)
(* What a posted function does to the room's persons is RoomSessions; here   *)
(* it answers, uses the room, closes it, or panics.                          *)
EXTENDS Naturals, SequencesExt

CONSTANTS Callers,      \* the requests and sockets that call into rooms
          Creators,     \* the requests that create rooms
          MaxRooms,     \* RoomConfig.MaxRooms
          MailboxSize,  \* mailboxSize
          MaxIds        \* bound: the rooms that are ever created

ASSUME Requests == Callers \cap Creators = {}
ASSUME Sizes == MaxRooms \in Nat \ {0} /\ MailboxSize \in Nat \ {0} /\ MaxIds \in Nat

VARIABLES
    phase,     \* of a room; "closed": its done channel is closed; "closing":
               \* closing is set and done open, as closeRoom has panicked
    looping,   \* the rooms whose actor goroutine runs
    rooms,     \* m.rooms: the rooms a lookup finds
    mailbox,   \* of every room: the functions posted, with who waits for them
    calls,     \* of every request: its operation, its room, how far it is
    sweep,     \* the room the sweeper posts to
    stopped,   \* m.stopped
    shutdown   \* how far Shutdown is, the rooms it still posts to, in turn

vars == <<phase, looping, rooms, mailbox, calls, sweep, stopped, shutdown>>
actor == <<phase, looping, mailbox>>
service == <<sweep, stopped, shutdown>>

Ids == 1..MaxIds
None == 0
Nobody == "nobody"
Asked == {"use", "leave"}     \* the calls that wait for an answer
Idle == [op |-> "none", room |-> None, at |-> "idle"]

TypeOK ==
    /\ phase \in [Ids -> {"unused", "inserting", "failed", "open", "closing", "closed"}]
    /\ looping \subseteq Ids /\ rooms \subseteq Ids
    /\ \A r \in Ids : /\ Len(mailbox[r]) <= MailboxSize
                       /\ \A i \in DOMAIN mailbox[r] :
                             mailbox[r][i] \in [op : Asked \cup {"close", "tick"}, by : Callers \cup {Nobody}]
    /\ calls \in [Callers \cup Creators -> [op : Asked \cup {"none", "create", "close", "tick"}, room : Ids \cup {None},
                    at : {"idle", "create", "insert", "post", "wait"}]]
    /\ sweep \in Ids \cup {None}
    /\ stopped \in BOOLEAN
    /\ shutdown \in [at : {"up", "posting", "waiting", "returned"}, todo : Seq(Ids)]

Init ==
    /\ phase = [r \in Ids |-> "unused"]
    /\ looping = {} /\ rooms = {}
    /\ mailbox = [r \in Ids |-> <<>>]
    /\ calls = [c \in Callers \cup Creators |-> Idle]
    /\ sweep = None
    /\ stopped = FALSE /\ shutdown = [at |-> "up", todo |-> <<>>]

Done(r) == phase[r] = "closed"
At(c, at) == calls[c].at = at
Returned(c) == [calls EXCEPT ![c] = Idle]
Advanced(c, at) == [calls EXCEPT ![c].at = at]

-----------------------------------------------------------------------------
(* post and call. *)

\* The done channel is tested first, but may be closed before the send: a
\* function may be posted to a room that is done by now. A full mailbox
\* blocks the sender until there is a place or the room is done.
Posts(r, op, by) ==
    /\ Len(mailbox[r]) < MailboxSize
    /\ mailbox' = [mailbox EXCEPT ![r] = Append(@, [op |-> op, by |-> by])]

PostsClose(r) ==
    \/ Posts(r, "close", Nobody)
    \/ Done(r) /\ UNCHANGED mailbox

\* The functions a caller has stopped waiting for answer into the void.
Forgotten(c) ==
    [r \in Ids |-> [i \in DOMAIN mailbox[r] |->
        [mailbox[r][i] EXCEPT !.by = IF @ = c THEN Nobody ELSE @]]]

Lookup(c, op, r) ==
    /\ At(c, "idle") /\ r \in rooms
    /\ calls' = [calls EXCEPT ![c] = [op |-> op, room |-> r, at |-> "post"]]
    /\ UNCHANGED <<actor, rooms, service>>

Post(c) ==
    /\ At(c, "post")
    /\ LET op == calls[c].op
           r == calls[c].room
       IN \/ /\ Posts(r, op, IF op \in Asked THEN c ELSE Nobody)
             /\ calls' = IF op \in Asked THEN Advanced(c, "wait") ELSE Returned(c)
          \/ Done(r) /\ calls' = Returned(c) /\ UNCHANGED mailbox
    /\ UNCHANGED <<phase, looping, rooms, service>>

\* A mutant: the caller waits for the answer only.
GivesUpNever(c) == FALSE

\* No answer has come, and the room is done.
GivesUp(c) == At(c, "wait") /\ Done(calls[c].room)

Refused(c) ==
    /\ GivesUp(c)
    /\ calls' = Returned(c) /\ mailbox' = Forgotten(c)
    /\ UNCHANGED <<phase, looping, rooms, service>>

\* Only Join has a context, which ends with its request; its function still
\* runs, in a mailbox or not.
Cancel(c) ==
    /\ At(c, "wait") /\ calls[c].op = "use"
    /\ calls' = Returned(c) /\ mailbox' = Forgotten(c)
    /\ UNCHANGED <<phase, looping, rooms, service>>

-----------------------------------------------------------------------------
(* Create. *)

HasPlace == Cardinality(rooms) < MaxRooms

\* m.stopped is read once, at the start.
Create(c) ==
    /\ At(c, "idle") /\ ~stopped
    /\ HasPlace => Cardinality({r \in Ids : phase[r] = "unused"}) > Cardinality({d \in Creators : At(d, "create")})
    /\ calls' = [calls EXCEPT ![c] = [op |-> "create", room |-> None, at |-> "create"]]
    /\ UNCHANGED <<actor, rooms, service>>

\* Under the lock. The room can be looked up before it is stored or runs.
Enter(c) ==
    /\ At(c, "create")
    /\ \/ /\ ~HasPlace
          /\ calls' = Returned(c) /\ UNCHANGED <<phase, rooms>>
       \/ \E r \in Ids :
             /\ HasPlace
             /\ phase[r] = "unused" /\ \A q \in Ids : q < r => phase[q] # "unused"
             /\ phase' = [phase EXCEPT ![r] = "inserting"]
             /\ rooms' = rooms \cup {r}
             /\ calls' = [calls EXCEPT ![c].room = r, ![c].at = "insert"]
    /\ UNCHANGED <<looping, mailbox, service>>

\* The request may end or the database fail: the room leaves the map without
\* ever running, and its done channel stays open.
InsertFails(c) ==
    /\ At(c, "insert")
    /\ phase' = [phase EXCEPT ![calls[c].room] = "failed"]
    /\ rooms' = rooms \ {calls[c].room}
    /\ calls' = Returned(c)
    /\ UNCHANGED <<looping, mailbox, service>>

\* The loop starts and the creator posts startQualityTicker.
Insert(c) ==
    /\ At(c, "insert")
    /\ phase' = [phase EXCEPT ![calls[c].room] = "open"]
    /\ looping' = looping \cup {calls[c].room}
    /\ calls' = [calls EXCEPT ![c].op = "tick", ![c].at = "post"]
    /\ UNCHANGED <<rooms, mailbox, service>>

-----------------------------------------------------------------------------
(* The actor's loop. *)

\* A mutant: the done channel is not closed.
ClosedLeftOpen(r) == phase

Closed(r) == [phase EXCEPT ![r] = "closed"]

\* The first time: the status is stored, the room leaves the map, done closes.
CloseRoom(r) ==
    IF phase[r] = "open" THEN phase' = Closed(r) /\ rooms' = rooms \ {r}
    ELSE UNCHANGED <<phase, rooms>>

\* closeRoom itself panics before it is through: the closeRoom of the recovery
\* finds closing set and returns. The loop goes on, and the room cannot be
\* closed any more.
CloseFails(r) ==
    /\ phase[r] = "open" /\ Head(mailbox[r]).op = "close"
    /\ phase' = [phase EXCEPT ![r] = "closing"]
    /\ UNCHANGED rooms

\* The select takes a posted function while there is one, done or not.
Run(r) ==
    /\ r \in looping /\ mailbox[r] # <<>>
    /\ LET job == Head(mailbox[r]) IN
       \/ /\ job.op # "close"
          /\ calls' = IF job.by = Nobody THEN calls ELSE Returned(job.by)
          /\ UNCHANGED <<phase, rooms>>
       \/ job.op = "close" /\ CloseRoom(r) /\ UNCHANGED calls
    /\ mailbox' = [mailbox EXCEPT ![r] = Tail(@)]
    /\ UNCHANGED <<looping, service>>

\* The function panics: no answer is sent and the room closes.
Panic(r) ==
    /\ r \in looping /\ mailbox[r] # <<>>
    /\ CloseRoom(r) \/ CloseFails(r)
    /\ mailbox' = [mailbox EXCEPT ![r] = Tail(@)]
    /\ UNCHANGED <<looping, calls, service>>

\* What is left in the mailbox never runs.
Stop(r) ==
    /\ r \in looping /\ Done(r)
    /\ looping' = looping \ {r}
    /\ mailbox' = [mailbox EXCEPT ![r] = <<>>]
    /\ UNCHANGED <<phase, rooms, calls, service>>

-----------------------------------------------------------------------------
(* The sweeper and Shutdown. *)

\* The rooms are visited one after the other; any may be found unused for
\* RoomTTL when its turn comes. One that has left the map meanwhile is done.
Sweep(r) ==
    /\ ~stopped /\ sweep = None /\ r \in rooms \cap looping
    /\ sweep' = r
    /\ UNCHANGED <<actor, rooms, calls, stopped, shutdown>>

\* Nothing is looked at again: the room may have been used since.
SweepPost ==
    /\ sweep # None
    /\ PostsClose(sweep)
    /\ sweep' = None
    /\ UNCHANGED <<phase, looping, rooms, calls, stopped, shutdown>>

Shutdown ==
    /\ ~stopped /\ stopped' = TRUE
    /\ shutdown' = [at |-> "posting", todo |-> <<>>]
    /\ UNCHANGED <<actor, rooms, calls, sweep>>

\* The rooms are found after the flag is set.
ShutdownFinds ==
    /\ shutdown.at = "posting" /\ shutdown.todo = <<>>
    /\ \E order \in SetToSeqs(rooms) :
          shutdown' = [at |-> IF rooms = {} THEN "waiting" ELSE "posting", todo |-> order]
    /\ UNCHANGED <<actor, rooms, calls, sweep, stopped>>

ShutdownPost ==
    /\ shutdown.todo # <<>>
    /\ PostsClose(Head(shutdown.todo))
    /\ shutdown' = [at |-> IF Len(shutdown.todo) = 1 THEN "waiting" ELSE "posting",
                    todo |-> Tail(shutdown.todo)]
    /\ UNCHANGED <<phase, looping, rooms, calls, sweep, stopped>>

\* The wait group: the loops and the sweeper, which ends between two sweeps.
\* Shutdown also returns when its context ends.
ShutdownReturns ==
    /\ shutdown.at = "waiting" /\ looping = {} /\ sweep = None
    /\ shutdown' = [shutdown EXCEPT !.at = "returned"]
    /\ UNCHANGED <<actor, rooms, calls, sweep, stopped>>

-----------------------------------------------------------------------------

Creation(c) == Enter(c) \/ Insert(c) \/ InsertFails(c)
Loop(r) == Run(r) \/ Panic(r) \/ Stop(r)

Next ==
    \/ \E c \in Callers :
          \/ \E op \in Asked \cup {"close"}, r \in Ids : Lookup(c, op, r)
          \/ Post(c) \/ Refused(c) \/ Cancel(c)
    \/ \E c \in Creators : Create(c) \/ Creation(c) \/ Post(c)
    \/ \E r \in Ids : Loop(r) \/ Sweep(r)
    \/ SweepPost \/ Shutdown \/ ShutdownFinds \/ ShutdownPost \/ ShutdownReturns

Spec == Init /\ [][Next]_vars

\* Goroutines that can run do; the senders blocked on a full mailbox wait in
\* a queue, so each gets its turn.
Fairness ==
    /\ \A c \in Callers : SF_vars(Post(c)) /\ WF_vars(Refused(c))
    /\ \A c \in Creators : SF_vars(Post(c)) /\ WF_vars(Creation(c))
    /\ \A r \in Ids : WF_vars(Loop(r))
    /\ SF_vars(ShutdownPost) /\ WF_vars(ShutdownFinds)

FairSpec == Spec /\ Fairness

-----------------------------------------------------------------------------
(* Properties. *)

\* Nobody waits for ever: whoever calls into a room is answered or refused,
\* though the room may close before the call is posted, while it waits for a
\* place in the mailbox, while it lies there or while it runs. Only a room
\* that could not be stored answers nobody, and one whose closeRoom panicked
\* need not (room.go post, call, closeRoom).
EveryCallReturns ==
    \A c \in Callers : calls[c].room # None ~>
        At(c, "idle") \/ \E r \in Ids : calls[c].room = r /\ phase[r] \in {"failed", "closing"}

\* Without the exception for rooms that could not be stored; refuted: whoever
\* has found such a room waits for ever, with a context only until it ends
\* (manager.go Create, room.go call).
UnstoredRoomsAnswer ==
    \A c \in Callers : calls[c].room # None ~>
        At(c, "idle") \/ \E r \in Ids : calls[c].room = r /\ phase[r] = "closing"

\* Shutdown ends every room it finds, the loop included, also one that is
\* still being stored, unless closeRoom panics, or Shutdown blocks on a room
\* that could not be stored and whose mailbox is full (manager.go Shutdown).
ShutdownEndsRooms ==
    \A r \in Ids : r \in ToSet(shutdown.todo) ~>
        \/ phase[r] \in {"closed", "failed"} /\ r \notin looping
        \/ phase[r] = "closing"
        \/ \E q \in Ids : phase[q] = "failed" /\ Len(mailbox[q]) = MailboxSize
=============================================================================
