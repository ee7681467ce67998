------------------------------- MODULE Rooms -------------------------------
(***************************************************************************)
(* The main loop of the signalling server (ws/rooms.go, Rooms.Start): one  *)
(* goroutine takes one message at a time from the Incoming channel and     *)
(* executes it, so a message is one atomic step here.  What surrounds the  *)
(* loop (reader and writer goroutines, timeouts) is module Connection.     *)
(*                                                                         *)
(* A client is one WebSocket connection: its xid is new for every upgrade, *)
(* and Upgrade sends Connected for it once.  A handler that returns an     *)
(* error is followed, in the same step, by Disconnected.executeNoError.    *)
(*                                                                         *)
(* An operator Mutant... is the definition after it with a plausible bug;  *)
(* no specification uses it (see "Mutants" in README.md).                  *)
(***************************************************************************)
EXTENDS Naturals, FiniteSets

CONSTANTS
    Clients,        \* connections
    RoomIDs,        \* the room ids that create and join messages name
    Empty,          \* the id "", which connected also uses for "in no room"
    Names,          \* user names
    Modes,          \* connection modes a create message may ask for
    AuthMode,       \* config.AuthMode
    Authenticated,  \* the connections whose request carried a login
    MaxBatch        \* bound: how many messages may create sessions

ASSUME RoomsAssumption ==
    /\ IsFiniteSet(Clients)
    /\ Modes \subseteq {"local", "stun", "turn"}
    /\ AuthMode \in {"none", "all", "turn"}
    /\ Authenticated \subseteq Clients
    /\ MaxBatch \in Nat

VARIABLES
    upgraded,       \* connections whose Connected message has been executed
    connected,      \* Rooms.connected, a partial function to room ids
    rooms,          \* Rooms.Rooms, a partial function to room records
    batch,          \* how many messages have created sessions
    allowed,        \* the user names in the lookup table of the TURN server
    told,           \* per client, the last room message written to it
    open,           \* per client, the sessions announced to it and not ended
    closeSent,      \* per client, how many CloseWriter messages it was sent
    roomsCreated, roomsClosed, usersJoined, usersLeft,
    sessionsCreated, sessionsClosed     \* the six counters of prometheus.go

counters == <<roomsCreated, roomsClosed, usersJoined, usersLeft,
              sessionsCreated, sessionsClosed>>
vars == <<upgraded, connected, rooms, batch, allowed, told, open, closeSent,
          counters>>

\* xid.New() never returns the same id twice: a session is identified by its
\* end points and the message that created it (each creates at most one
\* session between the same two users).
Session == [host : Clients, client : Clients, batch : Nat]

\* ws.Room.  The Users map is the set of its keys and, for each field of User
\* that a handler changes, the users that have it.
Room == [mode : Modes, closeOnOwnerLeave : BOOLEAN,
         users : SUBSET Clients, owners : SUBSET Clients,
         streaming : SUBSET Clients, sessions : SUBSET Session,
         names : UNION {[U -> Names] : U \in SUBSET Clients}]

Put(f, k, v) == [x \in DOMAIN f \cup {k} |-> IF x = k THEN v ELSE f[x]]
Without(f, S) == [x \in DOMAIN f \ S |-> f[x]]

\* The two names newSession gets credentials for: id + "host", id + "client".
Logins(sessions) == sessions \X {"host", "client"}

\* What notifyInfoChanged tells every user of the room.
Info(room) == [users |-> room.users, owners |-> room.owners,
               streaming |-> room.streaming, names |-> room.names]
NoInfo == [users |-> {}, owners |-> {}, streaming |-> {}, names |-> <<>>]

MutantNotify(room, old) ==
    [c \in Clients |-> IF c \in room.users /\ old[c] = NoInfo
                       THEN Info(room) ELSE old[c]]
notifyInfoChanged(room, old) ==
    [c \in Clients |-> IF c \in room.users THEN Info(room) ELSE old[c]]

Init ==
    /\ upgraded = {}
    /\ connected = <<>>
    /\ rooms = <<>>
    /\ batch = 0
    /\ allowed = {}
    /\ told = [c \in Clients |-> NoInfo]
    /\ open = [c \in Clients |-> {}]
    /\ closeSent = [c \in Clients |-> 0]
    /\ roomsCreated = 0 /\ usersJoined = 0 /\ sessionsCreated = 0
    /\ roomsClosed = 0 /\ usersLeft = 0 /\ sessionsClosed = 0
-----------------------------------------------------------------------------
(***************************************************************************)
(* Disconnected.executeNoError and closeRoom, from the values conn, rms    *)
(* and joined that connected, rooms and usersJoined have when it is called *)
(* (a handler that fails half way has already changed them).               *)
(***************************************************************************)
\* None of the three early returns is taken.
IsUser(conn, rms, c) ==
    LET r == conn[c]
    IN  r # Empty /\ r \in DOMAIN rms /\ c \in rms[r].users

\* Room.closeSession for each session of ended: its credentials are withdrawn.
MutantCloseSessions(room, ended) ==
    IF room.mode = "turn" THEN allowed \ (ended \X {"host"}) ELSE allowed
closeSessions(room, ended) ==
    IF room.mode = "turn" THEN allowed \ Logins(ended) ELSE allowed

\* CloseWriter is written to the clients S.
CloseWriters(S) ==
    [x \in Clients |-> IF x \in S THEN closeSent[x] + 1 ELSE closeSent[x]]

LeaveNoRoom(conn, rms, c) ==
    /\ ~IsUser(conn, rms, c)
    /\ connected' = Without(conn, {c})
    /\ rooms' = rms
    /\ closeSent' = CloseWriters({c})
    /\ told' = [told EXCEPT ![c] = NoInfo]
    /\ open' = [open EXCEPT ![c] = {}]
    /\ UNCHANGED <<allowed, roomsClosed, usersLeft, sessionsClosed>>

\* The sessions in which c takes part, which end when c leaves the room.
MutantSessionsOf(room, c) == {s \in room.sessions : s.client = c}
SessionsOf(room, c) == {s \in room.sessions : c \in {s.host, s.client}}

\* The owner leaves a room that was created with closeOnOwnerLeave.
MutantOwnerLeft(room, c) == c \in room.owners
ownerLeft(room, c) == c \in room.owners /\ room.closeOnOwnerLeave

\* Who is removed from connected when c leaves, and whether the room goes too.
MutantLeaving(room, c) == {c}
Leaving(room, c) == IF ownerLeft(room, c) THEN room.users ELSE {c}
Closes(room, c) == ownerLeft(room, c) \/ room.users = {c}

\* The room without c.
Rest(room, c) == [room EXCEPT !.users = @ \ {c}, !.owners = @ \ {c},
                              !.streaming = @ \ {c},
                              !.sessions = @ \ SessionsOf(room, c),
                              !.names = Without(@, {c})]

LeaveRoom(conn, rms, c) ==
    LET r == conn[c]
        room == rms[r]
        closes == Closes(room, c)
        leaving == Leaving(room, c)
        ended == IF closes THEN room.sessions ELSE SessionsOf(room, c)
    IN  /\ IsUser(conn, rms, c)
        /\ connected' = Without(conn, leaving)
        /\ rooms' = IF closes THEN Without(rms, {r})
                              ELSE Put(rms, r, Rest(room, c))
        /\ closeSent' = CloseWriters(leaving)
        /\ allowed' = closeSessions(room, ended)
        /\ LET news == IF closes THEN told
                                 ELSE notifyInfoChanged(Rest(room, c), told)
           IN  told' = [x \in Clients |-> IF x \in leaving THEN NoInfo
                                                           ELSE news[x]]
        /\ open' = [x \in Clients |-> IF x \in leaving THEN {}
                                      ELSE open[x] \ SessionsOf(room, c)]
        /\ usersLeft' = usersLeft + Cardinality(leaving)
        /\ sessionsClosed' = sessionsClosed + Cardinality(ended)
        /\ roomsClosed' = IF closes THEN roomsClosed + 1 ELSE roomsClosed

MutantExecute(conn, rms, joined, c) ==
    /\ LeaveNoRoom(conn, rms, c) \/ LeaveRoom(conn, rms, c)
    /\ UNCHANGED <<usersJoined, upgraded, batch, roomsCreated, sessionsCreated>>
executeNoError(conn, rms, joined, c) ==
    /\ LeaveNoRoom(conn, rms, c) \/ LeaveRoom(conn, rms, c)
    /\ usersJoined' = joined
    /\ UNCHANGED <<upgraded, batch, roomsCreated, sessionsCreated>>

\* A handler returned an error before it changed anything.
Fail(c) == executeNoError(connected, rooms, usersJoined, c)

\* The main loop ignores the messages of a client that is not connected.
Accepts(c) == c \in DOMAIN connected

\* Rooms.CurrentRoom returns a room.
HasRoom(c) == connected[c] # Empty /\ connected[c] \in DOMAIN rooms
-----------------------------------------------------------------------------
Connected(c) ==
    /\ c \notin upgraded
    /\ upgraded' = upgraded \cup {c}
    /\ connected' = Put(connected, c, Empty)
    /\ UNCHANGED <<rooms, batch, allowed, told, open, closeSent, counters>>

Disconnected(c) == Accepts(c) /\ Fail(c)

\* HostSession and ClientSession announce the sessions of new.
MutantAnnounce(new) ==
    [c \in Clients |-> open[c] \cup {s \in new : c = s.client}]
Announce(new) ==
    [c \in Clients |-> open[c] \cup {s \in new : c \in {s.host, s.client}}]

\* Room.newSession for each session of new, all of them in room r.  In TURN
\* mode its two users get credentials.
newSessions(r, room, new) ==
    /\ new # {} => batch < MaxBatch
    /\ batch' = IF new = {} THEN batch ELSE batch + 1
    /\ rooms' = Put(rooms, r, [room EXCEPT !.sessions = @ \cup new])
    /\ allowed' = IF room.mode = "turn" THEN allowed \cup Logins(new)
                                        ELSE allowed
    /\ open' = Announce(new)
    /\ sessionsCreated' = sessionsCreated + Cardinality(new)
    /\ UNCHANGED <<upgraded, closeSent, roomsCreated, roomsClosed, usersLeft,
                   sessionsClosed>>

\* The sessions that a join creates, from each streaming user, and a share, to
\* each other user.
MutantToNewUser(room, c) ==
    [host : {c}, client : room.streaming, batch : {batch + 1}]
ToNewUser(room, c) ==
    [host : room.streaming, client : {c}, batch : {batch + 1}]
MutantToEveryone(room, c) ==
    [host : {c}, client : room.users \ (room.streaming \cup {c}),
     batch : {batch + 1}]
ToEveryone(room, c) ==
    [host : {c}, client : room.users \ {c}, batch : {batch + 1}]

MutantJoined(room, c, name) ==
    [room EXCEPT !.users = @ \cup {c}, !.owners = @ \ {c},
                 !.streaming = @ \ {c}]
Joined(room, c, name) ==
    [room EXCEPT !.users = @ \cup {c}, !.owners = @ \ {c},
                 !.streaming = @ \ {c}, !.names = Put(@, c, name)]

\* Join.Execute.  ipFails: TurnIPProvider.Get returns an error, after the user
\* has been added and counted.
JoinRoom(c, id, name, ipFails) ==
    \/ /\ connected[c] # Empty \/ id \notin DOMAIN rooms
       /\ Fail(c)
    \/ /\ connected[c] = Empty /\ id \in DOMAIN rooms /\ ipFails
       /\ executeNoError(Put(connected, c, id),
                         Put(rooms, id, Joined(rooms[id], c, name)),
                         usersJoined + 1, c)
    \/ /\ connected[c] = Empty /\ id \in DOMAIN rooms /\ ~ipFails
       /\ LET room == Joined(rooms[id], c, name)
          IN  /\ newSessions(id, room, ToNewUser(room, c))
              /\ told' = notifyInfoChanged(room, told)
       /\ connected' = Put(connected, c, id)
       /\ usersJoined' = usersJoined + 1

Join(c, id, name, ipFails) == Accepts(c) /\ JoinRoom(c, id, name, ipFails)

MayCreate(c, mode) ==
    CASE AuthMode = "none" -> TRUE
      [] AuthMode = "all"  -> c \in Authenticated
      [] AuthMode = "turn" -> mode \in {"stun", "local"} \/ c \in Authenticated

NewRoom(c, mode, close, name) ==
    [mode |-> mode, closeOnOwnerLeave |-> close, users |-> {c},
     owners |-> {c}, streaming |-> {}, sessions |-> {},
     names |-> Put(<<>>, c, name)]

Create(c, id, mode, close, joinIfExist, name, ipFails) ==
    /\ Accepts(c)
    /\ \/ /\ id \in DOMAIN rooms /\ joinIfExist /\ connected[c] = Empty
          /\ JoinRoom(c, id, name, ipFails)
       \/ /\ \/ connected[c] # Empty
             \/ id \in DOMAIN rooms /\ ~joinIfExist
             \/ id \notin DOMAIN rooms /\ ~MayCreate(c, mode)
          /\ Fail(c)
       \/ /\ connected[c] = Empty
          /\ id \notin DOMAIN rooms
          /\ MayCreate(c, mode)
          /\ LET room == NewRoom(c, mode, close, name)
             IN  /\ rooms' = Put(rooms, id, room)
                 /\ told' = notifyInfoChanged(room, told)
          /\ connected' = Put(connected, c, id)
          /\ usersJoined' = usersJoined + 1
          /\ roomsCreated' = roomsCreated + 1
          /\ UNCHANGED <<upgraded, batch, allowed, open, closeSent,
                         roomsClosed, usersLeft, sessionsCreated,
                         sessionsClosed>>

\* StartShare.Execute does not ask whether the user is sharing already.
StartShare(c, ipFails) ==
    /\ Accepts(c)
    /\ LET r == connected[c]
           room == [rooms[r] EXCEPT !.streaming = @ \cup {c}]
       IN  \/ ~HasRoom(c) /\ Fail(c)
           \/ /\ HasRoom(c) /\ ipFails
              /\ executeNoError(connected, Put(rooms, r, room), usersJoined, c)
           \/ /\ HasRoom(c) /\ ~ipFails
              /\ newSessions(r, room, ToEveryone(room, c))
              /\ told' = notifyInfoChanged(room, told)
              /\ UNCHANGED <<connected, usersJoined>>

\* The sessions that end when c stops sharing.
HostedBy(room, c) == {s \in room.sessions : s.host = c}

StopShare(c) ==
    /\ Accepts(c)
    /\ \/ ~HasRoom(c) /\ Fail(c)
       \/ /\ HasRoom(c)
          /\ LET r == connected[c]
                 ended == HostedBy(rooms[r], c)
                 room == [rooms[r] EXCEPT !.streaming = @ \ {c},
                                          !.sessions = @ \ ended]
             IN  /\ rooms' = Put(rooms, r, room)
                 /\ allowed' = closeSessions(room, ended)
                 \* EndShare to each client; the sender knows what it stopped
                 /\ open' = [u \in Clients |-> open[u] \ ended]
                 /\ sessionsClosed' = sessionsClosed + Cardinality(ended)
                 /\ told' = notifyInfoChanged(room, told)
          /\ UNCHANGED <<upgraded, connected, batch, closeSent, roomsCreated,
                         roomsClosed, usersJoined, usersLeft, sessionsCreated>>

Name(c, name) ==
    /\ Accepts(c)
    /\ \/ ~HasRoom(c) /\ Fail(c)
       \/ /\ HasRoom(c)
          /\ LET r == connected[c]
                 room == [rooms[r] EXCEPT !.names[c] = name]
             IN  /\ rooms' = Put(rooms, r, room)
                 /\ told' = notifyInfoChanged(room, told)
          /\ UNCHANGED <<upgraded, connected, batch, allowed, open, closeSent,
                         counters>>

\* A peer-to-peer message from c for session s, which only its end "from" may
\* send; it is written to the other end, which changes nothing here.  One for a
\* session the room does not have is ignored.
Relay(c, s, from) ==
    /\ Accepts(c)
    /\ \/ ~HasRoom(c) /\ Fail(c)
       \/ /\ HasRoom(c)
          /\ s \in rooms[connected[c]].sessions
          /\ s[from] # c
          /\ Fail(c)
       \/ /\ HasRoom(c)
          /\ s \in rooms[connected[c]].sessions => s[from] = c
          /\ UNCHANGED vars

HostOffer(c, s)    == Relay(c, s, "host")
HostICE(c, s)      == Relay(c, s, "host")
ClientAnswer(c, s) == Relay(c, s, "client")
ClientICE(c, s)    == Relay(c, s, "client")

\* The sessions a peer-to-peer message may name: every one created so far
\* between two clients, live or ended.
Nameable == [host : Clients, client : Clients, batch : 1 .. batch]

Next ==
    \E c \in Clients :
        \/ Connected(c)
        \/ Disconnected(c)
        \/ \E id \in RoomIDs, name \in Names, ipFails \in BOOLEAN :
              \/ Join(c, id, name, ipFails)
              \/ \E mode \in Modes, close \in BOOLEAN, joinIfExist \in BOOLEAN :
                    Create(c, id, mode, close, joinIfExist, name, ipFails)
        \/ \E ipFails \in BOOLEAN : StartShare(c, ipFails)
        \/ StopShare(c)
        \/ \E name \in Names : Name(c, name)
        \/ \E s \in Nameable :
              HostOffer(c, s) \/ HostICE(c, s) \/ ClientAnswer(c, s) \/ ClientICE(c, s)

Spec == Init /\ [][Next]_vars
-----------------------------------------------------------------------------
Places == RoomIDs \cup {Empty}
PartialFunctions(S, T) == UNION {[D -> T] : D \in SUBSET S}

\* Every variable has its type; the fields of a room that are keyed by its
\* users are about its users.
TypeOK ==
    /\ upgraded \subseteq Clients
    /\ connected \in PartialFunctions(Clients, Places)
    /\ DOMAIN connected \subseteq upgraded
    /\ DOMAIN rooms \subseteq RoomIDs
    /\ \A r \in DOMAIN rooms :
          /\ rooms[r] \in Room
          /\ rooms[r].streaming \subseteq rooms[r].users
          /\ rooms[r].owners \subseteq rooms[r].users
          /\ DOMAIN rooms[r].names = rooms[r].users
          /\ IsFiniteSet(rooms[r].sessions)
    /\ batch \in Nat
    /\ allowed \subseteq Logins(Session)
    /\ open \in [Clients -> SUBSET Session]
    /\ closeSent \in [Clients -> Nat]
    /\ \A n \in {roomsCreated, roomsClosed, usersJoined, usersLeft,
                 sessionsCreated, sessionsClosed} : n \in Nat

LiveSessions == UNION {rooms[r].sessions : r \in DOMAIN rooms}

\* The three maps agree: a connection that connected puts in a room is a user
\* of that room and of no other, and a user of a room is a live connection.
\* room.Users[current.ID].Streaming = true (event_share.go) and its kind
\* dereference what this promises: without it the main loop dies.
Agree ==
    /\ \A c \in DOMAIN connected : connected[c] # Empty =>
          connected[c] \in DOMAIN rooms /\ c \in rooms[connected[c]].users
    /\ \A r \in DOMAIN rooms : \A c \in rooms[r].users :
          c \in DOMAIN connected /\ connected[c] = r

\* Both ends of a session are users of its room, different ones, and its host
\* is streaming: newSession and the relay handlers dereference both ends.
SessionsSound ==
    \A r \in DOMAIN rooms : \A s \in rooms[r].sessions :
        /\ s.host \in rooms[r].streaming
        /\ s.client \in rooms[r].users \ {s.host}

\* Whoever shares is seen by everybody: a session leads from every streaming
\* user of a room to every other user, whichever of them came first.
SharesComplete ==
    \A r \in DOMAIN rooms : \A h \in rooms[r].streaming :
        \A c \in rooms[r].users \ {h} :
            \E s \in rooms[r].sessions : s.host = h /\ s.client = c

\* Credentials live as long as their session: the TURN server accepts exactly
\* the two names of every session of a TURN room, whichever way the others ended.
TurnExact ==
    allowed = UNION {Logins(rooms[r].sessions) :
                        r \in {q \in DOMAIN rooms : rooms[q].mode = "turn"}}

\* A room with closeOnOwnerLeave still has its owner; no room is empty.
RoomsOccupied ==
    \A r \in DOMAIN rooms :
        /\ rooms[r].users # {}
        /\ rooms[r].closeOnOwnerLeave => rooms[r].owners # {}

\* The difference of each pair of prometheus counters is what exists now, also
\* after a handler that failed half way and a room closed over its users' heads.
CountersExact ==
    /\ roomsCreated = roomsClosed + Cardinality(DOMAIN rooms)
    /\ usersJoined = usersLeft
         + Cardinality(UNION {rooms[r].users : r \in DOMAIN rooms})
    /\ sessionsCreated = sessionsClosed + Cardinality(LiveSessions)

\* Between two messages every user has been told the room as it is.
ToldTruth ==
    \A r \in DOMAIN rooms : \A c \in rooms[r].users : told[c] = Info(rooms[r])

\* What a client knows of sessions (HostSession and ClientSession, less
\* EndShare and less what it stopped itself) is what the server has: nobody
\* keeps a peer connection whose session is gone.
SessionsKnown ==
    \A c \in DOMAIN connected :
        open[c] = {s \in LiveSessions : c \in {s.host, s.client}}

\* A connection is sent CloseWriter exactly once, when it leaves connected: the
\* writer goroutine waits for it and no later message may follow it.
ClosedOnce ==
    \A c \in Clients :
        closeSent[c] = IF c \in upgraded /\ c \notin DOMAIN connected THEN 1 ELSE 0

\* One message removes several connections only by closing a room whose owner
\* leaves and that was created with closeOnOwnerLeave; otherwise at most one.
LeaveForCause ==
    [][ LET gone == DOMAIN connected \ DOMAIN connected'
        IN  \/ \E c \in Clients : gone \subseteq {c}
            \/ \E r \in DOMAIN rooms \ DOMAIN rooms' :
                  /\ gone = rooms[r].users
                  /\ rooms[r].closeOnOwnerLeave
      ]_vars

\* What a server that gives out session after session amounts to: ShareMesh,
\* whose links are the sessions and whose clients leave when connected loses
\* them.
Mesh == INSTANCE ShareMesh WITH
    members <- [r \in RoomIDs |-> IF r \in DOMAIN rooms THEN rooms[r].users ELSE {}],
    sharing <- UNION {rooms[r].streaming : r \in DOMAIN rooms},
    links   <- {<<s.host, s.client>> : s \in LiveSessions},
    left    <- upgraded \ DOMAIN connected

\* Every step of the server is a step of the mesh or invisible in it: a failed
\* join is never seen, a failed share is a departure, a repeated share nothing.
ImplementsMesh == Mesh!MeshSpec

\* A connection that is "not in a room" (rooms.go: CurrentRoom) is no user of one.
NotInARoom ==
    \A c \in Clients : \A r \in DOMAIN rooms :
        c \in rooms[r].users => c \in DOMAIN connected /\ connected[c] # Empty
=============================================================================
