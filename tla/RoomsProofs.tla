----------------------------- MODULE RoomsProofs -----------------------------
(***************************************************************************)
(* Theorems about Rooms, for any number of connections, rooms and batches. *)
(***************************************************************************)
EXTENDS Rooms, TLAPS, FiniteSetTheorems

\* The parts of the invariant that speak of connected and rooms only, for any
\* values of the two: a handler that fails has changed them before it calls
\* executeNoError.
RoomOK(room) ==
    /\ room \in Room
    /\ room.streaming \subseteq room.users
    /\ room.owners \subseteq room.users
    /\ DOMAIN room.names = room.users
    /\ IsFiniteSet(room.sessions)

MapsOK(conn, rms) ==
    /\ conn \in PartialFunctions(Clients, Places)
    /\ DOMAIN rms \subseteq RoomIDs
    /\ \A r \in DOMAIN rms : RoomOK(rms[r])

AgreeOn(conn, rms) ==
    /\ \A c \in DOMAIN conn : conn[c] # Empty =>
          conn[c] \in DOMAIN rms /\ c \in rms[conn[c]].users
    /\ \A r \in DOMAIN rms : \A c \in rms[r].users :
          c \in DOMAIN conn /\ conn[c] = r

SoundOn(rms) ==
    \A r \in DOMAIN rms : \A s \in rms[r].sessions :
        /\ s.host \in rms[r].streaming
        /\ s.client \in rms[r].users \ {s.host}

\* SharesComplete but for the sessions that d takes part in.
SharesBut(rms, D) ==
    \A r \in DOMAIN rms : \A h \in rms[r].streaming \ D :
        \A c \in rms[r].users \ (D \cup {h}) :
            \E s \in rms[r].sessions : s.host = h /\ s.client = c

\* The rest of TypeOK.
OthersOK ==
    /\ upgraded \subseteq Clients /\ DOMAIN connected \subseteq upgraded
    /\ batch \in Nat
    /\ allowed \subseteq Logins(Session)
    /\ open \in [Clients -> SUBSET Session]
    /\ closeSent \in [Clients -> Nat]
    /\ roomsCreated \in Nat /\ usersJoined \in Nat /\ sessionsCreated \in Nat
    /\ roomsClosed \in Nat /\ usersLeft \in Nat /\ sessionsClosed \in Nat

Core == /\ OthersOK
        /\ MapsOK(connected, rooms)
        /\ AgreeOn(connected, rooms)
        /\ SoundOn(rooms)
        /\ SharesBut(rooms, {})

\* Setting and deleting a key keeps a partial function one: user names, and
\* the map connected.
LEMMA NamesType ==
    ASSUME NEW f \in PartialFunctions(Clients, Names)
    PROVE  /\ \A K \in SUBSET Clients : /\ Without(f, K) \in PartialFunctions(Clients, Names)
                   /\ DOMAIN Without(f, K) = DOMAIN f \ K
                   /\ \A x \in DOMAIN f \ K : Without(f, K)[x] = f[x]
           /\ \A c \in Clients, v \in Names :
                   /\ Put(f, c, v) \in PartialFunctions(Clients, Names)
                   /\ DOMAIN Put(f, c, v) = DOMAIN f \cup {c}
                   /\ \A x \in DOMAIN Put(f, c, v) :
                          Put(f, c, v)[x] = IF x = c THEN v ELSE f[x]
<1>1. PICK U \in SUBSET Clients : f \in [U -> Names]
  BY DEF PartialFunctions
<1>2. ASSUME NEW K
      PROVE  Without(f, K) \in PartialFunctions(Clients, Names)
  <2>1. U \ K \in SUBSET Clients /\ Without(f, K) \in [U \ K -> Names]
    BY <1>1 DEF Without
  <2>2. QED
    BY <2>1 DEF PartialFunctions
<1>3. ASSUME NEW c \in Clients, NEW v \in Names
      PROVE  Put(f, c, v) \in PartialFunctions(Clients, Names)
  <2>1. /\ U \cup {c} \in SUBSET Clients
        /\ Put(f, c, v) \in [U \cup {c} -> Names]
    BY <1>1, <1>3 DEF Put
  <2>2. QED
    BY <2>1 DEF PartialFunctions
<1>4. QED
  BY <1>2, <1>3 DEF Without, Put

LEMMA ConnectedType ==
    ASSUME NEW f \in PartialFunctions(Clients, Places)
    PROVE  /\ \A K \in SUBSET Clients : /\ Without(f, K) \in PartialFunctions(Clients, Places)
                   /\ DOMAIN Without(f, K) = DOMAIN f \ K
                   /\ \A x \in DOMAIN f \ K : Without(f, K)[x] = f[x]
           /\ \A c \in Clients, v \in Places :
                   /\ Put(f, c, v) \in PartialFunctions(Clients, Places)
                   /\ DOMAIN Put(f, c, v) = DOMAIN f \cup {c}
                   /\ \A x \in DOMAIN Put(f, c, v) :
                          Put(f, c, v)[x] = IF x = c THEN v ELSE f[x]
<1>1. PICK U \in SUBSET Clients : f \in [U -> Places]
  BY DEF PartialFunctions
<1>2. ASSUME NEW K
      PROVE  Without(f, K) \in PartialFunctions(Clients, Places)
  <2>1. U \ K \in SUBSET Clients /\ Without(f, K) \in [U \ K -> Places]
    BY <1>1 DEF Without
  <2>2. QED
    BY <2>1 DEF PartialFunctions
<1>3. ASSUME NEW c \in Clients, NEW v \in Places
      PROVE  Put(f, c, v) \in PartialFunctions(Clients, Places)
  <2>1. /\ U \cup {c} \in SUBSET Clients
        /\ Put(f, c, v) \in [U \cup {c} -> Places]
    BY <1>1, <1>3 DEF Put
  <2>2. QED
    BY <2>1 DEF PartialFunctions
<1>4. QED
  BY <1>2, <1>3 DEF Without, Put

LEMMA CoreMeaning == Core <=> TypeOK /\ Agree /\ SessionsSound /\ SharesComplete
<1>1. SharesComplete <=> SharesBut(rooms, {})
  BY DEF SharesComplete, SharesBut
<1>2. TypeOK <=> OthersOK /\ MapsOK(connected, rooms)
  BY DEF TypeOK, OthersOK, MapsOK, RoomOK
<1>3. QED
  BY <1>1, <1>2 DEF Core, Agree, AgreeOn, SessionsSound, SoundOn

\* What a handler has to show of the room it changed, or made, for the maps to
\* stay well formed.
LEMMA PutRoom ==
    ASSUME NEW conn, NEW rms, NEW r \in RoomIDs, NEW room,
           MapsOK(conn, rms), SoundOn(rms), SharesBut(rms, {}),
           RoomOK(room),
           \A s \in room.sessions : /\ s.host \in room.streaming
                                    /\ s.client \in room.users \ {s.host},
           \A h \in room.streaming : \A c \in room.users \ {h} :
              \E s \in room.sessions : s.host = h /\ s.client = c
    PROVE  /\ MapsOK(conn, Put(rms, r, room))
           /\ SoundOn(Put(rms, r, room))
           /\ SharesBut(Put(rms, r, room), {})
<1> DEFINE new == Put(rms, r, room)
<1>1. /\ DOMAIN new = DOMAIN rms \cup {r}
      /\ new[r] = room
      /\ \A x \in DOMAIN rms \ {r} : new[x] = rms[x]
  BY DEF Put
<1> HIDE DEF new
<1>2. MapsOK(conn, new)
  BY <1>1 DEF MapsOK
<1>3. SoundOn(new)
  BY <1>1 DEF SoundOn
<1>4. SharesBut(new, {})
  BY <1>1 DEF SharesBut
<1>5. QED
  BY <1>2, <1>3, <1>4 DEF new

\* A room that loses the user c and the sessions c takes part in.
LEMMA RestOfRoom ==
    ASSUME NEW room, RoomOK(room), NEW c \in Clients
    PROVE  RoomOK([room EXCEPT !.users = @ \ {c}, !.owners = @ \ {c},
                               !.streaming = @ \ {c},
                               !.sessions = @ \ SessionsOf(room, c),
                               !.names = Without(@, {c})])
<1>1. /\ room \in Room
      /\ room.names \in PartialFunctions(Clients, Names)
  BY DEF RoomOK, Room, PartialFunctions
<1>2. /\ Without(room.names, {c}) \in PartialFunctions(Clients, Names)
      /\ DOMAIN Without(room.names, {c}) = DOMAIN room.names \ {c}
  BY <1>1, NamesType
<1> DEFINE n == Without(room.names, {c})
<1> HIDE DEF n
<1>3. n \in PartialFunctions(Clients, Names) /\ DOMAIN n = DOMAIN room.names \ {c}
  BY <1>2 DEF n
<1>4. RoomOK([room EXCEPT !.users = @ \ {c}, !.owners = @ \ {c},
                          !.streaming = @ \ {c},
                          !.sessions = @ \ SessionsOf(room, c), !.names = n])
  BY <1>1, <1>3, FS_Subset DEF RoomOK, Room, SessionsOf, PartialFunctions
<1>5. QED
  BY <1>4 DEF n

\* Abbreviations of Rooms that every proof below expands.
USE DEF ownerLeft, Leaving, Closes, Rest, closeSessions, CloseWriters, Announce,
        ToNewUser, ToEveryone, HostedBy

\* executeNoError on the maps conn and rms as a failing handler leaves them: the
\* sessions from or to c may be incomplete, and are complete without c.
LEMMA LeaveRoomMaps ==
    ASSUME NEW c \in Clients, NEW conn, NEW rms,
           MapsOK(conn, rms), AgreeOn(conn, rms), SoundOn(rms),
           SharesBut(rms, {c}), LeaveRoom(conn, rms, c), c \in DOMAIN conn
    PROVE  /\ MapsOK(connected', rooms')
           /\ AgreeOn(connected', rooms')
           /\ SoundOn(rooms')
           /\ SharesBut(rooms', {})
<1> DEFINE r == conn[c]
           room == rms[r]
           closes == ownerLeft(room, c) \/ room.users = {c}
           leaving == IF ownerLeft(room, c) THEN room.users ELSE {c}
           rest == [room EXCEPT !.users = @ \ {c}, !.owners = @ \ {c},
                                !.streaming = @ \ {c},
                                !.sessions = @ \ SessionsOf(room, c),
                                !.names = Without(@, {c})]
<1>1. /\ r # Empty /\ r \in DOMAIN rms /\ c \in room.users
      /\ r \in RoomIDs /\ RoomOK(room)
  BY DEF LeaveRoom, IsUser, MapsOK
<1>2. /\ connected' = Without(conn, leaving)
      /\ rooms' = IF closes THEN Without(rms, {r}) ELSE Put(rms, r, rest)
  BY DEF LeaveRoom
<1>3. leaving \in SUBSET Clients /\ c \in leaving /\ leaving \subseteq room.users
  BY <1>1 DEF RoomOK, Room
<1>4. /\ connected' \in PartialFunctions(Clients, Places)
      /\ DOMAIN connected' = DOMAIN conn \ leaving
      /\ \A x \in DOMAIN conn \ leaving : connected'[x] = conn[x]
  <2> HIDE DEF leaving
  <2>1. conn \in PartialFunctions(Clients, Places)
    BY DEF MapsOK
  <2>2. /\ Without(conn, leaving) \in PartialFunctions(Clients, Places)
        /\ DOMAIN Without(conn, leaving) = DOMAIN conn \ leaving
        /\ \A x \in DOMAIN conn \ leaving : Without(conn, leaving)[x] = conn[x]
    BY <1>3, <2>1, ConnectedType
  <2>3. QED
    BY <1>2, <2>2
<1>5. \A x \in leaving : x \in DOMAIN conn /\ conn[x] = r
  BY <1>1, <1>3 DEF AgreeOn
<1>6. \A q \in DOMAIN rms \ {r} : rms[q].users \cap leaving = {}
  BY <1>5 DEF AgreeOn
<1>7. CASE closes
  <2>1. /\ DOMAIN rooms' = DOMAIN rms \ {r}
        /\ \A q \in DOMAIN rooms' : rooms'[q] = rms[q]
    BY <1>2, <1>7 DEF Without
  <2>2. leaving = room.users
    BY <1>7
  <2> HIDE DEF leaving, closes, rest, room
  <2>3. MapsOK(connected', rooms')
    BY <1>4, <2>1 DEF MapsOK
  <2>4. AgreeOn(connected', rooms')
    BY <1>4, <1>6, <2>1, <2>2, <1>5 DEF AgreeOn, room
  <2>5. SoundOn(rooms')
    BY <2>1 DEF SoundOn
  <2>6. SharesBut(rooms', {})
    BY <2>1, <1>3, <1>6 DEF SharesBut, MapsOK, RoomOK
  <2>7. QED
    BY <2>3, <2>4, <2>5, <2>6
<1>8. CASE ~closes
  <2>1. /\ DOMAIN rooms' = DOMAIN rms
        /\ rooms'[r] = rest
        /\ \A q \in DOMAIN rms \ {r} : rooms'[q] = rms[q]
    BY <1>1, <1>2, <1>8 DEF Put
  <2>2. leaving = {c}
    BY <1>8
  <2>3. RoomOK(rest)
    BY <1>1, RestOfRoom
  <2>4. /\ rest.users = room.users \ {c}
        /\ rest.streaming = room.streaming \ {c}
        /\ rest.sessions = room.sessions \ SessionsOf(room, c)
    BY <1>1 DEF RoomOK, Room
  <2> HIDE DEF leaving, closes, rest
  <2>5. MapsOK(connected', rooms')
    BY <1>4, <2>1, <2>3 DEF MapsOK
  <2>6. AgreeOn(connected', rooms')
    BY <1>4, <1>5, <1>6, <2>1, <2>2, <2>4 DEF AgreeOn
  <2>7. SoundOn(rooms')
    BY <2>1, <2>4 DEF SoundOn, SessionsOf
  <2>8. SharesBut(rooms', {})
    <3>1. \A h \in rest.streaming : \A x \in rest.users \ {h} :
             \E s \in rest.sessions : s.host = h /\ s.client = x
      BY <1>1, <2>4 DEF SharesBut, SessionsOf
    <3>2. \A q \in DOMAIN rms \ {r} : \A h \in rms[q].streaming :
             \A x \in rms[q].users \ {h} :
               \E s \in rms[q].sessions : s.host = h /\ s.client = x
      BY <1>6, <2>2 DEF SharesBut, MapsOK, RoomOK
    <3>3. QED
      BY <2>1, <3>1, <3>2 DEF SharesBut
  <2>9. QED
    BY <2>5, <2>6, <2>7, <2>8
<1>9. QED
  BY <1>7, <1>8

LEMMA ExecuteKeeps ==
    ASSUME Empty \notin RoomIDs,
           NEW c \in Clients, NEW conn, NEW rms, NEW joined \in Nat,
           OthersOK, c \in DOMAIN conn, DOMAIN conn \subseteq upgraded,
           MapsOK(conn, rms), AgreeOn(conn, rms), SoundOn(rms),
           SharesBut(rms, {c}), ~IsUser(conn, rms, c) => SharesBut(rms, {}),
           executeNoError(conn, rms, joined, c)
    PROVE  Core'
<1>1. CASE LeaveNoRoom(conn, rms, c)
  <2>1. /\ ~IsUser(conn, rms, c)
        /\ connected' = Without(conn, {c})
        /\ rooms' = rms
    BY <1>1 DEF LeaveNoRoom
  <2>2. conn \in PartialFunctions(Clients, Places)
    BY DEF MapsOK
  <2>3. /\ connected' \in PartialFunctions(Clients, Places)
        /\ DOMAIN connected' = DOMAIN conn \ {c}
        /\ \A x \in DOMAIN conn \ {c} : connected'[x] = conn[x]
    <3>1. PICK K \in SUBSET Clients : K = {c}
      OBVIOUS
    <3>2. /\ Without(conn, K) \in PartialFunctions(Clients, Places)
          /\ DOMAIN Without(conn, K) = DOMAIN conn \ K
          /\ \A x \in DOMAIN conn \ K : Without(conn, K)[x] = conn[x]
      BY <2>2, ConnectedType
    <3>3. QED
      BY <2>1, <3>1, <3>2
  <2>4. MapsOK(connected', rooms')
    BY <2>1, <2>3 DEF MapsOK
  <2>5. AgreeOn(connected', rooms')
    <3>1. \A r \in DOMAIN rms : c \notin rms[r].users
      BY <2>1 DEF AgreeOn, IsUser, MapsOK
    <3>2. QED
      BY <2>1, <2>3, <3>1 DEF AgreeOn
  <2>6. SoundOn(rooms') /\ SharesBut(rooms', {})
    BY <2>1
  <2>7. OthersOK'
    BY <1>1, <2>3 DEF LeaveNoRoom, executeNoError, OthersOK
  <2>8. QED
    BY <2>4, <2>5, <2>6, <2>7 DEF Core
<1>2. CASE LeaveRoom(conn, rms, c)
  <2>1. /\ MapsOK(connected', rooms')
        /\ AgreeOn(connected', rooms')
        /\ SoundOn(rooms')
        /\ SharesBut(rooms', {})
    BY <1>2, LeaveRoomMaps
  <2>2. OthersOK'
    <3> DEFINE room == rms[conn[c]]
    <3>1. room.users \subseteq Clients /\ IsFiniteSet(room.sessions)
      BY <1>2 DEF LeaveRoom, IsUser, MapsOK, RoomOK, Room
    <3>2. \A S \in SUBSET Clients : IsFiniteSet(S) /\ Cardinality(S) \in Nat
      BY FS_Subset, FS_CardinalityType, RoomsAssumption
    <3>3. \A S \in SUBSET room.sessions : Cardinality(S) \in Nat
      BY <3>1, FS_Subset, FS_CardinalityType
    <3>4. usersLeft' \in Nat
      BY <1>2, <3>1, <3>2 DEF LeaveRoom, OthersOK
    <3>5. sessionsClosed' \in Nat
      <4>1. SessionsOf(room, c) \in SUBSET room.sessions
        BY DEF SessionsOf
      <4>2. PICK ended \in SUBSET room.sessions :
               sessionsClosed' = sessionsClosed + Cardinality(ended)
        BY <1>2, <4>1 DEF LeaveRoom
      <4>3. QED
        BY <3>3, <4>2 DEF OthersOK
    <3>6. /\ open' \in [Clients -> SUBSET Session]
          /\ closeSent' \in [Clients -> Nat]
          /\ allowed' \subseteq Logins(Session)
          /\ roomsClosed' \in Nat
      BY <1>2 DEF LeaveRoom, OthersOK
    <3>7. DOMAIN connected' \subseteq upgraded
      BY <1>2 DEF LeaveRoom, Without
    <3>8. QED
      BY <3>4, <3>5, <3>6, <3>7 DEF executeNoError, OthersOK
  <2>3. QED
    BY <2>1, <2>2 DEF Core
<1>3. QED
  BY <1>1, <1>2 DEF executeNoError

LEMMA FailKeeps ==
    ASSUME Empty \notin RoomIDs, Core, NEW c \in Clients, Accepts(c), Fail(c)
    PROVE  Core'
<1>1. /\ OthersOK /\ MapsOK(connected, rooms) /\ AgreeOn(connected, rooms)
      /\ SoundOn(rooms) /\ SharesBut(rooms, {})
  BY DEF Core
<1>2. SharesBut(rooms, {c})
  BY <1>1 DEF SharesBut
<1>3. usersJoined \in Nat
  BY <1>1 DEF OthersOK
<1>4. QED
  BY <1>1, <1>2, <1>3, ExecuteKeeps DEF Fail, Accepts, OthersOK

LEMMA ConnectedKeeps ==
    ASSUME Empty \notin RoomIDs, Core, NEW c \in Clients, Connected(c)
    PROVE  Core'
<1>1. /\ Empty \in Places
      /\ connected \in PartialFunctions(Clients, Places)
      /\ c \notin DOMAIN connected
  BY DEF Core, MapsOK, Places, Connected, OthersOK
<1>2. /\ connected' \in PartialFunctions(Clients, Places)
      /\ DOMAIN connected' = DOMAIN connected \cup {c}
      /\ \A x \in DOMAIN connected' :
            connected'[x] = IF x = c THEN Empty ELSE connected[x]
  <2>1. Put(connected, c, Empty) \in PartialFunctions(Clients, Places)
    BY <1>1, ConnectedType
  <2>2. QED
    BY <2>1 DEF Connected, Put
<1>3. OthersOK' /\ MapsOK(connected', rooms')
  BY <1>2 DEF Core, OthersOK, MapsOK, Connected, counters
<1>4. AgreeOn(connected', rooms')
  BY <1>1, <1>2 DEF Core, AgreeOn, Connected
<1>5. QED
  BY <1>3, <1>4 DEF Core, Connected

\* The maps after c has entered room r, or changed it: room is what becomes of
\* the room, and all its users were there before or are c.
LEMMA EnterRoom ==
    ASSUME Empty \notin RoomIDs, NEW c \in Clients, NEW conn, NEW rms,
           NEW r \in RoomIDs, NEW room,
           MapsOK(conn, rms), AgreeOn(conn, rms), RoomOK(room),
           c \in DOMAIN conn, conn[c] \in {Empty, r},
           c \in room.users,
           room.users = IF r \in DOMAIN rms THEN rms[r].users \cup {c} ELSE {c}
    PROVE  /\ MapsOK(Put(conn, c, r), Put(rms, r, room))
           /\ AgreeOn(Put(conn, c, r), Put(rms, r, room))
<1> DEFINE conn2 == Put(conn, c, r)
           rms2 == Put(rms, r, room)
<1>1. /\ DOMAIN rms2 = DOMAIN rms \cup {r}
      /\ rms2[r] = room
      /\ \A x \in DOMAIN rms \ {r} : rms2[x] = rms[x]
  BY DEF Put
<1>2. conn \in PartialFunctions(Clients, Places) /\ r \in Places
  BY DEF MapsOK, Places
<1>3. /\ conn2 \in PartialFunctions(Clients, Places)
      /\ DOMAIN conn2 = DOMAIN conn \cup {c}
      /\ \A x \in DOMAIN conn2 : conn2[x] = IF x = c THEN r ELSE conn[x]
  <2>1. conn2 \in PartialFunctions(Clients, Places)
    BY <1>2, ConnectedType
  <2>2. QED
    BY <2>1 DEF Put
<1> HIDE DEF conn2, rms2
<1>4. MapsOK(conn2, rms2)
  BY <1>1, <1>3 DEF MapsOK
<1>5. \A q \in DOMAIN rms \ {r} : c \notin rms[q].users
  BY DEF AgreeOn, MapsOK
<1>6. AgreeOn(conn2, rms2)
  <2>1. ASSUME NEW x \in DOMAIN conn2, conn2[x] # Empty
        PROVE  conn2[x] \in DOMAIN rms2 /\ x \in rms2[conn2[x]].users
    BY <1>1, <1>3, <2>1 DEF AgreeOn
  <2>2. ASSUME NEW q \in DOMAIN rms2, NEW x \in rms2[q].users
        PROVE  x \in DOMAIN conn2 /\ conn2[x] = q
    BY <1>1, <1>3, <1>5, <2>2 DEF AgreeOn
  <2>3. QED
    BY <2>1, <2>2 DEF AgreeOn
<1>7. QED
  BY <1>4, <1>6 DEF conn2, rms2

LEMMA JoinedRoom ==
    ASSUME NEW room, RoomOK(room), NEW c \in Clients, NEW name \in Names,
           NEW new, new \subseteq Session, IsFiniteSet(new)
    PROVE  RoomOK([Joined(room, c, name) EXCEPT !.sessions = @ \cup new])
<1>1. /\ room \in Room
      /\ room.names \in PartialFunctions(Clients, Names)
  BY DEF RoomOK, Room, PartialFunctions
<1> DEFINE n == Put(room.names, c, name)
<1>2. /\ n \in PartialFunctions(Clients, Names)
      /\ DOMAIN n = DOMAIN room.names \cup {c}
  BY <1>1, NamesType
<1> HIDE DEF n
<1>3. IsFiniteSet(room.sessions \cup new)
  BY FS_Union DEF RoomOK
<1>4. RoomOK([room EXCEPT !.users = @ \cup {c}, !.owners = @ \ {c},
                          !.streaming = @ \ {c}, !.names = n,
                          !.sessions = @ \cup new])
  BY <1>1, <1>2, <1>3 DEF RoomOK, Room, PartialFunctions
<1>5. QED
  BY <1>1, <1>4 DEF n, Joined, Room

\* A handler that changes the room of c but not who is in it.
LEMMA ChangeRoom ==
    ASSUME Core, NEW r \in DOMAIN rooms, NEW room,
           rooms' = Put(rooms, r, room), connected' = connected,
           RoomOK(room), room.users = rooms[r].users,
           \A s \in room.sessions : /\ s.host \in room.streaming
                                    /\ s.client \in room.users \ {s.host},
           \A h \in room.streaming : \A c \in room.users \ {h} :
              \E s \in room.sessions : s.host = h /\ s.client = c,
           OthersOK'
    PROVE  Core'
<1>1. r \in RoomIDs
  BY DEF Core, MapsOK
<1>2. /\ MapsOK(connected', rooms')
      /\ SoundOn(rooms')
      /\ SharesBut(rooms', {})
  BY <1>1, PutRoom DEF Core
<1>3. AgreeOn(connected', rooms')
  BY DEF Core, AgreeOn, Put
<1>4. QED
  BY <1>2, <1>3 DEF Core

\* The sessions that one message may create, and what newSessions does to the
\* rest of the state.
LEMMA NewSessionsType ==
    ASSUME OthersOK, NEW H \in SUBSET Clients, NEW C \in SUBSET Clients
    PROVE  LET new == [host : H, client : C, batch : {batch + 1}]
           IN  new \subseteq Session /\ IsFiniteSet(new)
<1> DEFINE new == [host : H, client : C, batch : {batch + 1}]
           F == [p \in H \X C |-> [host |-> p[1], client |-> p[2], batch |-> batch + 1]]
<1>1. new \subseteq Session
  BY DEF OthersOK, Session
<1>2. IsFiniteSet(H \X C)
  BY FS_Subset, FS_Product, RoomsAssumption
<1>3. new = {F[p] : p \in H \X C}
  <2>1. ASSUME NEW s \in new PROVE s \in {F[p] : p \in H \X C}
    <3>1. <<s.host, s.client>> \in H \X C /\ F[<<s.host, s.client>>] = s
      OBVIOUS
    <3>2. QED
      BY <3>1
  <2>2. ASSUME NEW p \in H \X C PROVE F[p] \in new
    OBVIOUS
  <2>3. QED
    BY <2>1, <2>2
<1>4. IsFiniteSet({F[p] : p \in H \X C})
  <2> HIDE DEF F, new
  <2>1. F \in Surjection(H \X C, {F[p] : p \in H \X C})
    BY DEF F, Surjection
  <2>2. QED
    BY <1>2, <2>1, FS_Surjection
<1>5. QED
  BY <1>1, <1>3, <1>4

LEMMA NewSessionsOthers ==
    ASSUME OthersOK, NEW r, NEW room, NEW new, new \subseteq Session,
           IsFiniteSet(new), newSessions(r, room, new),
           usersJoined' \in Nat, DOMAIN connected' \subseteq upgraded
    PROVE  OthersOK'
<1>1. Cardinality(new) \in Nat
  BY FS_CardinalityType
<1>2. sessionsCreated' \in Nat /\ batch' \in Nat
  BY <1>1 DEF newSessions, OthersOK
<1>3. /\ open' \in [Clients -> SUBSET Session]
      /\ allowed' \subseteq Logins(Session)
  BY DEF newSessions, OthersOK, Logins
<1>4. QED
  BY <1>2, <1>3 DEF newSessions, OthersOK

\* What a join makes of the room it finds.
LEMMA JoinedFacts ==
    ASSUME Core, NEW c \in Clients, NEW id \in DOMAIN rooms, NEW name \in Names,
           connected[c] = Empty, Empty \notin RoomIDs
    PROVE  LET joined == Joined(rooms[id], c, name)
               new == ToNewUser(joined, c)
               room == [joined EXCEPT !.sessions = @ \cup new]
           IN  /\ RoomOK(joined) /\ RoomOK(room)
               /\ joined.users = rooms[id].users \cup {c}
               /\ joined.streaming = rooms[id].streaming \ {c}
               /\ joined.owners = rooms[id].owners \ {c}
               /\ joined.sessions = rooms[id].sessions
               /\ joined.mode = rooms[id].mode
               /\ joined.closeOnOwnerLeave = rooms[id].closeOnOwnerLeave
               /\ room.users = joined.users /\ room.streaming = joined.streaming
               /\ room.owners = joined.owners /\ room.mode = joined.mode
               /\ room.closeOnOwnerLeave = joined.closeOnOwnerLeave
               /\ Info(room) = Info(joined)
               /\ room.sessions = joined.sessions \cup new
               /\ new \subseteq Session /\ IsFiniteSet(new)
               /\ \A r \in DOMAIN rooms : c \notin rooms[r].users
<1> DEFINE joined == Joined(rooms[id], c, name)
           new == ToNewUser(joined, c)
           room == [joined EXCEPT !.sessions = @ \cup new]
<1>1. RoomOK(rooms[id]) /\ id \in RoomIDs
  BY DEF Core, MapsOK
<1>2. /\ rooms[id] \in Room
      /\ joined.users = rooms[id].users \cup {c}
      /\ joined.streaming = rooms[id].streaming \ {c}
      /\ joined.owners = rooms[id].owners \ {c}
      /\ joined.sessions = rooms[id].sessions
      /\ joined.mode = rooms[id].mode
      /\ joined.closeOnOwnerLeave = rooms[id].closeOnOwnerLeave
  BY <1>1 DEF RoomOK, Room, Joined
<1>3. RoomOK([joined EXCEPT !.sessions = @ \cup {}])
  BY <1>1, JoinedRoom, FS_EmptySet
<1>4. [joined EXCEPT !.sessions = @ \cup {}] = joined
  BY <1>2 DEF Room, Joined
<1>5. PICK H \in SUBSET Clients, C \in SUBSET Clients :
         H = joined.streaming /\ C = {c}
  BY <1>2 DEF Room
<1>6. new \subseteq Session /\ IsFiniteSet(new)
  BY <1>5, NewSessionsType DEF Core
<1> HIDE DEF new
<1>7. RoomOK(room)
  BY <1>1, <1>6, JoinedRoom
<1>8. /\ room.users = joined.users /\ room.streaming = joined.streaming
      /\ room.owners = joined.owners /\ room.mode = joined.mode
      /\ room.closeOnOwnerLeave = joined.closeOnOwnerLeave
      /\ room.sessions = joined.sessions \cup new
      /\ room.names = joined.names
  BY <1>2 DEF Joined, Room
<1>9. Info(room) = Info(joined)
  BY <1>8 DEF Info
<1>10. \A r \in DOMAIN rooms : c \notin rooms[r].users
  BY DEF Core, AgreeOn, MapsOK
<1>11. QED
  <2> HIDE DEF joined, room
  <2>1. /\ RoomOK(joined) /\ RoomOK(room)
        /\ new \subseteq Session /\ IsFiniteSet(new)
    BY <1>3, <1>4, <1>6, <1>7
  <2>2. QED
    BY <1>2, <1>8, <1>9, <1>10, <2>1 DEF joined, new, room

LEMMA JoinRoomKeeps ==
    ASSUME Empty \notin RoomIDs, Core, NEW c \in Clients, NEW id \in RoomIDs,
           NEW name \in Names, NEW ipFails \in BOOLEAN,
           Accepts(c), JoinRoom(c, id, name, ipFails)
    PROVE  Core'
<1>1. CASE Fail(c)
  BY <1>1, FailKeeps
<1> DEFINE joined == Joined(rooms[id], c, name)
           new == ToNewUser(joined, c)
           room == [joined EXCEPT !.sessions = @ \cup new]
<1>2. ASSUME connected[c] = Empty, id \in DOMAIN rooms
      PROVE  /\ RoomOK(joined) /\ RoomOK(room)
             /\ joined.users = rooms[id].users \cup {c}
             /\ joined.streaming = rooms[id].streaming \ {c}
             /\ joined.sessions = rooms[id].sessions
             /\ room.users = joined.users /\ room.streaming = joined.streaming
             /\ room.sessions = joined.sessions \cup new
             /\ new \subseteq Session /\ IsFiniteSet(new)
             /\ \A r \in DOMAIN rooms : c \notin rooms[r].users
  BY <1>2, JoinedFacts
<1>3. CASE /\ connected[c] = Empty /\ id \in DOMAIN rooms
           /\ executeNoError(Put(connected, c, id), Put(rooms, id, joined),
                             usersJoined + 1, c)
  <2> DEFINE conn == Put(connected, c, id)
             rms == Put(rooms, id, joined)
  <2>1. MapsOK(conn, rms) /\ AgreeOn(conn, rms)
    <3> HIDE DEF joined
    <3>1. QED
      BY <1>2, <1>3, EnterRoom DEF Core, Accepts
  <2>2. /\ DOMAIN rms = DOMAIN rooms \cup {id}
        /\ rms[id] = joined
        /\ \A q \in DOMAIN rooms \ {id} : rms[q] = rooms[q]
    BY DEF Put
  <2>3. /\ DOMAIN conn = DOMAIN connected \cup {c}
        /\ conn[c] = id
    BY DEF Put
  <2> HIDE DEF conn, rms
  <2>4. SoundOn(rms)
    <3>1. ASSUME NEW q \in DOMAIN rms, NEW s \in rms[q].sessions
          PROVE  s.host \in rms[q].streaming /\ s.client \in rms[q].users \ {s.host}
      BY <1>2, <1>3, <2>2, <3>1 DEF Core, SoundOn, MapsOK, RoomOK
    <3>2. QED
      BY <3>1 DEF SoundOn
  <2>5. SharesBut(rms, {c})
    BY <1>2, <1>3, <2>2 DEF Core, SharesBut
  <2>6. IsUser(conn, rms, c)
    BY <1>2, <1>3, <2>2, <2>3 DEF IsUser
  <2>7. usersJoined + 1 \in Nat
    BY DEF Core, OthersOK
  <2>8. DOMAIN conn \subseteq upgraded /\ c \in DOMAIN conn
    BY <2>3 DEF Core, OthersOK, Accepts
  <2>9. executeNoError(conn, rms, usersJoined + 1, c)
    BY <1>3 DEF conn, rms
  <2>10. QED
    BY <2>1, <2>4, <2>5, <2>6, <2>7, <2>8, <2>9, ExecuteKeeps DEF Core
<1>4. CASE /\ connected[c] = Empty /\ id \in DOMAIN rooms
           /\ newSessions(id, joined, new)
           /\ connected' = Put(connected, c, id)
           /\ usersJoined' = usersJoined + 1
  <2>1. rooms' = Put(rooms, id, room)
    BY <1>4 DEF newSessions
  <2>2. MapsOK(connected', rooms') /\ AgreeOn(connected', rooms')
    <3> HIDE DEF joined, new, room
    <3>1. QED
      BY <1>2, <1>4, <2>1, EnterRoom DEF Core, Accepts
  <2>3. \A s \in room.sessions : /\ s.host \in room.streaming
                                 /\ s.client \in room.users \ {s.host}
    BY <1>2, <1>4 DEF Core, SoundOn, MapsOK, RoomOK
  <2>4. \A h \in room.streaming : \A x \in room.users \ {h} :
           \E s \in room.sessions : s.host = h /\ s.client = x
    <3>1. ASSUME NEW h \in room.streaming
          PROVE  \E s \in room.sessions : s.host = h /\ s.client = c
      <4>1. [host |-> h, client |-> c, batch |-> batch + 1] \in new
        BY <1>2, <1>4, <3>1
      <4>2. QED
        BY <1>2, <1>4, <4>1
    <3>2. ASSUME NEW h \in room.streaming, NEW x \in room.users \ {h, c}
          PROVE  \E s \in room.sessions : s.host = h /\ s.client = x
      BY <1>2, <1>4, <3>2 DEF Core, SharesBut
    <3>3. QED
      BY <3>1, <3>2
  <2>5. SoundOn(rooms') /\ SharesBut(rooms', {})
    <3> HIDE DEF joined, new, room
    <3>1. QED
      BY <1>2, <1>4, <2>1, <2>3, <2>4, PutRoom DEF Core
  <2>6. OthersOK'
    <3>1. usersJoined' \in Nat /\ DOMAIN connected' \subseteq upgraded
      BY <1>4 DEF Core, OthersOK, Put, Accepts
    <3> HIDE DEF joined, new
    <3>2. QED
      BY <1>2, <1>4, <3>1, NewSessionsOthers DEF Core
  <2>7. QED
    BY <2>2, <2>5, <2>6 DEF Core
<1>5. QED
  BY <1>1, <1>3, <1>4 DEF JoinRoom

LEMMA CreateKeeps ==
    ASSUME Empty \notin RoomIDs, Core, NEW c \in Clients, NEW id \in RoomIDs,
           NEW mode \in Modes, NEW close \in BOOLEAN, NEW join \in BOOLEAN,
           NEW name \in Names, NEW ipFails \in BOOLEAN,
           Create(c, id, mode, close, join, name, ipFails)
    PROVE  Core'
<1> DEFINE room == NewRoom(c, mode, close, name)
<1>1. CASE JoinRoom(c, id, name, ipFails)
  BY <1>1, JoinRoomKeeps DEF Create
<1>2. CASE Fail(c)
  BY <1>2, FailKeeps DEF Create
<1>3. CASE /\ connected[c] = Empty /\ id \notin DOMAIN rooms
           /\ rooms' = Put(rooms, id, room)
           /\ connected' = Put(connected, c, id)
           /\ usersJoined' = usersJoined + 1
           /\ roomsCreated' = roomsCreated + 1
           /\ UNCHANGED <<upgraded, batch, allowed, open, closeSent,
                          roomsClosed, usersLeft, sessionsCreated,
                          sessionsClosed>>
  <2>1. RoomOK(room)
    <3>1. room.names \in [{c} -> Names] /\ {c} \in SUBSET Clients
      BY DEF NewRoom, Put
    <3>2. room \in Room
      BY <3>1 DEF NewRoom, Room
    <3>3. QED
      BY <3>1, <3>2, FS_EmptySet DEF RoomOK, NewRoom
  <2>2. room.users = {c} /\ room.streaming = {} /\ room.sessions = {}
    BY DEF NewRoom
  <2>3. Accepts(c)
    BY DEF Create
  <2> HIDE DEF room
  <2>4. MapsOK(connected', rooms') /\ AgreeOn(connected', rooms')
    BY <1>3, <2>1, <2>2, <2>3, EnterRoom DEF Core, Accepts
  <2>5. SoundOn(rooms') /\ SharesBut(rooms', {})
    BY <1>3, <2>1, <2>2, PutRoom DEF Core
  <2>6. OthersOK'
    BY <1>3, <2>3 DEF Core, OthersOK, Put, Accepts
  <2>7. QED
    BY <2>4, <2>5, <2>6 DEF Core
<1>4. QED
  BY <1>1, <1>2, <1>3 DEF Create

\* What c \in DOMAIN connected and HasRoom(c) say of the room of c.
LEMMA OwnRoom ==
    ASSUME Core, NEW c \in Clients, Accepts(c), HasRoom(c)
    PROVE  /\ connected[c] \in DOMAIN rooms
           /\ connected[c] \in RoomIDs
           /\ c \in rooms[connected[c]].users
           /\ RoomOK(rooms[connected[c]])
           /\ IsUser(connected, rooms, c)
BY DEF Core, Accepts, HasRoom, AgreeOn, MapsOK, IsUser

\* What a share makes of the room of c.
LEMMA SharedFacts ==
    ASSUME Core, NEW c \in Clients, Accepts(c), HasRoom(c)
    PROVE  LET r == connected[c]
               room == [rooms[r] EXCEPT !.streaming = @ \cup {c}]
               new == ToEveryone(room, c)
               shared == [room EXCEPT !.sessions = @ \cup new]
           IN  /\ r \in DOMAIN rooms /\ r \in RoomIDs /\ c \in rooms[r].users
               /\ IsUser(connected, rooms, c)
               /\ RoomOK(rooms[r]) /\ RoomOK(room) /\ RoomOK(shared)
               /\ room.users = rooms[r].users /\ room.owners = rooms[r].owners
               /\ room.streaming = rooms[r].streaming \cup {c}
               /\ room.sessions = rooms[r].sessions
               /\ room.mode = rooms[r].mode
               /\ room.closeOnOwnerLeave = rooms[r].closeOnOwnerLeave
               /\ new \subseteq Session /\ IsFiniteSet(new)
               /\ shared.users = rooms[r].users /\ shared.owners = rooms[r].owners
               /\ shared.streaming = rooms[r].streaming \cup {c}
               /\ shared.sessions = rooms[r].sessions \cup new
               /\ shared.mode = rooms[r].mode
               /\ shared.closeOnOwnerLeave = rooms[r].closeOnOwnerLeave
               /\ Info(shared) = Info(room)
<1> DEFINE r == connected[c]
           room == [rooms[r] EXCEPT !.streaming = @ \cup {c}]
           new == ToEveryone(room, c)
           shared == [room EXCEPT !.sessions = @ \cup new]
<1>1. /\ r \in DOMAIN rooms /\ r \in RoomIDs /\ c \in rooms[r].users
      /\ RoomOK(rooms[r]) /\ IsUser(connected, rooms, c)
  BY OwnRoom
<1>2. /\ room.users = rooms[r].users /\ room.owners = rooms[r].owners
      /\ room.streaming = rooms[r].streaming \cup {c}
      /\ room.sessions = rooms[r].sessions
      /\ room.mode = rooms[r].mode
      /\ room.closeOnOwnerLeave = rooms[r].closeOnOwnerLeave
      /\ RoomOK(room)
  BY <1>1 DEF RoomOK, Room
<1>3. PICK H \in SUBSET Clients, C \in SUBSET Clients :
         H = {c} /\ C = room.users \ {c}
  BY <1>2 DEF RoomOK, Room
<1>4. new \subseteq Session /\ IsFiniteSet(new)
  BY <1>3, NewSessionsType DEF Core
<1> HIDE DEF new
<1>5. /\ shared.users = room.users /\ shared.owners = room.owners
      /\ shared.streaming = room.streaming
      /\ shared.sessions = room.sessions \cup new
      /\ shared.mode = room.mode /\ shared.names = room.names
      /\ shared.closeOnOwnerLeave = room.closeOnOwnerLeave
  BY <1>2 DEF RoomOK, Room
<1>6. RoomOK(shared)
  <2>1. IsFiniteSet(room.sessions \cup new)
    BY <1>2, <1>4, FS_Union DEF RoomOK
  <2>2. QED
    BY <1>2, <1>4, <2>1 DEF RoomOK, Room
<1>7. Info(shared) = Info(room)
  BY <1>5 DEF Info
<1>8. QED
  <2> HIDE DEF room, shared
  <2>1. /\ RoomOK(room) /\ RoomOK(shared)
        /\ new \subseteq Session /\ IsFiniteSet(new)
    BY <1>2, <1>4, <1>6
  <2>2. QED
    BY <1>1, <1>2, <1>5, <1>7, <2>1 DEF room, new, shared

LEMMA StartShareKeeps ==
    ASSUME Empty \notin RoomIDs, Core, NEW c \in Clients, NEW ipFails \in BOOLEAN,
           StartShare(c, ipFails)
    PROVE  Core'
<1> DEFINE r == connected[c]
           room == [rooms[r] EXCEPT !.streaming = @ \cup {c}]
           new == ToEveryone(room, c)
           shared == [room EXCEPT !.sessions = @ \cup new]
<1>1. CASE Fail(c)
  BY <1>1, FailKeeps DEF StartShare
<1>2. ASSUME HasRoom(c)
      PROVE  /\ r \in DOMAIN rooms /\ r \in RoomIDs /\ c \in rooms[r].users
             /\ RoomOK(room) /\ RoomOK(shared)
             /\ room.users = rooms[r].users
             /\ room.streaming = rooms[r].streaming \cup {c}
             /\ room.sessions = rooms[r].sessions
             /\ IsUser(connected, rooms, c)
             /\ new \subseteq Session /\ IsFiniteSet(new)
             /\ shared.users = rooms[r].users
             /\ shared.streaming = rooms[r].streaming \cup {c}
             /\ shared.sessions = rooms[r].sessions \cup new
  BY <1>2, SharedFacts DEF StartShare
<1>3. CASE /\ HasRoom(c)
           /\ executeNoError(connected, Put(rooms, r, room), usersJoined, c)
  <2> DEFINE rms == Put(rooms, r, room)
  <2>1. /\ DOMAIN rms = DOMAIN rooms
        /\ rms[r] = room
        /\ \A q \in DOMAIN rooms \ {r} : rms[q] = rooms[q]
    BY <1>2, <1>3 DEF Put
  <2>2. executeNoError(connected, rms, usersJoined, c)
    BY <1>3
  <2> HIDE DEF rms, room
  <2>3. MapsOK(connected, rms) /\ AgreeOn(connected, rms)
    <3>1. MapsOK(connected, rms)
      BY <1>2, <1>3, <2>1 DEF Core, MapsOK
    <3>2. AgreeOn(connected, rms)
      BY <1>2, <1>3, <2>1 DEF Core, AgreeOn
    <3>3. QED
      BY <3>1, <3>2
  <2>4. SoundOn(rms)
    BY <1>2, <1>3, <2>1 DEF Core, SoundOn
  <2>5. SharesBut(rms, {c})
    BY <1>2, <1>3, <2>1 DEF Core, SharesBut
  <2>6. IsUser(connected, rms, c)
    BY <1>2, <1>3, <2>1 DEF IsUser
  <2>7. QED
    BY <2>2, <2>3, <2>4, <2>5, <2>6, ExecuteKeeps
       DEF Core, OthersOK, StartShare, Accepts
<1>4. CASE /\ HasRoom(c)
           /\ newSessions(r, room, new)
           /\ UNCHANGED <<connected, usersJoined>>
  <2>1. new \subseteq Session /\ IsFiniteSet(new)
    BY <1>2, <1>4
  <2>2. /\ rooms' = Put(rooms, r, shared)
        /\ shared.users = rooms[r].users
        /\ shared.streaming = rooms[r].streaming \cup {c}
        /\ shared.sessions = rooms[r].sessions \cup new
    BY <1>2, <1>4 DEF newSessions
  <2>3. RoomOK(shared)
    BY <1>2, <1>4
  <2>4. \A s \in shared.sessions : /\ s.host \in shared.streaming
                                   /\ s.client \in shared.users \ {s.host}
    BY <1>2, <1>4, <2>2 DEF Core, SoundOn
  <2>5. \A h \in shared.streaming : \A x \in shared.users \ {h} :
           \E s \in shared.sessions : s.host = h /\ s.client = x
    <3>1. ASSUME NEW x \in shared.users \ {c}
          PROVE  \E s \in shared.sessions : s.host = c /\ s.client = x
      <4>1. [host |-> c, client |-> x, batch |-> batch + 1] \in new
        BY <1>2, <1>4, <2>2
      <4> HIDE DEF shared, new
      <4>2. [host |-> c, client |-> x, batch |-> batch + 1] \in shared.sessions
        BY <2>2, <4>1
      <4>3. QED
        BY <4>2
    <3>2. ASSUME NEW h \in shared.streaming \ {c}, NEW x \in shared.users \ {h}
          PROVE  \E s \in shared.sessions : s.host = h /\ s.client = x
      BY <1>2, <1>4, <2>2, <3>2 DEF Core, SharesBut
    <3>3. QED
      BY <3>1, <3>2
  <2>6. OthersOK'
    <3> HIDE DEF room, new
    <3>1. QED
      BY <1>4, <2>1, NewSessionsOthers DEF Core, OthersOK
  <2>7. QED
    <3> HIDE DEF shared, new, room
    <3>1. QED
      BY <1>2, <1>4, <2>2, <2>3, <2>4, <2>5, <2>6, ChangeRoom
<1>5. QED
  BY <1>1, <1>3, <1>4 DEF StartShare

LEMMA StopShareKeeps ==
    ASSUME Empty \notin RoomIDs, Core, NEW c \in Clients, StopShare(c)
    PROVE  Core'
<1> DEFINE r == connected[c]
           ended == HostedBy(rooms[r], c)
           room == [rooms[r] EXCEPT !.streaming = @ \ {c}, !.sessions = @ \ ended]
<1>1. CASE Fail(c)
  BY <1>1, FailKeeps DEF StopShare
<1>2. CASE HasRoom(c) /\ ~Fail(c)
  <2>1. /\ r \in DOMAIN rooms /\ c \in rooms[r].users /\ RoomOK(rooms[r])
        /\ rooms' = Put(rooms, r, room) /\ connected' = connected
    BY <1>2, OwnRoom DEF StopShare
  <2>2. /\ room.users = rooms[r].users
        /\ room.streaming = rooms[r].streaming \ {c}
        /\ room.sessions = rooms[r].sessions \ ended
    BY <2>1 DEF RoomOK, Room
  <2>3. RoomOK(room)
    BY <2>1, <2>2, FS_Subset DEF RoomOK, Room
  <2>4. \A s \in room.sessions : /\ s.host \in room.streaming
                                 /\ s.client \in room.users \ {s.host}
    BY <2>1, <2>2 DEF Core, SoundOn
  <2>5. \A h \in room.streaming : \A x \in room.users \ {h} :
           \E s \in room.sessions : s.host = h /\ s.client = x
    BY <2>1, <2>2 DEF Core, SharesBut
  <2>6. OthersOK'
    <3>1. ended \in SUBSET rooms[r].sessions /\ IsFiniteSet(ended)
      BY <2>1, FS_Subset DEF RoomOK
    <3>2. Cardinality(ended) \in Nat
      BY <3>1, FS_CardinalityType
    <3> HIDE DEF ended
    <3>3. sessionsClosed' \in Nat
      BY <1>2, <3>2 DEF StopShare, Core, OthersOK, ended
    <3>4. /\ open' \in [Clients -> SUBSET Session]
          /\ allowed' \subseteq Logins(Session)
      BY <1>2 DEF StopShare, Core, OthersOK
    <3>5. QED
      BY <1>2, <3>3, <3>4 DEF StopShare, Core, OthersOK
  <2> HIDE DEF room
  <2>7. QED
    BY <2>1, <2>2, <2>3, <2>4, <2>5, <2>6, ChangeRoom
<1>3. QED
  BY <1>1, <1>2 DEF StopShare

LEMMA NameKeeps ==
    ASSUME Empty \notin RoomIDs, Core, NEW c \in Clients, NEW name \in Names,
           Name(c, name)
    PROVE  Core'
<1> DEFINE r == connected[c]
           n == [rooms[r].names EXCEPT ![c] = name]
           room == [rooms[r] EXCEPT !.names = n]
<1>1. CASE Fail(c)
  BY <1>1, FailKeeps DEF Name
<1>2. CASE HasRoom(c) /\ ~Fail(c)
  <2>1. /\ r \in DOMAIN rooms /\ c \in rooms[r].users /\ RoomOK(rooms[r])
        /\ rooms' = Put(rooms, r, room) /\ connected' = connected
    BY <1>2, OwnRoom DEF Name
  <2>2. n \in [rooms[r].users -> Names] /\ rooms[r].users \in SUBSET Clients
    BY <2>1 DEF RoomOK, Room
  <2> HIDE DEF n
  <2>3. /\ room.users = rooms[r].users
        /\ room.streaming = rooms[r].streaming
        /\ room.sessions = rooms[r].sessions
    BY <2>1 DEF RoomOK, Room
  <2>4. RoomOK(room)
    <3>1. n \in UNION {[U -> Names] : U \in SUBSET Clients}
      BY <2>2
    <3>2. QED
      BY <2>1, <2>2, <3>1 DEF RoomOK, Room
  <2>5. /\ \A s \in room.sessions : /\ s.host \in room.streaming
                                    /\ s.client \in room.users \ {s.host}
        /\ \A h \in room.streaming : \A x \in room.users \ {h} :
              \E s \in room.sessions : s.host = h /\ s.client = x
    BY <2>1, <2>3 DEF Core, SoundOn, SharesBut
  <2>6. OthersOK'
    BY <1>2 DEF Name, Core, OthersOK, counters
  <2> HIDE DEF room
  <2>7. QED
    BY <2>1, <2>3, <2>4, <2>5, <2>6, ChangeRoom
<1>3. QED
  BY <1>1, <1>2 DEF Name

LEMMA RelayKeeps ==
    ASSUME Empty \notin RoomIDs, Core, NEW c \in Clients, NEW s, NEW from,
           Relay(c, s, from)
    PROVE  Core'
<1>1. CASE Fail(c)
  BY <1>1, FailKeeps DEF Relay
<1>2. CASE UNCHANGED vars
  BY <1>2 DEF vars, counters, Core, OthersOK
<1>3. QED
  BY <1>1, <1>2 DEF Relay

LEMMA CoreInductive ==
    ASSUME Empty \notin RoomIDs
    PROVE  /\ Init => Core
           /\ Core /\ [Next]_vars => Core'
<1>1. Init => Core
  <2> SUFFICES ASSUME Init PROVE Core
    OBVIOUS
  <2>1. /\ connected \in [{} -> Places] /\ DOMAIN connected = {}
        /\ DOMAIN rooms = {}
    BY DEF Init
  <2>2. connected \in PartialFunctions(Clients, Places)
    BY <2>1 DEF PartialFunctions
  <2>3. OthersOK
    BY <2>1 DEF Init, OthersOK
  <2>4. QED
    BY <2>1, <2>2, <2>3 DEF Core, MapsOK, AgreeOn, SoundOn, SharesBut
<1>2. Core /\ [Next]_vars => Core'
  <2> SUFFICES ASSUME Core, [Next]_vars PROVE Core'
    OBVIOUS
  <2>1. CASE UNCHANGED vars
    BY <2>1 DEF vars, counters, Core, OthersOK
  <2>2. ASSUME NEW c \in Clients, Connected(c) PROVE Core'
    BY <2>2, ConnectedKeeps
  <2>3. ASSUME NEW c \in Clients, Disconnected(c) PROVE Core'
    BY <2>3, FailKeeps DEF Disconnected
  <2>4. ASSUME NEW c \in Clients, NEW id \in RoomIDs, NEW name \in Names,
               NEW ipFails \in BOOLEAN, Join(c, id, name, ipFails)
        PROVE  Core'
    BY <2>4, JoinRoomKeeps DEF Join
  <2>5. ASSUME NEW c \in Clients, NEW id \in RoomIDs, NEW name \in Names,
               NEW ipFails \in BOOLEAN, NEW mode \in Modes,
               NEW close \in BOOLEAN, NEW join \in BOOLEAN,
               Create(c, id, mode, close, join, name, ipFails)
        PROVE  Core'
    BY <2>5, CreateKeeps
  <2>6. ASSUME NEW c \in Clients, NEW ipFails \in BOOLEAN, StartShare(c, ipFails)
        PROVE  Core'
    BY <2>6, StartShareKeeps
  <2>7. ASSUME NEW c \in Clients, StopShare(c) PROVE Core'
    BY <2>7, StopShareKeeps
  <2>8. ASSUME NEW c \in Clients, NEW name \in Names, Name(c, name) PROVE Core'
    BY <2>8, NameKeeps
  <2>9. ASSUME NEW c \in Clients, NEW s \in Nameable,
               \/ HostOffer(c, s) \/ HostICE(c, s)
               \/ ClientAnswer(c, s) \/ ClientICE(c, s)
        PROVE  Core'
    BY <2>9, RelayKeeps DEF HostOffer, HostICE, ClientAnswer, ClientICE
  <2>10. QED
    BY <2>1, <2>2, <2>3, <2>4, <2>5, <2>6, <2>7, <2>8, <2>9 DEF Next
<1>3. QED
  BY <1>1, <1>2

LEMMA CoreAlways ==
    ASSUME Empty \notin RoomIDs
    PROVE  Spec => []Core
<1>1. /\ Init => Core
      /\ Core /\ [Next]_vars => Core'
  BY CoreInductive
<1>2. QED
  BY <1>1, PTL DEF Spec

\* Every variable keeps its type in every run of the main loop, whatever the
\* clients send and whenever the IP provider fails.
THEOREM TypeCorrect == Empty \notin RoomIDs => (Spec => []TypeOK)
<1> SUFFICES ASSUME Empty \notin RoomIDs PROVE Spec => []TypeOK
  OBVIOUS
<1>1. Core => TypeOK
  BY CoreMeaning
<1>2. QED
  BY <1>1, CoreAlways, PTL

\* connected and the Users maps of the rooms agree: no handler dereferences a
\* user that is not there, and no room keeps a user whose connection is gone.
THEOREM MapsAgree == Empty \notin RoomIDs => (Spec => []Agree)
<1> SUFFICES ASSUME Empty \notin RoomIDs PROVE Spec => []Agree
  OBVIOUS
<1>1. Core => Agree
  BY CoreMeaning
<1>2. QED
  BY <1>1, CoreAlways, PTL

\* Both ends of every session are in its room and its host is streaming: the
\* relay handlers never dereference a missing end.
THEOREM EndsPresent == Empty \notin RoomIDs => (Spec => []SessionsSound)
<1> SUFFICES ASSUME Empty \notin RoomIDs PROVE Spec => []SessionsSound
  OBVIOUS
<1>1. Core => SessionsSound
  BY CoreMeaning
<1>2. QED
  BY <1>1, CoreAlways, PTL

\* Whoever shares has a session to every other user of the room, in whatever
\* order they joined, shared, stopped, failed and left.
THEOREM SharesReachAll == Empty \notin RoomIDs => (Spec => []SharesComplete)
<1> SUFFICES ASSUME Empty \notin RoomIDs PROVE Spec => []SharesComplete
  OBVIOUS
<1>1. Core => SharesComplete
  BY CoreMeaning
<1>2. QED
  BY <1>1, CoreAlways, PTL

-------------------------------------------------------------------------------
(* What the main loop promises beside its own maps: the TURN table, what       *)
(* clients know of sessions and users, which connections were closed, and the  *)
(* mesh.  Every part holds because of Core: a client is in one room, so what   *)
(* ends in one room is nobody else's.                                          *)

Live(rms, s) == \E r \in DOMAIN rms : s \in rms[r].sessions

\* TurnExact, for one login; SessionsKnown, for one session, also of clients
\* that are gone; RoomsOccupied; ToldTruth in the rooms R; ClosedOnce.
TurnOn(rms, lookup) ==
    \A s \in Session, end \in {"host", "client"} :
        <<s, end>> \in lookup <=>
            \E r \in DOMAIN rms : rms[r].mode = "turn" /\ s \in rms[r].sessions
KnownOn(rms, known) ==
    \A c \in Clients, s \in Session :
        s \in known[c] <=> c \in {s.host, s.client} /\ Live(rms, s)
OccupiedOn(rms) ==
    \A r \in DOMAIN rms :
        /\ rms[r].users # {}
        /\ rms[r].closeOnOwnerLeave => rms[r].owners # {}
ToldOn(rms, R, last) ==
    /\ DOMAIN last = Clients
    /\ \A r \in R : \A c \in rms[r].users : last[c] = Info(rms[r])
ClosedOn(conn, sent) ==
    \A c \in Clients :
        sent[c] = IF c \in upgraded /\ c \notin DOMAIN conn THEN 1 ELSE 0

Promises ==
    /\ TurnOn(rooms, allowed)
    /\ KnownOn(rooms, open)
    /\ OccupiedOn(rooms)
    /\ ToldOn(rooms, DOMAIN rooms, told)
    /\ ClosedOn(connected, closeSent)

\* The rooms and connections after c has left its room.
LEMMA LeaveRoomShape ==
    ASSUME NEW c \in Clients, NEW conn, NEW rms,
           MapsOK(conn, rms), AgreeOn(conn, rms), SoundOn(rms),
           LeaveRoom(conn, rms, c), c \in DOMAIN conn,
           NEW r, r = conn[c], NEW room, room = rms[r]
    PROVE  /\ r \in DOMAIN rms /\ c \in room.users /\ RoomOK(room)
           /\ DOMAIN connected' = DOMAIN conn \ Leaving(room, c)
           /\ c \in Leaving(room, c) /\ Leaving(room, c) \subseteq room.users
           /\ Closes(room, c) => /\ Leaving(room, c) = room.users
                                 /\ DOMAIN rooms' = DOMAIN rms \ {r}
           /\ ~Closes(room, c) => /\ Leaving(room, c) = {c}
                                  /\ DOMAIN rooms' = DOMAIN rms
                                  /\ rooms'[r] = Rest(room, c)
           /\ \A q \in DOMAIN rms \ {r} : /\ rooms'[q] = rms[q]
                                          /\ rms[q].users \cap room.users = {}
<1>1. r \in DOMAIN rms /\ c \in room.users /\ RoomOK(room)
  BY DEF LeaveRoom, IsUser, MapsOK
<1>2. /\ connected' = Without(conn, Leaving(room, c))
      /\ rooms' = IF Closes(room, c) THEN Without(rms, {r})
                                     ELSE Put(rms, r, Rest(room, c))
  BY DEF LeaveRoom
<1>3. \A q \in DOMAIN rms \ {r} : rms[q].users \cap room.users = {}
  BY <1>1 DEF AgreeOn
<1>4. CASE Closes(room, c)
  BY <1>1, <1>2, <1>3, <1>4 DEF Without
<1>5. CASE ~Closes(room, c)
  BY <1>1, <1>2, <1>3, <1>5 DEF Without, Put
<1>6. QED
  BY <1>4, <1>5

LEMMA LeaveRoomPromises ==
    ASSUME NEW c \in Clients, NEW conn, NEW rms, OthersOK,
           MapsOK(conn, rms), AgreeOn(conn, rms), SoundOn(rms),
           LeaveRoom(conn, rms, c), c \in DOMAIN conn,
           DOMAIN conn = DOMAIN connected, UNCHANGED upgraded,
           TurnOn(rms, allowed), KnownOn(rms, open), OccupiedOn(rms),
           ToldOn(rms, DOMAIN rms \ {conn[c]}, told),
           ClosedOn(connected, closeSent)
    PROVE  Promises'
<1> DEFINE r == conn[c]
           room == rms[r]
           ended == IF Closes(room, c) THEN room.sessions ELSE SessionsOf(room, c)
<1>1. /\ r \in DOMAIN rms /\ c \in room.users /\ RoomOK(room)
      /\ DOMAIN connected' = DOMAIN conn \ Leaving(room, c)
      /\ c \in Leaving(room, c) /\ Leaving(room, c) \subseteq room.users
      /\ Closes(room, c) => /\ Leaving(room, c) = room.users
                            /\ DOMAIN rooms' = DOMAIN rms \ {r}
      /\ ~Closes(room, c) => /\ Leaving(room, c) = {c}
                             /\ DOMAIN rooms' = DOMAIN rms
                             /\ rooms'[r] = Rest(room, c)
      /\ \A q \in DOMAIN rms \ {r} : /\ rooms'[q] = rms[q]
                                     /\ rms[q].users \cap room.users = {}
  BY LeaveRoomShape
<1>2. /\ Rest(room, c).sessions = room.sessions \ SessionsOf(room, c)
      /\ Rest(room, c).users = room.users \ {c}
      /\ Rest(room, c).owners = room.owners \ {c}
      /\ Rest(room, c).mode = room.mode
      /\ Rest(room, c).closeOnOwnerLeave = room.closeOnOwnerLeave
  BY <1>1 DEF RoomOK, Room
<1>3. /\ allowed' = IF room.mode = "turn" THEN allowed \ Logins(ended) ELSE allowed
      /\ closeSent' = CloseWriters(Leaving(room, c))
      /\ told' = [x \in Clients |->
                    IF x \in Leaving(room, c) THEN NoInfo
                    ELSE (IF Closes(room, c) THEN told
                          ELSE notifyInfoChanged(Rest(room, c), told))[x]]
      /\ open' = [x \in Clients |-> IF x \in Leaving(room, c) THEN {}
                                    ELSE open[x] \ SessionsOf(room, c)]
  BY DEF LeaveRoom
<1>4. /\ ended \subseteq room.sessions /\ room.sessions \subseteq Session
      /\ \A s \in room.sessions : s.host \in room.users /\ s.client \in room.users
      /\ \A q \in DOMAIN rms \ {r} : /\ rms[q].sessions \cap room.sessions = {}
                                     /\ \A s \in rms[q].sessions :
                                           {s.host, s.client} \cap room.users = {}
  <2>1. \A q \in DOMAIN rms : \A s \in rms[q].sessions :
           s.host \in rms[q].users /\ s.client \in rms[q].users
    BY DEF SoundOn, MapsOK, RoomOK
  <2>2. QED
    BY <1>1, <2>1 DEF RoomOK, Room, SessionsOf
\* The sessions and the modes of the rooms that are left.
<1>5. ASSUME NEW s \in Session
      PROVE  /\ Live(rooms', s) <=> Live(rms, s) /\ s \notin ended
             /\ (\E q \in DOMAIN rooms' : rooms'[q].mode = "turn" /\ s \in rooms'[q].sessions)
                  <=> /\ \E q \in DOMAIN rms : rms[q].mode = "turn" /\ s \in rms[q].sessions
                      /\ s \notin ended
  <2> DEFINE rest == Rest(room, c)
  <2>1. /\ ~Closes(room, c) => /\ rest.sessions = room.sessions \ ended
                               /\ rest.mode = room.mode
        /\ Closes(room, c) => ended = room.sessions
    BY <1>2 DEF ended
  <2>2. room = rms[r]
    OBVIOUS
  <2> HIDE DEF ended, room, r, rest
  <2>3. CASE Closes(room, c)
    BY <1>1, <1>4, <2>1, <2>2, <2>3 DEF Live
  <2>4. CASE ~Closes(room, c)
    <3>1. rooms'[r] = rest
      BY <1>1, <2>4 DEF rest
    <3>2. /\ rooms'[r].mode = rms[r].mode
          /\ s \in rooms'[r].sessions <=> s \in rms[r].sessions /\ s \notin ended
      BY <2>1, <2>2, <2>4, <3>1
    <3>3. \A q \in DOMAIN rms \ {r} :
             /\ rooms'[q].mode = rms[q].mode
             /\ s \in rooms'[q].sessions <=> s \in rms[q].sessions /\ s \notin ended
      BY <1>1, <1>4
    <3>4. \A q \in DOMAIN rms :
             /\ rooms'[q].mode = rms[q].mode
             /\ s \in rooms'[q].sessions <=> s \in rms[q].sessions /\ s \notin ended
      BY <3>2, <3>3
    <3>5. DOMAIN rooms' = DOMAIN rms
      BY <1>1, <2>4
    <3>6. QED
      BY <3>4, <3>5 DEF Live
  <2>5. QED
    BY <2>3, <2>4
<1> HIDE DEF ended, room, r
<1>6. TurnOn(rooms', allowed')
  <2>1. ASSUME NEW s \in Session, NEW end \in {"host", "client"}
        PROVE  <<s, end>> \in allowed' <=>
                 \E q \in DOMAIN rooms' : rooms'[q].mode = "turn" /\ s \in rooms'[q].sessions
    <3>1. <<s, end>> \in Logins(ended) <=> s \in ended
      BY DEF Logins
    <3>2. s \in ended /\ room.mode # "turn" =>
            ~ \E q \in DOMAIN rms : rms[q].mode = "turn" /\ s \in rms[q].sessions
      BY <1>1, <1>4 DEF room
    <3>3. <<s, end>> \in allowed <=>
             \E q \in DOMAIN rms : rms[q].mode = "turn" /\ s \in rms[q].sessions
      BY DEF TurnOn
    <3>4. QED
      BY <1>3, <1>5, <3>1, <3>2, <3>3
  <2>2. QED
    BY <2>1 DEF TurnOn
<1>7. KnownOn(rooms', open')
  <2>1. ASSUME NEW x \in Clients, NEW s \in Session
        PROVE  s \in open'[x] <=> x \in {s.host, s.client} /\ Live(rooms', s)
    <3>1. s \in open[x] <=> x \in {s.host, s.client} /\ Live(rms, s)
      BY DEF KnownOn
    <3>2. Live(rms, s) /\ s \notin ended /\ x \in {s.host, s.client}
            => x \notin Leaving(room, c)
      BY <1>1, <1>4, <1>2 DEF Live, ended, SessionsOf, room
    <3>3. x \notin Leaving(room, c) /\ s \in ended /\ x \in {s.host, s.client}
            => s \in SessionsOf(room, c)
      BY <1>1, <1>4 DEF ended
    <3>4. s \in SessionsOf(room, c) => s \in ended
      BY DEF ended, SessionsOf
    <3>5. QED
      BY <1>3, <1>5, <3>1, <3>2, <3>3, <3>4
  <2>2. QED
    BY <2>1 DEF KnownOn
<1>8. OccupiedOn(rooms')
  <2>1. ASSUME ~Closes(room, c)
        PROVE  /\ Rest(room, c).users # {}
               /\ Rest(room, c).closeOnOwnerLeave => Rest(room, c).owners # {}
    BY <1>1, <1>2, <2>1 DEF OccupiedOn, room
  <2>2. QED
    BY <1>1, <2>1 DEF OccupiedOn
<1>9. ToldOn(rooms', DOMAIN rooms', told')
  <2>1. ASSUME NEW q \in DOMAIN rooms', NEW x \in rooms'[q].users
        PROVE  told'[x] = Info(rooms'[q])
    <3>1. CASE q = r
      <4>1. /\ ~Closes(room, c) /\ rooms'[q] = Rest(room, c)
            /\ x \notin Leaving(room, c) /\ x \in Clients
        BY <1>1, <1>2, <2>1, <3>1 DEF RoomOK, Room
      <4>2. QED
        BY <1>3, <2>1, <4>1 DEF notifyInfoChanged
    <3>2. CASE q # r
      <4>1. /\ q \in DOMAIN rms \ {r} /\ rooms'[q] = rms[q]
            /\ x \notin room.users /\ x \in Clients
        BY <1>1, <2>1, <3>2 DEF MapsOK, RoomOK, Room
      <4>2. told[x] = Info(rms[q])
        BY <2>1, <4>1 DEF ToldOn, r
      <4>3. x \notin Leaving(room, c) /\ x \notin Rest(room, c).users
        BY <1>1, <1>2, <4>1
      <4>4. QED
        BY <1>3, <4>1, <4>2, <4>3 DEF notifyInfoChanged
    <3>3. QED
      BY <3>1, <3>2
  <2>2. QED
    BY <1>3, <2>1 DEF ToldOn
<1>10. ClosedOn(connected, closeSent)'
  <2>1. Leaving(room, c) \subseteq DOMAIN conn
    BY <1>1 DEF AgreeOn, room
  <2>2. DOMAIN connected \subseteq upgraded
    BY DEF OthersOK
  <2>3. QED
    BY <1>1, <1>3, <2>1, <2>2 DEF ClosedOn
<1>11. QED
  BY <1>6, <1>7, <1>8, <1>9, <1>10 DEF Promises

LEMMA ExecutePromises ==
    ASSUME Empty \notin RoomIDs,
           NEW c \in Clients, NEW conn, NEW rms, NEW joined, OthersOK,
           MapsOK(conn, rms), AgreeOn(conn, rms), SoundOn(rms),
           c \in DOMAIN conn, DOMAIN conn = DOMAIN connected,
           TurnOn(rms, allowed), KnownOn(rms, open), OccupiedOn(rms),
           ToldOn(rms, DOMAIN rms \ {conn[c]}, told),
           ClosedOn(connected, closeSent),
           executeNoError(conn, rms, joined, c)
    PROVE  Promises'
<1>1. CASE LeaveRoom(conn, rms, c)
  BY <1>1, LeaveRoomPromises DEF executeNoError
<1>2. CASE LeaveNoRoom(conn, rms, c)
  <2>1. /\ connected' = Without(conn, {c})
        /\ rooms' = rms
        /\ closeSent' = CloseWriters({c})
        /\ told' = [told EXCEPT ![c] = NoInfo]
        /\ open' = [open EXCEPT ![c] = {}]
        /\ allowed' = allowed /\ upgraded' = upgraded
    BY <1>2 DEF LeaveNoRoom, executeNoError
  <2>2. \A q \in DOMAIN rms : c \notin rms[q].users /\ q # conn[c]
    <3>1. ~IsUser(conn, rms, c)
      BY <1>2 DEF LeaveNoRoom
    <3>2. ASSUME NEW q \in DOMAIN rms PROVE c \notin rms[q].users /\ q # conn[c]
      BY <3>1, <3>2 DEF AgreeOn, IsUser, MapsOK
    <3>3. QED
      BY <3>2
  <2>3. \A q \in DOMAIN rms : \A s \in rms[q].sessions : c \notin {s.host, s.client}
    BY <2>2 DEF SoundOn, MapsOK, RoomOK
  <2>4. TurnOn(rooms', allowed') /\ OccupiedOn(rooms')
    BY <2>1
  <2>5. KnownOn(rooms', open')
    BY <2>1, <2>3 DEF KnownOn, Live, OthersOK
  <2>6. ToldOn(rooms', DOMAIN rooms', told')
    BY <2>1, <2>2 DEF ToldOn, MapsOK, RoomOK, Room
  <2>7. ClosedOn(connected, closeSent)'
    BY <2>1 DEF ClosedOn, OthersOK, Without
  <2>8. QED
    BY <2>4, <2>5, <2>6, <2>7 DEF Promises
<1>3. QED
  BY <1>1, <1>2 DEF executeNoError

LEMMA FailPromises ==
    ASSUME Empty \notin RoomIDs, Core, Promises, NEW c \in Clients,
           Accepts(c), Fail(c)
    PROVE  Promises'
<1>1. ToldOn(rooms, DOMAIN rooms \ {connected[c]}, told)
  BY DEF Promises, ToldOn
<1>2. QED
  BY <1>1, ExecutePromises DEF Core, Promises, Accepts, Fail

LEMMA ConnectedPromises ==
    ASSUME Core, Promises, NEW c \in Clients, Connected(c)
    PROVE  Promises'
<1>1. /\ UNCHANGED <<rooms, allowed, open, told, closeSent>>
      /\ upgraded' = upgraded \cup {c}
      /\ c \notin upgraded
      /\ DOMAIN connected' = DOMAIN connected \cup {c}
  BY DEF Connected, Put
<1>2. ClosedOn(connected, closeSent)'
  BY <1>1 DEF Promises, ClosedOn, Core, OthersOK
<1>3. QED
  BY <1>1, <1>2 DEF Promises

\* A handler that succeeds: it changes or makes room r, whose sessions were old,
\* ends the sessions ended, starts the sessions new, and tells everybody there.
Succeeds(r, room, old, ended, new) ==
    /\ r \in RoomIDs /\ RoomOK(room) /\ rooms' = Put(rooms, r, room)
    /\ UNCHANGED <<upgraded, closeSent>>
    /\ DOMAIN connected' = DOMAIN connected
    /\ IF r \in DOMAIN rooms
          THEN rooms[r].sessions = old /\ rooms[r].mode = room.mode
          ELSE old = {}
    /\ ended \in SUBSET Session /\ ended \subseteq old
    /\ new \in SUBSET Session /\ ended \cap new = {}
    /\ room.sessions = (old \ ended) \cup new
    /\ room.users # {} /\ (room.closeOnOwnerLeave => room.owners # {})
    /\ allowed' = IF room.mode = "turn"
                  THEN (allowed \ Logins(ended)) \cup Logins(new) ELSE allowed
    /\ \A x \in Clients :
          open'[x] = (open[x] \ ended) \cup {s \in new : x \in {s.host, s.client}}
    /\ told' = notifyInfoChanged(room, told)
    /\ \A q \in DOMAIN rooms \ {r} : rooms[q].users \cap room.users = {}

LEMMA PutPromises ==
    ASSUME Core, Promises, NEW r, NEW room, NEW old, NEW ended, NEW new,
           Succeeds(r, room, old, ended, new)
    PROVE  Promises'
<1> USE DEF Succeeds
<1>1. /\ DOMAIN rooms' = DOMAIN rooms \cup {r}
      /\ rooms'[r] = room
      /\ \A q \in DOMAIN rooms \ {r} : rooms'[q] = rooms[q]
  BY DEF Put
<1>2. \A q \in DOMAIN rooms \ {r} : rooms[q].sessions \cap old = {}
  BY DEF Core, SoundOn, AgreeOn, MapsOK, RoomOK
<1>3. ASSUME NEW s \in Session
      PROVE  /\ Live(rooms', s) <=> (Live(rooms, s) /\ s \notin ended) \/ s \in new
             /\ room.mode = "turn" =>
                  ((\E q \in DOMAIN rooms' : rooms'[q].mode = "turn" /\ s \in rooms'[q].sessions)
                   <=> \/ /\ \E q \in DOMAIN rooms : rooms[q].mode = "turn" /\ s \in rooms[q].sessions
                          /\ s \notin ended
                       \/ s \in new)
             /\ room.mode # "turn" =>
                  ((\E q \in DOMAIN rooms' : rooms'[q].mode = "turn" /\ s \in rooms'[q].sessions)
                   <=> \E q \in DOMAIN rooms : rooms[q].mode = "turn" /\ s \in rooms[q].sessions)
  <2>1. CASE r \in DOMAIN rooms
    <3>1. /\ DOMAIN rooms' = DOMAIN rooms
          /\ rooms'[r].mode = rooms[r].mode
          /\ s \in rooms'[r].sessions <=>
               (s \in rooms[r].sessions /\ s \notin ended) \/ s \in new
          /\ \A q \in DOMAIN rooms \ {r} : /\ rooms'[q] = rooms[q]
                                           /\ s \in ended => s \notin rooms[q].sessions
      BY <1>1, <1>2, <2>1
    <3>2. QED
      BY <2>1, <1>1, <3>1 DEF Live
  <2>2. CASE r \notin DOMAIN rooms
    <3>1. ended = {} /\ room.sessions = new
      BY <2>2
    <3>2. QED
      BY <1>1, <2>2, <3>1 DEF Live
  <2>3. QED
    BY <2>1, <2>2
<1>4. TurnOn(rooms', allowed')
  <2>1. ASSUME NEW s \in Session, NEW end \in {"host", "client"}
        PROVE  <<s, end>> \in allowed' <=>
                 \E q \in DOMAIN rooms' : rooms'[q].mode = "turn" /\ s \in rooms'[q].sessions
    <3>1. /\ <<s, end>> \in Logins(ended) <=> s \in ended
          /\ <<s, end>> \in Logins(new) <=> s \in new
      BY DEF Logins
    <3>2. <<s, end>> \in allowed <=>
             \E q \in DOMAIN rooms : rooms[q].mode = "turn" /\ s \in rooms[q].sessions
      BY DEF Promises, TurnOn
    <3>3. CASE room.mode = "turn"
      <4>1. <<s, end>> \in allowed' <=>
               (<<s, end>> \in allowed /\ s \notin ended) \/ s \in new
        BY <3>1, <3>3
      <4>2. QED
        BY <1>3, <3>2, <3>3, <4>1
    <3>4. CASE room.mode # "turn"
      BY <1>3, <3>2, <3>4
    <3>5. QED
      BY <3>3, <3>4
  <2>2. QED
    BY <2>1 DEF TurnOn
<1>5. KnownOn(rooms', open')
  <2>1. ASSUME NEW x \in Clients, NEW s \in Session
        PROVE  s \in open'[x] <=> x \in {s.host, s.client} /\ Live(rooms', s)
    <3>1. s \in open[x] <=> x \in {s.host, s.client} /\ Live(rooms, s)
      BY DEF Promises, KnownOn
    <3>2. s \in open'[x] <=> \/ s \in open[x] /\ s \notin ended
                             \/ s \in new /\ x \in {s.host, s.client}
      OBVIOUS
    <3>3. QED
      BY <1>3, <3>1, <3>2
  <2>2. QED
    BY <2>1 DEF KnownOn
<1>6. OccupiedOn(rooms')
  BY <1>1 DEF OccupiedOn, Promises
<1>7. ToldOn(rooms', DOMAIN rooms', told')
  <2>1. ASSUME NEW q \in DOMAIN rooms', NEW x \in rooms'[q].users
        PROVE  told'[x] = Info(rooms'[q])
    <3>1. CASE q = r
      BY <1>1, <2>1, <3>1 DEF notifyInfoChanged, RoomOK, Room
    <3>2. CASE q # r
      <4>1. /\ q \in DOMAIN rooms /\ x \in rooms[q].users /\ rooms'[q] = rooms[q]
            /\ x \notin room.users /\ x \in Clients
        BY <1>1, <2>1, <3>2 DEF Core, MapsOK, RoomOK, Room
      <4>2. told[x] = Info(rooms[q])
        BY <4>1 DEF Promises, ToldOn
      <4>3. QED
        BY <4>1, <4>2 DEF notifyInfoChanged
    <3>3. QED
      BY <3>1, <3>2
  <2>2. QED
    BY <2>1 DEF ToldOn, notifyInfoChanged
<1>8. ClosedOn(connected, closeSent)'
  BY DEF Promises, ClosedOn
<1>9. QED
  BY <1>4, <1>5, <1>6, <1>7, <1>8 DEF Promises

LEMMA JoinRoomPromises ==
    ASSUME Empty \notin RoomIDs, Core, Promises, NEW c \in Clients,
           NEW id \in RoomIDs, NEW name \in Names, NEW ipFails \in BOOLEAN,
           Accepts(c), JoinRoom(c, id, name, ipFails)
    PROVE  Promises'
<1> DEFINE joined == Joined(rooms[id], c, name)
           new == ToNewUser(joined, c)
           room == [joined EXCEPT !.sessions = @ \cup new]
<1>1. CASE Fail(c)
  BY <1>1, FailPromises
<1>2. ASSUME connected[c] = Empty, id \in DOMAIN rooms
      PROVE  /\ RoomOK(joined) /\ RoomOK(room)
             /\ joined.users = rooms[id].users \cup {c}
             /\ joined.streaming = rooms[id].streaming \ {c}
             /\ joined.owners = rooms[id].owners \ {c}
             /\ joined.sessions = rooms[id].sessions
             /\ joined.mode = rooms[id].mode
             /\ joined.closeOnOwnerLeave = rooms[id].closeOnOwnerLeave
             /\ room.users = joined.users /\ room.streaming = joined.streaming
             /\ room.owners = joined.owners /\ room.mode = joined.mode
             /\ room.closeOnOwnerLeave = joined.closeOnOwnerLeave
             /\ Info(room) = Info(joined)
             /\ room.sessions = joined.sessions \cup new
             /\ new \subseteq Session /\ IsFiniteSet(new)
             /\ \A r \in DOMAIN rooms : c \notin rooms[r].users
  BY <1>2, JoinedFacts
<1>3. ASSUME connected[c] = Empty, id \in DOMAIN rooms
      PROVE  /\ joined.users # {}
             /\ joined.closeOnOwnerLeave => joined.owners # {}
             /\ \A q \in DOMAIN rooms \ {id} : rooms[q].users \cap joined.users = {}
  <2>1. rooms[id].owners \subseteq rooms[id].users
    BY <1>3 DEF Core, MapsOK, RoomOK
  <2>2. rooms[id].closeOnOwnerLeave => rooms[id].owners # {}
    BY <1>3 DEF Promises, OccupiedOn
  <2>3. \A q \in DOMAIN rooms \ {id} : rooms[q].users \cap rooms[id].users = {}
    BY <1>3 DEF Core, AgreeOn
  <2> HIDE DEF joined
  <2>4. QED
    BY <1>2, <1>3, <2>1, <2>2, <2>3
<1>4. CASE /\ connected[c] = Empty /\ id \in DOMAIN rooms
           /\ executeNoError(Put(connected, c, id), Put(rooms, id, joined),
                             usersJoined + 1, c)
  <2> DEFINE conn == Put(connected, c, id)
             rms == Put(rooms, id, joined)
  <2>1. /\ DOMAIN rms = DOMAIN rooms
        /\ rms[id] = joined
        /\ \A q \in DOMAIN rooms \ {id} : rms[q] = rooms[q]
    BY <1>4 DEF Put
  <2>2. DOMAIN conn = DOMAIN connected \cup {c} /\ conn[c] = id
    BY DEF Put
  <2>3. MapsOK(conn, rms) /\ AgreeOn(conn, rms)
    <3> HIDE DEF joined
    <3>1. QED
      BY <1>2, <1>4, EnterRoom DEF Core, Accepts
  <2>4. executeNoError(conn, rms, usersJoined + 1, c)
    BY <1>4
  <2> HIDE DEF conn, rms, joined
  <2>5. \A q \in DOMAIN rms : /\ rms[q].sessions = rooms[q].sessions
                              /\ rms[q].mode = rooms[q].mode
    BY <1>2, <1>4, <2>1
  <2>6. SoundOn(rms)
    BY <1>2, <1>4, <2>1 DEF Core, SoundOn, MapsOK, RoomOK
  <2>7. TurnOn(rms, allowed) /\ KnownOn(rms, open)
    BY <2>1, <2>5 DEF Promises, TurnOn, KnownOn, Live
  <2>8. OccupiedOn(rms)
    BY <1>3, <1>4, <2>1 DEF Promises, OccupiedOn
  <2>9. ToldOn(rms, DOMAIN rms \ {conn[c]}, told)
    BY <2>1, <2>2 DEF Promises, ToldOn
  <2>10. c \in DOMAIN conn /\ DOMAIN conn = DOMAIN connected
    BY <2>2 DEF Accepts
  <2>11. QED
    BY <2>3, <2>4, <2>6, <2>7, <2>8, <2>9, <2>10, ExecutePromises DEF Core, Promises
<1>5. CASE /\ connected[c] = Empty /\ id \in DOMAIN rooms
           /\ newSessions(id, joined, new)
           /\ told' = notifyInfoChanged(joined, told)
           /\ connected' = Put(connected, c, id)
  <2>1. /\ rooms' = Put(rooms, id, room)
        /\ allowed' = IF joined.mode = "turn" THEN allowed \cup Logins(new) ELSE allowed
        /\ open' = Announce(new)
        /\ UNCHANGED <<upgraded, closeSent>>
    BY <1>5 DEF newSessions
  <2>2. DOMAIN connected' = DOMAIN connected
    BY <1>5 DEF Put, Accepts
  <2> HIDE DEF joined, new, room
  <2>3. told' = notifyInfoChanged(room, told)
    BY <1>2, <1>5 DEF notifyInfoChanged
  <2>4. /\ allowed' = IF room.mode = "turn"
                      THEN (allowed \ Logins({})) \cup Logins(new) ELSE allowed
        /\ \A x \in Clients :
              open'[x] = (open[x] \ {}) \cup {s \in new : x \in {s.host, s.client}}
    BY <1>2, <1>5, <2>1 DEF Logins
  <2>5. room.sessions = (rooms[id].sessions \ {}) \cup new /\ new \in SUBSET Session
    BY <1>2, <1>5
  <2>6. /\ RoomOK(room) /\ rooms[id].mode = room.mode
        /\ room.users # {} /\ (room.closeOnOwnerLeave => room.owners # {})
        /\ \A q \in DOMAIN rooms \ {id} : rooms[q].users \cap room.users = {}
    BY <1>2, <1>3, <1>5
  <2>7. Succeeds(id, room, rooms[id].sessions, {}, new)
    BY <1>5, <2>1, <2>2, <2>3, <2>4, <2>5, <2>6 DEF Succeeds
  <2>8. QED
    BY <2>7, PutPromises
<1>6. QED
  BY <1>1, <1>4, <1>5 DEF JoinRoom

LEMMA CreatePromises ==
    ASSUME Empty \notin RoomIDs, Core, Promises, NEW c \in Clients,
           NEW id \in RoomIDs, NEW mode \in Modes, NEW close \in BOOLEAN,
           NEW join \in BOOLEAN, NEW name \in Names, NEW ipFails \in BOOLEAN,
           Create(c, id, mode, close, join, name, ipFails)
    PROVE  Promises'
<1> DEFINE room == NewRoom(c, mode, close, name)
<1>1. CASE JoinRoom(c, id, name, ipFails)
  BY <1>1, JoinRoomPromises DEF Create
<1>2. CASE Fail(c)
  BY <1>2, FailPromises DEF Create
<1>3. CASE /\ connected[c] = Empty /\ id \notin DOMAIN rooms
           /\ rooms' = Put(rooms, id, room)
           /\ told' = notifyInfoChanged(room, told)
           /\ connected' = Put(connected, c, id)
           /\ UNCHANGED <<upgraded, allowed, open, closeSent>>
  <2>1. RoomOK(room)
    <3>1. room.names \in [{c} -> Names] /\ {c} \in SUBSET Clients
      BY DEF NewRoom, Put
    <3>2. room \in Room
      BY <3>1 DEF NewRoom, Room
    <3>3. QED
      BY <3>1, <3>2, FS_EmptySet DEF RoomOK, NewRoom
  <2>2. /\ room.users = {c} /\ room.owners = {c} /\ room.sessions = {}
        /\ DOMAIN connected' = DOMAIN connected
    BY <1>3 DEF NewRoom, Put, Create, Accepts
  <2>3. \A q \in DOMAIN rooms \ {id} : rooms[q].users \cap {c} = {}
    BY <1>3 DEF Core, AgreeOn, MapsOK
  <2> HIDE DEF room
  <2>4. /\ allowed' = IF room.mode = "turn"
                      THEN (allowed \ Logins({})) \cup Logins({}) ELSE allowed
        /\ \A x \in Clients :
              open'[x] = (open[x] \ {}) \cup {s \in {} : x \in {s.host, s.client}}
    BY <1>3 DEF Logins
  <2>5. room.sessions = ({} \ {}) \cup {}
    BY <2>2
  <2>6. /\ room.users # {} /\ (room.closeOnOwnerLeave => room.owners # {})
        /\ \A q \in DOMAIN rooms \ {id} : rooms[q].users \cap room.users = {}
        /\ {} \in SUBSET Session
    BY <2>2, <2>3
  <2>7. Succeeds(id, room, {}, {}, {})
    BY <1>3, <2>1, <2>2, <2>4, <2>5, <2>6 DEF Succeeds
  <2>8. QED
    BY <2>7, PutPromises
<1>4. QED
  BY <1>1, <1>2, <1>3 DEF Create

\* The users of different rooms are different.
LEMMA RoomsApart ==
    ASSUME Core, NEW r \in DOMAIN rooms
    PROVE  \A q \in DOMAIN rooms \ {r} : rooms[q].users \cap rooms[r].users = {}
BY DEF Core, AgreeOn

LEMMA StartSharePromises ==
    ASSUME Empty \notin RoomIDs, Core, Promises, NEW c \in Clients,
           NEW ipFails \in BOOLEAN, StartShare(c, ipFails)
    PROVE  Promises'
<1> DEFINE r == connected[c]
           room == [rooms[r] EXCEPT !.streaming = @ \cup {c}]
           new == ToEveryone(room, c)
           shared == [room EXCEPT !.sessions = @ \cup new]
<1>1. CASE Fail(c)
  BY <1>1, FailPromises DEF StartShare
<1>2. ASSUME HasRoom(c)
      PROVE  /\ r \in DOMAIN rooms /\ r \in RoomIDs /\ c \in rooms[r].users
             /\ RoomOK(rooms[r]) /\ RoomOK(room) /\ RoomOK(shared)
             /\ room.users = rooms[r].users /\ room.owners = rooms[r].owners
             /\ room.streaming = rooms[r].streaming \cup {c}
             /\ room.sessions = rooms[r].sessions
             /\ room.mode = rooms[r].mode
             /\ room.closeOnOwnerLeave = rooms[r].closeOnOwnerLeave
             /\ new \subseteq Session
             /\ shared.users = rooms[r].users /\ shared.owners = rooms[r].owners
             /\ shared.sessions = rooms[r].sessions \cup new
             /\ shared.mode = rooms[r].mode
             /\ shared.closeOnOwnerLeave = rooms[r].closeOnOwnerLeave
             /\ Info(shared) = Info(room)
  BY <1>2, SharedFacts DEF StartShare
<1>3. CASE /\ HasRoom(c)
           /\ executeNoError(connected, Put(rooms, r, room), usersJoined, c)
  <2> DEFINE rms == Put(rooms, r, room)
  <2>1. /\ DOMAIN rms = DOMAIN rooms
        /\ rms[r] = room
        /\ \A q \in DOMAIN rooms \ {r} : rms[q] = rooms[q]
    BY <1>2, <1>3 DEF Put
  <2>2. executeNoError(connected, rms, usersJoined, c)
    BY <1>3
  <2> HIDE DEF rms, room
  <2>3. MapsOK(connected, rms)
    BY <1>2, <1>3, <2>1 DEF Core, MapsOK
  <2>4. AgreeOn(connected, rms)
    BY <1>2, <1>3, <2>1 DEF Core, AgreeOn
  <2>5. SoundOn(rms)
    BY <1>2, <1>3, <2>1 DEF Core, SoundOn
  <2>6. \A q \in DOMAIN rms : /\ rms[q].sessions = rooms[q].sessions
                              /\ rms[q].mode = rooms[q].mode
                              /\ rms[q].users = rooms[q].users
                              /\ rms[q].owners = rooms[q].owners
                              /\ rms[q].closeOnOwnerLeave = rooms[q].closeOnOwnerLeave
    BY <1>2, <1>3, <2>1
  <2>7. TurnOn(rms, allowed) /\ KnownOn(rms, open)
    BY <2>1, <2>6 DEF Promises, TurnOn, KnownOn, Live
  <2>8. OccupiedOn(rms)
    BY <2>1, <2>6 DEF Promises, OccupiedOn
  <2>9. ToldOn(rms, DOMAIN rms \ {connected[c]}, told)
    BY <2>1 DEF Promises, ToldOn
  <2>10. QED
    BY <2>2, <2>3, <2>4, <2>5, <2>7, <2>8, <2>9, ExecutePromises
       DEF Core, Promises, StartShare, Accepts
<1>4. CASE /\ HasRoom(c)
           /\ newSessions(r, room, new)
           /\ told' = notifyInfoChanged(room, told)
           /\ connected' = connected
  <2>1. /\ rooms' = Put(rooms, r, shared)
        /\ allowed' = IF room.mode = "turn" THEN allowed \cup Logins(new) ELSE allowed
        /\ open' = Announce(new)
        /\ UNCHANGED <<upgraded, closeSent>>
    BY <1>4 DEF newSessions
  <2> HIDE DEF room, new, shared
  <2>2. told' = notifyInfoChanged(shared, told)
    BY <1>2, <1>4 DEF notifyInfoChanged
  <2>3. /\ allowed' = IF shared.mode = "turn"
                      THEN (allowed \ Logins({})) \cup Logins(new) ELSE allowed
        /\ \A x \in Clients :
              open'[x] = (open[x] \ {}) \cup {s \in new : x \in {s.host, s.client}}
    BY <1>2, <1>4, <2>1 DEF Logins
  <2>4. shared.sessions = (rooms[r].sessions \ {}) \cup new /\ new \in SUBSET Session
    BY <1>2, <1>4
  <2>5. /\ RoomOK(shared) /\ rooms[r].mode = shared.mode
        /\ shared.users # {} /\ (shared.closeOnOwnerLeave => shared.owners # {})
        /\ \A q \in DOMAIN rooms \ {r} : rooms[q].users \cap shared.users = {}
    BY <1>2, <1>4, RoomsApart DEF Promises, OccupiedOn
  <2>6. Succeeds(r, shared, rooms[r].sessions, {}, new)
    BY <1>2, <1>4, <2>1, <2>2, <2>3, <2>4, <2>5 DEF Succeeds
  <2>7. QED
    BY <2>6, PutPromises
<1>5. QED
  BY <1>1, <1>3, <1>4 DEF StartShare

LEMMA StopSharePromises ==
    ASSUME Empty \notin RoomIDs, Core, Promises, NEW c \in Clients, StopShare(c)
    PROVE  Promises'
<1> DEFINE r == connected[c]
           ended == HostedBy(rooms[r], c)
           room == [rooms[r] EXCEPT !.streaming = @ \ {c}, !.sessions = @ \ ended]
<1>1. CASE Fail(c)
  BY <1>1, FailPromises DEF StopShare
<1>2. CASE HasRoom(c) /\ ~Fail(c)
  <2>1. /\ r \in DOMAIN rooms /\ r \in RoomIDs /\ RoomOK(rooms[r])
        /\ rooms' = Put(rooms, r, room) /\ connected' = connected
        /\ allowed' = closeSessions(room, ended)
        /\ open' = [u \in Clients |-> open[u] \ ended]
        /\ told' = notifyInfoChanged(room, told)
        /\ UNCHANGED <<upgraded, closeSent>>
    BY <1>2, OwnRoom DEF StopShare
  <2>2. /\ room.users = rooms[r].users /\ room.owners = rooms[r].owners
        /\ room.mode = rooms[r].mode
        /\ room.closeOnOwnerLeave = rooms[r].closeOnOwnerLeave
        /\ room.sessions = (rooms[r].sessions \ ended) \cup {}
        /\ ended \subseteq rooms[r].sessions /\ ended \in SUBSET Session
    BY <2>1 DEF RoomOK, Room
  <2>3. RoomOK(room)
    BY <2>1, <2>2, FS_Subset DEF RoomOK, Room
  <2> HIDE DEF room, ended
  <2>4. /\ allowed' = IF room.mode = "turn"
                      THEN (allowed \ Logins(ended)) \cup Logins({}) ELSE allowed
        /\ \A x \in Clients :
              open'[x] = (open[x] \ ended) \cup {s \in {} : x \in {s.host, s.client}}
    BY <2>1 DEF Logins
  <2>5. /\ room.users # {} /\ (room.closeOnOwnerLeave => room.owners # {})
        /\ \A q \in DOMAIN rooms \ {r} : rooms[q].users \cap room.users = {}
        /\ {} \in SUBSET Session
    BY <2>1, <2>2, RoomsApart DEF Promises, OccupiedOn
  <2>6. Succeeds(r, room, rooms[r].sessions, ended, {})
    BY <2>1, <2>2, <2>3, <2>4, <2>5 DEF Succeeds
  <2>7. QED
    BY <2>6, PutPromises
<1>3. QED
  BY <1>1, <1>2 DEF StopShare

LEMMA NamePromises ==
    ASSUME Empty \notin RoomIDs, Core, Promises, NEW c \in Clients,
           NEW name \in Names, Name(c, name)
    PROVE  Promises'
<1> DEFINE r == connected[c]
           n == [rooms[r].names EXCEPT ![c] = name]
           room == [rooms[r] EXCEPT !.names = n]
<1>1. CASE Fail(c)
  BY <1>1, FailPromises DEF Name
<1>2. CASE HasRoom(c) /\ ~Fail(c)
  <2>1. /\ r \in DOMAIN rooms /\ r \in RoomIDs /\ RoomOK(rooms[r])
        /\ rooms' = Put(rooms, r, room) /\ connected' = connected
        /\ told' = notifyInfoChanged(room, told)
        /\ UNCHANGED <<upgraded, allowed, open, closeSent>>
    BY <1>2, OwnRoom DEF Name
  <2>2. n \in [rooms[r].users -> Names] /\ rooms[r].users \in SUBSET Clients
    BY <2>1 DEF RoomOK, Room
  <2> HIDE DEF n
  <2>3. /\ room.users = rooms[r].users /\ room.owners = rooms[r].owners
        /\ room.mode = rooms[r].mode
        /\ room.closeOnOwnerLeave = rooms[r].closeOnOwnerLeave
        /\ room.sessions = (rooms[r].sessions \ {}) \cup {}
    BY <2>1 DEF RoomOK, Room
  <2>4. RoomOK(room)
    <3>1. n \in UNION {[U -> Names] : U \in SUBSET Clients}
      BY <2>2
    <3>2. QED
      BY <2>1, <2>2, <3>1 DEF RoomOK, Room
  <2> HIDE DEF room
  <2>5. /\ allowed' = IF room.mode = "turn"
                      THEN (allowed \ Logins({})) \cup Logins({}) ELSE allowed
        /\ \A x \in Clients :
              open'[x] = (open[x] \ {}) \cup {s \in {} : x \in {s.host, s.client}}
    BY <2>1 DEF Logins
  <2>6. /\ room.users # {} /\ (room.closeOnOwnerLeave => room.owners # {})
        /\ \A q \in DOMAIN rooms \ {r} : rooms[q].users \cap room.users = {}
        /\ {} \in SUBSET Session
    BY <2>1, <2>3, RoomsApart DEF Promises, OccupiedOn
  <2>7. Succeeds(r, room, rooms[r].sessions, {}, {})
    BY <2>1, <2>3, <2>4, <2>5, <2>6 DEF Succeeds
  <2>8. QED
    BY <2>7, PutPromises
<1>3. QED
  BY <1>1, <1>2 DEF Name

LEMMA RelayPromises ==
    ASSUME Empty \notin RoomIDs, Core, Promises, NEW c \in Clients, NEW s,
           NEW from, Relay(c, s, from)
    PROVE  Promises'
<1>1. CASE Fail(c)
  BY <1>1, FailPromises DEF Relay
<1>2. CASE UNCHANGED vars
  BY <1>2 DEF vars, Promises, TurnOn, KnownOn, Live, OccupiedOn, ToldOn, ClosedOn
<1>3. QED
  BY <1>1, <1>2 DEF Relay

LEMMA PromisesInductive ==
    ASSUME Empty \notin RoomIDs
    PROVE  /\ Init => Promises
           /\ Core /\ Promises /\ [Next]_vars => Promises'
<1>1. Init => Promises
  BY DEF Init, Promises, TurnOn, KnownOn, Live, OccupiedOn, ToldOn, ClosedOn
<1>2. Core /\ Promises /\ [Next]_vars => Promises'
  <2> SUFFICES ASSUME Core, Promises, [Next]_vars PROVE Promises'
    OBVIOUS
  <2>1. CASE UNCHANGED vars
    BY <2>1 DEF vars, Promises, TurnOn, KnownOn, Live, OccupiedOn, ToldOn, ClosedOn
  <2>2. ASSUME NEW c \in Clients, Connected(c) PROVE Promises'
    BY <2>2, ConnectedPromises
  <2>3. ASSUME NEW c \in Clients, Disconnected(c) PROVE Promises'
    BY <2>3, FailPromises DEF Disconnected
  <2>4. ASSUME NEW c \in Clients, NEW id \in RoomIDs, NEW name \in Names,
               NEW ipFails \in BOOLEAN, Join(c, id, name, ipFails)
        PROVE  Promises'
    BY <2>4, JoinRoomPromises DEF Join
  <2>5. ASSUME NEW c \in Clients, NEW id \in RoomIDs, NEW name \in Names,
               NEW ipFails \in BOOLEAN, NEW mode \in Modes,
               NEW close \in BOOLEAN, NEW join \in BOOLEAN,
               Create(c, id, mode, close, join, name, ipFails)
        PROVE  Promises'
    BY <2>5, CreatePromises
  <2>6. ASSUME NEW c \in Clients, NEW ipFails \in BOOLEAN, StartShare(c, ipFails)
        PROVE  Promises'
    BY <2>6, StartSharePromises
  <2>7. ASSUME NEW c \in Clients, StopShare(c) PROVE Promises'
    BY <2>7, StopSharePromises
  <2>8. ASSUME NEW c \in Clients, NEW name \in Names, Name(c, name) PROVE Promises'
    BY <2>8, NamePromises
  <2>9. ASSUME NEW c \in Clients, NEW s \in Nameable,
               \/ HostOffer(c, s) \/ HostICE(c, s)
               \/ ClientAnswer(c, s) \/ ClientICE(c, s)
        PROVE  Promises'
    BY <2>9, RelayPromises DEF HostOffer, HostICE, ClientAnswer, ClientICE
  <2>10. QED
    BY <2>1, <2>2, <2>3, <2>4, <2>5, <2>6, <2>7, <2>8, <2>9 DEF Next
<1>3. QED
  BY <1>1, <1>2

LEMMA PromisesAlways ==
    ASSUME Empty \notin RoomIDs
    PROVE  Spec => [](Core /\ Promises)
<1>1. /\ Init => Promises
      /\ Core /\ Promises /\ [Next]_vars => Promises'
  BY PromisesInductive
<1>2. Spec => []Core
  BY CoreAlways
<1>3. QED
  BY <1>1, <1>2, PTL DEF Spec

\* The TURN server accepts the two logins of every session of a TURN room and
\* no others, however the other sessions ended.
THEOREM CredentialsExact == Empty \notin RoomIDs => (Spec => []TurnExact)
<1> SUFFICES ASSUME Empty \notin RoomIDs PROVE Spec => []TurnExact
  OBVIOUS
<1>1. Core /\ Promises => TurnExact
  <2> SUFFICES ASSUME Core, Promises PROVE TurnExact
    OBVIOUS
  <2> DEFINE turn == {q \in DOMAIN rooms : rooms[q].mode = "turn"}
             exact == UNION {Logins(rooms[r].sessions) : r \in turn}
  <2>1. allowed \subseteq Logins(Session)
    BY DEF Core, OthersOK
  <2>2. exact \subseteq Logins(Session)
    BY DEF Core, MapsOK, RoomOK, Room, Logins
  <2>3. ASSUME NEW s \in Session, NEW end \in {"host", "client"}
        PROVE  <<s, end>> \in allowed <=> <<s, end>> \in exact
    <3>1. <<s, end>> \in exact <=> \E r \in turn : s \in rooms[r].sessions
      BY DEF Logins
    <3>2. QED
      BY <3>1 DEF Promises, TurnOn
  <2>4. QED
    <3> HIDE DEF exact
    <3>1. ASSUME NEW x \in Logins(Session) PROVE x \in allowed <=> x \in exact
      <4>1. PICK s \in Session, end \in {"host", "client"} : x = <<s, end>>
        <5>1. x \in Session \X {"host", "client"}
          BY <3>1 DEF Logins
        <5>2. QED
          BY <5>1
      <4>2. QED
        BY <4>1, <2>3
    <3>2. allowed = exact
      BY <3>1, <2>1, <2>2
    <3>3. QED
      BY <3>2 DEF TurnExact, exact
<1>2. QED
  BY <1>1, PromisesAlways, PTL

\* What a connected client was told of sessions is what the server has.
THEOREM AnnouncementsExact == Empty \notin RoomIDs => (Spec => []SessionsKnown)
<1> SUFFICES ASSUME Empty \notin RoomIDs PROVE Spec => []SessionsKnown
  OBVIOUS
<1>1. Core /\ Promises => SessionsKnown
  <2> SUFFICES ASSUME Core, Promises, NEW c \in DOMAIN connected
               PROVE  open[c] = {s \in LiveSessions : c \in {s.host, s.client}}
    BY DEF SessionsKnown
  <2>1. c \in Clients
    BY DEF Core, OthersOK
  <2>2. open[c] \subseteq Session /\ LiveSessions \subseteq Session
    BY <2>1 DEF Core, OthersOK, MapsOK, RoomOK, Room, LiveSessions
  <2>3. \A s : s \in LiveSessions <=> Live(rooms, s)
    BY DEF Live, LiveSessions
  <2>4. \A s \in Session : s \in open[c] <=> c \in {s.host, s.client} /\ Live(rooms, s)
    BY <2>1 DEF Promises, KnownOn
  <2>5. QED
    BY <2>2, <2>3, <2>4
<1>2. QED
  BY <1>1, PromisesAlways, PTL

\* No room is empty, and one that closes with its owner has an owner.
THEOREM NoRoomIsEmpty == Empty \notin RoomIDs => (Spec => []RoomsOccupied)
<1> SUFFICES ASSUME Empty \notin RoomIDs PROVE Spec => []RoomsOccupied
  OBVIOUS
<1>1. Promises => RoomsOccupied
  BY DEF Promises, OccupiedOn, RoomsOccupied
<1>2. QED
  BY <1>1, PromisesAlways, PTL

\* Between two messages every user has been told its room as it is.
THEOREM UsersAreTold == Empty \notin RoomIDs => (Spec => []ToldTruth)
<1> SUFFICES ASSUME Empty \notin RoomIDs PROVE Spec => []ToldTruth
  OBVIOUS
<1>1. Promises => ToldTruth
  BY DEF Promises, ToldOn, ToldTruth
<1>2. QED
  BY <1>1, PromisesAlways, PTL

\* CloseWriter is sent once to every connection that leaves connected, whether
\* it failed, went away or lost its room.
THEOREM CloseIsSentOnce == Empty \notin RoomIDs => (Spec => []ClosedOnce)
<1> SUFFICES ASSUME Empty \notin RoomIDs PROVE Spec => []ClosedOnce
  OBVIOUS
<1>1. Promises => ClosedOnce
  BY DEF Promises, ClosedOn, ClosedOnce
<1>2. QED
  BY <1>1, PromisesAlways, PTL

-------------------------------------------------------------------------------
(* The counters of prometheus. *)

\* The users and the sessions of the rooms rms.
People(rms) == UNION {rms[r].users : r \in DOMAIN rms}
SessionsIn(rms) == UNION {rms[r].sessions : r \in DOMAIN rms}

\* CountersExact of the maps and of usersJoined as a failing handler leaves them,
\* and what keeps it so: what is counted is finite, and the next session is new.
Ledger(rms, joined) ==
    /\ IsFiniteSet(DOMAIN rms) /\ IsFiniteSet(SessionsIn(rms))
    /\ \A s \in SessionsIn(rms) : s.batch <= batch
    /\ roomsCreated = roomsClosed + Cardinality(DOMAIN rms)
    /\ joined = usersLeft + Cardinality(People(rms))
    /\ sessionsCreated = sessionsClosed + Cardinality(SessionsIn(rms))

\* Cardinality is additive.
LEMMA Counting ==
    ASSUME NEW S, IsFiniteSet(S)
    PROVE  /\ Cardinality(S) \in Nat
           /\ \A T \in SUBSET S :
                 /\ IsFiniteSet(T) /\ IsFiniteSet(S \ T)
                 /\ Cardinality(T) \in Nat /\ Cardinality(S \ T) \in Nat
                 /\ Cardinality(S) = Cardinality(S \ T) + Cardinality(T)
           /\ \A T : IsFiniteSet(T) /\ S \cap T = {} =>
                 /\ IsFiniteSet(S \cup T)
                 /\ Cardinality(T) \in Nat
                 /\ Cardinality(S \cup T) = Cardinality(S) + Cardinality(T)
<1>1. Cardinality(S) \in Nat
  BY FS_CardinalityType
<1>2. ASSUME NEW T, IsFiniteSet(T), S \cap T = {}
      PROVE  /\ IsFiniteSet(S \cup T)
             /\ Cardinality(T) \in Nat
             /\ Cardinality(S \cup T) = Cardinality(S) + Cardinality(T)
  <2>1. Cardinality(T) \in Nat
    BY <1>2, FS_CardinalityType
  <2>2. /\ IsFiniteSet(S \cup T)
        /\ Cardinality(S \cup T) = Cardinality(S) + Cardinality(T) - Cardinality(S \cap T)
    BY <1>2, FS_Union
  <2>3. Cardinality(S \cap T) = 0
    BY <1>2, FS_EmptySet
  <2>4. QED
    BY <1>1, <2>1, <2>2, <2>3
<1>3. ASSUME NEW T \in SUBSET S
      PROVE  /\ IsFiniteSet(T) /\ IsFiniteSet(S \ T)
             /\ Cardinality(T) \in Nat /\ Cardinality(S \ T) \in Nat
             /\ Cardinality(S) = Cardinality(S \ T) + Cardinality(T)
  <2>1. IsFiniteSet(T) /\ IsFiniteSet(S \ T)
    BY FS_Subset
  <2>2. Cardinality(T) \in Nat /\ Cardinality(S \ T) \in Nat
    BY <2>1, FS_CardinalityType
  <2>3. (S \ T) \cup T = S /\ (S \ T) \cap T = {}
    OBVIOUS
  <2>4. Cardinality((S \ T) \cup T) =
          Cardinality(S \ T) + Cardinality(T) - Cardinality((S \ T) \cap T)
    BY <2>1, FS_Union
  <2>5. QED
    BY <2>1, <2>2, <2>3, <2>4, FS_EmptySet
<1>4. QED
  BY <1>1, <1>2, <1>3

\* No session is in two rooms: its host is in one.
LEMMA SessionsApart ==
    ASSUME NEW conn, NEW rms, MapsOK(conn, rms), AgreeOn(conn, rms), SoundOn(rms)
    PROVE  \A r, q \in DOMAIN rms : r # q =>
               /\ rms[r].sessions \cap rms[q].sessions = {}
               /\ rms[r].users \cap rms[q].users = {}
<1>1. \A r \in DOMAIN rms : \A s \in rms[r].sessions : s.host \in rms[r].users
  BY DEF SoundOn, MapsOK, RoomOK
<1>2. \A r, q \in DOMAIN rms : r # q => rms[r].users \cap rms[q].users = {}
  BY DEF AgreeOn
<1>3. QED
  BY <1>1, <1>2

\* One room leaves rms for good, or changes to room.
LEMMA RoomGoes ==
    ASSUME NEW conn, NEW rms, MapsOK(conn, rms), AgreeOn(conn, rms), SoundOn(rms),
           NEW r \in DOMAIN rms
    PROVE  /\ People(Without(rms, {r})) = People(rms) \ rms[r].users
           /\ SessionsIn(Without(rms, {r})) = SessionsIn(rms) \ rms[r].sessions
<1>1. /\ DOMAIN Without(rms, {r}) = DOMAIN rms \ {r}
      /\ \A q \in DOMAIN rms \ {r} : Without(rms, {r})[q] = rms[q]
  BY DEF Without
<1>2. \A q \in DOMAIN rms : r # q =>
               /\ rms[r].sessions \cap rms[q].sessions = {}
               /\ rms[r].users \cap rms[q].users = {}
  BY SessionsApart
<1> DEFINE w == Without(rms, {r})
<1> HIDE DEF w
<1>3. /\ DOMAIN w = DOMAIN rms \ {r}
      /\ \A q \in DOMAIN rms \ {r} : w[q] = rms[q]
  BY <1>1 DEF w
<1>4. People(w) = People(rms) \ rms[r].users
  BY <1>2, <1>3 DEF People
<1>5. SessionsIn(w) = SessionsIn(rms) \ rms[r].sessions
  BY <1>2, <1>3 DEF SessionsIn
<1>6. QED
  BY <1>4, <1>5 DEF w

LEMMA RoomChanges ==
    ASSUME NEW conn, NEW rms, MapsOK(conn, rms), AgreeOn(conn, rms), SoundOn(rms),
           NEW r \in DOMAIN rms, NEW room
    PROVE  /\ DOMAIN Put(rms, r, room) = DOMAIN rms
           /\ People(Put(rms, r, room)) = (People(rms) \ rms[r].users) \cup room.users
           /\ SessionsIn(Put(rms, r, room)) =
                 (SessionsIn(rms) \ rms[r].sessions) \cup room.sessions
<1> DEFINE w == Put(rms, r, room)
<1>1. /\ DOMAIN w = DOMAIN rms
      /\ w[r] = room
      /\ \A q \in DOMAIN rms \ {r} : w[q] = rms[q]
  BY DEF Put
<1>2. \A q \in DOMAIN rms : r # q =>
               /\ rms[r].sessions \cap rms[q].sessions = {}
               /\ rms[r].users \cap rms[q].users = {}
  BY SessionsApart
<1> HIDE DEF w
<1>3. People(w) = (People(rms) \ rms[r].users) \cup room.users
  BY <1>1, <1>2 DEF People
<1>4. SessionsIn(w) = (SessionsIn(rms) \ rms[r].sessions) \cup room.sessions
  BY <1>1, <1>2 DEF SessionsIn
<1>5. QED
  BY <1>1, <1>3, <1>4 DEF w

LEMMA LeaveLedger ==
    ASSUME NEW c \in Clients, NEW conn, NEW rms, NEW joined \in Nat, OthersOK,
           MapsOK(conn, rms), AgreeOn(conn, rms), SoundOn(rms),
           c \in DOMAIN conn, Ledger(rms, joined),
           executeNoError(conn, rms, joined, c)
    PROVE  Ledger(rooms, usersJoined)'
<1>1. CASE LeaveNoRoom(conn, rms, c)
  BY <1>1 DEF LeaveNoRoom, executeNoError, Ledger, People, SessionsIn
<1>2. CASE LeaveRoom(conn, rms, c)
  <2> DEFINE r == conn[c]
             room == rms[r]
             ended == IF Closes(room, c) THEN room.sessions ELSE SessionsOf(room, c)
             leaving == Leaving(room, c)
  <2>1. /\ r \in DOMAIN rms /\ c \in room.users /\ RoomOK(room)
        /\ leaving \subseteq room.users
        /\ Closes(room, c) => leaving = room.users
        /\ ~Closes(room, c) => leaving = {c}
    <3>1. /\ r \in DOMAIN rms /\ c \in room.users /\ RoomOK(room)
          /\ DOMAIN connected' = DOMAIN conn \ Leaving(room, c)
          /\ c \in Leaving(room, c) /\ Leaving(room, c) \subseteq room.users
          /\ Closes(room, c) => /\ Leaving(room, c) = room.users
                                /\ DOMAIN rooms' = DOMAIN rms \ {r}
          /\ ~Closes(room, c) => /\ Leaving(room, c) = {c}
                                 /\ DOMAIN rooms' = DOMAIN rms
                                 /\ rooms'[r] = Rest(room, c)
          /\ \A q \in DOMAIN rms \ {r} : /\ rooms'[q] = rms[q]
                                         /\ rms[q].users \cap room.users = {}
      <4> HIDE DEF ended, leaving, r, room, Leaving, Closes, Rest, ownerLeft
      <4>1. r = conn[c] /\ room = rms[r]
        BY DEF r, room
      <4> QED
        BY <1>2, <4>1, LeaveRoomShape
    <3> QED
      BY <3>1
  <2>2. /\ rooms' = IF Closes(room, c) THEN Without(rms, {r})
                                       ELSE Put(rms, r, Rest(room, c))
        /\ usersLeft' = usersLeft + Cardinality(leaving)
        /\ sessionsClosed' = sessionsClosed + Cardinality(ended)
        /\ roomsClosed' = IF Closes(room, c) THEN roomsClosed + 1 ELSE roomsClosed
        /\ usersJoined' = joined
        /\ UNCHANGED <<batch, roomsCreated, sessionsCreated>>
    BY <1>2 DEF LeaveRoom, executeNoError
  <2>3. /\ Rest(room, c).users = room.users \ {c}
        /\ Rest(room, c).sessions = room.sessions \ SessionsOf(room, c)
        /\ SessionsOf(room, c) \subseteq room.sessions
    BY <2>1 DEF RoomOK, Room, SessionsOf
  <2>4. /\ People(rooms') = People(rms) \ leaving
        /\ SessionsIn(rooms') = SessionsIn(rms) \ ended
        /\ DOMAIN rooms' = IF Closes(room, c) THEN DOMAIN rms \ {r} ELSE DOMAIN rms
    <3>1. CASE Closes(room, c)
      <4>1. rooms' = Without(rms, {r})
        BY <2>2, <3>1
      <4>2. /\ People(rooms') = People(rms) \ room.users
            /\ SessionsIn(rooms') = SessionsIn(rms) \ room.sessions
        BY <2>1, <4>1, RoomGoes
      <4>3. DOMAIN rooms' = DOMAIN rms \ {r}
        BY <4>1 DEF Without
      <4> QED
        BY <2>1, <3>1, <4>2, <4>3
    <3>2. CASE ~Closes(room, c)
      <4>1. rooms' = Put(rms, r, Rest(room, c))
        BY <2>2, <3>2
      <4> DEFINE rest == Rest(room, c)
      <4> HIDE DEF rest
      <4>2. /\ People(rooms') = (People(rms) \ room.users) \cup rest.users
            /\ SessionsIn(rooms') = (SessionsIn(rms) \ room.sessions) \cup rest.sessions
            /\ DOMAIN rooms' = DOMAIN rms
        <5>1. rooms' = Put(rms, r, rest)
          BY <4>1 DEF rest
        <5>2. r \in DOMAIN rms
          BY <2>1
        <5> HIDE DEF r, leaving, ended
        <5>3. /\ DOMAIN Put(rms, r, rest) = DOMAIN rms
              /\ People(Put(rms, r, rest)) = (People(rms) \ rms[r].users) \cup rest.users
              /\ SessionsIn(Put(rms, r, rest)) =
                    (SessionsIn(rms) \ rms[r].sessions) \cup rest.sessions
          BY <5>2, RoomChanges
        <5> QED
          BY <5>1, <5>3
      <4>3. /\ room.users \subseteq People(rms)
            /\ room.sessions \subseteq SessionsIn(rms)
        BY <2>1 DEF People, SessionsIn
      <4>4. /\ rest.users = room.users \ {c}
            /\ rest.sessions = room.sessions \ SessionsOf(room, c)
        BY <2>3 DEF rest
      <4>5. leaving = {c} /\ ended = SessionsOf(room, c)
        BY <2>1, <3>2
      <4> HIDE DEF leaving, ended, room
      <4> QED
        BY <2>1, <2>3, <3>2, <4>2, <4>3, <4>4, <4>5
    <3> QED
      BY <3>1, <3>2
  <2>5. /\ leaving \in SUBSET People(rms) /\ ended \in SUBSET SessionsIn(rms)
        /\ {r} \in SUBSET DOMAIN rms
    BY <2>1, <2>3 DEF People, SessionsIn
  <2>6. /\ IsFiniteSet(People(rms)) /\ IsFiniteSet(SessionsIn(rms))
        /\ IsFiniteSet(DOMAIN rms)
    <3>1. People(rms) \in SUBSET Clients
      BY DEF MapsOK, RoomOK, Room, People
    <3> QED
      BY <3>1, FS_Subset, RoomsAssumption DEF Ledger
  <2> HIDE DEF leaving, ended, room, r
  <2>7. /\ Cardinality(People(rms)) = Cardinality(People(rooms')) + Cardinality(leaving)
        /\ Cardinality(People(rooms')) \in Nat /\ Cardinality(leaving) \in Nat
    <3>1. \A T \in SUBSET People(rms) :
             /\ Cardinality(T) \in Nat /\ Cardinality(People(rms) \ T) \in Nat
             /\ Cardinality(People(rms)) = Cardinality(People(rms) \ T) + Cardinality(T)
      BY <2>6, Counting
    <3> QED
      BY <2>4, <2>5, <3>1
  <2>8. /\ Cardinality(SessionsIn(rms)) =
              Cardinality(SessionsIn(rooms')) + Cardinality(ended)
        /\ Cardinality(SessionsIn(rooms')) \in Nat /\ Cardinality(ended) \in Nat
        /\ IsFiniteSet(SessionsIn(rooms'))
    <3>1. \A T \in SUBSET SessionsIn(rms) :
             /\ IsFiniteSet(SessionsIn(rms) \ T)
             /\ Cardinality(T) \in Nat /\ Cardinality(SessionsIn(rms) \ T) \in Nat
             /\ Cardinality(SessionsIn(rms)) =
                   Cardinality(SessionsIn(rms) \ T) + Cardinality(T)
      BY <2>6, Counting
    <3> QED
      BY <2>4, <2>5, <3>1
  <2>9. /\ Cardinality(DOMAIN rms) =
              IF Closes(room, c) THEN Cardinality(DOMAIN rooms') + 1
                                 ELSE Cardinality(DOMAIN rooms')
        /\ Cardinality(DOMAIN rooms') \in Nat
        /\ IsFiniteSet(DOMAIN rooms')
    <3>1. /\ IsFiniteSet(DOMAIN rms \ {r})
          /\ Cardinality(DOMAIN rms) \in Nat
          /\ Cardinality(DOMAIN rms \ {r}) \in Nat
          /\ Cardinality(DOMAIN rms) = Cardinality(DOMAIN rms \ {r}) + Cardinality({r})
      BY <2>5, <2>6, Counting
    <3> QED
      BY <2>4, <2>6, <3>1, FS_Singleton
  <2>10. /\ roomsClosed \in Nat /\ usersLeft \in Nat /\ sessionsClosed \in Nat
    BY DEF OthersOK
  <2>11. roomsCreated' = roomsClosed' + Cardinality(DOMAIN rooms')
    BY <2>2, <2>9, <2>10 DEF Ledger
  <2>12. usersJoined' = usersLeft' + Cardinality(People(rooms'))
    BY <2>2, <2>7, <2>10 DEF Ledger
  <2>13. sessionsCreated' = sessionsClosed' + Cardinality(SessionsIn(rooms'))
    BY <2>2, <2>8, <2>10 DEF Ledger
  <2>14. \A s \in SessionsIn(rooms') : s.batch <= batch'
    BY <2>2, <2>4 DEF Ledger
  <2>15. QED
    BY <2>8, <2>9, <2>11, <2>12, <2>13, <2>14 DEF Ledger, People, SessionsIn
<1>3. QED
  BY <1>1, <1>2 DEF executeNoError


\* A handler that succeeds in room r: the clients entered enter it, the sessions
\* ended end and the sessions new begin, all of them counted.
Counts(r, room, entered, ended, new) ==
    /\ rooms' = Put(rooms, r, room)
    /\ room.users = rooms[r].users \cup entered
    /\ room.sessions = (rooms[r].sessions \ ended) \cup new
    /\ entered \in SUBSET Clients /\ entered \cap People(rooms) = {}
    /\ ended \in SUBSET rooms[r].sessions
    /\ IsFiniteSet(new) /\ \A s \in new : s.batch = batch + 1
    /\ batch' \in Nat /\ batch <= batch' /\ \A s \in new : s.batch <= batch'
    /\ usersJoined' = usersJoined + Cardinality(entered)
    /\ sessionsCreated' = sessionsCreated + Cardinality(new)
    /\ sessionsClosed' = sessionsClosed + Cardinality(ended)
    /\ UNCHANGED <<roomsCreated, roomsClosed, usersLeft>>

LEMMA PutLedger ==
    ASSUME Core, Ledger(rooms, usersJoined), NEW r \in DOMAIN rooms, NEW room,
           NEW entered, NEW ended, NEW new, Counts(r, room, entered, ended, new)
    PROVE  Ledger(rooms, usersJoined)'
<1> DEFINE P == People(rooms)
           S == SessionsIn(rooms)
           rest == S \ ended
<1>1. /\ DOMAIN rooms' = DOMAIN rooms
      /\ People(rooms') = (P \ rooms[r].users) \cup room.users
      /\ SessionsIn(rooms') = (S \ rooms[r].sessions) \cup room.sessions
  BY RoomChanges DEF Counts, Core
<1>2. rooms[r].users \subseteq P /\ rooms[r].sessions \subseteq S
  BY DEF People, SessionsIn
<1>3. People(rooms') = P \cup entered
  BY <1>1, <1>2 DEF Counts
<1>4. SessionsIn(rooms') = rest \cup new
  BY <1>1, <1>2 DEF Counts
<1>5. ended \in SUBSET S
  BY <1>2 DEF Counts
<1>6. P \subseteq Clients /\ S \subseteq Session
  BY DEF Core, MapsOK, RoomOK, Room, People, SessionsIn
<1>7. /\ IsFiniteSet(P) /\ IsFiniteSet(S) /\ IsFiniteSet(entered)
      /\ IsFiniteSet(DOMAIN rooms) /\ IsFiniteSet(new)
  BY <1>6, FS_Subset, RoomsAssumption DEF Ledger, Counts
<1>8. rest \cap new = {}
  <2>1. \A s \in S : s.batch <= batch /\ s.batch \in Nat
    BY <1>6 DEF Ledger, Session
  <2>2. batch \in Nat
    BY DEF Core, OthersOK
  <2>3. QED
    BY <2>1, <2>2 DEF Counts
<1>9. \A s \in SessionsIn(rooms') : s.batch <= batch'
  <2>1. \A s \in S : s.batch <= batch /\ s.batch \in Nat
    BY <1>6 DEF Ledger, Session
  <2>2. batch \in Nat /\ batch' \in Nat /\ batch <= batch'
    BY DEF Core, OthersOK, Counts
  <2> HIDE DEF S
  <2>3. \A s \in S : s.batch <= batch'
    BY <2>1, <2>2
  <2>4. QED
    BY <1>4, <2>3 DEF Counts
<1> HIDE DEF P, S, rest
<1>10. /\ Cardinality(P \cup entered) = Cardinality(P) + Cardinality(entered)
       /\ Cardinality(P) \in Nat /\ Cardinality(entered) \in Nat
  BY <1>7, Counting DEF Counts, P
<1>11. /\ Cardinality(S) = Cardinality(rest) + Cardinality(ended)
       /\ Cardinality(S) \in Nat /\ Cardinality(rest) \in Nat
       /\ Cardinality(ended) \in Nat /\ IsFiniteSet(rest)
  BY <1>5, <1>7, Counting DEF rest
<1>12. /\ Cardinality(rest \cup new) = Cardinality(rest) + Cardinality(new)
       /\ Cardinality(new) \in Nat /\ IsFiniteSet(rest \cup new)
  BY <1>7, <1>8, <1>11, Counting
<1>13. /\ usersLeft \in Nat /\ sessionsClosed \in Nat
  BY DEF Core, OthersOK
<1>14. /\ usersJoined = usersLeft + Cardinality(P)
       /\ sessionsCreated = sessionsClosed + Cardinality(S)
  BY DEF Ledger, P, S
<1>15. usersJoined' = usersLeft' + Cardinality(People(rooms'))
  BY <1>3, <1>10, <1>13, <1>14 DEF Counts
<1>16. sessionsCreated' = sessionsClosed' + Cardinality(SessionsIn(rooms'))
  BY <1>4, <1>11, <1>12, <1>13, <1>14 DEF Counts
<1>17. roomsCreated' = roomsClosed' + Cardinality(DOMAIN rooms')
  BY <1>1 DEF Counts, Ledger
<1>18. IsFiniteSet(DOMAIN rooms') /\ IsFiniteSet(SessionsIn(rooms'))
  BY <1>1, <1>4, <1>7, <1>12
<1>19. QED
  BY <1>9, <1>15, <1>16, <1>17, <1>18 DEF Ledger, People, SessionsIn

\* The same for a handler that fails at once.
LEMMA FailLedger ==
    ASSUME Core, Ledger(rooms, usersJoined), NEW c \in Clients, Accepts(c), Fail(c)
    PROVE  Ledger(rooms, usersJoined)'
<1>1. usersJoined \in Nat
  BY DEF Core, OthersOK
<1>2. QED
  BY <1>1, LeaveLedger DEF Fail, Core, Accepts

\* What newSessions gives the sessions it makes.
LEMMA NewBatch ==
    ASSUME Core, NEW r, NEW room, NEW H, NEW C,
           newSessions(r, room, [host : H, client : C, batch : {batch + 1}])
    PROVE  LET new == [host : H, client : C, batch : {batch + 1}]
           IN  /\ \A s \in new : s.batch = batch + 1 /\ s.batch <= batch'
               /\ batch' \in Nat /\ batch <= batch'
               /\ sessionsCreated' = sessionsCreated + Cardinality(new)
               /\ UNCHANGED <<sessionsClosed, roomsCreated, roomsClosed, usersLeft>>
<1> DEFINE new == [host : H, client : C, batch : {batch + 1}]
<1>1. \A s \in new : s.batch = batch + 1
  OBVIOUS
<1>2. batch \in Nat
  BY DEF Core, OthersOK
<1> HIDE DEF new
<1>3. newSessions(r, room, new)
  BY DEF new
<1>4. batch' = IF new = {} THEN batch ELSE batch + 1
  BY <1>3 DEF newSessions
<1>5. /\ \A s \in new : s.batch <= batch'
      /\ batch' \in Nat /\ batch <= batch'
  BY <1>1, <1>2, <1>4
<1>6. /\ sessionsCreated' = sessionsCreated + Cardinality(new)
      /\ UNCHANGED <<sessionsClosed, roomsCreated, roomsClosed, usersLeft>>
  BY <1>3 DEF newSessions
<1>7. QED
  BY <1>1, <1>5, <1>6 DEF new


LEMMA JoinRoomLedger ==
    ASSUME Empty \notin RoomIDs, Core, Ledger(rooms, usersJoined),
           NEW c \in Clients, NEW id \in RoomIDs, NEW name \in Names,
           NEW ipFails \in BOOLEAN, Accepts(c), JoinRoom(c, id, name, ipFails)
    PROVE  Ledger(rooms, usersJoined)'
<1> DEFINE joined == Joined(rooms[id], c, name)
           new == ToNewUser(joined, c)
           room == [joined EXCEPT !.sessions = @ \cup new]
<1>1. CASE Fail(c)
  BY <1>1, FailLedger
<1>2. ASSUME connected[c] = Empty, id \in DOMAIN rooms
      PROVE  /\ RoomOK(joined)
             /\ joined.users = rooms[id].users \cup {c}
             /\ joined.streaming = rooms[id].streaming \ {c}
             /\ joined.sessions = rooms[id].sessions
             /\ room.users = joined.users
             /\ room.sessions = joined.sessions \cup new
             /\ IsFiniteSet(new)
             /\ {c} \in SUBSET Clients /\ {c} \cap People(rooms) = {}
  <2>1. /\ RoomOK(joined) /\ RoomOK(room)
        /\ joined.users = rooms[id].users \cup {c}
        /\ joined.streaming = rooms[id].streaming \ {c}
        /\ joined.owners = rooms[id].owners \ {c}
        /\ joined.sessions = rooms[id].sessions
        /\ joined.mode = rooms[id].mode
        /\ joined.closeOnOwnerLeave = rooms[id].closeOnOwnerLeave
        /\ room.users = joined.users /\ room.streaming = joined.streaming
        /\ room.owners = joined.owners /\ room.mode = joined.mode
        /\ room.closeOnOwnerLeave = joined.closeOnOwnerLeave
        /\ Info(room) = Info(joined)
        /\ room.sessions = joined.sessions \cup new
        /\ new \subseteq Session /\ IsFiniteSet(new)
        /\ \A r \in DOMAIN rooms : c \notin rooms[r].users
    BY <1>2, JoinedFacts
  <2> HIDE DEF joined, new, room
  <2>2. {c} \cap People(rooms) = {}
    BY <2>1 DEF People
  <2>3. QED
    BY <2>1, <2>2
<1>3. CASE /\ connected[c] = Empty /\ id \in DOMAIN rooms
           /\ executeNoError(Put(connected, c, id), Put(rooms, id, joined),
                             usersJoined + 1, c)
  <2> DEFINE conn == Put(connected, c, id)
             rms == Put(rooms, id, joined)
  <2>1. MapsOK(conn, rms) /\ AgreeOn(conn, rms)
    <3> HIDE DEF joined
    <3>1. QED
      BY <1>2, <1>3, EnterRoom DEF Core, Accepts
  <2>2. /\ DOMAIN rms = DOMAIN rooms
        /\ rms[id] = joined
        /\ \A q \in DOMAIN rooms \ {id} : rms[q] = rooms[q]
    BY <1>3 DEF Put
  <2>3. c \in DOMAIN conn
    BY DEF Put
  <2>4. /\ People(rms) = (People(rooms) \ rooms[id].users) \cup joined.users
        /\ SessionsIn(rms) = (SessionsIn(rooms) \ rooms[id].sessions) \cup joined.sessions
    <3> HIDE DEF joined
    <3>1. QED
      BY <1>3, RoomChanges DEF Core
  <2>5. executeNoError(conn, rms, usersJoined + 1, c)
    BY <1>3
  <2> HIDE DEF conn, rms, joined
  <2>6. SoundOn(rms)
    <3>1. ASSUME NEW q \in DOMAIN rms, NEW s \in rms[q].sessions
          PROVE  s.host \in rms[q].streaming /\ s.client \in rms[q].users \ {s.host}
      BY <1>2, <1>3, <2>2, <3>1 DEF Core, SoundOn, MapsOK, RoomOK, People
    <3>2. QED
      BY <3>1 DEF SoundOn
  <2>7. Ledger(rms, usersJoined + 1)
    <3>1. rooms[id].users \subseteq People(rooms) /\ rooms[id].sessions \subseteq SessionsIn(rooms)
      BY <1>3 DEF People, SessionsIn
    <3>2. People(rms) = People(rooms) \cup {c} /\ SessionsIn(rms) = SessionsIn(rooms)
      BY <1>2, <1>3, <2>4, <3>1
    <3>3. People(rooms) \in SUBSET Clients
      BY DEF Core, MapsOK, RoomOK, Room, People
    <3>4. IsFiniteSet(People(rooms))
      BY <3>3, FS_Subset, RoomsAssumption
    <3>5. /\ Cardinality(People(rms)) = Cardinality(People(rooms)) + 1
          /\ Cardinality(People(rooms)) \in Nat
      <4>1. c \notin People(rooms)
        BY <1>2, <1>3
      <4>2. Cardinality(People(rooms) \cup {c}) = Cardinality(People(rooms)) + 1
        BY <3>4, <4>1, FS_AddElement
      <4>3. QED
        BY <3>2, <3>4, <4>2, FS_CardinalityType
    <3>6. usersJoined + 1 = usersLeft + Cardinality(People(rms))
      BY <3>5 DEF Ledger, Core, OthersOK
    <3>7. QED
      BY <2>2, <3>2, <3>6 DEF Ledger
  <2>8. usersJoined + 1 \in Nat
    BY DEF Core, OthersOK
  <2>9. QED
    BY <2>1, <2>3, <2>5, <2>6, <2>7, <2>8, LeaveLedger DEF Core
<1>4. CASE /\ connected[c] = Empty /\ id \in DOMAIN rooms
           /\ newSessions(id, joined, new)
           /\ usersJoined' = usersJoined + 1
  <2>1. /\ \A s \in new : s.batch = batch + 1 /\ s.batch <= batch'
        /\ batch' \in Nat /\ batch <= batch'
        /\ sessionsCreated' = sessionsCreated + Cardinality(new)
        /\ UNCHANGED <<sessionsClosed, roomsCreated, roomsClosed, usersLeft>>
    BY <1>4, NewBatch
  <2>2. rooms' = Put(rooms, id, room)
    BY <1>4 DEF newSessions
  <2> HIDE DEF room, new, joined
  <2>3. /\ Cardinality({c}) = 1 /\ Cardinality({}) = 0 /\ sessionsClosed \in Nat
    BY FS_Singleton, FS_EmptySet DEF Core, OthersOK
  <2>4. Counts(id, room, {c}, {}, new)
    BY <1>2, <1>4, <2>1, <2>2, <2>3 DEF Counts
  <2>5. QED
    BY <1>4, <2>4, PutLedger
<1>5. QED
  BY <1>1, <1>3, <1>4 DEF JoinRoom

LEMMA CreateLedger ==
    ASSUME Empty \notin RoomIDs, Core, Ledger(rooms, usersJoined),
           NEW c \in Clients, NEW id \in RoomIDs, NEW mode \in Modes,
           NEW close \in BOOLEAN, NEW join \in BOOLEAN,
           NEW name \in Names, NEW ipFails \in BOOLEAN,
           Create(c, id, mode, close, join, name, ipFails)
    PROVE  Ledger(rooms, usersJoined)'
<1> DEFINE room == NewRoom(c, mode, close, name)
<1>1. CASE JoinRoom(c, id, name, ipFails)
  BY <1>1, JoinRoomLedger DEF Create
<1>2. CASE Fail(c)
  BY <1>2, FailLedger DEF Create
<1>3. CASE /\ connected[c] = Empty /\ id \notin DOMAIN rooms
           /\ rooms' = Put(rooms, id, room)
           /\ usersJoined' = usersJoined + 1
           /\ roomsCreated' = roomsCreated + 1
           /\ UNCHANGED <<batch, roomsClosed, usersLeft, sessionsCreated,
                          sessionsClosed>>
  <2>1. room.users = {c} /\ room.sessions = {}
    BY DEF NewRoom
  <2> HIDE DEF room
  <2>2. /\ DOMAIN rooms' = DOMAIN rooms \cup {id}
        /\ rooms'[id] = room
        /\ \A q \in DOMAIN rooms : rooms'[q] = rooms[q]
    BY <1>3 DEF Put
  <2>3. /\ People(rooms') = People(rooms) \cup {c}
        /\ SessionsIn(rooms') = SessionsIn(rooms)
    <3>1. People(rooms') = People(rooms) \cup {c}
      BY <2>1, <2>2 DEF People
    <3>2. SessionsIn(rooms') = SessionsIn(rooms)
      BY <2>1, <2>2 DEF SessionsIn
    <3>3. QED
      BY <3>1, <3>2
  <2>4. c \notin People(rooms)
    BY <1>3 DEF Core, AgreeOn, MapsOK, People
  <2>5. People(rooms) \in SUBSET Clients
    BY DEF Core, MapsOK, RoomOK, Room, People
  <2>6. IsFiniteSet(People(rooms)) /\ IsFiniteSet(DOMAIN rooms)
    BY <2>5, FS_Subset, RoomsAssumption DEF Ledger
  <2>7. /\ Cardinality(People(rooms')) = Cardinality(People(rooms)) + 1
        /\ Cardinality(People(rooms)) \in Nat
    <3>1. Cardinality(People(rooms) \cup {c}) = Cardinality(People(rooms)) + 1
      BY <2>4, <2>6, FS_AddElement
    <3>2. QED
      BY <2>3, <2>6, <3>1, FS_CardinalityType
  <2>8. /\ Cardinality(DOMAIN rooms') = Cardinality(DOMAIN rooms) + 1
        /\ Cardinality(DOMAIN rooms) \in Nat
        /\ IsFiniteSet(DOMAIN rooms')
    <3>1. /\ Cardinality(DOMAIN rooms \cup {id}) = Cardinality(DOMAIN rooms) + 1
          /\ IsFiniteSet(DOMAIN rooms \cup {id})
      BY <1>3, <2>6, FS_AddElement
    <3>2. QED
      BY <2>2, <2>6, <3>1, FS_CardinalityType
  <2>9. usersLeft \in Nat /\ roomsClosed \in Nat
    BY DEF Core, OthersOK
  <2>10. usersJoined' = usersLeft' + Cardinality(People(rooms'))
    BY <1>3, <2>7, <2>9 DEF Ledger
  <2>11. roomsCreated' = roomsClosed' + Cardinality(DOMAIN rooms')
    BY <1>3, <2>8, <2>9 DEF Ledger
  <2>12. QED
    BY <1>3, <2>3, <2>8, <2>10, <2>11 DEF Ledger, People, SessionsIn
<1>4. QED
  BY <1>1, <1>2, <1>3 DEF Create

LEMMA StartShareLedger ==
    ASSUME Empty \notin RoomIDs, Core, Ledger(rooms, usersJoined),
           NEW c \in Clients, NEW ipFails \in BOOLEAN, StartShare(c, ipFails)
    PROVE  Ledger(rooms, usersJoined)'
<1> DEFINE r == connected[c]
           room == [rooms[r] EXCEPT !.streaming = @ \cup {c}]
           new == ToEveryone(room, c)
           shared == [room EXCEPT !.sessions = @ \cup new]
<1>1. CASE Fail(c)
  BY <1>1, FailLedger DEF StartShare
<1>2. ASSUME HasRoom(c)
      PROVE  /\ r \in DOMAIN rooms /\ r \in RoomIDs /\ c \in rooms[r].users
             /\ RoomOK(room)
             /\ room.users = rooms[r].users
             /\ room.streaming = rooms[r].streaming \cup {c}
             /\ room.sessions = rooms[r].sessions
             /\ IsFiniteSet(new)
             /\ shared.users = rooms[r].users
             /\ shared.sessions = rooms[r].sessions \cup new
  BY <1>2, SharedFacts DEF StartShare
<1>3. CASE /\ HasRoom(c)
           /\ executeNoError(connected, Put(rooms, r, room), usersJoined, c)
  <2> DEFINE rms == Put(rooms, r, room)
  <2>1. /\ DOMAIN rms = DOMAIN rooms
        /\ rms[r] = room
        /\ \A q \in DOMAIN rooms \ {r} : rms[q] = rooms[q]
    BY <1>2, <1>3 DEF Put
  <2>2. executeNoError(connected, rms, usersJoined, c)
    BY <1>3
  <2> HIDE DEF rms, room
  <2>3. MapsOK(connected, rms)
    BY <1>2, <1>3, <2>1 DEF Core, MapsOK
  <2>4. AgreeOn(connected, rms)
    BY <1>2, <1>3, <2>1 DEF Core, AgreeOn
  <2>5. SoundOn(rms)
    BY <1>2, <1>3, <2>1 DEF Core, SoundOn
  <2>6. \A q \in DOMAIN rms : /\ rms[q].sessions = rooms[q].sessions
                              /\ rms[q].users = rooms[q].users
    BY <1>2, <1>3, <2>1
  <2>7. Ledger(rms, usersJoined)
    <3>1. People(rms) = People(rooms)
      BY <2>1, <2>6 DEF People
    <3>2. SessionsIn(rms) = SessionsIn(rooms)
      BY <2>1, <2>6 DEF SessionsIn
    <3>3. QED
      BY <2>1, <3>1, <3>2 DEF Ledger
  <2>8. usersJoined \in Nat
    BY DEF Core, OthersOK
  <2>9. QED
    BY <2>2, <2>3, <2>4, <2>5, <2>7, <2>8, LeaveLedger DEF Core, StartShare, Accepts
<1>4. CASE /\ HasRoom(c)
           /\ newSessions(r, room, new)
           /\ UNCHANGED <<connected, usersJoined>>
  <2>1. /\ \A s \in new : s.batch = batch + 1 /\ s.batch <= batch'
        /\ batch' \in Nat /\ batch <= batch'
        /\ sessionsCreated' = sessionsCreated + Cardinality(new)
        /\ UNCHANGED <<sessionsClosed, roomsCreated, roomsClosed, usersLeft>>
    BY <1>4, NewBatch
  <2>2. rooms' = Put(rooms, r, shared)
    BY <1>4 DEF newSessions
  <2> HIDE DEF room, new, shared
  <2>3. Cardinality({}) = 0 /\ sessionsClosed \in Nat /\ usersJoined \in Nat
    BY FS_EmptySet DEF Core, OthersOK
  <2>4. Counts(r, shared, {}, {}, new)
    BY <1>2, <1>4, <2>1, <2>2, <2>3 DEF Counts
  <2>5. QED
    BY <1>2, <1>4, <2>4, PutLedger
<1>5. QED
  BY <1>1, <1>3, <1>4 DEF StartShare

LEMMA StopShareLedger ==
    ASSUME Empty \notin RoomIDs, Core, Ledger(rooms, usersJoined),
           NEW c \in Clients, StopShare(c)
    PROVE  Ledger(rooms, usersJoined)'
<1> DEFINE r == connected[c]
           ended == HostedBy(rooms[r], c)
           room == [rooms[r] EXCEPT !.streaming = @ \ {c}, !.sessions = @ \ ended]
<1>1. CASE Fail(c)
  BY <1>1, FailLedger DEF StopShare
<1>2. CASE HasRoom(c) /\ ~Fail(c)
  <2>1. /\ r \in DOMAIN rooms /\ RoomOK(rooms[r])
        /\ rooms' = Put(rooms, r, room)
        /\ sessionsClosed' = sessionsClosed + Cardinality(ended)
        /\ UNCHANGED <<batch, roomsCreated, roomsClosed, usersJoined, usersLeft,
                       sessionsCreated>>
    BY <1>2, OwnRoom DEF StopShare
  <2>2. /\ room.users = rooms[r].users
        /\ room.sessions = rooms[r].sessions \ ended
        /\ ended \in SUBSET rooms[r].sessions
    BY <2>1 DEF RoomOK, Room
  <2> HIDE DEF room, ended
  <2>3. /\ IsFiniteSet({}) /\ Cardinality({}) = 0
        /\ sessionsCreated \in Nat /\ usersJoined \in Nat /\ batch \in Nat
    BY FS_EmptySet DEF Core, OthersOK
  <2>4. Counts(r, room, {}, ended, {})
    BY <2>1, <2>2, <2>3 DEF Counts
  <2>5. QED
    BY <2>1, <2>4, PutLedger
<1>3. QED
  BY <1>1, <1>2 DEF StopShare

LEMMA NameLedger ==
    ASSUME Empty \notin RoomIDs, Core, Ledger(rooms, usersJoined),
           NEW c \in Clients, NEW name \in Names, Name(c, name)
    PROVE  Ledger(rooms, usersJoined)'
<1> DEFINE r == connected[c]
           room == [rooms[r] EXCEPT !.names[c] = name]
<1>1. CASE Fail(c)
  BY <1>1, FailLedger DEF Name
<1>2. CASE HasRoom(c) /\ ~Fail(c)
  <2>1. /\ r \in DOMAIN rooms /\ RoomOK(rooms[r])
        /\ rooms' = Put(rooms, r, room)
        /\ UNCHANGED <<batch, counters>>
    BY <1>2, OwnRoom DEF Name
  <2>2. /\ room.users = rooms[r].users /\ room.sessions = rooms[r].sessions
    BY <2>1 DEF RoomOK, Room
  <2> HIDE DEF room
  <2>3. /\ IsFiniteSet({}) /\ Cardinality({}) = 0
        /\ sessionsCreated \in Nat /\ sessionsClosed \in Nat
        /\ usersJoined \in Nat /\ batch \in Nat
    BY FS_EmptySet DEF Core, OthersOK
  <2>4. Counts(r, room, {}, {}, {})
    BY <2>1, <2>2, <2>3 DEF Counts, counters
  <2>5. QED
    BY <2>1, <2>4, PutLedger
<1>3. QED
  BY <1>1, <1>2 DEF Name

LEMMA RelayLedger ==
    ASSUME Core, Ledger(rooms, usersJoined), NEW c \in Clients, NEW s, NEW from,
           Relay(c, s, from)
    PROVE  Ledger(rooms, usersJoined)'
<1>1. CASE Fail(c)
  BY <1>1, FailLedger DEF Relay
<1>2. CASE UNCHANGED vars
  BY <1>2 DEF vars, counters, Ledger, People, SessionsIn
<1>3. QED
  BY <1>1, <1>2 DEF Relay

LEMMA LedgerInductive ==
    ASSUME Empty \notin RoomIDs
    PROVE  /\ Init => Ledger(rooms, usersJoined)
           /\ Core /\ Ledger(rooms, usersJoined) /\ [Next]_vars
                => Ledger(rooms, usersJoined)'
<1>1. Init => Ledger(rooms, usersJoined)
  <2> SUFFICES ASSUME Init PROVE Ledger(rooms, usersJoined)
    OBVIOUS
  <2>1. DOMAIN rooms = {} /\ People(rooms) = {} /\ SessionsIn(rooms) = {}
    BY DEF Init, People, SessionsIn
  <2>2. /\ IsFiniteSet(DOMAIN rooms) /\ IsFiniteSet(SessionsIn(rooms))
        /\ Cardinality(DOMAIN rooms) = 0 /\ Cardinality(People(rooms)) = 0
        /\ Cardinality(SessionsIn(rooms)) = 0
    BY <2>1, FS_EmptySet
  <2>3. QED
    BY <2>1, <2>2 DEF Init, Ledger
<1>2. Core /\ Ledger(rooms, usersJoined) /\ [Next]_vars => Ledger(rooms, usersJoined)'
  <2> SUFFICES ASSUME Core, Ledger(rooms, usersJoined), [Next]_vars
               PROVE  Ledger(rooms, usersJoined)'
    OBVIOUS
  <2>1. CASE UNCHANGED vars
    BY <2>1 DEF vars, counters, Ledger, People, SessionsIn
  <2>2. ASSUME NEW c \in Clients, Connected(c) PROVE Ledger(rooms, usersJoined)'
    BY <2>2 DEF Connected, counters, Ledger, People, SessionsIn
  <2>3. ASSUME NEW c \in Clients, Disconnected(c) PROVE Ledger(rooms, usersJoined)'
    BY <2>3, FailLedger DEF Disconnected
  <2>4. ASSUME NEW c \in Clients, NEW id \in RoomIDs, NEW name \in Names,
               NEW ipFails \in BOOLEAN, Join(c, id, name, ipFails)
        PROVE  Ledger(rooms, usersJoined)'
    BY <2>4, JoinRoomLedger DEF Join
  <2>5. ASSUME NEW c \in Clients, NEW id \in RoomIDs, NEW name \in Names,
               NEW ipFails \in BOOLEAN, NEW mode \in Modes,
               NEW close \in BOOLEAN, NEW join \in BOOLEAN,
               Create(c, id, mode, close, join, name, ipFails)
        PROVE  Ledger(rooms, usersJoined)'
    BY <2>5, CreateLedger
  <2>6. ASSUME NEW c \in Clients, NEW ipFails \in BOOLEAN, StartShare(c, ipFails)
        PROVE  Ledger(rooms, usersJoined)'
    BY <2>6, StartShareLedger
  <2>7. ASSUME NEW c \in Clients, StopShare(c) PROVE Ledger(rooms, usersJoined)'
    BY <2>7, StopShareLedger
  <2>8. ASSUME NEW c \in Clients, NEW name \in Names, Name(c, name)
        PROVE  Ledger(rooms, usersJoined)'
    BY <2>8, NameLedger
  <2>9. ASSUME NEW c \in Clients, NEW s \in Nameable,
               \/ HostOffer(c, s) \/ HostICE(c, s)
               \/ ClientAnswer(c, s) \/ ClientICE(c, s)
        PROVE  Ledger(rooms, usersJoined)'
    BY <2>9, RelayLedger DEF HostOffer, HostICE, ClientAnswer, ClientICE
  <2>10. QED
    BY <2>1, <2>2, <2>3, <2>4, <2>5, <2>6, <2>7, <2>8, <2>9 DEF Next
<1>3. QED
  BY <1>1, <1>2

\* The counters that prometheus scrapes never drift: created less closed, and
\* joined less left, is what there is, however many handlers fail half way and
\* however many users lose their room at once.
THEOREM CountersNeverDrift == Empty \notin RoomIDs => (Spec => []CountersExact)
<1> SUFFICES ASSUME Empty \notin RoomIDs PROVE Spec => []CountersExact
  OBVIOUS
<1>1. /\ Init => Ledger(rooms, usersJoined)
      /\ Core /\ Ledger(rooms, usersJoined) /\ [Next]_vars => Ledger(rooms, usersJoined)'
  BY LedgerInductive
<1>2. Spec => []Core
  BY CoreAlways
<1>3. Ledger(rooms, usersJoined) => CountersExact
  BY DEF Ledger, CountersExact, People, SessionsIn, LiveSessions
<1>4. QED
  BY <1>1, <1>2, <1>3, PTL DEF Spec
-----------------------------------------------------------------------------
(***************************************************************************)
(* The main loop implements ShareMesh, step by step, and throws nobody out  *)
(* without cause.  Links are a function of who is where and who shares      *)
(* (View), so that every handler is compared with the mesh in those terms:  *)
(* MeshLeaves, MeshEnters, MeshShares, MeshStops and MeshStays say what it   *)
(* does, and one lemma for each that the mesh allows it.                    *)
(***************************************************************************)
\* The users and the sharers of room q, which are none before it exists.
Mem(rms, q) == IF q \in DOMAIN rms THEN rms[q].users ELSE {}
Str(rms, q) == IF q \in DOMAIN rms THEN rms[q].streaming ELSE {}

\* The four variables of the mesh.
Members(rms) == [r \in RoomIDs |-> IF r \in DOMAIN rms THEN rms[r].users ELSE {}]
Sharing(rms) == UNION {rms[r].streaming : r \in DOMAIN rms}
Links(rms) == {<<s.host, s.client>> : s \in UNION {rms[r].sessions : r \in DOMAIN rms}}
Left == upgraded \ DOMAIN connected

\* Because a session leads from whoever shares to everybody else of the room, and
\* none leads elsewhere, links are a matter of who is where and who shares.
View(rms) ==
    /\ Members(rms) = [q \in RoomIDs |-> Mem(rms, q)]
    /\ \A h : h \in Sharing(rms) <=> \E q \in RoomIDs : h \in Str(rms, q)
    /\ \A l : l \in Links(rms) <=>
                 \E q \in RoomIDs : \E h \in Str(rms, q), x \in Mem(rms, q) :
                    h # x /\ l = <<h, x>>
    /\ \A q \in RoomIDs : Str(rms, q) \subseteq Mem(rms, q)
    /\ \A q \in RoomIDs : Mem(rms, q) \subseteq Clients

\* A connection is in one room, and those that are in a room have not left.
Placed(conn, rms) ==
    /\ \A p, q \in RoomIDs : p # q => Mem(rms, p) \cap Mem(rms, q) = {}
    /\ \A q \in RoomIDs : Mem(rms, q) \subseteq DOMAIN conn

LEMMA CoreViewOn ==
    ASSUME NEW conn, NEW rms, MapsOK(conn, rms), AgreeOn(conn, rms),
           SoundOn(rms), SharesBut(rms, {})
    PROVE  View(rms) /\ Placed(conn, rms)
<1>1. Placed(conn, rms)
  BY DEF MapsOK, AgreeOn, Placed, Mem
<1>2. /\ Members(rms) = [q \in RoomIDs |-> Mem(rms, q)]
      /\ \A q \in RoomIDs : Str(rms, q) \subseteq Mem(rms, q)
      /\ \A q \in RoomIDs : Mem(rms, q) \subseteq Clients
  BY DEF Members, Mem, Str, MapsOK, RoomOK, Room
<1>3. \A h : h \in Sharing(rms) <=> \E q \in RoomIDs : h \in Str(rms, q)
  BY DEF Sharing, Str, MapsOK
<1>4. ASSUME NEW l
      PROVE  l \in Links(rms) <=>
                 \E q \in RoomIDs : \E h \in Str(rms, q), x \in Mem(rms, q) :
                    h # x /\ l = <<h, x>>
  <2>1. ASSUME l \in Links(rms)
        PROVE  \E q \in RoomIDs : \E h \in Str(rms, q), x \in Mem(rms, q) :
                    h # x /\ l = <<h, x>>
    <3>1. PICK q \in DOMAIN rms : \E s \in rms[q].sessions : l = <<s.host, s.client>>
      BY <2>1 DEF Links
    <3>2. PICK s \in rms[q].sessions : l = <<s.host, s.client>>
      BY <3>1
    <3>3. /\ s.host \in Str(rms, q) /\ s.client \in Mem(rms, q) /\ s.host # s.client
          /\ q \in RoomIDs
      BY DEF SoundOn, MapsOK, Str, Mem
    <3>4. QED
      BY <3>2, <3>3
  <2>2. ASSUME NEW q \in RoomIDs, NEW h \in Str(rms, q), NEW x \in Mem(rms, q),
               h # x, l = <<h, x>>
        PROVE  l \in Links(rms)
    <3>1. q \in DOMAIN rms /\ h \in rms[q].streaming /\ x \in rms[q].users \ {h}
      BY <2>2 DEF Str, Mem
    <3>2. PICK s \in rms[q].sessions : s.host = h /\ s.client = x
      BY <3>1 DEF SharesBut
    <3>3. QED
      BY <2>2, <3>1, <3>2 DEF Links
  <2>3. QED
    BY <2>1, <2>2
<1>5. QED
  BY <1>1, <1>2, <1>3, <1>4 DEF View

LEMMA CoreView ==
    /\ Core => View(rooms) /\ Placed(connected, rooms)
    /\ Core' => View(rooms') /\ Placed(connected', rooms')
BY CoreViewOn DEF Core

\* Steps of the mesh, told by who is in which room and who shares there.
MeshLeaves(S, r) ==
    /\ S # {} /\ S \subseteq Clients
    /\ S = Mem(rooms, r) \/ \E c \in Mem(rooms, r) : S = {c}
    /\ \A q \in RoomIDs : /\ Mem(rooms', q) = Mem(rooms, q) \ S
                          /\ Str(rooms', q) = Str(rooms, q) \ S
    /\ Left' = Left \cup S

LEMMA LeaveIsLeave ==
    ASSUME Core, Core', NEW S, NEW r \in RoomIDs, MeshLeaves(S, r)
    PROVE  Mesh!Leave(S, r)
<1> DEFINE M == Members(rooms) M2 == Members(rooms')
           H == Sharing(rooms) H2 == Sharing(rooms')
           L == Links(rooms) L2 == Links(rooms')
<1>1. View(rooms) /\ View(rooms') /\ Placed(connected, rooms)
  BY CoreView
<1>2. \A q \in RoomIDs \ {r} : Mem(rooms, q) \cap S = {}
  BY <1>1 DEF MeshLeaves, Placed
<1>3. M2 = [M EXCEPT ![r] = @ \ S]
  <2> DEFINE F == [q \in RoomIDs |-> Mem(rooms, q)]
             F2 == [q \in RoomIDs |-> Mem(rooms', q)]
  <2>1. \A q \in RoomIDs : Mem(rooms', q) = IF q = r THEN Mem(rooms, q) \ S
                                                     ELSE Mem(rooms, q)
    BY <1>2 DEF MeshLeaves
  <2>2. F2 = [F EXCEPT ![r] = @ \ S]
    BY <2>1
  <2>3. M = F /\ M2 = F2
    BY <1>1 DEF View
  <2>4. QED
    BY <2>2, <2>3
<1>4. H2 = H \ S
  <2>1. \A h : h \in H2 <=> h \in H \ S
    BY <1>1 DEF View, MeshLeaves
  <2>2. QED
    BY <2>1
<1>5. L2 = L \cap ((Clients \ S) \X (Clients \ S))
  <2>1. ASSUME NEW l PROVE l \in L2 <=> l \in L \cap ((Clients \ S) \X (Clients \ S))
    BY <1>1 DEF View, MeshLeaves
  <2>2. QED
    BY <2>1
<1>6. S = M[r] \/ \E c \in M[r] : S = {c}
  BY <1>1 DEF MeshLeaves, View
<1>7. S # {} /\ Left' = Left \cup S
  BY DEF MeshLeaves
<1>8. QED
  BY <1>3, <1>4, <1>5, <1>6, <1>7 DEF Mesh!Leave, Members, Sharing, Links, Left, LiveSessions

MeshEnters(c, r) ==
    /\ c \in Clients /\ c \in DOMAIN connected
    /\ \A q \in RoomIDs : /\ c \notin Mem(rooms, q)
                          /\ Mem(rooms', q) = IF q = r THEN Mem(rooms, q) \cup {c}
                                                       ELSE Mem(rooms, q)
                          /\ Str(rooms', q) = Str(rooms, q)
    /\ Left' = Left

LEMMA EnterIsEnter ==
    ASSUME Core, Core', NEW c, NEW r \in RoomIDs, MeshEnters(c, r)
    PROVE  Mesh!Enter(c, r)
<1> DEFINE M == Members(rooms) M2 == Members(rooms')
           H == Sharing(rooms) H2 == Sharing(rooms')
           L == Links(rooms) L2 == Links(rooms')
<1>1. View(rooms) /\ View(rooms') /\ Placed(connected, rooms)
  BY CoreView
<1>2. M2 = [M EXCEPT ![r] = @ \cup {c}]
  <2> DEFINE F == [q \in RoomIDs |-> Mem(rooms, q)]
             F2 == [q \in RoomIDs |-> Mem(rooms', q)]
  <2>1. \A q \in RoomIDs : Mem(rooms', q) = IF q = r THEN Mem(rooms, q) \cup {c}
                                                     ELSE Mem(rooms, q)
    BY <1>1 DEF MeshEnters
  <2>2. F2 = [F EXCEPT ![r] = @ \cup {c}]
    BY <2>1
  <2>3. M = F /\ M2 = F2
    BY <1>1 DEF View
  <2>4. QED
    BY <2>2, <2>3
<1>3. H2 = H
  <2>1. \A h : h \in H2 <=> h \in H
    BY <1>1 DEF View, MeshEnters
  <2>2. QED
    BY <2>1
<1>4. L2 = L \cup ((H \cap M[r]) \X {c})
  <2>1. ASSUME NEW l PROVE l \in L2 <=> l \in L \cup ((H \cap M[r]) \X {c})
    <3>1. l \in (H \cap M[r]) \X {c} <=> \E h \in Str(rooms, r) : l = <<h, c>>
      <4>1. H \cap M[r] = Str(rooms, r)
        <5>1. \A h : h \in H /\ h \in M[r] <=> h \in Str(rooms, r)
          BY <1>1 DEF View, Placed
        <5>2. QED
          BY <5>1
      <4>2. QED
        BY <4>1
    <3>2. \A h \in Str(rooms, r) : h # c
      BY <1>1 DEF View, MeshEnters
    <3>3. l \in L <=> \E q \in RoomIDs : \E h \in Str(rooms, q), x \in Mem(rooms, q) :
                         h # x /\ l = <<h, x>>
      BY <1>1 DEF View
    <3>4. l \in L2 <=> \E q \in RoomIDs : \E h \in Str(rooms, q), x \in Mem(rooms', q) :
                         h # x /\ l = <<h, x>>
      BY <1>1 DEF View, MeshEnters
    <3>5. (\E q \in RoomIDs : \E h \in Str(rooms, q), x \in Mem(rooms', q) :
                         h # x /\ l = <<h, x>>)
             <=> \/ \E q \in RoomIDs : \E h \in Str(rooms, q), x \in Mem(rooms, q) :
                         h # x /\ l = <<h, x>>
                 \/ \E h \in Str(rooms, r) : l = <<h, c>>
      BY <3>2 DEF MeshEnters
    <3>6. QED
      BY <3>1, <3>3, <3>4, <3>5
  <2>2. QED
    BY <2>1
<1>5. c \notin (UNION {M[q] : q \in RoomIDs}) \cup Left
  BY <1>1 DEF MeshEnters, View, Left
<1>6. Left' = Left
  BY DEF MeshEnters
<1>7. QED
  BY <1>2, <1>3, <1>4, <1>5, <1>6
     DEF Mesh!Enter, Mesh!Present, Members, Sharing, Links, Left, LiveSessions

MeshShares(c, r) ==
    /\ c \in Mem(rooms, r)
    /\ \A q \in RoomIDs : /\ Mem(rooms', q) = Mem(rooms, q)
                          /\ Str(rooms', q) = IF q = r THEN Str(rooms, q) \cup {c}
                                                       ELSE Str(rooms, q)
    /\ Left' = Left

LEMMA ShareIsShare ==
    ASSUME Core, Core', NEW c, NEW r \in RoomIDs, MeshShares(c, r)
    PROVE  Mesh!Share(c, r)
<1> DEFINE M == Members(rooms) M2 == Members(rooms')
           H == Sharing(rooms) H2 == Sharing(rooms')
           L == Links(rooms) L2 == Links(rooms')
<1>1. View(rooms) /\ View(rooms')
  BY CoreView
<1>2. M2 = M
  BY <1>1 DEF MeshShares, View
<1>3. H2 = H \cup {c}
  <2>1. \A h : h \in H2 <=> h \in H \/ h = c
    BY <1>1 DEF View, MeshShares
  <2>2. QED
    BY <2>1
<1>4. L2 = L \cup ({c} \X (M[r] \ {c}))
  <2>1. ASSUME NEW l PROVE l \in L2 <=> l \in L \cup ({c} \X (M[r] \ {c}))
    <3>1. l \in {c} \X (M[r] \ {c}) <=> \E x \in Mem(rooms, r) : c # x /\ l = <<c, x>>
      BY <1>1 DEF View
    <3>2. l \in L <=> \E q \in RoomIDs : \E h \in Str(rooms, q), x \in Mem(rooms, q) :
                         h # x /\ l = <<h, x>>
      BY <1>1 DEF View
    <3>3. l \in L2 <=> \E q \in RoomIDs : \E h \in Str(rooms', q), x \in Mem(rooms, q) :
                         h # x /\ l = <<h, x>>
      BY <1>1 DEF View, MeshShares
    <3>4. (\E q \in RoomIDs : \E h \in Str(rooms', q), x \in Mem(rooms, q) :
                         h # x /\ l = <<h, x>>)
             <=> \/ \E q \in RoomIDs : \E h \in Str(rooms, q), x \in Mem(rooms, q) :
                         h # x /\ l = <<h, x>>
                 \/ \E x \in Mem(rooms, r) : c # x /\ l = <<c, x>>
      BY DEF MeshShares
    <3>5. QED
      BY <3>1, <3>2, <3>3, <3>4
  <2>2. QED
    BY <2>1
<1>5. c \in M[r] /\ Left' = Left
  BY <1>1 DEF MeshShares, View
<1>6. QED
  BY <1>2, <1>3, <1>4, <1>5
     DEF Mesh!Share, Members, Sharing, Links, Left, LiveSessions

MeshStops(c, r) ==
    /\ c \in Mem(rooms, r)
    /\ \A q \in RoomIDs : /\ Mem(rooms', q) = Mem(rooms, q)
                          /\ Str(rooms', q) = Str(rooms, q) \ {c}
    /\ Left' = Left

LEMMA StopIsUnshare ==
    ASSUME Core, Core', NEW c \in Clients, NEW r \in RoomIDs, MeshStops(c, r)
    PROVE  Mesh!Unshare(c)
<1> DEFINE M == Members(rooms) M2 == Members(rooms')
           H == Sharing(rooms) H2 == Sharing(rooms')
           L == Links(rooms) L2 == Links(rooms')
<1>1. View(rooms) /\ View(rooms')
  BY CoreView
<1>2. M2 = M
  BY <1>1 DEF MeshStops, View
<1>3. H2 = H \ {c}
  <2>1. \A h : h \in H2 <=> h \in H \ {c}
    BY <1>1 DEF View, MeshStops
  <2>2. QED
    BY <2>1
<1>4. L2 = L \ ({c} \X Clients)
  <2>1. ASSUME NEW l PROVE l \in L2 <=> l \in L \ ({c} \X Clients)
    BY <1>1 DEF View, MeshStops
  <2>2. QED
    BY <2>1
<1>5. c \in UNION {M[q] : q \in RoomIDs} /\ Left' = Left
  BY <1>1 DEF MeshStops, View
<1>6. QED
  BY <1>2, <1>3, <1>4, <1>5
     DEF Mesh!Unshare, Mesh!Present, Members, Sharing, Links, Left, LiveSessions

\* Everybody stays where it is; those of gone, in no room, are gone.
MeshStays(gone) ==
    /\ \A q \in RoomIDs : /\ Mem(rooms', q) = Mem(rooms, q)
                          /\ Str(rooms', q) = Str(rooms, q)
    /\ Left' = Left \cup gone

LEMMA StaysIsStutter ==
    ASSUME Core, Core', NEW gone, MeshStays(gone)
    PROVE  /\ gone = {} => UNCHANGED Mesh!meshVars
           /\ \A c \in Clients : gone = {c} /\ (\A q \in RoomIDs : c \notin Mem(rooms, q))
                                   /\ c \notin Left
                  => Mesh!GiveUp(c)
<1> DEFINE M == Members(rooms) M2 == Members(rooms')
           H == Sharing(rooms) H2 == Sharing(rooms')
           L == Links(rooms) L2 == Links(rooms')
<1>1. View(rooms) /\ View(rooms')
  BY CoreView
<1>2. M2 = M
  BY <1>1 DEF MeshStays, View
<1>3. H2 = H
  <2>1. \A h : h \in H2 <=> h \in H
    BY <1>1 DEF View, MeshStays
  <2>2. QED
    BY <2>1
<1>4. L2 = L
  <2>1. ASSUME NEW l PROVE l \in L2 <=> l \in L
    BY <1>1 DEF View, MeshStays
  <2>2. QED
    BY <2>1
<1>5. gone = {} => UNCHANGED Mesh!meshVars
  BY <1>2, <1>3, <1>4
     DEF MeshStays, Mesh!meshVars, Members, Sharing, Links, Left, LiveSessions
<1>6. ASSUME NEW c \in Clients, gone = {c}, \A q \in RoomIDs : c \notin Mem(rooms, q),
             c \notin Left
      PROVE  Mesh!GiveUp(c)
  <2>1. c \notin (UNION {M[q] : q \in RoomIDs}) \cup Left
    BY <1>1, <1>6 DEF View
  <2>2. Left' = Left \cup {c}
    BY <1>6 DEF MeshStays
  <2>3. QED
    BY <1>2, <1>3, <1>4, <2>1, <2>2
       DEF Mesh!GiveUp, Mesh!Present, Members, Sharing, Links, Left, LiveSessions
<1>7. QED
  BY <1>5, <1>6


\* What one message may do to connected: the body of LeaveForCause.
ForCause ==
    LET gone == DOMAIN connected \ DOMAIN connected'
    IN  \/ \E c \in Clients : gone \subseteq {c}
        \/ \E r \in DOMAIN rooms \ DOMAIN rooms' :
              /\ gone = rooms[r].users
              /\ rooms[r].closeOnOwnerLeave

\* Nobody but one connection goes.
LEMMA OneGoes ==
    ASSUME NEW c \in Clients, DOMAIN connected \subseteq DOMAIN connected' \cup {c}
    PROVE  ForCause
BY DEF ForCause

\* S leaves room r, because c does: c alone, or everybody with the owner.
Gone(conn, rms, c, S, r) ==
    /\ r = conn[c] /\ r \in DOMAIN rms
    /\ c \in S
    /\ S = {c} \/ /\ S = rms[r].users /\ c \in rms[r].owners
                  /\ rms[r].closeOnOwnerLeave
                  /\ r \notin DOMAIN rooms'
    /\ S = Mem(rms, r) \/ \E x \in Mem(rms, r) : S = {x}
    /\ \A q \in RoomIDs : /\ Mem(rooms', q) = Mem(rms, q) \ S
                          /\ Str(rooms', q) = Str(rms, q) \ S
    /\ Left' = Left \cup S
    /\ DOMAIN connected' = DOMAIN connected \ S

\* c leaves its room: the mesh from the maps conn and rms on, and who goes.
LEMMA LeaveRoomMesh ==
    ASSUME NEW c \in Clients, NEW conn, NEW rms,
           MapsOK(conn, rms), AgreeOn(conn, rms), SoundOn(rms),
           LeaveRoom(conn, rms, c), c \in DOMAIN conn, OthersOK,
           DOMAIN conn = DOMAIN connected, upgraded' = upgraded
    PROVE  \E S \in SUBSET Clients, r \in RoomIDs : Gone(conn, rms, c, S, r)
<1> DEFINE r == conn[c]
           room == rms[r]
           S == Leaving(room, c)
<1>1. /\ r \in DOMAIN rms /\ c \in room.users /\ RoomOK(room)
      /\ DOMAIN connected' = DOMAIN conn \ Leaving(room, c)
      /\ c \in Leaving(room, c) /\ Leaving(room, c) \subseteq room.users
      /\ Closes(room, c) => /\ Leaving(room, c) = room.users
                            /\ DOMAIN rooms' = DOMAIN rms \ {r}
      /\ ~Closes(room, c) => /\ Leaving(room, c) = {c}
                             /\ DOMAIN rooms' = DOMAIN rms
                             /\ rooms'[r] = Rest(room, c)
      /\ \A q \in DOMAIN rms \ {r} : /\ rooms'[q] = rms[q]
                                     /\ rms[q].users \cap room.users = {}
  BY LeaveRoomShape
<1>2. /\ Rest(room, c).users = room.users \ {c}
      /\ Rest(room, c).streaming = room.streaming \ {c}
  BY <1>1 DEF Rest, RoomOK, Room
<1>3. S = {c} \/ /\ S = room.users /\ c \in room.owners
                 /\ room.closeOnOwnerLeave
                 /\ r \notin DOMAIN rooms'
  BY <1>1 DEF Leaving, Closes, ownerLeft
<1>4. r \in RoomIDs /\ S \in SUBSET Clients
  BY <1>1 DEF MapsOK, RoomOK, Room
<1>5. \A q \in DOMAIN rms : rms[q].streaming \subseteq rms[q].users
  BY DEF MapsOK, RoomOK
<1> HIDE DEF r, S, room
<1>6. room = rms[r] /\ S = Leaving(room, c)
  BY DEF room, S
<1>7. ASSUME NEW q \in RoomIDs
      PROVE  /\ Mem(rooms', q) = Mem(rms, q) \ S
             /\ Str(rooms', q) = Str(rms, q) \ S
  <2>1. CASE q = r
    <3>1. CASE Closes(room, c)
      BY <1>1, <1>5, <1>6, <2>1, <3>1 DEF Mem, Str
    <3>2. CASE ~Closes(room, c)
      <4>1. /\ q \in DOMAIN rms /\ q \in DOMAIN rooms' /\ S = {c}
            /\ rooms'[q].users = rms[q].users \ {c}
            /\ rooms'[q].streaming = rms[q].streaming \ {c}
        BY <1>1, <1>2, <1>6, <2>1, <3>2
      <4>2. QED
        BY <4>1 DEF Mem, Str
    <3>3. QED
      BY <3>1, <3>2
  <2>2. CASE q # r /\ q \in DOMAIN rms
    <3>1. /\ q \in DOMAIN rooms' /\ rooms'[q] = rms[q]
          /\ rms[q].users \cap S = {} /\ rms[q].streaming \subseteq rms[q].users
      BY <1>1, <1>5, <1>6, <2>2
    <3>2. QED
      BY <2>2, <3>1 DEF Mem, Str
  <2>3. CASE q # r /\ q \notin DOMAIN rms
    BY <1>1, <2>3 DEF Mem, Str
  <2>4. QED
    BY <2>1, <2>2, <2>3
<1>8. S = Mem(rms, r) \/ \E x \in Mem(rms, r) : S = {x}
  BY <1>1, <1>3, <1>6 DEF Mem
<1>9. Left' = Left \cup S /\ DOMAIN connected' = DOMAIN connected \ S
  <2>1. S \subseteq DOMAIN conn
    BY <1>1, <1>6 DEF AgreeOn
  <2>2. QED
    BY <1>1, <1>6, <2>1 DEF Left, OthersOK
<1>10. r = conn[c] /\ r \in DOMAIN rms /\ c \in S
  BY <1>1, <1>6 DEF r
<1>11. QED
  BY <1>3, <1>4, <1>6, <1>7, <1>8, <1>9, <1>10 DEF Gone

\* A connection in no room leaves.
LEMMA LeaveNoRoomMesh ==
    ASSUME NEW c \in Clients, NEW conn, NEW rms,
           LeaveNoRoom(conn, rms, c), c \in DOMAIN conn, OthersOK,
           DOMAIN conn = DOMAIN connected, upgraded' = upgraded
    PROVE  /\ rooms' = rms /\ Left' = Left \cup {c} /\ c \notin Left
           /\ DOMAIN connected' = DOMAIN connected \ {c}
BY DEF LeaveNoRoom, Without, Left, OthersOK

MeshStep == Mesh!MeshNext \/ UNCHANGED Mesh!meshVars

LEMMA FailMesh ==
    ASSUME Empty \notin RoomIDs, Core, Core', NEW c \in Clients,
           Accepts(c), Fail(c)
    PROVE  MeshStep /\ ForCause
<1>1. /\ OthersOK /\ MapsOK(connected, rooms) /\ AgreeOn(connected, rooms)
      /\ SoundOn(rooms) /\ c \in DOMAIN connected /\ upgraded' = upgraded
  BY DEF Core, Accepts, Fail, executeNoError
<1>2. CASE LeaveNoRoom(connected, rooms, c)
  <2>1. /\ rooms' = rooms /\ Left' = Left \cup {c} /\ c \notin Left
        /\ DOMAIN connected' = DOMAIN connected \ {c}
    BY <1>1, <1>2, LeaveNoRoomMesh
  <2>2. \A q \in RoomIDs : c \notin Mem(rooms, q)
    BY <1>1, <1>2 DEF LeaveNoRoom, IsUser, AgreeOn, Mem, MapsOK
  <2>3. MeshStays({c})
    BY <2>1 DEF MeshStays
  <2>4. Mesh!GiveUp(c)
    BY <2>1, <2>2, <2>3, StaysIsStutter
  <2>5. QED
    BY <2>1, <2>4, OneGoes DEF MeshStep, Mesh!MeshNext
<1>3. CASE LeaveRoom(connected, rooms, c)
  <2>1. PICK S \in SUBSET Clients, r \in RoomIDs : Gone(connected, rooms, c, S, r)
    BY <1>1, <1>3, LeaveRoomMesh
  <2>2. MeshLeaves(S, r)
    BY <2>1 DEF MeshLeaves, Gone
  <2>3. Mesh!Leave(S, r)
    BY <2>2, LeaveIsLeave
  <2>4. ForCause
    <3>1. CASE S = {c}
      BY <2>1, <3>1, OneGoes DEF Gone
    <3>2. CASE S # {c}
      <4>1. S \subseteq DOMAIN connected
        BY <1>1, <2>1, <3>2 DEF AgreeOn, Gone
      <4>2. QED
        BY <2>1, <3>2, <4>1 DEF ForCause, Gone
    <3>3. QED
      BY <3>1, <3>2
  <2>5. QED
    BY <2>3, <2>4 DEF MeshStep, Mesh!MeshNext
<1>4. QED
  BY <1>2, <1>3 DEF Fail, executeNoError


LEMMA JoinRoomMesh ==
    ASSUME Empty \notin RoomIDs, Core, Core', NEW c \in Clients, NEW id \in RoomIDs,
           NEW name \in Names, NEW ipFails \in BOOLEAN,
           Accepts(c), JoinRoom(c, id, name, ipFails)
    PROVE  MeshStep /\ ForCause
<1>1. CASE Fail(c)
  BY <1>1, FailMesh
<1> DEFINE joined == Joined(rooms[id], c, name)
           new == ToNewUser(joined, c)
           room == [joined EXCEPT !.sessions = @ \cup new]
<1>2. ASSUME connected[c] = Empty, id \in DOMAIN rooms
      PROVE  /\ RoomOK(joined)
             /\ joined.users = rooms[id].users \cup {c}
             /\ joined.streaming = rooms[id].streaming \ {c}
             /\ joined.owners = rooms[id].owners \ {c}
             /\ joined.sessions = rooms[id].sessions
             /\ room.users = joined.users /\ room.streaming = joined.streaming
             /\ \A r \in DOMAIN rooms : c \notin rooms[r].users
             /\ \A q \in RoomIDs : c \notin Mem(rooms, q) /\ c \notin Str(rooms, q)
  <2>1. /\ RoomOK(joined) /\ RoomOK(room)
        /\ joined.users = rooms[id].users \cup {c}
        /\ joined.streaming = rooms[id].streaming \ {c}
        /\ joined.owners = rooms[id].owners \ {c}
        /\ joined.sessions = rooms[id].sessions
        /\ joined.mode = rooms[id].mode
        /\ joined.closeOnOwnerLeave = rooms[id].closeOnOwnerLeave
        /\ room.users = joined.users /\ room.streaming = joined.streaming
        /\ room.owners = joined.owners /\ room.mode = joined.mode
        /\ room.closeOnOwnerLeave = joined.closeOnOwnerLeave
        /\ Info(room) = Info(joined)
        /\ room.sessions = joined.sessions \cup new
        /\ new \subseteq Session /\ IsFiniteSet(new)
        /\ \A r \in DOMAIN rooms : c \notin rooms[r].users
    BY <1>2, JoinedFacts
  <2> HIDE DEF joined, new, room
  <2>2. \A q \in RoomIDs : c \notin Mem(rooms, q) /\ c \notin Str(rooms, q)
    BY <2>1, CoreView DEF Mem, View
  <2>3. QED
    BY <2>1, <2>2
<1>3. CASE /\ connected[c] = Empty /\ id \in DOMAIN rooms
           /\ executeNoError(Put(connected, c, id), Put(rooms, id, joined),
                             usersJoined + 1, c)
  <2> DEFINE conn == Put(connected, c, id)
             rms == Put(rooms, id, joined)
  <2>1. MapsOK(conn, rms) /\ AgreeOn(conn, rms)
    <3> HIDE DEF joined
    <3>1. QED
      BY <1>2, <1>3, EnterRoom DEF Core, Accepts
  <2>2. /\ DOMAIN rms = DOMAIN rooms
        /\ rms[id] = joined
        /\ \A q \in DOMAIN rooms \ {id} : rms[q] = rooms[q]
    BY <1>3 DEF Put
  <2>3. DOMAIN conn = DOMAIN connected /\ c \in DOMAIN conn /\ conn[c] = id
    BY DEF Put, Accepts
  <2>4. executeNoError(conn, rms, usersJoined + 1, c)
    BY <1>3
  <2> HIDE DEF conn, rms, joined
  <2>5. SoundOn(rms)
    <3>1. ASSUME NEW q \in DOMAIN rms, NEW s \in rms[q].sessions
          PROVE  s.host \in rms[q].streaming /\ s.client \in rms[q].users \ {s.host}
      BY <1>2, <1>3, <2>2, <3>1 DEF Core, SoundOn, MapsOK, RoomOK
    <3>2. QED
      BY <3>1 DEF SoundOn
  <2>6. IsUser(conn, rms, c)
    BY <1>2, <1>3, <2>2, <2>3 DEF IsUser
  <2>7. LeaveRoom(conn, rms, c) /\ upgraded' = upgraded
    BY <2>4, <2>6 DEF executeNoError, LeaveNoRoom
  <2>8. PICK S \in SUBSET Clients, r \in RoomIDs : Gone(conn, rms, c, S, r)
    BY <2>1, <2>3, <2>5, <2>7, LeaveRoomMesh DEF Core
  <2>9. S = {c}
    BY <1>2, <1>3, <2>2, <2>3, <2>8 DEF Gone
  <2>10. ASSUME NEW q \in RoomIDs
         PROVE  /\ Mem(rooms', q) = Mem(rooms, q)
                /\ Str(rooms', q) = Str(rooms, q)
    <3>1. /\ Mem(rooms', q) = Mem(rms, q) \ {c}
          /\ Str(rooms', q) = Str(rms, q) \ {c}
      BY <2>8, <2>9 DEF Gone
    <3>2. /\ Mem(rms, q) = IF q = id THEN Mem(rooms, q) \cup {c} ELSE Mem(rooms, q)
          /\ Str(rms, q) = IF q = id THEN Str(rooms, q) \ {c} ELSE Str(rooms, q)
      BY <1>2, <1>3, <2>2 DEF Mem, Str
    <3>3. c \notin Mem(rooms, q) /\ c \notin Str(rooms, q)
      BY <1>2, <1>3
    <3>4. QED
      BY <3>1, <3>2, <3>3
  <2>11. MeshStays({c})
    BY <2>8, <2>9, <2>10 DEF MeshStays, Gone
  <2>12. c \notin Left
    BY DEF Left, Accepts
  <2>13. Mesh!GiveUp(c)
    BY <1>2, <1>3, <2>11, <2>12, StaysIsStutter
  <2>14. ForCause
    BY <2>8, <2>9, OneGoes DEF Gone
  <2>15. QED
    BY <2>13, <2>14 DEF MeshStep, Mesh!MeshNext
<1>4. CASE /\ connected[c] = Empty /\ id \in DOMAIN rooms
           /\ newSessions(id, joined, new)
           /\ connected' = Put(connected, c, id)
  <2>1. rooms' = Put(rooms, id, room) /\ upgraded' = upgraded
    BY <1>4 DEF newSessions
  <2>2. DOMAIN connected' = DOMAIN connected
    BY <1>4 DEF Put, Accepts
  <2> HIDE DEF joined, new, room
  <2>3. /\ DOMAIN rooms' = DOMAIN rooms
        /\ rooms'[id] = room
        /\ \A q \in DOMAIN rooms \ {id} : rooms'[q] = rooms[q]
    BY <1>4, <2>1 DEF Put
  <2>4. ASSUME NEW q \in RoomIDs
        PROVE  /\ Mem(rooms', q) = IF q = id THEN Mem(rooms, q) \cup {c}
                                             ELSE Mem(rooms, q)
               /\ Str(rooms', q) = Str(rooms, q)
    <3>1. /\ Mem(rooms', q) = IF q = id THEN Mem(rooms, q) \cup {c} ELSE Mem(rooms, q)
          /\ Str(rooms', q) = IF q = id THEN Str(rooms, q) \ {c} ELSE Str(rooms, q)
      BY <1>2, <1>4, <2>3 DEF Mem, Str
    <3>2. c \notin Str(rooms, q)
      BY <1>2, <1>4
    <3>3. QED
      BY <3>1, <3>2
  <2>5. MeshEnters(c, id)
    BY <1>2, <1>4, <2>1, <2>2, <2>4 DEF MeshEnters, Left, Accepts
  <2>6. Mesh!Enter(c, id)
    BY <2>5, EnterIsEnter
  <2>7. ForCause
    BY <2>2, OneGoes
  <2>8. QED
    BY <2>6, <2>7 DEF MeshStep, Mesh!MeshNext
<1>5. QED
  BY <1>1, <1>3, <1>4 DEF JoinRoom

LEMMA CreateMesh ==
    ASSUME Empty \notin RoomIDs, Core, Core', NEW c \in Clients, NEW id \in RoomIDs,
           NEW mode \in Modes, NEW close \in BOOLEAN, NEW join \in BOOLEAN,
           NEW name \in Names, NEW ipFails \in BOOLEAN,
           Create(c, id, mode, close, join, name, ipFails)
    PROVE  MeshStep /\ ForCause
<1> DEFINE room == NewRoom(c, mode, close, name)
<1>1. CASE JoinRoom(c, id, name, ipFails)
  BY <1>1, JoinRoomMesh DEF Create
<1>2. CASE Fail(c)
  BY <1>2, FailMesh DEF Create
<1>3. CASE /\ connected[c] = Empty /\ id \notin DOMAIN rooms
           /\ rooms' = Put(rooms, id, room)
           /\ connected' = Put(connected, c, id)
           /\ upgraded' = upgraded
  <2>1. room.users = {c} /\ room.streaming = {}
    BY DEF NewRoom
  <2>2. DOMAIN connected' = DOMAIN connected /\ Accepts(c)
    BY <1>3 DEF Put, Accepts, Create
  <2> HIDE DEF room
  <2>3. /\ DOMAIN rooms' = DOMAIN rooms \cup {id}
        /\ rooms'[id] = room
        /\ \A q \in DOMAIN rooms : rooms'[q] = rooms[q]
    BY <1>3 DEF Put
  <2>4. ASSUME NEW q \in RoomIDs
        PROVE  /\ Mem(rooms', q) = IF q = id THEN Mem(rooms, q) \cup {c}
                                             ELSE Mem(rooms, q)
               /\ Str(rooms', q) = Str(rooms, q)
    BY <1>3, <2>1, <2>3 DEF Mem, Str
  <2>5. \A q \in RoomIDs : c \notin Mem(rooms, q)
    BY <1>3 DEF Core, AgreeOn, MapsOK, Mem
  <2>6. MeshEnters(c, id)
    BY <1>3, <2>2, <2>4, <2>5 DEF MeshEnters, Left, Accepts
  <2>7. Mesh!Enter(c, id)
    BY <2>6, EnterIsEnter
  <2>8. ForCause
    BY <2>2, OneGoes
  <2>9. QED
    BY <2>7, <2>8 DEF MeshStep, Mesh!MeshNext
<1>4. QED
  BY <1>1, <1>2, <1>3 DEF Create

LEMMA StartShareMesh ==
    ASSUME Empty \notin RoomIDs, Core, Core', NEW c \in Clients,
           NEW ipFails \in BOOLEAN, StartShare(c, ipFails)
    PROVE  MeshStep /\ ForCause
<1> DEFINE r == connected[c]
           room == [rooms[r] EXCEPT !.streaming = @ \cup {c}]
           new == ToEveryone(room, c)
           shared == [room EXCEPT !.sessions = @ \cup new]
<1>1. CASE Fail(c)
  BY <1>1, FailMesh DEF StartShare
<1>2. ASSUME HasRoom(c)
      PROVE  /\ r \in DOMAIN rooms /\ r \in RoomIDs /\ c \in rooms[r].users
             /\ IsUser(connected, rooms, c)
             /\ RoomOK(room)
             /\ room.users = rooms[r].users /\ room.owners = rooms[r].owners
             /\ room.streaming = rooms[r].streaming \cup {c}
             /\ room.sessions = rooms[r].sessions
             /\ room.closeOnOwnerLeave = rooms[r].closeOnOwnerLeave
             /\ shared.users = rooms[r].users
             /\ shared.streaming = rooms[r].streaming \cup {c}
  BY <1>2, SharedFacts DEF StartShare
<1>3. CASE /\ HasRoom(c)
           /\ executeNoError(connected, Put(rooms, r, room), usersJoined, c)
  <2> DEFINE rms == Put(rooms, r, room)
  <2>1. /\ DOMAIN rms = DOMAIN rooms
        /\ rms[r] = room
        /\ \A q \in DOMAIN rooms \ {r} : rms[q] = rooms[q]
    BY <1>2, <1>3 DEF Put
  <2>2. executeNoError(connected, rms, usersJoined, c)
    BY <1>3
  <2> HIDE DEF rms, room
  <2>3. MapsOK(connected, rms)
    BY <1>2, <1>3, <2>1 DEF Core, MapsOK
  <2>4. AgreeOn(connected, rms)
    BY <1>2, <1>3, <2>1 DEF Core, AgreeOn
  <2>5. SoundOn(rms)
    BY <1>2, <1>3, <2>1 DEF Core, SoundOn
  <2>6. IsUser(connected, rms, c)
    BY <1>2, <1>3, <2>1 DEF IsUser
  <2>7. LeaveRoom(connected, rms, c) /\ upgraded' = upgraded
    BY <2>2, <2>6 DEF executeNoError, LeaveNoRoom
  <2>8. OthersOK /\ c \in DOMAIN connected
    BY DEF Core, StartShare, Accepts
  <2>9. PICK S \in SUBSET Clients, p \in RoomIDs : Gone(connected, rms, c, S, p)
    BY <2>3, <2>4, <2>5, <2>7, <2>8, LeaveRoomMesh
  <2>10. p = r
    BY <2>9 DEF Gone
  <2>11. \A q \in DOMAIN rooms : /\ rms[q].users = rooms[q].users
                                 /\ rms[q].owners = rooms[q].owners
                                 /\ rms[q].closeOnOwnerLeave = rooms[q].closeOnOwnerLeave
                                 /\ rms[q].streaming = IF q = r THEN rooms[q].streaming \cup {c}
                                                                ELSE rooms[q].streaming
    BY <1>2, <1>3, <2>1
  <2>12. ASSUME NEW q \in RoomIDs
         PROVE  /\ Mem(rooms', q) = Mem(rooms, q) \ S
                /\ Str(rooms', q) = Str(rooms, q) \ S
    <3>1. /\ Mem(rooms', q) = Mem(rms, q) \ S
          /\ Str(rooms', q) = Str(rms, q) \ S
          /\ c \in S
      BY <2>9 DEF Gone
    <3>2. /\ Mem(rms, q) = Mem(rooms, q)
          /\ Str(rms, q) = IF q = r THEN Str(rooms, q) \cup {c} ELSE Str(rooms, q)
      BY <1>2, <1>3, <2>1, <2>11 DEF Mem, Str
    <3>3. QED
      BY <3>1, <3>2
  <2>13. Mem(rms, r) = Mem(rooms, r)
    BY <1>2, <1>3, <2>1, <2>11 DEF Mem
  <2>14. MeshLeaves(S, p)
    BY <2>9, <2>10, <2>12, <2>13 DEF MeshLeaves, Gone
  <2>15. Mesh!Leave(S, p)
    BY <2>14, LeaveIsLeave
  <2>16. ForCause
    <3>1. CASE S = {c}
      BY <2>9, <3>1, OneGoes DEF Gone
    <3>2. CASE S # {c}
      <4>1. /\ S = rooms[r].users /\ rooms[r].closeOnOwnerLeave
            /\ r \in DOMAIN rooms \ DOMAIN rooms'
        BY <1>2, <1>3, <2>1, <2>9, <2>10, <2>11, <3>2 DEF Gone
      <4>2. S \subseteq DOMAIN connected
        BY <4>1 DEF Core, AgreeOn
      <4>3. DOMAIN connected \ DOMAIN connected' = S
        BY <2>9, <4>2 DEF Gone
      <4>4. QED
        BY <4>1, <4>3 DEF ForCause
    <3>3. QED
      BY <3>1, <3>2
  <2>17. QED
    BY <2>15, <2>16 DEF MeshStep, Mesh!MeshNext
<1>4. CASE /\ HasRoom(c)
           /\ newSessions(r, room, new)
           /\ connected' = connected
  <2>1. rooms' = Put(rooms, r, shared) /\ upgraded' = upgraded
    BY <1>4 DEF newSessions
  <2> HIDE DEF room, new, shared
  <2>2. /\ DOMAIN rooms' = DOMAIN rooms
        /\ rooms'[r] = shared
        /\ \A q \in DOMAIN rooms \ {r} : rooms'[q] = rooms[q]
    BY <1>2, <1>4, <2>1 DEF Put
  <2>3. ASSUME NEW q \in RoomIDs
        PROVE  /\ Mem(rooms', q) = Mem(rooms, q)
               /\ Str(rooms', q) = IF q = r THEN Str(rooms, q) \cup {c} ELSE Str(rooms, q)
    BY <1>2, <1>4, <2>2 DEF Mem, Str
  <2>4. c \in Mem(rooms, r)
    BY <1>2, <1>4 DEF Mem
  <2>5. PICK p \in RoomIDs : p = r
    BY <1>2, <1>4
  <2>6. MeshShares(c, p)
    BY <1>4, <2>1, <2>3, <2>4, <2>5 DEF MeshShares, Left
  <2>7. Mesh!Share(c, p)
    BY <2>6, ShareIsShare
  <2>8. ForCause
    BY <1>4, OneGoes
  <2>9. QED
    BY <2>7, <2>8 DEF MeshStep, Mesh!MeshNext
<1>5. QED
  BY <1>1, <1>3, <1>4 DEF StartShare

LEMMA StopShareMesh ==
    ASSUME Empty \notin RoomIDs, Core, Core', NEW c \in Clients, StopShare(c)
    PROVE  MeshStep /\ ForCause
<1> DEFINE r == connected[c]
           ended == HostedBy(rooms[r], c)
           room == [rooms[r] EXCEPT !.streaming = @ \ {c}, !.sessions = @ \ ended]
<1>1. CASE Fail(c)
  BY <1>1, FailMesh DEF StopShare
<1>2. CASE HasRoom(c) /\ ~Fail(c)
  <2>1. /\ r \in DOMAIN rooms /\ r \in RoomIDs /\ c \in rooms[r].users /\ RoomOK(rooms[r])
        /\ rooms' = Put(rooms, r, room) /\ connected' = connected
        /\ upgraded' = upgraded
    BY <1>2, OwnRoom DEF StopShare
  <2>2. /\ room.users = rooms[r].users
        /\ room.streaming = rooms[r].streaming \ {c}
    BY <2>1 DEF RoomOK, Room
  <2> HIDE DEF room, ended
  <2>3. /\ DOMAIN rooms' = DOMAIN rooms
        /\ rooms'[r] = room
        /\ \A q \in DOMAIN rooms \ {r} : rooms'[q] = rooms[q]
    BY <2>1 DEF Put
  <2>4. \A q \in DOMAIN rooms \ {r} : c \notin rooms[q].streaming
    BY <2>1 DEF Core, AgreeOn, MapsOK, RoomOK
  <2>5. ASSUME NEW q \in RoomIDs
        PROVE  /\ Mem(rooms', q) = Mem(rooms, q)
               /\ Str(rooms', q) = Str(rooms, q) \ {c}
    BY <2>1, <2>2, <2>3, <2>4 DEF Mem, Str
  <2>6. MeshStops(c, r)
    BY <2>1, <2>5 DEF MeshStops, Left, Mem
  <2>7. Mesh!Unshare(c)
    BY <2>1, <2>6, StopIsUnshare
  <2>8. ForCause
    BY <2>1, OneGoes
  <2>9. QED
    BY <2>7, <2>8 DEF MeshStep, Mesh!MeshNext
<1>3. QED
  BY <1>1, <1>2 DEF StopShare

LEMMA NameMesh ==
    ASSUME Empty \notin RoomIDs, Core, Core', NEW c \in Clients, NEW name \in Names,
           Name(c, name)
    PROVE  MeshStep /\ ForCause
<1> DEFINE r == connected[c]
           room == [rooms[r] EXCEPT !.names[c] = name]
<1>1. CASE Fail(c)
  BY <1>1, FailMesh DEF Name
<1>2. CASE HasRoom(c) /\ ~Fail(c)
  <2>1. /\ r \in DOMAIN rooms /\ RoomOK(rooms[r])
        /\ rooms' = Put(rooms, r, room) /\ connected' = connected
        /\ upgraded' = upgraded
    BY <1>2, OwnRoom DEF Name
  <2>2. room.users = rooms[r].users /\ room.streaming = rooms[r].streaming
    BY <2>1 DEF RoomOK, Room
  <2> HIDE DEF room
  <2>3. \A q \in RoomIDs : Mem(rooms', q) = Mem(rooms, q) /\ Str(rooms', q) = Str(rooms, q)
    BY <2>1, <2>2 DEF Put, Mem, Str
  <2>4. MeshStays({})
    BY <2>1, <2>3 DEF MeshStays, Left
  <2>5. QED
    BY <2>1, <2>4, StaysIsStutter, OneGoes DEF MeshStep
<1>3. QED
  BY <1>1, <1>2 DEF Name

LEMMA RelayMesh ==
    ASSUME Empty \notin RoomIDs, Core, Core', NEW c \in Clients, NEW s, NEW from,
           Relay(c, s, from)
    PROVE  MeshStep /\ ForCause
<1>1. CASE Fail(c)
  BY <1>1, FailMesh DEF Relay
<1>2. CASE UNCHANGED vars
  <2>1. MeshStays({}) /\ connected' = connected
    BY <1>2 DEF vars, MeshStays, Mem, Str, Left
  <2>2. QED
    BY <2>1, StaysIsStutter, OneGoes DEF MeshStep
<1>3. QED
  BY <1>1, <1>2 DEF Relay

\* Every step of the server is a step of the mesh, or none, and removes
\* connections only for cause.
LEMMA StepsAreMeshSteps ==
    ASSUME Empty \notin RoomIDs
    PROVE  /\ Init => Mesh!MeshInit
           /\ Core /\ Core' /\ [Next]_vars
                => [Mesh!MeshNext]_(Mesh!meshVars) /\ [ForCause]_vars
<1>1. Init => Mesh!MeshInit
  BY DEF Init, Mesh!MeshInit, LiveSessions
<1>2. ASSUME Core, Core', [Next]_vars
      PROVE  [Mesh!MeshNext]_(Mesh!meshVars) /\ [ForCause]_vars
  <2>1. CASE UNCHANGED vars
    <3>1. MeshStays({})
      BY <2>1 DEF vars, MeshStays, Mem, Str, Left
    <3>2. QED
      BY <1>2, <2>1, <3>1, StaysIsStutter
  <2> SUFFICES ASSUME Next PROVE MeshStep /\ ForCause
    BY <1>2, <2>1 DEF MeshStep
  <2>2. ASSUME NEW c \in Clients, Connected(c) PROVE MeshStep /\ ForCause
    <3>1. MeshStays({}) /\ DOMAIN connected \subseteq DOMAIN connected'
      BY <2>2 DEF Connected, Put, MeshStays, Mem, Str, Left
    <3>2. QED
      BY <1>2, <2>2, <3>1, StaysIsStutter, OneGoes DEF MeshStep
  <2>3. ASSUME NEW c \in Clients, Disconnected(c) PROVE MeshStep /\ ForCause
    BY <1>2, <2>3, FailMesh DEF Disconnected
  <2>4. ASSUME NEW c \in Clients, NEW id \in RoomIDs, NEW name \in Names,
               NEW ipFails \in BOOLEAN, Join(c, id, name, ipFails)
        PROVE  MeshStep /\ ForCause
    BY <1>2, <2>4, JoinRoomMesh DEF Join
  <2>5. ASSUME NEW c \in Clients, NEW id \in RoomIDs, NEW name \in Names,
               NEW ipFails \in BOOLEAN, NEW mode \in Modes,
               NEW close \in BOOLEAN, NEW join \in BOOLEAN,
               Create(c, id, mode, close, join, name, ipFails)
        PROVE  MeshStep /\ ForCause
    BY <1>2, <2>5, CreateMesh
  <2>6. ASSUME NEW c \in Clients, NEW ipFails \in BOOLEAN, StartShare(c, ipFails)
        PROVE  MeshStep /\ ForCause
    BY <1>2, <2>6, StartShareMesh
  <2>7. ASSUME NEW c \in Clients, StopShare(c) PROVE MeshStep /\ ForCause
    BY <1>2, <2>7, StopShareMesh
  <2>8. ASSUME NEW c \in Clients, NEW name \in Names, Name(c, name)
        PROVE  MeshStep /\ ForCause
    BY <1>2, <2>8, NameMesh
  <2>9. ASSUME NEW c \in Clients, NEW s \in Nameable,
               \/ HostOffer(c, s) \/ HostICE(c, s)
               \/ ClientAnswer(c, s) \/ ClientICE(c, s)
        PROVE  MeshStep /\ ForCause
    BY <1>2, <2>9, RelayMesh DEF HostOffer, HostICE, ClientAnswer, ClientICE
  <2>10. QED
    BY <2>2, <2>3, <2>4, <2>5, <2>6, <2>7, <2>8, <2>9 DEF Next
<1>3. QED
  BY <1>1, <1>2

\* The signalling server implements the mesh: whatever the clients send, fail and
\* retry, what they see of each other is entering, sharing, unsharing and leaving.
THEOREM ServerIsAMesh == Empty \notin RoomIDs => (Spec => ImplementsMesh)
<1> SUFFICES ASSUME Empty \notin RoomIDs PROVE Spec => ImplementsMesh
  OBVIOUS
<1>1. /\ Init => Mesh!MeshInit
      /\ Core /\ Core' /\ [Next]_vars
            => [Mesh!MeshNext]_(Mesh!meshVars) /\ [ForCause]_vars
  BY StepsAreMeshSteps
<1>2. Spec => []Core
  BY CoreAlways
<1>3. QED
  BY <1>1, <1>2, PTL DEF Spec, ImplementsMesh, Mesh!MeshSpec

\* One message never throws out two connections, unless the owner of a room that
\* closes with its owner has left it.
THEOREM NobodyLeavesWithoutCause == Empty \notin RoomIDs => (Spec => LeaveForCause)
<1> SUFFICES ASSUME Empty \notin RoomIDs PROVE Spec => LeaveForCause
  OBVIOUS
<1>1. /\ Init => Mesh!MeshInit
      /\ Core /\ Core' /\ [Next]_vars
            => [Mesh!MeshNext]_(Mesh!meshVars) /\ [ForCause]_vars
  BY StepsAreMeshSteps
<1>2. Spec => []Core
  BY CoreAlways
<1>3. Spec => [][ForCause]_vars
  BY <1>1, <1>2, PTL DEF Spec
<1>4. QED
  BY <1>3, PTL DEF ForCause, LeaveForCause

-------------------------------------------------------------------------------
(* What the mesh means, for any set of clients and rooms: a client is in one    *)
(* place, and links are exactly "shares my room, shares its screen".  AnyMesh is *)
(* ShareMesh with variables of its own, Mesh the one that Rooms implements.     *)

VARIABLES members, sharing, links, left
AnyMesh == INSTANCE ShareMesh

\* Members and sharers are clients, and only members share.
MeshOK ==
    /\ members \in [RoomIDs -> SUBSET Clients]
    /\ sharing \subseteq AnyMesh!Present

MeshInv == MeshOK /\ AnyMesh!OnePlace /\ AnyMesh!LinksExact

LEMMA EnterPreserves ==
    ASSUME MeshInv, NEW c \in Clients, NEW r \in RoomIDs, AnyMesh!Enter(c, r)
    PROVE  MeshInv'
<1> USE DEF AnyMesh!Enter, MeshInv, MeshOK, AnyMesh!Present
<1>1. MeshOK'
  OBVIOUS
<1>2. AnyMesh!OnePlace'
  BY DEF AnyMesh!OnePlace
<1>3. AnyMesh!LinksExact'
  <2>1. c \notin sharing
    OBVIOUS
  <2>2. ASSUME NEW h, NEW d PROVE <<h, d>> \in links' <=>
            /\ h \in sharing /\ d \in Clients /\ h # d
            /\ \E q \in RoomIDs : {h, d} \subseteq members'[q]
    <3>1. <<h, d>> \in links' <=>
              <<h, d>> \in links \/ (h \in sharing \cap members[r] /\ d = c)
      OBVIOUS
    <3>2. <<h, d>> \in links <=>
              /\ h \in sharing /\ d \in Clients /\ h # d
              /\ \E q \in RoomIDs : {h, d} \subseteq members[q]
      BY DEF AnyMesh!LinksExact
    <3>3. \A q \in RoomIDs : members'[q] = IF q = r THEN members[q] \cup {c}
                                                    ELSE members[q]
      OBVIOUS
    <3>4. h \in sharing => h # c
      BY <2>1
    <3> QED
      BY <3>1, <3>2, <3>3, <3>4
  <2>3. \A l \in links' : l = <<l[1], l[2]>>
    BY DEF AnyMesh!LinksExact
  <2>4. QED
    BY <2>2, <2>3 DEF AnyMesh!LinksExact
<1>4. QED
  BY <1>1, <1>2, <1>3

LEMMA SharePreserves ==
    ASSUME MeshInv, NEW c \in Clients, NEW r \in RoomIDs, AnyMesh!Share(c, r)
    PROVE  MeshInv'
<1> USE DEF AnyMesh!Share, MeshInv, MeshOK, AnyMesh!Present
<1>1. MeshOK' /\ AnyMesh!OnePlace'
  BY DEF AnyMesh!OnePlace
<1>2. AnyMesh!LinksExact'
  <2>1. ASSUME NEW h, NEW d PROVE <<h, d>> \in links' <=>
            /\ h \in sharing' /\ d \in Clients /\ h # d
            /\ \E q \in RoomIDs : {h, d} \subseteq members[q]
    <3>1. <<h, d>> \in links' <=>
              <<h, d>> \in links \/ (h = c /\ d \in members[r] \ {c})
      OBVIOUS
    <3>2. <<h, d>> \in links <=>
              /\ h \in sharing /\ d \in Clients /\ h # d
              /\ \E q \in RoomIDs : {h, d} \subseteq members[q]
      BY DEF AnyMesh!LinksExact
    <3>3. \A q \in RoomIDs : c \in members[q] => q = r
      BY DEF AnyMesh!OnePlace
    <3> QED
      BY <3>1, <3>2, <3>3
  <2>2. \A l \in links' : l = <<l[1], l[2]>>
    BY DEF AnyMesh!LinksExact
  <2>3. QED
    BY <2>1, <2>2 DEF AnyMesh!LinksExact
<1>3. QED
  BY <1>1, <1>2

LEMMA UnsharePreserves ==
    ASSUME MeshInv, NEW c \in Clients, AnyMesh!Unshare(c)
    PROVE  MeshInv'
<1> USE DEF AnyMesh!Unshare, MeshInv, MeshOK, AnyMesh!Present
<1>1. MeshOK' /\ AnyMesh!OnePlace'
  BY DEF AnyMesh!OnePlace
<1>2. AnyMesh!LinksExact'
  <2>1. ASSUME NEW h, NEW d PROVE <<h, d>> \in links' <=>
            /\ h \in sharing' /\ d \in Clients /\ h # d
            /\ \E q \in RoomIDs : {h, d} \subseteq members[q]
    BY DEF AnyMesh!LinksExact
  <2>2. \A l \in links' : l = <<l[1], l[2]>>
    BY DEF AnyMesh!LinksExact
  <2>3. QED
    BY <2>1, <2>2 DEF AnyMesh!LinksExact
<1>3. QED
  BY <1>1, <1>2

LEMMA LeavePreserves ==
    ASSUME MeshInv, NEW S \in SUBSET Clients, NEW r \in RoomIDs, AnyMesh!Leave(S, r)
    PROVE  MeshInv'
<1> USE DEF AnyMesh!Leave, MeshInv, MeshOK, AnyMesh!Present
<1>1. \A q \in RoomIDs : members'[q] = members[q] \ S
  BY DEF AnyMesh!OnePlace
<1>2. MeshOK'
  BY <1>1
<1>3. AnyMesh!OnePlace'
  BY <1>1 DEF AnyMesh!OnePlace
<1>4. AnyMesh!LinksExact'
  <2>1. ASSUME NEW h, NEW d PROVE <<h, d>> \in links' <=>
            /\ h \in sharing' /\ d \in Clients /\ h # d
            /\ \E q \in RoomIDs : {h, d} \subseteq members'[q]
    <3>1. <<h, d>> \in links' <=> <<h, d>> \in links /\ h \notin S /\ d \notin S
      BY DEF AnyMesh!LinksExact
    <3>2. <<h, d>> \in links <=>
              /\ h \in sharing /\ d \in Clients /\ h # d
              /\ \E q \in RoomIDs : {h, d} \subseteq members[q]
      BY DEF AnyMesh!LinksExact
    <3> QED
      BY <1>1, <3>1, <3>2
  <2>2. \A l \in links' : l = <<l[1], l[2]>>
    BY DEF AnyMesh!LinksExact
  <2>3. QED
    BY <2>1, <2>2 DEF AnyMesh!LinksExact
<1>5. QED
  BY <1>2, <1>3, <1>4

\* The invariant of the mesh, from which both promises follow.
LEMMA MeshInvAlways == AnyMesh!MeshSpec => []MeshInv
<1>1. AnyMesh!MeshInit => MeshInv
  BY DEF AnyMesh!MeshInit, MeshInv, MeshOK, AnyMesh!OnePlace, AnyMesh!LinksExact, AnyMesh!Present
<1>2. MeshInv /\ [AnyMesh!MeshNext]_AnyMesh!meshVars => MeshInv'
  <2> SUFFICES ASSUME MeshInv, [AnyMesh!MeshNext]_AnyMesh!meshVars PROVE MeshInv'
    OBVIOUS
  <2>1. CASE UNCHANGED AnyMesh!meshVars
    BY <2>1 DEF AnyMesh!meshVars, MeshInv, MeshOK, AnyMesh!OnePlace, AnyMesh!LinksExact, AnyMesh!Present
  <2>2. ASSUME NEW c \in Clients, AnyMesh!GiveUp(c) PROVE MeshInv'
    BY <2>2 DEF AnyMesh!GiveUp, MeshInv, MeshOK, AnyMesh!OnePlace, AnyMesh!LinksExact, AnyMesh!Present
  <2>3. ASSUME NEW c \in Clients, AnyMesh!Unshare(c) PROVE MeshInv'
    BY <2>3, UnsharePreserves
  <2>4. ASSUME NEW c \in Clients, NEW r \in RoomIDs, AnyMesh!Enter(c, r) PROVE MeshInv'
    BY <2>4, EnterPreserves
  <2>5. ASSUME NEW c \in Clients, NEW r \in RoomIDs, AnyMesh!Share(c, r) PROVE MeshInv'
    BY <2>5, SharePreserves
  <2>6. ASSUME NEW S \in SUBSET Clients, NEW r \in RoomIDs, AnyMesh!Leave(S, r) PROVE MeshInv'
    BY <2>6, LeavePreserves
  <2>7. QED
    BY <2>1, <2>2, <2>3, <2>4, <2>5, <2>6 DEF AnyMesh!MeshNext
<1>3. QED
  BY <1>1, <1>2, PTL DEF AnyMesh!MeshSpec

\* Whoever sees a screen shares a room with its owner, who is sharing; and
\* whoever shares is seen by the whole room: what the rooms of the server are for.
THEOREM SeeingIsSharing == AnyMesh!MeshSpec => []AnyMesh!LinksExact
<1>1. MeshInv => AnyMesh!LinksExact
  BY DEF MeshInv
<1>2. QED
  BY <1>1, MeshInvAlways, PTL

\* A connection is in at most one room, and in none once it has left.
THEOREM InOnePlace == AnyMesh!MeshSpec => []AnyMesh!OnePlace
<1>1. MeshInv => AnyMesh!OnePlace
  BY DEF MeshInv
<1>2. QED
  BY <1>1, MeshInvAlways, PTL
===============================================================================
