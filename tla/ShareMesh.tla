------------------------------ MODULE ShareMesh ------------------------------
(***************************************************************************)
(* What the signalling server promises its users, without sessions,        *)
(* messages or credentials: who is together in a room, who shares, and who *)
(* therefore sees whom.  Module Rooms implements it.                        *)
(***************************************************************************)
EXTENDS FiniteSets

CONSTANTS Clients, RoomIDs

VARIABLES
    members,    \* the clients in each room
    sharing,    \* the clients that share their screen
    links,      \* <<h, c>>: c sees the screen of h
    left        \* clients that are gone; they never come back
meshVars == <<members, sharing, links, left>>

Present == UNION {members[r] : r \in RoomIDs}

MeshInit ==
    /\ members = [r \in RoomIDs |-> {}]
    /\ sharing = {}
    /\ links = {}
    /\ left = {}

\* c, in no room, enters room r and sees whoever shares there.
Enter(c, r) ==
    /\ c \notin Present \cup left
    /\ members' = [members EXCEPT ![r] = @ \cup {c}]
    /\ links' = links \cup ((sharing \cap members[r]) \X {c})
    /\ UNCHANGED <<sharing, left>>

\* c shares: everybody else in the room sees it.
Share(c, r) ==
    /\ c \in members[r]
    /\ sharing' = sharing \cup {c}
    /\ links' = links \cup ({c} \X (members[r] \ {c}))
    /\ UNCHANGED <<members, left>>

Unshare(c) ==
    /\ c \in Present
    /\ sharing' = sharing \ {c}
    /\ links' = links \ ({c} \X Clients)
    /\ UNCHANGED <<members, left>>

\* The clients S of room r leave for good: one of them, or the whole room.
Leave(S, r) ==
    /\ S = members[r] \/ \E c \in members[r] : S = {c}
    /\ S # {}
    /\ members' = [members EXCEPT ![r] = @ \ S]
    /\ sharing' = sharing \ S
    /\ links' = links \cap ((Clients \ S) \X (Clients \ S))
    /\ left' = left \cup S

\* A client that is in no room leaves.
GiveUp(c) ==
    /\ c \notin Present \cup left
    /\ left' = left \cup {c}
    /\ UNCHANGED <<members, sharing, links>>

MeshNext ==
    \/ \E c \in Clients : Unshare(c) \/ GiveUp(c)
    \/ \E c \in Clients, r \in RoomIDs : Enter(c, r) \/ Share(c, r)
    \/ \E S \in SUBSET Clients, r \in RoomIDs : Leave(S, r)

MeshSpec == MeshInit /\ [][MeshNext]_meshVars
-----------------------------------------------------------------------------
\* Seeing is exactly sharing a room with somebody who shares.
LinksExact ==
    links = {l \in sharing \X Clients :
                /\ l[1] # l[2]
                /\ \E r \in RoomIDs : {l[1], l[2]} \subseteq members[r]}

\* Nobody is in two rooms, and nobody who left is in one.
OnePlace ==
    /\ \A r, q \in RoomIDs : r # q => members[r] \cap members[q] = {}
    /\ Present \cap left = {}
=============================================================================
