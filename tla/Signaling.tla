------------------------------ MODULE Signaling ------------------------------
(***************************************************************************)
(* A presenter, its viewers and the server between them: how a session of   *)
(* the server becomes a pair of peer connections, by messages that arrive   *)
(* in order on each WebSocket but independently on two, and by promises.    *)
(* The presenter and the viewers are pages (ui/src/useRoom.ts).  The server *)
(* is module Rooms for one room and one presenter, with its messages.       *)
(***************************************************************************)
EXTENDS Naturals, FiniteSets, Sequences, SequencesExt

CONSTANTS
    Viewers,
    Presenter,
    MaxShares       \* bound: how often the presenter starts to share

ASSUME SignalingAssumption ==
    Presenter \notin Viewers /\ IsFiniteSet(Viewers) /\ MaxShares \in Nat

VARIABLES
    in,         \* viewers in the room
    left,       \* viewers whose page is closed
    hosting,    \* the server's Streaming flag of the presenter
    shares,     \* share messages executed
    live,       \* Room.Sessions
    up, down,   \* per page, the messages to and from the server
    clicks,     \* how often the presenter started to share
    presenting, \* stream.current of the presenter is set
    hostPeer,   \* per session, the presenter's peer connection
    viewPeer,   \* per session, the viewer's peer connection
    tile        \* per viewer, the session whose picture it shows
vars == <<in, left, hosting, shares, live, up, down, clicks, presenting, hostPeer,
          viewPeer, tile>>

serverVars == <<in, hosting, shares, live>>
hostVars == <<clicks, presenting, hostPeer>>
viewVars == <<left, viewPeer, tile>>

\* A share creates one session per viewer, a join one for the share going on.
Session == [viewer : Viewers, share : 1 .. MaxShares]
None == [viewer |-> Presenter, share |-> 0]

Pages == Viewers \cup {Presenter}
Message == [kind : {"share", "stopshare", "hostsession", "clientsession",
                    "hostoffer", "clientanswer", "endshare"},
            session : Session \cup {None}]
Msg(kind, s) == [kind |-> kind, session |-> s]

Sent(p, m) == [up EXCEPT ![p] = Append(@, m)]

Init ==
    /\ in = {} /\ left = {} /\ hosting = FALSE /\ shares = 0 /\ live = {}
    /\ up = [p \in Pages |-> <<>>] /\ down = [p \in Pages |-> <<>>]
    /\ clicks = 0 /\ presenting = FALSE
    /\ hostPeer = [s \in Session |-> "none"]
    /\ viewPeer = [s \in Session |-> "none"]
    /\ tile = [v \in Viewers |-> None]
-----------------------------------------------------------------------------
\* The server.

\* newSession for each session of the sequence new, of which a viewer has one at
\* most: HostSession to the presenter, ClientSession to the viewer.
newSessions(new) ==
    [p \in Pages |->
        down[p] \o (IF p = Presenter
                    THEN [i \in DOMAIN new |-> Msg("hostsession", new[i])]
                    ELSE LET mine == {i \in DOMAIN new : new[i].viewer = p}
                         IN  IF mine = {} THEN <<>>
                             ELSE <<Msg("clientsession", new[CHOOSE i \in mine : TRUE])>>)]

\* The messages EndShare to page p for the sessions of the set ended.  EndShare
\* is a type of its own over xid.ID and has none of its methods, so its JSON is
\* an array of numbers: no key of the pages' records of peer connections.
EndShareKey(s) == None
EndShares(p, ended) ==
    LET order == SetToSeq(ended)
    IN  [i \in DOMAIN order |-> Msg("endshare", EndShareKey(order[i]))]

\* The sessions of a viewer that joins now.
MutantOnJoin(v) == <<>>
OnJoin(v) == IF hosting THEN <<[viewer |-> v, share |-> shares]>> ELSE <<>>

Join(v) ==
    /\ v \notin in \cup left
    /\ in' = in \cup {v}
    /\ live' = live \cup {s \in Session : \E i \in DOMAIN OnJoin(v) : OnJoin(v)[i] = s}
    /\ down' = newSessions(OnJoin(v))
    /\ UNCHANGED <<hosting, shares, up, hostVars, viewVars>>

\* The main loop takes the first message of page p.
Takes(p, kind, s) ==
    /\ up[p] # <<>> /\ Head(up[p]) = Msg(kind, s)
    /\ up' = [up EXCEPT ![p] = Tail(@)]

TakeShare ==
    /\ Takes(Presenter, "share", None)
    /\ hosting' = TRUE
    /\ shares' = shares + 1
    /\ LET new == [viewer : in, share : {shares + 1}]
       IN  /\ live' = live \cup new
           /\ \E order \in SetToSeqs(new) : down' = newSessions(order)
    /\ UNCHANGED <<in, hostVars, viewVars>>

\* The sessions that end with their viewer.
Ending(v) == {s \in live : s.viewer = v}

TakeStopShare ==
    /\ Takes(Presenter, "stopshare", None)
    /\ hosting' = FALSE
    /\ live' = {}
    /\ down' = [p \in Pages |-> down[p] \o EndShares(p, Ending(p))]
    /\ UNCHANGED <<in, shares, hostVars, viewVars>>

\* A peer-to-peer message goes to the other end, if the session still exists.
TakeOffer(s) ==
    /\ Takes(Presenter, "hostoffer", s)
    /\ down' = IF s \in live
               THEN [down EXCEPT ![s.viewer] = Append(@, Msg("hostoffer", s))]
               ELSE down
    /\ UNCHANGED <<serverVars, hostVars, viewVars>>

TakeAnswer(s) ==
    /\ Takes(s.viewer, "clientanswer", s)
    /\ down' = IF s \in live
               THEN [down EXCEPT ![Presenter] = Append(@, Msg("clientanswer", s))]
               ELSE down
    /\ UNCHANGED <<serverVars, hostVars, viewVars>>

\* Disconnected of a viewer whose page is closed; messages of it that are still
\* waiting will be ignored.
Leave(v) ==
    /\ v \in in \cap left
    /\ in' = in \ {v}
    /\ live' = live \ Ending(v)
    /\ down' = [down EXCEPT ![v] = <<>>,
                            ![Presenter] = @ \o EndShares(Presenter, Ending(v))]
    /\ up' = [up EXCEPT ![v] = <<>>]
    /\ UNCHANGED <<hosting, shares, hostVars, viewVars>>
-----------------------------------------------------------------------------
\* The presenter's page.

\* share() and stopShare(), whose awaits are in module Presentation.
Share ==
    /\ ~presenting /\ clicks < MaxShares
    /\ clicks' = clicks + 1
    /\ presenting' = TRUE
    /\ up' = Sent(Presenter, Msg("share", None))
    /\ UNCHANGED <<serverVars, down, hostPeer, viewVars>>

\* stopShare closes what is in host.current; a peer connection whose offer is
\* not ready is not there yet.
MutantAfterStop(at) == at
AfterStop(at) == IF at \in {"offered", "answered"} THEN "closed" ELSE at

StopShare ==
    /\ presenting
    /\ presenting' = FALSE
    /\ hostPeer' = [s \in Session |-> AfterStop(hostPeer[s])]
    /\ up' = Sent(Presenter, Msg("stopshare", None))
    /\ UNCHANGED <<serverVars, down, clicks, viewVars>>

\* ws.onmessage of page p.
Gets(p, kind, s) ==
    /\ down[p] # <<>> /\ Head(down[p]) = Msg(kind, s)
    /\ down' = [down EXCEPT ![p] = Tail(@)]

GetHostSession(s) ==
    /\ Gets(Presenter, "hostsession", s)
    /\ hostPeer' = [hostPeer EXCEPT ![s] = IF presenting THEN "offering" ELSE "closed"]
    /\ UNCHANGED <<serverVars, up, clicks, presenting, viewVars>>

\* hostSession() sends its offer and resolves: the peer connection is stored
\* before the next message can arrive.
OfferReady(s) ==
    /\ hostPeer[s] = "offering"
    /\ hostPeer' = [hostPeer EXCEPT ![s] = "offered"]
    /\ up' = Sent(Presenter, Msg("hostoffer", s))
    /\ UNCHANGED <<serverVars, down, clicks, presenting, viewVars>>

GetAnswer(s) ==
    /\ Gets(Presenter, "clientanswer", s)
    /\ hostPeer' = [hostPeer EXCEPT ![s] = IF @ = "offered" THEN "answered" ELSE @]
    /\ UNCHANGED <<serverVars, up, clicks, presenting, viewVars>>

HostGetsEndShare(s) ==
    /\ Gets(Presenter, "endshare", s)
    /\ hostPeer' = [r \in Session |-> IF r = s THEN "closed" ELSE hostPeer[r]]
    /\ UNCHANGED <<serverVars, up, clicks, presenting, viewVars>>

\* onconnectionstatechange: a connection that was made is lost when the other
\* end is closed.
MutantHostLost(s) == hostPeer[s] \in {"offered", "answered"} /\ viewPeer[s] # "answered"
HostLost(s) == hostPeer[s] = "answered" /\ viewPeer[s] = "closed"

HostNotices(s) ==
    /\ HostLost(s)
    /\ hostPeer' = [hostPeer EXCEPT ![s] = "closed"]
    /\ UNCHANGED <<serverVars, up, down, clicks, presenting, viewVars>>
-----------------------------------------------------------------------------
\* The page of a viewer.

GetClientSession(s) ==
    /\ Gets(s.viewer, "clientsession", s)
    /\ viewPeer' = [viewPeer EXCEPT ![s] = "new"]
    /\ UNCHANGED <<serverVars, up, hostVars, left, tile>>

\* setRemoteDescription of the offer fires ontrack, which shows the picture in
\* place of an older one of the same presenter.  (For an unknown session the
\* page would answer with nothing; see MessagesFindPeers.)
GetOffer(s) ==
    /\ Gets(s.viewer, "hostoffer", s)
    /\ viewPeer' = [viewPeer EXCEPT ![s] = IF @ = "new" THEN "answering" ELSE @]
    /\ tile' = IF viewPeer[s] = "new" THEN [tile EXCEPT ![s.viewer] = s] ELSE tile
    /\ UNCHANGED <<serverVars, up, hostVars, left>>

AnswerReady(s) ==
    /\ viewPeer[s] = "answering"
    /\ viewPeer' = [viewPeer EXCEPT ![s] = "answered"]
    /\ up' = Sent(s.viewer, Msg("clientanswer", s))
    /\ UNCHANGED <<serverVars, down, hostVars, left, tile>>

\* The viewer's end of s is closed: its picture goes.
Closes(s) ==
    /\ viewPeer' = [r \in Session |-> IF r = s THEN "closed" ELSE viewPeer[r]]
    /\ tile' = [v \in Viewers |-> IF tile[v] = s THEN None ELSE tile[v]]

ViewerGetsEndShare(v, s) ==
    /\ Gets(v, "endshare", s)
    /\ Closes(s)
    /\ UNCHANGED <<serverVars, up, hostVars, left>>

\* onconnectionstatechange: the connection is lost or never comes about.
ViewerNotices(s) ==
    /\ viewPeer[s] \in {"answering", "answered"} /\ hostPeer[s] = "closed"
    /\ Closes(s)
    /\ UNCHANGED <<serverVars, up, down, hostVars, left>>

ClosePage(v) ==
    /\ v \in in \ left
    /\ left' = left \cup {v}
    /\ viewPeer' = [s \in Session |-> IF s.viewer = v THEN "closed" ELSE viewPeer[s]]
    /\ tile' = [tile EXCEPT ![v] = None]
    /\ down' = [down EXCEPT ![v] = <<>>]
    /\ UNCHANGED <<serverVars, up, hostVars>>
-----------------------------------------------------------------------------
Server ==
    \/ TakeShare \/ TakeStopShare
    \/ \E s \in Session : TakeOffer(s) \/ TakeAnswer(s)
    \/ \E v \in Viewers : Leave(v)

\* What the presenter's page does without its user.
Host ==
    \/ \E s \in Session : GetHostSession(s) \/ GetAnswer(s)
    \/ \E s \in Session \cup {None} : HostGetsEndShare(s)

Viewer(v) ==
    /\ v \notin left
    /\ \/ \E s \in Session : s.viewer = v /\ (GetClientSession(s) \/ GetOffer(s))
       \/ \E s \in Session \cup {None} : ViewerGetsEndShare(v, s)

Next ==
    \/ Share \/ StopShare \/ Server \/ Host
    \/ \E s \in Session :
          \/ OfferReady(s) \/ HostNotices(s)
          \/ s.viewer \notin left /\ (AnswerReady(s) \/ ViewerNotices(s))
    \/ \E v \in Viewers : Join(v) \/ ClosePage(v) \/ Viewer(v)

\* The main loop, the event loops of open pages and their promises go on.
Fairness ==
    /\ WF_vars(TakeShare) /\ WF_vars(TakeStopShare) /\ WF_vars(Host)
    /\ \A v \in Viewers : WF_vars(Leave(v)) /\ WF_vars(Viewer(v))
    /\ \A s \in Session :
          /\ WF_vars(TakeOffer(s)) /\ WF_vars(TakeAnswer(s))
          /\ WF_vars(OfferReady(s)) /\ WF_vars(HostNotices(s))
          /\ WF_vars(s.viewer \notin left /\ AnswerReady(s))
          /\ WF_vars(s.viewer \notin left /\ ViewerNotices(s))

Spec == Init /\ [][Next]_vars
FairSpec == Spec /\ Fairness
-----------------------------------------------------------------------------
\* Every variable has its type, and a session ends with its viewer.
TypeOK ==
    /\ in \subseteq Viewers /\ left \subseteq Viewers
    /\ hosting \in BOOLEAN /\ presenting \in BOOLEAN
    /\ shares \in 0 .. MaxShares /\ clicks \in 0 .. MaxShares
    /\ live \subseteq Session
    /\ \A s \in live : s.viewer \in in
    /\ up \in [Pages -> Seq(Message)] /\ down \in [Pages -> Seq(Message)]
    /\ hostPeer \in [Session -> {"none", "offering", "offered", "answered", "closed"}]
    /\ viewPeer \in [Session -> {"none", "new", "answering", "answered", "closed"}]
    /\ tile \in [Viewers -> Session \cup {None}]

\* An offer finds the viewer's peer connection, though it and the ClientSession
\* it belongs to come by way of two pages.
OffersFindPeers ==
    \A s \in Session :
        s.viewer \notin left /\ down[s.viewer] # <<>>
        /\ Head(down[s.viewer]) = Msg("hostoffer", s) => viewPeer[s] = "new"

\* An answer finds the presenter's peer connection, unless its share has been
\* stopped or its viewer has gone meanwhile.
AnswersFindPeers ==
    \A s \in live :
        /\ down[Presenter] # <<>>
        /\ Head(down[Presenter]) = Msg("clientanswer", s)
        /\ \A i \in DOMAIN up[Presenter] : up[Presenter][i].kind # "stopshare"
        => hostPeer[s] = "offered"

\* No message of a session arrives before or after the peer connection it is for.
MessagesFindPeers == OffersFindPeers /\ AnswersFindPeers

\* Whoever is in a room with a presenter gets to see the screen: one session that
\* goes on is connected at both ends and on show, in whatever order share, join,
\* the messages and the promises come.
SharingIsSeen ==
    \A v \in Viewers :
        hosting /\ v \in in ~> \/ ~hosting \/ v \notin in
                               \/ tile[v] \in live /\ hostPeer[tile[v]] = "answered"

\* No viewer keeps the picture of a session that has ended.
TilesEnd ==
    \A s \in Session :
        tile[s.viewer] = s /\ s \notin live ~> tile[s.viewer] # s

\* The message endshare carries the id of the session that ended
\* (ui/src/message.ts:86), for the page to close its end: a viewer that has answered
\* the offer of a session has no such peer connection left when it has handled the
\* endshare of it, and so (Closes) does not show its picture either.
EndedIsClosed ==
    \A s \in Session :
        s \notin live /\ down[s.viewer] = <<>> => viewPeer[s] # "answered"
=============================================================================
