---------------------------- MODULE FallbackPeers ----------------------------
(* The fallback page (ui_failsafe.py) as host and as viewers, with the server   *)
(* between them: sessions, offers, answers and ICE candidates, handled by async *)
(* functions that interleave at every await, and sockets that are lost and      *)
(* opened again while the page and its peer connections stay.                   *)
(*                                                                              *)
(* A socket that is opened again is a new user to the server, which may not     *)
(* have noticed the end of the old one. The server is that of module Rooms, for *)
(* one room, as far as these pages use it.                                      *)
EXTENDS Naturals, Sequences, FiniteSets, SequencesExt, Queues

CONSTANTS
    Viewers,    \* pages of viewers
    Host,       \* the page of the host
    MaxLosses,  \* bound: sockets that are lost
    MaxShares,  \* bound: calls of startShare
    MaxIce,     \* bound: candidates of all sessions and both ends together
    MaxConns    \* bound: connections of a page that are let in

ASSUME PagesAssumption == Host \notin Viewers /\ IsFiniteSet(Viewers)
ASSUME BoundsAssumption ==
    /\ MaxLosses \in Nat /\ MaxShares \in Nat
    /\ MaxIce \in Nat /\ MaxConns \in Nat

VARIABLES
    ws,         \* the WebSocket of each page
    id,         \* id[p]: p has this number of connections that were let in
    losses,
    up, down,   \* messages under way to the server and to the page
    in,         \* connections in the room
    streaming,  \* connections of the host that the server takes for presenters
    sharer,     \* sharer[n]: the connection that sent the n-th share
    live,       \* sessions of the server
    asking,     \* startShare waits for a screen
    asks,
    stream,     \* activeStream is set
    peer,       \* how far each end of a session is with its peer connection
    ice         \* candidates of each end of a session: sent, kept, added

vars == <<ws, id, losses, up, down, in, streaming, sharer, live, asking, asks, stream,
          peer, ice>>
serverVars == <<in, streaming, sharer, live>>
shareVars == <<asking, asks, stream>>
peerVars == <<peer, ice>>
socketVars == <<ws, id, losses>>

Pages == Viewers \union {Host}
Conns == Pages \X (1 .. MaxConns)
PageOf(c) == c[1]
Shares == 1 .. MaxShares
Session == [share : Shares, viewer : Conns]
NoSession == [share |-> 0, viewer |-> <<Host, 0>>]
Ends == {"host", "client"}

\* The page of an end of a session, and the connection it belongs to.
Page(s, end) == IF end = "host" THEN Host ELSE PageOf(s.viewer)
Conn(s, end) == IF end = "host" THEN <<Host, sharer[s.share]>> ELSE s.viewer
Other(end) == IF end = "host" THEN "client" ELSE "host"

Msg(kind, s) == [kind |-> kind, session |-> s]
Offer == [host |-> "hostoffer", client |-> "clientanswer"]
Candidate == [host |-> "hostice", client |-> "clientice"]

\* A session that the server has just made, when no page knows of it.
NoPeers == [e \in Ends |-> "none"]
NoIce == [e \in Ends |-> [sent |-> 0, kept |-> 0, added |-> 0]]

Init ==
    /\ ws = [p \in Pages |-> "closed"]
    /\ id = [p \in Pages |-> 0]
    /\ losses = 0
    /\ up = [p \in Pages |-> <<>>] /\ down = [p \in Pages |-> <<>>]
    /\ in = {} /\ streaming = {} /\ live = {}
    /\ sharer = [n \in Shares |-> 0]
    /\ asking = 0 /\ asks = 0 /\ stream = FALSE
    /\ peer = <<>> /\ ice = <<>>

-------------------------------------------------------------------------------
\* Sockets.

IsOpen(p) == ws[p] # "closed"
Current(p) == <<p, id[p]>>
Reached(c) == ws[PageOf(c)] = "in" /\ c = Current(PageOf(c))

\* What is sent on a socket that is not open is lost.
Send(p, m) == up' = IF IsOpen(p) THEN [up EXCEPT ![p] = Append(@, m)] ELSE up

\* onopen sends create or join; the host also calls startShare.
Open(p) ==
    /\ ws[p] = "closed"
    /\ id[p] < MaxConns
    /\ ws' = [ws EXCEPT ![p] = "entering"]
    /\ IF p = Host /\ asks < MaxShares
       THEN asks' = asks + 1 /\ asking' = asking + 1
       ELSE UNCHANGED <<asks, asking>>
    /\ UNCHANGED <<id, losses, up, down, serverVars, stream, peerVars>>

\* What the server has read of a closed socket, and would still execute until it
\* notices the end, is dropped here. On the other hand a connection that the server
\* throws out (Pass) stays in the room until Notice, while the code removes it at once.
Close(p) ==
    /\ ws' = [ws EXCEPT ![p] = "closed"]
    /\ up' = [up EXCEPT ![p] = <<>>]
    /\ down' = [down EXCEPT ![p] = <<>>]

\* The page notices at once, the server some time later.
Lose(p) ==
    /\ IsOpen(p)
    /\ losses < MaxLosses
    /\ losses' = losses + 1
    /\ Close(p)
    /\ UNCHANGED <<id, serverVars, shareVars, peerVars>>

-------------------------------------------------------------------------------
\* The server.

Known == DOMAIN peer

\* newSession: both ends of each new session are told, each in any order; by says
\* who hosts.
MutantNewSessions(new, by) ==       \* before the one that enters is registered
    LET told(p) == {s \in new : <<p, id'[p]>> \in {<<Host, by[s.share]>>, s.viewer}}
        msg(p, s) == Msg(IF s.viewer = <<p, id'[p]>> THEN "clientsession" ELSE "hostsession", s)
    IN  /\ live' = live \union new
        /\ peer' = [s \in Known \union new |-> IF s \in new THEN NoPeers ELSE peer[s]]
        /\ ice' = [s \in Known \union new |-> IF s \in new THEN NoIce ELSE ice[s]]
        /\ \E order \in [Pages -> UNION {SetToSeqs(told(p)) : p \in Pages}] :
              /\ \A p \in Pages : order[p] \in SetToSeqs(told(p))
              /\ down' = [p \in Pages |->
                    IF ws[p] = "in"
                    THEN down[p] \o [i \in DOMAIN order[p] |-> msg(p, order[p][i])]
                    ELSE down[p]]
NewSessions(new, by) ==
    LET told(p) == {s \in new : <<p, id'[p]>> \in {<<Host, by[s.share]>>, s.viewer}}
        msg(p, s) == Msg(IF s.viewer = <<p, id'[p]>> THEN "clientsession" ELSE "hostsession", s)
    IN  /\ live' = live \union new
        /\ peer' = [s \in Known \union new |-> IF s \in new THEN NoPeers ELSE peer[s]]
        /\ ice' = [s \in Known \union new |-> IF s \in new THEN NoIce ELSE ice[s]]
        /\ \E order \in [Pages -> UNION {SetToSeqs(told(p)) : p \in Pages}] :
              /\ \A p \in Pages : order[p] \in SetToSeqs(told(p))
              /\ down' = [p \in Pages |->
                    IF ws'[p] = "in"
                    THEN down[p] \o [i \in DOMAIN order[p] |-> msg(p, order[p][i])]
                    ELSE down[p]]

\* The shares that go on: for each connection that presents, its last.
Latest ==
    {n \in Shares : sharer[n] \in streaming /\ \A k \in Shares : sharer[k] = sharer[n] => k <= n}

\* The host creates the room or joins it; a viewer is refused, and tries again,
\* as long as there is no room.
Enter(p) ==
    /\ ws[p] = "entering"
    /\ p = Host \/ in # {}
    /\ id' = [id EXCEPT ![p] = @ + 1]
    /\ ws' = [ws EXCEPT ![p] = "in"]
    /\ in' = in \union {<<p, id[p] + 1>>}
    /\ NewSessions([share : Latest, viewer : {<<p, id[p] + 1>>}], sharer)
    /\ UNCHANGED <<losses, up, streaming, sharer, shareVars>>

Refuse(p) ==
    /\ ws[p] = "entering"
    /\ p # Host /\ in = {}
    /\ Close(p)
    /\ UNCHANGED <<id, losses, serverVars, shareVars, peerVars>>

Takes(p, m) ==
    /\ ws[p] = "in"
    /\ up[p] # <<>>
    /\ m = Head(up[p])

TakeShare ==
    /\ Takes(Host, Msg("share", NoSession))
    /\ UNCHANGED <<ws, id, losses, in, shareVars>>
    /\ up' = [up EXCEPT ![Host] = Tail(@)]
    /\ LET n == Cardinality({k \in Shares : sharer[k] # 0}) + 1 IN
          /\ sharer' = [sharer EXCEPT ![n] = id[Host]]
          /\ streaming' = streaming \union {id[Host]}
          /\ NewSessions([share : {n}, viewer : in \ {Current(Host)}], [sharer EXCEPT ![n] = id[Host]])

\* The sessions ended are closed. EndShare goes to their other ends, and carries
\* the id as an array of numbers (see module Signaling): peerConnections has no
\* such key, and is not empty, so the page does nothing.
MutantEndSessions(ended) == live' = live       \* they outlast the connection
EndSessions(ended) == live' = live \ ended

TakeStopShare ==
    /\ Takes(Host, Msg("stopshare", NoSession))
    /\ up' = [up EXCEPT ![Host] = Tail(@)]
    /\ streaming' = streaming \ {id[Host]}
    /\ EndSessions({s \in live : Conn(s, "host") = Current(Host)})
    /\ UNCHANGED <<socketVars, down, in, sharer, shareVars, peerVars>>

\* Offers, answers and candidates are passed on; who sends one for a session of
\* another connection is thrown out, even if that is an earlier one of its own.
Pass(s, end) ==
    LET p == Page(s, end)  c == Conn(s, Other(end)) IN
    \E m \in {Msg(Offer[end], s), Msg(Candidate[end], s)} :
        /\ Takes(p, m)
        /\ IF s \in live /\ Conn(s, end) # Current(p)
           THEN Close(p)
           ELSE /\ up' = [up EXCEPT ![p] = Tail(@)]
                /\ down' = IF s \in live /\ Reached(c)
                           THEN [down EXCEPT ![PageOf(c)] = Append(@, m)] ELSE down
                /\ UNCHANGED ws
        /\ UNCHANGED <<id, losses, serverVars, shareVars, peerVars>>

\* Disconnected: the server notices that a connection is gone.
Notice(c) ==
    /\ c \in in
    /\ ~Reached(c)
    /\ in' = in \ {c}
    /\ streaming' = IF PageOf(c) = Host THEN streaming \ {c[2]} ELSE streaming
    /\ EndSessions({s \in live : c \in {Conn(s, "host"), s.viewer}})
    /\ UNCHANGED <<socketVars, up, down, sharer, shareVars, peerVars>>

-------------------------------------------------------------------------------
\* The host.

AskToShare ==
    /\ asks < MaxShares
    /\ asks' = asks + 1
    /\ asking' = asking + 1
    /\ UNCHANGED <<socketVars, up, down, serverVars, stream, peerVars>>

ShareGranted ==
    /\ asking > 0
    /\ asking' = asking - 1
    /\ stream' = TRUE
    /\ Send(Host, Msg("share", NoSession))
    /\ UNCHANGED <<socketVars, down, serverVars, asks, peerVars>>

StopShare ==
    /\ stream
    /\ stream' = FALSE
    /\ Send(Host, Msg("stopshare", NoSession))
    /\ UNCHANGED <<socketVars, down, serverVars, asking, asks, peerVars>>

-------------------------------------------------------------------------------
\* ws.onmessage, which does not wait for the handler of the message before.
Gets(p, m) ==
    /\ IsOpen(p)
    /\ down[p] # <<>>
    /\ m = Head(down[p])
    /\ down' = [down EXCEPT ![p] = Tail(@)]

Set(s, end, at) == peer' = [peer EXCEPT ![s][end] = at]

\* "hostsession" and "clientsession": a peer connection is made.
GetSession(s, end) ==
    /\ Gets(Page(s, end), Msg(IF end = "host" THEN "hostsession" ELSE "clientsession", s))
    /\ Set(s, end, IF end = "host" THEN "setting" ELSE "new")
    /\ ice' = [ice EXCEPT ![s][Other(end)].kept = 0]
    /\ UNCHANGED <<socketVars, up, serverVars, shareVars>>

\* "hostoffer" and "clientanswer": setRemoteDescription, if there is a peer.
GetOffer(s, from) ==
    /\ Gets(Page(s, Other(from)), Msg(Offer[from], s))
    /\ IF peer[s][Other(from)] = "none" THEN UNCHANGED peer ELSE Set(s, Other(from), "describing")
    /\ UNCHANGED <<socketVars, up, serverVars, shareVars, ice>>

\* pc.remoteDescription is set.
Described(s, end) ==
    peer[s][end] \in {"draining", "done"} \union IF end = "host" THEN {} ELSE {"setting"}

\* "hostice" and "clientice": the candidate is added, or kept until the peer
\* connection has its remote description.
MutantGetIce(s, from) ==       \* a candidate that comes too early is dropped
    /\ Gets(Page(s, Other(from)), Msg(Candidate[from], s))
    /\ ice' = IF Described(s, Other(from)) THEN [ice EXCEPT ![s][from].added = @ + 1] ELSE ice
    /\ UNCHANGED <<socketVars, up, serverVars, shareVars, peer>>
GetIce(s, from) ==
    /\ Gets(Page(s, Other(from)), Msg(Candidate[from], s))
    /\ ice' = IF Described(s, Other(from))
              THEN [ice EXCEPT ![s][from].added = @ + 1]
              ELSE [ice EXCEPT ![s][from].kept = @ + 1]
    /\ UNCHANGED <<socketVars, up, serverVars, shareVars, peer>>

-------------------------------------------------------------------------------
\* What goes on after an await.

\* createOffer or createAnswer and setLocalDescription are done.
LocalSet(s, end) ==
    /\ peer[s][end] = "setting"
    /\ Set(s, end, IF end = "host" THEN "offered" ELSE "done")
    /\ Send(Page(s, end), Msg(Offer[end], s))
    /\ UNCHANGED <<socketVars, down, serverVars, shareVars, ice>>

RemoteSet(s, end) ==
    /\ peer[s][end] = "describing"
    /\ Set(s, end, "draining")
    /\ UNCHANGED <<socketVars, up, down, serverVars, shareVars, ice>>

\* The candidates that were kept are added, one await for each.
Drain(s, end) ==
    /\ peer[s][end] = "draining"
    /\ IF ice[s][Other(end)].kept > 0
       THEN /\ ice' = [ice EXCEPT ![s][Other(end)].kept = @ - 1, ![s][Other(end)].added = @ + 1]
            /\ UNCHANGED peer
       ELSE /\ Set(s, end, IF end = "host" THEN "done" ELSE "setting")
            /\ UNCHANGED ice
    /\ UNCHANGED <<socketVars, up, down, serverVars, shareVars>>

\* onicecandidate, from setLocalDescription on.
Gather(s, end) ==
    /\ peer[s][end] \in {"setting", "done"} \union
                        IF end = "host" THEN {"offered", "describing", "draining"} ELSE {}
    /\ MapThenSumSet(LAMBDA x : ice[x[1]][x[2]].sent, Known \X Ends) < MaxIce
    /\ ice' = [ice EXCEPT ![s][end].sent = @ + 1]
    /\ Send(Page(s, end), Msg(Candidate[end], s))
    /\ UNCHANGED <<socketVars, down, serverVars, shareVars, peer>>

-------------------------------------------------------------------------------
Serve(p) ==
    \/ Enter(p) \/ Refuse(p)
    \/ p = Host /\ (TakeShare \/ TakeStopShare)
    \/ \E s \in Known, e \in Ends : Page(s, e) = p /\ Pass(s, e)

Handle(p) ==
    \E s \in Known, e \in Ends :
        Page(s, e) = p /\ (GetSession(s, e) \/ GetOffer(s, Other(e)) \/ GetIce(s, Other(e)))

Continue ==
    \E s \in Known, e \in Ends : LocalSet(s, e) \/ RemoteSet(s, e) \/ Drain(s, e)

Next ==
    \/ \E p \in Pages : Open(p) \/ Lose(p) \/ Serve(p) \/ Handle(p)
    \/ \E c \in in : Notice(c)
    \/ Continue
    \/ \E s \in Known, e \in Ends : Gather(s, e)
    \/ AskToShare \/ ShareGranted \/ StopShare

Spec == Init /\ [][Next]_vars

-------------------------------------------------------------------------------
Kinds == {"hostsession", "clientsession", "share", "stopshare"}
             \union {Offer[e] : e \in Ends} \union {Candidate[e] : e \in Ends}
Message == [kind : Kinds, session : Session \union {NoSession}]

TypeOK ==
    /\ ws \in [Pages -> {"closed", "entering", "in"}]
    /\ id \in [Pages -> 0 .. MaxConns]
    /\ losses \in 0 .. MaxLosses
    /\ up \in [Pages -> Seq(Message)] /\ down \in [Pages -> Seq(Message)]
    /\ in \subseteq Conns /\ streaming \subseteq 1 .. MaxConns
    /\ sharer \in [Shares -> 0 .. MaxConns]
    /\ live \subseteq Session
    /\ asking \in 0 .. MaxShares /\ asks \in 0 .. MaxShares /\ stream \in BOOLEAN
    /\ Known \subseteq Session /\ DOMAIN ice = Known
    /\ peer \in [Known -> [Ends -> {"none", "new", "setting", "offered", "describing",
                                    "draining", "done"}]]
    /\ ice \in [Known -> [Ends -> [sent : 0 .. MaxIce, kept : 0 .. MaxIce, added : 0 .. MaxIce]]]

OnTheWay(s, end) ==
    Count(up[Page(s, end)], Msg(Candidate[end], s))
    + Count(down[Page(s, Other(end))], Msg(Candidate[end], s))

\* No candidate is lost or added twice, whatever it overtakes: while a session and
\* both its connections last, each one sent is on its way, kept or added, and none
\* stays kept once the handler of the offer or answer is through.
IceComplete ==
    \A s \in live, e \in Ends :
        /\ (\A f \in Ends : Reached(Conn(s, f))) =>
               ice[s][e].sent = OnTheWay(s, e) + ice[s][e].kept + ice[s][e].added
        /\ Described(s, Other(e)) /\ peer[s][Other(e)] # "draining" => ice[s][e].kept = 0

\* An offer, an answer or a candidate finds the peer connection it is meant for, in
\* the state that it needs, though it and the session were announced by way of
\* different sockets, which may have been replaced meanwhile.
MessagesFindPeers ==
    \A p \in Pages : down[p] # <<>> =>
        LET m == Head(down[p])  s == m.session IN
        /\ m.kind = "hostoffer" => peer[s].client = "new"
        /\ m.kind = "hostice" => peer[s].client # "none"
        /\ m.kind = "clientanswer" => peer[s].host = "offered"
        /\ m.kind = "clientice" => peer[s].host \notin {"none", "setting"}

\* The server throws nobody out but a page of which it still takes an earlier, lost
\* connection for one in the room, and whose peer connections go on sending.
ThrownOut(p) == ws[p] = "in" /\ ws'[p] = "closed" /\ losses' = losses
NobodyThrownOut ==
    [][\A p \in Pages : ThrownOut(p) => \E c \in in : PageOf(c) = p /\ c # Current(p)]_vars
=============================================================================
