-------------------------- MODULE FallbackPeersProofs --------------------------
(***************************************************************************)
(* Theorems about FallbackPeers, for any number of viewers, connections,     *)
(* losses, shares and candidates.                                           *)
(***************************************************************************)
EXTENDS FallbackPeers, QueueLemmas

Told == [host |-> "hostsession", client |-> "clientsession"]

\* What a page sends, and what is sent to it.
FromPage(p) ==
    {Msg(k, NoSession) : k \in {l \in {"share", "stopshare"} : p = Host}}
    \cup {Msg(k, s) : k \in {Offer["host"], Candidate["host"]}, s \in {r \in Session : p = Host}}
    \cup {Msg(k, s) : k \in {Offer["client"], Candidate["client"]},
                      s \in {r \in Session : p = PageOf(r.viewer)}}
ToPage(p) ==
    {Msg(k, s) : k \in {Told["host"], Offer["client"], Candidate["client"]},
                 s \in {r \in Session : p = Host}}
    \cup {Msg(k, s) : k \in {Told["client"], Offer["host"], Candidate["host"]},
                      s \in {r \in Session : p = PageOf(r.viewer)}}

UpOK == DOMAIN up = Pages /\ \A p \in Pages : up[p] \in Seq(FromPage(p))
DownOK == DOMAIN down = Pages /\ \A p \in Pages : down[p] \in Seq(ToPage(p))

\* The messages Msg(k, s) in the two queues of page q.
Up(q, k, s) == Count(up[q], Msg(k, s))
Down(q, k, s) == Count(down[q], Msg(k, s))

\* What is on its way for session s: that it begins, to end e; the offer or answer of
\* end e. Its candidates are OnTheWay(s, e).
Announced(s, e) == Down(Page(s, e), Told[e], s)
Offers(s, e) == Up(Page(s, e), Offer[e], s) + Down(Page(s, Other(e)), Offer[e], s)
Nothing(s, e) ==
    \A k \in {Told[e], Offer[Other(e)], Candidate[Other(e)]} : Down(Page(s, e), k, s) = 0

\* The announcement comes before all else.
Order(s, e) ==
    \A k \in {Offer[Other(e)], Candidate[Other(e)]} :
        Ahead(down[Page(s, e)], Msg(Told[e], s), Msg(k, s))

\* A session that has not been made.
Unborn(s) ==
    s \notin Known =>
        \A e \in Ends : Announced(s, e) = 0 /\ Offers(s, e) = 0 /\ OnTheWay(s, e) = 0

\* A session belongs to two connections that were let in.
Made(s) ==
    s \in Known =>
        /\ sharer[s.share] \in 1 .. id[Host]
        /\ s.viewer[2] \in 1 .. id[PageOf(s.viewer)]
        /\ s \in live => Conn(s, "host") \in in /\ s.viewer \in in

\* The two ends are as far as the messages between them tell.
Stage(s) ==
    s \in Known =>
        LET h == peer[s]["host"]
            c == peer[s]["client"]
        IN  /\ h \in {"none", "setting", "offered", "describing", "draining", "done"}
            /\ c \in {"none", "new", "describing", "draining", "setting", "done"}
            /\ Offers(s, "host") <= 1 /\ Offers(s, "client") <= 1
            /\ Offers(s, "host") > 0 => h = "offered" /\ c \in {"none", "new"}
            /\ Offers(s, "client") > 0 => h = "offered" /\ c = "done"
            /\ c \in {"describing", "draining", "setting"} => h = "offered"
            /\ c = "done" => h \in {"offered", "describing", "draining", "done"}
            /\ h \in {"describing", "draining", "done"} => c = "done"
            /\ OnTheWay(s, "client") > 0 => h \notin {"none", "setting"}

\* What is on its way to end e of s is for the connection that e's page has now.
End(s, e) ==
    s \in Known =>
        /\ IF Reached(Conn(s, e))
           THEN Announced(s, e) = IF peer[s][e] = "none" THEN 1 ELSE 0
           ELSE Nothing(s, e)
        /\ Order(s, e)
        /\ \/ peer[s][e] = "none"
           \/ Described(s, e) /\ peer[s][e] # "draining"
           => ice[s][Other(e)].kept = 0

\* The candidates of end e of s, while both connections last.
Ice(s, e) ==
    s \in live /\ Reached(Conn(s, "host")) /\ Reached(s.viewer) =>
        ice[s][e].sent = OnTheWay(s, e) + ice[s][e].kept + ice[s][e].added

SessionOK(s) ==
    /\ Unborn(s) /\ Made(s) /\ Stage(s)
    /\ \A e \in Ends : End(s, e) /\ Ice(s, e)

\* Connections.
RoomOK ==
    /\ \A p \in Pages : /\ ws[p] = "in" => Current(p) \in in
                        /\ ws[p] = "entering" => id[p] < MaxConns
    /\ \A c \in in : c[2] <= id[PageOf(c)]
    /\ \A h \in streaming : <<Host, h>> \in in

\* Shares have the numbers 1, 2, ... up to that of the last one.
Numbered(m) ==
    /\ \A n \in Shares : sharer[n] # 0 <=> n <= m
    /\ m + Up(Host, "share", NoSession) + asking <= asks
ShareOK == \E m \in Nat : Numbered(m)

VarsOK ==
    /\ ws \in [Pages -> {"closed", "entering", "in"}]
    /\ id \in [Pages -> 0 .. MaxConns]
    /\ in \subseteq Conns /\ streaming \subseteq 1 .. MaxConns
    /\ sharer \in [Shares -> 0 .. MaxConns] /\ losses \in Nat
    /\ asking \in Nat /\ asks \in 0 .. MaxShares
    /\ Known \subseteq Session /\ live \subseteq Known
    /\ peer \in [Known -> [Ends -> {"none", "new", "setting", "offered", "describing",
                                    "draining", "done"}]]
    /\ ice \in [Known -> [Ends -> [sent : Nat, kept : Nat, added : Nat]]]

PeersInv ==
    /\ VarsOK /\ UpOK /\ DownOK /\ RoomOK /\ ShareOK
    /\ \A s \in Session : SessionOK(s)
-----------------------------------------------------------------------------
\* Messages, pages and ends.

Bit(b) == IF b THEN 1 ELSE 0

LEMMA MsgIs == \A k, l, s, r : Msg(k, s) = Msg(l, r) <=> k = l /\ s = r
<1> SUFFICES ASSUME NEW k, NEW l, NEW s, NEW r PROVE Msg(k, s) = Msg(l, r) <=> k = l /\ s = r
  OBVIOUS
<1>1. Msg(k, s).kind = k /\ Msg(k, s).session = s /\ Msg(l, r).kind = l /\ Msg(l, r).session = r
  BY DEF Msg
<1> QED
  BY <1>1

\* The kinds of messages differ, by themselves and by the end they come from.
LEMMA KindsAre ==
    /\ \A e \in Ends, f \in Ends :
          /\ Told[e] # Offer[f] /\ Told[e] # Candidate[f] /\ Offer[e] # Candidate[f]
          /\ e # f => Told[e] # Told[f] /\ Offer[e] # Offer[f] /\ Candidate[e] # Candidate[f]
          /\ Told[e] \notin {"share", "stopshare"} /\ Offer[e] \notin {"share", "stopshare"}
          /\ Candidate[e] \notin {"share", "stopshare"}
  BY DEF Ends, Told, Offer, Candidate

LEMMA EndsAre ==
    /\ "host" \in Ends /\ "client" \in Ends /\ "host" # "client"
    /\ \A e \in Ends : /\ Other(e) \in Ends /\ Other(e) # e /\ Other(Other(e)) = e
                       /\ e = "host" \/ e = "client"
    /\ Other("host") = "client" /\ Other("client") = "host"
  BY DEF Ends, Other

LEMMA SessionIs ==
    /\ Host \in Pages /\ NoSession \notin Session
    /\ \A s \in Session : /\ s.share \in Shares /\ s.viewer \in Conns
                          /\ PageOf(s.viewer) \in Pages /\ s.viewer[2] \in 1 .. MaxConns
                          /\ s = [share |-> s.share, viewer |-> s.viewer]
                          /\ s.viewer = <<PageOf(s.viewer), s.viewer[2]>>
    /\ \A s \in Session, e \in Ends : Page(s, e) \in Pages
<1>1. \A s \in Session : s.share \in Shares /\ s.viewer \in Conns
  BY DEF Session
<1>2. \A s \in Session : s = [share |-> s.share, viewer |-> s.viewer]
  BY DEF Session
<1>3. \A c \in Conns : PageOf(c) \in Pages /\ c[2] \in 1 .. MaxConns /\ c = <<PageOf(c), c[2]>>
  BY DEF Conns, PageOf
<1>4. NoSession.share = 0 /\ 0 \notin Shares
  BY BoundsAssumption DEF NoSession, Shares
<1>5. Host \in Pages
  BY DEF Pages
<1> QED
  BY <1>1, <1>2, <1>3, <1>4, <1>5 DEF Page

\* What may be sent by whom, and to whom.
LEMMA Sending ==
    /\ Msg("share", NoSession) \in FromPage(Host) /\ Msg("stopshare", NoSession) \in FromPage(Host)
    /\ \A s \in Session, e \in Ends :
          /\ Msg(Offer[e], s) \in FromPage(Page(s, e)) /\ Msg(Candidate[e], s) \in FromPage(Page(s, e))
          /\ Msg(Told[e], s) \in ToPage(Page(s, e))
          /\ Msg(Offer[Other(e)], s) \in ToPage(Page(s, e))
          /\ Msg(Candidate[Other(e)], s) \in ToPage(Page(s, e))
<1>1. Msg("share", NoSession) \in FromPage(Host) /\ Msg("stopshare", NoSession) \in FromPage(Host)
  BY DEF FromPage
<1>2. ASSUME NEW s \in Session, NEW e \in Ends
      PROVE  /\ Msg(Offer[e], s) \in FromPage(Page(s, e)) /\ Msg(Candidate[e], s) \in FromPage(Page(s, e))
             /\ Msg(Told[e], s) \in ToPage(Page(s, e))
             /\ Msg(Offer[Other(e)], s) \in ToPage(Page(s, e))
             /\ Msg(Candidate[Other(e)], s) \in ToPage(Page(s, e))
  <2>1. CASE e = "host"
    <3>1. Page(s, e) = Host /\ Other(e) = "client"
      BY <2>1 DEF Page, Other
    <3>2. s \in {r \in Session : Host = Host}
      OBVIOUS
    <3> QED
      BY <2>1, <3>1, <3>2 DEF FromPage, ToPage
  <2>2. CASE e = "client"
    <3>1. Page(s, e) = PageOf(s.viewer) /\ Other(e) = "host"
      BY <2>2 DEF Page, Other
    <3>2. s \in {r \in Session : PageOf(s.viewer) = PageOf(r.viewer)}
      OBVIOUS
    <3> QED
      BY <2>2, <3>1, <3>2 DEF FromPage, ToPage
  <2> QED
    BY <2>1, <2>2, EndsAre
<1> QED
  BY <1>1, <1>2
-----------------------------------------------------------------------------
\* What is on its way when a message is sent or taken.

Ups == \A q \in Pages : \A k, r : Up(q, k, r) \in Nat
Downs == \A q \in Pages : \A k, r : Down(q, k, r) \in Nat

LEMMA UpsAre == UpOK => Ups
<1>1. ASSUME UpOK PROVE \A p \in Pages : \A m : Count(up[p], m) \in Nat
  BY <1>1, CountIs DEF UpOK
<1> QED
  BY <1>1 DEF Ups, Up

LEMMA DownsAre == DownOK => Downs
<1>1. ASSUME DownOK PROVE \A p \in Pages : \A m : Count(down[p], m) \in Nat
  BY <1>1, CountIs DEF DownOK
<1> QED
  BY <1>1 DEF Downs, Down

LEMMA NumbersAre ==
    UpOK /\ DownOK => \A s \in Session, e \in Ends :
        Announced(s, e) \in Nat /\ Offers(s, e) \in Nat /\ OnTheWay(s, e) \in Nat
<1> SUFFICES ASSUME UpOK, DownOK, NEW s \in Session, NEW e \in Ends
             PROVE  Announced(s, e) \in Nat /\ Offers(s, e) \in Nat /\ OnTheWay(s, e) \in Nat
  OBVIOUS
<1>1. Page(s, e) \in Pages /\ Page(s, Other(e)) \in Pages
  BY SessionIs, EndsAre
<1>2. \A p \in Pages : \A m : Count(up[p], m) \in Nat /\ Count(down[p], m) \in Nat
  BY CountIs DEF UpOK, DownOK
<1> QED
  BY <1>1, <1>2 DEF Announced, Offers, OnTheWay, Up, Down

UpSent(p, k, x) ==
    /\ UpOK'
    /\ \A q \in Pages : \A l, y :
          Up(q, l, y)' = Up(q, l, y) + Bit(q = p /\ l = k /\ y = x /\ IsOpen(p))
UpTaken(p, k, x) ==
    /\ UpOK' /\ Msg(k, x) \in FromPage(p)
    /\ \A q \in Pages : \A l, y : Up(q, l, y)' + Bit(q = p /\ l = k /\ y = x) = Up(q, l, y)
DownSent(p, k, x) ==
    /\ DownOK'
    /\ \A q \in Pages : \A l, y : Down(q, l, y)' = Down(q, l, y) + Bit(q = p /\ l = k /\ y = x)
    /\ \A s \in Session, e \in Ends : Order(s, e) /\ k # Told[e] => Order(s, e)'
DownTaken(p, k, x) ==
    /\ DownOK' /\ Msg(k, x) \in ToPage(p)
    /\ \A q \in Pages : \A l, y : Down(q, l, y)' + Bit(q = p /\ l = k /\ y = x) = Down(q, l, y)
    /\ \A s \in Session, e \in Ends :
          /\ Order(s, e) => Order(s, e)'
          /\ /\ Order(s, e)
             /\ p = Page(s, e) /\ x = s /\ k \in {Offer[Other(e)], Candidate[Other(e)]}
             => Announced(s, e) = 0

LEMMA UpSending ==
    ASSUME UpOK, NEW p \in Pages, NEW k, NEW x, Msg(k, x) \in FromPage(p), Send(p, Msg(k, x))
    PROVE  UpSent(p, k, x)
<1> DEFINE m == Msg(k, x)
<1>1. CASE IsOpen(p)
  <2>1. /\ DOMAIN up' = Pages
        /\ \A q \in Pages : q # p => up'[q] = up[q]
        /\ up'[p] = Append(up[p], m)
    BY <1>1 DEF UpOK, Send
  <2>2. Added(FromPage(p), up[p], up'[p], m)
    BY <2>1, Adding DEF UpOK
  <2>3. UpOK'
    <3>1. \A q \in Pages : up'[q] \in Seq(FromPage(q))
      BY <2>1, <2>2 DEF UpOK, Added
    <3> QED
      BY <2>1, <3>1 DEF UpOK, FromPage
  <2>4. ASSUME NEW q \in Pages, NEW l, NEW y
        PROVE  Count(up'[q], Msg(l, y)) = Count(up[q], Msg(l, y)) + Bit(q = p /\ l = k /\ y = x)
    <3>1. Count(up[q], Msg(l, y)) \in Nat
      BY CountIs DEF UpOK
    <3>2. CASE q # p
      BY <2>1, <3>1, <3>2 DEF Bit
    <3>3. CASE q = p
      BY <2>2, <3>1, <3>3, MsgIs DEF Added, Bit
    <3> QED
      BY <3>2, <3>3
  <2> QED
    BY <1>1, <2>3, <2>4 DEF UpSent, Up, Bit
<1>2. CASE ~IsOpen(p)
  <2>1. up' = up
    BY <1>2 DEF Send
  <2>2. UpOK'
    BY <2>1 DEF UpOK, FromPage
  <2>3. \A q \in Pages : \A l, y : Count(up[q], Msg(l, y)) \in Nat
    BY CountIs DEF UpOK
  <2> QED
    BY <1>2, <2>1, <2>2, <2>3 DEF UpSent, Up, Bit
<1> QED
  BY <1>1, <1>2

LEMMA UpTaking ==
    ASSUME UpOK, NEW p \in Pages, NEW k, NEW x, Takes(p, Msg(k, x)),
           up' = [up EXCEPT ![p] = Tail(@)]
    PROVE  UpTaken(p, k, x)
<1> DEFINE m == Msg(k, x)
<1>1. /\ DOMAIN up' = Pages
      /\ \A q \in Pages : q # p => up'[q] = up[q]
      /\ up'[p] = Tail(up[p]) /\ Head(up[p]) = m /\ up[p] # <<>>
  BY DEF UpOK, Takes
<1>2. Taken(FromPage(p), up[p], up'[p], m)
  BY <1>1, Taking DEF UpOK
<1>3. UpOK'
  <2>1. \A q \in Pages : up'[q] \in Seq(FromPage(q))
    BY <1>1, <1>2 DEF UpOK, Taken
  <2> QED
    BY <1>1, <2>1 DEF UpOK, FromPage
<1>4. ASSUME NEW q \in Pages, NEW l, NEW y
      PROVE  Count(up'[q], Msg(l, y)) + Bit(q = p /\ l = k /\ y = x) = Count(up[q], Msg(l, y))
  <2>1. Count(up'[q], Msg(l, y)) \in Nat
    BY <1>3, CountIs DEF UpOK
  <2>2. CASE q # p
    BY <1>1, <2>1, <2>2 DEF Bit
  <2>3. CASE q = p
    BY <1>2, <2>1, <2>3, MsgIs DEF Taken, Bit
  <2> QED
    BY <2>2, <2>3
<1>5. m \in FromPage(p)
  BY <1>2 DEF Taken
<1> QED
  BY <1>3, <1>4, <1>5 DEF UpTaken, Up

LEMMA DownSending ==
    ASSUME DownOK, NEW p \in Pages, NEW k, NEW x, Msg(k, x) \in ToPage(p),
           down' = [down EXCEPT ![p] = Append(@, Msg(k, x))]
    PROVE  DownSent(p, k, x)
<1> DEFINE m == Msg(k, x)
<1>1. /\ DOMAIN down' = Pages
      /\ \A q \in Pages : q # p => down'[q] = down[q]
      /\ down'[p] = Append(down[p], m)
  BY DEF DownOK
<1>2. Added(ToPage(p), down[p], down'[p], m)
  BY <1>1, Adding DEF DownOK
<1>3. DownOK'
  <2>1. \A q \in Pages : down'[q] \in Seq(ToPage(q))
    BY <1>1, <1>2 DEF DownOK, Added
  <2> QED
    BY <1>1, <2>1 DEF DownOK, ToPage
<1>4. ASSUME NEW q \in Pages, NEW l, NEW y
      PROVE  Count(down'[q], Msg(l, y)) = Count(down[q], Msg(l, y)) + Bit(q = p /\ l = k /\ y = x)
  <2>1. Count(down[q], Msg(l, y)) \in Nat
    BY CountIs DEF DownOK
  <2>2. CASE q # p
    BY <1>1, <2>1, <2>2 DEF Bit
  <2>3. CASE q = p
    BY <1>2, <2>1, <2>3, MsgIs DEF Added, Bit
  <2> QED
    BY <2>2, <2>3
<1>5. ASSUME NEW s \in Session, NEW e \in Ends, Order(s, e), k # Told[e]
      PROVE  Order(s, e)'
  <2>1. Page(s, e) \in Pages
    BY SessionIs
  <2>2. ASSUME NEW l \in {Offer[Other(e)], Candidate[Other(e)]}
        PROVE  Ahead(down'[Page(s, e)], Msg(Told[e], s), Msg(l, s))
    <3>1. Msg(Told[e], s) # Msg(l, s) /\ m # Msg(Told[e], s)
      BY <1>5, MsgIs, KindsAre, EndsAre
    <3>2. Ahead(down[Page(s, e)], Msg(Told[e], s), Msg(l, s))
      BY <1>5 DEF Order
    <3> QED
      BY <1>1, <1>2, <2>1, <3>1, <3>2 DEF Added
  <2> QED
    BY <2>2 DEF Order, Page
<1> QED
  BY <1>3, <1>4, <1>5 DEF DownSent, Down

LEMMA DownTaking ==
    ASSUME DownOK, NEW p \in Pages, NEW k, NEW x, Gets(p, Msg(k, x))
    PROVE  DownTaken(p, k, x)
<1> DEFINE m == Msg(k, x)
<1>1. /\ DOMAIN down' = Pages
      /\ \A q \in Pages : q # p => down'[q] = down[q]
      /\ down'[p] = Tail(down[p]) /\ Head(down[p]) = m /\ down[p] # <<>>
  BY DEF DownOK, Gets
<1>2. Taken(ToPage(p), down[p], down'[p], m)
  BY <1>1, Taking DEF DownOK
<1>3. DownOK'
  <2>1. \A q \in Pages : down'[q] \in Seq(ToPage(q))
    BY <1>1, <1>2 DEF DownOK, Taken
  <2> QED
    BY <1>1, <2>1 DEF DownOK, ToPage
<1>4. ASSUME NEW q \in Pages, NEW l, NEW y
      PROVE  Count(down'[q], Msg(l, y)) + Bit(q = p /\ l = k /\ y = x) = Count(down[q], Msg(l, y))
  <2>1. Count(down'[q], Msg(l, y)) \in Nat
    BY <1>3, CountIs DEF DownOK
  <2>2. CASE q # p
    BY <1>1, <2>1, <2>2 DEF Bit
  <2>3. CASE q = p
    BY <1>2, <2>1, <2>3, MsgIs DEF Taken, Bit
  <2> QED
    BY <2>2, <2>3
<1>5. ASSUME NEW s \in Session, NEW e \in Ends, Order(s, e)
      PROVE  /\ Order(s, e)'
             /\ p = Page(s, e) /\ x = s /\ k \in {Offer[Other(e)], Candidate[Other(e)]}
                => Announced(s, e) = 0
  <2>1. Page(s, e) \in Pages
    BY SessionIs
  <2>2. ASSUME NEW l \in {Offer[Other(e)], Candidate[Other(e)]}
        PROVE  /\ Ahead(down'[Page(s, e)], Msg(Told[e], s), Msg(l, s))
               /\ p = Page(s, e) /\ m = Msg(l, s) => Count(down[p], Msg(Told[e], s)) = 0
    <3>1. Msg(Told[e], s) # Msg(l, s)
      BY MsgIs, KindsAre, EndsAre
    <3>2. Ahead(down[Page(s, e)], Msg(Told[e], s), Msg(l, s))
      BY <1>5 DEF Order
    <3> QED
      BY <1>1, <1>2, <2>1, <3>1, <3>2 DEF Taken
  <2>3. Order(s, e)'
    BY <2>2 DEF Order, Page
  <2> QED
    BY <2>2, <2>3 DEF Announced, Down
<1>6. m \in ToPage(p)
  BY <1>2 DEF Taken
<1> QED
  BY <1>3, <1>4, <1>5, <1>6 DEF DownTaken, Down

Numbers ==
    \A s \in Session, e \in Ends :
        Announced(s, e) \in Nat /\ Offers(s, e) \in Nat /\ OnTheWay(s, e) \in Nat

LEMMA NumbersStay == UpOK' /\ DownOK' => Numbers'
<1>1. UpOK /\ DownOK => Numbers
  BY NumbersAre DEF Numbers
<1> QED
  BY <1>1, PTL
-----------------------------------------------------------------------------
\* What session r has nothing to fear from: nothing new comes for it, all that it
\* waits for is still there, or else the connection is lost that it comes by.
Still(r) ==
    /\ r \in Known' <=> r \in Known
    /\ r \in live' => r \in live
    /\ \A e \in Ends : /\ Announced(r, e)' <= Announced(r, e)
                       /\ Offers(r, e)' <= Offers(r, e)
                       /\ OnTheWay(r, e)' <= OnTheWay(r, e)
    /\ r \in Known =>
           /\ peer'[r] = peer[r] /\ ice'[r] = ice[r]
           /\ \A e \in Ends :
                 /\ IF Reached(Conn(r, e))'
                    THEN Reached(Conn(r, e)) /\ Announced(r, e)' = Announced(r, e)
                    ELSE Nothing(r, e)'
                 /\ Order(r, e)'
                 /\ r \in live' /\ Reached(Conn(r, "host"))' /\ Reached(r.viewer)'
                    => OnTheWay(r, e)' = OnTheWay(r, e)

LEMMA StillOK ==
    ASSUME UpOK, DownOK, UpOK', DownOK', NEW r \in Session, Still(r), SessionOK(r), Made(r)',
           live \subseteq Known
    PROVE  SessionOK(r)'
<1>1. \A e \in Ends : /\ Announced(r, e) \in Nat /\ Offers(r, e) \in Nat /\ OnTheWay(r, e) \in Nat
                      /\ Announced(r, e)' \in Nat /\ Offers(r, e)' \in Nat
                      /\ OnTheWay(r, e)' \in Nat
  BY NumbersAre, NumbersStay DEF Numbers
<1>2. Unborn(r)'
  BY <1>1 DEF Still, SessionOK, Unborn
<1>3. Stage(r)'
  <2>1. CASE r \notin Known
    BY <2>1 DEF Still, Stage
  <2>2. CASE r \in Known
    BY <1>1, <2>2, EndsAre DEF Still, SessionOK, Stage
  <2> QED
    BY <2>1, <2>2
<1>4. ASSUME NEW e \in Ends PROVE End(r, e)'
  BY <1>4, EndsAre DEF Still, SessionOK, End, Described
<1>5. ASSUME NEW e \in Ends PROVE Ice(r, e)'
  <2> SUFFICES ASSUME r \in live', Reached(Conn(r, "host"))', Reached(r.viewer)'
               PROVE  (ice[r][e].sent = OnTheWay(r, e) + ice[r][e].kept + ice[r][e].added)'
    BY DEF Ice
  <2>1. r \in live /\ r \in Known
    BY DEF Still
  <2>2. Reached(Conn(r, "host")) /\ Reached(r.viewer)
    <3>1. Reached(Conn(r, "client"))' <=> Reached(r.viewer)'
      BY DEF Conn
    <3>2. Reached(Conn(r, "host")) /\ Reached(Conn(r, "client"))
      BY <2>1, <3>1, EndsAre DEF Still
    <3> QED
      BY <3>2 DEF Conn
  <2>3. OnTheWay(r, e)' = OnTheWay(r, e) /\ ice'[r] = ice[r]
    BY <1>5, <2>1 DEF Still
  <2>4. ice[r][e].sent = OnTheWay(r, e) + ice[r][e].kept + ice[r][e].added
    BY <1>5, <2>1, <2>2 DEF SessionOK, Ice
  <2> QED
    BY <2>3, <2>4
<1> QED
  BY <1>2, <1>3, <1>4, <1>5 DEF SessionOK
-----------------------------------------------------------------------------
\* Steps of the pages: nothing changes but one session's peer connections and
\* messages.

Quiet(r) ==
    /\ \A q \in Pages : \A k : Up(q, k, r)' = Up(q, k, r) /\ Down(q, k, r)' = Down(q, k, r)
    /\ \A e \in Ends : Order(r, e) => Order(r, e)'

Calm == UNCHANGED <<ws, id, in, streaming, sharer, live>>

LEMMA CalmReached ==
    ASSUME Calm, NEW r, NEW e
    PROVE  /\ Reached(Conn(r, e))' <=> Reached(Conn(r, e))
           /\ Reached(r.viewer)' <=> Reached(r.viewer)
           /\ r \in live' <=> r \in live
  BY DEF Calm, Reached, Conn, Current

\* The connections of session r are neither lost nor made.
Steady(r) ==
    /\ r \in live' => r \in live
    /\ r \in Known => \A e \in Ends : Reached(Conn(r, e))' <=> Reached(Conn(r, e))

LEMMA QuietStill ==
    ASSUME PeersInv, UpOK', DownOK', NEW r \in Session, Steady(r), Quiet(r),
           r \in Known' <=> r \in Known,
           r \in Known => peer'[r] = peer[r] /\ ice'[r] = ice[r]
    PROVE  Still(r)
<1>1. \A e \in Ends : Page(r, e) \in Pages /\ Page(r, Other(e)) \in Pages
  BY SessionIs, EndsAre
<1>2. \A e \in Ends : /\ Announced(r, e)' = Announced(r, e) /\ Offers(r, e)' = Offers(r, e)
                      /\ OnTheWay(r, e)' = OnTheWay(r, e)
  <2> SUFFICES ASSUME NEW e \in Ends
               PROVE  /\ Announced(r, e)' = Announced(r, e) /\ Offers(r, e)' = Offers(r, e)
                      /\ OnTheWay(r, e)' = OnTheWay(r, e)
    OBVIOUS
  <2>1. \A k : /\ Count(up'[Page(r, e)], Msg(k, r)) = Count(up[Page(r, e)], Msg(k, r))
               /\ Count(down'[Page(r, e)], Msg(k, r)) = Count(down[Page(r, e)], Msg(k, r))
               /\ Count(down'[Page(r, Other(e))], Msg(k, r)) = Count(down[Page(r, Other(e))], Msg(k, r))
    BY <1>1 DEF Quiet, Up, Down
  <2> QED
    BY <2>1 DEF Announced, Offers, OnTheWay, Up, Down
<1>3. \A e \in Ends : /\ Announced(r, e) \in Nat /\ Offers(r, e) \in Nat /\ OnTheWay(r, e) \in Nat
  BY NumbersAre DEF PeersInv
<1>4. ASSUME r \in Known, NEW e \in Ends
      PROVE  /\ IF Reached(Conn(r, e))'
                THEN Reached(Conn(r, e)) /\ Announced(r, e)' = Announced(r, e)
                ELSE Nothing(r, e)'
             /\ Order(r, e)'
  <2>1. End(r, e)
    BY <1>4 DEF PeersInv, SessionOK
  <2>2. Order(r, e)'
    BY <1>4, <2>1 DEF End, Quiet
  <2>3. ASSUME ~Reached(Conn(r, e))' PROVE Nothing(r, e)'
    <3>1. Nothing(r, e)
      BY <1>4, <2>1, <2>3 DEF End, Steady
    <3>2. \A k : Count(down'[Page(r, e)], Msg(k, r)) = Count(down[Page(r, e)], Msg(k, r))
      BY <1>1 DEF Quiet, Down
    <3> QED
      BY <3>1, <3>2 DEF Nothing, Down
  <2> QED
    BY <1>2, <1>4, <2>2, <2>3 DEF Steady
<1> QED
  BY <1>2, <1>3, <1>4 DEF Still, Steady

LEMMA PageStep ==
    ASSUME PeersInv, NEW s \in Known,
           UNCHANGED <<socketVars, serverVars, shareVars>>,
           UpOK', DownOK', Known' = Known,
           peer' \in [Known -> [Ends -> {"none", "new", "setting", "offered", "describing",
                                         "draining", "done"}]],
           ice' \in [Known -> [Ends -> [sent : Nat, kept : Nat, added : Nat]]],
           \A r \in Known : r # s => peer'[r] = peer[r] /\ ice'[r] = ice[r],
           \A r \in Session : r # s => Quiet(r),
           Up(Host, "share", NoSession)' = Up(Host, "share", NoSession),
           Stage(s)', \A e \in Ends : End(s, e)' /\ Ice(s, e)'
    PROVE  PeersInv'
<1>1. Calm /\ Known \subseteq Session
  BY DEF Calm, socketVars, serverVars, PeersInv, VarsOK
<1>2. VarsOK'
  BY <1>1 DEF PeersInv, VarsOK, socketVars, serverVars, shareVars, Calm, Conns, Pages, Shares, Session
<1>3. RoomOK'
  BY DEF PeersInv, RoomOK, Current, PageOf, socketVars, serverVars
<1>4. ShareOK'
  BY DEF PeersInv, ShareOK, Numbered, serverVars, shareVars
<1>5. ASSUME NEW r \in Session PROVE Made(r)'
  BY <1>1 DEF PeersInv, SessionOK, Made, Conn, Calm
<1>6. ASSUME NEW r \in Session PROVE SessionOK(r)'
  <2>1. CASE r = s
    <3>1. Unborn(s)'
      BY DEF Unborn
    <3> QED
      BY <2>1, <3>1, <1>5 DEF SessionOK
  <2>2. CASE r # s
    <3>1. Still(r)
      BY <1>1, <1>6, <2>2, CalmReached, QuietStill DEF Steady
    <3> QED
      BY <1>1, <1>5, <3>1, StillOK DEF PeersInv, VarsOK
  <2> QED
    BY <2>1, <2>2
<1> QED
  BY <1>2, <1>3, <1>4, <1>6 DEF PeersInv

\* What a message that is taken from a page or sent by it changes.
LEMMA Getting ==
    ASSUME PeersInv, NEW p \in Pages, NEW k, NEW s \in Session, UNCHANGED up, DownTaken(p, k, s)
    PROVE  /\ UpOK' /\ DownOK'
           /\ Up(Host, "share", NoSession)' = Up(Host, "share", NoSession)
           /\ \A r \in Session : r # s => Quiet(r)
           /\ \A f \in Ends :
                 /\ Announced(s, f)' + Bit(p = Page(s, f) /\ k = Told[f]) = Announced(s, f)
                 /\ Offers(s, f)' + Bit(p = Page(s, Other(f)) /\ k = Offer[f]) = Offers(s, f)
                 /\ OnTheWay(s, f)' + Bit(p = Page(s, Other(f)) /\ k = Candidate[f]) = OnTheWay(s, f)
                 /\ Nothing(s, f) => Nothing(s, f)'
                 /\ Order(s, f) => Order(s, f)'
<1>1. UpOK' /\ DownOK'
  BY DEF PeersInv, UpOK, FromPage, DownTaken
<1>2. \A q \in Pages : \A l, y : Count(up[q], Msg(l, y)) \in Nat /\ Count(down'[q], Msg(l, y)) \in Nat
  BY <1>1, CountIs DEF PeersInv, UpOK, DownOK
<1>3. \A q \in Pages : \A l, y :
         Count(down'[q], Msg(l, y)) + Bit(q = p /\ l = k /\ y = s) = Count(down[q], Msg(l, y))
  BY DEF DownTaken, Down
<1>4. ASSUME NEW r \in Session, r # s PROVE Quiet(r)
  <2>1. \A q \in Pages : \A l : Count(down'[q], Msg(l, r)) = Count(down[q], Msg(l, r))
    BY <1>2, <1>3, <1>4 DEF Bit
  <2> QED
    BY <1>4, <2>1 DEF Quiet, Up, Down, DownTaken
<1>5. ASSUME NEW f \in Ends
      PROVE  /\ Announced(s, f)' + Bit(p = Page(s, f) /\ k = Told[f]) = Announced(s, f)
             /\ Offers(s, f)' + Bit(p = Page(s, Other(f)) /\ k = Offer[f]) = Offers(s, f)
             /\ OnTheWay(s, f)' + Bit(p = Page(s, Other(f)) /\ k = Candidate[f]) = OnTheWay(s, f)
             /\ Nothing(s, f) => Nothing(s, f)'
             /\ Order(s, f) => Order(s, f)'
  <2>1. Page(s, f) \in Pages /\ Page(s, Other(f)) \in Pages
    BY SessionIs, EndsAre
  <2>2. Announced(s, f)' + Bit(p = Page(s, f) /\ k = Told[f]) = Announced(s, f)
    BY <1>2, <1>3, <2>1 DEF Announced, Down, Bit
  <2>3. Offers(s, f)' + Bit(p = Page(s, Other(f)) /\ k = Offer[f]) = Offers(s, f)
    BY <1>2, <1>3, <2>1 DEF Offers, Up, Down, Bit
  <2>4. OnTheWay(s, f)' + Bit(p = Page(s, Other(f)) /\ k = Candidate[f]) = OnTheWay(s, f)
    BY <1>2, <1>3, <2>1 DEF OnTheWay, Bit
  <2>5. Nothing(s, f) => Nothing(s, f)'
    BY <1>2, <1>3, <2>1 DEF Nothing, Down, Bit
  <2>6. Order(s, f) => Order(s, f)'
    BY <1>5 DEF DownTaken
  <2> QED
    BY <2>2, <2>3, <2>4, <2>5, <2>6
<1> QED
  BY <1>1, <1>4, <1>5 DEF Up

LEMMA Telling ==
    ASSUME PeersInv, NEW p \in Pages, NEW k, k # "share", NEW s \in Session,
           UNCHANGED down, UpSent(p, k, s)
    PROVE  /\ UpOK' /\ DownOK'
           /\ Up(Host, "share", NoSession)' = Up(Host, "share", NoSession)
           /\ \A r \in Session : r # s => Quiet(r)
           /\ \A f \in Ends :
                 /\ Announced(s, f)' = Announced(s, f)
                 /\ Offers(s, f)' = Offers(s, f) + Bit(p = Page(s, f) /\ k = Offer[f] /\ IsOpen(p))
                 /\ OnTheWay(s, f)'
                        = OnTheWay(s, f) + Bit(p = Page(s, f) /\ k = Candidate[f] /\ IsOpen(p))
                 /\ Nothing(s, f) => Nothing(s, f)'
                 /\ Order(s, f) => Order(s, f)'
<1>1. UpOK' /\ DownOK'
  BY DEF PeersInv, DownOK, ToPage, UpSent
<1>2. \A q \in Pages : \A l, y : Count(up[q], Msg(l, y)) \in Nat /\ Count(down[q], Msg(l, y)) \in Nat
  BY <1>1, CountIs DEF PeersInv, UpOK, DownOK
<1>3. \A q \in Pages : \A l, y :
         Count(up'[q], Msg(l, y))
             = Count(up[q], Msg(l, y)) + Bit(q = p /\ l = k /\ y = s /\ IsOpen(p))
  BY DEF UpSent, Up
<1>4. ASSUME NEW r \in Session, r # s PROVE Quiet(r)
  <2>1. \A q \in Pages : \A l : Count(up'[q], Msg(l, r)) = Count(up[q], Msg(l, r))
    BY <1>2, <1>3, <1>4 DEF Bit
  <2> QED
    BY <2>1 DEF Quiet, Up, Down, Order
<1>5. ASSUME NEW f \in Ends
      PROVE  /\ Announced(s, f)' = Announced(s, f)
             /\ Offers(s, f)' = Offers(s, f) + Bit(p = Page(s, f) /\ k = Offer[f] /\ IsOpen(p))
             /\ OnTheWay(s, f)'
                    = OnTheWay(s, f) + Bit(p = Page(s, f) /\ k = Candidate[f] /\ IsOpen(p))
             /\ Nothing(s, f) => Nothing(s, f)'
             /\ Order(s, f) => Order(s, f)'
  <2>1. Page(s, f) \in Pages /\ Page(s, Other(f)) \in Pages
    BY SessionIs, EndsAre
  <2>2. Offers(s, f)' = Offers(s, f) + Bit(p = Page(s, f) /\ k = Offer[f] /\ IsOpen(p))
    BY <1>2, <1>3, <2>1 DEF Offers, Up, Down, Bit
  <2>3. OnTheWay(s, f)' = OnTheWay(s, f) + Bit(p = Page(s, f) /\ k = Candidate[f] /\ IsOpen(p))
    BY <1>2, <1>3, <2>1 DEF OnTheWay, Bit
  <2> QED
    BY <2>2, <2>3 DEF Announced, Nothing, Order, Down
<1>6. Up(Host, "share", NoSession)' = Up(Host, "share", NoSession)
  BY <1>2, <1>3, SessionIs DEF Up, Bit
<1> QED
  BY <1>1, <1>4, <1>5, <1>6
-----------------------------------------------------------------------------
\* One action after the other: the pages.

PeerState == {"none", "new", "setting", "offered", "describing", "draining", "done"}
IceCount == [sent : Nat, kept : Nat, added : Nat]

LEMMA Setting ==
    ASSUME peer \in [Known -> [Ends -> PeerState]], NEW s \in Known, NEW e \in Ends,
           NEW at \in PeerState, Set(s, e, at)
    PROVE  /\ peer' \in [Known -> [Ends -> PeerState]] /\ Known' = Known
           /\ peer'[s][e] = at /\ peer'[s][Other(e)] = peer[s][Other(e)]
           /\ \A r \in Known : r # s => peer'[r] = peer[r]
<1>1. peer' = [peer EXCEPT ![s] = [peer[s] EXCEPT ![e] = at]]
  BY DEF Set
<1>2. [peer[s] EXCEPT ![e] = at] \in [Ends -> PeerState]
  OBVIOUS
<1> QED
  BY <1>1, <1>2, EndsAre DEF Known

LEMMA Counting ==
    ASSUME ice \in [Known -> [Ends -> IceCount]], NEW s \in Known, NEW f \in Ends, NEW v \in IceCount,
           ice' = [ice EXCEPT ![s] = [ice[s] EXCEPT ![f] = v]]
    PROVE  /\ ice' \in [Known -> [Ends -> IceCount]]
           /\ ice'[s][f] = v /\ ice'[s][Other(f)] = ice[s][Other(f)]
           /\ \A r \in Known : r # s => ice'[r] = ice[r]
<1>1. [ice[s] EXCEPT ![f] = v] \in [Ends -> IceCount]
  OBVIOUS
<1> QED
  BY <1>1, EndsAre

\* What the invariant says of a session that the server made.
LEMMA KnownIs ==
    ASSUME PeersInv, NEW s \in Known
    PROVE  /\ s \in Session /\ Made(s) /\ Stage(s) /\ live \subseteq Known
           /\ \A e \in Ends : End(s, e) /\ Ice(s, e)
           /\ peer \in [Known -> [Ends -> PeerState]] /\ ice \in [Known -> [Ends -> IceCount]]
           /\ \A e \in Ends : /\ Page(s, e) \in Pages /\ peer[s][e] \in PeerState
                              /\ ice[s][e] \in IceCount
                              /\ ice[s][e].sent \in Nat /\ ice[s][e].kept \in Nat
                              /\ ice[s][e].added \in Nat
                              /\ Announced(s, e) \in Nat /\ Offers(s, e) \in Nat
                              /\ OnTheWay(s, e) \in Nat
<1>1. s \in Session /\ peer \in [Known -> [Ends -> PeerState]] /\ ice \in [Known -> [Ends -> IceCount]]
  BY DEF PeersInv, VarsOK, PeerState, IceCount
<1>2. \A e \in Ends : Page(s, e) \in Pages
  BY <1>1, SessionIs
<1>3. \A e \in Ends : ice[s][e] \in IceCount /\ peer[s][e] \in PeerState
  BY <1>1
<1>4. \A e \in Ends : Announced(s, e) \in Nat /\ Offers(s, e) \in Nat /\ OnTheWay(s, e) \in Nat
  BY <1>1, NumbersAre DEF PeersInv
<1> QED
  BY <1>1, <1>2, <1>3, <1>4 DEF PeersInv, VarsOK, SessionOK, IceCount

LEMMA GetSessionOK ==
    ASSUME PeersInv, NEW s \in Known, NEW e \in Ends, GetSession(s, e)
    PROVE  PeersInv'
<1> DEFINE p == Page(s, e)
<1>1. /\ Calm /\ UNCHANGED up /\ Gets(p, Msg(Told[e], s))
      /\ UNCHANGED <<socketVars, serverVars, shareVars>>
  BY EndsAre DEF GetSession, Told, Calm, socketVars, serverVars
<1>2. DownTaken(p, Told[e], s)
  BY <1>1, KnownIs, DownTaking DEF PeersInv
<1>3. /\ UpOK' /\ DownOK'
      /\ Up(Host, "share", NoSession)' = Up(Host, "share", NoSession)
      /\ \A r \in Session : r # s => Quiet(r)
      /\ \A f \in Ends :
            /\ Announced(s, f)' + Bit(f = e) = Announced(s, f)
            /\ Offers(s, f)' = Offers(s, f) /\ OnTheWay(s, f)' = OnTheWay(s, f)
            /\ Nothing(s, f) => Nothing(s, f)'
            /\ Order(s, f) => Order(s, f)'
            /\ Announced(s, f)' \in Nat
  <2>1. /\ UpOK' /\ DownOK'
        /\ Up(Host, "share", NoSession)' = Up(Host, "share", NoSession)
        /\ \A r \in Session : r # s => Quiet(r)
        /\ \A f \in Ends :
              /\ Announced(s, f)' + Bit(p = Page(s, f) /\ Told[e] = Told[f]) = Announced(s, f)
              /\ Offers(s, f)' + Bit(p = Page(s, Other(f)) /\ Told[e] = Offer[f]) = Offers(s, f)
              /\ OnTheWay(s, f)' + Bit(p = Page(s, Other(f)) /\ Told[e] = Candidate[f]) = OnTheWay(s, f)
              /\ Nothing(s, f) => Nothing(s, f)'
              /\ Order(s, f) => Order(s, f)'
    BY <1>1, <1>2, KnownIs, Getting
  <2>2. \A f \in Ends : /\ Announced(s, f)' \in Nat /\ Offers(s, f)' \in Nat
                        /\ OnTheWay(s, f)' \in Nat
    BY <2>1, KnownIs, NumbersStay DEF Numbers
  <2>3. \A f \in Ends : /\ Told[e] # Offer[f] /\ Told[e] # Candidate[f]
                        /\ Told[e] = Told[f] <=> e = f
    BY KindsAre
  <2> QED
    BY <2>1, <2>2, <2>3 DEF Bit
<1>4. Reached(Conn(s, e)) /\ Announced(s, e) = 1 /\ peer[s][e] = "none" /\ ice[s][Other(e)].kept = 0
  <2>1. Announced(s, e) > 0
    BY <1>3, KnownIs DEF Bit
  <2>2. End(s, e)
    BY KnownIs
  <2>3. Reached(Conn(s, e))
    BY <2>1, <2>2, EndsAre DEF End, Nothing, Announced
  <2> QED
    BY <2>1, <2>2, <2>3 DEF End
<1> DEFINE at == IF e = "host" THEN "setting" ELSE "new"
<1>5. /\ peer' \in [Known -> [Ends -> PeerState]] /\ Known' = Known
      /\ peer'[s][e] = at /\ peer'[s][Other(e)] = peer[s][Other(e)]
      /\ \A r \in Known : r # s => peer'[r] = peer[r]
  <2>1. at \in PeerState /\ Set(s, e, at)
    BY DEF PeerState, GetSession
  <2> HIDE DEF at
  <2> QED
    BY <2>1, KnownIs, Setting
<1>6. /\ ice' \in [Known -> [Ends -> IceCount]]
      /\ ice'[s] = ice[s]
      /\ \A r \in Known : ice'[r] = ice[r]
  <2>1. ice' = [ice EXCEPT ![s] = [ice[s] EXCEPT ![Other(e)] =
                    [ice[s][Other(e)] EXCEPT !.kept = 0]]]
    BY DEF GetSession
  <2>2. [ice[s][Other(e)] EXCEPT !.kept = 0] = ice[s][Other(e)]
    BY <1>4, KnownIs, EndsAre DEF IceCount
  <2>3. ice' = ice
    BY <2>1, <2>2, KnownIs, EndsAre
  <2> QED
    BY <2>3, KnownIs
<1>7. Stage(s)'
  <2>1. Stage(s)
    BY KnownIs
  <2>2. CASE e = "host"
    BY <1>3, <1>4, <1>5, <2>1, <2>2, EndsAre, KnownIs DEF Stage
  <2>3. CASE e = "client"
    BY <1>3, <1>4, <1>5, <2>1, <2>3, EndsAre, KnownIs DEF Stage
  <2> QED
    BY <2>2, <2>3, EndsAre
<1>8. ASSUME NEW f \in Ends PROVE End(s, f)'
  <2>1. End(s, f) /\ (Reached(Conn(s, f))' <=> Reached(Conn(s, f)))
    BY <1>1, KnownIs, CalmReached
  <2>2. CASE f = e
    <3>1. ~Described(s, e)' /\ peer'[s][e] # "none"
      BY <1>5 DEF Described
    <3>2. Announced(s, e)' = 0
      BY <1>3, <1>4 DEF Bit
    <3>3. Reached(Conn(s, e))' /\ Order(s, e)'
      BY <1>3, <1>4, <2>1, <2>2 DEF End
    <3> QED
      BY <2>2, <3>1, <3>2, <3>3 DEF End
  <2>3. CASE f # e
    <3>1. f = Other(e) /\ Other(f) = e
      BY <2>3, EndsAre DEF Ends, Other
    <3> QED
      BY <1>3, <1>5, <1>6, <2>1, <2>3, <3>1, KnownIs DEF End, Described, Bit
  <2> QED
    BY <2>2, <2>3
<1>9. ASSUME NEW f \in Ends PROVE Ice(s, f)'
  <2>1. Ice(s, f) /\ OnTheWay(s, f)' = OnTheWay(s, f) /\ ice'[s][f] = ice[s][f]
    BY <1>3, <1>6, <1>9, KnownIs
  <2> QED
    BY <1>1, <2>1, CalmReached DEF Ice
<1> QED
  BY <1>1, <1>3, <1>5, <1>6, <1>7, <1>8, <1>9, PageStep DEF PeerState, IceCount

\* An offer, an answer or a candidate arrives at a peer connection.
LEMMA Arriving ==
    ASSUME PeersInv, NEW s \in Known, NEW f \in Ends, NEW k \in {Offer[f], Candidate[f]},
           Gets(Page(s, Other(f)), Msg(k, s)), UNCHANGED up
    PROVE  /\ UpOK' /\ DownOK'
           /\ Up(Host, "share", NoSession)' = Up(Host, "share", NoSession)
           /\ \A r \in Session : r # s => Quiet(r)
           /\ \A g \in Ends :
                 /\ Announced(s, g)' = Announced(s, g)
                 /\ Offers(s, g)' + Bit(g = f /\ k = Offer[f]) = Offers(s, g)
                 /\ OnTheWay(s, g)' + Bit(g = f /\ k = Candidate[f]) = OnTheWay(s, g)
                 /\ Nothing(s, g) => Nothing(s, g)'
                 /\ Order(s, g) => Order(s, g)'
                 /\ Announced(s, g)' \in Nat /\ Offers(s, g)' \in Nat /\ OnTheWay(s, g)' \in Nat
           /\ Reached(Conn(s, Other(f))) /\ peer[s][Other(f)] # "none"
<1> DEFINE p == Page(s, Other(f))
<1>1. DownTaken(p, k, s)
  BY KnownIs, EndsAre, DownTaking DEF PeersInv
<1>2. /\ UpOK' /\ DownOK'
      /\ Up(Host, "share", NoSession)' = Up(Host, "share", NoSession)
      /\ \A r \in Session : r # s => Quiet(r)
      /\ \A g \in Ends :
            /\ Announced(s, g)' + Bit(p = Page(s, g) /\ k = Told[g]) = Announced(s, g)
            /\ Offers(s, g)' + Bit(p = Page(s, Other(g)) /\ k = Offer[g]) = Offers(s, g)
            /\ OnTheWay(s, g)' + Bit(p = Page(s, Other(g)) /\ k = Candidate[g]) = OnTheWay(s, g)
            /\ Nothing(s, g) => Nothing(s, g)'
            /\ Order(s, g) => Order(s, g)'
  BY <1>1, KnownIs, EndsAre, Getting
<1>3. \A g \in Ends : /\ Announced(s, g)' \in Nat /\ Offers(s, g)' \in Nat
                      /\ OnTheWay(s, g)' \in Nat
  BY <1>2, KnownIs, NumbersStay DEF Numbers
<1>4. \A g \in Ends : /\ k # Told[g]
                      /\ k = Offer[g] <=> g = f /\ k = Offer[f]
                      /\ k = Candidate[g] <=> g = f /\ k = Candidate[f]
  BY KindsAre
<1>5. \A g \in Ends :
         /\ Announced(s, g)' = Announced(s, g)
         /\ Offers(s, g)' + Bit(g = f /\ k = Offer[f]) = Offers(s, g)
         /\ OnTheWay(s, g)' + Bit(g = f /\ k = Candidate[f]) = OnTheWay(s, g)
  BY <1>2, <1>3, <1>4 DEF Bit
<1>6. End(s, Other(f)) /\ Other(Other(f)) = f /\ Other(f) \in Ends
  BY KnownIs, EndsAre
<1>7. Announced(s, Other(f)) = 0
  BY <1>1, <1>6, KnownIs DEF DownTaken, End
<1>8. Reached(Conn(s, Other(f)))
  <2>1. Down(p, k, s)' + 1 = Down(p, k, s)
    BY <1>1, <1>6, KnownIs DEF DownTaken, Bit
  <2>2. Down(p, k, s)' \in Nat
    <3>1. \A q \in Pages : \A m : Count(down'[q], m) \in Nat
      BY <1>2, CountIs DEF DownOK
    <3> QED
      BY <1>6, <3>1, KnownIs DEF Down
  <2>3. ~Nothing(s, Other(f))
    BY <1>6, <2>1, <2>2 DEF Nothing
  <2> QED
    BY <1>6, <2>3 DEF End
<1>9. peer[s][Other(f)] # "none"
  BY <1>6, <1>7, <1>8 DEF End
<1> QED
  BY <1>2, <1>3, <1>5, <1>8, <1>9

LEMMA GetOfferOK ==
    ASSUME PeersInv, NEW s \in Known, NEW f \in Ends, GetOffer(s, f)
    PROVE  PeersInv'
<1>1. /\ Calm /\ UNCHANGED <<up, ice>> /\ Gets(Page(s, Other(f)), Msg(Offer[f], s))
      /\ UNCHANGED <<socketVars, serverVars, shareVars>>
  BY DEF GetOffer, Calm, socketVars, serverVars
<1>2. /\ UpOK' /\ DownOK'
      /\ Up(Host, "share", NoSession)' = Up(Host, "share", NoSession)
      /\ \A r \in Session : r # s => Quiet(r)
      /\ \A g \in Ends :
            /\ Announced(s, g)' = Announced(s, g)
            /\ Offers(s, g)' + Bit(g = f) = Offers(s, g)
            /\ OnTheWay(s, g)' = OnTheWay(s, g)
            /\ Nothing(s, g) => Nothing(s, g)'
            /\ Order(s, g) => Order(s, g)'
            /\ Offers(s, g)' \in Nat
      /\ peer[s][Other(f)] # "none"
  <2>1. Offer[f] \in {Offer[f], Candidate[f]} /\ Offer[f] # Candidate[f]
    BY KindsAre
  <2> QED
    BY <1>1, <2>1, KnownIs, Arriving DEF Bit
<1>3. /\ peer' \in [Known -> [Ends -> PeerState]] /\ Known' = Known
      /\ peer'[s][Other(f)] = "describing" /\ peer'[s][f] = peer[s][f]
      /\ \A r \in Known : r # s => peer'[r] = peer[r]
  <2>1. "describing" \in PeerState /\ Set(s, Other(f), "describing")
    BY <1>2 DEF PeerState, GetOffer
  <2> QED
    BY <2>1, KnownIs, EndsAre, Setting
<1>4. Stage(s)'
  <2>1. Stage(s)
    BY KnownIs
  <2>2. CASE f = "host"
    BY <1>2, <1>3, <2>1, <2>2, EndsAre, KnownIs DEF Stage, Bit
  <2>3. CASE f = "client"
    BY <1>2, <1>3, <2>1, <2>3, EndsAre, KnownIs DEF Stage, Bit
  <2> QED
    BY <2>2, <2>3, EndsAre
<1>5. ASSUME NEW g \in Ends PROVE End(s, g)'
  <2>1. End(s, g) /\ (Reached(Conn(s, g))' <=> Reached(Conn(s, g)))
    BY <1>1, KnownIs, CalmReached
  <2>2. CASE g = f
    BY <1>1, <1>2, <1>3, <2>1, <2>2, EndsAre DEF End, Described
  <2>3. CASE g # f
    <3>1. g = Other(f)
      BY <2>3, EndsAre DEF Ends, Other
    <3>2. ~Described(s, g)' /\ peer'[s][g] # "none"
      BY <1>3, <3>1 DEF Described
    <3>3. peer[s][g] # "none"
      BY <1>2, <3>1
    <3> QED
      BY <1>2, <2>1, <3>2, <3>3 DEF End
  <2> QED
    BY <2>2, <2>3
<1>6. ASSUME NEW g \in Ends PROVE Ice(s, g)'
  <2>1. Ice(s, g) /\ OnTheWay(s, g)' = OnTheWay(s, g) /\ ice' = ice
    BY <1>1, <1>2, <1>6, KnownIs
  <2> QED
    BY <1>1, <2>1, CalmReached DEF Ice
<1> QED
  BY <1>1, <1>2, <1>3, <1>4, <1>5, <1>6, KnownIs, PageStep DEF PeerState, IceCount

LEMMA GetIceOK ==
    ASSUME PeersInv, NEW s \in Known, NEW f \in Ends, GetIce(s, f)
    PROVE  PeersInv'
<1>1. /\ Calm /\ UNCHANGED <<up, peer>> /\ Gets(Page(s, Other(f)), Msg(Candidate[f], s))
      /\ UNCHANGED <<socketVars, serverVars, shareVars>>
  BY DEF GetIce, Calm, socketVars, serverVars
<1>2. /\ UpOK' /\ DownOK'
      /\ Up(Host, "share", NoSession)' = Up(Host, "share", NoSession)
      /\ \A r \in Session : r # s => Quiet(r)
      /\ \A g \in Ends :
            /\ Announced(s, g)' = Announced(s, g)
            /\ Offers(s, g)' = Offers(s, g)
            /\ OnTheWay(s, g)' + Bit(g = f) = OnTheWay(s, g)
            /\ Nothing(s, g) => Nothing(s, g)'
            /\ Order(s, g) => Order(s, g)'
            /\ OnTheWay(s, g)' \in Nat
      /\ peer[s][Other(f)] # "none"
  <2>1. Candidate[f] \in {Offer[f], Candidate[f]} /\ Offer[f] # Candidate[f]
    BY KindsAre
  <2>2. \A g \in Ends : Offers(s, g)' \in Nat
    BY <1>1, <2>1, Arriving
  <2> QED
    BY <1>1, <2>1, <2>2, KnownIs, Arriving DEF Bit
<1> DEFINE old == ice[s][f]
           new == IF Described(s, Other(f)) THEN [old EXCEPT !.added = @ + 1]
                                            ELSE [old EXCEPT !.kept = @ + 1]
<1>3. /\ new \in IceCount /\ new.sent = old.sent
      /\ new.kept = old.kept + Bit(~Described(s, Other(f)))
      /\ new.added = old.added + Bit(Described(s, Other(f)))
  <2>1. old \in IceCount
    BY KnownIs
  <2>2. CASE Described(s, Other(f))
    BY <2>1, <2>2 DEF IceCount, Bit
  <2>3. CASE ~Described(s, Other(f))
    BY <2>1, <2>3 DEF IceCount, Bit
  <2> QED
    BY <2>2, <2>3
<1>4. /\ ice' \in [Known -> [Ends -> IceCount]]
      /\ ice'[s][f] = new /\ ice'[s][Other(f)] = ice[s][Other(f)]
      /\ \A r \in Known : r # s => ice'[r] = ice[r]
  <2>1. ice' = [ice EXCEPT ![s] = [ice[s] EXCEPT ![f] = new]]
    BY DEF GetIce
  <2> HIDE DEF new
  <2> QED
    BY <1>3, <2>1, KnownIs, Counting
<1> HIDE DEF new
<1>5. Stage(s)'
  <2>1. Stage(s) /\ peer' = peer
    BY <1>1, KnownIs
  <2> QED
    BY <1>2, <2>1, EndsAre, KnownIs DEF Stage, Bit
<1>6. ASSUME NEW g \in Ends PROVE End(s, g)'
  <2>1. End(s, g) /\ (Reached(Conn(s, g))' <=> Reached(Conn(s, g))) /\ peer' = peer
    BY <1>1, KnownIs, CalmReached
  <2>2. CASE g = f
    BY <1>2, <1>4, <2>1, <2>2, EndsAre DEF End, Described
  <2>3. CASE g # f
    <3>1. g = Other(f) /\ Other(g) = f
      BY <2>3, EndsAre DEF Ends, Other
    <3>2. peer[s][g] # "none"
      BY <1>2, <3>1
    <3>3. (Described(s, g)' <=> Described(s, g))
      BY <2>1 DEF Described
    <3>4. Described(s, g) => new.kept = old.kept
      BY <1>3, <3>1, KnownIs DEF Bit
    <3> QED
      BY <1>2, <1>4, <2>1, <3>1, <3>2, <3>3, <3>4 DEF End
  <2> QED
    BY <2>2, <2>3
<1>7. ASSUME NEW g \in Ends PROVE Ice(s, g)'
  <2>1. Ice(s, g)
    BY KnownIs
  <2>2. CASE g = f
    <3>1. OnTheWay(s, f)' + new.kept + new.added = OnTheWay(s, f) + old.kept + old.added
      <4>1. OnTheWay(s, f)' + 1 = OnTheWay(s, f) /\ OnTheWay(s, f)' \in Nat
        BY <1>2 DEF Bit
      <4>2. old.kept \in Nat /\ old.added \in Nat
        BY KnownIs
      <4>3. \/ new.kept = old.kept + 1 /\ new.added = old.added
            \/ new.kept = old.kept /\ new.added = old.added + 1
        BY <1>3, <4>2 DEF Bit
      <4> QED
        BY <4>1, <4>2, <4>3
    <3> QED
      BY <1>1, <1>3, <1>4, <2>1, <2>2, <3>1, CalmReached DEF Ice
  <2>3. CASE g # f
    <3>1. g = Other(f) /\ OnTheWay(s, g)' = OnTheWay(s, g)
      BY <1>2, <2>3, EndsAre, KnownIs DEF Ends, Other, Bit
    <3> QED
      BY <1>1, <1>4, <2>1, <3>1, CalmReached DEF Ice
  <2> QED
    BY <2>2, <2>3
<1>8. Known' = Known
  BY <1>1 DEF Known
<1> QED
  BY <1>1, <1>2, <1>4, <1>5, <1>6, <1>7, <1>8, KnownIs, PageStep DEF PeerState, IceCount

LEMMA LocalSetOK ==
    ASSUME PeersInv, NEW s \in Known, NEW e \in Ends, LocalSet(s, e)
    PROVE  PeersInv'
<1> DEFINE p == Page(s, e)
           at == IF e = "host" THEN "offered" ELSE "done"
<1>1. /\ Calm /\ UNCHANGED <<down, ice>> /\ Send(p, Msg(Offer[e], s))
      /\ UNCHANGED <<socketVars, serverVars, shareVars>>
      /\ peer[s][e] = "setting"
  BY DEF LocalSet, Calm, socketVars, serverVars
<1>2. UpSent(p, Offer[e], s)
  BY <1>1, KnownIs, UpSending, Sending DEF PeersInv
<1>3. /\ UpOK' /\ DownOK'
      /\ Up(Host, "share", NoSession)' = Up(Host, "share", NoSession)
      /\ \A r \in Session : r # s => Quiet(r)
      /\ \A f \in Ends :
            /\ Announced(s, f)' = Announced(s, f)
            /\ Offers(s, f)' = Offers(s, f) + Bit(f = e /\ IsOpen(p))
            /\ OnTheWay(s, f)' = OnTheWay(s, f)
            /\ Nothing(s, f) => Nothing(s, f)'
            /\ Order(s, f) => Order(s, f)'
  <2>1. /\ UpOK' /\ DownOK'
        /\ Up(Host, "share", NoSession)' = Up(Host, "share", NoSession)
        /\ \A r \in Session : r # s => Quiet(r)
        /\ \A f \in Ends :
              /\ Announced(s, f)' = Announced(s, f)
              /\ Offers(s, f)' = Offers(s, f) + Bit(p = Page(s, f) /\ Offer[e] = Offer[f] /\ IsOpen(p))
              /\ OnTheWay(s, f)'
                     = OnTheWay(s, f) + Bit(p = Page(s, f) /\ Offer[e] = Candidate[f] /\ IsOpen(p))
              /\ Nothing(s, f) => Nothing(s, f)'
              /\ Order(s, f) => Order(s, f)'
    <3>1. Offer[e] # "share"
      BY KindsAre
    <3> QED
      BY <1>1, <1>2, <3>1, KnownIs, Telling
  <2>2. \A f \in Ends : Offer[e] # Candidate[f] /\ (Offer[e] = Offer[f] <=> f = e)
    BY KindsAre
  <2> QED
    BY <2>1, <2>2, KnownIs DEF Bit
<1>4. /\ peer' \in [Known -> [Ends -> PeerState]] /\ Known' = Known
      /\ peer'[s][e] = at /\ peer'[s][Other(e)] = peer[s][Other(e)]
      /\ \A r \in Known : r # s => peer'[r] = peer[r]
  <2>1. at \in PeerState /\ Set(s, e, at)
    BY DEF PeerState, LocalSet
  <2> HIDE DEF at
  <2> QED
    BY <2>1, KnownIs, Setting
<1>5. Stage(s)'
  <2>1. Stage(s)
    BY KnownIs
  <2>2. CASE e = "host"
    BY <1>1, <1>3, <1>4, <2>1, <2>2, EndsAre, KnownIs DEF Stage, Bit
  <2>3. CASE e = "client"
    BY <1>1, <1>3, <1>4, <2>1, <2>3, EndsAre, KnownIs DEF Stage, Bit
  <2> QED
    BY <2>2, <2>3, EndsAre
<1>6. ASSUME NEW f \in Ends PROVE End(s, f)'
  <2>1. End(s, f) /\ (Reached(Conn(s, f))' <=> Reached(Conn(s, f)))
    BY <1>1, KnownIs, CalmReached
  <2>2. CASE f = e
    <3>1. peer'[s][e] # "none" /\ peer[s][e] # "none"
      BY <1>1, <1>4
    <3>2. (Described(s, e)' <=> Described(s, e)) /\ peer[s][e] # "draining"
      BY <1>1, <1>4 DEF Described
    <3> QED
      BY <1>1, <1>3, <2>1, <2>2, <3>1, <3>2 DEF End
  <2>3. CASE f # e
    <3>1. f = Other(e)
      BY <2>3, EndsAre DEF Ends, Other
    <3> QED
      BY <1>1, <1>3, <1>4, <2>1, <2>3, <3>1 DEF End, Described
  <2> QED
    BY <2>2, <2>3
<1>7. ASSUME NEW f \in Ends PROVE Ice(s, f)'
  <2>1. Ice(s, f) /\ OnTheWay(s, f)' = OnTheWay(s, f) /\ ice' = ice
    BY <1>1, <1>3, <1>7, KnownIs
  <2> QED
    BY <1>1, <2>1, CalmReached DEF Ice
<1> QED
  BY <1>1, <1>3, <1>4, <1>5, <1>6, <1>7, KnownIs, PageStep DEF PeerState, IceCount

\* No message is sent or taken.
LEMMA Standing ==
    ASSUME PeersInv, UNCHANGED <<up, down>>
    PROVE  /\ UpOK' /\ DownOK'
           /\ Up(Host, "share", NoSession)' = Up(Host, "share", NoSession)
           /\ \A r \in Session : Quiet(r)
           /\ \A r \in Session, f \in Ends :
                 /\ Announced(r, f)' = Announced(r, f)
                 /\ Offers(r, f)' = Offers(r, f)
                 /\ OnTheWay(r, f)' = OnTheWay(r, f)
                 /\ Nothing(r, f) => Nothing(r, f)'
                 /\ Order(r, f) => Order(r, f)'
<1>1. UpOK' /\ DownOK'
  BY DEF PeersInv, UpOK, FromPage, DownOK, ToPage
<1> QED
  BY <1>1 DEF Quiet, Announced, Offers, OnTheWay, Nothing, Order, Up, Down

LEMMA RemoteSetOK ==
    ASSUME PeersInv, NEW s \in Known, NEW e \in Ends, RemoteSet(s, e)
    PROVE  PeersInv'
<1>1. /\ Calm /\ UNCHANGED <<up, down, ice>>
      /\ UNCHANGED <<socketVars, serverVars, shareVars>>
      /\ peer[s][e] = "describing"
  BY DEF RemoteSet, Calm, socketVars, serverVars
<1>2. /\ UpOK' /\ DownOK'
      /\ Up(Host, "share", NoSession)' = Up(Host, "share", NoSession)
      /\ \A r \in Session : r # s => Quiet(r)
      /\ \A f \in Ends :
            /\ Announced(s, f)' = Announced(s, f)
            /\ Offers(s, f)' = Offers(s, f)
            /\ OnTheWay(s, f)' = OnTheWay(s, f)
            /\ Nothing(s, f) => Nothing(s, f)'
            /\ Order(s, f) => Order(s, f)'
  BY <1>1, KnownIs, Standing
<1>3. /\ peer' \in [Known -> [Ends -> PeerState]] /\ Known' = Known
      /\ peer'[s][e] = "draining" /\ peer'[s][Other(e)] = peer[s][Other(e)]
      /\ \A r \in Known : r # s => peer'[r] = peer[r]
  <2>1. "draining" \in PeerState /\ Set(s, e, "draining")
    BY DEF PeerState, RemoteSet
  <2> QED
    BY <2>1, KnownIs, Setting
<1>4. Stage(s)'
  <2>1. Stage(s)
    BY KnownIs
  <2>2. CASE e = "host"
    BY <1>1, <1>2, <1>3, <2>1, <2>2, EndsAre, KnownIs DEF Stage
  <2>3. CASE e = "client"
    BY <1>1, <1>2, <1>3, <2>1, <2>3, EndsAre, KnownIs DEF Stage
  <2> QED
    BY <2>2, <2>3, EndsAre
<1>5. ASSUME NEW f \in Ends PROVE End(s, f)'
  <2>1. End(s, f) /\ (Reached(Conn(s, f))' <=> Reached(Conn(s, f)))
    BY <1>1, KnownIs, CalmReached
  <2>2. CASE f = e
    BY <1>1, <1>2, <1>3, <2>1, <2>2 DEF End
  <2>3. CASE f # e
    <3>1. f = Other(e)
      BY <2>3, EndsAre DEF Ends, Other
    <3> QED
      BY <1>1, <1>2, <1>3, <2>1, <2>3, <3>1 DEF End, Described
  <2> QED
    BY <2>2, <2>3
<1>6. ASSUME NEW f \in Ends PROVE Ice(s, f)'
  <2>1. Ice(s, f) /\ OnTheWay(s, f)' = OnTheWay(s, f) /\ ice' = ice
    BY <1>1, <1>2, <1>6, KnownIs
  <2> QED
    BY <1>1, <2>1, CalmReached DEF Ice
<1> QED
  BY <1>1, <1>2, <1>3, <1>4, <1>5, <1>6, KnownIs, PageStep DEF PeerState, IceCount

LEMMA Moving ==
    ASSUME NEW old \in IceCount
    PROVE  [[old EXCEPT !.kept = @ - 1] EXCEPT !.added = @ + 1]
               = [sent |-> old.sent, kept |-> old.kept - 1, added |-> old.added + 1]
<1>1. PICK a \in Nat, b \in Nat, c \in Nat : [sent |-> a, kept |-> b, added |-> c] = old
  BY DEF IceCount
<1>2. [[sent |-> a, kept |-> b, added |-> c] EXCEPT !.kept = @ - 1] =
          [sent |-> a, kept |-> b - 1, added |-> c]
  OBVIOUS
<1>3. [[sent |-> a, kept |-> b - 1, added |-> c] EXCEPT !.added = @ + 1] =
          [sent |-> a, kept |-> b - 1, added |-> c + 1]
  OBVIOUS
<1>4. old.sent = a /\ old.kept = b /\ old.added = c
  BY <1>1
<1> QED
  BY <1>1, <1>2, <1>3, <1>4

LEMMA DrainOK ==
    ASSUME PeersInv, NEW s \in Known, NEW e \in Ends, Drain(s, e)
    PROVE  PeersInv'
<1> DEFINE f == Other(e)
           old == ice[s][f]
<1>1. /\ Calm /\ UNCHANGED <<up, down>>
      /\ UNCHANGED <<socketVars, serverVars, shareVars>>
      /\ peer[s][e] = "draining"
  BY DEF Drain, Calm, socketVars, serverVars
<1>2. /\ UpOK' /\ DownOK'
      /\ Up(Host, "share", NoSession)' = Up(Host, "share", NoSession)
      /\ \A r \in Session : r # s => Quiet(r)
      /\ \A g \in Ends :
            /\ Announced(s, g)' = Announced(s, g)
            /\ Offers(s, g)' = Offers(s, g)
            /\ OnTheWay(s, g)' = OnTheWay(s, g)
            /\ Nothing(s, g) => Nothing(s, g)'
            /\ Order(s, g) => Order(s, g)'
  BY <1>1, KnownIs, Standing
<1>3. f \in Ends /\ Other(f) = e /\ f # e /\ \A g \in Ends : g = e \/ g = f
  BY EndsAre DEF Ends, Other
<1>4. old \in IceCount /\ old.kept \in Nat /\ old.added \in Nat
  BY <1>3, KnownIs
<1>5. ASSUME old.kept > 0 PROVE PeersInv'
  <2> DEFINE new == [sent |-> old.sent, kept |-> old.kept - 1, added |-> old.added + 1]
  <2>1. new \in IceCount
    BY <1>4, <1>5 DEF IceCount
  <2>2. UNCHANGED peer /\ ice' = [ice EXCEPT ![s] = [ice[s] EXCEPT ![f] = new]]
    <3>1. /\ UNCHANGED peer
          /\ ice' = [ice EXCEPT ![s][f].kept = @ - 1, ![s][f].added = @ + 1]
      BY <1>5 DEF Drain
    <3>2. [[old EXCEPT !.kept = @ - 1] EXCEPT !.added = @ + 1] = new
      BY <1>4, Moving
    <3>3. ice[s] \in [Ends -> IceCount] /\ ice \in [Known -> [Ends -> IceCount]]
      BY KnownIs
    <3> QED
      BY <1>3, <3>1, <3>2, <3>3
  <2>3. /\ ice' \in [Known -> [Ends -> IceCount]]
        /\ ice'[s][f] = new /\ ice'[s][e] = ice[s][e]
        /\ \A r \in Known : r # s => ice'[r] = ice[r]
    <3> HIDE DEF new, f
    <3> QED
      BY <1>3, <2>1, <2>2, KnownIs, Counting
  <2>4. Known' = Known
    BY <2>2 DEF Known
  <2>5. Stage(s)'
    BY <1>2, <2>2, EndsAre, KnownIs DEF Stage
  <2>6. ASSUME NEW g \in Ends PROVE End(s, g)'
    <3>1. End(s, g) /\ (Reached(Conn(s, g))' <=> Reached(Conn(s, g)))
      BY <1>1, KnownIs, CalmReached
    <3>2. CASE g = e
      BY <1>1, <1>2, <2>2, <3>1, <3>2 DEF End
    <3>3. CASE g = f
      BY <1>2, <1>3, <2>2, <2>3, <3>1, <3>3 DEF End, Described
    <3> QED
      BY <1>3, <3>2, <3>3
  <2>7. ASSUME NEW g \in Ends PROVE Ice(s, g)'
    <3>1. Ice(s, g) /\ OnTheWay(s, g)' = OnTheWay(s, g) /\ OnTheWay(s, g) \in Nat
      BY <1>2, KnownIs
    <3>2. CASE g = e
      BY <1>1, <2>3, <3>1, <3>2, CalmReached DEF Ice
    <3>3. CASE g = f
      <4>1. OnTheWay(s, f) + new.kept + new.added = OnTheWay(s, f) + old.kept + old.added
        BY <1>4, <3>1, <3>3
      <4> HIDE DEF f
      <4> QED
        BY <1>1, <2>3, <3>1, <3>3, <4>1, CalmReached DEF Ice
    <3> QED
      BY <1>3, <3>2, <3>3
  <2>8. peer' \in [Known -> [Ends -> PeerState]]
    BY <2>2, KnownIs
  <2> QED
    BY <1>1, <1>2, <2>2, <2>3, <2>4, <2>5, <2>6, <2>7, <2>8, PageStep DEF PeerState, IceCount
<1>6. ASSUME ~(old.kept > 0) PROVE PeersInv'
  <2> DEFINE at == IF e = "host" THEN "done" ELSE "setting"
  <2>1. UNCHANGED ice /\ Set(s, e, at) /\ at \in PeerState /\ old.kept = 0
    BY <1>4, <1>6 DEF Drain, PeerState
  <2>2. /\ peer' \in [Known -> [Ends -> PeerState]] /\ Known' = Known
        /\ peer'[s][e] = at /\ peer'[s][f] = peer[s][f]
        /\ \A r \in Known : r # s => peer'[r] = peer[r]
    <3> HIDE DEF at
    <3> QED
      BY <2>1, KnownIs, Setting
  <2>3. Stage(s)'
    <3>1. Stage(s)
      BY KnownIs
    <3>2. CASE e = "host"
      BY <1>1, <1>2, <2>2, <3>1, <3>2, EndsAre, KnownIs DEF Stage
    <3>3. CASE e = "client"
      BY <1>1, <1>2, <2>2, <3>1, <3>3, EndsAre, KnownIs DEF Stage
    <3> QED
      BY <3>2, <3>3, EndsAre
  <2>4. ASSUME NEW g \in Ends PROVE End(s, g)'
    <3>1. End(s, g) /\ (Reached(Conn(s, g))' <=> Reached(Conn(s, g)))
      BY <1>1, KnownIs, CalmReached
    <3>2. CASE g = e
      <4>1. peer'[s][e] # "none"
        BY <2>2
      <4> QED
        BY <1>1, <1>2, <2>1, <3>1, <3>2, <4>1 DEF End
    <3>3. CASE g = f
      BY <1>2, <1>3, <2>1, <2>2, <3>1, <3>3 DEF End, Described
    <3> QED
      BY <1>3, <3>2, <3>3
  <2>5. ASSUME NEW g \in Ends PROVE Ice(s, g)'
    <3>1. Ice(s, g) /\ OnTheWay(s, g)' = OnTheWay(s, g) /\ ice' = ice
      BY <1>2, <2>1, <2>5, KnownIs
    <3> QED
      BY <1>1, <3>1, CalmReached DEF Ice
  <2> QED
    BY <1>1, <1>2, <2>1, <2>2, <2>3, <2>4, <2>5, KnownIs, PageStep DEF PeerState, IceCount
<1> QED
  BY <1>5, <1>6

LEMMA GatherOK ==
    ASSUME PeersInv, NEW s \in Known, NEW e \in Ends, Gather(s, e)
    PROVE  PeersInv'
<1> DEFINE p == Page(s, e)
           old == ice[s][e]
           new == [old EXCEPT !.sent = @ + 1]
<1>1. /\ Calm /\ UNCHANGED <<down, peer>> /\ Send(p, Msg(Candidate[e], s))
      /\ UNCHANGED <<socketVars, serverVars, shareVars>>
      /\ e = "client" => peer[s][e] \in {"setting", "done"}
  BY EndsAre DEF Gather, Calm, socketVars, serverVars
<1>2. UpSent(p, Candidate[e], s)
  BY <1>1, KnownIs, UpSending, Sending DEF PeersInv
<1>3. /\ UpOK' /\ DownOK'
      /\ Up(Host, "share", NoSession)' = Up(Host, "share", NoSession)
      /\ \A r \in Session : r # s => Quiet(r)
      /\ \A f \in Ends :
            /\ Announced(s, f)' = Announced(s, f)
            /\ Offers(s, f)' = Offers(s, f)
            /\ OnTheWay(s, f)' = OnTheWay(s, f) + Bit(f = e /\ IsOpen(p))
            /\ Nothing(s, f) => Nothing(s, f)'
            /\ Order(s, f) => Order(s, f)'
  <2>1. /\ UpOK' /\ DownOK'
        /\ Up(Host, "share", NoSession)' = Up(Host, "share", NoSession)
        /\ \A r \in Session : r # s => Quiet(r)
        /\ \A f \in Ends :
              /\ Announced(s, f)' = Announced(s, f)
              /\ Offers(s, f)' = Offers(s, f) + Bit(p = Page(s, f) /\ Candidate[e] = Offer[f] /\ IsOpen(p))
              /\ OnTheWay(s, f)'
                     = OnTheWay(s, f) + Bit(p = Page(s, f) /\ Candidate[e] = Candidate[f] /\ IsOpen(p))
              /\ Nothing(s, f) => Nothing(s, f)'
              /\ Order(s, f) => Order(s, f)'
    <3>1. Candidate[e] # "share"
      BY KindsAre
    <3> QED
      BY <1>1, <1>2, <3>1, KnownIs, Telling
  <2>2. \A f \in Ends : Candidate[e] # Offer[f] /\ (Candidate[e] = Candidate[f] <=> f = e)
    BY KindsAre
  <2> QED
    BY <2>1, <2>2, KnownIs DEF Bit
<1>4. old \in IceCount /\ old.sent \in Nat
  BY KnownIs
<1>5. new \in IceCount /\ new.sent = old.sent + 1 /\ new.kept = old.kept /\ new.added = old.added
  BY <1>4 DEF IceCount
<1>6. /\ ice' \in [Known -> [Ends -> IceCount]]
      /\ ice'[s][e] = new /\ ice'[s][Other(e)] = ice[s][Other(e)]
      /\ \A r \in Known : r # s => ice'[r] = ice[r]
  <2>1. ice' = [ice EXCEPT ![s] = [ice[s] EXCEPT ![e] = new]]
    BY DEF Gather
  <2> HIDE DEF new
  <2> QED
    BY <1>5, <2>1, KnownIs, Counting
<1> HIDE DEF new
<1>7. Known' = Known /\ peer' = peer
  BY <1>1 DEF Known
<1>8. Stage(s)'
  <2>1. Stage(s)
    BY KnownIs
  <2>2. CASE e = "host"
    BY <1>3, <1>7, <2>1, <2>2, EndsAre, KnownIs DEF Stage, Bit
  <2>3. CASE e = "client"
    BY <1>1, <1>3, <1>7, <2>1, <2>3, EndsAre, KnownIs DEF Stage, Bit
  <2> QED
    BY <2>2, <2>3, EndsAre
<1>9. ASSUME NEW f \in Ends PROVE End(s, f)'
  <2>1. /\ End(s, f) /\ (Reached(Conn(s, f))' <=> Reached(Conn(s, f)))
        /\ ice'[s][Other(f)].kept = ice[s][Other(f)].kept
    BY <1>1, <1>5, <1>6, <1>9, KnownIs, CalmReached, EndsAre DEF Ends, Other
  <2> QED
    BY <1>3, <1>7, <1>9, <2>1 DEF End, Described
<1>10. ASSUME NEW f \in Ends PROVE Ice(s, f)'
  <2>1. Ice(s, f)
    BY <1>10, KnownIs
  <2>2. CASE f # e
    <3>1. f = Other(e) /\ OnTheWay(s, f)' = OnTheWay(s, f)
      BY <1>3, <1>10, <2>2, EndsAre, KnownIs DEF Ends, Other, Bit
    <3> QED
      BY <1>1, <1>6, <2>1, <3>1, CalmReached DEF Ice
  <2>3. CASE f = e
    <3>1. Reached(Conn(s, e)) => OnTheWay(s, e)' = OnTheWay(s, e) + 1
      BY <1>3, KnownIs DEF Bit, Reached, IsOpen, Conn, Page, PageOf
    <3>2. Conn(s, e) = Conn(s, "host") \/ Conn(s, e) = s.viewer
      BY EndsAre DEF Conn
    <3>3. s \in live /\ Reached(Conn(s, "host")) /\ Reached(s.viewer) =>
             /\ OnTheWay(s, e)' = OnTheWay(s, e) + 1
             /\ old.sent = OnTheWay(s, e) + old.kept + old.added
      BY <2>1, <2>3, <3>1, <3>2 DEF Ice
    <3>4. s \in live /\ Reached(Conn(s, "host")) /\ Reached(s.viewer) =>
             new.sent = OnTheWay(s, e)' + new.kept + new.added
      <4>1. /\ OnTheWay(s, e) \in Nat /\ old.kept \in Nat /\ old.added \in Nat
            /\ old.sent \in Nat
        BY KnownIs
      <4> HIDE DEF old
      <4> QED
        BY <1>5, <3>3, <4>1
    <3> QED
      BY <1>1, <1>6, <2>3, <3>4, CalmReached DEF Ice
  <2> QED
    BY <2>2, <2>3
<1> QED
  BY <1>1, <1>3, <1>6, <1>7, <1>8, <1>9, <1>10, KnownIs, PageStep DEF PeerState, IceCount
-----------------------------------------------------------------------------
\* The host shares, sockets are opened and lost, the server takes what is sent.

LEMMA StillStep ==
    ASSUME PeersInv, VarsOK', UpOK', DownOK', RoomOK', ShareOK',
           \A r \in Session : \/ Still(r) /\ Made(r)'
                              \/ SessionOK(r)'
    PROVE  PeersInv'
<1>1. ASSUME NEW r \in Session PROVE SessionOK(r)'
  BY <1>1, StillOK DEF PeersInv, VarsOK
<1> QED
  BY <1>1 DEF PeersInv

LEMMA MadeStays ==
    ASSUME PeersInv, NEW r \in Session, Known' = Known, UNCHANGED <<id, sharer>>,
           live' \subseteq live,
           r \in live' => Conn(r, "host") \in in' /\ r.viewer \in in'
    PROVE  Made(r)'
<1>1. Made(r) /\ Conn(r, "host")' = Conn(r, "host")
  BY DEF PeersInv, SessionOK, Conn
<1> QED
  BY <1>1 DEF Made, Conn

\* A message that is about no session.
LEMMA Saying ==
    ASSUME PeersInv, NEW p \in Pages, NEW k,
           \/ UpSent(p, k, NoSession)
           \/ UpTaken(p, k, NoSession),
           UNCHANGED down
    PROVE  UpOK' /\ DownOK' /\ \A r \in Session : Quiet(r)
<1>1. UpOK' /\ DownOK'
  BY DEF PeersInv, DownOK, ToPage, UpSent, UpTaken
<1>2. \A q \in Pages : \A l, y : Count(up[q], Msg(l, y)) \in Nat /\ Count(up'[q], Msg(l, y)) \in Nat
  BY <1>1, CountIs DEF PeersInv, UpOK
<1>3. ASSUME NEW r \in Session PROVE Quiet(r)
  <2>1. r # NoSession
    BY SessionIs
  <2>2. \A q \in Pages : \A l : Count(up'[q], Msg(l, r)) = Count(up[q], Msg(l, r))
    BY <1>2, <2>1 DEF UpSent, UpTaken, Up, Bit
  <2> QED
    BY <2>2 DEF Quiet, Up, Down, Order
<1> QED
  BY <1>1, <1>3

LEMMA HostStep ==
    ASSUME PeersInv, UpOK', DownOK', \A r \in Session : Quiet(r),
           UNCHANGED <<socketVars, serverVars, peerVars>>,
           asking' \in Nat, asks' \in 0 .. MaxShares, ShareOK'
    PROVE  PeersInv'
<1>1. Calm /\ Known' = Known
  BY DEF Calm, socketVars, serverVars, peerVars, Known
<1>2. VarsOK'
  BY <1>1 DEF PeersInv, VarsOK, socketVars, serverVars, peerVars, Conns, Pages, Shares, Session
<1>3. RoomOK'
  BY DEF PeersInv, RoomOK, Current, PageOf, socketVars, serverVars
<1>4. ASSUME NEW r \in Session PROVE Still(r) /\ Made(r)'
  <2>1. Steady(r)
    BY <1>1, CalmReached DEF Steady
  <2>2. r \in live' => Conn(r, "host") \in in' /\ r.viewer \in in'
    BY <1>1 DEF PeersInv, SessionOK, Made, VarsOK, Calm
  <2> QED
    BY <1>1, <2>1, <2>2, QuietStill, MadeStays DEF peerVars, Calm
<1> QED
  BY <1>2, <1>3, <1>4, StillStep

LEMMA AskToShareOK == ASSUME PeersInv, AskToShare PROVE PeersInv'
<1>1. UpOK' /\ DownOK' /\ \A r \in Session : Quiet(r)
  BY Standing DEF AskToShare
<1>2. asking' \in Nat /\ asks' \in 0 .. MaxShares
  BY BoundsAssumption DEF AskToShare, PeersInv, VarsOK
<1>3. ShareOK'
  <2>1. PICK m \in Nat : Numbered(m)
    BY DEF PeersInv, ShareOK
  <2>2. Up(Host, "share", NoSession) \in Nat /\ Up(Host, "share", NoSession)' = Up(Host, "share", NoSession)
    BY UpsAre, SessionIs DEF PeersInv, Ups, AskToShare, Up
  <2>3. Numbered(m)'
    BY <2>1, <2>2 DEF Numbered, AskToShare, serverVars, PeersInv, VarsOK
  <2> QED
    BY <2>3 DEF ShareOK
<1> QED
  BY <1>1, <1>2, <1>3, HostStep DEF AskToShare

LEMMA ShareGrantedOK == ASSUME PeersInv, ShareGranted PROVE PeersInv'
<1>1. UpSent(Host, "share", NoSession)
  BY SessionIs, Sending, UpSending DEF ShareGranted, PeersInv
<1>2. UpOK' /\ DownOK' /\ \A r \in Session : Quiet(r)
  BY <1>1, SessionIs, Saying DEF ShareGranted
<1>3. asking' \in Nat /\ asks' \in 0 .. MaxShares
  BY DEF ShareGranted, PeersInv, VarsOK
<1>4. ShareOK'
  <2>1. PICK m \in Nat : Numbered(m)
    BY DEF PeersInv, ShareOK
  <2>2. /\ Up(Host, "share", NoSession) \in Nat
        /\ \/ Up(Host, "share", NoSession)' = Up(Host, "share", NoSession)
           \/ Up(Host, "share", NoSession)' = Up(Host, "share", NoSession) + 1
    BY <1>1, UpsAre, SessionIs DEF PeersInv, Ups, UpSent, Bit
  <2>3. Numbered(m)'
    BY <2>1, <2>2 DEF Numbered, ShareGranted, serverVars, PeersInv, VarsOK
  <2> QED
    BY <2>3 DEF ShareOK
<1> QED
  BY <1>2, <1>3, <1>4, HostStep DEF ShareGranted

LEMMA StopShareOK == ASSUME PeersInv, StopShare PROVE PeersInv'
<1>1. UpSent(Host, "stopshare", NoSession)
  BY SessionIs, Sending, UpSending DEF StopShare, PeersInv
<1>2. UpOK' /\ DownOK' /\ \A r \in Session : Quiet(r)
  BY <1>1, SessionIs, Saying DEF StopShare
<1>3. asking' \in Nat /\ asks' \in 0 .. MaxShares
  BY DEF StopShare, PeersInv, VarsOK
<1>4. ShareOK'
  <2>1. PICK m \in Nat : Numbered(m)
    BY DEF PeersInv, ShareOK
  <2>2. Up(Host, "share", NoSession)' = Up(Host, "share", NoSession)
    BY <1>1, UpsAre, SessionIs DEF PeersInv, Ups, UpSent, Bit
  <2>3. Numbered(m)'
    BY <2>1, <2>2 DEF Numbered, StopShare, serverVars, PeersInv, VarsOK
  <2> QED
    BY <2>3 DEF ShareOK
<1> QED
  BY <1>2, <1>3, <1>4, HostStep DEF StopShare

LEMMA OpenOK == ASSUME PeersInv, NEW p \in Pages, Open(p) PROVE PeersInv'
<1>1. UpOK' /\ DownOK' /\ \A r \in Session : Quiet(r)
  BY Standing DEF Open
<1>2. /\ UNCHANGED <<id, losses, up, down, in, streaming, sharer, live, peer, ice>>
      /\ ws \in [Pages -> {"closed", "entering", "in"}]
      /\ ws[p] = "closed" /\ ws'[p] = "entering" /\ \A q \in Pages : q # p => ws'[q] = ws[q]
      /\ ws' \in [Pages -> {"closed", "entering", "in"}]
      /\ id[p] < MaxConns
      /\ \/ asks < MaxShares /\ asks' = asks + 1 /\ asking' = asking + 1
         \/ asks' = asks /\ asking' = asking
  BY DEF Open, PeersInv, VarsOK, serverVars, peerVars
<1>3. Known' = Known
  BY <1>2 DEF Known
<1>4. VarsOK'
  BY <1>2, <1>3, BoundsAssumption DEF PeersInv, VarsOK, Conns, Pages, Shares, Session
<1>5. RoomOK'
  BY <1>2 DEF PeersInv, RoomOK, Current, PageOf
<1>6. ShareOK'
  <2>1. PICK m \in Nat : Numbered(m)
    BY DEF PeersInv, ShareOK
  <2>2. Up(Host, "share", NoSession) \in Nat /\ Up(Host, "share", NoSession)' = Up(Host, "share", NoSession)
    BY <1>2, UpsAre, SessionIs DEF PeersInv, Ups, Up
  <2>3. Numbered(m)'
    BY <1>2, <2>1, <2>2 DEF Numbered, PeersInv, VarsOK
  <2> QED
    BY <2>3 DEF ShareOK
<1>7. ASSUME NEW r \in Session PROVE Still(r) /\ Made(r)'
  <2>1. \A c \in Pages \X Nat : Reached(c)' <=> Reached(c)
    BY <1>2 DEF Reached, Current, PageOf
  <2>2. \A e \in Ends : Conn(r, e)' = Conn(r, e) /\ (r \in Known => Conn(r, e) \in Pages \X Nat)
    BY <1>2, <1>7, SessionIs DEF Conn, PeersInv, VarsOK, Conns
  <2>3. Steady(r)
    BY <1>2, <2>1, <2>2 DEF Steady, Reached, Current, PageOf
  <2>4. r \in live' => Conn(r, "host") \in in' /\ r.viewer \in in'
    BY <1>2 DEF PeersInv, SessionOK, Made, VarsOK
  <2> QED
    BY <1>1, <1>2, <1>3, <2>3, <2>4, QuietStill, MadeStays
<1> QED
  BY <1>1, <1>4, <1>5, <1>6, <1>7, StillStep

LEMMA EmptyCounts == \A S : <<>> \in Seq(S) /\ \A a, b : Count(<<>>, a) = 0 /\ Ahead(<<>>, a, b)
<1>1. \A a : Count(<<>>, a) = 0
  BY CountNone
<1> QED
  BY <1>1 DEF Ahead

\* A socket is lost, or closed by the server.
LEMMA ClosingOK ==
    ASSUME PeersInv, NEW p \in Pages, Close(p), losses' \in Nat,
           UNCHANGED <<id, serverVars, shareVars, peerVars>>
    PROVE  PeersInv'
<1>1. /\ UNCHANGED <<id, in, streaming, sharer, live, asking, asks, stream, peer, ice>>
      /\ Known' = Known
  BY DEF serverVars, shareVars, peerVars, Known
<1>2. /\ DOMAIN up' = Pages /\ DOMAIN down' = Pages
      /\ up'[p] = <<>> /\ down'[p] = <<>>
      /\ \A q \in Pages : q # p => up'[q] = up[q] /\ down'[q] = down[q]
      /\ ws' \in [Pages -> {"closed", "entering", "in"}]
      /\ ws'[p] = "closed" /\ \A q \in Pages : q # p => ws'[q] = ws[q]
  BY DEF Close, PeersInv, VarsOK, UpOK, DownOK
<1>3. UpOK'
  <2>1. \A q \in Pages : up'[q] \in Seq(FromPage(q))
    BY <1>2, EmptyCounts DEF PeersInv, UpOK
  <2> QED
    BY <1>2, <2>1 DEF UpOK, FromPage
<1>4. DownOK'
  <2>1. \A q \in Pages : down'[q] \in Seq(ToPage(q))
    BY <1>2, EmptyCounts DEF PeersInv, DownOK
  <2> QED
    BY <1>2, <2>1 DEF DownOK, ToPage
<1>5. \A q \in Pages : \A k, r :
         /\ Up(q, k, r)' = IF q = p THEN 0 ELSE Up(q, k, r)
         /\ Down(q, k, r)' = IF q = p THEN 0 ELSE Down(q, k, r)
         /\ Up(q, k, r) \in Nat /\ Down(q, k, r) \in Nat
  BY <1>2, EmptyCounts, UpsAre, DownsAre DEF PeersInv, Ups, Downs, Up, Down
<1>6. VarsOK'
  BY <1>1, <1>2 DEF PeersInv, VarsOK, Conns, Pages, Shares, Session
<1>7. RoomOK'
  BY <1>1, <1>2 DEF PeersInv, RoomOK, Current, PageOf
<1>8. ShareOK'
  <2>1. PICK m \in Nat : Numbered(m)
    BY DEF PeersInv, ShareOK
  <2>2. /\ Up(Host, "share", NoSession) \in Nat /\ Up(Host, "share", NoSession)' \in Nat
        /\ Up(Host, "share", NoSession)' <= Up(Host, "share", NoSession)
    BY <1>5, SessionIs
  <2>3. Numbered(m)'
    BY <1>1, <2>1, <2>2 DEF Numbered, PeersInv, VarsOK
  <2> QED
    BY <2>3 DEF ShareOK
<1>9. ASSUME NEW r \in Session PROVE Still(r) /\ Made(r)'
  <2>1. \A e \in Ends : Page(r, e) \in Pages /\ Page(r, Other(e)) \in Pages
    BY SessionIs, EndsAre
  <2>2. ASSUME NEW e \in Ends
        PROVE  /\ Announced(r, e)' <= Announced(r, e)
               /\ Offers(r, e)' <= Offers(r, e)
               /\ OnTheWay(r, e)' <= OnTheWay(r, e)
               /\ Page(r, e) # p => Announced(r, e)' = Announced(r, e)
               /\ Page(r, e) # p /\ Page(r, Other(e)) # p => OnTheWay(r, e)' = OnTheWay(r, e)
               /\ Nothing(r, e) => Nothing(r, e)'
               /\ Page(r, e) = p => Nothing(r, e)'
               /\ Order(r, e) => Order(r, e)'
    <3>1. \A k : /\ Count(up'[Page(r, e)], Msg(k, r))
                        = IF Page(r, e) = p THEN 0 ELSE Count(up[Page(r, e)], Msg(k, r))
                 /\ Count(down'[Page(r, e)], Msg(k, r))
                        = IF Page(r, e) = p THEN 0 ELSE Count(down[Page(r, e)], Msg(k, r))
                 /\ Count(down'[Page(r, Other(e))], Msg(k, r))
                        = IF Page(r, Other(e)) = p THEN 0 ELSE Count(down[Page(r, Other(e))], Msg(k, r))
                 /\ Count(up[Page(r, e)], Msg(k, r)) \in Nat
                 /\ Count(down[Page(r, e)], Msg(k, r)) \in Nat
                 /\ Count(down[Page(r, Other(e))], Msg(k, r)) \in Nat
      BY <1>5, <2>1, <2>2 DEF Up, Down
    <3>2. /\ Announced(r, e)' <= Announced(r, e)
          /\ Page(r, e) # p => Announced(r, e)' = Announced(r, e)
      BY <3>1 DEF Announced, Down
    <3>3. Offers(r, e)' <= Offers(r, e)
      BY <3>1 DEF Offers, Up, Down
    <3>4. /\ OnTheWay(r, e)' <= OnTheWay(r, e)
          /\ Page(r, e) # p /\ Page(r, Other(e)) # p => OnTheWay(r, e)' = OnTheWay(r, e)
      BY <3>1 DEF OnTheWay
    <3>5. /\ Nothing(r, e) => Nothing(r, e)'
          /\ Page(r, e) = p => Nothing(r, e)'
      BY <3>1 DEF Nothing, Down
    <3>6. Order(r, e) => Order(r, e)'
      BY <1>2, <2>1, <2>2, EmptyCounts DEF Order
    <3> QED
      BY <3>2, <3>3, <3>4, <3>5, <3>6
  <2>3. ASSUME r \in Known, NEW e \in Ends
        PROVE  Reached(Conn(r, e))' <=> Reached(Conn(r, e)) /\ Page(r, e) # p
    <3>1. PageOf(Conn(r, e)) = Page(r, e) /\ Conn(r, e)' = Conn(r, e)
      BY <1>1 DEF PageOf, Conn, Page
    <3> QED
      BY <1>1, <1>2, <2>1, <2>3, <3>1 DEF Reached, Current, PageOf, Conn
  <2>4. \A e \in Ends : r \in Known => End(r, e)
    BY DEF PeersInv, SessionOK
  <2>5. ASSUME r \in Known, NEW e \in Ends
        PROVE  /\ IF Reached(Conn(r, e))'
                  THEN Reached(Conn(r, e)) /\ Announced(r, e)' = Announced(r, e)
                  ELSE Nothing(r, e)'
               /\ Order(r, e)'
               /\ r \in live' /\ Reached(Conn(r, "host"))' /\ Reached(r.viewer)'
                  => OnTheWay(r, e)' = OnTheWay(r, e)
    <3>1. Reached(r.viewer)' <=> Reached(Conn(r, "client"))'
      BY DEF Conn
    <3>2. Reached(Conn(r, "host"))' /\ Reached(r.viewer)' => Page(r, e) # p /\ Page(r, Other(e)) # p
      BY <2>3, <2>5, <3>1, EndsAre
    <3> QED
      BY <2>2, <2>3, <2>4, <2>5, <3>2 DEF End
  <2>6. Made(r)'
    BY <1>1, MadeStays DEF PeersInv, SessionOK, Made, VarsOK
  <2> QED
    BY <1>1, <2>2, <2>5, <2>6 DEF Still
<1> QED
  BY <1>3, <1>4, <1>6, <1>7, <1>8, <1>9, StillStep

LEMMA PassOK ==
    ASSUME PeersInv, NEW s \in Known, NEW e \in Ends, Pass(s, e)
    PROVE  PeersInv'
<1> DEFINE p == Page(s, e)
           c == Conn(s, Other(e))
           q == Page(s, Other(e))
           D == s \in live /\ Reached(c)
<1>1. PICK k \in {Offer[e], Candidate[e]} :
         /\ Takes(p, Msg(k, s))
         /\ IF s \in live /\ Conn(s, e) # Current(p)
            THEN Close(p)
            ELSE /\ up' = [up EXCEPT ![p] = Tail(@)]
                 /\ down' = IF D THEN [down EXCEPT ![PageOf(c)] = Append(@, Msg(k, s))] ELSE down
                 /\ UNCHANGED ws
         /\ UNCHANGED <<id, losses, serverVars, shareVars, peerVars>>
  <2>1. PICK m \in {Msg(Offer[e], s), Msg(Candidate[e], s)} :
         /\ Takes(p, m)
         /\ IF s \in live /\ Conn(s, e) # Current(p)
            THEN Close(p)
            ELSE /\ up' = [up EXCEPT ![p] = Tail(@)]
                 /\ down' = IF D THEN [down EXCEPT ![PageOf(c)] = Append(@, m)] ELSE down
                 /\ UNCHANGED ws
         /\ UNCHANGED <<id, losses, serverVars, shareVars, peerVars>>
    BY DEF Pass
  <2> QED
    BY <2>1
<1>2. s \in Session /\ p \in Pages /\ q \in Pages
  BY KnownIs, EndsAre
<1>3. CASE s \in live /\ Conn(s, e) # Current(p)
  BY <1>1, <1>2, <1>3, ClosingOK DEF PeersInv, VarsOK
<1>4. ASSUME ~(s \in live /\ Conn(s, e) # Current(p)) PROVE PeersInv'
  <2>1. /\ up' = [up EXCEPT ![p] = Tail(@)]
        /\ down' = IF D THEN [down EXCEPT ![q] = Append(@, Msg(k, s))] ELSE down
        /\ UNCHANGED <<ws, id, losses, serverVars, shareVars, peerVars>>
    <3>1. PageOf(c) = q
      BY DEF PageOf, Conn, Page
    <3> QED
      BY <1>1, <1>4, <3>1
  <2>2. UpTaken(p, k, s)
    BY <1>1, <1>2, <2>1, UpTaking DEF PeersInv
  <2>3. /\ DownOK'
        /\ \A x \in Pages : \A l, y :
              Down(x, l, y)' = Down(x, l, y) + Bit(D /\ x = q /\ l = k /\ y = s)
        /\ \A r \in Session, f \in Ends : Order(r, f) => Order(r, f)'
    <3>1. ASSUME D PROVE DownSent(q, k, s)
      <4>1. Msg(k, s) \in ToPage(q)
        BY <1>2, Sending, EndsAre
      <4> QED
        BY <1>2, <2>1, <3>1, <4>1, DownSending DEF PeersInv
    <3>2. \A f \in Ends : k # Told[f]
      BY KindsAre
    <3>3. CASE D
      BY <3>1, <3>2, <3>3 DEF DownSent
    <3>4. CASE ~D
      <4>1. down' = down
        BY <2>1, <3>4
      <4>2. DownOK' /\ Downs
        BY <4>1, DownsAre DEF PeersInv, DownOK, ToPage
      <4> QED
        BY <3>4, <4>1, <4>2 DEF Downs, Down, Order, Bit
    <3> QED
      BY <3>3, <3>4
  <2>4. \A x \in Pages : \A l, y :
           /\ Count(up[x], Msg(l, y)) \in Nat /\ Count(up'[x], Msg(l, y)) \in Nat
           /\ Count(down[x], Msg(l, y)) \in Nat /\ Count(down'[x], Msg(l, y)) \in Nat
           /\ Count(up'[x], Msg(l, y)) + Bit(x = p /\ l = k /\ y = s) = Count(up[x], Msg(l, y))
           /\ Count(down'[x], Msg(l, y))
                  = Count(down[x], Msg(l, y)) + Bit(D /\ x = q /\ l = k /\ y = s)
    <3>1. UpOK'
      BY <2>2 DEF UpTaken
    <3>2. \A x \in Pages : \A m : /\ Count(up[x], m) \in Nat /\ Count(up'[x], m) \in Nat
                                  /\ Count(down[x], m) \in Nat /\ Count(down'[x], m) \in Nat
      BY <2>3, <3>1, CountIs DEF PeersInv, UpOK, DownOK
    <3> QED
      BY <2>2, <2>3, <3>2 DEF UpTaken, Up, Down
  <2>5. /\ UNCHANGED <<ws, id, losses, in, streaming, sharer, live, asking, asks, stream, peer, ice>>
        /\ Calm /\ Known' = Known
    BY <2>1 DEF serverVars, shareVars, peerVars, Known, Calm
  <2>6. VarsOK' /\ RoomOK'
    BY <2>5 DEF PeersInv, VarsOK, RoomOK, Current, PageOf, Conns, Pages, Shares, Session
  <2>7. ShareOK'
    <3>1. PICK m \in Nat : Numbered(m)
      BY DEF PeersInv, ShareOK
    <3>2. Up(Host, "share", NoSession)' = Up(Host, "share", NoSession)
      BY <1>2, <2>4, SessionIs DEF Up, Bit
    <3>3. Numbered(m)'
      BY <2>5, <3>1, <3>2 DEF Numbered
    <3> QED
      BY <3>3 DEF ShareOK
  <2>8. ASSUME NEW r \in Session PROVE Made(r)'
    BY <2>5, MadeStays DEF PeersInv, SessionOK, Made, VarsOK
  <2>9. ASSUME NEW r \in Session, r # s PROVE Still(r)
    <3>1. Quiet(r)
      BY <2>3, <2>4, <2>9 DEF Quiet, Up, Down, Bit
    <3>2. Steady(r)
      BY <2>5, CalmReached DEF Steady
    <3> QED
      BY <2>2, <2>3, <2>5, <3>1, <3>2, QuietStill DEF UpTaken
  <2>10. Still(s)
    <3>1. ASSUME NEW f \in Ends
          PROVE  /\ Announced(s, f)' = Announced(s, f)
                 /\ Offers(s, f)' + Bit(f = e /\ k = Offer[e] /\ ~D) = Offers(s, f)
                 /\ OnTheWay(s, f)' + Bit(f = e /\ k = Candidate[e] /\ ~D) = OnTheWay(s, f)
                 /\ Announced(s, f)' \in Nat /\ Offers(s, f)' \in Nat /\ OnTheWay(s, f)' \in Nat
                 /\ Nothing(s, f) /\ (f = e \/ ~D) => Nothing(s, f)'
      <4>1. Page(s, f) \in Pages /\ Page(s, Other(f)) \in Pages
        BY <1>2, SessionIs, EndsAre
      <4>2. /\ k # Told[f]
            /\ k = Offer[f] => f = e /\ k # Candidate[f]
            /\ k = Candidate[f] => f = e /\ k # Offer[f]
            /\ f = e => k \notin {Offer[Other(f)], Candidate[Other(f)]}
            /\ Other(f) = Other(e) <=> f = e
        BY KindsAre, EndsAre
      <4>3. Announced(s, f)' = Announced(s, f) /\ Announced(s, f)' \in Nat
        BY <2>4, <4>1, <4>2 DEF Announced, Down, Bit
      <4>4. /\ Offers(s, f)' + Bit(f = e /\ k = Offer[e] /\ ~D) = Offers(s, f)
            /\ Offers(s, f)' \in Nat
        <5>1. CASE k = Offer[f]
          BY <2>4, <4>1, <4>2, <5>1 DEF Offers, Up, Down, Bit
        <5>2. CASE k # Offer[f]
          BY <2>4, <4>1, <4>2, <5>2 DEF Offers, Up, Down, Bit
        <5> QED
          BY <5>1, <5>2
      <4>5. /\ OnTheWay(s, f)' + Bit(f = e /\ k = Candidate[e] /\ ~D) = OnTheWay(s, f)
            /\ OnTheWay(s, f)' \in Nat
        <5>1. CASE k = Candidate[f]
          BY <2>4, <4>1, <4>2, <5>1 DEF OnTheWay, Bit
        <5>2. CASE k # Candidate[f]
          BY <2>4, <4>1, <4>2, <5>2 DEF OnTheWay, Bit
        <5> QED
          BY <5>1, <5>2
      <4>6. Nothing(s, f) /\ (f = e \/ ~D) => Nothing(s, f)'
        BY <2>4, <4>1, <4>2 DEF Nothing, Down, Bit
      <4> QED
        BY <4>3, <4>4, <4>5, <4>6
    <3>2. ASSUME NEW f \in Ends
          PROVE  /\ IF Reached(Conn(s, f))'
                    THEN Reached(Conn(s, f)) /\ Announced(s, f)' = Announced(s, f)
                    ELSE Nothing(s, f)'
                 /\ Order(s, f)'
                 /\ s \in live' /\ Reached(Conn(s, "host"))' /\ Reached(s.viewer)'
                    => OnTheWay(s, f)' = OnTheWay(s, f)
      <4>1. End(s, f) /\ (Reached(Conn(s, f))' <=> Reached(Conn(s, f)))
        BY <2>5, KnownIs, CalmReached
      <4>2. ~Reached(Conn(s, f)) => Nothing(s, f)'
        <5>1. f = e \/ f = Other(e)
          BY EndsAre DEF Ends, Other
        <5> QED
          BY <3>1, <4>1, <5>1 DEF End
      <4>3. s \in live' /\ Reached(Conn(s, "host"))' /\ Reached(s.viewer)' => D
        <5>1. Conn(s, Other(e)) = Conn(s, "host") \/ Conn(s, Other(e)) = s.viewer
          BY DEF Conn
        <5> QED
          BY <2>5, <5>1, CalmReached
      <4>4. Order(s, f)'
        BY <1>2, <2>3, <4>1 DEF End
      <4>5. s \in live' /\ Reached(Conn(s, "host"))' /\ Reached(s.viewer)'
                => OnTheWay(s, f)' = OnTheWay(s, f)
        BY <3>1, <4>3 DEF Bit
      <4> QED
        BY <3>1, <4>1, <4>2, <4>4, <4>5
    <3>3. \A f \in Ends : /\ Announced(s, f)' <= Announced(s, f)
                          /\ Offers(s, f)' <= Offers(s, f)
                          /\ OnTheWay(s, f)' <= OnTheWay(s, f)
      BY <3>1 DEF Bit
    <3> QED
      BY <2>5, <3>2, <3>3 DEF Still
  <2>11. UpOK' /\ DownOK'
    BY <2>2, <2>3 DEF UpTaken
  <2>12. \A r \in Session : Still(r) /\ Made(r)'
    BY <2>8, <2>9, <2>10
  <2> QED
    BY <2>6, <2>7, <2>11, <2>12, StillStep
<1> QED
  BY <1>3, <1>4

LEMMA TakeStopShareOK == ASSUME PeersInv, TakeStopShare PROVE PeersInv'
<1>1. UpTaken(Host, "stopshare", NoSession)
  BY SessionIs, UpTaking DEF TakeStopShare, PeersInv
<1>2. UpOK' /\ DownOK' /\ \A r \in Session : Quiet(r)
  BY <1>1, SessionIs, Saying DEF TakeStopShare
<1>3. /\ UNCHANGED <<ws, id, losses, in, sharer, asking, asks, peer, ice>> /\ Known' = Known
      /\ live' \subseteq live /\ streaming' \subseteq streaming
  BY DEF TakeStopShare, EndSessions, socketVars, shareVars, peerVars, Known
<1>4. VarsOK' /\ RoomOK'
  BY <1>3 DEF PeersInv, VarsOK, RoomOK, Current, PageOf, Conns, Pages, Shares, Session
<1>5. ShareOK'
  <2>1. PICK m \in Nat : Numbered(m)
    BY DEF PeersInv, ShareOK
  <2>2. /\ Up(Host, "share", NoSession)' + Bit(FALSE) = Up(Host, "share", NoSession)
        /\ Up(Host, "share", NoSession) \in Nat
    BY <1>1, UpsAre, SessionIs DEF PeersInv, Ups, UpTaken, Bit
  <2>3. Up(Host, "share", NoSession)' = Up(Host, "share", NoSession)
    <3>1. Count(up'[Host], Msg("share", NoSession)) \in Nat
      BY <1>2, SessionIs, CountIs DEF UpOK
    <3> QED
      BY <2>2, <3>1 DEF Up, Bit
  <2>4. Numbered(m)'
    BY <1>3, <2>1, <2>3 DEF Numbered
  <2> QED
    BY <2>4 DEF ShareOK
<1>6. ASSUME NEW r \in Session PROVE Still(r) /\ Made(r)'
  <2>1. Steady(r)
    BY <1>3 DEF Steady, Reached, Conn, Current
  <2>2. Made(r)'
    BY <1>3, MadeStays DEF PeersInv, SessionOK, Made, VarsOK
  <2> QED
    BY <1>2, <1>3, <2>1, <2>2, QuietStill
<1> QED
  BY <1>2, <1>4, <1>5, <1>6, StillStep

LEMMA NoticeOK == ASSUME PeersInv, NEW c \in in, Notice(c) PROVE PeersInv'
<1>1. UpOK' /\ DownOK' /\ \A r \in Session : Quiet(r)
  BY Standing DEF Notice
<1>2. /\ UNCHANGED <<ws, id, losses, up, sharer, asking, asks, peer, ice>> /\ Known' = Known
      /\ live' = live \ {s \in live : c \in {Conn(s, "host"), s.viewer}}
      /\ streaming' = IF PageOf(c) = Host THEN streaming \ {c[2]} ELSE streaming
      /\ in' = in \ {c} /\ ~Reached(c)
  BY DEF Notice, EndSessions, socketVars, shareVars, peerVars, Known
<1>3. VarsOK'
  BY <1>2 DEF PeersInv, VarsOK, Conns, Pages, Shares, Session
<1>4. RoomOK'
  <2>1. \A p \in Pages : ws[p] = "in" => Current(p) # c
    BY <1>2 DEF Reached, Current, PageOf
  <2>2. \A p \in Pages : /\ ws'[p] = "in" => Current(p)' \in in'
                         /\ ws'[p] = "entering" => id'[p] < MaxConns
    BY <1>2, <2>1 DEF PeersInv, RoomOK, Current
  <2>3. \A d \in in' : d[2] <= id'[PageOf(d)]
    BY <1>2 DEF PeersInv, RoomOK
  <2>4. \A h \in streaming' : <<Host, h>> \in in'
    <3> SUFFICES ASSUME NEW h \in streaming' PROVE <<Host, h>> \in in'
      OBVIOUS
    <3>1. h \in streaming /\ <<Host, h>> \in in
      BY <1>2 DEF PeersInv, RoomOK
    <3>2. <<Host, h>> # c
      BY <1>2 DEF PageOf
    <3> QED
      BY <1>2, <3>1, <3>2
  <2> QED
    BY <2>2, <2>3, <2>4 DEF RoomOK, PageOf, Current
<1>5. ShareOK'
  <2>1. PICK m \in Nat : Numbered(m)
    BY DEF PeersInv, ShareOK
  <2>2. Numbered(m)'
    BY <1>2, <2>1 DEF Numbered, Up
  <2> QED
    BY <2>2 DEF ShareOK
<1>6. ASSUME NEW r \in Session PROVE Still(r) /\ Made(r)'
  <2>1. Steady(r)
    BY <1>2 DEF Steady, Reached, Conn, Current
  <2>2. r \in live' => Conn(r, "host") \in in' /\ r.viewer \in in'
    BY <1>2 DEF PeersInv, SessionOK, Made, VarsOK
  <2>3. Made(r)'
    BY <1>2, <2>2, MadeStays
  <2> QED
    BY <1>1, <1>2, <2>1, <2>3, QuietStill
<1> QED
  BY <1>1, <1>3, <1>4, <1>5, <1>6, StillStep
-----------------------------------------------------------------------------
\* New sessions.

LEMMA FiniteSession == IsFiniteSet(Session)
<1> DEFINE C == Pages \X (1 .. MaxConns)
           P == Shares \X C
           f == [x \in P |-> [share |-> x[1], viewer |-> x[2]]]
<1>1. IsFiniteSet(P)
  <2>1. IsFiniteSet(Shares) /\ IsFiniteSet(1 .. MaxConns)
    BY BoundsAssumption, FS_Interval, 1 \in Int DEF Shares
  <2>2. IsFiniteSet(Pages)
    BY PagesAssumption, FS_AddElement DEF Pages
  <2>3. IsFiniteSet(C)
    BY <2>1, <2>2, FS_Product
  <2> QED
    BY <2>1, <2>3, FS_Product
<1>2. f \in [P -> Session]
  BY DEF Session, Conns
<1>3. ASSUME NEW s \in Session PROVE \E x \in P : f[x] = s
  <2>1. PICK n \in Shares, v \in C : s = [share |-> n, viewer |-> v]
    BY DEF Session, Conns
  <2>2. <<n, v>> \in P /\ f[<<n, v>>] = s
    BY <2>1
  <2> QED
    BY <2>2
<1>4. f \in Surjection(P, Session)
  <2> HIDE DEF f, P
  <2> QED
    BY <1>2, <1>3 DEF Surjection
<1> HIDE DEF f, P
<1> QED
  BY <1>1, <1>4, FS_Surjection

\* An order of a finite set has each member once.
LEMMA Ordering ==
    ASSUME NEW T, IsFiniteSet(T), NEW o \in SetToSeqs(T)
    PROVE  /\ DOMAIN o = 1 .. Cardinality(T) /\ Cardinality(T) \in Nat
           /\ \A i \in DOMAIN o : o[i] \in T
           /\ \A i, j \in DOMAIN o : o[i] = o[j] => i = j
           /\ \A x \in T : \E i \in DOMAIN o : o[i] = x
<1>1. PICK n \in Nat : n = Cardinality(T)
  BY FS_CardinalityType
<1>2. o \in [1 .. n -> T] /\ \A i, j \in 1 .. n : i # j => o[i] # o[j]
  BY <1>1 DEF SetToSeqs
<1>3. o \in Injection(1 .. n, T)
  BY <1>2 DEF Injection, IsInjective
<1>4. Cardinality(1 .. n) = Cardinality(T)
  <2>1. Cardinality(1 .. n) = n
    BY FS_Interval, 1 \in Int, n \in Int
  <2> QED
    BY <1>1, <2>1
<1>5. o \in Surjection(1 .. n, T)
  BY <1>3, <1>4, FS_Injection
<1> QED
  BY <1>1, <1>2, <1>5 DEF Surjection

\* The connection that page q now has is told of session r by a message of kind k.
Hears(q, k, r, by) ==
    /\ ws'[q] = "in"
    /\ <<q, id'[q]>> \in {<<Host, by[r.share]>>, r.viewer}
    /\ k = IF r.viewer = <<q, id'[q]>> THEN "clientsession" ELSE "hostsession"

DownNew(new, by) ==
    /\ DownOK'
    /\ \A q \in Pages : \A k : \A r \in Session :
          Down(q, k, r)' = Down(q, k, r) + Bit(r \in new /\ Hears(q, k, r, by))
    /\ \A r \in Session \ new, e \in Ends : Order(r, e) => Order(r, e)'

LEMMA Announcing ==
    ASSUME DownOK, NEW new \in SUBSET Session, NEW by, NewSessions(new, by)
    PROVE  DownNew(new, by)
<1> DEFINE told(q) == {s \in new : <<q, id'[q]>> \in {<<Host, by[s.share]>>, s.viewer}}
           kind(q, s) == IF s.viewer = <<q, id'[q]>> THEN "clientsession" ELSE "hostsession"
<1>1. PICK order :
         /\ \A q \in Pages : order[q] \in SetToSeqs(told(q))
         /\ down' = [q \in Pages |->
                       IF ws'[q] = "in"
                       THEN down[q] \o [i \in DOMAIN order[q] |-> Msg(kind(q, order[q][i]), order[q][i])]
                       ELSE down[q]]
  BY DEF NewSessions
<1> DEFINE t(q) == IF ws'[q] = "in"
                   THEN [i \in DOMAIN order[q] |-> Msg(kind(q, order[q][i]), order[q][i])]
                   ELSE <<>>
<1>2. DOMAIN down' = Pages /\ \A q \in Pages : down[q] \in Seq(ToPage(q))
  BY <1>1 DEF DownOK
<1>3. ASSUME NEW q \in Pages
      PROVE  /\ t(q) \in Seq(ToPage(q))
             /\ \A k : \A r \in Session :
                   Count(t(q), Msg(k, r)) = Bit(r \in new /\ Hears(q, k, r, by))
  <2>1. CASE ws'[q] # "in"
    <3>1. t(q) = <<>> /\ \A k, r : ~Hears(q, k, r, by)
      BY <2>1 DEF Hears
    <3> HIDE DEF t
    <3> QED
      BY <3>1, EmptyCounts DEF Bit
  <2>2. CASE ws'[q] = "in"
    <3> DEFINE o == order[q]
               T == told(q)
    <3>1. o \in SetToSeqs(T) /\ IsFiniteSet(T)
      <4>1. T \subseteq Session
        OBVIOUS
      <4> HIDE DEF T
      <4>2. IsFiniteSet(T)
        BY <4>1, FiniteSession, FS_Subset
      <4> QED
        BY <1>1, <4>2 DEF T
    <3>2. PICK n \in Nat :
             /\ DOMAIN o = 1 .. n
             /\ \A i \in 1 .. n : o[i] \in T
             /\ \A i, j \in 1 .. n : o[i] = o[j] => i = j
             /\ \A x \in T : \E i \in 1 .. n : o[i] = x
      <4> HIDE DEF T, o
      <4> QED
        BY <3>1, Ordering
    <3>3. \A s \in Session : s \in T <=> /\ s \in new
                                        /\ <<q, id'[q]>> \in {<<Host, by[s.share]>>, s.viewer}
      OBVIOUS
    <3>4. \A s \in T : s \in Session /\ Msg(kind(q, s), s) \in ToPage(q)
      <4> SUFFICES ASSUME NEW s \in T PROVE s \in Session /\ Msg(kind(q, s), s) \in ToPage(q)
        OBVIOUS
      <4>1. s \in Session
        OBVIOUS
      <4>2. CASE s.viewer = <<q, id'[q]>>
        <5>1. kind(q, s) = Told["client"] /\ Page(s, "client") = q
          BY <4>2 DEF Told, Page, PageOf
        <5> QED
          BY <4>1, <5>1, Sending, EndsAre
      <4>3. CASE s.viewer # <<q, id'[q]>>
        <5>1. q = Host
          BY <4>3
        <5>2. kind(q, s) = Told["host"] /\ Page(s, "host") = q
          BY <4>3, <5>1 DEF Told, Page
        <5> QED
          BY <4>1, <5>2, Sending, EndsAre
      <4> QED
        BY <4>2, <4>3
    <3>5. /\ DOMAIN t(q) = 1 .. n
          /\ \A i \in 1 .. n : t(q)[i] = Msg(kind(q, o[i]), o[i])
      BY <2>2, <3>2
    <3>6. t(q) \in Seq(ToPage(q))
      <4>1. t(q) \in [1 .. n -> ToPage(q)]
        <5>1. t(q) = [i \in 1 .. n |-> Msg(kind(q, o[i]), o[i])]
          BY <2>2, <3>2
        <5>2. \A i \in 1 .. n : Msg(kind(q, o[i]), o[i]) \in ToPage(q)
          BY <3>2, <3>4
        <5> HIDE DEF t, kind, o
        <5> QED
          BY <5>1, <5>2
      <4> HIDE DEF t
      <4> QED
        BY <4>1, SeqDef
    <3>7. ASSUME NEW k, NEW r \in Session
          PROVE  Count(t(q), Msg(k, r)) = Bit(r \in new /\ Hears(q, k, r, by))
      <4>1. r \in new /\ Hears(q, k, r, by) <=> r \in T /\ k = kind(q, r)
        BY <2>2, <3>3, <3>7 DEF Hears
      <4> HIDE DEF T, t, o, kind
      <4>2. CASE r \in T /\ k = kind(q, r)
        <5>1. PICK j \in 1 .. n : o[j] = r
          BY <3>2, <4>2
        <5>2. t(q)[j] = Msg(k, r) /\ j \in DOMAIN t(q)
          BY <3>5, <4>2, <5>1
        <5>3. \A i \in DOMAIN t(q) : t(q)[i] = Msg(k, r) => i = j
          BY <3>2, <3>5, <5>1, MsgIs
        <5>4. Count(t(q), Msg(k, r)) = 1
          BY <5>2, <5>3, CountOne
        <5> QED
          BY <4>1, <4>2, <5>4 DEF Bit
      <4>3. CASE ~(r \in T /\ k = kind(q, r))
        <5>1. \A i \in DOMAIN t(q) : t(q)[i] # Msg(k, r)
          BY <3>2, <3>5, <4>3, MsgIs
        <5>2. Count(t(q), Msg(k, r)) = 0
          BY <5>1, CountNone
        <5> QED
          BY <4>1, <4>3, <5>2 DEF Bit
      <4> QED
        BY <4>2, <4>3
    <3> QED
      BY <3>6, <3>7
  <2> QED
    BY <2>1, <2>2
<1>4. \A q \in Pages : down'[q] = down[q] \o t(q)
  <2> SUFFICES ASSUME NEW q \in Pages PROVE down'[q] = down[q] \o t(q)
    OBVIOUS
  <2>1. CASE ws'[q] = "in"
    BY <1>1, <2>1
  <2>2. CASE ws'[q] # "in"
    <3>1. down'[q] = down[q] /\ t(q) = <<>>
      BY <1>1, <2>2
    <3>2. down[q] \o <<>> = down[q]
      BY <1>2
    <3> QED
      BY <3>1, <3>2
  <2> QED
    BY <2>1, <2>2
<1> HIDE DEF t, told, kind
<1>5. ASSUME NEW q \in Pages
      PROVE  /\ down'[q] \in Seq(ToPage(q))
             /\ \A m : Count(down'[q], m) = Count(down[q], m) + Count(t(q), m)
             /\ \A a, b : Ahead(down[q], a, b) /\ Count(t(q), b) = 0 /\ Count(t(q), a) = 0
                          => Ahead(down'[q], a, b)
  <2>1. down'[q] = down[q] \o t(q) /\ down[q] \in Seq(ToPage(q)) /\ t(q) \in Seq(ToPage(q))
    BY <1>2, <1>3, <1>4
  <2> QED
    BY <2>1, Appending
<1>6. DownOK'
  BY <1>2, <1>5 DEF DownOK, ToPage
<1>7. ASSUME NEW r \in Session \ new, NEW e \in Ends, Order(r, e) PROVE Order(r, e)'
  <2>1. Page(r, e) \in Pages
    BY SessionIs
  <2>2. \A k : Count(t(Page(r, e)), Msg(k, r)) = 0
    BY <1>3, <2>1 DEF Bit
  <2> QED
    BY <1>5, <1>7, <2>1, <2>2 DEF Order
<1> QED
  BY <1>3, <1>5, <1>6, <1>7 DEF DownNew, Down

\* A session begins well.
LEMMA NewSessionOK ==
    ASSUME PeersInv, NEW new \in SUBSET Session, NEW by, DownNew(new, by), UpOK',
           NEW r \in new, r \notin Known,
           \A q \in Pages : \A k : Up(q, k, r)' = Up(q, k, r),
           r \in Known', peer'[r] = NoPeers, ice'[r] = NoIce,
           sharer' = by, <<Host, by[r.share]>> # r.viewer, Made(r)'
    PROVE  SessionOK(r)'
<1>1. r \in Session /\ \A e \in Ends : Page(r, e) \in Pages /\ Page(r, Other(e)) \in Pages
  BY SessionIs, EndsAre
<1>2. \A q \in Pages : \A k :
         /\ Count(up'[q], Msg(k, r)) = Count(up[q], Msg(k, r))
         /\ Count(down'[q], Msg(k, r)) = Count(down[q], Msg(k, r)) + Bit(Hears(q, k, r, by))
         /\ Count(up[q], Msg(k, r)) \in Nat /\ Count(down[q], Msg(k, r)) \in Nat
  <2>1. \A q \in Pages : \A m : Count(up[q], m) \in Nat /\ Count(down[q], m) \in Nat
    BY CountIs DEF PeersInv, UpOK, DownOK
  <2>2. \A q \in Pages : \A k : Down(q, k, r)' = Down(q, k, r) + Bit(Hears(q, k, r, by))
    BY <1>1 DEF DownNew, Bit
  <2> QED
    BY <2>1, <2>2 DEF Up, Down
<1>3. \A e \in Ends : Announced(r, e) = 0 /\ Offers(r, e) = 0 /\ OnTheWay(r, e) = 0
  BY DEF PeersInv, SessionOK, Unborn
<1>4. \A e \in Ends : Reached(Conn(r, e))' <=> /\ ws'[Page(r, e)] = "in"
                                               /\ Conn(r, e)' = <<Page(r, e), id'[Page(r, e)]>>
  BY DEF Reached, Current, Conn, Page, PageOf
<1>5. ASSUME NEW e \in Ends
      PROVE  /\ Announced(r, e)' = IF Reached(Conn(r, e))' THEN 1 ELSE 0
             /\ Offers(r, e)' = 0 /\ OnTheWay(r, e)' = 0
             /\ Order(r, e)'
             /\ ~Reached(Conn(r, e))' => Nothing(r, e)'
  <2>1. \A q, f : f \in Ends => ~Hears(q, Offer[f], r, by) /\ ~Hears(q, Candidate[f], r, by)
    BY KindsAre, EndsAre DEF Hears, Told, Ends, Offer, Candidate
  <2>2. Hears(Page(r, e), Told[e], r, by) <=> Reached(Conn(r, e))'
    <3>1. CASE e = "host"
      <4>1. Conn(r, e)' = <<Host, by[r.share]>> /\ Page(r, e) = Host /\ Told[e] = "hostsession"
        BY <3>1 DEF Conn, Page, Told
      <4> QED
        BY <1>4, <1>5, <4>1 DEF Hears
    <3>2. CASE e = "client"
      <4>1. Conn(r, e)' = r.viewer /\ Told[e] = "clientsession"
        BY <3>2 DEF Conn, Told
      <4> QED
        BY <1>4, <1>5, <4>1 DEF Hears
    <3> QED
      BY <3>1, <3>2, EndsAre
  <2>3. Announced(r, e)' = IF Reached(Conn(r, e))' THEN 1 ELSE 0
    <3>1. Count(down[Page(r, e)], Msg(Told[e], r)) = 0
      BY <1>3, <1>5 DEF Announced, Down
    <3> QED
      BY <1>1, <1>2, <1>5, <2>2, <3>1 DEF Announced, Down, Bit
  <2>4. /\ \A f \in Ends : /\ Count(up[Page(r, f)], Msg(Offer[f], r)) = 0
                           /\ Count(down[Page(r, Other(f))], Msg(Offer[f], r)) = 0
                           /\ Count(up[Page(r, f)], Msg(Candidate[f], r)) = 0
                           /\ Count(down[Page(r, Other(f))], Msg(Candidate[f], r)) = 0
    BY <1>1, <1>2, <1>3 DEF Offers, OnTheWay, Up, Down
  <2>5. Offers(r, e)' = 0 /\ OnTheWay(r, e)' = 0
    BY <1>1, <1>2, <1>5, <2>1, <2>4 DEF Offers, OnTheWay, Up, Down, Bit
  <2>6. \A k \in {Offer[Other(e)], Candidate[Other(e)]} : Count(down'[Page(r, e)], Msg(k, r)) = 0
    <3>1. Other(e) \in Ends /\ Other(Other(e)) = e
      BY <1>5, EndsAre
    <3>2. /\ Count(down[Page(r, e)], Msg(Offer[Other(e)], r)) = 0
          /\ Count(down[Page(r, e)], Msg(Candidate[Other(e)], r)) = 0
      BY <2>4, <3>1
    <3> QED
      BY <1>1, <1>2, <1>5, <2>1, <3>1, <3>2 DEF Bit
  <2>7. Order(r, e)'
    <3>1. down'[Page(r, e)] \in Seq(ToPage(Page(r, e)))
      <4>1. DownOK'
        BY DEF DownNew
      <4>2. \A q \in Pages : down'[q] \in Seq(ToPage(q))
        BY <4>1 DEF DownOK, ToPage
      <4> QED
        BY <1>1, <1>5, <4>2
    <3>2. ASSUME NEW k \in {Offer[Other(e)], Candidate[Other(e)]}
          PROVE  \A j \in DOMAIN down'[Page(r, e)] : down'[Page(r, e)][j] # Msg(k, r)
      <4>1. ~(Count(down'[Page(r, e)], Msg(k, r)) > 0)
        BY <2>6
      <4> QED
        BY <3>1, <4>1, CountIs
    <3> QED
      BY <3>2 DEF Order, Ahead, Page
  <2>8. ~Reached(Conn(r, e))' => Nothing(r, e)'
    BY <2>3, <2>6 DEF Nothing, Announced, Down
  <2> QED
    BY <2>3, <2>5, <2>7, <2>8
<1>6. \A e \in Ends : peer'[r][e] = "none" /\ ice'[r][e] = [sent |-> 0, kept |-> 0, added |-> 0]
  BY DEF NoPeers, NoIce
<1>7. Unborn(r)'
  BY DEF Unborn
<1>8. Stage(r)'
  BY <1>5, <1>6, EndsAre DEF Stage
<1>9. ASSUME NEW e \in Ends PROVE End(r, e)' /\ Ice(r, e)'
  BY <1>5, <1>6, <1>9, EndsAre DEF End, Ice
<1> QED
  BY <1>7, <1>8, <1>9 DEF SessionOK

LEMMA EnterOK == ASSUME PeersInv, NEW p \in Pages, Enter(p) PROVE PeersInv'
<1> DEFINE c == <<p, id[p] + 1>>
           new == [share : Latest, viewer : {c}]
<1>1. /\ ws \in [Pages -> {"closed", "entering", "in"}] /\ id \in [Pages -> 0 .. MaxConns]
      /\ ws[p] = "entering" /\ id[p] < MaxConns
      /\ in \subseteq Conns /\ streaming \subseteq 1 .. MaxConns
      /\ sharer \in [Shares -> 0 .. MaxConns] /\ live \subseteq Known /\ Known \subseteq Session
  BY DEF PeersInv, VarsOK, RoomOK, Enter
<1>2. /\ id' = [id EXCEPT ![p] = @ + 1] /\ ws' = [ws EXCEPT ![p] = "in"]
      /\ in' = in \cup {c} /\ NewSessions(new, sharer)
      /\ UNCHANGED <<losses, up, streaming, sharer, asking, asks, stream>>
  BY DEF Enter, shareVars
<1>3. /\ id' \in [Pages -> 0 .. MaxConns] /\ id'[p] = id[p] + 1
      /\ \A q \in Pages : q # p => id'[q] = id[q] /\ ws'[q] = ws[q]
      /\ ws' \in [Pages -> {"closed", "entering", "in"}] /\ ws'[p] = "in"
      /\ \A q \in Pages : id[q] \in Nat /\ id'[q] \in Nat /\ id[q] <= id'[q]
  BY <1>1, <1>2, BoundsAssumption
<1>4. c \in Conns /\ Latest \subseteq Shares /\ new \subseteq Session
  BY <1>1, BoundsAssumption DEF Conns, Latest, Session
<1>5. \A r \in new : r.share \in Latest /\ r.viewer = c
  OBVIOUS
<1> HIDE DEF new
<1>6. /\ live' = live \cup new
      /\ peer' = [s \in Known \cup new |-> IF s \in new THEN NoPeers ELSE peer[s]]
      /\ ice' = [s \in Known \cup new |-> IF s \in new THEN NoIce ELSE ice[s]]
      /\ Known' = Known \cup new
  BY <1>2 DEF NewSessions, Known
<1>7. DownNew(new, sharer)
  BY <1>2, <1>4, Announcing DEF PeersInv
<1>8. UpOK' /\ DownOK'
  BY <1>2, <1>7 DEF DownNew, PeersInv, UpOK, FromPage
<1>9. \A q \in Pages : \A k, r : Up(q, k, r)' = Up(q, k, r)
  BY <1>2 DEF Up
<1>10. \A r \in Known : /\ Made(r) /\ sharer[r.share] <= id[Host]
                        /\ r.viewer[2] <= id[PageOf(r.viewer)] /\ r \in Session
  BY <1>1, <1>3, SessionIs DEF PeersInv, SessionOK, Made
<1>11. \A r \in new : r \notin Known
  <2> SUFFICES ASSUME NEW r \in new, r \in Known PROVE FALSE
    OBVIOUS
  <2>1. r.viewer = c /\ r.viewer[2] <= id[p]
    BY <1>5, <1>10 DEF PageOf
  <2> QED
    BY <1>3, <2>1
<1>12. VarsOK'
  <2>1. /\ \A r \in Known' : /\ peer'[r] \in [Ends -> PeerState]
                             /\ ice'[r] \in [Ends -> IceCount]
        /\ DOMAIN peer' = Known' /\ DOMAIN ice' = Known'
    <3>1. NoPeers \in [Ends -> PeerState] /\ NoIce \in [Ends -> IceCount]
      BY DEF NoPeers, NoIce, PeerState, IceCount
    <3>2. peer \in [Known -> [Ends -> PeerState]] /\ ice \in [Known -> [Ends -> IceCount]]
      BY DEF PeersInv, VarsOK, PeerState, IceCount
    <3> QED
      BY <1>6, <3>1, <3>2
  <2>2. /\ peer' \in [Known' -> [Ends -> PeerState]]
        /\ ice' \in [Known' -> [Ends -> IceCount]]
    BY <1>6, <2>1
  <2>3. /\ Known' \subseteq Session /\ live' \subseteq Known' /\ in' \subseteq Conns
    BY <1>1, <1>2, <1>4, <1>6
  <2> QED
    BY <1>2, <1>3, <2>2, <2>3
       DEF PeersInv, VarsOK, PeerState, IceCount, Conns, Pages, Shares, Session
<1>13. RoomOK'
  <2>1. \A q \in Pages : /\ ws'[q] = "in" => <<q, id'[q]>> \in in'
                         /\ ws'[q] = "entering" => id'[q] < MaxConns
    BY <1>2, <1>3 DEF PeersInv, RoomOK, Current
  <2>2. \A d \in in' : d[2] <= id'[PageOf(d)]
    <3> SUFFICES ASSUME NEW d \in in' PROVE d[2] <= id'[PageOf(d)]
      OBVIOUS
    <3>1. CASE d = c
      BY <1>3, <3>1 DEF PageOf
    <3>2. CASE d \in in
      <4>1. d[2] \in Nat /\ PageOf(d) \in Pages /\ d[2] <= id[PageOf(d)]
        BY <1>1, <3>2, BoundsAssumption DEF Conns, PageOf, PeersInv, RoomOK
      <4> QED
        BY <1>3, <4>1
    <3> QED
      BY <1>2, <3>1, <3>2
  <2>3. \A h \in streaming' : <<Host, h>> \in in'
    BY <1>2 DEF PeersInv, RoomOK
  <2> QED
    BY <2>1, <2>2, <2>3 DEF RoomOK, Current, PageOf
<1>14. ShareOK'
  BY <1>2, <1>9, SessionIs DEF PeersInv, ShareOK, Numbered
<1>15. ASSUME NEW r \in Session PROVE Made(r)'
  <2>1. CASE r \in new
    <3>1. /\ sharer[r.share] \in streaming /\ sharer[r.share] \in 1 .. MaxConns
          /\ <<Host, sharer[r.share]>> \in in
      BY <1>1, <1>5, <2>1 DEF Latest, PeersInv, RoomOK
    <3>2. sharer[r.share] <= id[Host]
      BY <3>1 DEF PeersInv, RoomOK, PageOf
    <3>3. sharer[r.share] \in 1 .. id'[Host]
      BY <1>3, <3>1, <3>2, SessionIs
    <3>4. r.viewer[2] \in 1 .. id'[PageOf(r.viewer)] /\ r.viewer \in in'
      <4>1. c[2] = id'[p] /\ PageOf(c) = p /\ id'[p] \in Nat /\ id'[p] >= 1
        BY <1>3 DEF PageOf
      <4>2. r.viewer = c /\ c \in in'
        BY <1>2, <1>5, <2>1
      <4> HIDE DEF c
      <4> QED
        BY <4>1, <4>2
    <3> QED
      BY <1>2, <3>1, <3>3, <3>4 DEF Made, Conn, PageOf
  <2>2. CASE r \notin new
    <3> SUFFICES ASSUME r \in Known PROVE Made(r)'
      BY <1>6, <2>2 DEF Made
    <3>1. sharer[r.share] \in 1 .. id'[Host]
      BY <1>3, <1>10, SessionIs DEF Made
    <3>2. r.viewer[2] \in 1 .. id'[PageOf(r.viewer)]
      BY <1>3, <1>10, SessionIs DEF Made
    <3>3. r \in live' => Conn(r, "host") \in in' /\ r.viewer \in in'
      BY <1>2, <1>6, <1>10, <2>2 DEF Made
    <3> QED
      BY <1>2, <3>1, <3>2, <3>3 DEF Made, Conn, PageOf
  <2> QED
    BY <2>1, <2>2
<1>16. ASSUME NEW r \in new PROVE SessionOK(r)'
  <2>1. peer'[r] = NoPeers /\ ice'[r] = NoIce /\ r \in Known' /\ r \in Session
    BY <1>4, <1>6
  <2>2. <<Host, sharer[r.share]>> # r.viewer
    <3>1. sharer[r.share] \in streaming /\ <<Host, sharer[r.share]>> \in in
      BY <1>5 DEF Latest, PeersInv, RoomOK
    <3>2. sharer[r.share] <= id[Host]
      BY <3>1 DEF PeersInv, RoomOK, PageOf
    <3>3. r.viewer = c
      BY <1>5
    <3> QED
      BY <1>3, <3>2, <3>3
  <2> QED
    BY <1>2, <1>4, <1>7, <1>8, <1>9, <1>11, <1>15, <2>1, <2>2, NewSessionOK
<1>17. ASSUME NEW r \in Session, r \notin new PROVE Still(r)
  <2>1. Quiet(r)
    <3>1. \A q \in Pages : \A k : Down(q, k, r)' = Down(q, k, r)
      <4>1. \A q \in Pages : \A k : Down(q, k, r) \in Nat
        BY DownsAre DEF PeersInv, Downs
      <4> QED
        BY <1>7, <1>17, <4>1 DEF DownNew, Bit
    <3> QED
      BY <1>7, <1>9, <1>17, <3>1 DEF Quiet, DownNew
  <2>2. ASSUME r \in Known, NEW e \in Ends
        PROVE  Reached(Conn(r, e))' <=> Reached(Conn(r, e))
    <3>1. /\ PageOf(Conn(r, e)) = Page(r, e) /\ Conn(r, e)' = Conn(r, e)
          /\ Page(r, e) \in Pages /\ Conn(r, e) = <<Page(r, e), Conn(r, e)[2]>>
          /\ Conn(r, e)[2] <= id[Page(r, e)]
      <4>1. CASE e = "host"
        BY <1>2, <1>10, <2>2, <4>1, SessionIs DEF Conn, Page, PageOf
      <4>2. CASE e = "client"
        BY <1>2, <1>10, <2>2, <4>2, SessionIs DEF Conn, Page, PageOf
      <4> QED
        BY <2>2, <4>1, <4>2, EndsAre
    <3>2. Reached(Conn(r, e)) <=> ws[Page(r, e)] = "in" /\ Conn(r, e)[2] = id[Page(r, e)]
      BY <3>1 DEF Reached, Current
    <3>3. Reached(Conn(r, e))' <=> ws'[Page(r, e)] = "in" /\ Conn(r, e)[2] = id'[Page(r, e)]
      BY <3>1 DEF Reached, Current, PageOf, Page, Conn
    <3>4. CASE Page(r, e) = p
      BY <1>1, <1>3, <3>1, <3>2, <3>3, <3>4
    <3>5. CASE Page(r, e) # p
      BY <1>3, <3>1, <3>2, <3>3, <3>5
    <3> QED
      BY <3>4, <3>5
  <2>3. Steady(r)
    BY <1>6, <1>17, <2>2 DEF Steady
  <2>4. /\ r \in Known' <=> r \in Known
        /\ r \in Known => peer'[r] = peer[r] /\ ice'[r] = ice[r]
    BY <1>6, <1>17
  <2> QED
    BY <1>8, <2>1, <2>3, <2>4, QuietStill
<1> QED
  BY <1>8, <1>12, <1>13, <1>14, <1>15, <1>16, <1>17, StillStep

LEMMA TakeShareOK == ASSUME PeersInv, TakeShare PROVE PeersInv'
<1> DEFINE c == Current(Host)
<1>1. /\ id \in [Pages -> 0 .. MaxConns] /\ in \subseteq Conns /\ streaming \subseteq 1 .. MaxConns
      /\ sharer \in [Shares -> 0 .. MaxConns] /\ live \subseteq Known /\ Known \subseteq Session
      /\ asking \in Nat /\ asks \in 0 .. MaxShares
  BY DEF PeersInv, VarsOK
<1>2. PICK m \in Nat : Numbered(m)
  BY DEF PeersInv, ShareOK
<1>3. Cardinality({k \in Shares : sharer[k] # 0}) = m
  <2>1. UpTaken(Host, "share", NoSession)
    BY SessionIs, UpTaking DEF TakeShare, PeersInv
  <2>2. Up(Host, "share", NoSession) \in Nat
    BY SessionIs, UpsAre DEF PeersInv, Ups
  <2>3. m <= MaxShares
    BY <1>1, <1>2, <2>2, BoundsAssumption DEF Numbered
  <2>4. {k \in Shares : sharer[k] # 0} = 1 .. m
    BY <1>2, <2>3, BoundsAssumption DEF Numbered, Shares
  <2>5. Cardinality(1 .. m) = m
    BY FS_Interval, 1 \in Int, m \in Int
  <2> QED
    BY <2>4, <2>5
<1> DEFINE n == m + 1
           new == [share : {n}, viewer : in \ {c}]
           by == [sharer EXCEPT ![n] = id[Host]]
<1>4. /\ ws[Host] = "in"
      /\ UNCHANGED <<ws, id, losses, in, asking, asks, stream>>
      /\ sharer' = by /\ streaming' = streaming \cup {id[Host]}
      /\ NewSessions(new, by)
  BY <1>3 DEF TakeShare, Takes, shareVars
<1>5. UpTaken(Host, "share", NoSession)
  BY SessionIs, UpTaking DEF TakeShare, PeersInv
<1>6. /\ UpOK'
      /\ \A q \in Pages : \A k : \A r \in Session : Up(q, k, r)' = Up(q, k, r)
      /\ Up(Host, "share", NoSession)' + 1 = Up(Host, "share", NoSession)
      /\ Up(Host, "share", NoSession)' \in Nat /\ Up(Host, "share", NoSession) \in Nat
  <2>1. UpOK'
    BY <1>5 DEF UpTaken
  <2>2. \A q \in Pages : \A m2 : Count(up'[q], m2) \in Nat /\ Count(up[q], m2) \in Nat
    BY <2>1, CountIs DEF PeersInv, UpOK
  <2> QED
    BY <1>5, <2>1, <2>2, SessionIs DEF UpTaken, Up, Bit
<1>7. n \in Shares /\ sharer[n] = 0
  <2>1. m + 1 <= MaxShares
    BY <1>1, <1>2, <1>6, BoundsAssumption DEF Numbered
  <2> QED
    BY <1>2, <2>1, BoundsAssumption DEF Numbered, Shares
<1>8. /\ c \in in /\ c = <<Host, id[Host]>> /\ id[Host] \in 1 .. MaxConns
  <2>1. c \in in /\ c = <<Host, id[Host]>>
    BY <1>4, SessionIs DEF PeersInv, RoomOK, Current
  <2> QED
    BY <1>1, <2>1 DEF Conns
<1>9. /\ by \in [Shares -> 0 .. MaxConns] /\ by[n] = id[Host]
      /\ \A k \in Shares : k # n => by[k] = sharer[k]
  BY <1>1, <1>7, <1>8
<1>10. /\ new \subseteq Session
       /\ \A r \in new : r.share = n /\ r.viewer \in in /\ r.viewer # c
  BY <1>1, <1>7 DEF Session
<1> HIDE DEF new, by, n, c
<1>11. /\ live' = live \cup new
       /\ peer' = [s \in Known \cup new |-> IF s \in new THEN NoPeers ELSE peer[s]]
       /\ ice' = [s \in Known \cup new |-> IF s \in new THEN NoIce ELSE ice[s]]
       /\ Known' = Known \cup new
  BY <1>4 DEF NewSessions, Known
<1>12. DownNew(new, by)
  BY <1>4, <1>10, Announcing DEF PeersInv
<1>13. DownOK'
  BY <1>12 DEF DownNew
<1>14. \A r \in Known : /\ Made(r) /\ r \in Session /\ r.share \in Shares /\ r.share # n
  BY <1>1, <1>7, SessionIs DEF PeersInv, SessionOK, Made
<1>15. \A r \in new : r \notin Known
  BY <1>10, <1>14
<1>16. VarsOK'
  <2>1. /\ \A r \in Known' : /\ peer'[r] \in [Ends -> PeerState]
                             /\ ice'[r] \in [Ends -> IceCount]
        /\ DOMAIN peer' = Known' /\ DOMAIN ice' = Known'
    <3>1. NoPeers \in [Ends -> PeerState] /\ NoIce \in [Ends -> IceCount]
      BY DEF NoPeers, NoIce, PeerState, IceCount
    <3>2. peer \in [Known -> [Ends -> PeerState]] /\ ice \in [Known -> [Ends -> IceCount]]
      BY DEF PeersInv, VarsOK, PeerState, IceCount
    <3> QED
      BY <1>11, <3>1, <3>2
  <2>2. /\ peer' \in [Known' -> [Ends -> PeerState]]
        /\ ice' \in [Known' -> [Ends -> IceCount]]
    BY <1>11, <2>1
  <2>3. /\ Known' \subseteq Session /\ live' \subseteq Known' /\ streaming' \subseteq 1 .. MaxConns
        /\ sharer' \in [Shares -> 0 .. MaxConns]
    BY <1>1, <1>4, <1>8, <1>9, <1>10, <1>11
  <2> QED
    BY <1>4, <2>2, <2>3
       DEF PeersInv, VarsOK, PeerState, IceCount, Conns, Pages, Shares, Session
<1>17. RoomOK'
  <2>1. \A h \in streaming' : <<Host, h>> \in in'
    BY <1>4, <1>8 DEF PeersInv, RoomOK
  <2> QED
    BY <1>4, <2>1 DEF PeersInv, RoomOK, Current, PageOf
<1>18. ShareOK'
  <2>1. Numbered(n)'
    <3>1. \A k \in Shares : by[k] # 0 <=> k <= n
      <4> SUFFICES ASSUME NEW k \in Shares PROVE by[k] # 0 <=> k <= n
        OBVIOUS
      <4>1. k \in Nat /\ id[Host] # 0 /\ id[Host] \in Nat
        BY <1>8 DEF Shares
      <4>2. CASE k = n
        BY <1>9, <4>1, <4>2 DEF n
      <4>3. CASE k # n
        <5>1. by[k] = sharer[k] /\ (sharer[k] # 0 <=> k <= m)
          BY <1>2, <1>9, <4>3 DEF Numbered
        <5> QED
          BY <4>1, <4>3, <5>1 DEF n
      <4> QED
        BY <4>2, <4>3
    <3>2. n + Up(Host, "share", NoSession)' + asking <= asks
      BY <1>1, <1>2, <1>6 DEF Numbered, n
    <3> QED
      BY <1>4, <3>1, <3>2 DEF Numbered, Shares
  <2>2. n \in Nat
    BY DEF n
  <2> QED
    BY <2>1, <2>2 DEF ShareOK
<1>19. ASSUME NEW r \in Session PROVE Made(r)'
  <2>1. CASE r \in new
    <3>1. sharer'[r.share] \in 1 .. id'[Host]
      BY <1>4, <1>8, <1>9, <1>10, <2>1
    <3>2. r.viewer[2] \in 1 .. id'[PageOf(r.viewer)] /\ r.viewer \in in'
      <4>1. r.viewer \in in /\ r.viewer[2] <= id[PageOf(r.viewer)]
        BY <1>10, <2>1 DEF PeersInv, RoomOK
      <4>2. r.viewer[2] \in 1 .. MaxConns /\ id[PageOf(r.viewer)] \in Nat
        BY <1>1, <1>19, SessionIs
      <4> QED
        BY <1>4, <4>1, <4>2
    <3>3. <<Host, sharer'[r.share]>> \in in'
      BY <1>4, <1>8, <1>9, <1>10, <2>1
    <3> QED
      BY <3>1, <3>2, <3>3 DEF Made, Conn, PageOf
  <2>2. CASE r \notin new
    <3> SUFFICES ASSUME r \in Known PROVE Made(r)'
      BY <1>11, <2>2 DEF Made
    <3>1. sharer'[r.share] = sharer[r.share] /\ Made(r)
      BY <1>4, <1>9, <1>14
    <3>2. r \in live' => Conn(r, "host") \in in /\ r.viewer \in in
      BY <1>11, <2>2, <3>1 DEF Made
    <3> QED
      BY <1>4, <3>1, <3>2 DEF Made, Conn, PageOf
  <2> QED
    BY <2>1, <2>2
<1>20. ASSUME NEW r \in new PROVE SessionOK(r)'
  <2>1. peer'[r] = NoPeers /\ ice'[r] = NoIce /\ r \in Known' /\ r \in Session
    BY <1>10, <1>11
  <2>2. <<Host, by[r.share]>> # r.viewer
    BY <1>8, <1>9, <1>10
  <2> QED
    BY <1>4, <1>6, <1>10, <1>12, <1>15, <1>19, <2>1, <2>2, NewSessionOK
<1>21. ASSUME NEW r \in Session, r \notin new PROVE Still(r)
  <2>1. Quiet(r)
    <3>1. \A q \in Pages : \A k : Down(q, k, r)' = Down(q, k, r)
      <4>1. \A q \in Pages : \A k : Down(q, k, r) \in Nat
        BY DownsAre DEF PeersInv, Downs
      <4> QED
        BY <1>12, <1>21, <4>1 DEF DownNew, Bit
    <3> QED
      BY <1>6, <1>12, <1>21, <3>1 DEF Quiet, DownNew
  <2>2. Steady(r)
    <3>1. r \in Known => \A e \in Ends : Conn(r, e)' = Conn(r, e)
      BY <1>4, <1>9, <1>14 DEF Conn
    <3> QED
      BY <1>4, <1>11, <1>21, <3>1 DEF Steady, Reached, Current, PageOf
  <2>3. /\ r \in Known' <=> r \in Known
        /\ r \in Known => peer'[r] = peer[r] /\ ice'[r] = ice[r]
    BY <1>11, <1>21
  <2> QED
    BY <1>6, <1>13, <2>1, <2>2, <2>3, QuietStill
<1> QED
  BY <1>6, <1>13, <1>16, <1>17, <1>18, <1>19, <1>20, <1>21, StillStep
-----------------------------------------------------------------------------
LEMMA PeersStart == Init => PeersInv
<1> SUFFICES ASSUME Init PROVE PeersInv
  OBVIOUS
<1> USE DEF Init
<1>1. Known = {}
  BY DEF Known
<1>2. VarsOK
  <2>1. peer = <<>> /\ ice = <<>>
    OBVIOUS
  <2>2. \A S : <<>> \in [{} -> S]
    OBVIOUS
  <2>3. /\ peer \in [Known -> [Ends -> {"none", "new", "setting", "offered", "describing",
                                        "draining", "done"}]]
        /\ ice \in [Known -> [Ends -> [sent : Nat, kept : Nat, added : Nat]]]
    BY <1>1, <2>1, <2>2
  <2> QED
    BY <1>1, <2>3, BoundsAssumption DEF VarsOK
<1>3. UpOK /\ DownOK
  BY EmptyCounts DEF UpOK, DownOK
<1>4. RoomOK
  BY DEF RoomOK
<1>5. \A q \in Pages : \A k, r : Up(q, k, r) = 0 /\ Down(q, k, r) = 0
  BY EmptyCounts DEF Up, Down
<1>6. ShareOK
  <2>1. Numbered(0)
    BY <1>5, SessionIs, BoundsAssumption DEF Numbered, Shares
  <2> QED
    BY <2>1 DEF ShareOK
<1>7. ASSUME NEW r \in Session PROVE SessionOK(r)
  <2>1. \A e \in Ends : Page(r, e) \in Pages /\ Page(r, Other(e)) \in Pages
    BY SessionIs, EndsAre
  <2>2. \A q \in Pages : \A k : Count(up[q], Msg(k, r)) = 0 /\ Count(down[q], Msg(k, r)) = 0
    BY EmptyCounts
  <2>3. \A e \in Ends : Announced(r, e) = 0 /\ Offers(r, e) = 0 /\ OnTheWay(r, e) = 0
    BY <2>1, <2>2 DEF Announced, Offers, OnTheWay, Up, Down
  <2> QED
    BY <1>1, <2>3 DEF SessionOK, Unborn, Made, Stage, End, Ice
<1> QED
  BY <1>2, <1>3, <1>4, <1>6, <1>7 DEF PeersInv

LEMMA PeersStutter == PeersInv /\ UNCHANGED vars => PeersInv'
<1> SUFFICES ASSUME PeersInv, UNCHANGED vars PROVE PeersInv'
  OBVIOUS
<1>1. UpOK' /\ DownOK' /\ \A r \in Session : Quiet(r)
  BY Standing DEF vars
<1>2. ShareOK'
  BY DEF PeersInv, ShareOK, Numbered, Up, vars
<1> QED
  BY <1>1, <1>2, HostStep DEF vars, socketVars, serverVars, peerVars, PeersInv, VarsOK

LEMMA PeersStep == PeersInv /\ [Next]_vars => PeersInv'
<1> SUFFICES ASSUME PeersInv, [Next]_vars PROVE PeersInv'
  OBVIOUS
<1>1. \A e \in Ends : Other(e) \in Ends
  BY EndsAre
<1>2. ASSUME NEW p \in Pages, Open(p) PROVE PeersInv'
  BY <1>2, OpenOK
<1>3. ASSUME NEW p \in Pages, Lose(p) PROVE PeersInv'
  BY <1>3, ClosingOK DEF Lose, PeersInv, VarsOK
<1>4. ASSUME NEW p \in Pages, Serve(p) PROVE PeersInv'
  <2>1. CASE Enter(p)
    BY <2>1, EnterOK
  <2>2. CASE Refuse(p)
    BY <2>2, ClosingOK DEF Refuse, PeersInv, VarsOK
  <2>3. CASE TakeShare
    BY <2>3, TakeShareOK
  <2>4. CASE TakeStopShare
    BY <2>4, TakeStopShareOK
  <2>5. CASE \E s \in Known, e \in Ends : Page(s, e) = p /\ Pass(s, e)
    BY <2>5, PassOK
  <2> QED
    BY <1>4, <2>1, <2>2, <2>3, <2>4, <2>5 DEF Serve
<1>5. ASSUME NEW p \in Pages, Handle(p) PROVE PeersInv'
  BY <1>1, <1>5, GetSessionOK, GetOfferOK, GetIceOK DEF Handle
<1>6. CASE \E c \in in : Notice(c)
  BY <1>6, NoticeOK
<1>7. CASE Continue
  BY <1>7, LocalSetOK, RemoteSetOK, DrainOK DEF Continue
<1>8. CASE \E s \in Known, e \in Ends : Gather(s, e)
  BY <1>8, GatherOK
<1>9. CASE AskToShare \/ ShareGranted \/ StopShare
  BY <1>9, AskToShareOK, ShareGrantedOK, StopShareOK
<1>10. CASE UNCHANGED vars
  BY <1>10, PeersStutter
<1> QED
  BY <1>2, <1>3, <1>4, <1>5, <1>6, <1>7, <1>8, <1>9, <1>10 DEF Next

\* What the messages on their way say of the two ends of their session, and what the
\* server knows of connections, whatever is lost.
THEOREM PeersCounted == Spec => []PeersInv
<1>1. Init => PeersInv
  BY PeersStart
<1>2. PeersInv /\ [Next]_vars => PeersInv'
  BY PeersStep
<1> QED
  BY <1>1, <1>2, PTL DEF Spec

\* No candidate is lost or added twice, and none stays kept (trickle ICE while the
\* description is set, ui_failsafe.py).
THEOREM CandidatesComplete == Spec => []IceComplete
<1>1. PeersInv => IceComplete
  <2> SUFFICES ASSUME PeersInv, NEW s \in live, NEW e \in Ends
               PROVE  /\ (\A f \in Ends : Reached(Conn(s, f))) =>
                            ice[s][e].sent = OnTheWay(s, e) + ice[s][e].kept + ice[s][e].added
                      /\ Described(s, Other(e)) /\ peer[s][Other(e)] # "draining"
                            => ice[s][e].kept = 0
    BY DEF IceComplete
  <2>1. s \in Known
    BY DEF PeersInv, VarsOK
  <2>2. Ice(s, e) /\ End(s, Other(e)) /\ Other(Other(e)) = e
    BY <2>1, KnownIs, EndsAre
  <2>3. (\A f \in Ends : Reached(Conn(s, f))) => Reached(Conn(s, "host")) /\ Reached(s.viewer)
    BY EndsAre DEF Conn
  <2> QED
    BY <2>1, <2>2, <2>3 DEF Ice, End
<1> QED
  BY <1>1, PeersCounted, PTL

\* Each message finds the peer connection it is for, in the state it needs (the
\* handlers of "hostoffer", "clientanswer", "hostice" and "clientice").
THEOREM PeersFound == Spec => []MessagesFindPeers
<1>1. PeersInv => MessagesFindPeers
  <2> SUFFICES ASSUME PeersInv, NEW p \in Pages, down[p] # <<>>
               PROVE  LET m == Head(down[p])  s == m.session IN
                      /\ m.kind = "hostoffer" => peer[s].client = "new"
                      /\ m.kind = "hostice" => peer[s].client # "none"
                      /\ m.kind = "clientanswer" => peer[s].host = "offered"
                      /\ m.kind = "clientice" => peer[s].host \notin {"none", "setting"}
    BY DEF MessagesFindPeers
  <2>1. down[p] \in Seq(ToPage(p))
    BY DEF PeersInv, DownOK
  <2>2. Head(down[p]) \in ToPage(p) /\ Count(down[p], Head(down[p])) > 0
    BY <2>1, HeadCounts
  <2>3. Taken(ToPage(p), down[p], Tail(down[p]), Head(down[p]))
    BY <2>1, Taking
  <2>4. ASSUME NEW f \in Ends, NEW k \in {Offer[f], Candidate[f]}, NEW s \in Session,
               p = Page(s, Other(f)), Head(down[p]) = Msg(k, s)
        PROVE  /\ s \in Known /\ peer[s][Other(f)] # "none"
               /\ k = Offer[f] => Offers(s, f) > 0
               /\ k = Candidate[f] => OnTheWay(s, f) > 0
    <3>1. Other(f) \in Ends /\ Other(Other(f)) = f
      BY EndsAre
    <3>2. Down(p, k, s) > 0 /\ Down(p, k, s) \in Nat
      BY <2>2, <2>4, DownsAre DEF Down, PeersInv, Downs
    <3>3. /\ k = Offer[f] => Offers(s, f) > 0
          /\ k = Candidate[f] => OnTheWay(s, f) > 0
      <4>1. Page(s, f) \in Pages
        BY SessionIs
      <4>2. \A l : Count(up[Page(s, f)], Msg(l, s)) \in Nat
        BY <4>1, UpsAre DEF PeersInv, Ups, Up
      <4> QED
        BY <2>4, <3>2, <4>2 DEF Offers, OnTheWay, Up, Down
    <3>4. s \in Known
      BY <3>3 DEF PeersInv, SessionOK, Unborn
    <3>5. End(s, Other(f))
      BY <3>1, <3>4, KnownIs
    <3>6. Count(down[p], Msg(Told[Other(f)], s)) = 0
      <4>1. Msg(Told[Other(f)], s) # Msg(k, s)
        BY <3>1, KindsAre, MsgIs
      <4>2. Ahead(down[p], Msg(Told[Other(f)], s), Msg(k, s))
        BY <2>4, <3>1, <3>4, <3>5 DEF End, Order
      <4> QED
        BY <2>3, <2>4, <4>1, <4>2 DEF Taken
    <3>7. Reached(Conn(s, Other(f)))
      BY <2>4, <3>1, <3>2, <3>4, <3>5 DEF End, Nothing
    <3>8. peer[s][Other(f)] # "none"
      BY <2>4, <3>4, <3>5, <3>6, <3>7 DEF End, Announced, Down
    <3> QED
      BY <3>3, <3>4, <3>8
  <2>5. PICK k, s : Head(down[p]) = Msg(k, s)
    BY <2>2 DEF ToPage
  <2>6. Head(down[p]).kind = k /\ Head(down[p]).session = s
    BY <2>5 DEF Msg
  <2>7. ASSUME k \in {Offer["host"], Candidate["host"]}
        PROVE  s \in Session /\ p = Page(s, Other("host"))
    <3>1. k \notin {Told["host"], Offer["client"], Candidate["client"]}
      BY <2>7, KindsAre, EndsAre
    <3>2. \E r \in {t \in Session : p = PageOf(t.viewer)} : s = r
      BY <2>2, <2>5, <3>1, MsgIs DEF ToPage
    <3> QED
      BY <3>2 DEF Page, Other
  <2>8. ASSUME k \in {Offer["client"], Candidate["client"]}
        PROVE  s \in Session /\ p = Page(s, Other("client"))
    <3>1. k \notin {Told["client"], Offer["host"], Candidate["host"]}
      BY <2>8, KindsAre, EndsAre
    <3>2. \E r \in {t \in Session : p = Host} : s = r
      BY <2>2, <2>5, <3>1, MsgIs DEF ToPage
    <3> QED
      BY <3>2 DEF Page, Other
  <2>9. CASE k = "hostoffer"
    <3>1. k = Offer["host"]
      BY <2>9 DEF Offer
    <3>2. s \in Known /\ peer[s]["client"] # "none" /\ Offers(s, "host") > 0
      BY <2>4, <2>5, <2>7, <3>1, EndsAre
    <3> QED
      BY <2>6, <2>9, <3>2, KnownIs DEF Stage
  <2>10. CASE k = "hostice"
    <3>1. k = Candidate["host"]
      BY <2>10 DEF Candidate
    <3>2. peer[s]["client"] # "none"
      BY <2>4, <2>5, <2>7, <3>1, EndsAre
    <3> QED
      BY <2>6, <2>10, <3>2
  <2>11. CASE k = "clientanswer"
    <3>1. k = Offer["client"]
      BY <2>11 DEF Offer
    <3>2. s \in Known /\ Offers(s, "client") > 0
      BY <2>4, <2>5, <2>8, <3>1, EndsAre
    <3> QED
      BY <2>6, <2>11, <3>2, KnownIs DEF Stage
  <2>12. CASE k = "clientice"
    <3>1. k = Candidate["client"]
      BY <2>12 DEF Candidate
    <3>2. s \in Known /\ OnTheWay(s, "client") > 0
      BY <2>4, <2>5, <2>8, <3>1, EndsAre
    <3> QED
      BY <2>6, <2>12, <3>2, KnownIs DEF Stage
  <2>13. CASE k \notin {"hostoffer", "hostice", "clientanswer", "clientice"}
    BY <2>6, <2>13
  <2> QED
    BY <2>9, <2>10, <2>11, <2>12, <2>13
<1> QED
  BY <1>1, PeersCounted, PTL

\* A page is thrown out only for what it sends about a session of an earlier connection of
\* its own (src/ws/event_hostoffer.go:32, after the reconnection of src/ui_failsafe.py:593)
\* which the server still takes for one in the room.
THEOREM NobodyIsThrownOut == Spec => NobodyThrownOut
<1>1. PeersInv /\ [Next]_vars =>
         [\A p \in Pages : ThrownOut(p) => \E c \in in : PageOf(c) = p /\ c # Current(p)]_vars
  <2> SUFFICES ASSUME PeersInv, Next, NEW p \in Pages, ThrownOut(p)
               PROVE  \E c \in in : PageOf(c) = p /\ c # Current(p)
    OBVIOUS
  <2>1. /\ ws[p] = "in" /\ ws'[p] = "closed" /\ losses' = losses
        /\ losses \in Nat /\ ws \in [Pages -> {"closed", "entering", "in"}]
    BY DEF ThrownOut, PeersInv, VarsOK
  <2>2. ASSUME NEW s \in Known, NEW e \in Ends, Pass(s, e)
        PROVE  \E c \in in : PageOf(c) = p /\ c # Current(p)
    <3>1. s \in live /\ Conn(s, e) # Current(Page(s, e)) /\ Close(Page(s, e))
      BY <2>1, <2>2 DEF Pass
    <3>2. p = Page(s, e)
      BY <2>1, <2>2, <3>1, KnownIs DEF Close
    <3>3. Conn(s, e) \in in
      BY <2>2, <3>1, KnownIs, EndsAre DEF Made, Conn
    <3>4. PageOf(Conn(s, e)) = p
      BY <3>2 DEF PageOf, Conn, Page
    <3> QED
      BY <3>1, <3>2, <3>3, <3>4
  <2>3. ASSUME NEW q \in Pages, Open(q) PROVE FALSE
    BY <2>1, <2>3 DEF Open
  <2>4. ASSUME NEW q \in Pages, Lose(q) PROVE FALSE
    BY <2>1, <2>4 DEF Lose
  <2>5. ASSUME NEW q \in Pages, Enter(q) PROVE FALSE
    BY <2>1, <2>5 DEF Enter
  <2>6. ASSUME NEW q \in Pages, Refuse(q) PROVE FALSE
    BY <2>1, <2>6 DEF Refuse, Close
  <2>7. ASSUME ws' = ws PROVE FALSE
    BY <2>1, <2>7
  <2>8. TakeShare \/ TakeStopShare => ws' = ws
    BY DEF TakeShare, TakeStopShare, socketVars
  <2>9. ASSUME NEW q \in Pages, Handle(q) PROVE ws' = ws
    BY <2>9 DEF Handle, GetSession, GetOffer, GetIce, socketVars
  <2>10. (\E c \in in : Notice(c)) => ws' = ws
    BY DEF Notice, socketVars
  <2>11. Continue => ws' = ws
    BY DEF Continue, LocalSet, RemoteSet, Drain, socketVars
  <2>12. (\E s \in Known, e \in Ends : Gather(s, e)) => ws' = ws
    BY DEF Gather, socketVars
  <2>13. AskToShare \/ ShareGranted \/ StopShare => ws' = ws
    BY DEF AskToShare, ShareGranted, StopShare, socketVars
  <2>14. ASSUME NEW q \in Pages, Serve(q)
         PROVE  \E c \in in : PageOf(c) = p /\ c # Current(p)
    BY <2>2, <2>5, <2>6, <2>7, <2>8, <2>14 DEF Serve
  <2> QED
    BY <2>3, <2>4, <2>7, <2>9, <2>10, <2>11, <2>12, <2>13, <2>14 DEF Next
<1> QED
  BY <1>1, PeersCounted, PTL DEF Spec, NobodyThrownOut
===============================================================================
