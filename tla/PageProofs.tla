------------------------------ MODULE PageProofs ------------------------------
(***************************************************************************)
(* Theorems about the page of useRoom.ts: Presentation, what one page does   *)
(* with captures and microphones, for any sessions and any number of         *)
(* captures and pauses; and Signaling, what pages and server say to each     *)
(* other, for any number of viewers and shares.                              *)
(***************************************************************************)
EXTENDS Presentation, Signaling, QueueLemmas

-------------------------------------------------------------------------------
(* The presenting page. *)

\* The part of the type that matters for who owns a capture.
ShareType ==
    /\ shareAt \in {"idle", "display", "loopback", "mic"}
    /\ pending \in IF shareAt \in {"loopback", "mic"} THEN Captures ELSE {0}
    /\ stream \in Captures \cup {0}
    /\ capture \in [Captures -> {"none", "live", "ended", "stopped"}]
    /\ told \in BOOLEAN /\ open \in BOOLEAN
    /\ micMuted \in BOOLEAN /\ soundMuted \in BOOLEAN

\* share() runs only while nothing is presented, share is only sent to an open
\* WebSocket (stopShare says nothing to a closed one), and a track or gain that is on
\* is not muted.
PageInv ==
    /\ ShareType
    /\ shareAt # "idle" => stream = 0
    /\ CaptureOwned
    /\ NoGhostHost
    /\ told => open
    /\ mic = "on" => ~micMuted
    /\ sysGain = "on" => ~soundMuted

LEMMA CapturesAreCounted == 0 \notin Captures
BY DEF Captures

\* stopShare leaves nothing running that share() does not hold.
LEMMA StopKeepsInv ==
    ASSUME PageInv, stopShare
    PROVE  PageInv'
<1>1. ShareType'
  BY DEF PageInv, ShareType, stopShare, Stopped, ToldAfterStop
<1>2. CaptureOwned'
  BY CapturesAreCounted DEF PageInv, ShareType, CaptureOwned, stopShare, Stopped
<1>3. NoGhostHost'
  BY DEF PageInv, ShareType, NoGhostHost, stopShare, ToldAfterStop
<1>4. ~told' /\ mic' = "none" /\ sysGain' = "none"
  BY DEF PageInv, ShareType, stopShare, ToldAfterStop
<1>5. shareAt' # "idle" => stream' = 0
  BY DEF stopShare
<1>6. QED
  BY <1>1, <1>2, <1>3, <1>4, <1>5 DEF PageInv

LEMMA ShareBeginsKeepsInv ==
    ASSUME PageInv, share, UNCHANGED <<open, told>> \/ (told' = FALSE /\ open' \in BOOLEAN),
           UNCHANGED <<pending, stream, capture, audioVars>>
    PROVE  PageInv'
<1>1. ShareType'
  BY DEF PageInv, ShareType, share, audioVars
<1>2. CaptureOwned' /\ NoGhostHost'
  BY DEF PageInv, CaptureOwned, NoGhostHost, audioVars
<1>3. QED
  BY <1>1, <1>2 DEF PageInv, share, audioVars

\* Actions that leave the presentation and its sound alone.
LEMMA OtherKeepsInv ==
    ASSUME PageInv, UNCHANGED <<open, told>> \/ (told' = FALSE /\ open' \in BOOLEAN),
           UNCHANGED <<shareVars, audioVars>>
    PROVE  PageInv'
<1>1. ShareType'
  BY DEF PageInv, ShareType, shareVars, audioVars
<1>2. CaptureOwned' /\ NoGhostHost'
  BY DEF PageInv, CaptureOwned, NoGhostHost, shareVars, audioVars
<1>3. QED
  BY <1>1, <1>2 DEF PageInv, shareVars, audioVars

LEMMA PageInvInductive ==
    /\ PageInit => PageInv
    /\ PageInv /\ [PageNext]_pageVars => PageInv'
<1> USE CapturesAreCounted
<1>1. PageInit => PageInv
  BY DEF PageInit, PageInv, ShareType, CaptureOwned, NoGhostHost
<1>2. ASSUME PageInv, [PageNext]_pageVars PROVE PageInv'
  <2> USE <1>2
  <2>1. CASE UNCHANGED pageVars
    BY <2>1, OtherKeepsInv DEF pageVars, roomVars
  <2>2. CASE LoseRoom \/ Render
    BY <2>2, OtherKeepsInv DEF LoseRoom, Render
  <2>15. CASE OpenSocket
    BY <2>15 DEF OpenSocket, PageInv, ShareType, CaptureOwned, NoGhostHost,
                 shareVars, audioVars
  <2>3. CASE EnterRoom
    <3>1. CASE AutoShare
      BY <2>3, <3>1, ShareBeginsKeepsInv DEF EnterRoom
    <3>2. CASE ~AutoShare
      BY <2>3, <3>2, OtherKeepsInv DEF EnterRoom, shareVars
    <3>3. QED
      BY <3>1, <3>2
  <2>4. CASE ClickShare
    BY <2>4, ShareBeginsKeepsInv DEF ClickShare, roomVars
  <2>5. CASE DisplayFails
    BY <2>5 DEF DisplayFails, PageInv, ShareType, CaptureOwned, NoGhostHost,
                roomVars, audioVars
  <2>6. CASE ClickStop
    BY <2>6, StopKeepsInv DEF ClickStop
  <2>7. ASSUME NEW k \in Captures, CaptureEnds(k) PROVE PageInv'
    <3>1. CASE k = stream /\ stopShare
      BY <3>1, StopKeepsInv
    <3>2. CASE k # stream
      BY <2>7, <3>2 DEF CaptureEnds, PageInv, ShareType, CaptureOwned, NoGhostHost,
                        roomVars, audioVars
    <3>3. QED
      BY <2>7, <3>1, <3>2 DEF CaptureEnds
  <2>8. ASSUME NEW k \in Captures, NEW sound \in BOOLEAN, NEW ctx \in BOOLEAN,
               DisplayGranted(k, sound, ctx)
        PROVE  PageInv'
    BY <2>8 DEF DisplayGranted, PageInv, ShareType, CaptureOwned, NoGhostHost,
                Gain, Enabled, roomVars
  <2>9. ASSUME NEW found \in BOOLEAN, LoopbackDone(found) PROVE PageInv'
    BY <2>9 DEF LoopbackDone, PageInv, ShareType, CaptureOwned, NoGhostHost, roomVars
  <2>10. ASSUME NEW found \in BOOLEAN, ShareDone(found) PROVE PageInv'
    <3>1. ShareType'
      BY <2>10 DEF ShareDone, PageInv, ShareType
    <3>2. CaptureOwned' /\ NoGhostHost'
      BY <2>10 DEF ShareDone, PageInv, ShareType, CaptureOwned, NoGhostHost
    <3>3. QED
      BY <2>10, <3>1, <3>2 DEF ShareDone, PageInv, ShareType, Enabled
  <2>11. CASE Resume \/ Pause \/ FrameFrozen \/ FreezeFails
    BY <2>11, OtherKeepsInv DEF Resume, Pause, FrameFrozen, FreezeFails, roomVars
  <2>12. ASSUME NEW s \in Sessions,
                Announce(s) \/ HostSession(s) \/ HostSessionDone(s) \/ PeerLost(s)
         PROVE  PageInv'
    BY <2>12, OtherKeepsInv
       DEF Announce, HostSession, HostSessionDone, PeerLost, roomVars
  <2>13. CASE ToggleMic
    BY <2>13 DEF ToggleMic, PageInv, ShareType, CaptureOwned, NoGhostHost, Set,
                 Enabled, roomVars, shareVars
  <2>14. CASE ToggleSystemAudio
    BY <2>14 DEF ToggleSystemAudio, PageInv, ShareType, CaptureOwned, NoGhostHost,
                 Set, Enabled, roomVars, shareVars
  <2>16. QED
    BY <2>1, <2>2, <2>3, <2>4, <2>5, <2>6, <2>7, <2>8, <2>9, <2>10, <2>11,
       <2>12, <2>13, <2>14, <2>15 DEF PageNext
<1>3. QED
  BY <1>1, <1>2

LEMMA PageInvAlways == PageSpec => []PageInv
BY PageInvInductive, PTL DEF PageSpec

\* No interleaving of clicks, awaits and lost connections leaves a capture or a
\* microphone running that nothing will stop.
THEOREM CapturesAreOwned == PageSpec => []CaptureOwned
<1>1. PageInv => CaptureOwned
  BY DEF PageInv
<1>2. QED
  BY <1>1, PageInvAlways, PTL

\* The server never waits for offers of a page that has no stream.
THEOREM NoGhosts == PageSpec => []NoGhostHost
<1>1. PageInv => NoGhostHost
  BY DEF PageInv
<1>2. QED
  BY <1>1, PageInvAlways, PTL

\* What is muted is not heard, whenever it was muted.
THEOREM MutedIsSilent == PageSpec => []MuteObeyed
<1>1. PageInv => MuteObeyed
  BY DEF PageInv, MuteObeyed
<1>2. QED
  BY <1>1, PageInvAlways, PTL

-------------------------------------------------------------------------------
(* The messages.  The invariant counts them: how often one is on its way tells *)
(* how far the session is that it belongs to.                                  *)

\* Every share of queue q is followed by a stopshare.
StopFollows(q) ==
    \A i \in DOMAIN q : q[i] = Msg("share", None) =>
        \E j \in DOMAIN q : i < j /\ q[j] = Msg("stopshare", None)

\* What a page sends, and what is sent to it.
FromPage(p) ==
    IF p = Presenter
    THEN {Msg("share", None), Msg("stopshare", None)}
             \cup {Msg("hostoffer", s) : s \in Session}
    ELSE {Msg("clientanswer", s) : s \in {r \in Session : r.viewer = p}}
ToPage(p) ==
    {Msg("endshare", None)} \cup
    IF p = Presenter
    THEN {Msg(k, s) : k \in {"hostsession", "clientanswer"}, s \in Session}
    ELSE {Msg(k, s) : k \in {"clientsession", "hostoffer"},
                      s \in {r \in Session : r.viewer = p}}

UpOK == DOMAIN up = Pages /\ \A p \in Pages : up[p] \in Seq(FromPage(p))
DownOK == DOMAIN down = Pages /\ \A p \in Pages : down[p] \in Seq(ToPage(p))

\* Where the messages of session s are.
HostSessions(s) == Count(down[Presenter], Msg("hostsession", s))
ClientSessions(s) == Count(down[s.viewer], Msg("clientsession", s))
OffersUp(s) == Count(up[Presenter], Msg("hostoffer", s))
OffersDown(s) == Count(down[s.viewer], Msg("hostoffer", s))
AnswersUp(s) == Count(up[s.viewer], Msg("clientanswer", s))
AnswersDown(s) == Count(down[Presenter], Msg("clientanswer", s))
Stops == Count(up[Presenter], Msg("stopshare", None))
Shares == Count(up[Presenter], Msg("share", None))
Order(s) == Ahead(down[s.viewer], Msg("clientsession", s), Msg("hostoffer", s))

\* The server may have made session s; it has ended or is about to.
Born(s) == s.share <= shares /\ s.viewer \in in \cup left
Over(s) == s \notin live \/ Stops > 0

UnbornOK(s) ==
    ~Born(s) =>
        /\ hostPeer[s] = "none" /\ s \notin live
        /\ s.viewer \notin left => viewPeer[s] = "none"
        /\ HostSessions(s) = 0 /\ ClientSessions(s) = 0
        /\ OffersUp(s) = 0 /\ OffersDown(s) = 0
        /\ AnswersUp(s) = 0 /\ AnswersDown(s) = 0

HostOK(s) ==
    /\ HostSessions(s) <= 1 /\ OffersUp(s) <= 1
    /\ HostSessions(s) > 0 => hostPeer[s] = "none"
    /\ OffersUp(s) > 0 => hostPeer[s] \in {"offered", "answered", "closed"}

ViewerOK(s) ==
    s.viewer \notin left =>
        /\ ClientSessions(s) <= 1 /\ OffersUp(s) + OffersDown(s) <= 1
        /\ ClientSessions(s) > 0 => viewPeer[s] = "none"
        /\ OffersDown(s) > 0 => hostPeer[s] \in {"offered", "closed"}
        /\ Order(s)
        /\ \/ HostSessions(s) + OffersUp(s) + OffersDown(s) > 0
           \/ hostPeer[s] = "offering"
           => viewPeer[s] = "new" \/ ClientSessions(s) > 0

AnswerOK(s) ==
    /\ AnswersUp(s) + AnswersDown(s) <= 1
    /\ AnswersUp(s) + AnswersDown(s) > 0 =>
           viewPeer[s] \in {"answered", "closed"} /\ hostPeer[s] \in {"offered", "closed"}
    /\ hostPeer[s] = "answered" => viewPeer[s] \in {"answered", "closed"}
    /\ viewPeer[s] = "answering" => hostPeer[s] \in {"offered", "closed"}
    /\ hostPeer[s] = "closed" =>
           \/ Over(s)
           \/ /\ AnswersUp(s) + AnswersDown(s) = 0
              /\ viewPeer[s] \in {"answered", "closed"}

SessionOK(s) == UnbornOK(s) /\ HostOK(s) /\ ViewerOK(s) /\ AnswerOK(s)

ShareOK ==
    /\ shares + Shares = clicks
    /\ hosting => shares > 0
    /\ ~hosting => live = {}
    /\ ~presenting => StopFollows(up[Presenter]) /\ (Stops > 0 \/ ~hosting)

\* TypeOK without the queues.
VarsOK ==
    /\ in \subseteq Viewers /\ left \subseteq Viewers
    /\ hosting \in BOOLEAN /\ presenting \in BOOLEAN
    /\ shares \in 0 .. MaxShares /\ clicks \in 0 .. MaxShares
    /\ live \subseteq Session /\ \A s \in live : s.viewer \in in
    /\ hostPeer \in [Session -> {"none", "offering", "offered", "answered", "closed"}]
    /\ viewPeer \in [Session -> {"none", "new", "answering", "answered", "closed"}]
    /\ tile \in [Viewers -> Session \cup {None}]

SignalingInv ==
    /\ VarsOK /\ UpOK /\ DownOK /\ ShareOK
    /\ \A s \in Session : SessionOK(s)
-----------------------------------------------------------------------------
LEMMA MsgIs == \A k, l, s, r : Msg(k, s) = Msg(l, r) <=> k = l /\ s = r
<1> SUFFICES ASSUME NEW k, NEW l, NEW s, NEW r PROVE Msg(k, s) = Msg(l, r) <=> k = l /\ s = r
  OBVIOUS
<1>1. Msg(k, s).kind = k /\ Msg(k, s).session = s /\ Msg(l, r).kind = l /\ Msg(l, r).session = r
  BY DEF Msg
<1> QED
  BY <1>1

\* A share that is sent or taken, and the stopshare that follows it.
LEMMA StoppedAdding ==
    ASSUME NEW S, NEW q \in Seq(S), NEW e \in S
    PROVE  /\ StopFollows(q) /\ e # Msg("share", None) => StopFollows(Append(q, e))
           /\ e = Msg("stopshare", None) => StopFollows(Append(q, e))
<1>1. PICK n \in Nat : n = Len(q) /\ DOMAIN q = 1 .. n
  BY LenProperties
<1>2. /\ Append(q, e) \in Seq(S) /\ DOMAIN Append(q, e) = 1 .. n + 1
      /\ \A i \in 1 .. n : Append(q, e)[i] = q[i]
      /\ Append(q, e)[n + 1] = e
  BY <1>1
<1>3. ASSUME e = Msg("stopshare", None) PROVE StopFollows(Append(q, e))
  <2>1. Msg("share", None) # Msg("stopshare", None)
    BY MsgIs
  <2> QED
    BY <1>1, <1>2, <1>3, <2>1 DEF StopFollows
<1>4. ASSUME StopFollows(q), e # Msg("share", None) PROVE StopFollows(Append(q, e))
  <2>1. ASSUME NEW i \in 1 .. n + 1, Append(q, e)[i] = Msg("share", None)
        PROVE  \E j \in 1 .. n + 1 : i < j /\ Append(q, e)[j] = Msg("stopshare", None)
    <3>1. i \in 1 .. n /\ q[i] = Msg("share", None)
      BY <1>2, <1>4, <2>1
    <3>2. PICK j \in 1 .. n : i < j /\ q[j] = Msg("stopshare", None)
      BY <1>1, <1>4, <3>1 DEF StopFollows
    <3> QED
      BY <1>2, <3>2
  <2> QED
    BY <1>2, <2>1 DEF StopFollows
<1> QED
  BY <1>3, <1>4

LEMMA StoppedTaking ==
    ASSUME NEW S, NEW q \in Seq(S), q # <<>>
    PROVE  /\ StopFollows(q) => StopFollows(Tail(q))
           /\ StopFollows(q) /\ Head(q) = Msg("share", None)
                  => Count(Tail(q), Msg("stopshare", None)) > 0
<1>1. PICK n \in Nat : n = Len(q) /\ DOMAIN q = 1 .. n /\ n > 0
  BY LenProperties, EmptySeq
<1>2. /\ Tail(q) \in Seq(S) /\ Len(Tail(q)) = n - 1 /\ Head(q) \in S
      /\ \A i \in 1 .. n - 1 : Tail(q)[i] = q[i + 1]
  BY <1>1, HeadTailProperties
<1>3. DOMAIN Tail(q) = 1 .. n - 1 /\ Head(q) = q[1]
  BY <1>1, <1>2, LenProperties
<1>7. ASSUME StopFollows(q) PROVE StopFollows(Tail(q))
  <2>1. ASSUME NEW i \in 1 .. n - 1, Tail(q)[i] = Msg("share", None)
        PROVE  \E j \in 1 .. n - 1 : i < j /\ Tail(q)[j] = Msg("stopshare", None)
    <3>1. PICK j \in 1 .. n : i + 1 < j /\ q[j] = Msg("stopshare", None)
      BY <1>1, <1>2, <1>7, <2>1 DEF StopFollows
    <3>2. j - 1 \in 1 .. n - 1 /\ i < j - 1 /\ Tail(q)[j - 1] = Msg("stopshare", None)
      BY <1>2, <3>1
    <3> QED
      BY <3>2
  <2> QED
    BY <1>3, <2>1 DEF StopFollows
<1>8. ASSUME StopFollows(q), Head(q) = Msg("share", None)
      PROVE  Count(Tail(q), Msg("stopshare", None)) > 0
  <2>1. PICK j \in 1 .. n : 1 < j /\ q[j] = Msg("stopshare", None)
    BY <1>1, <1>3, <1>8 DEF StopFollows
  <2>2. j - 1 \in DOMAIN Tail(q) /\ Tail(q)[j - 1] = Msg("stopshare", None)
    BY <1>2, <1>3, <2>1
  <2> QED
    BY <1>2, <2>2, CountIs
<1> QED
  BY <1>7, <1>8
-----------------------------------------------------------------------------
\* What is on its way when a message is sent or taken.

Bit(b) == IF b THEN 1 ELSE 0

UpNumbers ==
    /\ Stops \in Nat /\ Shares \in Nat
    /\ \A r \in Session : OffersUp(r) \in Nat /\ AnswersUp(r) \in Nat
DownNumbers ==
    \A r \in Session :
        /\ HostSessions(r) \in Nat /\ ClientSessions(r) \in Nat
        /\ OffersDown(r) \in Nat /\ AnswersDown(r) \in Nat

LEMMA SessionIs ==
    /\ Presenter \in Pages /\ Presenter \notin Viewers /\ Viewers \subseteq Pages
    /\ \A s \in Session : /\ s.viewer \in Viewers /\ s.viewer \in Pages
                          /\ s.viewer # Presenter /\ s.share \in Nat /\ s # None
    /\ None \notin Session
<1>1. \A s \in Session : s.viewer \in Viewers /\ s.share \in 1 .. MaxShares
  BY DEF Session
<1>2. None.share = 0
  BY DEF None
<1> QED
  BY <1>1, <1>2, SignalingAssumption DEF Pages

LEMMA UpNumbersAre == UpOK => UpNumbers
<1> SUFFICES ASSUME UpOK PROVE UpNumbers
  OBVIOUS
<1>1. \A p \in Pages : \A m : Count(up[p], m) \in Nat
  BY CountIs DEF UpOK
<1> QED
  BY <1>1, SessionIs DEF UpNumbers, Stops, Shares, OffersUp, AnswersUp

LEMMA DownNumbersAre == DownOK => DownNumbers
<1> SUFFICES ASSUME DownOK PROVE DownNumbers
  OBVIOUS
<1>1. \A p \in Pages : \A m : Count(down[p], m) \in Nat
  BY CountIs DEF DownOK
<1> QED
  BY <1>1, SessionIs DEF DownNumbers, HostSessions, ClientSessions, OffersDown, AnswersDown

\* How the numbers change when Msg(k, x) is sent by page p, taken from it, sent to
\* it, or taken by it.
UpAdded(p, k, x) ==
    /\ UpOK' /\ UpNumbers'
    /\ Stops' = Stops + Bit(p = Presenter /\ k = "stopshare" /\ x = None)
    /\ Shares' = Shares + Bit(p = Presenter /\ k = "share" /\ x = None)
    /\ StopFollows(up[Presenter]) /\ k # "share" => StopFollows(up[Presenter])'
    /\ p = Presenter /\ k = "stopshare" /\ x = None => StopFollows(up[Presenter])'
    /\ \A r \in Session :
          /\ OffersUp(r)' = OffersUp(r) + Bit(p = Presenter /\ k = "hostoffer" /\ r = x)
          /\ AnswersUp(r)' = AnswersUp(r) + Bit(p = r.viewer /\ k = "clientanswer" /\ r = x)
UpTaken(p, k, x) ==
    /\ UpOK' /\ UpNumbers' /\ Msg(k, x) \in FromPage(p)
    /\ Stops' + Bit(p = Presenter /\ k = "stopshare" /\ x = None) = Stops
    /\ Shares' + Bit(p = Presenter /\ k = "share" /\ x = None) = Shares
    /\ StopFollows(up[Presenter]) => StopFollows(up[Presenter])'
    /\ StopFollows(up[Presenter]) /\ p = Presenter /\ k = "share" /\ x = None => Stops' > 0
    /\ \A r \in Session :
          /\ OffersUp(r) = OffersUp(r)' + Bit(p = Presenter /\ k = "hostoffer" /\ r = x)
          /\ AnswersUp(r) = AnswersUp(r)' + Bit(p = r.viewer /\ k = "clientanswer" /\ r = x)
DownAdded(p, k, x) ==
    /\ DownOK' /\ DownNumbers'
    /\ \A r \in Session :
          /\ HostSessions(r)' = HostSessions(r) + Bit(p = Presenter /\ k = "hostsession" /\ r = x)
          /\ AnswersDown(r)' = AnswersDown(r) + Bit(p = Presenter /\ k = "clientanswer" /\ r = x)
          /\ ClientSessions(r)' = ClientSessions(r) + Bit(p = r.viewer /\ k = "clientsession" /\ r = x)
          /\ OffersDown(r)' = OffersDown(r) + Bit(p = r.viewer /\ k = "hostoffer" /\ r = x)
          /\ Order(r) /\ k # "clientsession" => Order(r)'
DownTaken(p, k, x) ==
    /\ DownOK' /\ DownNumbers' /\ Msg(k, x) \in ToPage(p)
    /\ \A r \in Session :
          /\ HostSessions(r) = HostSessions(r)' + Bit(p = Presenter /\ k = "hostsession" /\ r = x)
          /\ AnswersDown(r) = AnswersDown(r)' + Bit(p = Presenter /\ k = "clientanswer" /\ r = x)
          /\ ClientSessions(r) = ClientSessions(r)' + Bit(p = r.viewer /\ k = "clientsession" /\ r = x)
          /\ OffersDown(r) = OffersDown(r)' + Bit(p = r.viewer /\ k = "hostoffer" /\ r = x)
          /\ Order(r) => Order(r)'
          /\ Order(r) /\ p = r.viewer /\ k = "hostoffer" /\ r = x => ClientSessions(r) = 0

LEMMA UpAdding ==
    ASSUME UpOK, NEW p \in Pages, NEW k, NEW x, Msg(k, x) \in FromPage(p),
           up' = Sent(p, Msg(k, x))
    PROVE  UpAdded(p, k, x)
<1> DEFINE m == Msg(k, x)
<1>1. /\ DOMAIN up' = Pages
      /\ \A q \in Pages : q # p => up'[q] = up[q]
      /\ up'[p] = Append(up[p], m)
  BY DEF UpOK, Sent
<1>2. Added(FromPage(p), up[p], up'[p], m)
  BY <1>1, Adding DEF UpOK
<1>3. UpOK'
  <2>1. \A q \in Pages : up'[q] \in Seq(FromPage(q))
    BY <1>1, <1>2 DEF UpOK, Added
  <2> QED
    BY <1>1, <2>1 DEF UpOK, FromPage
<1>4. UpNumbers'
  <2>1. \A q \in Pages : \A e : Count(up'[q], e) \in Nat
    BY <1>3, CountIs DEF UpOK
  <2> QED
    BY <2>1, SessionIs DEF UpNumbers, Stops, Shares, OffersUp, AnswersUp
<1>5. UpNumbers
  BY UpNumbersAre
<1>6. \A q \in Pages : \A l, y :
         Count(up'[q], Msg(l, y)) = Count(up[q], Msg(l, y)) + Bit(p = q /\ k = l /\ y = x)
  <2> SUFFICES ASSUME NEW q \in Pages, NEW l, NEW y
               PROVE  Count(up'[q], Msg(l, y)) = Count(up[q], Msg(l, y)) + Bit(p = q /\ k = l /\ y = x)
    OBVIOUS
  <2>1. Count(up[q], Msg(l, y)) \in Nat
    BY CountIs DEF UpOK
  <2>2. CASE q # p
    BY <1>1, <2>1, <2>2 DEF Bit
  <2>3. CASE q = p
    BY <1>2, <2>1, <2>3, MsgIs DEF Added, Bit
  <2> QED
    BY <2>2, <2>3
<1>7. /\ StopFollows(up[Presenter]) /\ k # "share" => StopFollows(up'[Presenter])
      /\ p = Presenter /\ k = "stopshare" /\ x = None => StopFollows(up'[Presenter])
  <2>1. k # "share" => m # Msg("share", None)
    BY MsgIs
  <2> HIDE DEF m
  <2>2. /\ StopFollows(up[p]) /\ m # Msg("share", None) => StopFollows(up'[p])
        /\ m = Msg("stopshare", None) => StopFollows(up'[p])
    <3>1. m \in FromPage(p)
      BY DEF m
    <3> QED
      BY <1>1, <3>1, StoppedAdding DEF UpOK
  <2>3. StopFollows(up[Presenter]) /\ m # Msg("share", None) => StopFollows(up'[Presenter])
    BY <1>1, <2>2, SessionIs
  <2>4. p = Presenter /\ m = Msg("stopshare", None) => StopFollows(up'[Presenter])
    BY <2>2
  <2> QED
    BY <2>1, <2>3, <2>4 DEF m
<1> QED
  BY <1>3, <1>4, <1>6, <1>7, SessionIs
     DEF UpAdded, Stops, Shares, OffersUp, AnswersUp

LEMMA UpTaking ==
    ASSUME UpOK, NEW p \in Pages, NEW k, NEW x, Takes(p, k, x)
    PROVE  UpTaken(p, k, x)
<1> DEFINE m == Msg(k, x)
<1>1. /\ DOMAIN up' = Pages
      /\ \A q \in Pages : q # p => up'[q] = up[q]
      /\ up'[p] = Tail(up[p]) /\ Head(up[p]) = m /\ up[p] # <<>>
  BY DEF UpOK, Takes
<1>2. Taken(FromPage(p), up[p], up'[p], m)
  BY <1>1, Taking DEF UpOK
<1>3. UpOK'
  <2>1. \A q \in Pages : up'[q] \in Seq(FromPage(q))
    BY <1>1, <1>2 DEF UpOK, Taken
  <2> QED
    BY <1>1, <2>1 DEF UpOK, FromPage
<1>4. UpNumbers'
  <2>1. \A q \in Pages : \A e : Count(up'[q], e) \in Nat
    BY <1>3, CountIs DEF UpOK
  <2> QED
    BY <2>1, SessionIs DEF UpNumbers, Stops, Shares, OffersUp, AnswersUp
<1>6. \A q \in Pages : \A l, y :
         Count(up[q], Msg(l, y)) = Count(up'[q], Msg(l, y)) + Bit(p = q /\ k = l /\ y = x)
  <2> SUFFICES ASSUME NEW q \in Pages, NEW l, NEW y
               PROVE  Count(up[q], Msg(l, y)) = Count(up'[q], Msg(l, y)) + Bit(p = q /\ k = l /\ y = x)
    OBVIOUS
  <2>1. Count(up'[q], Msg(l, y)) \in Nat
    BY <1>3, CountIs DEF UpOK
  <2>2. CASE q # p
    BY <1>1, <2>1, <2>2 DEF Bit
  <2>3. CASE q = p
    BY <1>2, <2>1, <2>3, MsgIs DEF Taken, Bit
  <2> QED
    BY <2>2, <2>3
<1>7. /\ StopFollows(up[Presenter]) => StopFollows(up'[Presenter])
      /\ StopFollows(up[Presenter]) /\ p = Presenter /\ k = "share" /\ x = None => Stops' > 0
  <2>1. /\ StopFollows(up[p]) => StopFollows(up'[p])
        /\ StopFollows(up[p]) /\ m = Msg("share", None)
               => Count(up'[p], Msg("stopshare", None)) > 0
    BY <1>1, StoppedTaking DEF UpOK
  <2> QED
    BY <1>1, <2>1, SessionIs DEF Stops
<1>8. m \in FromPage(p)
  BY <1>2 DEF Taken
<1> QED
  BY <1>3, <1>4, <1>6, <1>7, <1>8, SessionIs
     DEF UpTaken, Stops, Shares, OffersUp, AnswersUp

LEMMA DownAdding ==
    ASSUME DownOK, NEW p \in Pages, NEW k, NEW x, Msg(k, x) \in ToPage(p),
           down' = [down EXCEPT ![p] = Append(@, Msg(k, x))]
    PROVE  DownAdded(p, k, x)
<1> DEFINE m == Msg(k, x)
<1>1. /\ DOMAIN down' = Pages
      /\ \A q \in Pages : q # p => down'[q] = down[q]
      /\ down'[p] = Append(down[p], m)
  BY DEF DownOK
<1>2. Added(ToPage(p), down[p], down'[p], m)
  BY <1>1, Adding DEF DownOK
<1>3. DownOK'
  <2>1. \A q \in Pages : down'[q] \in Seq(ToPage(q))
    BY <1>1, <1>2 DEF DownOK, Added
  <2> QED
    BY <1>1, <2>1 DEF DownOK, ToPage
<1>4. DownNumbers'
  <2>1. \A q \in Pages : \A e : Count(down'[q], e) \in Nat
    BY <1>3, CountIs DEF DownOK
  <2> QED
    BY <2>1, SessionIs DEF DownNumbers, HostSessions, ClientSessions, OffersDown, AnswersDown
<1>6. \A q \in Pages : \A l, y :
         Count(down'[q], Msg(l, y)) = Count(down[q], Msg(l, y)) + Bit(p = q /\ k = l /\ y = x)
  <2> SUFFICES ASSUME NEW q \in Pages, NEW l, NEW y
               PROVE  Count(down'[q], Msg(l, y))
                          = Count(down[q], Msg(l, y)) + Bit(p = q /\ k = l /\ y = x)
    OBVIOUS
  <2>1. Count(down[q], Msg(l, y)) \in Nat
    BY CountIs DEF DownOK
  <2>2. CASE q # p
    BY <1>1, <2>1, <2>2 DEF Bit
  <2>3. CASE q = p
    BY <1>2, <2>1, <2>3, MsgIs DEF Added, Bit
  <2> QED
    BY <2>2, <2>3
<1>7. ASSUME NEW r \in Session, Order(r), k # "clientsession" PROVE Order(r)'
  BY <1>1, <1>2, <1>7, MsgIs, SessionIs DEF Added, Order
<1> QED
  BY <1>3, <1>4, <1>6, <1>7, SessionIs
     DEF DownAdded, HostSessions, ClientSessions, OffersDown, AnswersDown

LEMMA DownTaking ==
    ASSUME DownOK, NEW p \in Pages, NEW k, NEW x, Gets(p, k, x)
    PROVE  DownTaken(p, k, x)
<1> DEFINE m == Msg(k, x)
<1>1. /\ DOMAIN down' = Pages
      /\ \A q \in Pages : q # p => down'[q] = down[q]
      /\ down'[p] = Tail(down[p]) /\ Head(down[p]) = m /\ down[p] # <<>>
  BY DEF DownOK, Gets
<1>2. Taken(ToPage(p), down[p], down'[p], m)
  BY <1>1, Taking DEF DownOK
<1>3. DownOK'
  <2>1. \A q \in Pages : down'[q] \in Seq(ToPage(q))
    BY <1>1, <1>2 DEF DownOK, Taken
  <2> QED
    BY <1>1, <2>1 DEF DownOK, ToPage
<1>4. DownNumbers'
  <2>1. \A q \in Pages : \A e : Count(down'[q], e) \in Nat
    BY <1>3, CountIs DEF DownOK
  <2> QED
    BY <2>1, SessionIs DEF DownNumbers, HostSessions, ClientSessions, OffersDown, AnswersDown
<1>6. \A q \in Pages : \A l, y :
         Count(down[q], Msg(l, y)) = Count(down'[q], Msg(l, y)) + Bit(p = q /\ k = l /\ y = x)
  <2> SUFFICES ASSUME NEW q \in Pages, NEW l, NEW y
               PROVE  Count(down[q], Msg(l, y))
                          = Count(down'[q], Msg(l, y)) + Bit(p = q /\ k = l /\ y = x)
    OBVIOUS
  <2>1. Count(down'[q], Msg(l, y)) \in Nat
    BY <1>3, CountIs DEF DownOK
  <2>2. CASE q # p
    BY <1>1, <2>1, <2>2 DEF Bit
  <2>3. CASE q = p
    BY <1>2, <2>1, <2>3, MsgIs DEF Taken, Bit
  <2> QED
    BY <2>2, <2>3
<1>7. ASSUME NEW r \in Session, Order(r) PROVE Order(r)'
  BY <1>1, <1>2, <1>7, SessionIs DEF Taken, Order
<1>8. ASSUME NEW r \in Session, Order(r), p = r.viewer, k = "hostoffer", r = x
      PROVE  ClientSessions(r) = 0
  BY <1>2, <1>8, MsgIs DEF Taken, Order, ClientSessions
<1>9. m \in ToPage(p)
  BY <1>2 DEF Taken
<1> QED
  BY <1>3, <1>4, <1>6, <1>7, <1>8, <1>9, SessionIs
     DEF DownTaken, HostSessions, ClientSessions, OffersDown, AnswersDown

\* The sessions of the set N are announced; only EndShare messages are sent, and
\* the queues of the viewers V are given up.
DownNew(N) ==
    /\ DownOK' /\ DownNumbers'
    /\ \A r \in Session :
          /\ HostSessions(r)' = HostSessions(r) + Bit(r \in N)
          /\ ClientSessions(r)' = ClientSessions(r) + Bit(r \in N)
          /\ AnswersDown(r)' = AnswersDown(r) /\ OffersDown(r)' = OffersDown(r)
          /\ Order(r) /\ (r \in N => OffersDown(r) = 0) => Order(r)'
DownEnds(V) ==
    /\ DownOK' /\ DownNumbers'
    /\ \A r \in Session :
          /\ HostSessions(r)' = HostSessions(r) /\ AnswersDown(r)' = AnswersDown(r)
          /\ IF r.viewer \in V
             THEN ClientSessions(r)' = 0 /\ OffersDown(r)' = 0
             ELSE /\ ClientSessions(r)' = ClientSessions(r) /\ OffersDown(r)' = OffersDown(r)
                  /\ Order(r) => Order(r)'

LEMMA Announcing ==
    ASSUME DownOK, NEW n \in Nat, NEW f \in [1 .. n -> Session],
           \A i, j \in 1 .. n : f[i].viewer = f[j].viewer => i = j,
           down' = newSessions(f)
    PROVE  DownNew({f[i] : i \in 1 .. n})
<1> DEFINE N == {f[i] : i \in 1 .. n}
           t == [i \in DOMAIN f |-> Msg("hostsession", f[i])]
           mine(p) == {i \in DOMAIN f : f[i].viewer = p}
           u(p) == IF mine(p) = {} THEN <<>>
                   ELSE <<Msg("clientsession", f[CHOOSE i \in mine(p) : TRUE])>>
           more(p) == IF p = Presenter THEN t ELSE u(p)
<1>1. /\ DOMAIN down' = Pages
      /\ \A p \in Pages : down'[p] = down[p] \o more(p)
  BY DEF newSessions
<1>2. DOMAIN f = 1 .. n /\ \A i \in 1 .. n : f[i] \in Session
  OBVIOUS
<1>3. /\ t \in Seq(ToPage(Presenter))
      /\ \A s : s \in N => Count(t, Msg("hostsession", s)) = 1
      /\ \A s : s \notin N => Count(t, Msg("hostsession", s)) = 0
      /\ \A s : Count(t, Msg("clientanswer", s)) = 0
  <2>1. /\ t \in [1 .. n -> ToPage(Presenter)] /\ DOMAIN t = 1 .. n
        /\ \A i \in 1 .. n : t[i] = Msg("hostsession", f[i])
    BY <1>2 DEF ToPage
  <2>2. t \in Seq(ToPage(Presenter))
    BY <2>1, SeqDef
  <2>3. \A i, j \in 1 .. n : f[i] = f[j] => i = j
    OBVIOUS
  <2>4. \A s : s \in N <=> \E i \in 1 .. n : f[i] = s
    OBVIOUS
  <2> HIDE DEF t, N
  <2>5. \A i \in 1 .. n : \A s : t[i] = Msg("hostsession", s) <=> s = f[i]
    BY <2>1, MsgIs
  <2>6. ASSUME NEW i \in 1 .. n PROVE Count(t, Msg("hostsession", f[i])) = 1
    <3>1. i \in DOMAIN t /\ t[i] = Msg("hostsession", f[i])
      BY <2>1
    <3>2. \A j \in DOMAIN t : t[j] = Msg("hostsession", f[i]) => j = i
      BY <2>1, <2>3, <2>5
    <3> QED
      BY <3>1, <3>2, CountOne
  <2>7. ASSUME NEW s, s \notin N PROVE Count(t, Msg("hostsession", s)) = 0
    <3>1. \A i \in DOMAIN t : t[i] # Msg("hostsession", s)
      BY <2>1, <2>4, <2>5, <2>7
    <3> QED
      BY <3>1, CountNone
  <2>8. ASSUME NEW s PROVE Count(t, Msg("clientanswer", s)) = 0
    <3>1. \A i \in DOMAIN t : t[i] # Msg("clientanswer", s)
      BY <2>1, MsgIs
    <3> QED
      BY <3>1, CountNone
  <2> QED
    BY <2>2, <2>4, <2>6, <2>7, <2>8
<1>4. ASSUME NEW p \in Viewers
      PROVE  /\ u(p) \in Seq(ToPage(p))
             /\ \A s \in Session : s.viewer = p =>
                   Count(u(p), Msg("clientsession", s)) = Bit(s \in N)
             /\ \A s : Count(u(p), Msg("hostoffer", s)) = 0
  <2>1. CASE mine(p) = {}
    <3>1. u(p) = <<>> /\ DOMAIN u(p) = {}
      BY <2>1
    <3>2. \A s \in Session : s.viewer = p => s \notin N
      BY <1>2, <2>1
    <3>3. \A m : Count(u(p), m) = 0
      BY <3>1, CountNone
    <3> QED
      BY <3>1, <3>2, <3>3, EmptySeq DEF Bit
  <2>2. CASE mine(p) # {}
    <3>1. PICK c \in 1 .. n : c = (CHOOSE i \in mine(p) : TRUE) /\ f[c].viewer = p
      BY <1>2, <2>2
    <3>2. u(p) = <<Msg("clientsession", f[c])>>
      BY <2>2, <3>1
    <3>3. f[c] \in Session /\ f[c] \in N
      BY <1>2, <3>1
    <3>4. \A s \in Session : s.viewer = p => (s \in N <=> s = f[c])
      BY <1>2, <3>1, <3>3
    <3>5. Msg("clientsession", f[c]) \in ToPage(p)
      BY <3>1, <3>3, SessionIs DEF ToPage
    <3>6. /\ u(p) \in Seq(ToPage(p)) /\ DOMAIN u(p) = {1}
          /\ u(p)[1] = Msg("clientsession", f[c])
      BY <3>2, <3>5
    <3> HIDE DEF u, mine, N
    <3>7. Count(u(p), Msg("clientsession", f[c])) = 1
      BY <3>6, CountOne
    <3>8. \A s : s # f[c] => Count(u(p), Msg("clientsession", s)) = 0
      BY <3>6, CountNone, MsgIs
    <3>9. \A s : Count(u(p), Msg("hostoffer", s)) = 0
      BY <3>6, CountNone, MsgIs
    <3> QED
      BY <3>4, <3>6, <3>7, <3>8, <3>9 DEF Bit
  <2> QED
    BY <2>1, <2>2
<1> HIDE DEF t, u, N, mine
<1>6. \A p \in Pages : more(p) \in Seq(ToPage(p)) /\ down[p] \in Seq(ToPage(p))
  BY <1>3, <1>4 DEF Pages, DownOK
<1> HIDE DEF more
<1>7. DownOK'
  <2>1. ASSUME NEW p \in Pages PROVE down'[p] \in Seq(ToPage(p))
    <3>1. down'[p] = down[p] \o more(p)
      BY <1>1
    <3> QED
      BY <1>6, <3>1, Appending
  <2>2. DOMAIN down' = Pages
    BY <1>1
  <2> QED
    BY <2>1, <2>2 DEF DownOK
<1>8. DownNumbers'
  <2>1. \A q \in Pages : \A e : Count(down'[q], e) \in Nat
    BY <1>7, CountIs DEF DownOK
  <2> QED
    BY <2>1, SessionIs DEF DownNumbers, HostSessions, ClientSessions, OffersDown, AnswersDown
<1>9. DownNumbers
  BY DownNumbersAre
<1>10. ASSUME NEW p \in Pages
       PROVE  \A m : Count(down'[p], m) = Count(down[p], m) + Count(more(p), m)
  <2>1. down'[p] = down[p] \o more(p)
    BY <1>1
  <2> QED
    BY <1>6, <2>1, Appending
<1>11. ASSUME NEW r \in Session
       PROVE  /\ HostSessions(r)' = HostSessions(r) + Bit(r \in N)
              /\ AnswersDown(r)' = AnswersDown(r)
  <2>1. more(Presenter) = t
    BY DEF more
  <2>2. /\ Count(t, Msg("hostsession", r)) = Bit(r \in N)
        /\ Count(t, Msg("clientanswer", r)) = 0
    BY <1>3 DEF Bit
  <2> QED
    BY <1>9, <1>10, <2>1, <2>2, SessionIs DEF HostSessions, AnswersDown, DownNumbers
<1>12. ASSUME NEW r \in Session
       PROVE  /\ ClientSessions(r)' = ClientSessions(r) + Bit(r \in N)
              /\ OffersDown(r)' = OffersDown(r)
              /\ Order(r) /\ (r \in N => OffersDown(r) = 0) => Order(r)'
  <2>1. more(r.viewer) = u(r.viewer)
    BY SessionIs DEF more
  <2>2. /\ Count(u(r.viewer), Msg("clientsession", r)) = Bit(r \in N)
        /\ Count(u(r.viewer), Msg("hostoffer", r)) = 0
    BY <1>4, SessionIs
  <2>3. /\ ClientSessions(r)' = ClientSessions(r) + Bit(r \in N)
        /\ OffersDown(r)' = OffersDown(r)
    BY <1>9, <1>10, <2>1, <2>2, SessionIs DEF ClientSessions, OffersDown, DownNumbers
  <2>4. ASSUME Order(r), r \in N => OffersDown(r) = 0 PROVE Order(r)'
    <3> DEFINE q == down[r.viewer] w == more(r.viewer)
               a == Msg("clientsession", r) b == Msg("hostoffer", r)
    <3>1. /\ q \in Seq(ToPage(r.viewer)) /\ w \in Seq(ToPage(r.viewer))
          /\ down'[r.viewer] = q \o w
      BY <1>1, <1>6, SessionIs
    <3>2. Ahead(q, a, b) /\ Count(w, b) = 0 /\ (Count(w, a) = 0 \/ Count(q, b) = 0)
      BY <2>1, <2>2, <2>4 DEF Order, OffersDown, Bit
    <3> HIDE DEF q, w, a, b
    <3>3. Ahead(q \o w, a, b)
      BY <3>1, <3>2, Appending
    <3> QED
      BY <3>1, <3>3 DEF Order, a, b
  <2> QED
    BY <2>3, <2>4
<1> QED
  BY <1>7, <1>8, <1>11, <1>12 DEF DownNew, N

LEMMA FiniteSession == IsFiniteSet(Session)
<1> DEFINE P == Viewers \X (1 .. MaxShares)
           f == [x \in P |-> [viewer |-> x[1], share |-> x[2]]]
<1>1. IsFiniteSet(P)
  <2>1. IsFiniteSet(1 .. MaxShares)
    BY SignalingAssumption, FS_Interval, 1 \in Int
  <2> QED
    BY <2>1, SignalingAssumption, FS_Product
<1>2. f \in [P -> Session]
  BY DEF Session
<1>3. ASSUME NEW s \in Session PROVE \E x \in P : f[x] = s
  <2>1. PICK v \in Viewers, n \in 1 .. MaxShares : s = [viewer |-> v, share |-> n]
    BY DEF Session
  <2>2. <<v, n>> \in P /\ f[<<v, n>>] = s
    BY <2>1
  <2> QED
    BY <2>2
<1>4. f \in Surjection(P, Session)
  <2> HIDE DEF f, P
  <2> QED
    BY <1>2, <1>3 DEF Surjection
<1> HIDE DEF f, P
<1> QED
  BY <1>1, <1>4, FS_Surjection

LEMMA EndSharesAre ==
    ASSUME NEW p, NEW E \in SUBSET Session
    PROVE  EndShares(p, E) \in Seq({Msg("endshare", None)})
<1>1. IsFiniteSet(E)
  BY FiniteSession, FS_Subset
<1>2. PICK n \in Nat : n = Cardinality(E)
  BY <1>1, FS_CardinalityType
<1>3. PICK f : f \in Bijection(1 .. n, E)
  BY <1>1, <1>2, FS_CardinalityType DEF ExistsBijection
<1>4. f \in [1 .. n -> E] /\ IsInjective(f)
  BY <1>3 DEF Bijection, Injection
<1>5. SetToSeq(E) \in [1 .. n -> E]
  BY <1>2, <1>4 DEF SetToSeq
<1>6. EndShares(p, E) = [i \in 1 .. n |-> Msg("endshare", None)]
  BY <1>5 DEF EndShares, EndShareKey
<1>7. EndShares(p, E) \in [1 .. n -> {Msg("endshare", None)}]
  BY <1>6
<1> QED
  BY <1>7, SeqDef

LEMMA Padding ==
    ASSUME NEW p \in Pages, NEW q \in Seq(ToPage(p)), NEW t \in Seq({Msg("endshare", None)})
    PROVE  /\ q \o t \in Seq(ToPage(p))
           /\ \A k, s : k # "endshare" => Count(q \o t, Msg(k, s)) = Count(q, Msg(k, s))
           /\ \A s : Ahead(q, Msg("clientsession", s), Msg("hostoffer", s))
                         => Ahead(q \o t, Msg("clientsession", s), Msg("hostoffer", s))
<1>1. t \in Seq(ToPage(p))
  <2>1. {Msg("endshare", None)} \subseteq ToPage(p)
    BY DEF ToPage
  <2> QED
    BY <2>1, SeqMonotonic
<1>2. ASSUME NEW k, NEW s, k # "endshare" PROVE Count(t, Msg(k, s)) = 0
  <2>1. \A i \in DOMAIN t : t[i] = Msg("endshare", None)
    BY ElementOfSeq, LenProperties
  <2>2. Msg(k, s) # Msg("endshare", None)
    BY <1>2, MsgIs
  <2> QED
    BY <2>1, <2>2, CountNone
<1>3. ASSUME NEW k, NEW s, k # "endshare"
      PROVE  Count(q \o t, Msg(k, s)) = Count(q, Msg(k, s))
  <2>1. Count(q \o t, Msg(k, s)) = Count(q, Msg(k, s)) + Count(t, Msg(k, s))
    BY <1>1, CountConcat
  <2>2. Count(q, Msg(k, s)) \in Nat
    BY CountIs
  <2> QED
    BY <1>2, <1>3, <2>1, <2>2
<1>4. ASSUME NEW s, Ahead(q, Msg("clientsession", s), Msg("hostoffer", s))
      PROVE  Ahead(q \o t, Msg("clientsession", s), Msg("hostoffer", s))
  BY <1>1, <1>2, <1>4, Appending
<1>5. q \o t \in Seq(ToPage(p))
  BY <1>1, ConcatProperties
<1> QED
  BY <1>3, <1>4, <1>5

\* down' is down with EndShare messages at the ends, and nothing for V.
LEMMA SayingEnd ==
    ASSUME DownOK, NEW V \in SUBSET Viewers, DOMAIN down' = Pages,
           \A p \in Pages : IF p \in V THEN down'[p] = <<>>
                            ELSE \E t \in Seq({Msg("endshare", None)}) : down'[p] = down[p] \o t
    PROVE  DownEnds(V)
<1>1. ASSUME NEW p \in Pages, p \notin V
      PROVE  /\ down'[p] \in Seq(ToPage(p))
             /\ \A k, s : k # "endshare" => Count(down'[p], Msg(k, s)) = Count(down[p], Msg(k, s))
             /\ \A s : Ahead(down[p], Msg("clientsession", s), Msg("hostoffer", s))
                           => Ahead(down'[p], Msg("clientsession", s), Msg("hostoffer", s))
  <2>1. PICK t \in Seq({Msg("endshare", None)}) : down'[p] = down[p] \o t
    BY <1>1
  <2>2. down[p] \in Seq(ToPage(p))
    BY DEF DownOK
  <2> QED
    BY <2>1, <2>2, Padding
<1>2. DownOK'
  <2>1. ASSUME NEW p \in Pages PROVE down'[p] \in Seq(ToPage(p))
    <3>1. CASE p \in V
      BY <3>1, EmptySeq
    <3>2. CASE p \notin V
      BY <1>1, <3>2
    <3> QED
      BY <3>1, <3>2
  <2> QED
    BY <2>1 DEF DownOK
<1>3. DownNumbers'
  <2>1. \A q \in Pages : \A e : Count(down'[q], e) \in Nat
    BY <1>2, CountIs DEF DownOK
  <2> QED
    BY <2>1, SessionIs DEF DownNumbers, HostSessions, ClientSessions, OffersDown, AnswersDown
<1>4. ASSUME NEW r \in Session
      PROVE  HostSessions(r)' = HostSessions(r) /\ AnswersDown(r)' = AnswersDown(r)
  BY <1>1, SessionIs DEF HostSessions, AnswersDown
<1>5. ASSUME NEW r \in Session, r.viewer \in V
      PROVE  ClientSessions(r)' = 0 /\ OffersDown(r)' = 0
  <2>1. down'[r.viewer] = <<>> /\ DOMAIN <<>> = {}
    BY <1>5, SessionIs
  <2>2. \A m : Count(down'[r.viewer], m) = 0
    BY <2>1, CountNone
  <2> QED
    BY <1>5, <2>2 DEF ClientSessions, OffersDown
<1>6. ASSUME NEW r \in Session, r.viewer \notin V
      PROVE  /\ ClientSessions(r)' = ClientSessions(r) /\ OffersDown(r)' = OffersDown(r)
             /\ Order(r) => Order(r)'
  BY <1>1, <1>6, SessionIs DEF ClientSessions, OffersDown, Order
<1> QED
  BY <1>2, <1>3, <1>4, <1>5, <1>6 DEF DownEnds
-----------------------------------------------------------------------------
\* The invariant is kept, one lemma for each action or two.

UpSame ==
    /\ UpOK' /\ UpNumbers' /\ Stops' = Stops /\ Shares' = Shares
    /\ StopFollows(up[Presenter]) => StopFollows(up[Presenter])'
    /\ \A r \in Session : OffersUp(r)' = OffersUp(r) /\ AnswersUp(r)' = AnswersUp(r)
DownSame ==
    /\ DownOK' /\ DownNumbers'
    /\ \A r \in Session :
          /\ HostSessions(r)' = HostSessions(r) /\ AnswersDown(r)' = AnswersDown(r)
          /\ ClientSessions(r)' = ClientSessions(r) /\ OffersDown(r)' = OffersDown(r)
          /\ Order(r) => Order(r)'

LEMMA UpStays == UpOK /\ UNCHANGED up => UpSame
<1> SUFFICES ASSUME UpOK, UNCHANGED up PROVE UpSame
  OBVIOUS
<1>1. UpNumbers
  BY UpNumbersAre
<1> QED
  BY <1>1 DEF UpSame, UpOK, UpNumbers, Stops, Shares, OffersUp, AnswersUp

LEMMA DownStays == DownOK /\ UNCHANGED down => DownSame
<1> SUFFICES ASSUME DownOK, UNCHANGED down PROVE DownSame
  OBVIOUS
<1>1. DownNumbers
  BY DownNumbersAre
<1> QED
  BY <1>1 DEF DownSame, DownOK, DownNumbers, HostSessions, ClientSessions, OffersDown,
              AnswersDown, Order

LEMMA NumbersAre == SignalingInv => UpNumbers /\ DownNumbers
BY UpNumbersAre, DownNumbersAre DEF SignalingInv

\* Nothing happens to session r, or nothing but that its end comes nearer.
Same(r) ==
    /\ hostPeer'[r] = hostPeer[r] /\ viewPeer'[r] = viewPeer[r]
    /\ Born(r) => Born(r)'
    /\ r \in live' => r \in live
    /\ Over(r) => Over(r)'
    /\ r.viewer \in left' <=> r.viewer \in left
    /\ OffersUp(r)' = OffersUp(r) /\ AnswersUp(r)' = AnswersUp(r)
    /\ HostSessions(r)' = HostSessions(r) /\ AnswersDown(r)' = AnswersDown(r)
    /\ ClientSessions(r)' = ClientSessions(r) /\ OffersDown(r)' = OffersDown(r)
    /\ Order(r) => Order(r)'

LEMMA SameOK ==
    ASSUME NEW r \in Session, SessionOK(r), Same(r)
    PROVE  SessionOK(r)'
<1>1. UnbornOK(r)'
  BY DEF Same, SessionOK, UnbornOK
<1>2. HostOK(r)'
  BY DEF Same, SessionOK, HostOK
<1>3. ViewerOK(r)'
  BY DEF Same, SessionOK, ViewerOK
<1>4. AnswerOK(r)'
  BY DEF Same, SessionOK, AnswerOK
<1> QED
  BY <1>1, <1>2, <1>3, <1>4 DEF SessionOK

LEMMA GetHostSessionOK ==
    ASSUME SignalingInv, NEW s \in Session, GetHostSession(s)
    PROVE  SignalingInv'
<1>1. UpSame /\ DownTaken(Presenter, "hostsession", s)
  BY UpStays, DownTaking, SessionIs DEF GetHostSession, SignalingInv
<1>2. /\ UNCHANGED <<in, hosting, shares, live, clicks, presenting, left, viewPeer, tile>>
      /\ \A r \in Session : hostPeer'[r] = IF r # s THEN hostPeer[r]
                                           ELSE IF presenting THEN "offering" ELSE "closed"
      /\ hostPeer' \in [Session -> {"none", "offering", "offered", "answered", "closed"}]
  BY SessionIs DEF GetHostSession, serverVars, viewVars, SignalingInv, VarsOK
<1>3. VarsOK'
  BY <1>2 DEF SignalingInv, VarsOK
<1>4. /\ Stops' = Stops /\ Shares' = Shares
      /\ StopFollows(up[Presenter]) => StopFollows(up[Presenter])'
  BY <1>1, NumbersAre DEF UpSame, UpNumbers, Bit
<1>5. ShareOK'
  BY <1>2, <1>4 DEF SignalingInv, ShareOK
<1>6. ASSUME NEW r \in Session, r # s PROVE SessionOK(r)'
  <2>1. /\ OffersUp(r)' = OffersUp(r) /\ AnswersUp(r)' = AnswersUp(r)
        /\ HostSessions(r)' = HostSessions(r) /\ AnswersDown(r)' = AnswersDown(r)
        /\ ClientSessions(r)' = ClientSessions(r) /\ OffersDown(r)' = OffersDown(r)
        /\ Order(r) => Order(r)'
    BY <1>1, <1>6, NumbersAre DEF UpSame, DownTaken, UpNumbers, DownNumbers, Bit
  <2>2. Same(r)
    BY <1>2, <1>4, <1>6, <2>1 DEF Same, Born, Over
  <2> QED
    BY <2>2, SameOK DEF SignalingInv
<1>7. SessionOK(s)'
  <2>1. /\ UnbornOK(s) /\ HostOK(s) /\ ViewerOK(s) /\ AnswerOK(s)
        /\ OffersUp(s) \in Nat /\ AnswersUp(s) \in Nat
        /\ HostSessions(s) \in Nat /\ ClientSessions(s) \in Nat
        /\ OffersDown(s) \in Nat /\ AnswersDown(s) \in Nat
        /\ HostSessions(s)' \in Nat /\ ClientSessions(s)' \in Nat
        /\ OffersDown(s)' \in Nat /\ AnswersDown(s)' \in Nat
    BY <1>1, NumbersAre DEF SignalingInv, SessionOK, UpNumbers, DownNumbers, DownTaken
  <2>2. /\ OffersUp(s)' = OffersUp(s) /\ AnswersUp(s)' = AnswersUp(s)
        /\ HostSessions(s)' = HostSessions(s) - 1 /\ ClientSessions(s)' = ClientSessions(s)
        /\ OffersDown(s)' = OffersDown(s) /\ AnswersDown(s)' = AnswersDown(s)
        /\ Order(s) => Order(s)'
    BY <1>1, <2>1 DEF UpSame, DownTaken, Bit
  <2>3. ~presenting => Over(s)
    BY DEF SignalingInv, ShareOK, Over
  <2>4. UnbornOK(s)'
    BY <1>2, <2>1, <2>2 DEF UnbornOK, HostOK, AnswerOK, Born
  <2>5. HostOK(s)'
    BY <1>2, <2>1, <2>2 DEF HostOK, AnswerOK
  <2>6. ViewerOK(s)'
    BY <1>2, <2>1, <2>2 DEF HostOK, ViewerOK, AnswerOK
  <2>7. AnswerOK(s)'
    BY <1>2, <1>4, <2>1, <2>2, <2>3 DEF HostOK, ViewerOK, AnswerOK, Over
  <2> QED
    BY <2>4, <2>5, <2>6, <2>7 DEF SessionOK
<1> QED
  BY <1>1, <1>3, <1>5, <1>6, <1>7 DEF SignalingInv, UpSame, DownTaken

LEMMA OfferReadyOK ==
    ASSUME SignalingInv, NEW s \in Session, OfferReady(s)
    PROVE  SignalingInv'
<1>1. DownSame /\ UpAdded(Presenter, "hostoffer", s)
  <2>1. Msg("hostoffer", s) \in FromPage(Presenter)
    BY DEF FromPage
  <2> QED
    BY <2>1, DownStays, UpAdding, SessionIs DEF OfferReady, SignalingInv
<1>2. /\ UNCHANGED <<in, hosting, shares, live, clicks, presenting, left, viewPeer, tile>>
      /\ hostPeer[s] = "offering"
      /\ \A r \in Session : hostPeer'[r] = IF r = s THEN "offered" ELSE hostPeer[r]
      /\ hostPeer' \in [Session -> {"none", "offering", "offered", "answered", "closed"}]
  BY SessionIs DEF OfferReady, serverVars, viewVars, SignalingInv, VarsOK
<1>3. VarsOK'
  BY <1>2 DEF SignalingInv, VarsOK
<1>4. /\ Stops' = Stops /\ Shares' = Shares
      /\ StopFollows(up[Presenter]) => StopFollows(up[Presenter])'
  BY <1>1, NumbersAre DEF UpAdded, UpNumbers, Bit
<1>5. ShareOK'
  BY <1>2, <1>4 DEF SignalingInv, ShareOK
<1>6. ASSUME NEW r \in Session, r # s PROVE SessionOK(r)'
  <2>1. /\ OffersUp(r)' = OffersUp(r) /\ AnswersUp(r)' = AnswersUp(r)
        /\ HostSessions(r)' = HostSessions(r) /\ AnswersDown(r)' = AnswersDown(r)
        /\ ClientSessions(r)' = ClientSessions(r) /\ OffersDown(r)' = OffersDown(r)
        /\ Order(r) => Order(r)'
    BY <1>1, <1>6, NumbersAre DEF UpAdded, DownSame, UpNumbers, DownNumbers, Bit
  <2>2. Same(r)
    BY <1>2, <1>4, <1>6, <2>1 DEF Same, Born, Over
  <2> QED
    BY <2>2, SameOK DEF SignalingInv
<1>7. SessionOK(s)'
  <2>1. /\ UnbornOK(s) /\ HostOK(s) /\ ViewerOK(s) /\ AnswerOK(s)
        /\ OffersUp(s) \in Nat /\ AnswersUp(s) \in Nat
        /\ HostSessions(s) \in Nat /\ ClientSessions(s) \in Nat
        /\ OffersDown(s) \in Nat /\ AnswersDown(s) \in Nat
        /\ HostSessions(s)' \in Nat /\ ClientSessions(s)' \in Nat
        /\ OffersDown(s)' \in Nat /\ AnswersDown(s)' \in Nat
    BY <1>1, NumbersAre DEF SignalingInv, SessionOK, UpNumbers, DownNumbers, DownSame
  <2>2. /\ OffersUp(s)' = OffersUp(s) + 1 /\ AnswersUp(s)' = AnswersUp(s)
        /\ HostSessions(s)' = HostSessions(s) /\ ClientSessions(s)' = ClientSessions(s)
        /\ OffersDown(s)' = OffersDown(s) /\ AnswersDown(s)' = AnswersDown(s)
        /\ Order(s) => Order(s)'
    BY <1>1, <2>1 DEF UpAdded, DownSame, Bit
  <2>4. UnbornOK(s)'
    BY <1>2, <2>1, <2>2 DEF UnbornOK, HostOK, AnswerOK, Born
  <2>5. HostOK(s)'
    BY <1>2, <2>1, <2>2 DEF HostOK, AnswerOK
  <2>6. ViewerOK(s)'
    BY <1>2, <2>1, <2>2 DEF HostOK, ViewerOK, AnswerOK
  <2>7. AnswerOK(s)'
    BY <1>2, <1>4, <2>1, <2>2 DEF HostOK, ViewerOK, AnswerOK, Over
  <2> QED
    BY <2>4, <2>5, <2>6, <2>7 DEF SessionOK
<1> QED
  BY <1>1, <1>3, <1>5, <1>6, <1>7 DEF SignalingInv, UpAdded, DownSame

LEMMA GetAnswerOK ==
    ASSUME SignalingInv, NEW s \in Session, GetAnswer(s)
    PROVE  SignalingInv'
<1>1. UpSame /\ DownTaken(Presenter, "clientanswer", s)
  BY UpStays, DownTaking, SessionIs DEF GetAnswer, SignalingInv
<1>2. /\ UNCHANGED <<in, hosting, shares, live, clicks, presenting, left, viewPeer, tile>>
      /\ \A r \in Session : hostPeer'[r] = IF r = s /\ hostPeer[s] = "offered"
                                           THEN "answered" ELSE hostPeer[r]
      /\ hostPeer' \in [Session -> {"none", "offering", "offered", "answered", "closed"}]
  BY SessionIs DEF GetAnswer, serverVars, viewVars, SignalingInv, VarsOK
<1>3. VarsOK'
  BY <1>2 DEF SignalingInv, VarsOK
<1>4. /\ Stops' = Stops /\ Shares' = Shares
      /\ StopFollows(up[Presenter]) => StopFollows(up[Presenter])'
  BY <1>1, NumbersAre DEF UpSame, UpNumbers, Bit
<1>5. ShareOK'
  BY <1>2, <1>4 DEF SignalingInv, ShareOK
<1>6. ASSUME NEW r \in Session, r # s PROVE SessionOK(r)'
  <2>1. /\ OffersUp(r)' = OffersUp(r) /\ AnswersUp(r)' = AnswersUp(r)
        /\ HostSessions(r)' = HostSessions(r) /\ AnswersDown(r)' = AnswersDown(r)
        /\ ClientSessions(r)' = ClientSessions(r) /\ OffersDown(r)' = OffersDown(r)
        /\ Order(r) => Order(r)'
    BY <1>1, <1>6, NumbersAre DEF UpSame, DownTaken, UpNumbers, DownNumbers, Bit
  <2>2. Same(r)
    BY <1>2, <1>4, <1>6, <2>1 DEF Same, Born, Over
  <2> QED
    BY <2>2, SameOK DEF SignalingInv
<1>7. SessionOK(s)'
  <2>1. /\ UnbornOK(s) /\ HostOK(s) /\ ViewerOK(s) /\ AnswerOK(s)
        /\ OffersUp(s) \in Nat /\ AnswersUp(s) \in Nat
        /\ HostSessions(s) \in Nat /\ ClientSessions(s) \in Nat
        /\ OffersDown(s) \in Nat /\ AnswersDown(s) \in Nat
        /\ HostSessions(s)' \in Nat /\ ClientSessions(s)' \in Nat
        /\ OffersDown(s)' \in Nat /\ AnswersDown(s)' \in Nat
    BY <1>1, NumbersAre DEF SignalingInv, SessionOK, UpNumbers, DownNumbers, DownTaken
  <2>2. /\ OffersUp(s)' = OffersUp(s) /\ AnswersUp(s)' = AnswersUp(s)
        /\ HostSessions(s)' = HostSessions(s) /\ ClientSessions(s)' = ClientSessions(s)
        /\ OffersDown(s)' = OffersDown(s) /\ AnswersDown(s)' = AnswersDown(s) - 1
        /\ Order(s) => Order(s)'
    BY <1>1, <2>1 DEF UpSame, DownTaken, Bit
  <2>4. UnbornOK(s)'
    BY <1>2, <2>1, <2>2 DEF UnbornOK, HostOK, AnswerOK, Born
  <2>5. HostOK(s)'
    BY <1>2, <2>1, <2>2 DEF HostOK, AnswerOK
  <2>6. ViewerOK(s)'
    BY <1>2, <2>1, <2>2 DEF HostOK, ViewerOK, AnswerOK
  <2>7. AnswerOK(s)'
    BY <1>2, <1>4, <2>1, <2>2 DEF HostOK, ViewerOK, AnswerOK, Over
  <2> QED
    BY <2>4, <2>5, <2>6, <2>7 DEF SessionOK
<1> QED
  BY <1>1, <1>3, <1>5, <1>6, <1>7 DEF SignalingInv, UpSame, DownTaken

LEMMA HostNoticesOK ==
    ASSUME SignalingInv, NEW s \in Session, HostNotices(s)
    PROVE  SignalingInv'
<1>1. UpSame /\ DownSame
  BY UpStays, DownStays DEF HostNotices, SignalingInv
<1>2. /\ UNCHANGED <<in, hosting, shares, live, clicks, presenting, left, viewPeer, tile>>
      /\ hostPeer[s] = "answered" /\ viewPeer[s] = "closed"
      /\ \A r \in Session : hostPeer'[r] = IF r = s THEN "closed" ELSE hostPeer[r]
      /\ hostPeer' \in [Session -> {"none", "offering", "offered", "answered", "closed"}]
  BY SessionIs DEF HostNotices, HostLost, serverVars, viewVars, SignalingInv, VarsOK
<1>3. VarsOK'
  BY <1>2 DEF SignalingInv, VarsOK
<1>4. /\ Stops' = Stops /\ Shares' = Shares
      /\ StopFollows(up[Presenter]) => StopFollows(up[Presenter])'
  BY <1>1, NumbersAre DEF UpSame, UpNumbers, Bit
<1>5. ShareOK'
  BY <1>2, <1>4 DEF SignalingInv, ShareOK
<1>6. ASSUME NEW r \in Session, r # s PROVE SessionOK(r)'
  <2>1. /\ OffersUp(r)' = OffersUp(r) /\ AnswersUp(r)' = AnswersUp(r)
        /\ HostSessions(r)' = HostSessions(r) /\ AnswersDown(r)' = AnswersDown(r)
        /\ ClientSessions(r)' = ClientSessions(r) /\ OffersDown(r)' = OffersDown(r)
        /\ Order(r) => Order(r)'
    BY <1>1, <1>6, NumbersAre DEF UpSame, DownSame, UpNumbers, DownNumbers, Bit
  <2>2. Same(r)
    BY <1>2, <1>4, <1>6, <2>1 DEF Same, Born, Over
  <2> QED
    BY <2>2, SameOK DEF SignalingInv
<1>7. SessionOK(s)'
  <2>1. /\ UnbornOK(s) /\ HostOK(s) /\ ViewerOK(s) /\ AnswerOK(s)
        /\ OffersUp(s) \in Nat /\ AnswersUp(s) \in Nat
        /\ HostSessions(s) \in Nat /\ ClientSessions(s) \in Nat
        /\ OffersDown(s) \in Nat /\ AnswersDown(s) \in Nat
        /\ HostSessions(s)' \in Nat /\ ClientSessions(s)' \in Nat
        /\ OffersDown(s)' \in Nat /\ AnswersDown(s)' \in Nat
    BY <1>1, NumbersAre DEF SignalingInv, SessionOK, UpNumbers, DownNumbers, DownSame
  <2>2. /\ OffersUp(s)' = OffersUp(s) /\ AnswersUp(s)' = AnswersUp(s)
        /\ HostSessions(s)' = HostSessions(s) /\ ClientSessions(s)' = ClientSessions(s)
        /\ OffersDown(s)' = OffersDown(s) /\ AnswersDown(s)' = AnswersDown(s)
        /\ Order(s) => Order(s)'
    BY <1>1, <2>1 DEF UpSame, DownSame, Bit
  <2>4. UnbornOK(s)'
    BY <1>2, <2>1, <2>2 DEF UnbornOK, HostOK, AnswerOK, Born
  <2>5. HostOK(s)'
    BY <1>2, <2>1, <2>2 DEF HostOK, AnswerOK
  <2>6. ViewerOK(s)'
    BY <1>2, <2>1, <2>2 DEF HostOK, ViewerOK, AnswerOK
  <2>7. AnswerOK(s)'
    BY <1>2, <1>4, <2>1, <2>2 DEF HostOK, ViewerOK, AnswerOK, Over
  <2> QED
    BY <2>4, <2>5, <2>6, <2>7 DEF SessionOK
<1> QED
  BY <1>1, <1>3, <1>5, <1>6, <1>7 DEF SignalingInv, UpSame, DownSame

LEMMA GetClientSessionOK ==
    ASSUME SignalingInv, NEW s \in Session, s.viewer \notin left, GetClientSession(s)
    PROVE  SignalingInv'
<1>1. UpSame /\ DownTaken(s.viewer, "clientsession", s)
  BY UpStays, DownTaking, SessionIs DEF GetClientSession, SignalingInv
<1>2. /\ UNCHANGED <<in, hosting, shares, live, clicks, presenting, left, hostPeer>> /\ UNCHANGED tile
      /\ \A r \in Session : viewPeer'[r] = IF r = s THEN "new" ELSE viewPeer[r]
      /\ viewPeer' \in [Session -> {"none", "new", "answering", "answered", "closed"}]
  BY SessionIs DEF GetClientSession, serverVars, hostVars, SignalingInv, VarsOK
<1>3. VarsOK'
  BY <1>2 DEF SignalingInv, VarsOK
<1>4. /\ Stops' = Stops /\ Shares' = Shares
      /\ StopFollows(up[Presenter]) => StopFollows(up[Presenter])'
  BY <1>1, NumbersAre DEF UpSame, UpNumbers, Bit
<1>5. ShareOK'
  BY <1>2, <1>4 DEF SignalingInv, ShareOK
<1>6. ASSUME NEW r \in Session, r # s PROVE SessionOK(r)'
  <2>1. /\ OffersUp(r)' = OffersUp(r) /\ AnswersUp(r)' = AnswersUp(r)
        /\ HostSessions(r)' = HostSessions(r) /\ AnswersDown(r)' = AnswersDown(r)
        /\ ClientSessions(r)' = ClientSessions(r) /\ OffersDown(r)' = OffersDown(r)
        /\ Order(r) => Order(r)'
    BY <1>1, <1>6, NumbersAre DEF UpSame, DownTaken, UpNumbers, DownNumbers, Bit
  <2>2. Same(r)
    BY <1>2, <1>4, <1>6, <2>1 DEF Same, Born, Over
  <2> QED
    BY <2>2, SameOK DEF SignalingInv
<1>7. SessionOK(s)'
  <2>1. /\ UnbornOK(s) /\ HostOK(s) /\ ViewerOK(s) /\ AnswerOK(s)
        /\ OffersUp(s) \in Nat /\ AnswersUp(s) \in Nat
        /\ HostSessions(s) \in Nat /\ ClientSessions(s) \in Nat
        /\ OffersDown(s) \in Nat /\ AnswersDown(s) \in Nat
        /\ HostSessions(s)' \in Nat /\ ClientSessions(s)' \in Nat
        /\ OffersDown(s)' \in Nat /\ AnswersDown(s)' \in Nat
    BY <1>1, NumbersAre DEF SignalingInv, SessionOK, UpNumbers, DownNumbers, DownTaken
  <2>2. /\ OffersUp(s)' = OffersUp(s) /\ AnswersUp(s)' = AnswersUp(s)
        /\ HostSessions(s)' = HostSessions(s) /\ ClientSessions(s)' = ClientSessions(s) - 1
        /\ OffersDown(s)' = OffersDown(s) /\ AnswersDown(s)' = AnswersDown(s)
        /\ Order(s) => Order(s)'
    BY <1>1, <2>1 DEF UpSame, DownTaken, Bit
  <2>4. UnbornOK(s)'
    BY <1>2, <2>1, <2>2 DEF UnbornOK, HostOK, AnswerOK, Born
  <2>5. HostOK(s)'
    BY <1>2, <2>1, <2>2 DEF HostOK, AnswerOK
  <2>6. ViewerOK(s)'
    BY <1>2, <2>1, <2>2 DEF HostOK, ViewerOK, AnswerOK
  <2>7. AnswerOK(s)'
    BY <1>2, <1>4, <2>1, <2>2 DEF HostOK, ViewerOK, AnswerOK, Over
  <2> QED
    BY <2>4, <2>5, <2>6, <2>7 DEF SessionOK
<1> QED
  BY <1>1, <1>3, <1>5, <1>6, <1>7 DEF SignalingInv, UpSame, DownTaken

LEMMA GetOfferOK ==
    ASSUME SignalingInv, NEW s \in Session, s.viewer \notin left, GetOffer(s)
    PROVE  SignalingInv'
<1>1. UpSame /\ DownTaken(s.viewer, "hostoffer", s)
  BY UpStays, DownTaking, SessionIs DEF GetOffer, SignalingInv
<1>2. /\ UNCHANGED <<in, hosting, shares, live, clicks, presenting, left, hostPeer>> /\ tile' \in [Viewers -> Session \cup {None}]
      /\ \A r \in Session : viewPeer'[r] = IF r = s /\ viewPeer[s] = "new"
                                           THEN "answering" ELSE viewPeer[r]
      /\ viewPeer' \in [Session -> {"none", "new", "answering", "answered", "closed"}]
  BY SessionIs DEF GetOffer, serverVars, hostVars, SignalingInv, VarsOK
<1>3. VarsOK'
  BY <1>2 DEF SignalingInv, VarsOK
<1>4. /\ Stops' = Stops /\ Shares' = Shares
      /\ StopFollows(up[Presenter]) => StopFollows(up[Presenter])'
  BY <1>1, NumbersAre DEF UpSame, UpNumbers, Bit
<1>5. ShareOK'
  BY <1>2, <1>4 DEF SignalingInv, ShareOK
<1>6. ASSUME NEW r \in Session, r # s PROVE SessionOK(r)'
  <2>1. /\ OffersUp(r)' = OffersUp(r) /\ AnswersUp(r)' = AnswersUp(r)
        /\ HostSessions(r)' = HostSessions(r) /\ AnswersDown(r)' = AnswersDown(r)
        /\ ClientSessions(r)' = ClientSessions(r) /\ OffersDown(r)' = OffersDown(r)
        /\ Order(r) => Order(r)'
    BY <1>1, <1>6, NumbersAre DEF UpSame, DownTaken, UpNumbers, DownNumbers, Bit
  <2>2. Same(r)
    BY <1>2, <1>4, <1>6, <2>1 DEF Same, Born, Over
  <2> QED
    BY <2>2, SameOK DEF SignalingInv
<1>7. SessionOK(s)'
  <2>1. /\ UnbornOK(s) /\ HostOK(s) /\ ViewerOK(s) /\ AnswerOK(s)
        /\ OffersUp(s) \in Nat /\ AnswersUp(s) \in Nat
        /\ HostSessions(s) \in Nat /\ ClientSessions(s) \in Nat
        /\ OffersDown(s) \in Nat /\ AnswersDown(s) \in Nat
        /\ HostSessions(s)' \in Nat /\ ClientSessions(s)' \in Nat
        /\ OffersDown(s)' \in Nat /\ AnswersDown(s)' \in Nat
    BY <1>1, NumbersAre DEF SignalingInv, SessionOK, UpNumbers, DownNumbers, DownTaken
  <2>2. /\ OffersUp(s)' = OffersUp(s) /\ AnswersUp(s)' = AnswersUp(s)
        /\ HostSessions(s)' = HostSessions(s) /\ ClientSessions(s)' = ClientSessions(s)
        /\ OffersDown(s)' = OffersDown(s) - 1 /\ AnswersDown(s)' = AnswersDown(s)
        /\ Order(s) => Order(s)'
    BY <1>1, <2>1 DEF UpSame, DownTaken, Bit
  <2>4. UnbornOK(s)'
    BY <1>2, <2>1, <2>2 DEF UnbornOK, HostOK, AnswerOK, Born
  <2>5. HostOK(s)'
    BY <1>2, <2>1, <2>2 DEF HostOK, AnswerOK
  <2>6. ViewerOK(s)'
    BY <1>2, <2>1, <2>2 DEF HostOK, ViewerOK, AnswerOK
  <2>7. AnswerOK(s)'
    BY <1>2, <1>4, <2>1, <2>2 DEF HostOK, ViewerOK, AnswerOK, Over
  <2> QED
    BY <2>4, <2>5, <2>6, <2>7 DEF SessionOK
<1> QED
  BY <1>1, <1>3, <1>5, <1>6, <1>7 DEF SignalingInv, UpSame, DownTaken

LEMMA AnswerReadyOK ==
    ASSUME SignalingInv, NEW s \in Session, AnswerReady(s)
    PROVE  SignalingInv'
<1>1. DownSame /\ UpAdded(s.viewer, "clientanswer", s)
  <2>1. Msg("clientanswer", s) \in FromPage(s.viewer)
    BY SessionIs DEF FromPage
  <2> QED
    BY <2>1, DownStays, UpAdding, SessionIs DEF AnswerReady, SignalingInv
<1>2. /\ UNCHANGED <<in, hosting, shares, live, clicks, presenting, left, hostPeer>> /\ UNCHANGED tile
      /\ viewPeer[s] = "answering"
      /\ \A r \in Session : viewPeer'[r] = IF r = s THEN "answered" ELSE viewPeer[r]
      /\ viewPeer' \in [Session -> {"none", "new", "answering", "answered", "closed"}]
  BY SessionIs DEF AnswerReady, serverVars, hostVars, SignalingInv, VarsOK
<1>3. VarsOK'
  BY <1>2 DEF SignalingInv, VarsOK
<1>4. /\ Stops' = Stops /\ Shares' = Shares
      /\ StopFollows(up[Presenter]) => StopFollows(up[Presenter])'
  BY <1>1, NumbersAre DEF UpAdded, UpNumbers, Bit
<1>5. ShareOK'
  BY <1>2, <1>4 DEF SignalingInv, ShareOK
<1>6. ASSUME NEW r \in Session, r # s PROVE SessionOK(r)'
  <2>1. /\ OffersUp(r)' = OffersUp(r) /\ AnswersUp(r)' = AnswersUp(r)
        /\ HostSessions(r)' = HostSessions(r) /\ AnswersDown(r)' = AnswersDown(r)
        /\ ClientSessions(r)' = ClientSessions(r) /\ OffersDown(r)' = OffersDown(r)
        /\ Order(r) => Order(r)'
    BY <1>1, <1>6, NumbersAre DEF UpAdded, DownSame, UpNumbers, DownNumbers, Bit
  <2>2. Same(r)
    BY <1>2, <1>4, <1>6, <2>1 DEF Same, Born, Over
  <2> QED
    BY <2>2, SameOK DEF SignalingInv
<1>7. SessionOK(s)'
  <2>1. /\ UnbornOK(s) /\ HostOK(s) /\ ViewerOK(s) /\ AnswerOK(s)
        /\ OffersUp(s) \in Nat /\ AnswersUp(s) \in Nat
        /\ HostSessions(s) \in Nat /\ ClientSessions(s) \in Nat
        /\ OffersDown(s) \in Nat /\ AnswersDown(s) \in Nat
        /\ HostSessions(s)' \in Nat /\ ClientSessions(s)' \in Nat
        /\ OffersDown(s)' \in Nat /\ AnswersDown(s)' \in Nat
    BY <1>1, NumbersAre DEF SignalingInv, SessionOK, UpNumbers, DownNumbers, DownSame
  <2>2. /\ OffersUp(s)' = OffersUp(s) /\ AnswersUp(s)' = AnswersUp(s) + 1
        /\ HostSessions(s)' = HostSessions(s) /\ ClientSessions(s)' = ClientSessions(s)
        /\ OffersDown(s)' = OffersDown(s) /\ AnswersDown(s)' = AnswersDown(s)
        /\ Order(s) => Order(s)'
    BY <1>1, <2>1 DEF UpAdded, DownSame, Bit
  <2>4. UnbornOK(s)'
    BY <1>2, <2>1, <2>2 DEF UnbornOK, HostOK, AnswerOK, Born
  <2>5. HostOK(s)'
    BY <1>2, <2>1, <2>2 DEF HostOK, AnswerOK
  <2>6. ViewerOK(s)'
    BY <1>2, <2>1, <2>2 DEF HostOK, ViewerOK, AnswerOK
  <2>7. AnswerOK(s)'
    BY <1>2, <1>4, <2>1, <2>2 DEF HostOK, ViewerOK, AnswerOK, Over
  <2> QED
    BY <2>4, <2>5, <2>6, <2>7 DEF SessionOK
<1> QED
  BY <1>1, <1>3, <1>5, <1>6, <1>7 DEF SignalingInv, UpAdded, DownSame

LEMMA ViewerNoticesOK ==
    ASSUME SignalingInv, NEW s \in Session, ViewerNotices(s)
    PROVE  SignalingInv'
<1>1. UpSame /\ DownSame
  BY UpStays, DownStays DEF ViewerNotices, SignalingInv
<1>2. /\ UNCHANGED <<in, hosting, shares, live, clicks, presenting, left, hostPeer>> /\ tile' \in [Viewers -> Session \cup {None}]
      /\ viewPeer[s] \in {"answering", "answered"} /\ hostPeer[s] = "closed"
      /\ \A r \in Session : viewPeer'[r] = IF r = s THEN "closed" ELSE viewPeer[r]
      /\ viewPeer' \in [Session -> {"none", "new", "answering", "answered", "closed"}]
  BY SessionIs DEF ViewerNotices, Closes, serverVars, hostVars, SignalingInv, VarsOK
<1>3. VarsOK'
  BY <1>2 DEF SignalingInv, VarsOK
<1>4. /\ Stops' = Stops /\ Shares' = Shares
      /\ StopFollows(up[Presenter]) => StopFollows(up[Presenter])'
  BY <1>1, NumbersAre DEF UpSame, UpNumbers, Bit
<1>5. ShareOK'
  BY <1>2, <1>4 DEF SignalingInv, ShareOK
<1>6. ASSUME NEW r \in Session, r # s PROVE SessionOK(r)'
  <2>1. /\ OffersUp(r)' = OffersUp(r) /\ AnswersUp(r)' = AnswersUp(r)
        /\ HostSessions(r)' = HostSessions(r) /\ AnswersDown(r)' = AnswersDown(r)
        /\ ClientSessions(r)' = ClientSessions(r) /\ OffersDown(r)' = OffersDown(r)
        /\ Order(r) => Order(r)'
    BY <1>1, <1>6, NumbersAre DEF UpSame, DownSame, UpNumbers, DownNumbers, Bit
  <2>2. Same(r)
    BY <1>2, <1>4, <1>6, <2>1 DEF Same, Born, Over
  <2> QED
    BY <2>2, SameOK DEF SignalingInv
<1>7. SessionOK(s)'
  <2>1. /\ UnbornOK(s) /\ HostOK(s) /\ ViewerOK(s) /\ AnswerOK(s)
        /\ OffersUp(s) \in Nat /\ AnswersUp(s) \in Nat
        /\ HostSessions(s) \in Nat /\ ClientSessions(s) \in Nat
        /\ OffersDown(s) \in Nat /\ AnswersDown(s) \in Nat
        /\ HostSessions(s)' \in Nat /\ ClientSessions(s)' \in Nat
        /\ OffersDown(s)' \in Nat /\ AnswersDown(s)' \in Nat
    BY <1>1, NumbersAre DEF SignalingInv, SessionOK, UpNumbers, DownNumbers, DownSame
  <2>2. /\ OffersUp(s)' = OffersUp(s) /\ AnswersUp(s)' = AnswersUp(s)
        /\ HostSessions(s)' = HostSessions(s) /\ ClientSessions(s)' = ClientSessions(s)
        /\ OffersDown(s)' = OffersDown(s) /\ AnswersDown(s)' = AnswersDown(s)
        /\ Order(s) => Order(s)'
    BY <1>1, <2>1 DEF UpSame, DownSame, Bit
  <2>4. UnbornOK(s)'
    BY <1>2, <2>1, <2>2 DEF UnbornOK, HostOK, AnswerOK, Born
  <2>5. HostOK(s)'
    BY <1>2, <2>1, <2>2 DEF HostOK, AnswerOK
  <2>6. ViewerOK(s)'
    BY <1>2, <2>1, <2>2 DEF HostOK, ViewerOK, AnswerOK
  <2>7. AnswerOK(s)'
    BY <1>2, <1>4, <2>1, <2>2 DEF HostOK, ViewerOK, AnswerOK, Over
  <2> QED
    BY <2>4, <2>5, <2>6, <2>7 DEF SessionOK
<1> QED
  BY <1>1, <1>3, <1>5, <1>6, <1>7 DEF SignalingInv, UpSame, DownSame

LEMMA HostGetsEndShareOK ==
    ASSUME SignalingInv, NEW s \in Session \cup {None}, HostGetsEndShare(s)
    PROVE  SignalingInv'
<1>1. UpSame /\ DownTaken(Presenter, "endshare", s)
  BY UpStays, DownTaking, SessionIs DEF HostGetsEndShare, SignalingInv
<1>2. s = None
  BY <1>1, MsgIs DEF DownTaken, ToPage
<1>3. UNCHANGED <<in, hosting, shares, live, clicks, presenting, left, viewPeer, tile, hostPeer>>
  BY <1>2, SessionIs DEF HostGetsEndShare, serverVars, viewVars, SignalingInv, VarsOK
<1>4. UpNumbers /\ DownNumbers
  BY NumbersAre
<1>5. VarsOK'
  BY <1>3 DEF SignalingInv, VarsOK
<1>6. ShareOK'
  BY <1>1, <1>3 DEF SignalingInv, ShareOK, UpSame
<1>7. ASSUME NEW r \in Session PROVE SessionOK(r)'
  <2>1. SessionOK(r)
    BY DEF SignalingInv
  <2>2. /\ HostSessions(r) = HostSessions(r)' /\ ClientSessions(r) = ClientSessions(r)'
        /\ OffersDown(r) = OffersDown(r)' /\ (Order(r) => Order(r)')
        /\ AnswersDown(r) = AnswersDown(r)'
    BY <1>1, <1>4 DEF DownTaken, DownNumbers, Bit
  <2> QED
    BY <1>1, <1>3, <2>1, <2>2, SameOK DEF Same, Born, Over, UpSame
<1> QED
  BY <1>1, <1>5, <1>6, <1>7 DEF SignalingInv, UpSame, DownTaken

LEMMA ViewerGetsEndShareOK ==
    ASSUME SignalingInv, NEW v \in Viewers, NEW s \in Session \cup {None},
           ViewerGetsEndShare(v, s)
    PROVE  SignalingInv'
<1>1. UpSame /\ DownTaken(v, "endshare", s)
  BY UpStays, DownTaking, SessionIs DEF ViewerGetsEndShare, SignalingInv
<1>2. s = None
  BY <1>1, MsgIs DEF DownTaken, ToPage
<1>3. UNCHANGED <<in, hosting, shares, live, clicks, presenting, left, viewPeer, tile, hostPeer>>
  BY <1>2, SessionIs DEF ViewerGetsEndShare, Closes, serverVars, hostVars, SignalingInv, VarsOK
<1>4. UpNumbers /\ DownNumbers
  BY NumbersAre
<1>5. VarsOK'
  BY <1>3 DEF SignalingInv, VarsOK
<1>6. ShareOK'
  BY <1>1, <1>3 DEF SignalingInv, ShareOK, UpSame
<1>7. ASSUME NEW r \in Session PROVE SessionOK(r)'
  <2>1. SessionOK(r)
    BY DEF SignalingInv
  <2>2. /\ HostSessions(r) = HostSessions(r)' /\ ClientSessions(r) = ClientSessions(r)'
        /\ OffersDown(r) = OffersDown(r)' /\ (Order(r) => Order(r)')
        /\ AnswersDown(r) = AnswersDown(r)'
    BY <1>1, <1>4 DEF DownTaken, DownNumbers, Bit
  <2> QED
    BY <1>1, <1>3, <2>1, <2>2, SameOK DEF Same, Born, Over, UpSame
<1> QED
  BY <1>1, <1>5, <1>6, <1>7 DEF SignalingInv, UpSame, DownTaken

LEMMA TakeOfferOK ==
    ASSUME SignalingInv, NEW s \in Session, TakeOffer(s)
    PROVE  SignalingInv'
<1>1. /\ UpTaken(Presenter, "hostoffer", s)
      /\ IF s \in live THEN DownAdded(s.viewer, "hostoffer", s) ELSE DownSame
  <2>1. Msg("hostoffer", s) \in ToPage(s.viewer)
    BY SessionIs DEF ToPage
  <2>2. CASE s \in live
    BY <2>1, <2>2, UpTaking, DownAdding, SessionIs DEF TakeOffer, SignalingInv
  <2>3. CASE s \notin live
    BY <2>3, UpTaking, DownStays, SessionIs DEF TakeOffer, SignalingInv
  <2> QED
    BY <2>2, <2>3
<1>2. UNCHANGED <<in, hosting, shares, live, clicks, presenting, left, viewPeer, tile, hostPeer>>
  BY DEF TakeOffer, serverVars, hostVars, viewVars
<1>3. VarsOK'
  BY <1>2 DEF SignalingInv, VarsOK
<1>4. /\ Stops' = Stops /\ Shares' = Shares
      /\ StopFollows(up[Presenter]) => StopFollows(up[Presenter])'
  BY <1>1, SessionIs, NumbersAre DEF UpTaken, UpNumbers, Bit
<1>5. ShareOK'
  BY <1>2, <1>4 DEF SignalingInv, ShareOK
<1>6. /\ DownOK' /\ DownNumbers'
      /\ \A r \in Session :
            /\ HostSessions(r)' = HostSessions(r) /\ AnswersDown(r)' = AnswersDown(r)
            /\ ClientSessions(r)' = ClientSessions(r)
            /\ OffersDown(r)' = OffersDown(r) + Bit(s \in live /\ r = s)
            /\ Order(r) => Order(r)'
  <2>1. CASE s \in live
    BY <1>1, <2>1, NumbersAre DEF DownAdded, DownNumbers, Bit
  <2>2. CASE s \notin live
    BY <1>1, <2>2, NumbersAre DEF DownSame, DownNumbers, Bit
  <2> QED
    BY <2>1, <2>2
<1>7. ASSUME NEW r \in Session, r # s PROVE SessionOK(r)'
  <2>1. /\ OffersUp(r)' = OffersUp(r) /\ AnswersUp(r)' = AnswersUp(r)
        /\ HostSessions(r)' = HostSessions(r) /\ AnswersDown(r)' = AnswersDown(r)
        /\ ClientSessions(r)' = ClientSessions(r) /\ OffersDown(r)' = OffersDown(r)
        /\ Order(r) => Order(r)'
    BY <1>1, <1>6, <1>7, NumbersAre DEF UpTaken, UpNumbers, DownNumbers, Bit
  <2>2. Same(r)
    BY <1>2, <1>4, <1>7, <2>1 DEF Same, Born, Over
  <2> QED
    BY <2>2, SameOK DEF SignalingInv
<1>8. SessionOK(s)'
  <2>1. /\ UnbornOK(s) /\ HostOK(s) /\ ViewerOK(s) /\ AnswerOK(s)
        /\ OffersUp(s) \in Nat /\ AnswersUp(s) \in Nat
        /\ HostSessions(s) \in Nat /\ ClientSessions(s) \in Nat
        /\ OffersDown(s) \in Nat /\ AnswersDown(s) \in Nat
        /\ OffersUp(s)' \in Nat /\ AnswersUp(s)' \in Nat
        /\ HostSessions(s)' \in Nat /\ ClientSessions(s)' \in Nat
        /\ OffersDown(s)' \in Nat /\ AnswersDown(s)' \in Nat
    BY <1>1, <1>6, NumbersAre
       DEF SignalingInv, SessionOK, UpNumbers, DownNumbers, UpTaken
  <2>2. /\ OffersUp(s) = OffersUp(s)' + 1 /\ AnswersUp(s)' = AnswersUp(s)
        /\ HostSessions(s)' = HostSessions(s) /\ AnswersDown(s)' = AnswersDown(s)
        /\ ClientSessions(s)' = ClientSessions(s)
        /\ OffersDown(s)' = OffersDown(s) + Bit(s \in live)
        /\ Order(s) => Order(s)'
    BY <1>1, <1>6, <2>1 DEF UpTaken, Bit
  <2>3. hostPeer[s] \in {"offered", "answered", "closed"} /\ HostSessions(s) = 0
    BY <2>1, <2>2 DEF HostOK
  <2>4. UnbornOK(s)'
    BY <1>2, <2>1, <2>2 DEF UnbornOK, Born
  <2>5. HostOK(s)'
    BY <1>2, <2>1, <2>2 DEF HostOK
  <2>6. ViewerOK(s)'
    BY <1>2, <2>1, <2>2, <2>3 DEF HostOK, ViewerOK, AnswerOK, Bit
  <2>7. AnswerOK(s)'
    BY <1>2, <1>4, <2>1, <2>2, <2>3 DEF HostOK, ViewerOK, AnswerOK, Over
  <2> QED
    BY <2>4, <2>5, <2>6, <2>7 DEF SessionOK
<1> QED
  BY <1>1, <1>3, <1>5, <1>6, <1>7, <1>8 DEF SignalingInv, UpTaken

LEMMA TakeAnswerOK ==
    ASSUME SignalingInv, NEW s \in Session, TakeAnswer(s)
    PROVE  SignalingInv'
<1>1. /\ UpTaken(s.viewer, "clientanswer", s)
      /\ IF s \in live THEN DownAdded(Presenter, "clientanswer", s) ELSE DownSame
  <2>1. Msg("clientanswer", s) \in ToPage(Presenter)
    BY DEF ToPage
  <2>2. CASE s \in live
    BY <2>1, <2>2, UpTaking, DownAdding, SessionIs DEF TakeAnswer, SignalingInv
  <2>3. CASE s \notin live
    BY <2>3, UpTaking, DownStays, SessionIs DEF TakeAnswer, SignalingInv
  <2> QED
    BY <2>2, <2>3
<1>2. UNCHANGED <<in, hosting, shares, live, clicks, presenting, left, viewPeer, tile, hostPeer>>
  BY DEF TakeAnswer, serverVars, hostVars, viewVars
<1>3. VarsOK'
  BY <1>2 DEF SignalingInv, VarsOK
<1>4. /\ Stops' = Stops /\ Shares' = Shares
      /\ StopFollows(up[Presenter]) => StopFollows(up[Presenter])'
  BY <1>1, SessionIs, NumbersAre DEF UpTaken, UpNumbers, Bit
<1>5. ShareOK'
  BY <1>2, <1>4 DEF SignalingInv, ShareOK
<1>6. /\ DownOK' /\ DownNumbers'
      /\ \A r \in Session :
            /\ HostSessions(r)' = HostSessions(r)
            /\ AnswersDown(r)' = AnswersDown(r) + Bit(s \in live /\ r = s)
            /\ ClientSessions(r)' = ClientSessions(r) /\ OffersDown(r)' = OffersDown(r)
            /\ Order(r) => Order(r)'
  <2>1. CASE s \in live
    BY <1>1, <2>1, NumbersAre DEF DownAdded, DownNumbers, Bit
  <2>2. CASE s \notin live
    BY <1>1, <2>2, NumbersAre DEF DownSame, DownNumbers, Bit
  <2> QED
    BY <2>1, <2>2
<1>7. ASSUME NEW r \in Session, r # s PROVE SessionOK(r)'
  <2>1. /\ OffersUp(r)' = OffersUp(r) /\ AnswersUp(r)' = AnswersUp(r)
        /\ HostSessions(r)' = HostSessions(r) /\ AnswersDown(r)' = AnswersDown(r)
        /\ ClientSessions(r)' = ClientSessions(r) /\ OffersDown(r)' = OffersDown(r)
        /\ Order(r) => Order(r)'
    BY <1>1, <1>6, <1>7, NumbersAre DEF UpTaken, UpNumbers, DownNumbers, Bit
  <2>2. Same(r)
    BY <1>2, <1>4, <1>7, <2>1 DEF Same, Born, Over
  <2> QED
    BY <2>2, SameOK DEF SignalingInv
<1>8. SessionOK(s)'
  <2>1. /\ UnbornOK(s) /\ HostOK(s) /\ ViewerOK(s) /\ AnswerOK(s)
        /\ OffersUp(s) \in Nat /\ AnswersUp(s) \in Nat
        /\ HostSessions(s) \in Nat /\ ClientSessions(s) \in Nat
        /\ OffersDown(s) \in Nat /\ AnswersDown(s) \in Nat
        /\ OffersUp(s)' \in Nat /\ AnswersUp(s)' \in Nat
        /\ HostSessions(s)' \in Nat /\ ClientSessions(s)' \in Nat
        /\ OffersDown(s)' \in Nat /\ AnswersDown(s)' \in Nat
    BY <1>1, <1>6, NumbersAre
       DEF SignalingInv, SessionOK, UpNumbers, DownNumbers, UpTaken
  <2>2. /\ OffersUp(s)' = OffersUp(s) /\ AnswersUp(s) = AnswersUp(s)' + 1
        /\ HostSessions(s)' = HostSessions(s) /\ ClientSessions(s)' = ClientSessions(s)
        /\ AnswersDown(s)' = AnswersDown(s) + Bit(s \in live)
        /\ OffersDown(s)' = OffersDown(s)
        /\ Order(s) => Order(s)'
    BY <1>1, <1>6, <2>1 DEF UpTaken, Bit
  <2>3. AnswersUp(s)' + AnswersDown(s)' <= AnswersUp(s) + AnswersDown(s)
    BY <2>1, <2>2 DEF Bit
  <2>4. UnbornOK(s)'
    BY <1>2, <2>1, <2>2 DEF UnbornOK, Born
  <2>5. HostOK(s)'
    BY <1>2, <2>1, <2>2 DEF HostOK
  <2>6. ViewerOK(s)'
    BY <1>2, <2>1, <2>2 DEF ViewerOK
  <2>7. AnswerOK(s)'
    BY <1>2, <1>4, <2>1, <2>2, <2>3 DEF AnswerOK, Over
  <2> QED
    BY <2>4, <2>5, <2>6, <2>7 DEF SessionOK
<1> QED
  BY <1>1, <1>3, <1>5, <1>6, <1>7, <1>8 DEF SignalingInv, UpTaken

LEMMA ShareKeepsInv ==
    ASSUME SignalingInv, Share
    PROVE  SignalingInv'
<1>1. DownSame /\ UpAdded(Presenter, "share", None)
  <2>1. Msg("share", None) \in FromPage(Presenter)
    BY DEF FromPage
  <2> QED
    BY <2>1, DownStays, UpAdding, SessionIs DEF Share, SignalingInv
<1>2. /\ UNCHANGED <<in, hosting, shares, live, left, viewPeer, tile, hostPeer>>
      /\ clicks < MaxShares /\ clicks' = clicks + 1 /\ ~presenting /\ presenting' = TRUE
  BY DEF Share, serverVars, viewVars
<1>3. VarsOK'
  BY <1>2, SignalingAssumption DEF SignalingInv, VarsOK
<1>4. Stops' = Stops /\ Shares' = Shares + 1
  BY <1>1, NumbersAre DEF UpAdded, UpNumbers, Bit
<1>5. ShareOK'
  <2>1. shares \in Nat /\ Shares \in Nat
    BY NumbersAre, SignalingAssumption DEF UpNumbers, SignalingInv, VarsOK
  <2> QED
    BY <1>2, <1>4, <2>1 DEF SignalingInv, ShareOK
<1>6. ASSUME NEW r \in Session PROVE SessionOK(r)'
  <2>1. /\ OffersUp(r)' = OffersUp(r) /\ AnswersUp(r)' = AnswersUp(r)
        /\ HostSessions(r)' = HostSessions(r) /\ AnswersDown(r)' = AnswersDown(r)
        /\ ClientSessions(r)' = ClientSessions(r) /\ OffersDown(r)' = OffersDown(r)
        /\ Order(r) => Order(r)'
    BY <1>1, NumbersAre DEF UpAdded, DownSame, UpNumbers, DownNumbers, Bit
  <2>2. Same(r)
    BY <1>2, <1>4, <2>1 DEF Same, Born, Over
  <2> QED
    BY <2>2, SameOK DEF SignalingInv
<1> QED
  BY <1>1, <1>3, <1>5, <1>6 DEF SignalingInv, UpAdded, DownSame

LEMMA StopShareOK ==
    ASSUME SignalingInv, StopShare
    PROVE  SignalingInv'
<1>1. DownSame /\ UpAdded(Presenter, "stopshare", None)
  <2>1. Msg("stopshare", None) \in FromPage(Presenter)
    BY DEF FromPage
  <2> QED
    BY <2>1, DownStays, UpAdding, SessionIs DEF StopShare, SignalingInv
<1>2. /\ UNCHANGED <<in, hosting, shares, live, clicks, left, viewPeer, tile>>
      /\ presenting' = FALSE
      /\ \A r \in Session : hostPeer'[r] = IF hostPeer[r] \in {"offered", "answered"}
                                           THEN "closed" ELSE hostPeer[r]
      /\ hostPeer' \in [Session -> {"none", "offering", "offered", "answered", "closed"}]
  BY DEF StopShare, AfterStop, serverVars, viewVars, SignalingInv, VarsOK
<1>3. VarsOK'
  BY <1>2 DEF SignalingInv, VarsOK
<1>4. /\ Stops \in Nat /\ Stops' = Stops + 1 /\ Shares' = Shares
      /\ StopFollows(up[Presenter])'
  BY <1>1, NumbersAre DEF UpAdded, UpNumbers, Bit
<1>5. Stops' > 0
  BY <1>4
<1>6. ShareOK'
  BY <1>2, <1>4, <1>5 DEF SignalingInv, ShareOK
<1>7. ASSUME NEW r \in Session PROVE SessionOK(r)'
  <2>1. UnbornOK(r) /\ HostOK(r) /\ ViewerOK(r) /\ AnswerOK(r)
    BY DEF SignalingInv, SessionOK
  <2>2. /\ OffersUp(r)' = OffersUp(r) /\ AnswersUp(r)' = AnswersUp(r)
        /\ HostSessions(r)' = HostSessions(r) /\ AnswersDown(r)' = AnswersDown(r)
        /\ ClientSessions(r)' = ClientSessions(r) /\ OffersDown(r)' = OffersDown(r)
        /\ Order(r) => Order(r)'
    BY <1>1, NumbersAre DEF UpAdded, DownSame, UpNumbers, DownNumbers, Bit
  <2>3. /\ hostPeer'[r] = hostPeer[r] \/ hostPeer'[r] = "closed"
        /\ hostPeer[r] \in {"none", "offering", "closed"} => hostPeer'[r] = hostPeer[r]
        /\ hostPeer[r] \in {"offered", "answered"} => hostPeer'[r] = "closed"
        /\ hostPeer[r] \in {"none", "offering", "offered", "answered", "closed"}
    BY <1>2 DEF SignalingInv, VarsOK
  <2>4. UnbornOK(r)'
    BY <1>2, <2>1, <2>2, <2>3 DEF UnbornOK, Born
  <2>5. HostOK(r)'
    BY <2>1, <2>2, <2>3 DEF HostOK
  <2>6. ViewerOK(r)'
    BY <1>2, <2>1, <2>2, <2>3 DEF ViewerOK
  <2>7. AnswerOK(r)'
    BY <1>2, <1>5, <2>1, <2>2, <2>3 DEF AnswerOK, Over
  <2> QED
    BY <2>4, <2>5, <2>6, <2>7 DEF SessionOK
<1> QED
  BY <1>1, <1>3, <1>6, <1>7 DEF SignalingInv, UpAdded, DownSame

\* A session the server makes is announced at both ends, or nowhere.
NewOK(r, b) ==
    /\ hostPeer'[r] = hostPeer[r] /\ viewPeer'[r] = viewPeer[r]
    /\ Born(r)'
    /\ r.viewer \in left' <=> r.viewer \in left
    /\ OffersUp(r)' = OffersUp(r) /\ AnswersUp(r)' = AnswersUp(r)
    /\ HostSessions(r)' = HostSessions(r) + Bit(b)
    /\ ClientSessions(r)' = ClientSessions(r) + Bit(b)
    /\ AnswersDown(r)' = AnswersDown(r) /\ OffersDown(r)' = OffersDown(r)
    /\ Order(r) /\ (b => OffersDown(r) = 0) => Order(r)'

LEMMA NewSessionOK ==
    ASSUME NEW r \in Session, SessionOK(r), ~Born(r), NEW b \in BOOLEAN, NewOK(r, b)
    PROVE  SessionOK(r)'
<1>1. /\ hostPeer[r] = "none" /\ viewPeer[r] # "answering"
      /\ r.viewer \notin left => viewPeer[r] = "none" /\ Order(r)
      /\ HostSessions(r) = 0 /\ ClientSessions(r) = 0
      /\ OffersUp(r) = 0 /\ OffersDown(r) = 0 /\ AnswersUp(r) = 0 /\ AnswersDown(r) = 0
  <2>1. UnbornOK(r) /\ ViewerOK(r) /\ AnswerOK(r)
    BY DEF SessionOK
  <2>2. /\ hostPeer[r] = "none"
        /\ r.viewer \notin left => viewPeer[r] = "none"
        /\ HostSessions(r) = 0 /\ ClientSessions(r) = 0
        /\ OffersUp(r) = 0 /\ OffersDown(r) = 0 /\ AnswersUp(r) = 0 /\ AnswersDown(r) = 0
    BY <2>1 DEF UnbornOK
  <2>3. r.viewer \notin left => Order(r)
    BY <2>1 DEF ViewerOK
  <2>4. viewPeer[r] # "answering"
    BY <2>1, <2>2 DEF AnswerOK
  <2> QED
    BY <2>2, <2>3, <2>4
<1>2. /\ hostPeer'[r] = "none" /\ viewPeer'[r] # "answering"
      /\ r.viewer \notin left' => viewPeer'[r] = "none" /\ Order(r)'
      /\ HostSessions(r)' = Bit(b) /\ ClientSessions(r)' = Bit(b)
      /\ OffersUp(r)' = 0 /\ OffersDown(r)' = 0 /\ AnswersUp(r)' = 0 /\ AnswersDown(r)' = 0
      /\ Bit(b) \in {0, 1}
  BY <1>1 DEF NewOK, Bit
<1>3. UnbornOK(r)'
  BY DEF NewOK, UnbornOK
<1>4. HostOK(r)'
  BY <1>2 DEF HostOK
<1>5. ViewerOK(r)'
  BY <1>2 DEF ViewerOK
<1>6. AnswerOK(r)'
  BY <1>2 DEF AnswerOK
<1> QED
  BY <1>3, <1>4, <1>5, <1>6 DEF SessionOK

LEMMA TakeShareOK ==
    ASSUME SignalingInv, TakeShare
    PROVE  SignalingInv'
<1> DEFINE new == [viewer : in, share : {shares + 1}]
<1>1. UpTaken(Presenter, "share", None)
  BY UpTaking, SessionIs DEF TakeShare, SignalingInv
<1>2. /\ UNCHANGED <<in, clicks, presenting, left, viewPeer, tile, hostPeer>>
      /\ hosting' = TRUE /\ shares' = shares + 1 /\ live' = live \cup new
      /\ \E order \in SetToSeqs(new) : down' = newSessions(order)
  BY DEF TakeShare, hostVars, viewVars
<1>3. /\ Stops' = Stops /\ Shares = Shares' + 1 /\ Shares' \in Nat
      /\ StopFollows(up[Presenter]) => StopFollows(up[Presenter])' /\ Stops' > 0
  <2>1. Stops' + 0 = Stops /\ Shares' + 1 = Shares
    BY <1>1 DEF UpTaken, Bit
  <2>2. Stops' \in Nat /\ Shares' \in Nat
    BY <1>1 DEF UpTaken, UpNumbers
  <2>3. StopFollows(up[Presenter]) => StopFollows(up[Presenter])' /\ Stops' > 0
    BY <1>1 DEF UpTaken
  <2> QED
    BY <2>1, <2>2, <2>3
<1>4. /\ shares \in Nat /\ shares' + Shares' = clicks
      /\ shares' \in 1 .. MaxShares /\ clicks \in 0 .. MaxShares
  <2>1. shares \in Nat /\ clicks \in 0 .. MaxShares /\ shares + Shares = clicks
    BY SignalingAssumption DEF SignalingInv, VarsOK, ShareOK
  <2> QED
    BY <1>2, <1>3, <2>1, SignalingAssumption
<1>5. new \subseteq Session /\ \A s \in new : s.viewer \in in /\ s.share = shares + 1
  BY <1>2, <1>4 DEF SignalingInv, VarsOK, Session
<1>6. VarsOK'
  BY <1>2, <1>4, <1>5 DEF SignalingInv, VarsOK
<1>7. ShareOK'
  <2>1. shares' > 0
    BY <1>4
  <2>2. ~presenting' => StopFollows(up[Presenter])' /\ Stops' > 0
    BY <1>2, <1>3 DEF SignalingInv, ShareOK
  <2> QED
    BY <1>2, <1>4, <2>1, <2>2 DEF ShareOK
<1>8. PICK n, f :
          /\ n \in Nat /\ f \in [1 .. n -> new]
          /\ \A i, j \in 1 .. n : i # j => f[i] # f[j]
          /\ down' = newSessions(f)
  <2>1. Cardinality(new) \in Nat
    BY <1>5, FiniteSession, FS_Subset, FS_CardinalityType
  <2> QED
    BY <1>2, <2>1 DEF SetToSeqs
<1> DEFINE N == {f[i] : i \in 1 .. n}
<1>9. N \subseteq new
  BY <1>8
<1>10. DownNew(N)
  <2>1. f \in [1 .. n -> Session]
    BY <1>5, <1>8
  <2>2. \A i, j \in 1 .. n : f[i].viewer = f[j].viewer => i = j
    <3>1. \A s, r \in new : s.viewer = r.viewer => s = r
      OBVIOUS
    <3> QED
      BY <1>8, <3>1
  <2> HIDE DEF new
  <2> QED
    BY <1>8, <2>1, <2>2, Announcing DEF SignalingInv
<1> HIDE DEF N
<1>11. ASSUME NEW r \in Session, r \in new PROVE SessionOK(r)'
  <2>1. ~Born(r) /\ Born(r)'
    BY <1>2, <1>4, <1>5, <1>11 DEF Born
  <2>2. PICK b \in BOOLEAN : b <=> r \in N
    OBVIOUS
  <2>3. OffersUp(r)' = OffersUp(r) /\ AnswersUp(r)' = AnswersUp(r)
    BY <1>1, NumbersAre, SessionIs DEF UpTaken, UpNumbers, Bit
  <2>4. NewOK(r, b)
    BY <1>2, <1>10, <2>1, <2>2, <2>3 DEF NewOK, DownNew, Bit
  <2> QED
    BY <2>1, <2>4, NewSessionOK DEF SignalingInv
<1>12. ASSUME NEW r \in Session, r \notin new PROVE SessionOK(r)'
  <2>1. OffersUp(r)' = OffersUp(r) /\ AnswersUp(r)' = AnswersUp(r)
    BY <1>1, NumbersAre, SessionIs DEF UpTaken, UpNumbers, Bit
  <2>2. /\ HostSessions(r)' = HostSessions(r) /\ AnswersDown(r)' = AnswersDown(r)
        /\ ClientSessions(r)' = ClientSessions(r) /\ OffersDown(r)' = OffersDown(r)
        /\ Order(r) => Order(r)'
    BY <1>9, <1>10, <1>12, NumbersAre DEF DownNew, DownNumbers, Bit
  <2>3. Born(r) => Born(r)'
    BY <1>2, <1>4, SessionIs DEF Born
  <2>4. Same(r)
    BY <1>2, <1>3, <1>12, <2>1, <2>2, <2>3 DEF Same, Over
  <2> QED
    BY <2>4, SameOK DEF SignalingInv
<1> QED
  BY <1>1, <1>6, <1>7, <1>10, <1>11, <1>12 DEF SignalingInv, UpTaken, DownNew

LEMMA TakeStopShareOK ==
    ASSUME SignalingInv, TakeStopShare
    PROVE  SignalingInv'
<1>1. UpTaken(Presenter, "stopshare", None)
  BY UpTaking, SessionIs DEF TakeStopShare, SignalingInv
<1>2. /\ UNCHANGED <<in, shares, clicks, presenting, left, viewPeer, tile, hostPeer>>
      /\ hosting' = FALSE /\ live' = {}
      /\ DOMAIN down' = Pages
      /\ \A p \in Pages : down'[p] = down[p] \o EndShares(p, Ending(p))
  BY DEF TakeStopShare, hostVars, viewVars
<1>3. /\ Shares' = Shares
      /\ StopFollows(up[Presenter]) => StopFollows(up[Presenter])'
  BY <1>1, NumbersAre DEF UpTaken, UpNumbers, Bit
<1>4. DownEnds({})
  <2>1. ASSUME NEW p \in Pages
        PROVE  \E t \in Seq({Msg("endshare", None)}) : down'[p] = down[p] \o t
    <3>1. EndShares(p, Ending(p)) \in Seq({Msg("endshare", None)})
      BY EndSharesAre DEF Ending, SignalingInv, VarsOK
    <3> QED
      BY <1>2, <3>1
  <2>2. {} \in SUBSET Viewers
    OBVIOUS
  <2> QED
    BY <1>2, <2>1, <2>2, SayingEnd DEF SignalingInv
<1>5. VarsOK'
  BY <1>2 DEF SignalingInv, VarsOK
<1>6. ShareOK'
  BY <1>2, <1>3 DEF SignalingInv, ShareOK
<1>7. ASSUME NEW r \in Session PROVE SessionOK(r)'
  <2>1. OffersUp(r)' = OffersUp(r) /\ AnswersUp(r)' = AnswersUp(r)
    BY <1>1, NumbersAre, SessionIs DEF UpTaken, UpNumbers, Bit
  <2>2. /\ HostSessions(r)' = HostSessions(r) /\ AnswersDown(r)' = AnswersDown(r)
        /\ ClientSessions(r)' = ClientSessions(r) /\ OffersDown(r)' = OffersDown(r)
        /\ Order(r) => Order(r)'
    BY <1>4 DEF DownEnds
  <2>3. Same(r)
    BY <1>2, <2>1, <2>2 DEF Same, Born, Over
  <2> QED
    BY <2>3, SameOK DEF SignalingInv
<1> QED
  BY <1>1, <1>4, <1>5, <1>6, <1>7 DEF SignalingInv, UpTaken, DownEnds

LEMMA JoinOK ==
    ASSUME SignalingInv, NEW v \in Viewers, Join(v)
    PROVE  SignalingInv'
<1>1. UpSame
  BY UpStays DEF Join, SignalingInv
<1>2. /\ UNCHANGED <<hosting, shares, clicks, presenting, left, viewPeer, tile, hostPeer>>
      /\ v \notin in /\ v \notin left /\ in' = in \cup {v}
      /\ down' = newSessions(OnJoin(v))
  BY DEF Join, hostVars, viewVars
<1>3. PICK n, f :
          /\ n \in Nat /\ f \in [1 .. n -> Session]
          /\ OnJoin(v) = f
          /\ \A i, j \in 1 .. n : f[i].viewer = f[j].viewer => i = j
          /\ \A i \in 1 .. n : f[i].viewer = v /\ f[i].share = shares /\ hosting
  <2>1. CASE hosting
    <3>1. [viewer |-> v, share |-> shares] \in Session
      BY <2>1 DEF SignalingInv, VarsOK, ShareOK, Session
    <3>2. /\ OnJoin(v) \in [1 .. 1 -> Session]
          /\ OnJoin(v)[1].viewer = v /\ OnJoin(v)[1].share = shares
      BY <2>1, <3>1 DEF OnJoin
    <3> WITNESS 1, OnJoin(v)
    <3> QED
      BY <2>1, <3>2
  <2>2. CASE ~hosting
    <3>1. OnJoin(v) = <<>> /\ <<>> \in [1 .. 0 -> Session]
      BY <2>2 DEF OnJoin
    <3> WITNESS 0, OnJoin(v)
    <3> QED
      BY <3>1
  <2> QED
    BY <2>1, <2>2
<1> DEFINE N == {f[i] : i \in 1 .. n}
<1>4. \A r \in N : r \in Session /\ r.viewer = v /\ r.share = shares /\ hosting
  BY <1>3
<1>5. DownNew(N)
  BY <1>2, <1>3, Announcing DEF SignalingInv
<1>6. live' = live \cup N
  <2>1. DOMAIN OnJoin(v) = 1 .. n /\ \A i \in 1 .. n : OnJoin(v)[i] = f[i] /\ f[i] \in Session
    BY <1>3
  <2> QED
    BY <2>1 DEF Join
<1> HIDE DEF N
<1>7. VarsOK'
  BY <1>2, <1>4, <1>6 DEF SignalingInv, VarsOK
<1>8. ShareOK'
  BY <1>1, <1>2, <1>4, <1>6 DEF SignalingInv, ShareOK, UpSame
<1>9. ASSUME NEW r \in Session, r \in N PROVE SessionOK(r)'
  <2>1. ~Born(r) /\ Born(r)'
    <3>1. shares \in Nat
      BY SignalingAssumption DEF SignalingInv, VarsOK
    <3> QED
      BY <1>2, <1>4, <1>9, <3>1 DEF Born
  <2>2. PICK b \in BOOLEAN : b <=> r \in N
    OBVIOUS
  <2>3. NewOK(r, b)
    BY <1>1, <1>2, <1>5, <2>1, <2>2 DEF NewOK, UpSame, DownNew, Bit
  <2> QED
    BY <2>1, <2>3, NewSessionOK DEF SignalingInv
<1>10. ASSUME NEW r \in Session, r \notin N PROVE SessionOK(r)'
  <2>1. /\ HostSessions(r)' = HostSessions(r) /\ AnswersDown(r)' = AnswersDown(r)
        /\ ClientSessions(r)' = ClientSessions(r) /\ OffersDown(r)' = OffersDown(r)
        /\ Order(r) => Order(r)'
    BY <1>5, <1>10, NumbersAre DEF DownNew, DownNumbers, Bit
  <2>2. Same(r)
    BY <1>1, <1>2, <1>6, <1>10, <2>1 DEF Same, Born, Over, UpSame
  <2> QED
    BY <2>2, SameOK DEF SignalingInv
<1> QED
  BY <1>1, <1>5, <1>7, <1>8, <1>9, <1>10 DEF SignalingInv, UpSame, DownNew

LEMMA LeaveOK ==
    ASSUME SignalingInv, NEW v \in Viewers, Leave(v)
    PROVE  SignalingInv'
<1>1. /\ UNCHANGED <<hosting, shares, clicks, presenting, left, viewPeer, tile, hostPeer>>
      /\ v \in in /\ v \in left /\ in' = in \ {v}
      /\ live' = {s \in live : s.viewer # v}
      /\ DOMAIN up' = Pages /\ DOMAIN down' = Pages
      /\ up'[v] = <<>> /\ down'[v] = <<>>
      /\ \A p \in Pages : p # v => up'[p] = up[p]
      /\ \A p \in Viewers : p # v => down'[p] = down[p]
      /\ down'[Presenter] = down[Presenter] \o EndShares(Presenter, Ending(v))
  BY SessionIs DEF Leave, Ending, hostVars, viewVars, SignalingInv, UpOK, DownOK
<1>2. DownEnds({v})
  <2>1. ASSUME NEW p \in Pages, p # v
        PROVE  \E t \in Seq({Msg("endshare", None)}) : down'[p] = down[p] \o t
    <3>1. CASE p = Presenter
      <4>1. EndShares(Presenter, Ending(v)) \in Seq({Msg("endshare", None)})
        BY EndSharesAre DEF Ending, SignalingInv, VarsOK
      <4> QED
        BY <1>1, <3>1, <4>1
    <3>2. CASE p \in Viewers
      <4>1. down'[p] = down[p] \o <<>>
        BY <1>1, <2>1, <3>2, SessionIs, ConcatEmptySeq DEF SignalingInv, DownOK
      <4> QED
        BY <4>1, EmptySeq
    <3> QED
      BY <3>1, <3>2 DEF Pages
  <2>2. {v} \in SUBSET Viewers
    OBVIOUS
  <2> QED
    BY <1>1, <2>1, <2>2, SayingEnd DEF SignalingInv
<1>3. UpOK' /\ UpNumbers'
  <2>1. ASSUME NEW p \in Pages PROVE up'[p] \in Seq(FromPage(p))
    <3>1. CASE p = v
      BY <1>1, <3>1, EmptySeq
    <3>2. CASE p # v
      BY <1>1, <3>2 DEF SignalingInv, UpOK
    <3> QED
      BY <3>1, <3>2
  <2>2. \A p \in Pages : \A m : Count(up'[p], m) \in Nat
    BY <2>1, CountIs
  <2> QED
    BY <1>1, <2>1, <2>2, SessionIs DEF UpOK, UpNumbers, Stops, Shares, OffersUp, AnswersUp
<1>4. up'[Presenter] = up[Presenter]
  BY <1>1, SessionIs
<1>5. Stops' = Stops /\ Shares' = Shares /\ \A r \in Session : OffersUp(r)' = OffersUp(r)
  BY <1>4 DEF Stops, Shares, OffersUp
<1>6. \A r \in Session : AnswersUp(r)' = IF r.viewer = v THEN 0 ELSE AnswersUp(r)
  <2>1. \A m : Count(up'[v], m) = 0
    BY <1>1, CountNone
  <2> QED
    BY <1>1, <2>1, SessionIs DEF AnswersUp
<1>7. VarsOK'
  BY <1>1 DEF SignalingInv, VarsOK
<1>8. ShareOK'
  BY <1>1, <1>4, <1>5 DEF SignalingInv, ShareOK
<1>9. ASSUME NEW r \in Session, r.viewer # v PROVE SessionOK(r)'
  <2>1. Same(r)
    BY <1>1, <1>2, <1>5, <1>6, <1>9 DEF Same, Born, Over, DownEnds
  <2> QED
    BY <2>1, SameOK DEF SignalingInv
<1>10. ASSUME NEW r \in Session, r.viewer = v PROVE SessionOK(r)'
  <2>1. /\ UnbornOK(r) /\ HostOK(r) /\ AnswerOK(r)
        /\ AnswersUp(r) \in Nat /\ AnswersDown(r) \in Nat
    BY NumbersAre DEF SignalingInv, SessionOK, UpNumbers, DownNumbers
  <2>2. /\ OffersUp(r)' = OffersUp(r) /\ AnswersUp(r)' = 0
        /\ HostSessions(r)' = HostSessions(r) /\ AnswersDown(r)' = AnswersDown(r)
        /\ ClientSessions(r)' = 0 /\ OffersDown(r)' = 0
        /\ r \notin live' /\ r.viewer \in left'
        /\ Born(r)' <=> Born(r)
    BY <1>1, <1>2, <1>5, <1>6, <1>10 DEF DownEnds, Born
  <2>3. UnbornOK(r)'
    BY <1>1, <2>1, <2>2 DEF UnbornOK
  <2>4. HostOK(r)'
    BY <1>1, <2>1, <2>2 DEF HostOK
  <2>5. ViewerOK(r)'
    BY <2>2 DEF ViewerOK
  <2>6. AnswerOK(r)'
    BY <1>1, <2>1, <2>2 DEF AnswerOK, Over
  <2> QED
    BY <2>3, <2>4, <2>5, <2>6 DEF SessionOK
<1> QED
  BY <1>2, <1>3, <1>7, <1>8, <1>9, <1>10 DEF SignalingInv, DownEnds

LEMMA ClosePageOK ==
    ASSUME SignalingInv, NEW v \in Viewers, ClosePage(v)
    PROVE  SignalingInv'
<1>1. UpSame
  BY UpStays DEF ClosePage, SignalingInv
<1>2. /\ UNCHANGED <<in, hosting, shares, live, clicks, presenting, hostPeer>>
      /\ v \in in /\ left' = left \cup {v} /\ tile' \in [Viewers -> Session \cup {None}]
      /\ viewPeer' \in [Session -> {"none", "new", "answering", "answered", "closed"}]
      /\ \A r \in Session : viewPeer'[r] = IF r.viewer = v THEN "closed" ELSE viewPeer[r]
      /\ DOMAIN down' = Pages /\ down'[v] = <<>>
      /\ \A p \in Pages : p # v => down'[p] = down[p]
  BY SessionIs DEF ClosePage, hostVars, serverVars, SignalingInv, VarsOK, DownOK
<1>3. DownEnds({v})
  <2>1. ASSUME NEW p \in Pages, p # v
        PROVE  \E t \in Seq({Msg("endshare", None)}) : down'[p] = down[p] \o t
    <3>1. down'[p] = down[p] \o <<>>
      BY <1>2, <2>1, ConcatEmptySeq DEF SignalingInv, DownOK
    <3> QED
      BY <3>1, EmptySeq
  <2>2. {v} \in SUBSET Viewers
    OBVIOUS
  <2> QED
    BY <1>2, <2>1, <2>2, SayingEnd DEF SignalingInv
<1>4. VarsOK'
  BY <1>2 DEF SignalingInv, VarsOK
<1>5. ShareOK'
  BY <1>1, <1>2 DEF SignalingInv, ShareOK, UpSame
<1>6. ASSUME NEW r \in Session, r.viewer # v PROVE SessionOK(r)'
  <2>1. Same(r)
    BY <1>1, <1>2, <1>3, <1>6 DEF Same, Born, Over, UpSame, DownEnds
  <2> QED
    BY <2>1, SameOK DEF SignalingInv
<1>7. ASSUME NEW r \in Session, r.viewer = v PROVE SessionOK(r)'
  <2>1. UnbornOK(r) /\ HostOK(r) /\ AnswerOK(r)
    BY DEF SignalingInv, SessionOK
  <2>2. /\ OffersUp(r)' = OffersUp(r) /\ AnswersUp(r)' = AnswersUp(r)
        /\ HostSessions(r)' = HostSessions(r) /\ AnswersDown(r)' = AnswersDown(r)
        /\ ClientSessions(r)' = 0 /\ OffersDown(r)' = 0
        /\ r.viewer \in left' /\ viewPeer'[r] = "closed"
        /\ Born(r)' <=> Born(r)
        /\ Over(r)' <=> Over(r)
    BY <1>1, <1>2, <1>3, <1>7 DEF DownEnds, UpSame, Born, Over
  <2>3. UnbornOK(r)'
    BY <1>2, <2>1, <2>2 DEF UnbornOK
  <2>4. HostOK(r)'
    BY <1>2, <2>1, <2>2 DEF HostOK
  <2>5. ViewerOK(r)'
    BY <2>2 DEF ViewerOK
  <2>6. AnswerOK(r)'
    BY <1>2, <2>1, <2>2 DEF AnswerOK
  <2> QED
    BY <2>3, <2>4, <2>5, <2>6 DEF SessionOK
<1> QED
  BY <1>1, <1>3, <1>4, <1>5, <1>6, <1>7 DEF SignalingInv, UpSame, DownEnds
-----------------------------------------------------------------------------
LEMMA SignalingStarts == Init => SignalingInv
<1> SUFFICES ASSUME Init PROVE SignalingInv
  OBVIOUS
<1>1. /\ up = [p \in Pages |-> <<>>] /\ down = [p \in Pages |-> <<>>]
      /\ in = {} /\ left = {} /\ hosting = FALSE /\ shares = 0 /\ live = {}
      /\ clicks = 0 /\ presenting = FALSE
      /\ hostPeer = [s \in Session |-> "none"] /\ viewPeer = [s \in Session |-> "none"]
  BY DEF Init
<1>2. UpOK /\ DownOK
  BY <1>1, EmptySeq DEF UpOK, DownOK
<1>3. \A p \in Pages : \A m : Count(up[p], m) = 0 /\ Count(down[p], m) = 0
  BY <1>1, CountNone
<1>4. VarsOK
  <2>1. 0 \in 0 .. MaxShares
    BY SignalingAssumption
  <2>2. /\ hostPeer \in [Session -> {"none", "offering", "offered", "answered", "closed"}]
        /\ viewPeer \in [Session -> {"none", "new", "answering", "answered", "closed"}]
    BY <1>1
  <2>3. tile \in [Viewers -> Session \cup {None}]
    BY DEF Init
  <2> QED
    BY <1>1, <2>1, <2>2, <2>3 DEF VarsOK
<1>5. ShareOK
  <2>1. StopFollows(up[Presenter])
    BY <1>1, SessionIs DEF StopFollows
  <2>2. Shares = 0
    BY <1>3, SessionIs DEF Shares
  <2> QED
    BY <1>1, <2>1, <2>2 DEF ShareOK
<1>6. ASSUME NEW s \in Session PROVE SessionOK(s)
  <2>1. /\ OffersUp(s) = 0 /\ AnswersUp(s) = 0 /\ HostSessions(s) = 0
        /\ AnswersDown(s) = 0 /\ ClientSessions(s) = 0 /\ OffersDown(s) = 0
    BY <1>3, SessionIs DEF OffersUp, AnswersUp, HostSessions, AnswersDown,
                           ClientSessions, OffersDown
  <2>2. Order(s)
    BY <1>1, SessionIs DEF Order, Ahead
  <2> QED
    BY <1>1, <2>1, <2>2 DEF SessionOK, UnbornOK, HostOK, ViewerOK, AnswerOK
<1> QED
  BY <1>2, <1>4, <1>5, <1>6 DEF SignalingInv

LEMMA SignalingStutters == SignalingInv /\ UNCHANGED vars => SignalingInv'
<1> SUFFICES ASSUME SignalingInv, UNCHANGED vars PROVE SignalingInv'
  OBVIOUS
<1>1. UpSame /\ DownSame
  BY UpStays, DownStays DEF vars, SignalingInv
<1>2. VarsOK' /\ ShareOK'
  BY <1>1 DEF vars, SignalingInv, VarsOK, ShareOK, UpSame
<1>3. ASSUME NEW r \in Session PROVE SessionOK(r)'
  <2>1. Same(r)
    BY <1>1 DEF vars, Same, Born, Over, UpSame, DownSame
  <2> QED
    BY <2>1, SameOK DEF SignalingInv
<1> QED
  BY <1>1, <1>2, <1>3 DEF SignalingInv, UpSame, DownSame

LEMMA SignalingSteps == SignalingInv /\ [Next]_vars => SignalingInv'
<1> SUFFICES ASSUME SignalingInv, [Next]_vars PROVE SignalingInv'
  OBVIOUS
<1>1. CASE Share
  BY <1>1, ShareKeepsInv
<1>2. CASE StopShare
  BY <1>2, StopShareOK
<1>3. CASE Server
  BY <1>3, TakeShareOK, TakeStopShareOK, TakeOfferOK, TakeAnswerOK, LeaveOK DEF Server
<1>4. CASE Host
  BY <1>4, GetHostSessionOK, GetAnswerOK, HostGetsEndShareOK DEF Host
<1>5. ASSUME NEW s \in Session,
             \/ OfferReady(s) \/ HostNotices(s)
             \/ s.viewer \notin left /\ (AnswerReady(s) \/ ViewerNotices(s))
      PROVE  SignalingInv'
  BY <1>5, OfferReadyOK, HostNoticesOK, AnswerReadyOK, ViewerNoticesOK
<1>6. ASSUME NEW v \in Viewers, Join(v) \/ ClosePage(v) PROVE SignalingInv'
  BY <1>6, JoinOK, ClosePageOK
<1>7. ASSUME NEW v \in Viewers, Viewer(v) PROVE SignalingInv'
  BY <1>7, GetClientSessionOK, GetOfferOK, ViewerGetsEndShareOK DEF Viewer
<1>8. CASE UNCHANGED vars
  BY <1>8, SignalingStutters
<1> QED
  BY <1>1, <1>2, <1>3, <1>4, <1>5, <1>6, <1>7, <1>8 DEF Next

\* The counting invariant holds: no message of a session is there twice, and how far
\* the two ends are agrees with which messages of it are still on their way.
THEOREM SignalingCounts == Spec => []SignalingInv
<1>1. Init => SignalingInv
  BY SignalingStarts
<1>2. SignalingInv /\ [Next]_vars => SignalingInv'
  BY SignalingSteps
<1> QED
  BY <1>1, <1>2, PTL DEF Spec

\* The queues are functions: an action changes them at some pages or all.
Functional(f) == f = [p \in DOMAIN f |-> f[p]]

LEMMA FunctionalSteps ==
    Functional(up) /\ Functional(down) /\ [Next]_vars => Functional(up)' /\ Functional(down)'
<1> SUFFICES ASSUME Functional(up), Functional(down), [Next]_vars
             PROVE  Functional(up)' /\ Functional(down)'
  OBVIOUS
<1>1. CASE Share \/ StopShare
  BY <1>1 DEF Share, StopShare, Sent, Functional
<1>2. CASE Server
  <2>1. CASE TakeShare \/ TakeStopShare
    BY <2>1 DEF TakeShare, TakeStopShare, Takes, newSessions, Functional
  <2>2. ASSUME NEW s \in Session, TakeOffer(s) \/ TakeAnswer(s)
        PROVE  Functional(up)' /\ Functional(down)'
    BY <2>2 DEF TakeOffer, TakeAnswer, Takes, Functional
  <2>3. ASSUME NEW v \in Viewers, Leave(v)
        PROVE  Functional(up)' /\ Functional(down)'
    BY <2>3 DEF Leave, Functional
  <2> QED
    BY <1>2, <2>1, <2>2, <2>3 DEF Server
<1>3. CASE Host
  BY <1>3 DEF Host, GetHostSession, GetAnswer, HostGetsEndShare, Gets, Functional
<1>4. ASSUME NEW s \in Session,
             OfferReady(s) \/ HostNotices(s) \/ AnswerReady(s) \/ ViewerNotices(s)
      PROVE  Functional(up)' /\ Functional(down)'
  BY <1>4 DEF OfferReady, HostNotices, AnswerReady, ViewerNotices, Sent, Functional
<1>5. ASSUME NEW v \in Viewers, Join(v) \/ ClosePage(v)
      PROVE  Functional(up)' /\ Functional(down)'
  BY <1>5 DEF Join, ClosePage, newSessions, Functional
<1>6. ASSUME NEW v \in Viewers, Viewer(v)
      PROVE  Functional(up)' /\ Functional(down)'
  BY <1>6 DEF Viewer, GetClientSession, GetOffer, ViewerGetsEndShare, Gets, Functional
<1>7. CASE UNCHANGED vars
  BY <1>7 DEF vars, Functional
<1> QED
  BY <1>1, <1>2, <1>3, <1>4, <1>5, <1>6, <1>7 DEF Next

\* Every variable keeps its type: the queues hold messages of the protocol only,
\* and a session is live only while its viewer is in the room (ws/rooms.go).
THEOREM SignalingTypes == Spec => []TypeOK
<1>1. Init => Functional(up) /\ Functional(down)
  BY DEF Init, Functional
<1>2. SignalingInv /\ Functional(up) /\ Functional(down) => TypeOK
  <2> SUFFICES ASSUME SignalingInv, Functional(up), Functional(down) PROVE TypeOK
    OBVIOUS
  <2>1. ASSUME NEW p \in Pages
        PROVE  FromPage(p) \subseteq Message /\ ToPage(p) \subseteq Message
    BY DEF FromPage, ToPage, Message, Msg
  <2>2. \A p \in Pages : up[p] \in Seq(Message) /\ down[p] \in Seq(Message)
    BY <2>1, SeqMonotonic DEF SignalingInv, UpOK, DownOK
  <2>3. up \in [Pages -> Seq(Message)] /\ down \in [Pages -> Seq(Message)]
    BY <2>2 DEF SignalingInv, UpOK, DownOK, Functional
  <2> QED
    BY <2>3 DEF TypeOK, SignalingInv, VarsOK
<1> QED
  BY <1>1, <1>2, SignalingCounts, FunctionalSteps, PTL DEF Spec

\* An offer reaches a viewer that knows the session, and an answer a presenter that
\* waits for it, though each comes by way of two queues and a promise, whatever
\* share, stop, join and leave happen meanwhile (useRoom.ts, ws/event_*.go).
THEOREM PeersAreFound == Spec => []MessagesFindPeers
<1>1. ASSUME SignalingInv PROVE OffersFindPeers
  <2> SUFFICES ASSUME NEW s \in Session, s.viewer \notin left, down[s.viewer] # <<>>,
                      Head(down[s.viewer]) = Msg("hostoffer", s)
               PROVE  viewPeer[s] = "new"
    BY DEF OffersFindPeers
  <2>1. down[s.viewer] \in Seq(ToPage(s.viewer))
    BY <1>1, SessionIs DEF SignalingInv, DownOK
  <2>2. OffersDown(s) > 0
    BY <2>1, HeadCounts DEF OffersDown
  <2>3. ViewerOK(s)
    BY <1>1 DEF SignalingInv, SessionOK
  <2>4. ClientSessions(s) = 0
    <3>1. Taken(ToPage(s.viewer), down[s.viewer], Tail(down[s.viewer]), Msg("hostoffer", s))
      BY <2>1, Taking
    <3>2. Msg("clientsession", s) # Msg("hostoffer", s)
      BY MsgIs
    <3>3. Order(s)
      BY <2>3 DEF ViewerOK
    <3> QED
      BY <3>1, <3>2, <3>3 DEF Taken, Order, ClientSessions
  <2>5. HostSessions(s) \in Nat /\ OffersUp(s) \in Nat /\ OffersDown(s) \in Nat
    BY <1>1, NumbersAre DEF UpNumbers, DownNumbers
  <2> QED
    BY <2>2, <2>3, <2>4, <2>5 DEF ViewerOK
<1>2. ASSUME SignalingInv PROVE AnswersFindPeers
  <2> SUFFICES ASSUME NEW s \in live, down[Presenter] # <<>>,
                      Head(down[Presenter]) = Msg("clientanswer", s),
                      \A i \in DOMAIN up[Presenter] : up[Presenter][i].kind # "stopshare"
               PROVE  hostPeer[s] = "offered"
    BY DEF AnswersFindPeers
  <2>1. s \in Session
    BY <1>2 DEF SignalingInv, VarsOK
  <2>2. AnswersDown(s) > 0 /\ AnswersDown(s) \in Nat /\ AnswersUp(s) \in Nat
    <3>1. down[Presenter] \in Seq(ToPage(Presenter))
      BY <1>2, SessionIs DEF SignalingInv, DownOK
    <3>2. AnswersDown(s) > 0
      BY <3>1, HeadCounts DEF AnswersDown
    <3> QED
      BY <1>2, <2>1, <3>2, NumbersAre DEF UpNumbers, DownNumbers
  <2>3. ~Over(s)
    <3>1. \A i \in DOMAIN up[Presenter] : up[Presenter][i] # Msg("stopshare", None)
      BY DEF Msg
    <3>2. Stops = 0
      BY <3>1, CountNone DEF Stops
    <3> QED
      BY <3>2 DEF Over
  <2>4. AnswerOK(s)
    BY <1>2, <2>1 DEF SignalingInv, SessionOK
  <2> QED
    BY <2>2, <2>3, <2>4 DEF AnswerOK
<1>3. SignalingInv => MessagesFindPeers
  BY <1>1, <1>2 DEF MessagesFindPeers
<1> QED
  BY <1>3, SignalingCounts, PTL
=============================================================================
