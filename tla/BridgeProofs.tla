---------------------------- MODULE BridgeProofs ----------------------------
(* Proofs about module Bridge, for any number of microphones, clicks, polls *)
(* and reports.                                                             *)
EXTENDS Bridge, SequenceTheorems, TLAPS

-------------------------------------------------------------------------------
\* Types.

Places == {"none", "idle", "flipped", "asked", "mute", "unmute", "loopback",
           "leaving", "exited"}
Mutes == {"micMuted", "soundMuted"}

\* What a report may tell: everything, that a share has ended, or one switch.
Values == UNION {[D -> BOOLEAN] : D \in {Flags, {"sharing", "paused"},
                                         {"micMuted"}, {"soundMuted"}}}
Rep == [values : Values, at : {"sent", "updated", "muting"}, todo : SUBSET Mics]
States == [Flags -> BOOLEAN]
PollStates == [at : {"idle", "read", "cleared"}, action : Actions \cup {None}]

\* The toolbar is bound to a flag only while it sets switches because of a click,
\* and has microphones left to set only while it sets them.
GuiOK ==
    /\ gui \in [at : Places, flag : Mutes \cup {None, "exit"}, new : BOOLEAN,
                todo : SUBSET Mics]
    /\ gui.at \in {"none", "idle", "leaving", "exited"} => gui.flag = None
    /\ gui.at \in {"flipped", "asked"} => gui.flag \in Mutes
    /\ gui.at = "loopback" => gui.flag = "soundMuted"
    /\ gui.at \notin {"mute", "unmute"} => gui.todo = {}
    /\ gui.flag = "exit" => gui.at = "unmute"

PollsOK ==
    /\ polls \in [Polls -> PollStates]
    /\ \A p \in Polls : /\ polls[p].at = "idle" => polls[p].action = None
                        /\ polls[p].at = "cleared" => polls[p].action # None

ReportsOK ==
    /\ reports \in Seq(Rep)
    /\ \A i \in DOMAIN reports :
          reports[i].at = "muting" => "micMuted" \in DOMAIN reports[i].values

BridgeOK ==
    /\ TypeOK
    /\ GuiOK
    /\ PollsOK
    /\ ReportsOK
    /\ queued \in Seq(States)


\* One element more, one less, one changed.
Added(s, t, e) ==
    /\ Len(t) = Len(s) + 1
    /\ \A k \in 1 .. Len(s) : t[k] = s[k]
    /\ t[Len(t)] = e

Removed(s, t, i) ==
    /\ Len(t) = Len(s) - 1
    /\ \A k \in 1 .. Len(t) : t[k] = s[IF k < i THEN k ELSE k + 1]

Changed(s, t, i, e) ==
    /\ Len(t) = Len(s)
    /\ \A k \in 1 .. Len(s) : t[k] = IF k = i THEN e ELSE s[k]

LEMMA Adding ==
    ASSUME NEW S, NEW s \in Seq(S), NEW e \in S
    PROVE  Append(s, e) \in Seq(S) /\ Added(s, Append(s, e), e)
BY DEF Added

LEMMA Removing ==
    ASSUME NEW S, NEW s \in Seq(S), NEW i \in 1 .. Len(s)
    PROVE  RemoveAt(s, i) \in Seq(S) /\ Removed(s, RemoveAt(s, i), i)
<1>1. PICK n \in Nat : n = Len(s) /\ i \in 1 .. n
  OBVIOUS
<1> DEFINE a == SubSeq(s, 1, i - 1) b == SubSeq(s, i + 1, n)
<1>2. /\ a \in Seq(S) /\ Len(a) = i - 1
      /\ \A k \in 1 .. i - 1 : a[k] = s[k]
  BY <1>1
<1>3. /\ b \in Seq(S) /\ Len(b) = n - i
      /\ \A k \in 1 .. n - i : b[k] = s[i + k]
  BY <1>1
<1> HIDE DEF a, b
<1>4. /\ a \o b \in Seq(S) /\ Len(a \o b) = n - 1
      /\ \A k \in 1 .. n - 1 : (a \o b)[k] = IF k <= i - 1 THEN a[k] ELSE b[k - (i - 1)]
  BY <1>1, <1>2, <1>3, ConcatProperties
<1>5. ASSUME NEW k \in 1 .. n - 1
      PROVE  (a \o b)[k] = s[IF k < i THEN k ELSE k + 1]
  <2>1. ASSUME k < i PROVE (a \o b)[k] = s[k]
    BY <1>1, <1>2, <1>4, <2>1
  <2>2. ASSUME ~(k < i) PROVE (a \o b)[k] = s[k + 1]
    <3>1. k - (i - 1) \in 1 .. n - i /\ i + (k - (i - 1)) = k + 1 /\ ~(k <= i - 1)
      BY <1>1, <2>2
    <3>2. QED
      BY <1>1, <1>3, <1>4, <3>1
  <2>3. QED
    BY <2>1, <2>2
<1>6. RemoveAt(s, i) = a \o b
  BY <1>1 DEF RemoveAt, a, b
<1>7. QED
  BY <1>1, <1>4, <1>5, <1>6 DEF Removed

LEMMA Changing ==
    ASSUME NEW S, NEW s \in Seq(S), NEW i \in 1 .. Len(s), NEW e \in S
    PROVE  /\ [s EXCEPT ![i] = e] \in Seq(S)
           /\ Changed(s, [s EXCEPT ![i] = e], i, e)
BY DEF Changed

LEMMA Taking ==
    ASSUME NEW S, NEW s \in Seq(S), s # <<>>
    PROVE  /\ Head(s) = s[1] /\ Head(s) \in S /\ Tail(s) \in Seq(S)
           /\ Len(s) > 0 /\ Len(Tail(s)) = Len(s) - 1
           /\ Len(s) = 1 => Tail(s) = <<>>
           /\ Len(s) # 1 => Tail(s) # <<>> /\ Tail(s)[Len(Tail(s))] = s[Len(s)]
<1>1. PICK n \in Nat : n = Len(s) /\ n # 0
  BY EmptySeq
<1>2. /\ Tail(s) \in Seq(S) /\ Len(Tail(s)) = n - 1
      /\ \A i \in 1 .. n - 1 : Tail(s)[i] = s[i + 1]
  BY <1>1, HeadTailProperties
<1>3. ASSUME n # 1 PROVE Tail(s) # <<>> /\ Tail(s)[n - 1] = s[n]
  <2>1. n - 1 \in 1 .. n - 1 /\ n - 1 # 0 /\ (n - 1) + 1 = n
    BY <1>1, <1>3
  <2>2. QED
    BY <1>2, <2>1, EmptySeq
<1>4. ASSUME n = 1 PROVE Tail(s) = <<>>
  <2>1. Tail(s) \in Seq(S) /\ Len(Tail(s)) = 0
    BY <1>2, <1>4
  <2>2. (Tail(s) # <<>>) => (Len(Tail(s)) \in Nat \ {0})
    BY <2>1, EmptySeq
  <2>3. QED
    BY <2>1, <2>2
<1>5. QED
  BY <1>1, <1>2, <1>3, <1>4, HeadTailProperties

-------------------------------------------------------------------------------
LEMMA ValuesAre ==
    /\ \A v \in Values : /\ DOMAIN v \in {Flags, {"sharing", "paused"},
                                          {"micMuted"}, {"soundMuted"}}
                         /\ \A f \in DOMAIN v : f \in Flags /\ v[f] \in BOOLEAN
    /\ \A s \in States : \A D \in {Flags, {"sharing", "paused"}, {"micMuted"}, {"soundMuted"}} :
          [f \in D |-> s[f]] \in Values
    /\ Ended \in Values
<1>1. ASSUME NEW v \in Values
      PROVE  /\ DOMAIN v \in {Flags, {"sharing", "paused"}, {"micMuted"}, {"soundMuted"}}
             /\ \A f \in DOMAIN v : f \in Flags /\ v[f] \in BOOLEAN
  <2>1. PICK D \in {Flags, {"sharing", "paused"}, {"micMuted"}, {"soundMuted"}} :
          v \in [D -> BOOLEAN]
    BY DEF Values
  <2>2. DOMAIN v = D /\ D \subseteq Flags
    BY <2>1 DEF Flags
  <2>3. QED
    BY <2>1, <2>2
<1>2. ASSUME NEW s \in States,
             NEW D \in {Flags, {"sharing", "paused"}, {"micMuted"}, {"soundMuted"}}
      PROVE  [f \in D |-> s[f]] \in Values
  <2>1. D \subseteq Flags
    BY DEF Flags
  <2>2. [f \in D |-> s[f]] \in [D -> BOOLEAN]
    BY <2>1 DEF States
  <2>3. QED
    BY <2>2 DEF Values
<1>3. Ended \in Values
  <2>1. Ended \in [{"sharing", "paused"} -> BOOLEAN]
    BY DEF Ended
  <2>2. QED
    BY <2>1 DEF Values
<1>4. QED
  BY <1>1, <1>2, <1>3

\* A report with these values is sent.
Says(v) ==
    /\ v \in Values
    /\ Added(reports, reports', [values |-> v, at |-> "sent", todo |-> {}])

LEMMA Saying ==
    ASSUME ReportsOK, NEW v \in Values, reports' = Report(v)
    PROVE  ReportsOK' /\ Says(v)
<1> DEFINE e == [values |-> v, at |-> "sent", todo |-> {}]
<1>1. e \in Rep
  BY DEF Rep
<1>2. reports' = Append(reports, e)
  BY DEF Report
<1>3. e.at = "sent"
  OBVIOUS
<1> HIDE DEF e
<1>4. reports' \in Seq(Rep) /\ Added(reports, reports', e)
  BY <1>1, <1>2, Adding DEF ReportsOK
<1>5. \A i \in DOMAIN reports' :
          reports'[i].at = "muting" => "micMuted" \in DOMAIN reports'[i].values
  <2>1. DOMAIN reports = 1 .. Len(reports) /\ DOMAIN reports' = 1 .. Len(reports')
        /\ Len(reports) \in Nat
    BY <1>4, LenProperties DEF ReportsOK
  <2>2. QED
    BY <1>3, <1>4, <2>1 DEF ReportsOK, Added
<1>6. QED
  BY <1>4, <1>5 DEF Says, ReportsOK, e

LEMMA Stopping ==
    ASSUME BridgeOK, Stop
    PROVE  ReportsOK' /\ page' \in States /\ Says(Ended)
BY ValuesAre, Saying DEF Stop, BridgeOK, TypeOK, States

LEMMA Telling ==
    ASSUME BridgeOK, page' \in States,
           NEW D \in {Flags, {"sharing", "paused"}, {"micMuted"}, {"soundMuted"}},
           reports' = Report(Told(D))
    PROVE  ReportsOK' /\ Says([f \in D |-> page'[f]])
<1>1. [f \in D |-> page'[f]] \in Values
  BY ValuesAre
<1>2. QED
  BY <1>1, Saying DEF Told, BridgeOK

LEMMA InitOK == Init => BridgeOK
<1> SUFFICES ASSUME Init PROVE BridgeOK
  OBVIOUS
<1>1. NoFlags \in States
  BY DEF NoFlags, States
<1>2. TypeOK
  <2>1. muted \in [mics : [Mics -> BOOLEAN], loopback : BOOLEAN]
    BY DEF Init
  <2>2. gui.at = "none" /\ gui.todo = {}
    BY DEF Init, Idle
  <2>3. shown = [flags |-> NoFlags, share |-> "Share"]
    BY DEF Init
  <2>4. asked \in [screen : Nat, mic : Nat] /\ pending \in Actions
    BY DEF Init, Actions
  <2>5. app = NoFlags /\ page = NoFlags /\ mishaps = {}
    BY DEF Init
  <2>6. QED
    BY <1>1, <2>1, <2>2, <2>3, <2>4, <2>5 DEF TypeOK, States
<1>3. GuiOK
  BY DEF Init, GuiOK, Idle, Places, None
<1>4. PollsOK
  BY DEF Init, PollsOK, NoPoll, PollStates, None
<1>5. ReportsOK /\ queued \in Seq(States)
  BY EmptySeq DEF Init, ReportsOK
<1>6. QED
  BY <1>2, <1>3, <1>4, <1>5 DEF BridgeOK

LEMMA PollOK ==
    ASSUME BridgeOK, NEW p \in Polls, Poll(p)
    PROVE  BridgeOK'
<1>1. CASE PollRead(p)
  BY <1>1 DEF PollRead, BridgeOK, TypeOK, GuiOK, PollsOK, ReportsOK, PollStates
<1>2. CASE PollClear(p)
  <2>1. TypeOK'
    BY <1>2 DEF PollClear, BridgeOK, TypeOK, None, Actions
  <2>2. PollsOK'
    BY <1>2 DEF PollClear, BridgeOK, PollsOK, PollStates, NoPoll
  <2>3. QED
    BY <1>2, <2>1, <2>2 DEF PollClear, BridgeOK, GuiOK, ReportsOK
<1>3. CASE PollAnswered(p)
  <2>1. PollsOK' /\ GuiOK' /\ (queued \in Seq(States))'
    BY <1>3 DEF PollAnswered, BridgeOK, PollsOK, GuiOK, PollStates, NoPoll
  <2>2. page' \in States /\ ReportsOK' /\ asked' \in [screen : Nat, mic : Nat]
    <3>1. page \in States /\ ReportsOK /\ asked \in [screen : Nat, mic : Nat]
      BY DEF BridgeOK, TypeOK, States
    <3>2. Obey(polls[p].action)
      BY <1>3 DEF PollAnswered
    <3>3. CASE UNCHANGED <<page, reports>> /\ asked' = [asked EXCEPT !.screen = @ + 1]
      BY <3>1, <3>3 DEF ReportsOK
    <3>4. CASE Stop /\ UNCHANGED asked
      BY <3>1, <3>4, Stopping
    <3>5. CASE /\ page' = [page EXCEPT !.paused = ~@]
               /\ reports' = Report(Told(Flags)) /\ UNCHANGED asked
      <4>1. page' \in States
        BY <3>1, <3>5 DEF States
      <4>2. QED
        BY <3>1, <3>5, <4>1, Telling
    <3>6. CASE UNCHANGED <<page, reports, asked>>
      BY <3>1, <3>6 DEF ReportsOK
    <3>7. CASE /\ page' = [page EXCEPT !.micMuted = ~@]
               /\ asked' = [asked EXCEPT !.mic = @ + 1] /\ UNCHANGED reports
      <4>1. page' \in States
        BY <3>1, <3>7 DEF States
      <4>2. ReportsOK'
        BY <3>1, <3>7 DEF ReportsOK
      <4>3. asked' \in [screen : Nat, mic : Nat]
        BY <3>1, <3>7
      <4>4. QED
        BY <4>1, <4>2, <4>3
    <3>8. CASE /\ page' = [page EXCEPT !.micMuted = ~@]
               /\ reports' = Report(Told({"micMuted"})) /\ UNCHANGED asked
      <4>1. page' \in States
        BY <3>1, <3>8 DEF States
      <4>2. QED
        BY <3>1, <3>8, <4>1, Telling
    <3>9. CASE /\ page' = [page EXCEPT !.soundMuted = ~@]
               /\ reports' = Report(Told({"soundMuted"})) /\ UNCHANGED asked
      <4>1. page' \in States
        BY <3>1, <3>9 DEF States
      <4>2. QED
        BY <3>1, <3>9, <4>1, Telling
    <3>10. QED
      BY <3>2, <3>3, <3>4, <3>5, <3>6, <3>7, <3>8, <3>9 DEF Obey
  <2>3. TypeOK'
    BY <1>3, <2>2 DEF PollAnswered, BridgeOK, TypeOK, States
  <2>4. QED
    BY <2>1, <2>2, <2>3 DEF BridgeOK
<1>4. QED
  BY <1>1, <1>2, <1>3 DEF Poll

LEMMA CaptureOK ==
    ASSUME BridgeOK, Capture \/ CaptureEnds \/ MicDone
    PROVE  BridgeOK'
<1>1. UNCHANGED <<app, pending, gui, shown, queued, polls, muted>>
  BY DEF Capture, CaptureGranted, CaptureRefused, CaptureEnds, MicDone
<1>2. GuiOK' /\ PollsOK' /\ (queued \in Seq(States))'
  BY <1>1 DEF BridgeOK, GuiOK, PollsOK
<1>3. mishaps' \in SUBSET (mishaps \cup {"refused"})
  BY DEF Capture, CaptureGranted, CaptureRefused, CaptureEnds, MicDone
<1>4. page' \in States /\ ReportsOK'
  <2>1. CASE CaptureGranted
    <3>1. page' \in States
      BY <2>1 DEF CaptureGranted, BridgeOK, TypeOK, States
    <3>2. QED
      BY <2>1, <3>1, Telling DEF CaptureGranted
  <2>2. CASE CaptureRefused
    BY <2>2, ValuesAre, Saying DEF CaptureRefused, BridgeOK, TypeOK, States
  <2>3. CASE CaptureEnds
    BY <2>3, Stopping DEF CaptureEnds
  <2>4. CASE MicDone
    <3>1. page' \in States /\ reports' = Report([f \in {"micMuted"} |-> page[f]])
      BY <2>4 DEF MicDone, BridgeOK, TypeOK, States, Report
    <3>2. reports' = Report(Told({"micMuted"}))
      BY <2>4, <3>1 DEF MicDone, Told
    <3>3. QED
      BY <3>1, <3>2, Telling
  <2>5. QED
    BY <2>1, <2>2, <2>3, <2>4 DEF Capture
<1>5. asked' \in [screen : Nat, mic : Nat]
  <2>1. asked \in [screen : Nat, mic : Nat]
    BY DEF BridgeOK, TypeOK
  <2>2. \/ asked.screen > 0 /\ asked' = [asked EXCEPT !.screen = @ - 1]
        \/ asked.mic > 0 /\ asked' = [asked EXCEPT !.mic = @ - 1]
        \/ asked' = asked
    BY DEF Capture, CaptureGranted, CaptureRefused, CaptureEnds, MicDone
  <2>3. QED
    BY <2>1, <2>2
<1>6. TypeOK'
  BY <1>1, <1>3, <1>4, <1>5 DEF BridgeOK, TypeOK, States
<1>7. QED
  BY <1>2, <1>4, <1>6 DEF BridgeOK

LEMMA FewerReports ==
    ASSUME BridgeOK, NEW i \in DOMAIN reports, reports' = RemoveAt(reports, i)
    PROVE  ReportsOK'
<1>1. PICK n \in Nat : n = Len(reports) /\ DOMAIN reports = 1 .. n /\ i \in 1 .. n
  BY LenProperties DEF BridgeOK, ReportsOK
<1>2. reports \in Seq(Rep)
  BY DEF BridgeOK, ReportsOK
<1>3. reports' \in Seq(Rep) /\ Removed(reports, reports', i)
  BY <1>1, <1>2, Removing
<1>4. DOMAIN reports' = 1 .. n - 1
  BY <1>1, <1>3, LenProperties DEF Removed
<1>5. ASSUME NEW k \in 1 .. n - 1
      PROVE  \E j \in 1 .. n : reports'[k] = reports[j]
  <2>1. k \in 1 .. n /\ k + 1 \in 1 .. n
    BY <1>1
  <2>2. reports'[k] = reports[IF k < i THEN k ELSE k + 1]
    BY <1>1, <1>3, <1>4, <1>5 DEF Removed
  <2>3. QED
    BY <2>1, <2>2
<1>6. ASSUME NEW k \in DOMAIN reports', reports'[k].at = "muting"
      PROVE  "micMuted" \in DOMAIN reports'[k].values
  <2>1. PICK j \in DOMAIN reports : reports'[k] = reports[j]
    BY <1>1, <1>4, <1>5, <1>6
  <2>2. QED
    BY <1>6, <2>1 DEF BridgeOK, ReportsOK
<1>7. QED
  BY <1>3, <1>6 DEF ReportsOK

LEMMA HandleOK ==
    ASSUME BridgeOK, NEW i \in DOMAIN reports, Handle(i)
    PROVE  BridgeOK'
<1> DEFINE e == [reports[i] EXCEPT !.at = "updated"]
           e2 == [reports[i] EXCEPT !.at = "muting", !.todo = Mics]
           e3(m) == [reports[i] EXCEPT !.todo = @ \ {m}]
<1>1. /\ Len(reports) \in Nat /\ DOMAIN reports = 1 .. Len(reports)
      /\ i \in 1 .. Len(reports) /\ reports[i] \in Rep /\ reports \in Seq(Rep)
  BY LenProperties DEF BridgeOK, ReportsOK
<1>2. UNCHANGED <<pending, gui, shown, page, asked, polls>>
  BY DEF Handle, ReportUpdates, ReportEmits, ReportMutes
<1>3. GuiOK' /\ PollsOK'
  BY <1>2 DEF BridgeOK, GuiOK, PollsOK
<1>4. CASE ReportUpdates(i)
  <2>1. app' \in States
    BY <1>1, <1>4, ValuesAre DEF ReportUpdates, update_app_state, BridgeOK, TypeOK, States, Rep
  <2>2. e \in Rep /\ e.values = reports[i].values /\ e.at = "updated"
    BY <1>1 DEF Rep
  <2>3. reports' = [reports EXCEPT ![i] = e]
    BY <1>4 DEF ReportUpdates
  <2> HIDE DEF e
  <2>4. reports' \in Seq(Rep) /\ Changed(reports, reports', i, e)
    BY <1>1, <2>2, <2>3, Changing
  <2>5. ReportsOK'
    BY <1>1, <2>2, <2>4, LenProperties DEF BridgeOK, ReportsOK, Changed
  <2>6. TypeOK'
    BY <1>2, <1>4, <2>1 DEF ReportUpdates, BridgeOK, TypeOK, States
  <2>7. QED
    BY <1>3, <1>4, <2>5, <2>6 DEF ReportUpdates, BridgeOK
<1>5. CASE ReportEmits(i)
  <2>1. TypeOK'
    BY <1>2, <1>5 DEF ReportEmits, Emit, BridgeOK, TypeOK
  <2>2. queued' \in Seq(States)
    <3>1. queued \in Seq(States) /\ app \in States
      BY DEF BridgeOK, TypeOK, States
    <3>2. queued' \in {queued, Append(queued, app)}
      BY <1>5 DEF ReportEmits, Emit
    <3>3. QED
      BY <3>1, <3>2, AppendProperties
  <2>3. ReportsOK'
    <3>1. CASE reports' = RemoveAt(reports, i)
      BY <3>1, FewerReports
    <3>2. CASE /\ reports' = [reports EXCEPT ![i].at = "muting", ![i].todo = Mics]
               /\ "micMuted" \in DOMAIN reports[i].values
      <4>1. e2 \in Rep /\ e2.values = reports[i].values
        BY <1>1 DEF Rep
      <4>2. reports' = [reports EXCEPT ![i] = e2]
        BY <1>1, <3>2 DEF Rep
      <4> HIDE DEF e2
      <4>3. reports' \in Seq(Rep) /\ Changed(reports, reports', i, e2)
        BY <1>1, <4>1, <4>2, Changing
      <4>4. QED
        BY <1>1, <3>2, <4>1, <4>3, LenProperties DEF BridgeOK, ReportsOK, Changed
    <3>3. QED
      BY <1>5, <3>1, <3>2 DEF ReportEmits
  <2>4. QED
    BY <1>3, <2>1, <2>2, <2>3 DEF BridgeOK
<1>6. ASSUME NEW m \in Mics, ReportMutes(i, m)
      PROVE  BridgeOK'
  <2>1. reports[i].values.micMuted \in BOOLEAN
    BY <1>1, <1>6, ValuesAre DEF ReportMutes, BridgeOK, ReportsOK, Rep
  <2>2. muted' \in [mics : [Mics -> BOOLEAN], loopback : BOOLEAN]
    BY <1>6, <2>1 DEF ReportMutes, BridgeOK, TypeOK
  <2>3. TypeOK'
    BY <1>2, <1>6, <2>2 DEF ReportMutes, BridgeOK, TypeOK
  <2>4. ReportsOK'
    <3>1. CASE reports' = RemoveAt(reports, i)
      BY <3>1, FewerReports
    <3>2. CASE reports' = [reports EXCEPT ![i].todo = @ \ {m}]
      <4>1. e3(m) \in Rep /\ e3(m).values = reports[i].values /\ e3(m).at = reports[i].at
        BY <1>1 DEF Rep
      <4>2. reports' = [reports EXCEPT ![i] = e3(m)]
        BY <1>1, <3>2 DEF Rep
      <4> HIDE DEF e3
      <4>3. reports' \in Seq(Rep) /\ Changed(reports, reports', i, e3(m))
        BY <1>1, <4>1, <4>2, Changing
      <4>4. QED
        BY <1>1, <4>1, <4>3, LenProperties DEF BridgeOK, ReportsOK, Changed
    <3>3. QED
      BY <1>6, <3>1, <3>2 DEF ReportMutes
  <2>5. QED
    BY <1>3, <1>6, <2>3, <2>4 DEF ReportMutes, BridgeOK
<1>7. QED
  BY <1>4, <1>5, <1>6 DEF Handle

LEMMA ToolbarOK ==
    ASSUME BridgeOK, Toolbar
    PROVE  BridgeOK'
<1> USE DEF Idle, Places, None, Mutes
<1>1. UNCHANGED <<app, page, asked, polls>>
  BY DEF Toolbar, ToolbarUp, AskPage, set_pending_action, ShowOwn, Deliver, update_gui_state,
         SetLoopback, CleanupAudio, SetMic
<1>2. PollsOK'
  BY <1>1 DEF BridgeOK, PollsOK
<1>3. CASE ToolbarUp \/ CleanupAudio
  <2>1. GuiOK'
    <3>1. CASE ToolbarUp
      BY <3>1 DEF ToolbarUp, GuiOK
    <3>2. CASE CleanupAudio
      BY <3>2 DEF CleanupAudio, GuiOK
    <3>3. QED
      BY <1>3, <3>1, <3>2
  <2>2. TypeOK'
    BY <1>1, <1>3, <2>1 DEF ToolbarUp, CleanupAudio, BridgeOK, TypeOK, GuiOK
  <2>3. QED
    BY <1>2, <1>3, <2>1, <2>2 DEF ToolbarUp, CleanupAudio, BridgeOK, ReportsOK
<1>4. CASE AskPage
  <2>1. GuiOK'
    BY <1>4 DEF AskPage, BridgeOK, GuiOK
  <2>2. pending' \in Actions /\ mishaps' \subseteq mishaps \cup {"lost"}
    BY <1>4 DEF AskPage, set_pending_action, Lost, ToggleOf, Actions, BridgeOK, GuiOK
  <2>3. TypeOK'
    BY <1>1, <1>4, <2>1, <2>2 DEF AskPage, BridgeOK, TypeOK, GuiOK
  <2>4. QED
    BY <1>2, <1>4, <2>1, <2>3 DEF AskPage, BridgeOK, ReportsOK
<1>5. ASSUME NEW state \in States, NEW flag \in Mutes \cup {None}, NEW new \in BOOLEAN,
             update_gui_state(state, flag, new),
             UNCHANGED <<pending, reports, muted, mishaps>>, queued' \in Seq(States)
      PROVE  BridgeOK'
  <2>1. GuiOK'
    BY <1>5 DEF update_gui_state, GuiOK
  <2>2. shown' = [flags |-> state, share |-> IF state.sharing THEN "Stop" ELSE "Share"]
    BY <1>5 DEF update_gui_state
  <2>3. TypeOK'
    BY <1>1, <1>5, <2>1, <2>2 DEF BridgeOK, TypeOK, GuiOK, States
  <2>4. QED
    BY <1>2, <1>5, <2>1, <2>3 DEF BridgeOK, ReportsOK
<1>6. CASE ShowOwn
  BY <1>5, <1>6 DEF ShowOwn, BridgeOK, TypeOK, GuiOK, States
<1>7. CASE Deliver
  <2>1. PICK state \in {Head(queued), app} : update_gui_state(state, None, FALSE)
    BY <1>7 DEF Deliver
  <2>2. state \in States /\ queued' \in Seq(States)
    BY <1>7, HeadTailProperties DEF Deliver, BridgeOK, TypeOK, States
  <2>3. QED
    BY <1>5, <1>7, <2>1, <2>2 DEF Deliver
<1>8. CASE SetLoopback
  <2>1. muted' \in [mics : [Mics -> BOOLEAN], loopback : BOOLEAN]
    BY <1>8 DEF SetLoopback, BridgeOK, TypeOK, GuiOK
  <2>2. QED
    BY <1>1, <1>2, <1>8, <2>1 DEF SetLoopback, BridgeOK, TypeOK, GuiOK, ReportsOK
<1>9. ASSUME NEW m \in Mics, SetMic(m)
      PROVE  BridgeOK'
  <2>1. muted' \in [mics : [Mics -> BOOLEAN], loopback : BOOLEAN]
    BY <1>9 DEF SetMic, BridgeOK, TypeOK
  <2>2. gui \in [at : Places, flag : Mutes \cup {None, "exit"}, new : BOOLEAN,
                 todo : SUBSET Mics]
    BY DEF BridgeOK, GuiOK
  <2>3. GuiOK'
    <3>1. CASE gui.todo # {m}
      BY <1>9, <2>2, <3>1 DEF SetMic, BridgeOK, GuiOK
    <3>2. CASE gui.todo = {m} /\ gui.flag = "micMuted"
      BY <1>9, <2>2, <3>2 DEF SetMic, GuiOK
    <3>3. CASE gui.todo = {m} /\ gui.flag = "soundMuted"
      BY <1>9, <2>2, <3>3 DEF SetMic, GuiOK
    <3>4. CASE gui.todo = {m} /\ gui.flag = "exit"
      BY <1>9, <2>2, <3>4 DEF SetMic, GuiOK
    <3>5. CASE gui.todo = {m} /\ gui.flag = None
      BY <1>9, <2>2, <3>5 DEF SetMic, GuiOK
    <3>6. QED
      BY <2>2, <3>1, <3>2, <3>3, <3>4, <3>5
  <2>4. ReportsOK'
    <3>1. CASE reports' = reports
      BY <3>1 DEF BridgeOK, ReportsOK
    <3>2. CASE reports' = <<>>
      BY <3>2, EmptySeq DEF ReportsOK
    <3>3. QED
      BY <1>9, <3>1, <3>2 DEF SetMic
  <2>5. TypeOK'
    BY <1>1, <1>9, <2>1, <2>3 DEF SetMic, BridgeOK, TypeOK, GuiOK
  <2>6. QED
    BY <1>2, <1>9, <2>3, <2>4, <2>5 DEF SetMic, BridgeOK
<1>10. QED
  BY <1>3, <1>4, <1>6, <1>7, <1>8, <1>9 DEF Toolbar

LEMMA UserOK ==
    ASSUME BridgeOK, User
    PROVE  BridgeOK'
<1> USE DEF Idle, Places, None, Mutes
<1>1. UNCHANGED <<reports, muted>>
  BY DEF User, ClickShare, trigger_pause, Flip, Quit
<1>2. ReportsOK'
  BY <1>1 DEF BridgeOK, ReportsOK
<1>3. CASE ClickShare \/ trigger_pause
  <2>1. UNCHANGED <<app, page, gui, queued, asked, polls>>
    BY <1>3 DEF ClickShare, trigger_pause
  <2>2. pending' \in Actions /\ mishaps' \subseteq mishaps \cup {"lost", "hasty"}
    BY <1>3 DEF ClickShare, trigger_pause, Actions, Lost, Hasty
  <2>3. shown' \in [flags : [Flags -> BOOLEAN],
                    share : {"Share", "Starting...", "Stop", "Stopping..."}]
    BY <1>3 DEF ClickShare, trigger_pause, BridgeOK, TypeOK
  <2>4. TypeOK'
    BY <1>1, <2>1, <2>2, <2>3 DEF BridgeOK, TypeOK
  <2>5. QED
    BY <1>2, <2>1, <2>4 DEF BridgeOK, GuiOK, PollsOK
<1>4. ASSUME NEW f \in Mutes, Flip(f)
      PROVE  BridgeOK'
  <2>1. app' \in States /\ (~app[f]) \in BOOLEAN
    <3>1. app \in States /\ f \in Flags /\ app' = [app EXCEPT ![f] = ~app[f]]
      BY <1>4 DEF Flip, BridgeOK, TypeOK, States, Flags
    <3>2. QED
      BY <3>1 DEF States
  <2>2. GuiOK'
    BY <1>4, <2>1 DEF Flip, GuiOK
  <2>3. mishaps' \subseteq mishaps \cup {"hasty"}
    BY <1>4 DEF Flip, Hasty
  <2>4. TypeOK'
    BY <1>1, <1>4, <2>1, <2>2, <2>3 DEF Flip, BridgeOK, TypeOK, GuiOK, States
  <2>5. QED
    BY <1>2, <1>4, <2>2, <2>4 DEF Flip, BridgeOK, PollsOK
<1>5. CASE Quit
  <2>1. page' \in States
    BY <1>5 DEF Quit, NoFlags, States
  <2>2. GuiOK'
    BY <1>5 DEF Quit, GuiOK
  <2>3. PollsOK'
    BY <1>5 DEF Quit, PollsOK, NoPoll, PollStates
  <2>4. queued' \in Seq(States)
    BY <1>5, EmptySeq DEF Quit
  <2>5. asked' \in [screen : Nat, mic : Nat]
    BY <1>5 DEF Quit
  <2>6. TypeOK'
    BY <1>1, <1>5, <2>1, <2>2, <2>5 DEF Quit, BridgeOK, TypeOK, GuiOK, States
  <2>7. QED
    BY <1>2, <2>2, <2>3, <2>4, <2>6 DEF BridgeOK
<1>6. QED
  BY <1>3, <1>4, <1>5 DEF User

LEMMA TypesInductive == BridgeOK /\ [Next]_vars => BridgeOK'
<1> SUFFICES ASSUME BridgeOK, [Next]_vars PROVE BridgeOK'
  OBVIOUS
<1>1. CASE UNCHANGED vars
  BY <1>1 DEF vars, BridgeOK, TypeOK, GuiOK, PollsOK, ReportsOK
<1>2. CASE Next
  BY <1>2, PollOK, HandleOK, ToolbarOK, UserOK, CaptureOK DEF Next
<1>3. QED
  BY <1>1, <1>2

LEMMA BridgeAlwaysOK == Spec => []BridgeOK
<1>1. (Init => BridgeOK) /\ (BridgeOK /\ [Next]_vars => BridgeOK')
  BY InitOK, TypesInductive
<1>2. QED
  BY <1>1, PTL DEF Spec

\* Every value is one the program knows: app_state, the page, the slot, the
\* toolbar and the switches, whatever is clicked, polled and reported.
THEOREM TypesHold == Spec => []TypeOK
<1>1. BridgeOK => TypeOK
  BY DEF BridgeOK
<1>2. QED
  BY <1>1, BridgeAlwaysOK, PTL

-------------------------------------------------------------------------------
\* The exit.

\* Once the microphones are being restored, nothing else sets them.
Restoring ==
    "overrun" \notin mishaps /\ (gui.flag = "exit" \/ gui.at = "exited") =>
        /\ reports = <<>>
        /\ \A m \in Mics \ gui.todo : muted.mics[m] = FALSE

LEMMA RestoringInductive == BridgeOK /\ Restoring /\ [Next]_vars => Restoring'
<1> SUFFICES ASSUME BridgeOK, Restoring, [Next]_vars PROVE Restoring'
  OBVIOUS
<1> USE DEF Idle, None, Restoring
<1>1. CASE UNCHANGED vars
  BY <1>1 DEF vars
<1>2. ASSUME NEW p \in Polls, Poll(p) PROVE Restoring'
  BY <1>2 DEF Poll, PollRead, PollClear, PollAnswered, PageOpen
<1>3. ASSUME NEW i \in DOMAIN reports, Handle(i) PROVE Restoring'
  <2>1. reports # <<>> /\ gui' = gui /\ mishaps \subseteq mishaps' \cup {"missed"}
    BY <1>3 DEF Handle, ReportUpdates, ReportEmits, ReportMutes, Emit
  <2>2. QED
    BY <2>1
<1>4. CASE Capture \/ CaptureEnds \/ MicDone
  BY <1>4 DEF Capture, CaptureGranted, CaptureRefused, CaptureEnds, MicDone, PageOpen
<1>5. CASE ToolbarUp \/ AskPage \/ ShowOwn \/ Deliver \/ SetLoopback
  BY <1>5 DEF ToolbarUp, AskPage, ShowOwn, Deliver, SetLoopback, update_gui_state,
              BridgeOK, GuiOK
<1>6. CASE CleanupAudio
  BY <1>6 DEF CleanupAudio
<1>7. ASSUME NEW m \in Mics, SetMic(m) PROVE Restoring'
  <2>1. muted.mics \in [Mics -> BOOLEAN]
    BY DEF BridgeOK, TypeOK
  <2>2. muted'.mics = [muted.mics EXCEPT ![m] = (gui.at = "mute")]
    BY <1>7 DEF SetMic, BridgeOK, TypeOK
  <2>3. mishaps' = mishaps
    BY <1>7 DEF SetMic
  <2>4. CASE gui.flag # "exit"
    <3>1. gui'.flag # "exit" /\ gui'.at # "exited"
      BY <1>7, <2>4 DEF SetMic, BridgeOK, GuiOK
    <3>2. QED
      BY <3>1
  <2>5. CASE gui.flag = "exit"
    <3>1. gui.at = "unmute" /\ gui'.todo = gui.todo \ {m}
      BY <1>7, <2>5 DEF SetMic, BridgeOK, GuiOK
    <3>2. reports = <<>> => reports' = <<>>
      BY <1>7 DEF SetMic
    <3>3. QED
      BY <2>1, <2>2, <2>3, <2>5, <3>1, <3>2
  <2>6. QED
    BY <2>4, <2>5
<1>8. CASE User
  BY <1>8 DEF User, ClickShare, trigger_pause, Flip, Quit, Click, BridgeOK, GuiOK
<1>9. QED
  BY <1>1, <1>2, <1>3, <1>4, <1>5, <1>6, <1>7, <1>8 DEF Next, Toolbar

\* After the exit no microphone is left muted, unless a report was still being
\* handled when cleanup_audio began to restore them.
THEOREM MicrophonesRestored == Spec => []ExitUnmutes
<1>1. Init => Restoring
  BY DEF Init, Restoring, Idle, None
<1>2. BridgeOK /\ Restoring => ExitUnmutes
  BY DEF BridgeOK, GuiOK, Restoring, ExitUnmutes
<1>3. QED
  BY <1>1, <1>2, BridgeAlwaysOK, RestoringInductive, PTL DEF Spec

-------------------------------------------------------------------------------
\* What the toolbar shows.

Ending == gui.at \in {"leaving", "exited"} \/ gui.flag = "exit"

\* Every request but a pause ends in a report, and every report in a signal.
Telltales == Actions \ {"toggle_pause"}
NewsUnderway ==
    \/ gui.at = "flipped"
    \/ pending \in Telltales
    \/ \E p \in Polls : polls[p].action \in Telltales
    \/ asked.screen > 0 \/ asked.mic > 0
    \/ \E i \in DOMAIN reports : reports[i].at \in {"sent", "updated"}

\* The last of the queued states is what the toolbar will show in the end.
ShownLast ==
    IF queued = <<>>
    THEN shown.flags = app /\ shown.share = IF app.sharing THEN "Stop" ELSE "Share"
    ELSE queued[Len(queued)] = app

ShownInTheEnd ==
    mishaps \cap {"lost", "missed"} = {} => Ending \/ NewsUnderway \/ ShownLast

LEMMA ReportsDomain ==
    /\ BridgeOK => DOMAIN reports = 1 .. Len(reports) /\ Len(reports) \in Nat
    /\ BridgeOK' => DOMAIN reports' = 1 .. Len(reports') /\ Len(reports') \in Nat
BY LenProperties DEF BridgeOK, ReportsOK

\* A report that is sent is news.
LEMMA SaidIsNews ==
    ASSUME BridgeOK, BridgeOK', NEW v, Says(v)
    PROVE  NewsUnderway'
<1>1. DOMAIN reports' = 1 .. Len(reports') /\ Len(reports') \in Nat /\ Len(reports) \in Nat
  BY ReportsDomain
<1>2. Len(reports') \in DOMAIN reports' /\ reports'[Len(reports')].at = "sent"
  BY <1>1 DEF Says, Added
<1>3. QED
  BY <1>2 DEF NewsUnderway

\* What comes of a request: a report, a wait for the browser, or nothing.
LEMMA ObeySays ==
    ASSUME BridgeOK, BridgeOK', NEW a, Obey(a)
    PROVE  \/ \E v : Says(v)
           \/ /\ UNCHANGED reports
              /\ \/ asked' = [asked EXCEPT !.screen = @ + 1]
                 \/ asked' = [asked EXCEPT !.mic = @ + 1]
                 \/ a = "toggle_pause" /\ UNCHANGED asked
<1>1. page' \in States
  BY DEF BridgeOK, TypeOK, States
<1>2. CASE Stop
  BY <1>2, Stopping
<1>3. CASE \E D \in {Flags, {"micMuted"}, {"soundMuted"}} : reports' = Report(Told(D))
  BY <1>1, <1>3, Telling
<1>4. QED
  BY <1>2, <1>3 DEF Obey

LEMMA PollShows ==
    ASSUME BridgeOK, BridgeOK', ShownInTheEnd, NEW p \in Polls, Poll(p)
    PROVE  ShownInTheEnd'
<1> USE DEF Telltales, None
<1>1. /\ UNCHANGED <<app, gui, shown, queued>> /\ mishaps \subseteq mishaps'
      /\ polls \in [Polls -> PollStates] /\ asked \in [screen : Nat, mic : Nat]
  BY DEF Poll, PollRead, PollClear, PollAnswered, BridgeOK, TypeOK, PollsOK
<1> SUFFICES ASSUME mishaps' \cap {"lost", "missed"} = {}, NewsUnderway PROVE NewsUnderway'
  BY <1>1 DEF ShownInTheEnd, Ending, ShownLast
<1>2. CASE PollRead(p)
  <2>1. \A q \in Polls : polls[q].action \in Telltales => polls'[q] = polls[q]
    BY <1>1, <1>2 DEF PollRead, BridgeOK, PollsOK, Actions
  <2>2. QED
    BY <1>2, <2>1 DEF PollRead, NewsUnderway
<1>3. CASE PollClear(p)
  <2>1. UNCHANGED <<gui, asked, reports>> /\ pending' = None
    BY <1>3 DEF PollClear
  <2>2. \A q \in Polls : polls'[q].action = polls[q].action
    BY <1>1, <1>3 DEF PollClear, PollStates, NoPoll
  <2>3. pending \in {None, polls[p].action}
    BY <1>3 DEF PollClear
  <2>4. QED
    BY <2>1, <2>2, <2>3 DEF NewsUnderway, Actions
<1>4. CASE PollAnswered(p)
  <2>1. UNCHANGED <<gui, pending>> /\ Obey(polls[p].action)
    BY <1>4 DEF PollAnswered
  <2>2. CASE \E v : Says(v)
    BY <2>2, SaidIsNews
  <2>3. CASE asked' = [asked EXCEPT !.screen = @ + 1] \/ asked' = [asked EXCEPT !.mic = @ + 1]
    BY <1>1, <2>3 DEF NewsUnderway
  <2>4. CASE polls[p].action = "toggle_pause" /\ UNCHANGED <<reports, asked>>
    <3>1. \A q \in Polls : polls[q].action \in Telltales => polls'[q] = polls[q]
      BY <1>1, <1>4, <2>4 DEF PollAnswered
    <3>2. QED
      BY <2>1, <2>4, <3>1 DEF NewsUnderway
  <2>5. \/ \E v : Says(v)
        \/ asked' = [asked EXCEPT !.screen = @ + 1] \/ asked' = [asked EXCEPT !.mic = @ + 1]
        \/ polls[p].action = "toggle_pause" /\ UNCHANGED <<reports, asked>>
    BY <2>1, ObeySays
  <2>6. QED
    BY <2>2, <2>3, <2>4, <2>5
<1>5. QED
  BY <1>2, <1>3, <1>4 DEF Poll

\* While one report is handled, the others stay as they are.
LEMMA OthersStay ==
    ASSUME BridgeOK, BridgeOK', NEW i \in DOMAIN reports, NEW m, ReportMutes(i, m),
           NEW k \in DOMAIN reports, k # i
    PROVE  \E j \in DOMAIN reports' : reports'[j] = reports[k]
<1>1. CASE reports' = RemoveAt(reports, i)
  <2>1. Removed(reports, reports', i)
    BY <1>1, Removing, ReportsDomain DEF BridgeOK, ReportsOK
  <2>2. CASE k < i
    <3>1. k \in DOMAIN reports' /\ reports'[k] = reports[k]
      BY <2>1, <2>2, ReportsDomain DEF Removed
    <3>2. QED
      BY <3>1
  <2>3. CASE ~(k < i)
    <3>1. k - 1 \in DOMAIN reports' /\ ~(k - 1 < i) /\ (k - 1) + 1 = k
      BY <2>1, <2>3, ReportsDomain DEF Removed
    <3>2. reports'[k - 1] = reports[k]
      BY <3>1, <2>1, ReportsDomain DEF Removed
    <3>3. QED
      BY <3>1, <3>2
  <2>4. QED
    BY <2>2, <2>3
<1>2. CASE reports' # RemoveAt(reports, i)
  BY <1>2 DEF ReportMutes
<1>3. QED
  BY <1>1, <1>2

LEMMA HandleShows ==
    ASSUME BridgeOK, BridgeOK', ShownInTheEnd, NEW i \in DOMAIN reports, Handle(i)
    PROVE  ShownInTheEnd'
<1>1. UNCHANGED <<gui, shown, polls, pending, asked>>
  BY DEF Handle, ReportUpdates, ReportEmits, ReportMutes
<1>2. CASE ReportUpdates(i)
  <2>1. i \in DOMAIN reports' /\ reports'[i].at = "updated"
    BY <1>2 DEF ReportUpdates, BridgeOK, ReportsOK, Rep
  <2>2. QED
    BY <2>1 DEF ShownInTheEnd, NewsUnderway
<1>3. CASE ReportEmits(i)
  <2>1. CASE gui.at = "none"
    BY <1>3, <2>1 DEF ReportEmits, Emit, ShownInTheEnd
  <2>2. CASE gui.at # "none"
    <3>1. queued' = Append(queued, app) /\ app' = app
      BY <1>3, <2>2 DEF ReportEmits, Emit
    <3>2. queued' # <<>> /\ queued'[Len(queued')] = app
      BY <3>1, AppendProperties DEF BridgeOK, TypeOK, States
    <3>3. QED
      BY <3>1, <3>2 DEF ShownInTheEnd, ShownLast
  <2>3. QED
    BY <2>1, <2>2
<1>4. ASSUME NEW m \in Mics, ReportMutes(i, m)
      PROVE  ShownInTheEnd'
  <2>1. UNCHANGED <<app, queued, mishaps>> /\ reports[i].at = "muting"
    BY <1>4 DEF ReportMutes
  <2>2. \A k \in DOMAIN reports : k # i =>
           \E j \in DOMAIN reports' : reports'[j].at = reports[k].at
    BY <1>4, OthersStay
  <2>3. NewsUnderway => NewsUnderway'
    BY <1>1, <2>1, <2>2 DEF NewsUnderway
  <2>4. QED
    BY <1>1, <2>1, <2>3 DEF ShownInTheEnd, Ending, ShownLast
<1>5. QED
  BY <1>2, <1>3, <1>4 DEF Handle

LEMMA CaptureSays ==
    ASSUME BridgeOK, BridgeOK', Capture \/ CaptureEnds \/ MicDone
    PROVE  \E v : Says(v)
<1>1. page' \in States
  BY DEF BridgeOK, TypeOK, States
<1>2. CASE CaptureGranted
  BY <1>1, <1>2, Telling DEF CaptureGranted
<1>3. CASE CaptureRefused
  BY <1>3, ValuesAre, Saying DEF CaptureRefused, BridgeOK
<1>4. CASE CaptureEnds
  BY <1>4, Stopping DEF CaptureEnds
<1>5. CASE MicDone
  <2>1. reports' = Report([f \in {"micMuted"} |-> page[f]])
    BY <1>5 DEF MicDone, Report
  <2>2. reports' = Report(Told({"micMuted"}))
    BY <1>5, <2>1 DEF MicDone, Told
  <2>3. QED
    BY <1>1, <2>2, Telling
<1>6. QED
  BY <1>2, <1>3, <1>4, <1>5 DEF Capture

LEMMA CaptureShows ==
    ASSUME BridgeOK, BridgeOK', ShownInTheEnd, Capture \/ CaptureEnds \/ MicDone
    PROVE  ShownInTheEnd'
BY CaptureSays, SaidIsNews DEF ShownInTheEnd

LEMMA ToolbarShows ==
    ASSUME BridgeOK, BridgeOK', ShownInTheEnd, Toolbar
    PROVE  ShownInTheEnd'
<1> USE DEF Telltales, None, Idle
<1>1. UNCHANGED <<app, page, asked, polls>> /\ mishaps \subseteq mishaps'
  BY DEF Toolbar, ToolbarUp, AskPage, set_pending_action, ShowOwn, Deliver, update_gui_state,
         SetLoopback, CleanupAudio, SetMic
<1>2. CASE AskPage
  BY <1>2 DEF AskPage, set_pending_action, ToggleOf, ShownInTheEnd, NewsUnderway, Actions,
              BridgeOK, GuiOK, Mutes
<1>3. CASE ToolbarUp
  BY <1>1, <1>3 DEF ToolbarUp, ShownInTheEnd, NewsUnderway, Ending, ShownLast, BridgeOK, GuiOK
<1>4. CASE ShowOwn
  BY <1>1, <1>4 DEF ShowOwn, update_gui_state, ShownInTheEnd, NewsUnderway, Ending, ShownLast,
                    BridgeOK, GuiOK, Mutes
<1>5. CASE Deliver
  <2>1. /\ Head(queued) = queued[1] /\ queued' = Tail(queued) /\ queued # <<>>
        /\ Len(queued) > 0 /\ Len(Tail(queued)) = Len(queued) - 1
        /\ Len(queued) = 1 => Tail(queued) = <<>>
        /\ Len(queued) # 1 => /\ Tail(queued) # <<>>
                              /\ Tail(queued)[Len(Tail(queued))] = queued[Len(queued)]
    BY <1>5, Taking DEF Deliver, BridgeOK
  <2>2. PICK state \in {Head(queued), app} : update_gui_state(state, None, FALSE)
    BY <1>5 DEF Deliver
  <2>3. ShownLast => ShownLast'
    <3>1. CASE Len(queued) = 1
      BY <1>1, <2>1, <2>2, <3>1 DEF ShownLast, update_gui_state
    <3>2. CASE Len(queued) # 1
      BY <1>1, <2>1, <3>2 DEF ShownLast
    <3>3. QED
      BY <3>1, <3>2
  <2>4. gui.at = "idle" /\ UNCHANGED <<pending, reports>>
    BY <1>5 DEF Deliver
  <2>5. NewsUnderway => NewsUnderway'
    BY <1>1, <2>4 DEF NewsUnderway
  <2>6. ~Ending
    BY <2>4 DEF Ending, BridgeOK, GuiOK
  <2>7. QED
    BY <1>1, <2>3, <2>5, <2>6 DEF ShownInTheEnd
<1>6. CASE SetLoopback
  BY <1>1, <1>6 DEF SetLoopback, ShownInTheEnd, NewsUnderway, Ending, ShownLast, BridgeOK, GuiOK
<1>7. CASE CleanupAudio
  BY <1>7 DEF CleanupAudio, ShownInTheEnd, Ending
<1>8. ASSUME NEW m \in Mics, SetMic(m) PROVE ShownInTheEnd'
  <2>1. CASE gui.flag = "exit"
    BY <1>8, <2>1 DEF SetMic, ShownInTheEnd, Ending
  <2>2. CASE gui.flag # "exit"
    <3>1. UNCHANGED <<pending, reports, shown, queued>> /\ ~Ending /\ gui.at # "flipped"
      BY <1>8, <2>2 DEF SetMic, Ending
    <3>2. QED
      BY <1>1, <3>1 DEF ShownInTheEnd, NewsUnderway, ShownLast
  <2>3. QED
    BY <2>1, <2>2
<1>9. QED
  BY <1>2, <1>3, <1>4, <1>5, <1>6, <1>7, <1>8 DEF Toolbar

LEMMA UserShows ==
    ASSUME BridgeOK, BridgeOK', ShownInTheEnd, User
    PROVE  ShownInTheEnd'
<1> USE DEF Telltales, None, Idle
<1>1. CASE ClickShare
  <2>1. pending' \in {"start_share", "stop_share"}
    BY <1>1 DEF ClickShare
  <2>2. QED
    BY <2>1 DEF ShownInTheEnd, NewsUnderway, Actions
<1>2. CASE trigger_pause
  <2>1. CASE pending = None
    BY <1>2, <2>1 DEF trigger_pause, ShownInTheEnd, NewsUnderway, Ending, ShownLast, Actions
  <2>2. CASE pending # None
    BY <1>2, <2>2 DEF trigger_pause, ShownInTheEnd, Lost
  <2>3. QED
    BY <2>1, <2>2
<1>3. ASSUME NEW f, Flip(f) PROVE ShownInTheEnd'
  BY <1>3 DEF Flip, ShownInTheEnd, NewsUnderway
<1>4. CASE Quit
  BY <1>4 DEF Quit, ShownInTheEnd, Ending
<1>5. QED
  BY <1>1, <1>2, <1>3, <1>4 DEF User

LEMMA ShownInductive == BridgeOK /\ BridgeOK' /\ ShownInTheEnd /\ [Next]_vars => ShownInTheEnd'
<1>1. CASE UNCHANGED vars
  BY <1>1 DEF vars, ShownInTheEnd, NewsUnderway, Ending, ShownLast
<1>2. QED
  BY <1>1, PollShows, HandleShows, ToolbarShows, UserShows, CaptureShows DEF Next

\* Once everything has arrived the toolbar shows app_state, and its button is not
\* stuck at "Starting...": every click but a pause is followed by a report and every
\* report by a signal, so that a state shown too early is always corrected.
THEOREM ToolbarShowsTheTruth == Spec => []ToolbarIsTrue
<1>1. Init => ShownInTheEnd
  <2>1. NoFlags.sharing = FALSE
    BY DEF NoFlags, Flags
  <2>2. QED
    BY <2>1 DEF Init, ShownInTheEnd, ShownLast
<1>2. BridgeOK /\ ShownInTheEnd => ToolbarIsTrue
  <2> SUFFICES ASSUME BridgeOK, ShownInTheEnd, Settled, mishaps \cap {"lost", "missed"} = {}
               PROVE  /\ shown.flags = app
                      /\ shown.share = IF app.sharing THEN "Stop" ELSE "Share"
    BY DEF ToolbarIsTrue
  <2>1. ~Ending
    BY DEF Settled, Ending, BridgeOK, GuiOK, None
  <2>2. ~NewsUnderway
    <3>1. DOMAIN reports = {}
      BY DEF Settled
    <3>2. QED
      BY <3>1 DEF Settled, NewsUnderway, Telltales, Actions, None
  <2>3. QED
    BY <2>1, <2>2 DEF ShownInTheEnd, ShownLast, Settled
<1>3. QED
  BY <1>1, <1>2, BridgeAlwaysOK, TypesInductive, ShownInductive, PTL DEF Spec

-------------------------------------------------------------------------------
\* What app_state knows of the page.

\* The page will tell its value of flag f, because it has been asked to change it.
Requested(a) == pending = a \/ \E p \in Polls : polls[p].action = a
Owed(f) ==
    \/ gui.at = "flipped" /\ gui.flag = f
    \/ f = "soundMuted" /\ Requested("toggle_sound")
    \/ f = "micMuted" /\ (Requested("toggle_mic") \/ asked.mic > 0)

\* The last report under way that tells f, or app_state if there is none, is right.
Speaks(i, f) == reports[i].at = "sent" /\ f \in DOMAIN reports[i].values
LastWord(f) ==
    /\ \A i \in DOMAIN reports :
          Speaks(i, f) /\ (\A j \in DOMAIN reports : j > i => ~Speaks(j, f)) =>
             reports[i].values[f] = page[f]
    /\ (\A i \in DOMAIN reports : ~Speaks(i, f)) => app[f] = page[f]

\* Reports that have been taken up were sent before those that have not.
TakenInOrder ==
    \A i, j \in DOMAIN reports :
        i < j /\ reports[i].at = "sent" => reports[j].at = "sent"

PageTold ==
    /\ page.paused => page.sharing
    /\ "reordered" \notin mishaps => TakenInOrder
    /\ mishaps \cap {"lost", "reordered", "refused"} = {} =>
          Ending \/ \A f \in Flags : Owed(f) \/ LastWord(f)

LEMMA SaidKeeps ==
    ASSUME BridgeOK, BridgeOK', NEW v, Says(v), app' = app, NEW f,
           IF f \in DOMAIN v THEN v[f] = page'[f] ELSE page'[f] = page[f] /\ LastWord(f)
    PROVE  LastWord(f)'
<1>1. PICK n \in Nat : /\ DOMAIN reports = 1 .. n /\ DOMAIN reports' = 1 .. n + 1
                       /\ \A k \in 1 .. n : reports'[k] = reports[k]
                       /\ reports'[n + 1] = [values |-> v, at |-> "sent", todo |-> {}]
  BY ReportsDomain DEF Says, Added
<1>2. CASE f \in DOMAIN v
  <2>1. Speaks(n + 1, f)' /\ reports'[n + 1].values[f] = page'[f]
    BY <1>1, <1>2 DEF Speaks
  <2>2. QED
    BY <1>1, <2>1 DEF LastWord
<1>3. CASE f \notin DOMAIN v
  <2>1. ~Speaks(n + 1, f)' /\ \A k \in 1 .. n : Speaks(k, f)' <=> Speaks(k, f)
    BY <1>1, <1>3 DEF Speaks
  <2>2. QED
    BY <1>1, <1>3, <2>1 DEF LastWord
<1>4. QED
  BY <1>2, <1>3

LEMMA SaidInOrder ==
    ASSUME BridgeOK, BridgeOK', NEW v, Says(v), TakenInOrder
    PROVE  TakenInOrder'
<1>1. PICK n \in Nat : /\ DOMAIN reports = 1 .. n /\ DOMAIN reports' = 1 .. n + 1
                       /\ \A k \in 1 .. n : reports'[k] = reports[k]
                       /\ reports'[n + 1] = [values |-> v, at |-> "sent", todo |-> {}]
  BY ReportsDomain DEF Says, Added
<1>2. reports'[n + 1].at = "sent"
  BY <1>1
<1>3. QED
  BY <1>1, <1>2 DEF TakenInOrder

\* A report that has been taken up goes on, or is through.
LEMMA HandledKeeps ==
    ASSUME BridgeOK, BridgeOK', NEW i \in DOMAIN reports, reports[i].at # "sent",
           UNCHANGED <<app, page>>,
           \/ reports' = RemoveAt(reports, i)
           \/ \E e \in Rep : e.at # "sent" /\ reports' = [reports EXCEPT ![i] = e]
    PROVE  /\ TakenInOrder => TakenInOrder'
           /\ \A f \in Flags : LastWord(f) => LastWord(f)'
<1>1. PICK n \in Nat : DOMAIN reports = 1 .. n /\ Len(reports) = n /\ reports \in Seq(Rep)
                       /\ i \in 1 .. n
  BY ReportsDomain DEF BridgeOK, ReportsOK
<1>2. CASE reports' = RemoveAt(reports, i)
  <2>1. /\ DOMAIN reports' = 1 .. n - 1
        /\ \A k \in 1 .. n - 1 : k < i => k \in 1 .. n /\ reports'[k] = reports[k]
        /\ \A k \in 1 .. n - 1 : ~(k < i) => k + 1 \in 1 .. n /\ reports'[k] = reports[k + 1]
    <3>1. Removed(reports, reports', i) /\ DOMAIN reports' = 1 .. Len(reports')
      BY <1>1, <1>2, Removing, ReportsDomain
    <3>2. Len(reports') = n - 1
      BY <1>1, <3>1 DEF Removed
    <3>3. \A k \in 1 .. n - 1 : reports'[k] = reports[IF k < i THEN k ELSE k + 1]
      BY <3>1, <3>2 DEF Removed
    <3>4. QED
      BY <1>1, <3>1, <3>2, <3>3
  <2>2. /\ \A k \in 1 .. n : k < i => k \in 1 .. n - 1 /\ reports[k] = reports'[k]
        /\ \A k \in 1 .. n : k > i => /\ k - 1 \in 1 .. n - 1 /\ ~(k - 1 < i)
                                      /\ reports[k] = reports'[k - 1]
    <3>1. ASSUME NEW k \in 1 .. n, k < i PROVE k \in 1 .. n - 1 /\ reports[k] = reports'[k]
      BY <1>1, <2>1, <3>1
    <3>2. ASSUME NEW k \in 1 .. n, k > i
          PROVE  /\ k - 1 \in 1 .. n - 1 /\ ~(k - 1 < i)
                 /\ reports[k] = reports'[k - 1]
      <4>1. k - 1 \in 1 .. n - 1 /\ ~(k - 1 < i) /\ (k - 1) + 1 = k
        BY <1>1, <3>2
      <4>2. QED
        BY <2>1, <4>1
    <3>3. QED
      BY <3>1, <3>2
  <2>3. TakenInOrder => TakenInOrder'
    <3> SUFFICES ASSUME TakenInOrder, NEW k \in 1 .. n - 1, NEW l \in 1 .. n - 1,
                        k < l, reports'[k].at = "sent"
                 PROVE  reports'[l].at = "sent"
      BY <2>1 DEF TakenInOrder
    <3>1. CASE l < i
      BY <1>1, <2>1, <3>1 DEF TakenInOrder
    <3>2. CASE ~(l < i)
      <4>1. l + 1 \in 1 .. n /\ reports'[l] = reports[l + 1]
        BY <2>1, <3>2
      <4>2. \E a \in 1 .. n : a < l + 1 /\ reports'[k] = reports[a]
        BY <2>1
      <4>3. QED
        BY <1>1, <4>1, <4>2 DEF TakenInOrder
    <3>3. QED
      BY <3>1, <3>2
  <2>4. ASSUME NEW f \in Flags, LastWord(f) PROVE LastWord(f)'
    <3>1. ~Speaks(i, f)
      BY DEF Speaks
    <3>2. ASSUME \A k \in 1 .. n - 1 : ~Speaks(k, f)' PROVE app'[f] = page'[f]
      <4>1. ASSUME NEW k \in 1 .. n PROVE ~Speaks(k, f)
        <5>1. CASE k < i
          BY <2>2, <3>2, <5>1 DEF Speaks
        <5>2. CASE k > i
          BY <2>2, <3>2, <5>2 DEF Speaks
        <5>3. QED
          BY <1>1, <3>1, <5>1, <5>2
      <4>2. QED
        BY <1>1, <2>4, <4>1 DEF LastWord
    <3>3. ASSUME NEW k \in 1 .. n - 1, Speaks(k, f)',
                 \A l \in 1 .. n - 1 : l > k => ~Speaks(l, f)'
          PROVE  reports'[k].values[f] = page'[f]
      <4>1. PICK a \in 1 .. n : /\ reports'[k] = reports[a]
                                /\ a = IF k < i THEN k ELSE k + 1
        BY <2>1
      <4>2. Speaks(a, f)
        BY <3>3, <4>1 DEF Speaks
      <4>3. ASSUME NEW b \in 1 .. n, b > a PROVE ~Speaks(b, f)
        <5>1. CASE b < i
          <6>1. b \in 1 .. n - 1 /\ b > k /\ reports'[b] = reports[b]
            BY <1>1, <2>2, <4>1, <4>3, <5>1
          <6>2. QED
            BY <3>3, <6>1 DEF Speaks
        <5>2. CASE b > i
          <6>1. b - 1 \in 1 .. n - 1 /\ b - 1 > k /\ reports'[b - 1] = reports[b]
            <7>1. CASE k < i
              BY <1>1, <2>2, <4>1, <4>3, <5>2, <7>1
            <7>2. CASE ~(k < i)
              BY <1>1, <2>2, <4>1, <4>3, <5>2, <7>2
            <7>3. QED
              BY <7>1, <7>2
          <6>2. QED
            BY <3>3, <6>1 DEF Speaks
        <5>3. QED
          BY <1>1, <3>1, <5>1, <5>2
      <4>4. QED
        BY <1>1, <2>4, <4>1, <4>2, <4>3 DEF LastWord
    <3>4. QED
      BY <2>1, <3>2, <3>3 DEF LastWord
  <2>5. QED
    BY <2>3, <2>4
<1>3. CASE \E e \in Rep : e.at # "sent" /\ reports' = [reports EXCEPT ![i] = e]
  <2>1. /\ DOMAIN reports' = 1 .. n /\ reports'[i].at # "sent"
        /\ \A k \in 1 .. n : k # i => reports'[k] = reports[k]
    BY <1>1, <1>3, Changing, ReportsDomain DEF Changed
  <2>2. TakenInOrder => TakenInOrder'
    BY <1>1, <2>1 DEF TakenInOrder
  <2>3. ASSUME NEW f \in Flags PROVE \A k \in 1 .. n : Speaks(k, f)' <=> Speaks(k, f)
    BY <1>1, <2>1 DEF Speaks
  <2>4. ASSUME NEW f \in Flags, LastWord(f) PROVE LastWord(f)'
    <3>1. \A k \in 1 .. n : Speaks(k, f) => reports'[k] = reports[k]
      BY <2>1 DEF Speaks
    <3>2. QED
      BY <1>1, <2>1, <2>3, <2>4, <3>1 DEF LastWord
  <2>5. QED
    BY <2>2, <2>4
<1>4. QED
  BY <1>2, <1>3

\* Nothing is reported, and app_state and the page stay as they are.
LEMMA SilenceKeeps ==
    ASSUME UNCHANGED <<app, reports>>
    PROVE  /\ TakenInOrder => TakenInOrder'
           /\ \A f \in Flags : page'[f] = page[f] /\ LastWord(f) => LastWord(f)'
BY DEF TakenInOrder, LastWord, Speaks

LEMMA EndedTells ==
    /\ DOMAIN Ended = {"sharing", "paused"}
    /\ \A f \in DOMAIN Ended : Ended[f] = FALSE
BY DEF Ended

LEMMA FlagsAre == \A f : f \in Flags <=> f \in {"sharing", "paused", "micMuted", "soundMuted"}
BY DEF Flags

\* What the page obeys it tells, if it changes anything.
LEMMA ObeyTells ==
    ASSUME BridgeOK, BridgeOK', NEW a, Obey(a), app' = app,
           page.paused => page.sharing
    PROVE  /\ page'.paused => page'.sharing
           /\ TakenInOrder => TakenInOrder'
           /\ \A f \in Flags : LastWord(f) \/ (f = "micMuted" /\ a = "toggle_mic")
                                           \/ (f = "soundMuted" /\ a = "toggle_sound") =>
                 LastWord(f)' \/ (f = "micMuted" /\ asked'.mic > 0)
<1>1. page \in States /\ page' \in States /\ asked \in [screen : Nat, mic : Nat]
  BY DEF BridgeOK, TypeOK, States
<1>2. CASE a = "stop_share" /\ Stop
  <2>1. Says(Ended) /\ page' = [page EXCEPT !.sharing = FALSE, !.paused = FALSE]
    BY <1>2, Stopping DEF Stop
  <2>2. /\ page'["sharing"] = FALSE /\ page'["paused"] = FALSE
        /\ \A f \in Flags \ {"sharing", "paused"} : page'[f] = page[f]
    BY <1>1, <2>1 DEF States, Flags
  <2>3. \A f \in Flags : LastWord(f) => LastWord(f)'
    BY <2>1, <2>2, SaidKeeps, EndedTells
  <2>4. TakenInOrder => TakenInOrder'
    BY <2>1, SaidInOrder
  <2>5. QED
    BY <1>2, <2>2, <2>3, <2>4
<1>3. ASSUME NEW D \in {Flags, {"micMuted"}, {"soundMuted"}},
             reports' = Report(Told(D)),
             \A f \in Flags \ D : page'[f] = page[f]
      PROVE  /\ TakenInOrder => TakenInOrder'
             /\ \A f \in Flags : f \in D \/ LastWord(f) => LastWord(f)'
  <2> DEFINE v == [f \in D |-> page'[f]]
  <2>1. Says(v)
    BY <1>1, <1>3, Telling
  <2>2. DOMAIN v = D /\ \A f \in D : v[f] = page'[f]
    OBVIOUS
  <2> HIDE DEF v
  <2>3. QED
    BY <1>3, <2>1, <2>2, SaidKeeps, SaidInOrder
<1>4. CASE a = "start_share" /\ UNCHANGED <<page, reports>>
  BY <1>4, SilenceKeeps
<1>5. CASE a = "toggle_pause" /\ UNCHANGED <<page, reports>>
  BY <1>5, SilenceKeeps
<1>6. CASE /\ a = "toggle_pause" /\ page.sharing
           /\ page' = [page EXCEPT !.paused = ~@]
           /\ reports' = Report(Told(Flags))
  <2>1. page'.sharing
    BY <1>1, <1>6 DEF States, Flags
  <2>2. QED
    BY <1>3, <1>6, <2>1
<1>7. CASE /\ a = "toggle_mic"
           /\ page' = [page EXCEPT !.micMuted = ~@]
           /\ \/ asked' = [asked EXCEPT !.mic = @ + 1] /\ UNCHANGED reports
              \/ reports' = Report(Told({"micMuted"}))
  <2>1. \A f \in Flags \ {"micMuted"} : page'[f] = page[f]
    BY <1>1, <1>7 DEF States, Flags
  <2>2. page'.sharing = page.sharing /\ page'.paused = page.paused
    BY <2>1, FlagsAre
  <2>3. CASE asked' = [asked EXCEPT !.mic = @ + 1] /\ UNCHANGED reports
    <3>1. asked'.mic > 0
      BY <1>1, <2>3
    <3>2. QED
      BY <1>7, <2>1, <2>2, <2>3, <3>1, SilenceKeeps
  <2>4. CASE reports' = Report(Told({"micMuted"}))
    BY <1>3, <1>7, <2>1, <2>2, <2>4
  <2>5. QED
    BY <1>7, <2>3, <2>4
<1>8. CASE /\ a = "toggle_sound"
           /\ page' = [page EXCEPT !.soundMuted = ~@]
           /\ reports' = Report(Told({"soundMuted"}))
  <2>1. \A f \in Flags \ {"soundMuted"} : page'[f] = page[f]
    BY <1>1, <1>8 DEF States, Flags
  <2>2. page'.sharing = page.sharing /\ page'.paused = page.paused
    BY <2>1, FlagsAre
  <2>3. QED
    BY <1>3, <1>8, <2>1, <2>2
<1>9. QED
  BY <1>2, <1>4, <1>5, <1>6, <1>7, <1>8 DEF Obey

LEMMA PollTells ==
    ASSUME BridgeOK, BridgeOK', PageTold, NEW p \in Polls, Poll(p)
    PROVE  PageTold'
<1> USE DEF None
<1>1. /\ UNCHANGED <<app, gui>> /\ mishaps \subseteq mishaps'
      /\ polls \in [Polls -> PollStates] /\ asked \in [screen : Nat, mic : Nat]
      /\ (Ending <=> Ending')
  BY DEF Poll, PollRead, PollClear, PollAnswered, BridgeOK, TypeOK, PollsOK, Ending
<1>2. CASE PollRead(p)
  <2>1. UNCHANGED <<page, reports, asked, pending>>
    BY <1>2 DEF PollRead
  <2>2. \A a \in Actions : Requested(a) => Requested(a)'
    <3>1. \A q \in Polls : polls[q].action \in Actions => polls'[q] = polls[q]
      BY <1>1, <1>2 DEF PollRead, BridgeOK, PollsOK, Actions
    <3>2. QED
      BY <2>1, <3>1 DEF Requested
  <2>3. \A f \in Flags : Owed(f) => Owed(f)'
    BY <1>1, <2>1, <2>2 DEF Owed, Actions
  <2>4. QED
    BY <1>1, <2>1, <2>3, SilenceKeeps DEF PageTold
<1>3. CASE PollClear(p)
  <2>1. UNCHANGED <<page, reports, asked>> /\ pending' = None
    BY <1>3 DEF PollClear
  <2>2. ASSUME "lost" \notin mishaps'
        PROVE  \A a \in Actions : Requested(a) => Requested(a)'
    <3>1. \A q \in Polls : polls'[q].action = polls[q].action
      BY <1>1, <1>3 DEF PollClear, PollStates, NoPoll
    <3>2. pending \in {None, polls[p].action}
      BY <1>3, <2>2 DEF PollClear
    <3>3. QED
      BY <3>1, <3>2 DEF Requested, Actions
  <2>3. "lost" \notin mishaps' => \A f \in Flags : Owed(f) => Owed(f)'
    BY <1>1, <2>1, <2>2 DEF Owed, Actions
  <2>4. QED
    BY <1>1, <2>1, <2>3, SilenceKeeps DEF PageTold
<1>4. CASE PollAnswered(p)
  <2>1. UNCHANGED <<pending, mishaps>> /\ Obey(polls[p].action)
    BY <1>4 DEF PollAnswered
  <2>2. \A a \in Actions : Requested(a) => Requested(a)' \/ polls[p].action = a
    BY <1>1, <1>4, <2>1 DEF PollAnswered, Requested
  <2>3. asked.mic > 0 => asked'.mic > 0
    <3>1. asked' \in {asked, [asked EXCEPT !.screen = @ + 1], [asked EXCEPT !.mic = @ + 1]}
      BY <2>1 DEF Obey
    <3>2. QED
      BY <1>1, <3>1
  <2>4. \A f \in Flags :
           Owed(f) => \/ Owed(f)'
                      \/ f = "micMuted" /\ polls[p].action = "toggle_mic"
                      \/ f = "soundMuted" /\ polls[p].action = "toggle_sound"
    BY <1>1, <2>2, <2>3 DEF Owed, Actions
  <2>5. /\ page'.paused => page'.sharing
        /\ TakenInOrder => TakenInOrder'
        /\ \A f \in Flags :
              \/ LastWord(f)
              \/ f = "micMuted" /\ polls[p].action = "toggle_mic"
              \/ f = "soundMuted" /\ polls[p].action = "toggle_sound"
              => LastWord(f)' \/ (f = "micMuted" /\ asked'.mic > 0)
    <3> DEFINE a == polls[p].action
    <3> HIDE DEF a
    <3>1. Obey(a) /\ app' = app /\ (page.paused => page.sharing)
      BY <1>1, <2>1 DEF a, PageTold
    <3>2. /\ page'.paused => page'.sharing
          /\ TakenInOrder => TakenInOrder'
          /\ \A f \in Flags : LastWord(f) \/ (f = "micMuted" /\ a = "toggle_mic")
                                           \/ (f = "soundMuted" /\ a = "toggle_sound") =>
                 LastWord(f)' \/ (f = "micMuted" /\ asked'.mic > 0)
      BY <3>1, ObeyTells
    <3>3. QED
      BY <3>2 DEF a
  <2>6. (\A f \in Flags : Owed(f) \/ LastWord(f)) => \A f \in Flags : Owed(f)' \/ LastWord(f)'
    <3>1. \A f \in Flags : f = "micMuted" /\ asked'.mic > 0 => Owed(f)'
      BY DEF Owed
    <3>2. QED
      BY <2>4, <2>5, <3>1
  <2>7. QED
    BY <1>1, <2>1, <2>5, <2>6 DEF PageTold
<1>5. QED
  BY <1>2, <1>3, <1>4 DEF Poll

\* A report is taken up: app_state has its values.
LEMMA UpdateTells ==
    ASSUME BridgeOK, BridgeOK', NEW i \in DOMAIN reports, ReportUpdates(i),
           TakenInOrder, "reordered" \notin mishaps'
    PROVE  TakenInOrder' /\ \A f \in Flags : LastWord(f) => LastWord(f)'
<1>1. PICK n \in Nat : /\ DOMAIN reports = 1 .. n /\ DOMAIN reports' = 1 .. n
                       /\ Len(reports) = n /\ reports \in Seq(Rep) /\ i \in 1 .. n
  BY ReportsDomain DEF ReportUpdates, BridgeOK, ReportsOK
<1>2. /\ \A k \in 1 .. n : k # i => reports'[k] = reports[k]
      /\ reports'[i].at = "updated"
  BY <1>1 DEF ReportUpdates, Rep
<1>3. \A k \in 1 .. n : k < i => reports[k].at # "sent"
  BY <1>1 DEF ReportUpdates
<1>4. TakenInOrder'
  BY <1>1, <1>2, <1>3 DEF TakenInOrder
<1>5. ASSUME NEW f \in Flags, LastWord(f) PROVE LastWord(f)'
  <2>1. \A k \in 1 .. n : Speaks(k, f)' <=> Speaks(k, f) /\ k # i
    BY <1>1, <1>2 DEF Speaks
  <2>2. page' = page /\ app'[f] = IF f \in DOMAIN reports[i].values
                                  THEN reports[i].values[f] ELSE app[f]
    BY DEF ReportUpdates, update_app_state
  <2>3. reports[i].at = "sent"
    BY DEF ReportUpdates
  <2>4. ASSUME NEW k \in 1 .. n, Speaks(k, f)',
               \A l \in 1 .. n : l > k => ~Speaks(l, f)'
        PROVE  reports'[k].values[f] = page'[f]
    <3>1. Speaks(k, f) /\ k > i
      BY <1>1, <1>3, <2>1, <2>4 DEF Speaks
    <3>2. \A l \in 1 .. n : l > k => ~Speaks(l, f)
      BY <1>1, <2>1, <2>4, <3>1
    <3>3. QED
      BY <1>1, <1>2, <1>5, <2>2, <3>1, <3>2 DEF LastWord
  <2>5. ASSUME \A k \in 1 .. n : ~Speaks(k, f)' PROVE app'[f] = page'[f]
    <3>1. \A k \in 1 .. n : k # i => ~Speaks(k, f)
      BY <2>1, <2>5
    <3>2. CASE f \in DOMAIN reports[i].values
      <4>1. Speaks(i, f) /\ \A l \in 1 .. n : l > i => ~Speaks(l, f)
        BY <1>1, <2>3, <3>1, <3>2 DEF Speaks
      <4>2. QED
        BY <1>1, <1>5, <2>2, <3>2, <4>1 DEF LastWord
    <3>3. CASE f \notin DOMAIN reports[i].values
      BY <1>1, <1>5, <2>2, <3>1, <3>3 DEF LastWord, Speaks
    <3>4. QED
      BY <3>2, <3>3
  <2>6. QED
    BY <1>1, <2>4, <2>5 DEF LastWord
<1>6. QED
  BY <1>4, <1>5

LEMMA HandleTells ==
    ASSUME BridgeOK, BridgeOK', PageTold, NEW i \in DOMAIN reports, Handle(i)
    PROVE  PageTold'
<1>1. UNCHANGED <<gui, polls, pending, asked, page>> /\ mishaps \ {"missed"} \subseteq mishaps'
  BY DEF Handle, ReportUpdates, ReportEmits, Emit, ReportMutes
<1>2. (Ending <=> Ending') /\ \A f \in Flags : Owed(f) <=> Owed(f)'
  BY <1>1 DEF Ending, Owed, Requested
<1>3. CASE ReportUpdates(i)
  BY <1>1, <1>2, <1>3, UpdateTells DEF PageTold
<1>4. CASE ReportEmits(i) \/ \E m \in Mics : ReportMutes(i, m)
  <2>1. reports[i].at # "sent" /\ app' = app /\ reports \in Seq(Rep) /\ reports[i] \in Rep
    BY <1>4 DEF ReportEmits, ReportMutes, BridgeOK, ReportsOK
  <2>2. \/ reports' = RemoveAt(reports, i)
        \/ \E e \in Rep : e.at # "sent" /\ reports' = [reports EXCEPT ![i] = e]
    <3> DEFINE e == [reports[i] EXCEPT !.at = "muting", !.todo = Mics]
               e2(m) == [reports[i] EXCEPT !.todo = @ \ {m}]
    <3>1. e \in Rep /\ e.at # "sent" /\ \A m \in Mics : e2(m) \in Rep /\ e2(m).at # "sent"
      BY <2>1 DEF Rep
    <3>2. [reports EXCEPT ![i].at = "muting", ![i].todo = Mics] = [reports EXCEPT ![i] = e]
      BY <2>1 DEF Rep
    <3>3. QED
      BY <1>4, <3>1, <3>2 DEF ReportEmits, ReportMutes
  <2>3. QED
    BY <1>1, <1>2, <2>1, <2>2, HandledKeeps DEF PageTold
<1>5. QED
  BY <1>3, <1>4 DEF Handle

LEMMA CaptureTells ==
    ASSUME BridgeOK, BridgeOK', PageTold, Capture \/ CaptureEnds \/ MicDone
    PROVE  PageTold'
<1>1. /\ UNCHANGED <<app, gui, pending, polls>> /\ mishaps \subseteq mishaps'
      /\ asked \in [screen : Nat, mic : Nat]
      /\ page \in States /\ page' \in States
  BY DEF Capture, CaptureGranted, CaptureRefused, CaptureEnds, MicDone, BridgeOK, TypeOK, States
<1>2. (Ending <=> Ending') /\ \A a \in Actions : Requested(a) <=> Requested(a)'
  BY <1>1 DEF Ending, Requested
<1>3. ASSUME NEW v, Says(v), \A f \in DOMAIN v : v[f] = page'[f],
             \A f \in Flags \ DOMAIN v : page'[f] = page[f],
             \A f \in Flags \ DOMAIN v : Owed(f) => Owed(f)',
             page'.paused => page'.sharing
      PROVE  PageTold'
  <2>1. \A f \in Flags : f \in DOMAIN v \/ LastWord(f) => LastWord(f)'
    BY <1>1, <1>3, SaidKeeps
  <2>2. TakenInOrder => TakenInOrder'
    BY <1>3, SaidInOrder
  <2>3. QED
    BY <1>1, <1>2, <1>3, <2>1, <2>2 DEF PageTold
<1>4. asked'.mic = asked.mic => \A f \in Flags : Owed(f) => Owed(f)'
  BY <1>1, <1>2 DEF Owed, Actions
<1>5. CASE CaptureGranted
  <2> DEFINE v == [f \in Flags |-> page'[f]]
  <2>1. Says(v)
    BY <1>1, <1>5, Telling DEF CaptureGranted
  <2>2. page'.sharing
    BY <1>1, <1>5 DEF CaptureGranted, States, Flags
  <2>3. DOMAIN v = Flags /\ \A f \in Flags : v[f] = page'[f]
    OBVIOUS
  <2> HIDE DEF v
  <2>4. QED
    BY <1>3, <2>1, <2>2, <2>3
<1>6. CASE CaptureRefused
  <2>1. Says(Ended) /\ page' = page /\ asked'.mic = asked.mic
    BY <1>1, <1>6, ValuesAre, Saying DEF CaptureRefused, BridgeOK
  <2>2. CASE page.sharing
    <3>1. "refused" \in mishaps'
      BY <1>6, <2>2 DEF CaptureRefused
    <3>2. QED
      BY <1>1, <2>1, <3>1, SaidInOrder DEF PageTold
  <2>3. CASE ~page.sharing
    <3>1. page'["sharing"] = FALSE /\ page'["paused"] = FALSE
      BY <1>1, <2>1, <2>3 DEF PageTold, States, Flags
    <3>2. QED
      BY <1>3, <1>4, <2>1, <3>1, EndedTells
  <2>4. QED
    BY <2>2, <2>3
<1>7. CASE CaptureEnds
  <2>1. Says(Ended) /\ page' = [page EXCEPT !.sharing = FALSE, !.paused = FALSE] /\ asked' = asked
    BY <1>7, Stopping DEF CaptureEnds, Stop
  <2>2. /\ page'["sharing"] = FALSE /\ page'["paused"] = FALSE
        /\ \A f \in Flags \ {"sharing", "paused"} : page'[f] = page[f]
    BY <1>1, <2>1 DEF States, Flags
  <2>3. QED
    BY <1>3, <1>4, <2>1, <2>2, EndedTells
<1>8. CASE MicDone
  <2> DEFINE v == [f \in {"micMuted"} |-> page'[f]]
  <2>1. reports' = Report([f \in {"micMuted"} |-> page[f]]) /\ page' = page
    BY <1>8 DEF MicDone, Report
  <2>2. reports' = Report(Told({"micMuted"}))
    BY <2>1 DEF Told
  <2>3. Says(v)
    BY <1>1, <2>2, Telling
  <2>4. DOMAIN v = {"micMuted"} /\ \A f \in DOMAIN v : v[f] = page'[f]
    OBVIOUS
  <2>5. \A f \in Flags \ {"micMuted"} : Owed(f) => Owed(f)'
    BY <1>1, <1>2 DEF Owed, Actions
  <2>6. page'.paused => page'.sharing
    BY <2>1 DEF PageTold
  <2> HIDE DEF v
  <2>7. QED
    BY <1>3, <2>1, <2>3, <2>4, <2>5, <2>6
<1>9. QED
  BY <1>5, <1>6, <1>7, <1>8 DEF Capture

LEMMA ToolbarTells ==
    ASSUME BridgeOK, BridgeOK', PageTold, Toolbar
    PROVE  PageTold'
<1> USE DEF None, Idle
<1>1. UNCHANGED <<app, page, asked, polls>> /\ mishaps \subseteq mishaps'
  BY DEF Toolbar, ToolbarUp, AskPage, set_pending_action, ShowOwn, Deliver, update_gui_state,
         SetLoopback, CleanupAudio, SetMic
<1>2. \/ UNCHANGED reports
      \/ reports' = <<>> /\ Ending /\ Ending'
  BY DEF Toolbar, ToolbarUp, AskPage, ShowOwn, Deliver, SetLoopback, CleanupAudio, SetMic, Ending
<1>3. CASE UNCHANGED reports
  <2>1. Ending => Ending'
    BY DEF Toolbar, ToolbarUp, AskPage, ShowOwn, Deliver, update_gui_state, SetLoopback,
           CleanupAudio, SetMic, Ending, BridgeOK, GuiOK, Mutes
  <2>2. CASE AskPage
    <3>1. \A a \in Actions : "lost" \notin mishaps' /\ Requested(a) => Requested(a)'
      BY <1>1, <2>2 DEF AskPage, set_pending_action, Lost, Requested, Actions
    <3>2. gui.flag \in Mutes /\ pending' = ToggleOf[gui.flag]
      BY <2>2 DEF AskPage, set_pending_action, BridgeOK, GuiOK
    <3>3. /\ gui.flag = "micMuted" => Requested("toggle_mic")'
          /\ gui.flag = "soundMuted" => Requested("toggle_sound")'
      BY <3>2 DEF Requested, ToggleOf
    <3>4. \A f \in Flags : "lost" \notin mishaps' /\ Owed(f) => Owed(f)'
      BY <1>1, <3>1, <3>2, <3>3 DEF Owed, Mutes, Actions
    <3>5. QED
      BY <1>1, <1>3, <2>1, <3>4, SilenceKeeps DEF PageTold
  <2>3. CASE ~AskPage
    <3>1. pending' = pending /\ (gui.at = "flipped" => gui' = gui)
      BY <2>3 DEF Toolbar, ToolbarUp, ShowOwn, Deliver, SetLoopback, CleanupAudio, SetMic
    <3>2. \A f \in Flags : Owed(f) => Owed(f)'
      BY <1>1, <3>1 DEF Owed, Requested
    <3>3. QED
      BY <1>1, <1>3, <2>1, <3>2, SilenceKeeps DEF PageTold
  <2>4. QED
    BY <2>2, <2>3
<1>4. CASE reports' = <<>> /\ Ending'
  <2>1. TakenInOrder'
    BY <1>4 DEF TakenInOrder
  <2>2. QED
    BY <1>1, <1>4, <2>1 DEF PageTold
<1>5. QED
  BY <1>2, <1>3, <1>4

LEMMA UserTells ==
    ASSUME BridgeOK, BridgeOK', PageTold, User
    PROVE  PageTold'
<1> USE DEF None, Idle
<1>1. UNCHANGED reports /\ mishaps \subseteq mishaps'
  BY DEF User, ClickShare, trigger_pause, Flip, Quit
<1>2. TakenInOrder => TakenInOrder'
  BY <1>1 DEF TakenInOrder
<1>3. CASE ClickShare \/ trigger_pause
  <2>1. UNCHANGED <<app, page, gui, asked, polls>>
    BY <1>3 DEF ClickShare, trigger_pause
  <2>2. pending = None \/ "lost" \in mishaps'
    BY <1>3 DEF ClickShare, trigger_pause, Lost
  <2>3. \A f \in Flags : "lost" \notin mishaps' /\ Owed(f) => Owed(f)'
    BY <2>1, <2>2 DEF Owed, Requested
  <2>4. QED
    BY <1>1, <2>1, <2>3, SilenceKeeps DEF PageTold, Ending
<1>4. ASSUME NEW f \in Mutes, Flip(f) PROVE PageTold'
  <2>1. /\ UNCHANGED <<page, asked, polls, pending>> /\ Owed(f)' /\ gui.at # "flipped"
        /\ \A g \in Flags : g # f => app'[g] = app[g]
    BY <1>4 DEF Flip, Click, Owed, BridgeOK, TypeOK
  <2>2. \A g \in Flags : Owed(g) => Owed(g)'
    BY <2>1 DEF Owed, Requested
  <2>3. \A g \in Flags : g # f /\ LastWord(g) => LastWord(g)'
    BY <1>1, <2>1 DEF LastWord, Speaks
  <2>4. ~Ending
    BY <1>4 DEF Flip, Click, Ending, BridgeOK, GuiOK
  <2>5. QED
    BY <1>1, <1>2, <2>1, <2>2, <2>3, <2>4 DEF PageTold
<1>5. CASE Quit
  <2>1. Ending' /\ page'.paused = FALSE
    BY <1>5 DEF Quit, Ending, NoFlags, Flags
  <2>2. QED
    BY <1>1, <1>2, <2>1 DEF PageTold
<1>6. QED
  BY <1>3, <1>4, <1>5 DEF User, Mutes

LEMMA ToldInductive == BridgeOK /\ BridgeOK' /\ PageTold /\ [Next]_vars => PageTold'
<1>1. CASE UNCHANGED vars
  <2>1. (Ending <=> Ending') /\ \A f \in Flags : Owed(f) <=> Owed(f)'
    BY <1>1 DEF vars, Ending, Owed, Requested
  <2>2. QED
    BY <1>1, <2>1, SilenceKeeps DEF vars, PageTold
<1>2. QED
  BY <1>1, PollTells, HandleTells, ToolbarTells, UserTells, CaptureTells DEF Next

\* app_state is what the page is, once everything has arrived: only a lost request, a
\* report that overtook an earlier one, or a capture refused while another one ran can
\* leave the two apart.
THEOREM AppStateIsThePage == Spec => []PageIsKnown
<1>1. Init => PageTold
  <2> SUFFICES ASSUME Init PROVE PageTold
    OBVIOUS
  <2>1. app = NoFlags /\ page = NoFlags /\ DOMAIN reports = {}
    BY DEF Init
  <2>2. page.paused = FALSE
    BY <2>1 DEF NoFlags, Flags
  <2>3. QED
    BY <2>1, <2>2 DEF PageTold, TakenInOrder, LastWord
<1>2. BridgeOK /\ PageTold => PageIsKnown
  <2> SUFFICES ASSUME BridgeOK, PageTold, Settled,
                      mishaps \cap {"lost", "reordered", "refused"} = {}
               PROVE  app = page
    BY DEF PageIsKnown
  <2>1. ~Ending
    BY DEF Settled, Ending, BridgeOK, GuiOK, None
  <2>2. \A f \in Flags : ~Owed(f)
    BY DEF Settled, Owed, Requested, None
  <2>3. DOMAIN reports = {}
    BY DEF Settled
  <2>4. \A f \in Flags : app[f] = page[f]
    BY <2>1, <2>2, <2>3 DEF PageTold, LastWord
  <2>5. app \in States /\ page \in States
    BY DEF BridgeOK, TypeOK, States
  <2>6. QED
    BY <2>4, <2>5 DEF States
<1>3. QED
  BY <1>1, <1>2, BridgeAlwaysOK, TypesInductive, ToldInductive, PTL DEF Spec

-------------------------------------------------------------------------------
\* One thing at a time.

Calm == mishaps \cap {"hasty", "doubled"} = {}

\* The page is to obey a: a poll that has read a request and finds the slot changed
\* obeys it a second time, and is not counted.
Asked(a) == pending = a \/ \E p \in Polls : polls[p].at = "cleared" /\ polls[p].action = a
Toggling == gui.at = "flipped" \/ Asked("toggle_mic") \/ Asked("toggle_sound")

Tells(i, f) == f \in DOMAIN reports[i].values

OneAnswer ==
    /\ \A p, q \in Polls : polls[p].at = "cleared" /\ polls[q].at = "cleared" => p = q
    /\ pending # None => \A p \in Polls : polls[p].at # "cleared"
    /\ gui.at = "flipped" => pending = None /\ \A p \in Polls : polls[p].action = None

\* While a switch is to be toggled, nothing under way tells a switch.
MutesUntold == \A i \in DOMAIN reports : \A f \in Mutes : ~Tells(i, f)
ToggledAlone == Toggling => asked = [screen |-> 0, mic |-> 0] /\ MutesUntold

\* What is told of a switch is what the page has, and app_state too if it was taken up.
MutesAgree ==
    \A i \in DOMAIN reports : \A f \in Mutes :
        Tells(i, f) => /\ reports[i].values[f] = page[f]
                       /\ reports[i].at # "sent" => app[f] = page[f]

\* Nothing is switched before the toolbar is there.
NoneYet ==
    gui.at = "none" =>
        /\ ~Toggling /\ queued = <<>>
        /\ \A f \in Mutes : app[f] = FALSE /\ page[f] = FALSE
        /\ \A m \in Mics : muted.mics[m] = FALSE

Steady == OneAnswer /\ ToggledAlone /\ MutesAgree /\ NoneYet

LEMMA CalmBefore ==
    ASSUME BridgeOK, [Next]_vars
    PROVE  /\ Calm' => Calm
           /\ "lost" \notin mishaps' => "lost" \notin mishaps
           /\ Ending => Ending'
<1>1. mishaps \ {"missed"} \subseteq mishaps'
  BY DEF Next, vars, Poll, PollRead, PollClear, PollAnswered, Handle, ReportUpdates,
         ReportEmits, Emit, ReportMutes, Toolbar, ToolbarUp, AskPage, set_pending_action,
         ShowOwn, Deliver, SetLoopback, CleanupAudio, SetMic, User, ClickShare,
         trigger_pause, Flip, Quit, Capture, CaptureGranted, CaptureRefused,
         CaptureEnds, MicDone
<1>2. Ending => Ending'
  <2>1. CASE Toolbar
    BY <2>1 DEF Toolbar, ToolbarUp, AskPage, ShowOwn, Deliver, update_gui_state, SetLoopback,
           CleanupAudio, SetMic, Ending, BridgeOK, GuiOK, Mutes, Idle, None
  <2>2. CASE User
    BY <2>2 DEF User, ClickShare, trigger_pause, Flip, Quit, Click, Ending, BridgeOK, GuiOK,
                Idle, None
  <2>3. CASE UNCHANGED gui
    BY <2>3 DEF Ending
  <2>4. QED
    BY <2>1, <2>2, <2>3 DEF Next, vars, Poll, PollRead, PollClear, PollAnswered, Handle,
       ReportUpdates, ReportEmits, ReportMutes, Capture, CaptureGranted, CaptureRefused,
       CaptureEnds, MicDone
<1>3. QED
  BY <1>1, <1>2 DEF Calm

LEMMA SaidAgrees ==
    ASSUME BridgeOK, BridgeOK', NEW v, Says(v), app' = app, MutesAgree,
           \A f \in Mutes : f \in DOMAIN v => v[f] = page'[f],
           \A f \in Mutes : page'[f] = page[f] \/ MutesUntold
    PROVE  /\ MutesAgree'
           /\ MutesUntold /\ (\A f \in Mutes : f \notin DOMAIN v) => MutesUntold'
<1>1. PICK n \in Nat : /\ DOMAIN reports = 1 .. n /\ DOMAIN reports' = 1 .. n + 1
                       /\ \A k \in 1 .. n : reports'[k] = reports[k]
                       /\ reports'[n + 1] = [values |-> v, at |-> "sent", todo |-> {}]
  BY ReportsDomain DEF Says, Added
<1>2. reports'[n + 1].values = v /\ reports'[n + 1].at = "sent"
  BY <1>1
<1>3. \A k \in 1 .. n + 1 : k \in 1 .. n \/ k = n + 1
  OBVIOUS
<1>4. ASSUME NEW k \in DOMAIN reports', NEW f \in Mutes, Tells(k, f)'
      PROVE  /\ reports'[k].values[f] = page'[f]
             /\ reports'[k].at # "sent" => app'[f] = page'[f]
  BY <1>1, <1>2, <1>3, <1>4 DEF Tells, MutesAgree, MutesUntold
<1>5. ASSUME MutesUntold, \A f \in Mutes : f \notin DOMAIN v PROVE MutesUntold'
  BY <1>1, <1>2, <1>3, <1>5 DEF Tells, MutesUntold
<1>6. QED
  BY <1>4, <1>5 DEF MutesAgree

LEMMA SwitchesAre ==
    /\ Mutes \subseteq Flags
    /\ \A f \in Mutes : f \notin {"sharing", "paused"}
    /\ \A f : f \in Mutes <=> f = "micMuted" \/ f = "soundMuted"
BY DEF Mutes, Flags

\* What the page obeys it tells the truth about.
LEMMA ObeyAgrees ==
    ASSUME BridgeOK, BridgeOK', NEW a, Obey(a), app' = app, MutesAgree,
           a \in {"toggle_mic", "toggle_sound"} => MutesUntold
    PROVE  /\ MutesAgree'
           /\ a # "toggle_mic" => page'.micMuted = page.micMuted
           /\ a # "toggle_sound" => page'.soundMuted = page.soundMuted
           /\ a = "toggle_sound" => page'.soundMuted = ~page.soundMuted
<1>1. page \in States /\ page' \in States
  BY DEF BridgeOK, TypeOK, States
<1>2. /\ a # "toggle_mic" => page'.micMuted = page.micMuted
      /\ a # "toggle_sound" => page'.soundMuted = page.soundMuted
      /\ a = "toggle_sound" => page'.soundMuted = ~page.soundMuted
  BY <1>1 DEF Obey, Stop, States, Flags
<1>3. \A f \in Mutes : page'[f] = page[f] \/ MutesUntold
  BY <1>2, SwitchesAre
<1>4. ASSUME UNCHANGED reports PROVE MutesAgree'
  BY <1>3, <1>4 DEF MutesAgree, MutesUntold, Tells
<1>5. ASSUME Stop PROVE MutesAgree'
  BY <1>3, <1>5, Stopping, EndedTells, SwitchesAre, SaidAgrees
<1>6. ASSUME NEW D \in {Flags, {"micMuted"}, {"soundMuted"}}, reports' = Report(Told(D))
      PROVE  MutesAgree'
  <2> DEFINE v == [f \in D |-> page'[f]]
  <2>1. Says(v)
    BY <1>1, <1>6, Telling
  <2>2. DOMAIN v = D /\ \A f \in D : v[f] = page'[f]
    OBVIOUS
  <2> HIDE DEF v
  <2>3. QED
    BY <1>3, <2>1, <2>2, SaidAgrees
<1>7. QED
  BY <1>2, <1>4, <1>5, <1>6 DEF Obey

LEMMA PollSteady ==
    ASSUME BridgeOK, BridgeOK', Steady, Calm', NEW p \in Polls, Poll(p)
    PROVE  Steady'
<1> USE DEF None
<1>1. /\ UNCHANGED <<app, gui, queued, muted>>
      /\ polls \in [Polls -> PollStates]
  BY DEF Poll, PollRead, PollClear, PollAnswered, BridgeOK, TypeOK, PollsOK
<1>2. CASE PollRead(p)
  <2>1. /\ UNCHANGED <<pending, page, reports, asked>>
        /\ \A q \in Polls : q # p => polls'[q] = polls[q]
        /\ polls'[p].at = "read" /\ polls'[p].action = pending /\ polls[p].at = "idle"
    BY <1>1, <1>2 DEF PollRead
  <2>2. \A a : Asked(a)' <=> Asked(a)
    BY <2>1 DEF Asked
  <2>3. OneAnswer'
    BY <1>1, <2>1 DEF Steady, OneAnswer
  <2>4. QED
    BY <1>1, <2>1, <2>2, <2>3 DEF Steady, ToggledAlone, Toggling, MutesAgree, MutesUntold,
                                  Tells, NoneYet
<1>3. CASE PollClear(p)
  <2>1. /\ UNCHANGED <<page, reports, asked>> /\ pending' = None
        /\ polls[p].action \in {None, pending}
        /\ \A q \in Polls : q # p => polls'[q] = polls[q]
        /\ polls'[p].action = polls[p].action /\ polls[p].at = "read"
        /\ polls'[p].at = "cleared" => polls[p].action # None
    BY <1>1, <1>3 DEF PollClear, Calm, NoPoll, PollStates
  <2>2. \A a \in Actions : Asked(a)' => Asked(a)
    BY <2>1 DEF Asked, Actions
  <2>3. OneAnswer'
    BY <1>1, <2>1 DEF Steady, OneAnswer
  <2>4. Toggling' => Toggling
    BY <1>1, <2>2 DEF Toggling, Actions
  <2>5. QED
    BY <1>1, <2>1, <2>3, <2>4 DEF Steady, ToggledAlone, MutesAgree, MutesUntold,
                                  Tells, NoneYet
<1>4. CASE PollAnswered(p)
  <2>1. /\ pending = None /\ pending' = None
        /\ \A q \in Polls : polls[q].at = "cleared" => q = p
        /\ \A q \in Polls : q # p => polls'[q] = polls[q]
        /\ polls'[p].at = "idle" /\ gui.at # "flipped"
        /\ polls[p].at = "cleared"
    BY <1>1, <1>4 DEF PollAnswered, Steady, OneAnswer, NoPoll, BridgeOK, PollsOK
  <2>2. OneAnswer' /\ ~Toggling'
    BY <1>1, <2>1 DEF OneAnswer, Toggling, Asked
  <2> DEFINE a == polls[p].action
  <2>3. a \in {"toggle_mic", "toggle_sound"} => Toggling
    BY <2>1 DEF Toggling, Asked
  <2>4. Obey(a)
    BY <1>4 DEF PollAnswered
  <2> HIDE DEF a
  <2>5. /\ MutesAgree'
        /\ a # "toggle_mic" => page'.micMuted = page.micMuted
        /\ a # "toggle_sound" => page'.soundMuted = page.soundMuted
    BY <1>1, <2>3, <2>4, ObeyAgrees DEF Steady, ToggledAlone
  <2>6. NoneYet'
    BY <1>1, <2>2, <2>3, <2>5, SwitchesAre DEF Steady, NoneYet
  <2>7. QED
    BY <2>2, <2>5, <2>6 DEF Steady, ToggledAlone
<1>5. QED
  BY <1>2, <1>3, <1>4 DEF Poll

\* A report that goes on, or is through, tells nothing new.
LEMMA HandledAgrees ==
    ASSUME BridgeOK, BridgeOK', NEW i \in DOMAIN reports, reports[i].at # "sent",
           \/ reports' = RemoveAt(reports, i)
           \/ \E e \in Rep : /\ e.at = "muting" /\ e.values = reports[i].values
                             /\ reports' = [reports EXCEPT ![i] = e]
    PROVE  \A k \in DOMAIN reports' : \E j \in DOMAIN reports :
              /\ reports'[k].values = reports[j].values
              /\ reports'[k].at # "sent" => reports[j].at # "sent"
              /\ reports'[k].at = "updated" => reports[j].at = "updated"
<1>1. PICK n \in Nat : DOMAIN reports = 1 .. n /\ Len(reports) = n /\ reports \in Seq(Rep)
                       /\ i \in 1 .. n
  BY ReportsDomain DEF BridgeOK, ReportsOK
<1>2. CASE reports' = RemoveAt(reports, i)
  <2>1. Removed(reports, reports', i) /\ DOMAIN reports' = 1 .. Len(reports')
    BY <1>1, <1>2, Removing, ReportsDomain
  <2>2. Len(reports') = n - 1
    BY <1>1, <2>1 DEF Removed
  <2>3. \A k \in 1 .. n - 1 : reports'[k] = reports[IF k < i THEN k ELSE k + 1]
    BY <2>1, <2>2 DEF Removed
  <2>4. \A k \in 1 .. n - 1 : \E j \in 1 .. n : reports'[k] = reports[j]
    BY <1>1, <2>3
  <2>5. QED
    BY <1>1, <2>1, <2>2, <2>4
<1>3. CASE \E e \in Rep : /\ e.at = "muting" /\ e.values = reports[i].values
                          /\ reports' = [reports EXCEPT ![i] = e]
  <2>1. PICK e \in Rep : /\ e.at = "muting" /\ e.values = reports[i].values
                         /\ reports' = [reports EXCEPT ![i] = e]
    BY <1>3
  <2>2. /\ DOMAIN reports' = 1 .. n
        /\ \A k \in 1 .. n : reports'[k] = IF k = i THEN e ELSE reports[k]
    BY <1>1, <2>1, Changing, ReportsDomain DEF Changed
  <2>3. QED
    BY <1>1, <2>1, <2>2
<1>4. QED
  BY <1>2, <1>3

\* The two ways in which ReportEmits and ReportMutes change the reports.
LEMMA GoesOn ==
    ASSUME BridgeOK, NEW i \in DOMAIN reports,
           ReportEmits(i) \/ \E m \in Mics : ReportMutes(i, m)
    PROVE  /\ reports[i].at # "sent"
           /\ \/ reports' = RemoveAt(reports, i)
              \/ \E e \in Rep : /\ e.at = "muting" /\ e.values = reports[i].values
                                /\ reports' = [reports EXCEPT ![i] = e]
<1>1. reports[i].at # "sent" /\ reports \in Seq(Rep) /\ reports[i] \in Rep
  BY DEF ReportEmits, ReportMutes, BridgeOK, ReportsOK
<1> DEFINE e == [reports[i] EXCEPT !.at = "muting", !.todo = Mics]
           e2(m) == [reports[i] EXCEPT !.todo = @ \ {m}]
<1>2. e \in Rep /\ e.at = "muting" /\ e.values = reports[i].values
  BY <1>1 DEF Rep
<1>3. ASSUME NEW m \in Mics, ReportMutes(i, m)
      PROVE  e2(m) \in Rep /\ e2(m).at = "muting" /\ e2(m).values = reports[i].values
  BY <1>1, <1>3 DEF Rep, ReportMutes
<1>4. [reports EXCEPT ![i].at = "muting", ![i].todo = Mics] = [reports EXCEPT ![i] = e]
  BY <1>1 DEF Rep
<1>5. QED
  BY <1>1, <1>2, <1>3, <1>4 DEF ReportEmits, ReportMutes

LEMMA HandleSteady ==
    ASSUME BridgeOK, BridgeOK', Steady, NEW i \in DOMAIN reports, Handle(i)
    PROVE  Steady'
<1>1. UNCHANGED <<gui, polls, pending, asked, page>>
  BY DEF Handle, ReportUpdates, ReportEmits, ReportMutes
<1>2. OneAnswer' /\ (Toggling' <=> Toggling)
  BY <1>1 DEF Steady, OneAnswer, Toggling, Asked
<1>3. CASE ReportUpdates(i)
  <2>1. PICK n \in Nat : /\ DOMAIN reports = 1 .. n /\ DOMAIN reports' = 1 .. n
                         /\ reports \in Seq(Rep) /\ i \in 1 .. n
    BY <1>3, ReportsDomain DEF ReportUpdates, BridgeOK, ReportsOK
  <2>2. \A k \in 1 .. n : /\ reports'[k].values = reports[k].values
                          /\ k # i => reports'[k].at = reports[k].at
    BY <1>3, <2>1 DEF ReportUpdates, Rep
  <2>3. \A f \in Flags : app'[f] = IF f \in DOMAIN reports[i].values
                                   THEN reports[i].values[f] ELSE app[f]
    BY <1>3 DEF ReportUpdates, update_app_state
  <2>4. \A f \in Mutes : app'[f] \in {app[f], page[f]} /\ (Tells(i, f) => app'[f] = page[f])
    BY <2>1, <2>3, SwitchesAre DEF Steady, MutesAgree, Tells
  <2>5. MutesAgree' /\ (MutesUntold => MutesUntold')
    BY <1>1, <2>1, <2>2, <2>4 DEF Steady, MutesAgree, MutesUntold, Tells
  <2>6. NoneYet'
    BY <1>1, <1>2, <1>3, <2>4 DEF ReportUpdates, Steady, NoneYet
  <2>7. QED
    BY <1>1, <1>2, <2>5, <2>6 DEF Steady, ToggledAlone
<1>4. CASE ReportEmits(i) \/ \E m \in Mics : ReportMutes(i, m)
  <2>1. \A k \in DOMAIN reports' : \E j \in DOMAIN reports :
           /\ reports'[k].values = reports[j].values
           /\ reports'[k].at # "sent" => reports[j].at # "sent"
    BY <1>4, GoesOn, HandledAgrees
  <2>2. app' = app
    BY <1>4 DEF ReportEmits, ReportMutes
  <2>3. MutesAgree' /\ (MutesUntold => MutesUntold')
    BY <1>1, <2>1, <2>2 DEF Steady, MutesAgree, MutesUntold, Tells
  <2>4. NoneYet'
    <3>1. CASE ReportEmits(i)
      BY <1>1, <1>2, <2>2, <3>1 DEF ReportEmits, Emit, Steady, NoneYet
    <3>2. ASSUME NEW m \in Mics, ReportMutes(i, m), gui.at = "none" PROVE NoneYet'
      <4>1. reports[i].values["micMuted"] = FALSE
        <5>1. Tells(i, "micMuted") /\ "micMuted" \in Mutes
          BY <3>2 DEF ReportMutes, Tells, BridgeOK, ReportsOK, Mutes
        <5>2. QED
          BY <3>2, <5>1 DEF Steady, MutesAgree, NoneYet
      <4>2. \A k \in Mics : muted'.mics[k] = FALSE
        <5>1. muted' = [muted EXCEPT !.mics[m] = reports[i].values["micMuted"]]
          BY <3>2 DEF ReportMutes
        <5>2. QED
          BY <3>2, <4>1, <5>1 DEF Steady, NoneYet, BridgeOK, TypeOK
      <4>3. queued' = queued
        BY <3>2 DEF ReportMutes
      <4>4. QED
        BY <1>1, <1>2, <2>2, <3>2, <4>2, <4>3 DEF Steady, NoneYet
    <3>3. gui.at # "none" => NoneYet'
      BY <1>1 DEF NoneYet
    <3>4. QED
      BY <1>4, <3>1, <3>2, <3>3
  <2>5. QED
    BY <1>1, <1>2, <2>3, <2>4 DEF Steady, ToggledAlone
<1>5. QED
  BY <1>3, <1>4 DEF Handle

LEMMA CaptureSteady ==
    ASSUME BridgeOK, BridgeOK', Steady, Capture \/ CaptureEnds \/ MicDone
    PROVE  Steady'
<1>1. /\ UNCHANGED <<app, gui, pending, polls, queued, muted>>
      /\ asked \in [screen : Nat, mic : Nat]
      /\ page \in States /\ page' \in States
  BY DEF Capture, CaptureGranted, CaptureRefused, CaptureEnds, MicDone, BridgeOK, TypeOK, States
<1>2. \A f \in Mutes : page'[f] = page[f]
  <2>1. page' = page \/ \E s, t \in BOOLEAN : page' = [page EXCEPT !.sharing = s, !.paused = t]
    BY DEF Capture, CaptureGranted, CaptureRefused, CaptureEnds, Stop, MicDone
  <2>2. QED
    BY <1>1, <2>1, SwitchesAre DEF States
<1>3. OneAnswer' /\ (Toggling' <=> Toggling) /\ NoneYet'
  BY <1>1, <1>2 DEF Steady, OneAnswer, Toggling, Asked, NoneYet
<1>4. CASE CaptureGranted \/ MicDone
  <2>1. ~Toggling
    BY <1>4 DEF CaptureGranted, MicDone, Steady, ToggledAlone
  <2>2. PICK D \in {Flags, {"micMuted"}} : reports' = Report(Told(D))
    <3>1. CASE CaptureGranted
      BY <3>1 DEF CaptureGranted
    <3>2. CASE MicDone
      <4>1. reports' = Report([f \in {"micMuted"} |-> page[f]]) /\ page' = page
        BY <3>2 DEF MicDone, Report
      <4>2. QED
        BY <4>1 DEF Told
    <3>3. QED
      BY <1>4, <3>1, <3>2
  <2> DEFINE v == [f \in D |-> page'[f]]
  <2>3. Says(v)
    BY <1>1, <2>2, Telling
  <2>4. \A f \in DOMAIN v : v[f] = page'[f]
    OBVIOUS
  <2> HIDE DEF v
  <2>5. MutesAgree'
    BY <1>1, <1>2, <2>3, <2>4, SaidAgrees DEF Steady
  <2>6. QED
    BY <1>3, <2>1, <2>5 DEF Steady, ToggledAlone
<1>5. CASE CaptureRefused \/ CaptureEnds
  <2>1. Says(Ended)
    BY <1>5, Stopping, ValuesAre, Saying DEF CaptureRefused, CaptureEnds, BridgeOK
  <2>2. \A f \in Mutes : f \notin DOMAIN Ended
    BY EndedTells, SwitchesAre
  <2>3. MutesAgree' /\ (MutesUntold => MutesUntold')
    BY <1>1, <1>2, <2>1, <2>2, SaidAgrees DEF Steady
  <2>4. Toggling => asked' = asked
    BY <1>5 DEF CaptureRefused, CaptureEnds, Steady, ToggledAlone
  <2>5. QED
    BY <1>3, <2>3, <2>4 DEF Steady, ToggledAlone
<1>6. QED
  BY <1>4, <1>5 DEF Capture

LEMMA ToolbarSteady ==
    ASSUME BridgeOK, BridgeOK', Steady, ~Ending', Toolbar
    PROVE  Steady'
<1> USE DEF None, Idle
<1>1. UNCHANGED <<app, page, asked, polls>>
  BY DEF Toolbar, ToolbarUp, AskPage, ShowOwn, Deliver, SetLoopback, CleanupAudio, SetMic
<1>2. UNCHANGED reports
  <2>1. ASSUME NEW m \in Mics, SetMic(m) PROVE gui.flag # "exit" \/ gui.todo # {m}
    BY <2>1 DEF SetMic, Ending
  <2>2. QED
    BY <2>1 DEF Toolbar, ToolbarUp, AskPage, ShowOwn, Deliver, SetLoopback, CleanupAudio, SetMic
<1>3. MutesAgree' /\ (MutesUntold => MutesUntold')
  BY <1>1, <1>2 DEF Steady, MutesAgree, MutesUntold, Tells
<1>4. gui'.at # "none" /\ gui'.at # "flipped"
  <2>1. ASSUME NEW m \in Mics, SetMic(m) PROVE gui'.at # "none" /\ gui'.at # "flipped"
    <3>1. CASE gui.todo # {m}
      BY <2>1, <3>1 DEF SetMic, BridgeOK, GuiOK
    <3>2. CASE gui.todo = {m}
      <4>1. gui.flag \in {None, "micMuted", "soundMuted", "exit"} /\ gui.at \in {"mute", "unmute"}
        BY <2>1 DEF SetMic, BridgeOK, GuiOK, Mutes
      <4>2. gui'.at \in {"mute", "unmute", "loopback", "exited", "idle"}
        BY <2>1, <3>2, <4>1 DEF SetMic, BridgeOK, GuiOK
      <4>3. QED
        BY <4>2
    <3>3. QED
      BY <3>1, <3>2
  <2>2. CASE ToolbarUp \/ SetLoopback
    BY <2>2 DEF ToolbarUp, SetLoopback
  <2>3. CASE CleanupAudio
    BY <2>3 DEF CleanupAudio
  <2>4. CASE AskPage
    BY <2>4 DEF AskPage, BridgeOK, GuiOK
  <2>5. CASE ShowOwn \/ Deliver
    BY <2>5 DEF ShowOwn, Deliver, update_gui_state
  <2>6. QED
    BY <2>1, <2>2, <2>3, <2>4, <2>5 DEF Toolbar
<1>5. NoneYet'
  BY <1>4 DEF NoneYet
<1>6. CASE AskPage
  <2>1. \A q \in Polls : polls'[q].at # "cleared"
    BY <1>1, <1>6 DEF AskPage, Steady, OneAnswer, BridgeOK, PollsOK
  <2>2. Toggling
    BY <1>6 DEF AskPage, Toggling
  <2>3. OneAnswer' /\ ToggledAlone'
    BY <1>1, <1>3, <1>4, <2>1, <2>2 DEF Steady, OneAnswer, ToggledAlone
  <2>4. QED
    BY <1>3, <1>5, <2>3 DEF Steady
<1>7. CASE UNCHANGED pending
  <2>1. OneAnswer' /\ (Toggling' => Toggling)
    BY <1>1, <1>4, <1>7 DEF Steady, OneAnswer, Toggling, Asked
  <2>2. QED
    BY <1>1, <1>3, <1>5, <2>1 DEF Steady, ToggledAlone
<1>8. QED
  BY <1>6, <1>7 DEF Toolbar, ToolbarUp, ShowOwn, Deliver, SetLoopback, CleanupAudio, SetMic

LEMMA UserSteady ==
    ASSUME BridgeOK, BridgeOK', Steady, Calm', ~Ending', User
    PROVE  Steady'
<1> USE DEF None, Idle
<1>1. UNCHANGED <<page, reports, asked, polls, queued>> /\ Settled
  BY DEF User, ClickShare, trigger_pause, Flip, Quit, Ending, Calm, Hasty
<1>2. /\ pending = None /\ reports = <<>> /\ asked = [screen |-> 0, mic |-> 0]
      /\ \A p \in Polls : polls[p].action = None
  BY <1>1 DEF Settled
<1>3. /\ MutesAgree' /\ MutesUntold'
      /\ \A p \in Polls : polls'[p].at # "cleared" /\ polls'[p].action = None
  BY <1>1, <1>2 DEF MutesAgree, MutesUntold, BridgeOK, PollsOK
<1>4. gui'.at # "none"
  BY DEF User, ClickShare, trigger_pause, Flip, Quit, Click
<1>5. pending' = None \/ gui'.at # "flipped"
  BY <1>2 DEF User, ClickShare, trigger_pause, Flip, Quit, Click
<1>6. QED
  BY <1>1, <1>2, <1>3, <1>4, <1>5 DEF Steady, OneAnswer, ToggledAlone, NoneYet

LEMMA SteadyInductive ==
    ASSUME BridgeOK, BridgeOK', Steady, Calm', ~Ending', [Next]_vars
    PROVE  Steady'
<1>1. CASE UNCHANGED vars
  BY <1>1 DEF vars, Steady, OneAnswer, ToggledAlone, Toggling, Asked, MutesAgree, MutesUntold,
              Tells, NoneYet
<1>2. QED
  BY <1>1, PollSteady, HandleSteady, ToolbarSteady, UserSteady, CaptureSteady DEF Next

-------------------------------------------------------------------------------
\* The microphones.

\* A report has set micMuted of app_state, and has not been passed on.
Fresh == \E i \in DOMAIN reports : Tells(i, "micMuted") /\ reports[i].at = "updated"

\* A state in the queue sets all microphones again, and the last one is right. When
\* none is left, the toolbar and the reports only set what app_state says.
MicsRight ==
    ~Fresh =>
        /\ queued # <<>> => queued[Len(queued)].micMuted = app.micMuted
        /\ queued = <<>> =>
              /\ gui.flag = "micMuted" => gui.new = app.micMuted
              /\ gui.flag # "micMuted" /\ gui.at = "mute" => app.micMuted = TRUE
              /\ gui.flag # "micMuted" /\ gui.at = "unmute" => app.micMuted = FALSE
              /\ gui.flag # "micMuted" /\ gui.at \notin {"flipped", "asked"} =>
                    \A m \in Mics \ gui.todo : muted.mics[m] = app.micMuted

LEMMA SaidFresh ==
    ASSUME BridgeOK, BridgeOK', NEW v, Says(v)
    PROVE  Fresh' <=> Fresh
<1>1. PICK n \in Nat : /\ DOMAIN reports = 1 .. n /\ DOMAIN reports' = 1 .. n + 1
                       /\ \A k \in 1 .. n : reports'[k] = reports[k]
                       /\ reports'[n + 1] = [values |-> v, at |-> "sent", todo |-> {}]
  BY ReportsDomain DEF Says, Added
<1>2. reports'[n + 1].at = "sent"
  BY <1>1
<1>3. \A k \in 1 .. n + 1 : k \in 1 .. n \/ k = n + 1
  OBVIOUS
<1>4. QED
  BY <1>1, <1>2, <1>3 DEF Fresh, Tells

LEMMA PollMics ==
    ASSUME BridgeOK, BridgeOK', MicsRight, NEW p \in Polls, Poll(p)
    PROVE  MicsRight'
<1>1. UNCHANGED <<app, gui, queued, muted>>
  BY DEF Poll, PollRead, PollClear, PollAnswered
<1>2. Fresh' <=> Fresh
  <2>1. CASE UNCHANGED reports
    BY <2>1 DEF Fresh, Tells
  <2>2. CASE \E v : Says(v)
    BY <2>2, SaidFresh
  <2>3. QED
    BY <2>1, <2>2, ObeySays DEF Poll, PollRead, PollClear, PollAnswered
<1>3. QED
  BY <1>1, <1>2 DEF MicsRight

LEMMA CaptureMics ==
    ASSUME BridgeOK, BridgeOK', MicsRight, Capture \/ CaptureEnds \/ MicDone
    PROVE  MicsRight'
<1>1. UNCHANGED <<app, gui, queued, muted>>
  BY DEF Capture, CaptureGranted, CaptureRefused, CaptureEnds, MicDone
<1>2. Fresh' <=> Fresh
  BY CaptureSays, SaidFresh
<1>3. QED
  BY <1>1, <1>2 DEF MicsRight

LEMMA HandleMics ==
    ASSUME BridgeOK, BridgeOK', Steady, Steady', MicsRight,
           NEW i \in DOMAIN reports, Handle(i)
    PROVE  MicsRight'
<1>1. UNCHANGED <<gui, polls, pending, asked, page>>
  BY DEF Handle, ReportUpdates, ReportEmits, ReportMutes
<1>2. CASE ReportUpdates(i)
  <2>1. PICK n \in Nat : /\ DOMAIN reports = 1 .. n /\ DOMAIN reports' = 1 .. n
                         /\ reports \in Seq(Rep) /\ i \in 1 .. n
    BY <1>2, ReportsDomain DEF ReportUpdates, BridgeOK, ReportsOK
  <2>2. \A k \in 1 .. n : /\ reports'[k].values = reports[k].values
                          /\ reports'[k].at = IF k = i THEN "updated" ELSE reports[k].at
    BY <1>2, <2>1 DEF ReportUpdates, Rep
  <2>3. CASE Tells(i, "micMuted")
    <3>1. Fresh'
      BY <2>1, <2>2, <2>3 DEF Fresh, Tells
    <3>2. QED
      BY <3>1 DEF MicsRight
  <2>4. CASE ~Tells(i, "micMuted")
    <3>1. app'["micMuted"] = app["micMuted"]
      BY <1>2, <2>4 DEF ReportUpdates, update_app_state, Tells, Flags
    <3>2. Fresh => Fresh'
      BY <2>1, <2>2, <2>4 DEF Fresh, Tells
    <3>3. UNCHANGED <<queued, muted>>
      BY <1>2 DEF ReportUpdates
    <3>4. QED
      BY <1>1, <3>1, <3>2, <3>3 DEF MicsRight
  <2>5. QED
    BY <2>3, <2>4
<1>3. CASE ReportEmits(i)
  <2>1. app' = app /\ muted' = muted
    BY <1>3 DEF ReportEmits
  <2>2. CASE gui.at = "none"
    <3>1. /\ app'["micMuted"] = FALSE /\ queued' = <<>>
          /\ \A m \in Mics : muted'.mics[m] = FALSE
      BY <1>1, <2>1, <2>2 DEF Steady, NoneYet, Mutes
    <3>2. gui'.at = "none" /\ gui'.flag = None
      BY <1>1, <2>2 DEF BridgeOK, GuiOK
    <3>3. QED
      BY <3>1, <3>2 DEF MicsRight, None
  <2>3. CASE gui.at # "none"
    <3>1. queued' = Append(queued, app)
      BY <1>3, <2>3 DEF ReportEmits, Emit
    <3>2. queued' # <<>> /\ queued'[Len(queued')] = app
      BY <3>1, AppendProperties DEF BridgeOK, TypeOK, States
    <3>3. QED
      BY <2>1, <3>2 DEF MicsRight
  <2>4. QED
    BY <2>2, <2>3
<1>4. ASSUME NEW m \in Mics, ReportMutes(i, m) PROVE MicsRight'
  <2>1. UNCHANGED <<app, queued>>
    BY <1>4 DEF ReportMutes
  <2>2. Fresh => Fresh'
    <3> SUFFICES ASSUME Fresh PROVE Fresh'
      OBVIOUS
    <3>1. PICK k \in DOMAIN reports : Tells(k, "micMuted") /\ reports[k].at = "updated"
      BY DEF Fresh
    <3>2. k # i
      BY <1>4, <3>1 DEF ReportMutes
    <3>3. \E j \in DOMAIN reports' : reports'[j] = reports[k]
      BY <1>4, <3>2, OthersStay
    <3>4. QED
      BY <3>1, <3>3 DEF Fresh, Tells
  <2>3. reports[i].values["micMuted"] = app["micMuted"]
    <3>1. Tells(i, "micMuted") /\ "micMuted" \in Mutes /\ reports[i].at # "sent"
      BY <1>4 DEF ReportMutes, Tells, BridgeOK, ReportsOK, Mutes
    <3>2. QED
      BY <3>1 DEF Steady, MutesAgree
  <2>4. \A k \in Mics : muted'.mics[k] = IF k = m THEN app["micMuted"] ELSE muted.mics[k]
    <3>1. muted' = [muted EXCEPT !.mics[m] = reports[i].values["micMuted"]]
      BY <1>4 DEF ReportMutes
    <3>2. QED
      BY <2>3, <3>1 DEF BridgeOK, TypeOK
  <2>5. QED
    BY <1>1, <2>1, <2>2, <2>4 DEF MicsRight
<1>5. QED
  BY <1>2, <1>3, <1>4 DEF Handle

LEMMA UserMics ==
    ASSUME BridgeOK, BridgeOK', MicsRight, Calm', ~Ending', User
    PROVE  MicsRight'
<1> USE DEF None, Idle
<1>1. UNCHANGED <<queued, muted, reports>> /\ Settled /\ queued = <<>>
  BY DEF User, ClickShare, trigger_pause, Flip, Quit, Ending, Calm, Hasty, Settled
<1>2. Fresh' <=> Fresh
  BY <1>1 DEF Fresh, Tells
<1>3. CASE ClickShare \/ trigger_pause
  BY <1>1, <1>2, <1>3 DEF ClickShare, trigger_pause, MicsRight
<1>4. ASSUME NEW f \in Mutes, Flip(f) PROVE MicsRight'
  <2>1. gui'.at = "flipped" /\ gui'.flag = f /\ gui'.new = ~app[f] /\ app' = [app EXCEPT ![f] = ~@]
    BY <1>4 DEF Flip
  <2>2. app'[f] = ~app[f]
    BY <2>1, SwitchesAre DEF BridgeOK, TypeOK
  <2>3. QED
    BY <1>1, <2>1, <2>2 DEF MicsRight
<1>5. CASE Quit
  BY <1>5 DEF Quit, Ending
<1>6. QED
  BY <1>3, <1>4, <1>5 DEF User, Mutes

LEMMA ToolbarMics ==
    ASSUME BridgeOK, BridgeOK', MicsRight, ~Ending', Toolbar
    PROVE  MicsRight'
<1> USE DEF None, Idle
<1>1. app' = app
  BY DEF Toolbar, ToolbarUp, AskPage, ShowOwn, Deliver, SetLoopback, CleanupAudio, SetMic
<1>2. UNCHANGED reports
  <2>1. ASSUME NEW m \in Mics, SetMic(m) PROVE gui.flag # "exit" \/ gui.todo # {m}
    BY <2>1 DEF SetMic, Ending
  <2>2. QED
    BY <2>1 DEF Toolbar, ToolbarUp, AskPage, ShowOwn, Deliver, SetLoopback, CleanupAudio, SetMic
<1>3. Fresh' <=> Fresh
  BY <1>2 DEF Fresh, Tells
<1>4. app["micMuted"] \in BOOLEAN /\ gui.new \in BOOLEAN
  BY DEF BridgeOK, TypeOK, GuiOK, Flags
<1>5. CASE ToolbarUp
  BY <1>1, <1>3, <1>5 DEF ToolbarUp, MicsRight, BridgeOK, GuiOK
<1>6. CASE AskPage
  <2>1. UNCHANGED <<queued, muted>> /\ gui'.at = "asked" /\ gui'.flag = gui.flag
        /\ gui'.new = gui.new
    BY <1>6 DEF AskPage, BridgeOK, GuiOK
  <2>2. QED
    BY <1>1, <1>3, <2>1 DEF MicsRight
<1>7. CASE ShowOwn
  <2>1. UNCHANGED <<queued, muted>> /\ gui'.flag = gui.flag
        /\ gui'.new = gui.new /\ gui'.todo = Mics
        /\ gui'.at = IF app["micMuted"] THEN "mute" ELSE "unmute"
    BY <1>7 DEF ShowOwn, update_gui_state
  <2>2. QED
    BY <1>1, <1>3, <1>4, <2>1 DEF MicsRight
<1>8. CASE Deliver
  <2>1. /\ Head(queued) = queued[1] /\ queued' = Tail(queued) /\ queued # <<>>
        /\ Len(queued) = 1 => Tail(queued) = <<>>
        /\ Len(queued) # 1 => /\ Tail(queued) # <<>>
                              /\ Tail(queued)[Len(Tail(queued))] = queued[Len(queued)]
    BY <1>8, Taking DEF Deliver, BridgeOK
  <2>2. CASE Len(queued) # 1
    BY <1>1, <1>3, <2>1, <2>2 DEF MicsRight
  <2>3. CASE Len(queued) = 1
    <3>1. PICK state \in {Head(queued), app} : update_gui_state(state, None, FALSE)
      BY <1>8 DEF Deliver
    <3>2. gui'.flag = None /\ gui'.todo = Mics
          /\ gui'.at = IF state["micMuted"] THEN "mute" ELSE "unmute"
      BY <3>1 DEF update_gui_state
    <3>3. ~Fresh => state["micMuted"] = app["micMuted"]
      BY <2>1, <2>3 DEF MicsRight
    <3>4. QED
      BY <1>1, <1>3, <1>4, <2>1, <2>3, <3>2, <3>3 DEF MicsRight
  <2>4. QED
    BY <2>2, <2>3
<1>9. CASE SetLoopback
  <2>1. queued' = queued /\ gui' = Idle /\ gui.at = "loopback" /\ gui.todo = {}
        /\ gui.flag = "soundMuted"
    BY <1>9 DEF SetLoopback, BridgeOK, GuiOK
  <2>2. muted'.mics = muted.mics
    BY <1>9 DEF SetLoopback, BridgeOK, TypeOK
  <2>3. QED
    BY <1>1, <1>3, <2>1, <2>2 DEF MicsRight
<1>10. CASE CleanupAudio
  BY <1>10 DEF CleanupAudio, Ending
<1>11. ASSUME NEW m \in Mics, SetMic(m) PROVE MicsRight'
  <2>1. queued' = queued /\ gui.at \in {"mute", "unmute"} /\ m \in gui.todo
    BY <1>11 DEF SetMic
  <2>2. \A k \in Mics : muted'.mics[k] = IF k = m THEN (gui.at = "mute") ELSE muted.mics[k]
    <3>1. muted' = [muted EXCEPT !.mics[m] = (gui.at = "mute")]
      BY <1>11 DEF SetMic
    <3>2. QED
      BY <3>1 DEF BridgeOK, TypeOK
  <2>3. CASE gui.todo # {m}
    <3>1. gui'.at = gui.at /\ gui'.flag = gui.flag /\ gui'.new = gui.new
          /\ gui'.todo = gui.todo \ {m}
      BY <1>11, <2>3 DEF SetMic, BridgeOK, GuiOK
    <3>2. QED
      BY <1>1, <1>3, <1>4, <2>1, <2>2, <3>1 DEF MicsRight
  <2>4. CASE gui.todo = {m} /\ gui.flag = "micMuted"
    <3>1. gui'.flag = None /\ gui'.todo = Mics
          /\ gui'.at = IF gui.new THEN "mute" ELSE "unmute"
      BY <1>11, <2>4 DEF SetMic
    <3>2. QED
      BY <1>1, <1>3, <1>4, <2>1, <2>4, <3>1 DEF MicsRight
  <2>5. CASE gui.todo = {m} /\ gui.flag = "soundMuted"
    <3>1. gui'.flag = gui.flag /\ gui'.at = "loopback" /\ gui'.todo = {}
      BY <1>11, <2>5 DEF SetMic, BridgeOK, GuiOK
    <3>2. QED
      BY <1>1, <1>3, <1>4, <2>1, <2>2, <2>5, <3>1 DEF MicsRight
  <2>6. CASE gui.todo = {m} /\ gui.flag = "exit"
    BY <1>11, <2>6 DEF SetMic, Ending
  <2>7. CASE gui.todo = {m} /\ gui.flag = None
    <3>1. gui' = Idle
      BY <1>11, <2>7 DEF SetMic
    <3>2. QED
      BY <1>1, <1>3, <1>4, <2>1, <2>2, <2>7, <3>1 DEF MicsRight
  <2>8. QED
    BY <2>3, <2>4, <2>5, <2>6, <2>7 DEF BridgeOK, GuiOK, Mutes
<1>12. QED
  BY <1>5, <1>6, <1>7, <1>8, <1>9, <1>10, <1>11 DEF Toolbar

LEMMA MicsInductive ==
    ASSUME BridgeOK, BridgeOK', Steady, Steady', MicsRight, Calm', ~Ending', [Next]_vars
    PROVE  MicsRight'
<1>1. CASE UNCHANGED vars
  BY <1>1 DEF vars, MicsRight, Fresh, Tells
<1>2. QED
  BY <1>1, PollMics, HandleMics, ToolbarMics, UserMics, CaptureMics DEF Next

-------------------------------------------------------------------------------
\* The computer's sound.

\* The page has still to follow the toolbar, which switches on its own.
SoundAsked == (gui.at = "flipped" /\ gui.flag = "soundMuted") \/ Asked("toggle_sound")
SoundRight ==
    /\ app.soundMuted = IF SoundAsked THEN ~page.soundMuted ELSE page.soundMuted
    /\ IF gui.flag = "soundMuted" THEN gui.new = app.soundMuted
                                  ELSE muted.loopback = app.soundMuted

LEMMA PollSound ==
    ASSUME BridgeOK, BridgeOK', Steady, SoundRight, Calm', "lost" \notin mishaps',
           NEW p \in Polls, Poll(p)
    PROVE  SoundRight'
<1> USE DEF None
<1>1. /\ UNCHANGED <<app, gui, muted>>
      /\ polls \in [Polls -> PollStates]
  BY DEF Poll, PollRead, PollClear, PollAnswered, BridgeOK, PollsOK
<1>2. CASE PollRead(p)
  <2>1. /\ UNCHANGED <<pending, page>>
        /\ \A q \in Polls : q # p => polls'[q] = polls[q]
        /\ polls'[p].at = "read" /\ polls[p].at = "idle"
    BY <1>1, <1>2 DEF PollRead
  <2>2. SoundAsked' <=> SoundAsked
    BY <1>1, <2>1 DEF SoundAsked, Asked
  <2>3. QED
    BY <1>1, <2>1, <2>2 DEF SoundRight
<1>3. CASE PollClear(p)
  <2>1. /\ page' = page /\ pending' = None
        /\ polls[p].action = pending
        /\ \A q \in Polls : q # p => polls'[q] = polls[q]
        /\ polls'[p].action = polls[p].action /\ polls[p].at = "read"
        /\ polls[p].action # None => polls'[p].at = "cleared"
    BY <1>1, <1>3 DEF PollClear, Calm, NoPoll, PollStates
  <2>2. SoundAsked' <=> SoundAsked
    BY <1>1, <2>1 DEF SoundAsked, Asked
  <2>3. QED
    BY <1>1, <2>1, <2>2 DEF SoundRight
<1>4. CASE PollAnswered(p)
  <2>1. /\ pending = None /\ pending' = None
        /\ \A q \in Polls : polls[q].at = "cleared" => q = p
        /\ \A q \in Polls : q # p => polls'[q] = polls[q]
        /\ polls'[p].at = "idle" /\ gui.at # "flipped"
        /\ polls[p].at = "cleared"
    BY <1>1, <1>4 DEF PollAnswered, Steady, OneAnswer, NoPoll, BridgeOK, PollsOK
  <2> DEFINE a == polls[p].action
  <2>2. ~SoundAsked' /\ (SoundAsked <=> a = "toggle_sound")
    BY <1>1, <2>1 DEF SoundAsked, Asked
  <2>3. Obey(a) /\ (a \in {"toggle_mic", "toggle_sound"} => Toggling)
    BY <1>4, <2>1 DEF PollAnswered, Toggling, Asked
  <2> HIDE DEF a
  <2>4. /\ a # "toggle_sound" => page'.soundMuted = page.soundMuted
        /\ a = "toggle_sound" => page'.soundMuted = ~page.soundMuted
    BY <1>1, <2>3, ObeyAgrees DEF Steady, ToggledAlone
  <2>5. page'["soundMuted"] \in BOOLEAN /\ page["soundMuted"] \in BOOLEAN
        /\ app["soundMuted"] \in BOOLEAN
    BY DEF BridgeOK, TypeOK, Flags
  <2>6. QED
    BY <1>1, <2>2, <2>4, <2>5 DEF SoundRight
<1>5. QED
  BY <1>2, <1>3, <1>4 DEF Poll

LEMMA HandleSound ==
    ASSUME BridgeOK, BridgeOK', Steady, SoundRight, NEW i \in DOMAIN reports, Handle(i)
    PROVE  SoundRight'
<1>1. UNCHANGED <<gui, polls, pending, page>> /\ muted'.loopback = muted.loopback
  BY DEF Handle, ReportUpdates, ReportEmits, ReportMutes, BridgeOK, TypeOK
<1>2. app'["soundMuted"] = app["soundMuted"]
  <2>1. CASE ReportUpdates(i)
    <3>1. app'["soundMuted"] = IF Tells(i, "soundMuted")
                               THEN reports[i].values["soundMuted"] ELSE app["soundMuted"]
      BY <2>1 DEF ReportUpdates, update_app_state, Tells, Flags
    <3>2. ASSUME Tells(i, "soundMuted")
          PROVE  app["soundMuted"] = reports[i].values["soundMuted"]
      <4>1. ~SoundAsked
        BY <3>2 DEF Steady, ToggledAlone, Toggling, SoundAsked, MutesUntold, Mutes
      <4>2. QED
        BY <3>2, <4>1 DEF Steady, MutesAgree, Mutes, SoundRight
    <3>3. QED
      BY <3>1, <3>2
  <2>2. CASE ReportEmits(i) \/ \E m \in Mics : ReportMutes(i, m)
    BY <2>2 DEF ReportEmits, ReportMutes
  <2>3. QED
    BY <2>1, <2>2 DEF Handle
<1>3. SoundAsked' <=> SoundAsked
  BY <1>1 DEF SoundAsked, Asked
<1>4. QED
  BY <1>1, <1>2, <1>3 DEF SoundRight

LEMMA CaptureSound ==
    ASSUME BridgeOK, BridgeOK', SoundRight, Capture \/ CaptureEnds \/ MicDone
    PROVE  SoundRight'
<1>1. UNCHANGED <<app, gui, pending, polls, muted>>
  BY DEF Capture, CaptureGranted, CaptureRefused, CaptureEnds, MicDone
<1>2. page'["soundMuted"] = page["soundMuted"]
  BY DEF Capture, CaptureGranted, CaptureRefused, CaptureEnds, Stop, MicDone,
         BridgeOK, TypeOK, Flags
<1>3. SoundAsked' <=> SoundAsked
  BY <1>1 DEF SoundAsked, Asked
<1>4. QED
  BY <1>1, <1>2, <1>3 DEF SoundRight

LEMMA ToolbarSound ==
    ASSUME BridgeOK, BridgeOK', Steady, SoundRight, ~Ending', Toolbar
    PROVE  SoundRight'
<1> USE DEF None, Idle
<1>1. UNCHANGED <<app, page, asked, polls>>
  BY DEF Toolbar, ToolbarUp, AskPage, ShowOwn, Deliver, SetLoopback, CleanupAudio, SetMic
<1>2. CASE ToolbarUp
  <2>1. UNCHANGED <<pending, muted>> /\ gui.flag = None /\ gui.at = "none" /\ gui' = Idle
    BY <1>2 DEF ToolbarUp, BridgeOK, GuiOK
  <2>2. QED
    BY <1>1, <2>1 DEF SoundRight, SoundAsked, Asked
<1>3. CASE AskPage
  <2>1. /\ gui.at = "flipped" /\ gui.flag \in Mutes /\ muted' = muted
        /\ pending' = ToggleOf[gui.flag] /\ pending = None
        /\ \A q \in Polls : polls[q].action = None
        /\ gui'.at = "asked" /\ gui'.flag = gui.flag /\ gui'.new = gui.new
    BY <1>3 DEF AskPage, set_pending_action, BridgeOK, GuiOK, Steady, OneAnswer
  <2>2. SoundAsked' <=> SoundAsked
    BY <1>1, <2>1 DEF SoundAsked, Asked, Mutes, ToggleOf
  <2>3. QED
    BY <1>1, <2>1, <2>2 DEF SoundRight
<1>4. CASE ShowOwn
  <2>1. /\ UNCHANGED <<pending, muted>> /\ gui.at = "asked"
        /\ gui'.at \in {"mute", "unmute"} /\ gui'.flag = gui.flag /\ gui'.new = gui.new
    BY <1>4 DEF ShowOwn, update_gui_state
  <2>2. QED
    BY <1>1, <2>1 DEF SoundRight, SoundAsked, Asked
<1>5. CASE Deliver
  <2>1. /\ UNCHANGED <<pending, muted>> /\ gui.at = "idle" /\ gui.flag = None
        /\ gui'.at \in {"mute", "unmute"} /\ gui'.flag = None
    BY <1>5 DEF Deliver, update_gui_state, BridgeOK, GuiOK
  <2>2. QED
    BY <1>1, <2>1 DEF SoundRight, SoundAsked, Asked
<1>6. CASE SetLoopback
  <2>1. /\ UNCHANGED pending /\ gui.at = "loopback" /\ gui.flag = "soundMuted"
        /\ gui' = Idle /\ muted'.loopback = gui.new
    BY <1>6 DEF SetLoopback, BridgeOK, GuiOK, TypeOK
  <2>2. QED
    BY <1>1, <2>1 DEF SoundRight, SoundAsked, Asked
<1>7. CASE CleanupAudio
  BY <1>7 DEF CleanupAudio, Ending
<1>8. ASSUME NEW m \in Mics, SetMic(m) PROVE SoundRight'
  <2>1. /\ UNCHANGED pending /\ gui.at \in {"mute", "unmute"}
        /\ muted'.loopback = muted.loopback
    BY <1>8 DEF SetMic, BridgeOK, TypeOK
  <2>2. CASE gui.todo # {m}
    <3>1. gui'.at = gui.at /\ gui'.flag = gui.flag /\ gui'.new = gui.new
      BY <1>8, <2>2 DEF SetMic, BridgeOK, GuiOK
    <3>2. QED
      BY <1>1, <2>1, <3>1 DEF SoundRight, SoundAsked, Asked
  <2>3. CASE gui.todo = {m} /\ gui.flag = "micMuted"
    <3>1. gui'.flag = None /\ gui'.at \in {"mute", "unmute"}
      BY <1>8, <2>3 DEF SetMic
    <3>2. QED
      BY <1>1, <2>1, <2>3, <3>1 DEF SoundRight, SoundAsked, Asked
  <2>4. CASE gui.todo = {m} /\ gui.flag = "soundMuted"
    <3>1. gui'.flag = gui.flag /\ gui'.new = gui.new /\ gui'.at = "loopback"
      BY <1>8, <2>4 DEF SetMic, BridgeOK, GuiOK
    <3>2. QED
      BY <1>1, <2>1, <2>4, <3>1 DEF SoundRight, SoundAsked, Asked
  <2>5. CASE gui.todo = {m} /\ gui.flag = "exit"
    BY <1>8, <2>5 DEF SetMic, Ending
  <2>6. CASE gui.todo = {m} /\ gui.flag = None
    <3>1. gui' = Idle
      BY <1>8, <2>6 DEF SetMic
    <3>2. QED
      BY <1>1, <2>1, <2>6, <3>1 DEF SoundRight, SoundAsked, Asked
  <2>7. QED
    BY <2>2, <2>3, <2>4, <2>5, <2>6 DEF BridgeOK, GuiOK, Mutes
<1>9. QED
  BY <1>2, <1>3, <1>4, <1>5, <1>6, <1>7, <1>8 DEF Toolbar

LEMMA UserSound ==
    ASSUME BridgeOK, BridgeOK', Steady, SoundRight, Calm', ~Ending', User
    PROVE  SoundRight'
<1> USE DEF None, Idle
<1>1. UNCHANGED <<page, polls, muted>> /\ Settled
  BY DEF User, ClickShare, trigger_pause, Flip, Quit, Ending, Calm, Hasty
<1>2. /\ pending = None /\ gui.at = "idle" /\ gui.flag = None
      /\ \A p \in Polls : polls[p].action = None
  BY <1>1 DEF Settled, BridgeOK, GuiOK
<1>3. ~SoundAsked
  BY <1>2 DEF SoundAsked, Asked
<1>4. CASE ClickShare \/ trigger_pause
  <2>1. UNCHANGED <<app, gui>> /\ pending' # "toggle_sound"
    BY <1>4 DEF ClickShare, trigger_pause
  <2>2. ~SoundAsked'
    BY <1>1, <1>2, <2>1 DEF SoundAsked, Asked
  <2>3. QED
    BY <1>1, <1>3, <2>1, <2>2 DEF SoundRight
<1>5. ASSUME NEW f \in Mutes, Flip(f) PROVE SoundRight'
  <2>1. /\ gui'.at = "flipped" /\ gui'.flag = f /\ gui'.new = ~app[f]
        /\ app' = [app EXCEPT ![f] = ~@] /\ pending' = pending
    BY <1>5 DEF Flip
  <2>2. SoundAsked' <=> f = "soundMuted"
    BY <1>1, <1>2, <2>1 DEF SoundAsked, Asked
  <2>3. app'["soundMuted"] = IF f = "soundMuted" THEN ~app["soundMuted"] ELSE app["soundMuted"]
    BY <2>1 DEF BridgeOK, TypeOK, Flags
  <2>4. app["soundMuted"] \in BOOLEAN /\ page["soundMuted"] \in BOOLEAN
    BY DEF BridgeOK, TypeOK, Flags
  <2>5. QED
    BY <1>1, <1>2, <1>3, <2>1, <2>2, <2>3, <2>4 DEF SoundRight
<1>6. CASE Quit
  BY <1>6 DEF Quit, Ending
<1>7. QED
  BY <1>4, <1>5, <1>6 DEF User, Mutes

LEMMA SoundInductive ==
    ASSUME BridgeOK, BridgeOK', Steady, SoundRight, Calm', "lost" \notin mishaps',
           ~Ending', [Next]_vars
    PROVE  SoundRight'
<1>1. CASE UNCHANGED vars
  BY <1>1 DEF vars, SoundRight, SoundAsked, Asked
<1>2. QED
  BY <1>1, PollSound, HandleSound, ToolbarSound, UserSound, CaptureSound DEF Next

-------------------------------------------------------------------------------
\* As long as nobody clicks while something is under way.
SwitchesFollow ==
    /\ Calm => Ending \/ (Steady /\ MicsRight)
    /\ Calm /\ "lost" \notin mishaps => Ending \/ SoundRight

LEMMA InitFollows == Init => SwitchesFollow
<1> SUFFICES ASSUME Init PROVE SwitchesFollow
  OBVIOUS
<1> USE DEF None, Idle
<1>1. /\ pending = "start_share" /\ gui.at = "none" /\ gui.flag = None /\ queued = <<>>
      /\ DOMAIN reports = {} /\ \A p \in Polls : polls[p] = NoPoll
  BY DEF Init
<1>2. /\ \A f \in Flags : app[f] = FALSE /\ page[f] = FALSE
      /\ \A m \in Mics : muted.mics[m] = FALSE
      /\ muted.loopback = FALSE
  BY DEF Init, NoFlags
<1>3. \A a \in {"toggle_mic", "toggle_sound"} : ~Asked(a)
  BY <1>1 DEF Asked, NoPoll
<1>4. OneAnswer /\ ToggledAlone /\ MutesAgree
  BY <1>1, <1>3 DEF OneAnswer, ToggledAlone, Toggling, MutesAgree, NoPoll
<1>5. NoneYet
  BY <1>1, <1>2, <1>3, SwitchesAre DEF NoneYet, Toggling
<1>6. MicsRight
  BY <1>1, <1>2, SwitchesAre DEF MicsRight
<1>7. SoundRight
  BY <1>1, <1>2, <1>3, SwitchesAre DEF SoundRight, SoundAsked
<1>8. QED
  BY <1>4, <1>5, <1>6, <1>7 DEF SwitchesFollow, Steady

LEMMA FollowInductive == BridgeOK /\ BridgeOK' /\ SwitchesFollow /\ [Next]_vars => SwitchesFollow'
<1> SUFFICES ASSUME BridgeOK, BridgeOK', SwitchesFollow, [Next]_vars PROVE SwitchesFollow'
  OBVIOUS
<1>1. (Calm' => Calm) /\ (Ending => Ending')
  BY CalmBefore
<1>2. ASSUME Calm', ~Ending' PROVE Steady' /\ MicsRight'
  <2>1. Steady /\ MicsRight
    BY <1>1, <1>2 DEF SwitchesFollow
  <2>2. Steady'
    BY <1>2, <2>1, SteadyInductive
  <2>3. QED
    BY <1>2, <2>1, <2>2, MicsInductive
<1>3. ASSUME Calm', ~Ending', "lost" \notin mishaps' PROVE SoundRight'
  <2>1. "lost" \notin mishaps
    BY <1>3, CalmBefore
  <2>2. Steady /\ SoundRight
    BY <1>1, <1>3, <2>1 DEF SwitchesFollow
  <2>3. QED
    BY <1>3, <2>2, SoundInductive
<1>4. Calm' => Ending' \/ (Steady' /\ MicsRight')
  BY <1>2
<1>5. Calm' /\ "lost" \notin mishaps' => Ending' \/ SoundRight'
  BY <1>3
<1>6. QED
  BY <1>4, <1>5 DEF SwitchesFollow

\* What is muted at the toolbar is muted in the operating system, and nothing else,
\* provided that nobody clicks while something is under way and no request is obeyed
\* twice (and, for the computer's sound, that none is lost).
THEOREM SwitchesFollowTheToolbar == Spec => []MutesFollow
<1>1. BridgeOK /\ SwitchesFollow => MutesFollow
  <2> SUFFICES ASSUME BridgeOK, SwitchesFollow, Settled PROVE MutesFollow
    BY DEF MutesFollow, MicsFollow, LoopbackFollows
  <2>1. /\ gui.at = "idle" /\ gui.flag = None /\ gui.todo = {} /\ queued = <<>>
        /\ pending = None /\ DOMAIN reports = {}
        /\ \A p \in Polls : polls[p].action = None
    BY DEF Settled, BridgeOK, GuiOK
  <2>2. ~Ending
    BY <2>1 DEF Ending, None
  <2>3. MicsFollow
    BY <2>1, <2>2 DEF MicsFollow, SwitchesFollow, Calm, MicsRight, Fresh, None
  <2>4. ~SoundAsked
    BY <2>1 DEF SoundAsked, Asked, None
  <2>5. LoopbackFollows
    BY <2>1, <2>2, <2>4 DEF LoopbackFollows, SwitchesFollow, Calm, SoundRight, None
  <2>6. QED
    BY <2>3, <2>5 DEF MutesFollow
<1>2. QED
  BY <1>1, InitFollows, FollowInductive, BridgeAlwaysOK, TypesInductive, PTL DEF Spec
=============================================================================
