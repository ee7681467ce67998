-------------------------------- MODULE Bridge --------------------------------
(* The control bridge of the host: the toolbar (gui_overlay.py), the request   *)
(* threads (bridge_server.py), the page they serve (ui_failsafe.py) and the    *)
(* switches of the operating system (system_util.py).                          *)
(*                                                                             *)
(* A step is what a thread does between two reads or writes of shared state.   *)
(* The toolbar asks the page through one slot, pending, which the page polls;  *)
(* the page answers with reports, each handled by a thread of its own.         *)
EXTENDS Naturals, Sequences, SequencesExt

CONSTANTS
    Mics,       \* the physical microphones of the host
    Polls,      \* polls of the page that may be under way at the same time
    MaxClicks,  \* bound: what the user does, "Exit" apart
    MaxReports  \* bound: reports of the page that are under way at the same time

ASSUME BoundsAssumption == MaxClicks \in Nat /\ MaxReports \in Nat

VARIABLES
    app,        \* app_state
    pending,    \* pending_action
    gui,        \* the thread of the toolbar
    shown,      \* what the toolbar says: the flags it showed last, the button "Share"
    queued,     \* states emitted and not delivered to the toolbar yet
    page,       \* the flags of the page
    asked,      \* captures and microphones the page is waiting for
    polls,      \* polls under way
    reports,    \* reports under way, in the order in which they were sent
    muted,      \* the switches: physical microphones, and the source of the computer's sound
    clicks,
    mishaps     \* history: what has gone wrong on the way between toolbar and page

vars == <<app, pending, gui, shown, queued, page, asked, polls, reports, muted, clicks, mishaps>>

Flags == {"sharing", "paused", "micMuted", "soundMuted"}
None == "none"
Actions == {"start_share", "stop_share", "toggle_pause", "toggle_mic", "toggle_sound"}
ToggleOf == [micMuted |-> "toggle_mic", soundMuted |-> "toggle_sound"]
NoFlags == [f \in Flags |-> FALSE]

Idle == [at |-> "idle", flag |-> None, new |-> FALSE, todo |-> {}]
NoPoll == [at |-> "idle", action |-> None]

Init ==
    /\ app = NoFlags
    /\ pending = "start_share"
    /\ gui = [Idle EXCEPT !.at = "none"]
    /\ shown = [flags |-> NoFlags, share |-> "Share"]
    /\ queued = <<>>
    /\ page = NoFlags
    \* The page asks for the screen when its socket is open, whatever it polls.
    /\ asked = [screen |-> 1, mic |-> 0]
    /\ polls = [p \in Polls |-> NoPoll]
    /\ reports = <<>>
    /\ muted = [mics |-> [m \in Mics |-> FALSE], loopback |-> FALSE]
    /\ clicks = 0
    /\ mishaps = {}

PageOpen == gui.at \notin {"leaving", "exited"} /\ gui.flag # "exit" /\ Len(reports) < MaxReports
Running == gui.at # "exited"

\* Nothing is under way between the toolbar and the page.
Settled ==
    /\ gui.at = "idle"
    /\ queued = <<>>
    /\ reports = <<>>
    /\ pending = None
    /\ asked = [screen |-> 0, mic |-> 0]
    /\ \A p \in Polls : polls[p].action = None

-------------------------------------------------------------------------------
\* The slot.

\* A request that is still there when the next one is set is lost.
Lost == {d \in {"lost"} : pending # None}

set_pending_action(a) ==
    /\ pending' = a
    /\ mishaps' = mishaps \union Lost

\* A request thread reads the slot ...
PollRead(p) ==
    /\ PageOpen
    /\ polls[p].at = "idle"
    /\ polls' = [polls EXCEPT ![p] = [at |-> "read", action |-> pending]]
    /\ UNCHANGED <<app, pending, gui, shown, queued, page, asked, reports, muted, clicks, mishaps>>

\* ... and clears it, whatever is in it by then: a click since then is lost, and
\* a request that another poll has read too is obeyed twice.
PollClear(p) ==
    /\ Running
    /\ polls[p].at = "read"
    \* Nothing comes of the answer "none".
    /\ polls' = [polls EXCEPT ![p] = IF @.action = None THEN NoPoll ELSE [@ EXCEPT !.at = "cleared"]]
    /\ pending' = None
    /\ mishaps' = mishaps
         \union {d \in {"lost"} : pending \notin {None, polls[p].action}}
         \union {d \in {"doubled"} : polls[p].action \notin {None, pending}}
    /\ UNCHANGED <<app, gui, shown, queued, page, asked, reports, muted, clicks>>

-------------------------------------------------------------------------------
\* The page.

Report(values) == Append(reports, [values |-> values, at |-> "sent", todo |-> {}])
Told(fs) == [f \in fs |-> page'[f]]

Ended == [f \in {"sharing", "paused"} |-> FALSE]

\* stopShare.
Stop ==
    /\ page' = [page EXCEPT !.sharing = FALSE, !.paused = FALSE]
    /\ reports' = Report(Ended)

\* What the page does with the answer to a poll.
Obey(a) ==
    \/ /\ a = "start_share"
       /\ asked' = [asked EXCEPT !.screen = @ + 1]
       /\ UNCHANGED <<page, reports>>
    \/ /\ a = "stop_share"
       /\ Stop
       /\ UNCHANGED asked
    \/ /\ a = "toggle_pause"
       /\ IF page.sharing
          THEN /\ page' = [page EXCEPT !.paused = ~@]
               /\ reports' = Report(Told(Flags))
          ELSE UNCHANGED <<page, reports>>
       /\ UNCHANGED asked
    \/ /\ a = "toggle_mic"
       /\ page' = [page EXCEPT !.micMuted = ~@]
       \* Switching on may have to wait for the microphone before it is reported.
       /\ \/ /\ page.micMuted
             /\ asked' = [asked EXCEPT !.mic = @ + 1]
             /\ UNCHANGED reports
          \/ /\ reports' = Report(Told({"micMuted"}))
             /\ UNCHANGED asked
    \/ /\ a = "toggle_sound"
       /\ page' = [page EXCEPT !.soundMuted = ~@]
       /\ reports' = Report(Told({"soundMuted"}))
       /\ UNCHANGED asked

PollAnswered(p) ==
    /\ PageOpen
    /\ polls[p].at = "cleared"
    /\ polls' = [polls EXCEPT ![p] = NoPoll]
    /\ Obey(polls[p].action)
    /\ UNCHANGED <<app, pending, gui, shown, queued, muted, clicks, mishaps>>

MutantCaptureGranted ==      \* does not report that the pause is over
    /\ PageOpen
    /\ asked.screen > 0
    /\ asked' = [asked EXCEPT !.screen = @ - 1]
    /\ page' = [page EXCEPT !.sharing = TRUE, !.paused = FALSE]
    /\ reports' = Report(Told({"sharing"}))
    /\ UNCHANGED <<app, pending, gui, shown, queued, polls, muted, clicks, mishaps>>

\* startShare gets the screen.
CaptureGranted ==
    /\ PageOpen
    /\ asked.screen > 0
    /\ asked' = [asked EXCEPT !.screen = @ - 1]
    /\ page' = [page EXCEPT !.sharing = TRUE, !.paused = FALSE]
    /\ reports' = Report(Told(Flags))
    /\ UNCHANGED <<app, pending, gui, shown, queued, polls, muted, clicks, mishaps>>

\* startShare fails, and reports that nothing is shared even if an earlier
\* capture is.
CaptureRefused ==
    /\ PageOpen
    /\ asked.screen > 0
    /\ asked' = [asked EXCEPT !.screen = @ - 1]
    /\ reports' = Report(Ended)
    /\ mishaps' = mishaps \union {d \in {"refused"} : page.sharing}
    /\ UNCHANGED <<app, pending, gui, shown, queued, page, polls, muted, clicks>>

\* The user ends the capture in the bar of the browser.
CaptureEnds ==
    /\ PageOpen
    /\ page.sharing
    /\ clicks < MaxClicks
    /\ clicks' = clicks + 1
    /\ Stop
    /\ UNCHANGED <<app, pending, gui, shown, queued, asked, polls, muted, mishaps>>

\* setMicEnabled goes on after its await.
MicDone ==
    /\ PageOpen
    /\ asked.mic > 0
    /\ asked' = [asked EXCEPT !.mic = @ - 1]
    /\ reports' = Append(reports, [values |-> [f \in {"micMuted"} |-> page[f]],
                                   at |-> "sent", todo |-> {}])
    /\ UNCHANGED <<app, pending, gui, shown, queued, page, polls, muted, clicks, mishaps>>

-------------------------------------------------------------------------------
\* The threads that handle reports (do_POST).


update_app_state(values) ==
    app' = [f \in Flags |-> IF f \in DOMAIN values THEN values[f] ELSE app[f]]

ReportUpdates(i) ==
    /\ Running
    /\ reports[i].at = "sent"
    /\ update_app_state(reports[i].values)
    /\ reports' = [reports EXCEPT ![i].at = "updated"]
    /\ mishaps' = mishaps \union
         {d \in {"reordered"} : \E j \in 1 .. i - 1 : reports[j].at = "sent"}
    /\ UNCHANGED <<pending, gui, shown, queued, page, asked, polls, muted, clicks>>

MutantEmit ==                \* one state in the queue is enough
    IF gui.at = "none"
    THEN /\ mishaps' = mishaps \union {"missed"}
         /\ UNCHANGED queued
    ELSE /\ queued' = IF queued = <<>> THEN <<app>> ELSE queued
         /\ mishaps' = mishaps \ {"missed"}

\* A state that is emitted before the toolbar is there reaches nobody; the next
\* one makes up for it.
Emit ==
    IF gui.at = "none"
    THEN /\ mishaps' = mishaps \union {"missed"}
         /\ UNCHANGED queued
    ELSE /\ queued' = Append(queued, app)
         /\ mishaps' = mishaps \ {"missed"}

ReportEmits(i) ==
    /\ Running
    /\ reports[i].at = "updated"
    /\ Emit
    /\ reports' = IF "micMuted" \in DOMAIN reports[i].values
                  THEN [reports EXCEPT ![i].at = "muting", ![i].todo = Mics]
                  ELSE RemoveAt(reports, i)
    /\ UNCHANGED <<app, pending, gui, shown, page, asked, polls, muted, clicks>>

\* set_physical_mics_muted calls the mixer once for every microphone.
ReportMutes(i, m) ==
    /\ Running
    /\ reports[i].at = "muting"
    /\ m \in reports[i].todo
    /\ muted' = [muted EXCEPT !.mics[m] = reports[i].values.micMuted]
    /\ reports' = IF reports[i].todo = {m} THEN RemoveAt(reports, i)
                  ELSE [reports EXCEPT ![i].todo = @ \ {m}]
    /\ UNCHANGED <<app, pending, gui, shown, queued, page, asked, polls, clicks, mishaps>>

-------------------------------------------------------------------------------
\* The toolbar.

ToolbarUp ==
    /\ gui.at = "none"
    /\ gui' = Idle
    /\ UNCHANGED <<app, pending, shown, queued, page, asked, polls, reports, muted, clicks, mishaps>>

Hasty == {d \in {"hasty"} : ~Settled}

Click ==
    /\ gui.at = "idle"
    /\ clicks < MaxClicks
    /\ clicks' = clicks + 1

ClickShare ==
    /\ Click
    /\ shown' = [shown EXCEPT !.share = IF app.sharing THEN "Stopping..." ELSE "Starting..."]
    /\ pending' = IF app.sharing THEN "stop_share" ELSE "start_share"
    /\ mishaps' = mishaps \union Lost \union Hasty
    /\ UNCHANGED <<app, gui, queued, page, asked, polls, reports, muted>>

\* The button is enabled only while the toolbar shows a share.
trigger_pause ==
    /\ Click
    /\ shown.flags.sharing
    /\ pending' = "toggle_pause"
    /\ mishaps' = mishaps \union Lost \union Hasty
    /\ UNCHANGED <<app, gui, shown, queued, page, asked, polls, reports, muted>>

\* toggle_mic and toggle_sound: the copy of the flag is flipped first, ...
Flip(f) ==
    /\ Click
    /\ app' = [app EXCEPT ![f] = ~@]
    /\ gui' = [Idle EXCEPT !.at = "flipped", !.flag = f, !.new = ~app[f]]
    /\ mishaps' = mishaps \union Hasty
    /\ UNCHANGED <<pending, shown, queued, page, asked, polls, reports, muted>>

\* ... then the page is asked to toggle its own, ...
AskPage ==
    /\ gui.at = "flipped"
    /\ set_pending_action(ToggleOf[gui.flag])
    /\ gui' = [gui EXCEPT !.at = "asked"]
    /\ UNCHANGED <<app, shown, queued, page, asked, polls, reports, muted, clicks>>

MutantGuiState(state, flag, new) ==      \* sets the microphones the other way round
    /\ shown' = [flags |-> state, share |-> IF state.sharing THEN "Stop" ELSE "Share"]
    /\ gui' = [at |-> IF state.micMuted THEN "unmute" ELSE "mute", flag |-> flag,
               new |-> new, todo |-> Mics]

\* update_gui_state shows a state and sets the microphones by it.
update_gui_state(state, flag, new) ==
    /\ shown' = [flags |-> state, share |-> IF state.sharing THEN "Stop" ELSE "Share"]
    /\ gui' = [at |-> IF state.micMuted THEN "mute" ELSE "unmute", flag |-> flag,
               new |-> new, todo |-> Mics]

ShowOwn ==
    /\ gui.at = "asked"
    /\ update_gui_state(app, gui.flag, gui.new)
    /\ UNCHANGED <<app, pending, queued, page, asked, polls, reports, muted, clicks, mishaps>>

\* Whether the signal hands over app_state itself or a copy of it is up to the
\* binding of the library.
Deliver ==
    /\ gui.at = "idle"
    /\ queued # <<>>
    /\ \E state \in {Head(queued), app} : update_gui_state(state, None, FALSE)
    /\ queued' = Tail(queued)
    /\ UNCHANGED <<app, pending, page, asked, polls, reports, muted, clicks, mishaps>>

SetMic(m) ==
    /\ gui.at \in {"mute", "unmute"}
    /\ m \in gui.todo
    /\ muted' = [muted EXCEPT !.mics[m] = (gui.at = "mute")]
    /\ gui' = IF gui.todo # {m} THEN [gui EXCEPT !.todo = @ \ {m}]
              ELSE CASE gui.flag = "micMuted" ->
                          [Idle EXCEPT !.at = IF gui.new THEN "mute" ELSE "unmute", !.todo = Mics]
                     [] gui.flag = "soundMuted" -> [gui EXCEPT !.at = "loopback", !.todo = {}]
                     [] gui.flag = "exit" -> [Idle EXCEPT !.at = "exited"]
                     [] OTHER -> Idle
    /\ reports' = IF gui.flag = "exit" /\ gui.todo = {m} THEN <<>> ELSE reports
    /\ UNCHANGED <<app, pending, shown, queued, page, asked, polls, clicks, mishaps>>


SetLoopback ==
    /\ gui.at = "loopback"
    /\ muted' = [muted EXCEPT !.loopback = gui.new]
    /\ gui' = Idle
    /\ UNCHANGED <<app, pending, shown, queued, page, asked, polls, reports, clicks, mishaps>>

\* "Exit": the browser is ended, and waited for, ...
Quit ==
    /\ gui.at = "idle"
    /\ gui' = [Idle EXCEPT !.at = "leaving"]
    /\ page' = NoFlags
    /\ asked' = [screen |-> 0, mic |-> 0]
    /\ polls' = [p \in Polls |-> NoPoll]
    /\ queued' = <<>>
    /\ UNCHANGED <<app, pending, shown, reports, muted, clicks, mishaps>>

MutantCleanupAudio ==        \* leaves the microphones as the user has set them
    /\ gui.at = "leaving"
    /\ gui' = [Idle EXCEPT !.at = IF app.micMuted THEN "mute" ELSE "unmute",
                           !.flag = "exit", !.todo = Mics]
    /\ UNCHANGED <<app, pending, shown, queued, page, asked, polls, reports, muted, clicks, mishaps>>

\* ... cleanup_audio unmutes the microphones, and the process ends, with the
\* threads that handle requests.
CleanupAudio ==
    /\ gui.at = "leaving"
    /\ gui' = [Idle EXCEPT !.at = "unmute", !.flag = "exit", !.todo = Mics]
    /\ mishaps' = mishaps \union {d \in {"overrun"} : reports # <<>>}
    /\ UNCHANGED <<app, pending, shown, queued, page, asked, polls, reports, muted, clicks>>

-------------------------------------------------------------------------------
Poll(p) == PollRead(p) \/ PollClear(p) \/ PollAnswered(p)
Handle(i) == ReportUpdates(i) \/ ReportEmits(i) \/ \E m \in Mics : ReportMutes(i, m)
Toolbar ==
    \/ ToolbarUp \/ AskPage \/ ShowOwn \/ Deliver \/ SetLoopback
    \/ CleanupAudio \/ \E m \in Mics : SetMic(m)
User == ClickShare \/ trigger_pause \/ Flip("micMuted") \/ Flip("soundMuted") \/ Quit
Capture == CaptureGranted \/ CaptureRefused

Next ==
    \/ \E p \in Polls : Poll(p)
    \/ \E i \in DOMAIN reports : Handle(i)
    \/ Toolbar \/ User \/ Capture \/ CaptureEnds \/ MicDone

Spec == Init /\ [][Next]_vars

-------------------------------------------------------------------------------
TypeOK ==
    /\ app \in [Flags -> BOOLEAN]
    /\ page \in [Flags -> BOOLEAN]
    /\ pending \in Actions \union {None}
    /\ shown \in [flags : [Flags -> BOOLEAN],
                  share : {"Share", "Starting...", "Stop", "Stopping..."}]
    /\ muted \in [mics : [Mics -> BOOLEAN], loopback : BOOLEAN]
    /\ gui.at \in {"none", "idle", "flipped", "asked", "mute", "unmute", "loopback",
                   "leaving", "exited"}
    /\ gui.todo \subseteq Mics
    /\ asked \in [screen : Nat, mic : Nat]
    /\ mishaps \subseteq {"lost", "doubled", "refused", "reordered", "missed", "hasty", "overrun"}

\* app_state is what the page is, once everything has arrived: whatever was
\* clicked and reported in whatever order, only a lost request, a report that
\* overtook an earlier one, or a capture that was refused while another one ran
\* can leave the two apart.
PageIsKnown ==
    Settled /\ mishaps \intersect {"lost", "reordered", "refused"} = {} => app = page

\* The toolbar then shows app_state, and its button is not stuck at "Starting...":
\* it can only be wrong by a lost request, or by a report from before the toolbar
\* was there that has not been followed by another.
ToolbarIsTrue ==
    Settled /\ mishaps \intersect {"lost", "missed"} = {} =>
        /\ shown.flags = app
        /\ shown.share = IF app.sharing THEN "Stop" ELSE "Share"

\* The microphones are muted exactly if app_state says so, provided that nobody
\* clicks while something is under way and no request is obeyed twice: the calls
\* of one change then never come after those of the next.
MicsFollow ==
    Settled /\ mishaps \intersect {"hasty", "doubled"} = {} =>
        \A m \in Mics : muted.mics[m] = app.micMuted

\* The computer's sound is only switched by clicks, but stays in step with what the
\* page reports, under the same conditions and if no request is lost.
LoopbackFollows ==
    Settled /\ mishaps \intersect {"hasty", "doubled", "lost"} = {} =>
        muted.loopback = app.soundMuted

\* What is muted at the toolbar is muted in the operating system, and nothing else.
MutesFollow == MicsFollow /\ LoopbackFollows

\* "Restores the original audio default source and unmutes physical microphones"
\* (system_util.py): after the exit no microphone is muted, unless a report was
\* still being handled when cleanup_audio began.
ExitUnmutes ==
    gui.at = "exited" /\ "overrun" \notin mishaps =>
        \A m \in Mics : ~muted.mics[m]
=============================================================================
