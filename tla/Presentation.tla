---------------------------- MODULE Presentation ----------------------------
(***************************************************************************)
(* The page that presents (ui/src/useRoom.ts, buttons of Room.tsx): screen  *)
(* capture, pause, mute and the peer connections to the viewers.  An action *)
(* is what JavaScript runs between two awaits; share, togglePause and       *)
(* hostSession go on in a later action, with whatever the page has become.  *)
(*                                                                         *)
(* Here the server is what the page sees of it: it announces a session to a *)
(* page that has sent share (Signaling follows both ends of a session).     *)
(***************************************************************************)
EXTENDS Naturals

CONSTANTS
    Sessions,       \* sessions the server may announce, each once
    AutoShare,      \* the URL says create=true
    MaxCaptures,    \* bound: how many captures the browser grants
    MaxFreezes      \* bound: how many pauses wait for their frame at a time

ASSUME PresentationAssumption ==
    /\ AutoShare \in BOOLEAN
    /\ MaxCaptures \in Nat
    /\ MaxFreezes \in Nat

VARIABLES
    open,       \* conn.current is a WebSocket that is open
    state,      \* useRoom's state: in a room, hostStream is set, paused
    shown,      \* what the rendered page offers (callbacksRef.hasHostStream)
    told,       \* the last of share and stopshare sent in this room was share
    shareAt,    \* the await share() is in: "idle" when it does not run
    pending,    \* the capture share() has been granted, 0: none
    stream,     \* stream.current: a capture, 0: undefined
    capture,    \* per capture, the state of its video track
    dark,       \* captures whose video track is disabled
    isPaused, frozen,   \* pauseDataRef.current: the flag, frozenStream is set
    freezing,   \* how many calls of togglePause wait for a frame
    peer,       \* per session, how far the page is with its peer connection
    track,      \* per session, the video it sends: a capture, 0: a frozen frame
    micMuted, soundMuted,   \* isMicMutedRef, isSoundMutedRef
    graph,      \* the capture has an AudioContext
    mic, sys,           \* tracks of micStreamRef and sysStreamRef
    micGain, sysGain    \* the two gain nodes

roomVars == <<open, state, shown, told>>
shareVars == <<shareAt, pending, stream, capture>>
pauseVars == <<dark, isPaused, frozen, freezing>>
peerVars == <<peer, track>>
audioVars == <<micMuted, soundMuted, graph, mic, sys, micGain, sysGain>>
pageVars == <<roomVars, shareVars, pauseVars, peerVars, audioVars>>

Captures == 1 .. MaxCaptures
Out == [in |-> FALSE, sharing |-> FALSE, paused |-> FALSE]

\* host.current
Hosted == {s \in Sessions : peer[s] = "host"}

Enabled(muted) == IF muted THEN "off" ELSE "on"
\* A track or gain that exists is set, one that does not stays away.
Set(audio, muted) == IF audio = "none" THEN "none" ELSE Enabled(muted)

PageInit ==
    /\ open = FALSE /\ state = Out /\ shown = Out /\ told = FALSE
    /\ shareAt = "idle" /\ pending = 0 /\ stream = 0
    /\ capture = [k \in Captures |-> "none"]
    /\ dark = {} /\ isPaused = FALSE /\ frozen = FALSE /\ freezing = 0
    /\ peer = [s \in Sessions |-> "none"]
    /\ track = [s \in Sessions |-> 0]
    /\ micMuted = FALSE /\ soundMuted = FALSE /\ graph = FALSE
    /\ mic = "none" /\ sys = "none" /\ micGain = "none" /\ sysGain = "none"

\* setState changes the state of a page that is in a room.
SetState(sharing, paused) ==
    state' = IF state.in THEN [in |-> TRUE, sharing |-> sharing, paused |-> paused]
                         ELSE state
-----------------------------------------------------------------------------
\* share() up to its first await.
MutantShare == shareAt' = IF shareAt = "idle" THEN "display" ELSE shareAt
share == shareAt' = IF shareAt = "idle" /\ stream = 0 THEN "display" ELSE shareAt

\* ws.onopen, which sends create or join: the page that is rendered shows no room.
OpenSocket ==
    /\ ~open /\ ~shown.in
    /\ open' = TRUE
    /\ UNCHANGED <<state, shown, told, shareVars, pauseVars, peerVars, audioVars>>

\* The first message of a WebSocket is the room; a page opened with create=true
\* presents at once.
EnterRoom ==
    /\ open /\ ~state.in
    /\ state' = [Out EXCEPT !.in = TRUE]
    /\ IF AutoShare THEN share ELSE UNCHANGED shareAt
    /\ UNCHANGED <<open, shown, told, pending, stream, capture, pauseVars, peerVars,
                   audioVars>>

\* ws.onclose and ws.onerror.  What was on its way is lost.
LoseRoom ==
    /\ open
    /\ open' = FALSE
    /\ state' = Out
    /\ told' = FALSE
    /\ peer' = [s \in Sessions |-> IF peer[s] = "announced" THEN "gone" ELSE peer[s]]
    /\ UNCHANGED <<shown, shareVars, pauseVars, track, audioVars>>

\* React renders the state; clicks, hotkeys and polled actions then use it.
Render ==
    /\ shown # state
    /\ shown' = state
    /\ UNCHANGED <<open, state, told, shareVars, pauseVars, peerVars, audioVars>>

ClickShare ==
    /\ shown.in /\ ~shown.sharing
    /\ share
    /\ UNCHANGED <<roomVars, pending, stream, capture, pauseVars, peerVars, audioVars>>

\* Every form of getDisplayMedia was refused.
DisplayFails ==
    /\ shareAt = "display"
    /\ shareAt' = "idle"
    /\ UNCHANGED <<roomVars, pending, stream, capture, pauseVars, peerVars, audioVars>>

\* The gain nodes start with the mute flags of this moment.
MutantGain(muted) == "on"
Gain(muted) == Enabled(muted)

\* getDisplayMedia grants capture k, with or without sound; ctx: the
\* AudioContext could be made.
DisplayGranted(k, sound, ctx) ==
    /\ shareAt = "display"
    /\ capture[k] = "none" /\ \A j \in 1 .. (k - 1) : capture[j] # "none"
    /\ capture' = [capture EXCEPT ![k] = "live"]
    /\ pending' = k
    /\ graph' = ctx
    /\ micGain' = IF ctx THEN Gain(micMuted) ELSE micGain
    /\ sysGain' = IF ctx THEN Gain(soundMuted) ELSE sysGain
    /\ sys' = IF sound THEN "on" ELSE sys
    /\ shareAt' = IF sound THEN "mic" ELSE "loopback"
    /\ UNCHANGED <<roomVars, stream, pauseVars, peerVars, micMuted, soundMuted, mic>>

\* The search for a loopback device found sound or did not.
LoopbackDone(sound) ==
    /\ shareAt = "loopback"
    /\ sys' = IF sound THEN "on" ELSE sys
    /\ shareAt' = "mic"
    /\ UNCHANGED <<roomVars, pending, stream, capture, pauseVars, peerVars,
                   micMuted, soundMuted, graph, mic, micGain, sysGain>>

\* The search for a microphone is over: share() runs to its end.  The page
\* listens to "ended" of the video track from here on.
ShareDone(microphone) ==
    /\ shareAt = "mic"
    /\ mic' = IF microphone THEN Enabled(micMuted) ELSE mic
    /\ stream' = pending
    /\ pending' = 0
    /\ shareAt' = "idle"
    /\ SetState(TRUE, FALSE)
    /\ told' = open
    /\ UNCHANGED <<open, shown, capture, pauseVars, peerVars, micMuted, soundMuted,
                   graph, sys, micGain, sysGain>>

\* stopShare(), when capture k is what stops (0: there is none).
MutantToldAfterStop == told
ToldAfterStop == told /\ ~open
Stopped(at) == IF at \in {"live", "ended"} THEN "stopped" ELSE at

stopShare ==
    /\ isPaused' = FALSE /\ frozen' = FALSE
    /\ mic' = "none" /\ sys' = "none" /\ micGain' = "none" /\ sysGain' = "none"
    /\ peer' = [s \in Sessions |-> IF peer[s] = "host" THEN "gone" ELSE peer[s]]
    /\ capture' = [k \in Captures |-> IF k = stream THEN Stopped(capture[k])
                                                    ELSE capture[k]]
    /\ stream' = 0
    /\ told' = ToldAfterStop
    /\ SetState(FALSE, FALSE)
    /\ UNCHANGED <<open, shown, shareAt, pending, dark, freezing, track, micMuted,
                   soundMuted, graph>>

ClickStop == shown.sharing /\ stopShare

\* The user ends the capture in the browser's own bar, which the page notices
\* when share() is done.
CaptureEnds(k) ==
    /\ capture[k] = "live"
    /\ \/ k = stream /\ stopShare
       \/ /\ k # stream
          /\ capture' = [capture EXCEPT ![k] = "ended"]
          /\ UNCHANGED <<roomVars, shareAt, pending, stream, pauseVars, peerVars,
                         audioVars>>
-----------------------------------------------------------------------------
\* togglePause() while paused: everything it does.
Resume ==
    /\ shown.in /\ stream # 0 /\ isPaused
    /\ isPaused' = FALSE /\ frozen' = FALSE
    /\ dark' = dark \ {stream}
    /\ track' = [s \in Sessions |-> IF s \in Hosted THEN stream ELSE track[s]]
    /\ SetState(state.sharing, FALSE)
    /\ UNCHANGED <<open, shown, told, shareVars, freezing, peer, audioVars>>

\* togglePause() while not paused, up to the wait for a frame.
Pause ==
    /\ shown.in /\ stream # 0 /\ ~isPaused
    /\ freezing < MaxFreezes
    /\ isPaused' = TRUE
    /\ freezing' = freezing + 1
    /\ SetState(state.sharing, TRUE)
    /\ UNCHANGED <<open, shown, told, shareVars, dark, frozen, peerVars, audioVars>>

\* The frame is there: every viewer gets it, whatever happened meanwhile.
FrameFrozen ==
    /\ freezing > 0
    /\ freezing' = freezing - 1
    /\ frozen' = TRUE
    /\ track' = [s \in Sessions |-> IF s \in Hosted THEN 0 ELSE track[s]]
    /\ UNCHANGED <<roomVars, shareVars, dark, isPaused, peer, audioVars>>

\* No frame in 1.5 s, or no captureStream: the track of the stream that is
\* there now, if any, is disabled.
FreezeFails ==
    /\ freezing > 0
    /\ freezing' = freezing - 1
    /\ dark' = dark \cup ({stream} \ {0})
    /\ UNCHANGED <<roomVars, shareVars, isPaused, frozen, peerVars, audioVars>>
-----------------------------------------------------------------------------
\* The server has a session for a viewer of this page.
Announce(s) ==
    /\ told /\ peer[s] = "none"
    /\ peer' = [peer EXCEPT ![s] = "announced"]
    /\ UNCHANGED <<roomVars, shareVars, pauseVars, track, audioVars>>

\* hostsession arrives: the track is chosen before hostSession() waits for its
\* offer, and the peer connection enters host.current after.
HostSession(s) ==
    /\ peer[s] = "announced"
    /\ IF stream = 0
          THEN peer' = [peer EXCEPT ![s] = "gone"] /\ UNCHANGED track
          ELSE /\ peer' = [peer EXCEPT ![s] = "offering"]
               /\ track' = [track EXCEPT ![s] = IF isPaused /\ frozen THEN 0
                                                                     ELSE stream]
    /\ UNCHANGED <<roomVars, shareVars, pauseVars, audioVars>>

HostSessionDone(s) ==
    /\ peer[s] = "offering"
    /\ peer' = [peer EXCEPT ![s] = "host"]
    /\ UNCHANGED <<roomVars, shareVars, pauseVars, track, audioVars>>

\* The connection failed or was closed by the viewer: done().
PeerLost(s) ==
    /\ peer[s] = "host"
    /\ peer' = [peer EXCEPT ![s] = "gone"]
    /\ UNCHANGED <<roomVars, shareVars, pauseVars, track, audioVars>>
-----------------------------------------------------------------------------
ToggleMic ==
    /\ shown.in
    /\ micMuted' = ~micMuted
    /\ micGain' = Set(micGain, micMuted')
    /\ mic' = Set(mic, micMuted')
    /\ UNCHANGED <<roomVars, shareVars, pauseVars, peerVars, soundMuted, graph,
                   sys, sysGain>>

ToggleSystemAudio ==
    /\ shown.in
    /\ soundMuted' = ~soundMuted
    /\ sysGain' = Set(sysGain, soundMuted')
    /\ sys' = Set(sys, soundMuted')
    /\ UNCHANGED <<roomVars, shareVars, pauseVars, peerVars, micMuted, graph,
                   mic, micGain>>

PageNext ==
    \/ OpenSocket \/ EnterRoom \/ LoseRoom \/ Render
    \/ ClickShare \/ DisplayFails \/ ClickStop
    \/ \E k \in Captures :
          \/ CaptureEnds(k)
          \/ \E sound, ctx \in BOOLEAN : DisplayGranted(k, sound, ctx)
    \/ \E found \in BOOLEAN : LoopbackDone(found) \/ ShareDone(found)
    \/ Resume \/ Pause \/ FrameFrozen \/ FreezeFails
    \/ \E s \in Sessions :
          Announce(s) \/ HostSession(s) \/ HostSessionDone(s) \/ PeerLost(s)
    \/ ToggleMic \/ ToggleSystemAudio

PageSpec == PageInit /\ [][PageNext]_pageVars
-----------------------------------------------------------------------------
\* Every variable has its type, and share() holds a capture only while it runs.
PageTypeOK ==
    /\ {open, told, isPaused, frozen, micMuted, soundMuted, graph} \subseteq BOOLEAN
    /\ {state, shown} \subseteq [in : BOOLEAN, sharing : BOOLEAN, paused : BOOLEAN]
    /\ shareAt \in {"idle", "display", "loopback", "mic"}
    /\ pending \in IF shareAt \in {"loopback", "mic"} THEN Captures ELSE {0}
    /\ stream \in Captures \cup {0}
    /\ capture \in [Captures -> {"none", "live", "ended", "stopped"}]
    /\ dark \subseteq Captures
    /\ freezing \in 0 .. MaxFreezes
    /\ peer \in [Sessions -> {"none", "announced", "offering", "host", "gone"}]
    /\ track \in [Sessions -> Captures \cup {0}]
    /\ {mic, sys, micGain, sysGain} \subseteq {"none", "on", "off"}

\* Whatever the clicks, lost connections and awaits: a capture that runs is the
\* one presented or the one share() is about to present, so stopping stops it,
\* and the microphone is open only while something is presented.
CaptureOwned ==
    /\ \A k \in Captures : capture[k] = "live" => k \in {stream, pending}
    /\ mic # "none" => stream # 0

\* The server takes this page for a presenter only while it has a stream: else
\* viewers would wait for offers that hostsession does not make.
NoGhostHost == told => stream # 0

\* What is muted cannot be heard, also when it was muted before the presentation
\* or while share() was waiting (without an AudioContext the sound of the
\* computer is only muted by the toggle itself).
MuteObeyed ==
    stream # 0 =>
        /\ micMuted => ~(mic = "on" /\ micGain = "on")
        /\ soundMuted /\ graph => ~(sys = "on" /\ sysGain = "on")

\* "Pause Presentation", "Resume Presentation" (Room.tsx): when no frame is being
\* waited for, no viewer gets the live picture of a paused presentation, and none
\* is left with a frozen or dark one when it is resumed.
PauseObeyed ==
    stream # 0 /\ freezing = 0 =>
        \A s \in Hosted : isPaused <=> track[s] = 0 \/ track[s] \in dark

\* "You are sharing your screen", "Start Presentation" (Room.tsx): outside of
\* share() the page says that it presents exactly when it does, and so offers to
\* stop what can be stopped, and to start when share() will start something.
StatusIsTrue ==
    state.in /\ shareAt = "idle" =>
        (state.sharing <=> stream # 0 /\ capture[stream] = "live")
=============================================================================
