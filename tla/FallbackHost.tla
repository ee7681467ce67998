---------------------------- MODULE FallbackHost ----------------------------
(* The page that the host is served when the real one could not be built       *)
(* (ui_failsafe.py), in its role of presenter: what it captures, and what its  *)
(* peer connections send. A step is what JavaScript runs between two awaits.   *)
(* Nothing stops startShare from being called again while it runs or while     *)
(* something is presented, and onopen and the first poll do call it twice.     *)
EXTENDS Naturals, FiniteSets

CONSTANTS
    Sessions,    \* sessions the server announces, one peer connection each
    MaxCaptures, \* bound: calls of startShare
    MaxMics      \* bound: microphones asked for

ASSUME BoundsAssumption == MaxCaptures \in Nat /\ MaxMics \in Nat

VARIABLES
    socket,       \* the WebSocket and what the server takes the page for
    coming,       \* sessions announced and not handled yet
    video,        \* video[k]: the screen of the k-th startShare
    sound,        \* sound[k]: its sound
    activeStream, \* the capture presented, 0 for none
    isPaused,
    frozen,       \* frozenVideoTrack is set
    dark,         \* captures whose video track is disabled
    isSoundMuted,
    isMicMuted,
    mic,          \* mic[j]: the j-th microphone asked for
    micStream,    \* the microphone held, 0 for none
    inStream,     \* inStream[k]: microphones added to the stream of capture k
    sends,        \* sends[s]: the senders of the peer connection of s, if any
    mishaps       \* history: calls that came while another one was waiting

vars == <<socket, coming, video, sound, activeStream, isPaused, frozen, dark,
          isSoundMuted, isMicMuted, mic, micStream, inStream, sends, mishaps>>
micVars == <<isMicMuted, mic, micStream>>
pictureVars == <<video, isPaused, frozen, dark>>

Captures == 1 .. MaxCaptures
MicIds == 1 .. MaxMics
NoPeer == [made |-> FALSE, video |-> 0, sound |-> 0, mics |-> {}]
Frozen == MaxCaptures + 1      \* the video of a sender that shows the frozen frame
Peers == {s \in Sessions : sends[s].made}

Init ==
    /\ socket = "closed"
    /\ coming = {}
    /\ video = [k \in Captures |-> "none"]
    /\ sound = [k \in Captures |-> "none"]
    /\ activeStream = 0
    /\ isPaused = FALSE /\ frozen = FALSE /\ dark = {}
    /\ isSoundMuted = FALSE /\ isMicMuted = FALSE
    /\ mic = [j \in MicIds |-> "none"]
    /\ micStream = 0
    /\ inStream = [k \in Captures |-> {}]
    /\ sends = [s \in Sessions |-> NoPeer]
    /\ mishaps = {}

-------------------------------------------------------------------------------
\* startShare, called by onopen, the poll loop and the button of the page.

Asking == {k \in Captures : video[k] = "asked" \/ sound[k] = "asked"}

startShare ==
    /\ \E k \in Captures :
          /\ video[k] = "none"
          /\ \A j \in 1 .. k - 1 : video[j] # "none"
          /\ video' = [video EXCEPT ![k] = "asked"]
    /\ mishaps' = mishaps \union
         {d \in {"twice"} : activeStream # 0 \/ Asking # {}}

OpenSocket ==
    /\ socket = "closed"
    /\ socket' = "open"
    /\ \/ startShare
       \/ /\ \A k \in Captures : video[k] # "none"     \* the bound is used up
          /\ UNCHANGED <<video, mishaps>>
    /\ UNCHANGED <<coming, sound, activeStream, isPaused, frozen, dark, isSoundMuted, micVars,
                   inStream, sends>>

\* The capture and its peer connections go on; the server forgets the page.
LoseSocket ==
    /\ socket # "closed"
    /\ socket' = "closed"
    /\ coming' = {}
    /\ UNCHANGED <<pictureVars, sound, activeStream, isSoundMuted, micVars, inStream, sends, mishaps>>

AskToShare ==
    /\ startShare
    /\ UNCHANGED <<socket, coming, sound, activeStream, isPaused, frozen, dark, isSoundMuted,
                   micVars, inStream, sends>>

\* The first sender with a track of the same kind gets the new track, even if
\* that is a microphone; without one a sender is added.
Replaced(p, k, heard) ==
    IF ~heard THEN {[p EXCEPT !.video = k]}
    ELSE IF p.sound # 0 \/ p.mics = {} THEN {[p EXCEPT !.video = k, !.sound = k]}
    ELSE {[p EXCEPT !.video = k, !.sound = k, !.mics = @ \ {j}] : j \in p.mics}

\* The end of startShare: capture k is presented, announced and sent.
Present(k, heard) ==
    /\ activeStream' = k
    /\ isPaused' = FALSE
    /\ sends' \in {f \in [Sessions -> UNION {Replaced(sends[s], k, heard) : s \in Sessions} \union {NoPeer}] :
                      \A s \in Sessions : IF sends[s].made THEN f[s] \in Replaced(sends[s], k, heard)
                                          ELSE f[s] = NoPeer}
    /\ socket' = IF socket = "closed" THEN "closed" ELSE "sharing"
    /\ UNCHANGED <<coming, frozen, dark, isSoundMuted, micVars, inStream, mishaps>>

\* A new sound track starts as the toolbar's mute says.
Enabled == IF isSoundMuted THEN "off" ELSE "on"

\* The screen is granted with sound, or without: then a loopback device is tried.
DisplayGranted(k) ==
    /\ video[k] = "asked"
    /\ video' = [video EXCEPT ![k] = "live"]
    /\ \/ /\ sound' = [sound EXCEPT ![k] = Enabled]
          /\ Present(k, TRUE)
       \/ /\ sound' = [sound EXCEPT ![k] = "asked"]
          /\ UNCHANGED <<socket, coming, activeStream, isPaused, frozen, dark, isSoundMuted,
                         micVars, inStream, sends, mishaps>>

DisplayRefused(k) ==
    /\ video[k] = "asked"
    /\ video' = [video EXCEPT ![k] = "over"]
    /\ UNCHANGED <<socket, coming, sound, activeStream, isPaused, frozen, dark, isSoundMuted,
                   micVars, inStream, sends, mishaps>>

\* Whatever comes of the loopback device, the capture is presented.
LoopbackDone(k) ==
    /\ sound[k] = "asked"
    /\ \E heard \in BOOLEAN :
          /\ sound' = [sound EXCEPT ![k] = IF heard THEN Enabled ELSE "over"]
          /\ Present(k, heard)
    /\ UNCHANGED video

-------------------------------------------------------------------------------
\* stopShare: the stream presented and the microphone held are stopped; the peer
\* connections stay as they are.
MutantDropStream(v) ==       \* forgets the stream without stopping its tracks
    /\ video' = v
    /\ activeStream' = 0 /\ micStream' = 0
    /\ frozen' = FALSE /\ isPaused' = FALSE
    /\ UNCHANGED <<sound, mic>>

StopTracks(v) ==
    /\ video' = IF activeStream = 0 THEN v ELSE [v EXCEPT ![activeStream] = "over"]
    /\ sound' = IF activeStream = 0 THEN sound ELSE [sound EXCEPT ![activeStream] = "over"]
    /\ activeStream' = 0
    /\ mic' = [j \in MicIds |->
                 IF j = micStream \/ (activeStream # 0 /\ j \in inStream[activeStream])
                 THEN "over" ELSE mic[j]]
    /\ micStream' = 0
    /\ frozen' = FALSE
    /\ isPaused' = FALSE

AskedMics == {j \in MicIds : mic[j] = "asked"}

MutantQuietStop(v) ==        \* does not tell the server
    /\ StopTracks(v)
    /\ mishaps' = mishaps \union {d \in {"micLate"} : AskedMics # {}}
    /\ UNCHANGED <<socket, coming, dark, isSoundMuted, isMicMuted, inStream, sends>>

stopShare(v) ==
    /\ StopTracks(v)
    /\ socket' = IF socket = "sharing" THEN "open" ELSE socket
    /\ mishaps' = mishaps \union {d \in {"micLate"} : AskedMics # {}}
    /\ UNCHANGED <<coming, dark, isSoundMuted, isMicMuted, inStream, sends>>

StopShare == stopShare(video)

\* The browser ends a capture. startShare listens for that only from its end on,
\* but then also to captures that have been replaced.
CaptureEnds(k) ==
    /\ video[k] = "live"
    /\ IF sound[k] = "asked"
       THEN /\ video' = [video EXCEPT ![k] = "over"]
            /\ mishaps' = mishaps \union {"endedEarly"}
            /\ UNCHANGED <<socket, coming, sound, activeStream, isPaused, frozen, dark,
                           isSoundMuted, micVars, inStream, sends>>
       ELSE stopShare([video EXCEPT ![k] = "over"])

-------------------------------------------------------------------------------
\* togglePause never waits. The senders get a frame of a canvas; if that fails the
\* track is disabled.
HasVideo(s) == sends[s].video # 0

Pause ==
    /\ activeStream # 0
    /\ ~isPaused
    /\ isPaused' = TRUE
    /\ \/ /\ frozen' = TRUE
          /\ sends' = [s \in Sessions |-> IF HasVideo(s) THEN [sends[s] EXCEPT !.video = Frozen]
                                          ELSE sends[s]]
          /\ UNCHANGED dark
       \/ /\ dark' = dark \union {activeStream}
          /\ frozen' \in BOOLEAN     \* it fails before or after the canvas has a track
          /\ UNCHANGED sends
    /\ UNCHANGED <<socket, coming, video, sound, activeStream, isSoundMuted, micVars, inStream, mishaps>>

Resume ==
    /\ activeStream # 0
    /\ isPaused
    /\ isPaused' = FALSE
    /\ frozen' = FALSE
    /\ dark' = dark \ {activeStream}
    /\ sends' = [s \in Sessions |-> IF HasVideo(s) THEN [sends[s] EXCEPT !.video = activeStream]
                                    ELSE sends[s]]
    /\ UNCHANGED <<socket, coming, video, sound, activeStream, isSoundMuted, micVars, inStream, mishaps>>

-------------------------------------------------------------------------------
\* setMicEnabled(isMicMuted), toggleSoundMute.

EnableMic ==
    /\ isMicMuted
    /\ isMicMuted' = FALSE
    /\ IF micStream # 0 THEN UNCHANGED mic
       ELSE \E j \in MicIds :
               /\ mic[j] = "none"
               /\ \A i \in 1 .. j - 1 : mic[i] # "none"
               /\ mic' = [mic EXCEPT ![j] = "asked"]
    /\ UNCHANGED <<socket, coming, pictureVars, sound, activeStream, isSoundMuted, micStream,
                   inStream, sends, mishaps>>

\* The microphone comes after its await, whatever has happened to the flag.
MicGranted(j) ==
    /\ mic[j] = "asked"
    /\ mic' = [mic EXCEPT ![j] = "live"]
    /\ micStream' = j
    /\ IF activeStream = 0 THEN UNCHANGED <<inStream, sends>>
       ELSE /\ inStream' = [inStream EXCEPT ![activeStream] = @ \union {j}]
            /\ sends' = [s \in Sessions |-> IF sends[s].made THEN [sends[s] EXCEPT !.mics = @ \union {j}]
                                            ELSE sends[s]]
    /\ UNCHANGED <<socket, coming, pictureVars, sound, activeStream, isSoundMuted, isMicMuted, mishaps>>

MicRefused(j) ==
    /\ mic[j] = "asked"
    /\ mic' = [mic EXCEPT ![j] = "over"]
    /\ UNCHANGED <<socket, coming, pictureVars, sound, activeStream, isSoundMuted, isMicMuted,
                   micStream, inStream, sends, mishaps>>

MutantKeepMic ==             \* forgets the microphone without stopping it
    /\ ~isMicMuted
    /\ isMicMuted' = TRUE
    /\ micStream' = 0
    /\ UNCHANGED <<socket, coming, pictureVars, sound, activeStream, isSoundMuted, mic, inStream, sends, mishaps>>

DisableMic ==
    /\ ~isMicMuted
    /\ isMicMuted' = TRUE
    /\ mic' = IF micStream = 0 THEN mic ELSE [mic EXCEPT ![micStream] = "over"]
    /\ micStream' = 0
    /\ mishaps' = mishaps \union {d \in {"micLate"} : AskedMics # {}}
    /\ UNCHANGED <<socket, coming, pictureVars, sound, activeStream, isSoundMuted, inStream, sends>>

toggleSoundMute ==
    /\ isSoundMuted' = ~isSoundMuted
    /\ sound' = IF activeStream = 0 \/ sound[activeStream] = "over" THEN sound
                ELSE [sound EXCEPT ![activeStream] = IF isSoundMuted THEN "on" ELSE "off"]
    /\ UNCHANGED <<socket, coming, pictureVars, activeStream, micVars, inStream, sends, mishaps>>

-------------------------------------------------------------------------------
\* The server announces a session (room.go) and the page makes its peer connection,
\* with whatever is presented by then.
Announce(s) ==
    /\ socket = "sharing"
    /\ ~sends[s].made
    /\ coming' = coming \union {s}
    /\ UNCHANGED <<socket, pictureVars, sound, activeStream, isSoundMuted, micVars, inStream, sends, mishaps>>

MutantLiveSession(s) ==      \* sends the capture even when it is paused
    /\ s \in coming
    /\ coming' = coming \ {s}
    /\ sends' = [sends EXCEPT ![s] = [made |-> TRUE, video |-> activeStream, sound |-> 0, mics |-> {}]]
    /\ UNCHANGED <<socket, pictureVars, sound, activeStream, isSoundMuted, micVars, inStream, mishaps>>

HostSession(s) ==
    /\ s \in coming
    /\ coming' = coming \ {s}
    /\ sends' = [sends EXCEPT ![s] =
         IF activeStream = 0 THEN [NoPeer EXCEPT !.made = TRUE]
         ELSE [made |-> TRUE,
               video |-> IF isPaused /\ frozen THEN Frozen ELSE activeStream,
               sound |-> IF sound[activeStream] = "over" THEN 0 ELSE activeStream,
               mics |-> inStream[activeStream]]]
    /\ UNCHANGED <<socket, pictureVars, sound, activeStream, isSoundMuted, micVars, inStream, mishaps>>

Next ==
    \/ OpenSocket \/ LoseSocket \/ AskToShare
    \/ \E k \in Captures : DisplayGranted(k) \/ DisplayRefused(k) \/ LoopbackDone(k) \/ CaptureEnds(k)
    \/ StopShare \/ Pause \/ Resume
    \/ EnableMic \/ DisableMic \/ toggleSoundMute
    \/ \E j \in MicIds : MicGranted(j) \/ MicRefused(j)
    \/ \E s \in Sessions : Announce(s) \/ HostSession(s)

Spec == Init /\ [][Next]_vars

-------------------------------------------------------------------------------
TypeOK ==
    /\ socket \in {"closed", "open", "sharing"}
    /\ coming \subseteq Sessions
    /\ video \in [Captures -> {"none", "asked", "live", "over"}]
    /\ sound \in [Captures -> {"none", "asked", "on", "off", "over"}]
    /\ activeStream \in 0 .. MaxCaptures
    /\ isPaused \in BOOLEAN /\ frozen \in BOOLEAN /\ dark \subseteq Captures
    /\ isSoundMuted \in BOOLEAN /\ isMicMuted \in BOOLEAN
    /\ mic \in [MicIds -> {"none", "asked", "live", "over"}]
    /\ micStream \in 0 .. MaxMics
    /\ inStream \in [Captures -> SUBSET MicIds]
    /\ sends \in [Sessions -> [made : BOOLEAN, video : 0 .. Frozen, sound : 0 .. MaxCaptures,
                               mics : SUBSET MicIds]]
    /\ mishaps \subseteq {"twice", "micLate", "endedEarly"}

\* "Broadcasting (PAUSED)": while something is presented every peer connection shows
\* exactly that, or, if it is paused, a frozen or dark picture; also those made
\* in the meantime, and after captures that replaced one another.
PictureIsRight ==
    activeStream # 0 => \A s \in Peers :
        IF isPaused THEN sends[s].video = Frozen \/ sends[s].video \in dark
        ELSE sends[s].video = activeStream /\ activeStream \notin dark

\* "Sound Off": muted sound is not sent, unless startShare was called again.
SoundObeyed ==
    isSoundMuted =>
        /\ activeStream # 0 => sound[activeStream] # "on"
        /\ "twice" \notin mishaps =>
              \A s \in Peers : sends[s].sound # 0 => sound[sends[s].sound] # "on"

\* "Mic Off": no microphone runs while it is muted or, once muted, after a stop,
\* unless it was muted or stopped while a microphone was being asked for.
MicObeyed ==
    isMicMuted /\ "micLate" \notin mishaps => \A j \in MicIds : mic[j] # "live"

\* What the toolbar shows as off is neither sent nor recorded.
MuteObeyed == SoundObeyed /\ MicObeyed

\* "Screen sharing is stopped": a running capture is the one presented, or the one
\* that startShare is about to present, unless startShare was called again.
CaptureOwned ==
    "twice" \notin mishaps => \A k \in Captures :
        video[k] = "live" => k = activeStream \/ sound[k] = "asked"

\* The server takes the page for a presenter only while it presents something, and
\* what it presents still runs, unless it ended before startShare was listening.
NoGhostHost ==
    /\ socket = "sharing" => activeStream # 0
    /\ activeStream # 0 /\ "endedEarly" \notin mishaps => video[activeStream] = "live"
=============================================================================
