-------------------------- MODULE FallbackHostProofs --------------------------
(* Proofs about module FallbackHost, for any sessions and any number of captures *)
(* and microphones.                                                             *)
EXTENDS FallbackHost, TLAPS

\* Sound comes after the screen, and what is presented, or was when it was made
\* dark, has been granted and is no longer waited for.
Granted(k) == video[k] \in {"live", "over"} /\ sound[k] # "asked"

Stages ==
    /\ \A k \in Captures : video[k] \in {"none", "asked"} => sound[k] = "none"
    /\ activeStream # 0 => Granted(activeStream)
    /\ \A k \in dark : Granted(k)

\* A capture that ends while its sound is waited for is remembered.
Early ==
    "endedEarly" \notin mishaps =>
        \A k \in Captures : sound[k] = "asked" => video[k] = "live"

\* One call of startShare at a time, and only while nothing is presented.
OneAtATime ==
    "twice" \notin mishaps =>
        \A k \in Asking : activeStream = 0 /\ \A j \in Asking : j = k

\* PictureIsRight for the connections still to be made: paused means frozen or dark.
PauseKnown ==
    activeStream # 0 => IF isPaused THEN frozen \/ activeStream \in dark
                        ELSE activeStream \notin dark

\* Only the sound of what is presented is on.
SoundOwned ==
    "twice" \notin mishaps => \A k \in Captures : sound[k] = "on" => k = activeStream

\* One microphone at a time: it is asked for while none runs and none is muted.
MicOwned ==
    "micLate" \notin mishaps =>
        /\ \A j \in MicIds : mic[j] = "live" => j = micStream
        /\ \A j \in AskedMics : ~isMicMuted /\ micStream = 0 /\ \A i \in AskedMics : i = j
        /\ isMicMuted => micStream = 0

HostInv ==
    /\ TypeOK
    /\ Stages /\ Early /\ OneAtATime /\ PauseKnown /\ SoundOwned /\ MicOwned
    /\ PictureIsRight
    /\ MuteObeyed
    /\ CaptureOwned
    /\ NoGhostHost

USE DEF Captures, MicIds, Frozen
-------------------------------------------------------------------------------
\* Types.

\* The senders of a peer connection.
Sender == [made : BOOLEAN, video : 0 .. Frozen, sound : 0 .. MaxCaptures, mics : SUBSET MicIds]

LEMMA Numbers ==
    /\ 0 \in 0 .. Frozen /\ 0 \in 0 .. MaxCaptures /\ 0 \in 0 .. MaxMics
    /\ Frozen \in 0 .. Frozen /\ Frozen \notin Captures /\ Frozen # 0
    /\ 0 \notin Captures /\ 0 \notin MicIds
    /\ Captures \subseteq 0 .. Frozen /\ Captures \subseteq 0 .. MaxCaptures
    /\ 0 .. MaxCaptures \subseteq Captures \union {0}
    /\ MicIds \subseteq 0 .. MaxMics
BY BoundsAssumption

LEMMA NoSender == NoPeer \in Sender /\ NoPeer.made = FALSE
BY Numbers DEF NoPeer, Sender

\* What Present makes of a sender.
LEMMA ReplacedSender ==
    ASSUME NEW p \in Sender, NEW k \in Captures, NEW heard \in BOOLEAN, NEW q \in Replaced(p, k, heard)
    PROVE  q \in Sender /\ q.made = p.made /\ q.video = k /\ q.sound \in {p.sound, k}
<1> USE Numbers DEF Sender
<1>1. CASE q = [p EXCEPT !.video = k]
  BY <1>1
<1>2. CASE q = [p EXCEPT !.video = k, !.sound = k]
  BY <1>2
<1>3. ASSUME NEW j \in p.mics, q = [p EXCEPT !.video = k, !.sound = k, !.mics = @ \ {j}]
      PROVE  q \in Sender /\ q.made = p.made /\ q.video = k /\ q.sound \in {p.sound, k}
  BY <1>3
<1>4. QED
  BY <1>1, <1>2, <1>3 DEF Replaced

LEMMA InitInv == Init => HostInv
<1> SUFFICES ASSUME Init PROVE HostInv
  OBVIOUS
<1> USE Numbers DEF Init
<1>1. TypeOK
  <2>1. sends \in [Sessions -> Sender]
    BY NoSender
  <2>2. QED
    BY <2>1 DEF TypeOK, Sender
<1>2. Stages /\ Early /\ PauseKnown /\ SoundOwned /\ OneAtATime
  BY DEF Stages, Early, PauseKnown, SoundOwned, OneAtATime, Asking
<1>3. MicOwned /\ MuteObeyed
  BY DEF MicOwned, AskedMics, MuteObeyed, SoundObeyed, MicObeyed
<1>4. PictureIsRight /\ CaptureOwned /\ NoGhostHost
  BY DEF PictureIsRight, CaptureOwned, NoGhostHost
<1>5. QED
  BY <1>1, <1>2, <1>3, <1>4 DEF HostInv

LEMMA PresentSends ==
    ASSUME TypeOK, NEW k \in Captures, NEW heard \in BOOLEAN, Present(k, heard)
    PROVE  /\ sends' \in [Sessions -> Sender]
           /\ \A s \in Sessions :
                 /\ sends'[s].made = sends[s].made
                 /\ sends[s].made => sends'[s].video = k /\ sends'[s].sound \in {sends[s].sound, k}
<1>1. \A s \in Sessions :
         /\ sends[s] \in Sender
         /\ sends[s].made => sends'[s] \in Replaced(sends[s], k, heard)
         /\ ~sends[s].made => sends'[s] = NoPeer
  BY DEF Present, TypeOK, Sender
<1>2. \A s \in Sessions :
         /\ sends'[s] \in Sender
         /\ sends'[s].made = sends[s].made
         /\ sends[s].made => sends'[s].video = k /\ sends'[s].sound \in {sends[s].sound, k}
  <2> SUFFICES ASSUME NEW s \in Sessions
               PROVE  /\ sends'[s] \in Sender
                      /\ sends'[s].made = sends[s].made
                      /\ sends[s].made => sends'[s].video = k /\ sends'[s].sound \in {sends[s].sound, k}
    OBVIOUS
  <2>1. CASE sends[s].made
    <3>1. sends[s] \in Sender /\ sends'[s] \in Replaced(sends[s], k, heard)
      BY <1>1, <2>1
    <3>2. QED
      BY <3>1, ReplacedSender
  <2>2. CASE ~sends[s].made
    <3>1. sends[s].made = FALSE /\ sends'[s] = NoPeer
      BY <1>1, <2>2 DEF Sender
    <3>2. QED
      BY <3>1, NoSender
  <2>3. QED
    BY <2>1, <2>2
<1>3. \E S : sends' \in [Sessions -> S]
  BY DEF Present
<1>4. QED
  BY <1>2, <1>3

\* Every step keeps the types.
LEMMA TypeStep == TypeOK /\ [Next]_vars => TypeOK'
<1> SUFFICES ASSUME TypeOK, [Next]_vars PROVE TypeOK'
  OBVIOUS
<1> USE Numbers DEF TypeOK
<1> DEFINE T == sends' \in [Sessions -> Sender]
<1>0. sends \in [Sessions -> Sender]
  BY DEF Sender
<1>1. CASE UNCHANGED vars
  BY <1>1 DEF vars, micVars, pictureVars
<1>2. CASE OpenSocket \/ AskToShare
  BY <1>2 DEF OpenSocket, AskToShare, startShare, micVars
<1>3. CASE LoseSocket
  BY <1>3 DEF LoseSocket, micVars, pictureVars
<1>4. ASSUME NEW k \in Captures, DisplayRefused(k) PROVE TypeOK'
  BY <1>4 DEF DisplayRefused, micVars
<1>5. ASSUME NEW k \in Captures, DisplayGranted(k) PROVE TypeOK'
  <2>1. CASE Present(k, TRUE) /\ sound' = [sound EXCEPT ![k] = Enabled]
    <3>1. sends' \in [Sessions -> Sender]
      BY <2>1, PresentSends
    <3>2. QED
      BY <1>5, <2>1, <3>1 DEF DisplayGranted, Present, Enabled, micVars, Sender
  <2>2. CASE /\ sound' = [sound EXCEPT ![k] = "asked"]
             /\ UNCHANGED <<socket, coming, activeStream, isPaused, frozen, dark, isSoundMuted,
                            micVars, inStream, sends, mishaps>>
    <3>1. video' = [video EXCEPT ![k] = "live"]
      BY <1>5 DEF DisplayGranted
    <3>2. QED
      BY <2>2, <3>1 DEF micVars
  <2>3. QED
    BY <1>5, <2>1, <2>2 DEF DisplayGranted
<1>6. ASSUME NEW k \in Captures, LoopbackDone(k) PROVE TypeOK'
  <2>1. PICK heard \in BOOLEAN : /\ sound' = [sound EXCEPT ![k] = IF heard THEN Enabled ELSE "over"]
                                 /\ Present(k, heard)
    BY <1>6 DEF LoopbackDone
  <2>2. sends' \in [Sessions -> Sender]
    BY <2>1, PresentSends
  <2>3. sound' \in [Captures -> {"none", "asked", "on", "off", "over"}]
    BY <2>1 DEF Enabled
  <2>4. activeStream' = k /\ isPaused' = FALSE /\ socket' \in {"closed", "open", "sharing"}
    BY <2>1 DEF Present
  <2>5. UNCHANGED <<video, coming, frozen, dark, isSoundMuted, isMicMuted, mic, micStream,
                    inStream, mishaps>>
    BY <1>6, <2>1 DEF LoopbackDone, Present, micVars
  <2>6. QED
    BY <2>2, <2>3, <2>4, <2>5 DEF Sender
<1>7. ASSUME NEW v \in [Captures -> {"none", "asked", "live", "over"}], stopShare(v) PROVE TypeOK'
  BY <1>7 DEF stopShare, StopTracks, AskedMics
<1>8. ASSUME NEW k \in Captures, CaptureEnds(k) PROVE TypeOK'
  <2>1. CASE sound[k] = "asked"
    BY <1>8, <2>1 DEF CaptureEnds, micVars
  <2>2. CASE sound[k] # "asked"
    BY <1>7, <1>8, <2>2 DEF CaptureEnds
  <2>3. QED
    BY <2>1, <2>2
<1>9. CASE StopShare
  BY <1>7, <1>9 DEF StopShare
<1>10. CASE Pause
  <2>1. T
    <3>1. CASE UNCHANGED sends
      BY <1>0, <3>1
    <3>2. CASE sends' = [s \in Sessions |-> IF HasVideo(s) THEN [sends[s] EXCEPT !.video = Frozen]
                                            ELSE sends[s]]
      BY <1>0, <3>2 DEF Sender
    <3>3. QED
      BY <1>10, <3>1, <3>2 DEF Pause
  <2>2. frozen' \in BOOLEAN /\ dark' \subseteq Captures
    BY <1>10 DEF Pause
  <2>3. QED
    BY <1>10, <2>1, <2>2 DEF Pause, micVars, Sender
<1>11. CASE Resume
  <2>1. T
    BY <1>0, <1>11 DEF Resume, Sender
  <2>2. QED
    BY <1>11, <2>1 DEF Resume, micVars, Sender
<1>12. CASE EnableMic
  BY <1>12 DEF EnableMic, pictureVars
<1>13. CASE DisableMic
  BY <1>13 DEF DisableMic, pictureVars, AskedMics
<1>14. CASE toggleSoundMute
  BY <1>14 DEF toggleSoundMute, pictureVars, micVars
<1>15. ASSUME NEW j \in MicIds, MicGranted(j) PROVE TypeOK'
  <2>1. T
    <3>1. CASE UNCHANGED sends
      BY <1>0, <3>1
    <3>2. CASE sends' = [s \in Sessions |-> IF sends[s].made THEN [sends[s] EXCEPT !.mics = @ \union {j}]
                                            ELSE sends[s]]
      <4>1. \A s \in Sessions : [sends[s] EXCEPT !.mics = @ \union {j}] \in Sender
        <5> SUFFICES ASSUME NEW s \in Sessions PROVE [sends[s] EXCEPT !.mics = @ \union {j}] \in Sender
          OBVIOUS
        <5>1. sends[s] \in Sender
          BY <1>0
        <5>2. QED
          BY <5>1 DEF Sender
      <4>2. QED
        BY <1>0, <3>2, <4>1
    <3>3. QED
      BY <1>15, <3>1, <3>2 DEF MicGranted
  <2>2. mic' \in [MicIds -> {"none", "asked", "live", "over"}] /\ micStream' \in 0 .. MaxMics
    BY <1>15 DEF MicGranted
  <2>3. inStream' \in [Captures -> SUBSET MicIds]
    <3>1. CASE activeStream = 0
      BY <1>15, <3>1 DEF MicGranted
    <3>2. CASE activeStream # 0
      <4>1. activeStream \in Captures
        BY <3>2
      <4>2. inStream[activeStream] \union {j} \in SUBSET MicIds
        BY <4>1
      <4>3. inStream' = [inStream EXCEPT ![activeStream] = inStream[activeStream] \union {j}]
        BY <1>15, <3>2 DEF MicGranted
      <4>4. QED
        BY <4>2, <4>3
    <3>3. QED
      BY <3>1, <3>2
  <2>4. QED
    BY <1>15, <2>1, <2>2, <2>3 DEF MicGranted, pictureVars, Sender
<1>16. ASSUME NEW j \in MicIds, MicRefused(j) PROVE TypeOK'
  BY <1>16 DEF MicRefused, pictureVars
<1>17. ASSUME NEW s \in Sessions, Announce(s) PROVE TypeOK'
  BY <1>17 DEF Announce, pictureVars, micVars
<1>18. ASSUME NEW s \in Sessions, HostSession(s) PROVE TypeOK'
  <2>1. T
    BY <1>0, <1>18, NoSender DEF HostSession, Sender, NoPeer
  <2>2. QED
    BY <1>18, <2>1 DEF HostSession, pictureVars, micVars, Sender
<1>19. QED
  BY <1>1, <1>2, <1>3, <1>4, <1>5, <1>6, <1>8, <1>9, <1>10, <1>11, <1>12, <1>13, <1>14,
     <1>15, <1>16, <1>17, <1>18 DEF Next

-------------------------------------------------------------------------------
\* What an action that leaves the captures alone preserves.
CaptureInv == Stages /\ Early /\ OneAtATime /\ SoundOwned /\ CaptureOwned /\ NoGhostHost

LEMMA CaptureFrame ==
    ASSUME TypeOK, CaptureInv, UNCHANGED <<socket, video, sound, activeStream>>,
           dark' \subseteq dark \union {activeStream}, dark' \subseteq Captures,
           "twice" \in mishaps' <=> "twice" \in mishaps,
           "endedEarly" \in mishaps' <=> "endedEarly" \in mishaps
    PROVE  CaptureInv'
<1> USE Numbers DEF CaptureInv
<1>1. Stages'
  BY DEF Stages, Granted
<1>2. Early' /\ SoundOwned'
  BY DEF Early, SoundOwned
<1>3. OneAtATime'
  BY DEF OneAtATime, Asking
<1>4. CaptureOwned' /\ NoGhostHost'
  BY DEF CaptureOwned, NoGhostHost
<1>5. QED
  BY <1>1, <1>2, <1>3, <1>4

\* A call of startShare is the only one, or it is remembered as a second one.
LEMMA StartKeeps ==
    ASSUME TypeOK, CaptureInv, startShare, UNCHANGED <<sound, activeStream, dark>>,
           socket' = "sharing" => socket = "sharing"
    PROVE  CaptureInv'
<1> USE Numbers DEF CaptureInv
<1>1. PICK k \in Captures : video[k] = "none" /\ video' = [video EXCEPT ![k] = "asked"]
  BY DEF startShare
<1>2. /\ sound[k] = "none" /\ k # activeStream /\ k \notin dark
      /\ video'[k] = "asked" /\ \A j \in Captures : j # k => video'[j] = video[j]
  BY <1>1 DEF TypeOK, Stages, Granted
<1>3. "endedEarly" \in mishaps' <=> "endedEarly" \in mishaps
  BY DEF startShare
<1>4. "twice" \notin mishaps' => "twice" \notin mishaps /\ activeStream = 0 /\ Asking = {}
  BY DEF startShare
<1>5. Stages'
  BY <1>2 DEF Stages, Granted, TypeOK
<1>6. Early'
  BY <1>2, <1>3 DEF Early
<1>7. OneAtATime'
  <2> SUFFICES ASSUME "twice" \notin mishaps', NEW i \in Asking'
               PROVE  activeStream' = 0 /\ \A j \in Asking' : j = i
    BY DEF OneAtATime
  <2>1. \A j \in Asking' : j = k
    BY <1>2, <1>4 DEF Asking
  <2>2. QED
    BY <1>4, <2>1
<1>8. SoundOwned'
  BY <1>4 DEF SoundOwned
<1>9. CaptureOwned'
  BY <1>2, <1>4 DEF CaptureOwned
<1>10. NoGhostHost'
  BY <1>2, <1>3 DEF NoGhostHost, TypeOK
<1>11. QED
  BY <1>5, <1>6, <1>7, <1>8, <1>9, <1>10

\* The end of startShare for the capture that was asked for.
LEMMA PresentKeeps ==
    ASSUME TypeOK, CaptureInv, NEW k \in Asking, NEW heard \in BOOLEAN, Present(k, heard),
           video' \in {video, [video EXCEPT ![k] = "live"]},
           video[k] = "asked" => video'[k] = "live",
           NEW a \in {"on", "off", "over"}, sound' = [sound EXCEPT ![k] = a]
    PROVE  CaptureInv'
<1> USE Numbers DEF CaptureInv
<1>1. /\ k \in Captures /\ activeStream' = k /\ k \notin dark
      /\ sound'[k] = a /\ \A j \in Captures : j # k => sound'[j] = sound[j] /\ video'[j] = video[j]
      /\ UNCHANGED <<dark, mishaps>>
  BY DEF Asking, Present, Stages, Granted, TypeOK
<1>2. video'[k] \in {"live", "over"} /\ ("endedEarly" \notin mishaps => video'[k] = "live")
  <2>1. CASE video[k] = "asked"
    BY <2>1
  <2>2. CASE video[k] # "asked"
    <3>1. k \in Captures /\ sound[k] = "asked"
      BY <2>2 DEF Asking
    <3>2. video[k] \notin {"none", "asked"}
      BY <3>1 DEF Stages
    <3>3. video[k] \in {"live", "over"} /\ ("endedEarly" \notin mishaps => video[k] = "live")
      BY <3>1, <3>2 DEF Early, TypeOK
    <3>4. video'[k] = video[k] \/ video'[k] = "live"
      BY <3>1 DEF TypeOK
    <3>5. QED
      BY <3>3, <3>4
  <2>3. QED
    BY <2>1, <2>2
<1>3. "twice" \notin mishaps => activeStream = 0 /\ \A j \in Asking : j = k
  BY DEF OneAtATime
<1>4. Stages'
  BY <1>1, <1>2 DEF Stages, Granted, TypeOK
<1>5. Early'
  BY <1>1, <1>2 DEF Early
<1>6. OneAtATime'
  <2>1. "twice" \notin mishaps => Asking' = {}
    BY <1>1, <1>2, <1>3 DEF Asking
  <2>2. QED
    BY <1>1, <2>1 DEF OneAtATime
<1>7. SoundOwned'
  BY <1>1, <1>3 DEF SoundOwned
<1>8. CaptureOwned'
  <2> SUFFICES ASSUME "twice" \notin mishaps, NEW j \in Captures, video'[j] = "live", j # k PROVE FALSE
    BY <1>1 DEF CaptureOwned
  <2>1. video[j] = "live" /\ (j = activeStream \/ sound[j] = "asked")
    BY <1>1 DEF CaptureOwned
  <2>2. QED
    BY <1>3, <2>1 DEF Asking
<1>9. NoGhostHost'
  BY <1>1, <1>2 DEF NoGhostHost
<1>10. QED
  BY <1>4, <1>5, <1>6, <1>7, <1>8, <1>9

\* Stopping: what was presented is over, and nothing is any more. v is the video as
\* the browser leaves it, with the captures it has just ended.
LEMMA StopKeeps ==
    ASSUME TypeOK, CaptureInv, NEW v \in [Captures -> {"none", "asked", "live", "over"}],
           \A j \in Captures : v[j] = video[j]
                               \/ (video[j] = "live" /\ v[j] = "over" /\ sound[j] # "asked"),
           stopShare(v)
    PROVE  CaptureInv'
<1> USE Numbers DEF CaptureInv
<1>1. /\ activeStream' = 0 /\ socket' # "sharing" /\ dark' = dark
      /\ "twice" \in mishaps' <=> "twice" \in mishaps
      /\ "endedEarly" \in mishaps' <=> "endedEarly" \in mishaps
  BY DEF stopShare, StopTracks
<1>2. \A j \in Captures : j # activeStream => video'[j] = v[j] /\ sound'[j] = sound[j]
  BY DEF stopShare, StopTracks, TypeOK
<1>3. activeStream # 0 =>
        /\ activeStream \in Captures /\ Granted(activeStream)
        /\ video'[activeStream] = "over" /\ sound'[activeStream] = "over"
  BY DEF stopShare, StopTracks, TypeOK, Stages
<1>4. Stages'
  BY <1>1, <1>2, <1>3 DEF Stages, Granted, TypeOK
<1>5. Early'
  BY <1>1, <1>2, <1>3 DEF Early
<1>6. OneAtATime'
  <2>1. Asking' \subseteq Asking
    BY <1>2, <1>3 DEF Asking
  <2>2. QED
    BY <1>1, <2>1 DEF OneAtATime
<1>7. SoundOwned'
  BY <1>1, <1>2, <1>3 DEF SoundOwned
<1>8. CaptureOwned'
  BY <1>1, <1>2, <1>3 DEF CaptureOwned
<1>9. NoGhostHost'
  BY <1>1 DEF NoGhostHost
<1>10. QED
  BY <1>4, <1>5, <1>6, <1>7, <1>8, <1>9

\* Every action preserves the invariant of the captures.
LEMMA CaptureStep == TypeOK /\ CaptureInv /\ [Next]_vars => CaptureInv'
<1> SUFFICES ASSUME TypeOK, CaptureInv, [Next]_vars PROVE CaptureInv'
  OBVIOUS
<1>0. dark \subseteq Captures /\ video \in [Captures -> {"none", "asked", "live", "over"}]
  BY DEF TypeOK
<1>1. CASE UNCHANGED vars
  BY <1>0, <1>1, CaptureFrame DEF vars
<1>2. CASE OpenSocket
  <2>1. CASE startShare
    BY <1>2, <2>1, StartKeeps DEF OpenSocket
  <2>2. CASE UNCHANGED <<video, mishaps>>
    BY <1>2, <2>2 DEF OpenSocket, CaptureInv, Stages, Granted, Early, OneAtATime, Asking, SoundOwned,
                      CaptureOwned, NoGhostHost
  <2>3. QED
    BY <1>2, <2>1, <2>2 DEF OpenSocket
<1>3. CASE LoseSocket
  BY <1>3 DEF LoseSocket, pictureVars, CaptureInv, Stages, Granted, Early, OneAtATime, Asking, SoundOwned,
              CaptureOwned, NoGhostHost
<1>4. CASE AskToShare
  BY <1>4, StartKeeps DEF AskToShare
<1>5. ASSUME NEW k \in Captures, DisplayGranted(k) PROVE CaptureInv'
  <2>1. video[k] = "asked" /\ video' = [video EXCEPT ![k] = "live"] /\ k \in Asking
    BY <1>5 DEF DisplayGranted, Asking
  <2>2. sound[k] = "none" /\ k # activeStream /\ k \notin dark /\ video'[k] = "live"
    BY <1>0, <2>1 DEF CaptureInv, Stages, Granted
  <2>3. CASE sound' = [sound EXCEPT ![k] = Enabled] /\ Present(k, TRUE)
    BY <2>1, <2>2, <2>3, PresentKeeps DEF Enabled
  <2>4. CASE sound' = [sound EXCEPT ![k] = "asked"]
             /\ UNCHANGED <<socket, activeStream, dark, mishaps>>
    <3> USE Numbers DEF CaptureInv
    <3>1. /\ sound'[k] = "asked"
          /\ \A j \in Captures : j # k => sound'[j] = sound[j] /\ video'[j] = video[j]
      BY <2>1, <2>4 DEF TypeOK
    <3>2. Asking' = Asking
      BY <2>1, <2>2, <3>1 DEF Asking
    <3>3. Stages'
      BY <2>2, <2>4, <3>1 DEF Stages, Granted, TypeOK
    <3>4. Early' /\ SoundOwned'
      BY <2>2, <2>4, <3>1 DEF Early, SoundOwned
    <3>5. OneAtATime'
      BY <2>4, <3>2 DEF OneAtATime
    <3>6. CaptureOwned'
      BY <2>2, <2>4, <3>1 DEF CaptureOwned
    <3>7. NoGhostHost'
      BY <2>2, <2>4, <3>1 DEF NoGhostHost, TypeOK
    <3>8. QED
      BY <3>3, <3>4, <3>5, <3>6, <3>7
  <2>5. QED
    BY <1>5, <2>3, <2>4 DEF DisplayGranted
<1>6. ASSUME NEW k \in Captures, DisplayRefused(k) PROVE CaptureInv'
  <2> USE Numbers DEF CaptureInv
  <2>1. /\ sound[k] = "none" /\ k # activeStream /\ k \notin dark /\ video'[k] = "over"
        /\ \A j \in Captures : j # k => video'[j] = video[j]
        /\ UNCHANGED <<socket, sound, activeStream, dark, mishaps>>
    BY <1>0, <1>6 DEF DisplayRefused, Stages, Granted
  <2>2. Asking' \subseteq Asking
    BY <2>1 DEF Asking
  <2>3. Stages'
    BY <2>1 DEF Stages, Granted, TypeOK
  <2>4. Early' /\ SoundOwned'
    BY <2>1 DEF Early, SoundOwned
  <2>5. OneAtATime'
    BY <2>1, <2>2 DEF OneAtATime
  <2>6. CaptureOwned' /\ NoGhostHost'
    BY <2>1 DEF CaptureOwned, NoGhostHost, TypeOK
  <2>7. QED
    BY <2>3, <2>4, <2>5, <2>6
<1>7. ASSUME NEW k \in Captures, LoopbackDone(k) PROVE CaptureInv'
  <2>1. PICK heard \in BOOLEAN : /\ sound' = [sound EXCEPT ![k] = IF heard THEN Enabled ELSE "over"]
                                 /\ Present(k, heard)
    BY <1>7 DEF LoopbackDone
  <2>2. (IF heard THEN Enabled ELSE "over") \in {"on", "off", "over"}
    BY DEF Enabled
  <2>3. k \in Asking /\ video' = video /\ video[k] # "asked"
    BY <1>7 DEF LoopbackDone, Asking, CaptureInv, Stages
  <2>4. QED
    BY <2>1, <2>2, <2>3, PresentKeeps
<1>8. ASSUME NEW k \in Captures, CaptureEnds(k) PROVE CaptureInv'
  <2>1. CASE sound[k] = "asked"
    <3> USE Numbers DEF CaptureInv
    <3>1. /\ k # activeStream /\ k \notin dark /\ video'[k] = "over" /\ "endedEarly" \in mishaps'
          /\ "twice" \in mishaps' <=> "twice" \in mishaps
          /\ \A j \in Captures : j # k => video'[j] = video[j]
          /\ UNCHANGED <<socket, sound, activeStream, dark>>
      <4>1. k # activeStream /\ k \notin dark
        BY <2>1 DEF Stages, Granted
      <4>2. /\ video' = [video EXCEPT ![k] = "over"] /\ mishaps' = mishaps \union {"endedEarly"}
            /\ UNCHANGED <<socket, sound, activeStream, dark>>
        BY <1>8, <2>1 DEF CaptureEnds
      <4>3. QED
        BY <1>0, <4>1, <4>2
    <3>2. Asking' = Asking
      BY <1>8, <2>1, <3>1 DEF CaptureEnds, Asking
    <3>3. Stages'
      BY <3>1 DEF Stages, Granted, TypeOK
    <3>4. Early' /\ SoundOwned'
      BY <3>1 DEF Early, SoundOwned
    <3>5. OneAtATime'
      BY <3>1, <3>2 DEF OneAtATime
    <3>6. CaptureOwned' /\ NoGhostHost'
      BY <3>1 DEF CaptureOwned, NoGhostHost, TypeOK
    <3>7. QED
      BY <3>3, <3>4, <3>5, <3>6
  <2>2. CASE sound[k] # "asked"
    <3> DEFINE v == [video EXCEPT ![k] = "over"]
    <3>1. video[k] = "live" /\ stopShare(v)
      BY <1>8, <2>2 DEF CaptureEnds
    <3>2. v \in [Captures -> {"none", "asked", "live", "over"}]
      BY <1>0
    <3>3. \A j \in Captures : v[j] = video[j] \/ (video[j] = "live" /\ v[j] = "over" /\ sound[j] # "asked")
      BY <1>0, <2>2, <3>1
    <3> HIDE DEF v
    <3>4. QED
      BY <3>1, <3>2, <3>3, StopKeeps
  <2>3. QED
    BY <2>1, <2>2
<1>9. CASE StopShare
  BY <1>0, <1>9, StopKeeps DEF StopShare
<1>10. CASE Pause \/ Resume
  <2>1. /\ UNCHANGED <<socket, video, sound, activeStream, mishaps>>
        /\ dark' \subseteq dark \union {activeStream} /\ activeStream \in Captures
    BY <1>10, Numbers DEF Pause, Resume, TypeOK
  <2>2. QED
    BY <1>0, <2>1, CaptureFrame
<1>11. CASE EnableMic
  BY <1>0, <1>11, CaptureFrame DEF EnableMic, pictureVars
<1>12. CASE DisableMic
  <2>1. /\ "twice" \in mishaps' <=> "twice" \in mishaps
        /\ "endedEarly" \in mishaps' <=> "endedEarly" \in mishaps
    BY <1>12 DEF DisableMic
  <2>2. UNCHANGED <<socket, video, sound, activeStream, dark>>
    BY <1>12 DEF DisableMic, pictureVars
  <2>3. QED
    BY <1>0, <2>1, <2>2, CaptureFrame
<1>13. CASE toggleSoundMute
  <2> USE Numbers DEF CaptureInv
  <2>1. UNCHANGED <<socket, video, activeStream, dark, mishaps>>
    BY <1>13 DEF toggleSoundMute, pictureVars
  <2>2. /\ \A j \in Captures : j # activeStream => sound'[j] = sound[j]
        /\ activeStream # 0 => sound[activeStream] # "asked" /\ sound'[activeStream] # "asked"
        /\ activeStream # 0 => video[activeStream] \in {"live", "over"}
    BY <1>13 DEF toggleSoundMute, TypeOK, Stages, Granted
  <2>3. Stages'
    BY <2>1, <2>2 DEF Stages, Granted, TypeOK
  <2>4. Early' /\ SoundOwned'
    BY <2>1, <2>2 DEF Early, SoundOwned
  <2>5. Asking' = Asking
    BY <2>1, <2>2 DEF Asking
  <2>6. OneAtATime'
    BY <2>1, <2>5 DEF OneAtATime
  <2>7. CaptureOwned' /\ NoGhostHost'
    BY <2>1, <2>2 DEF CaptureOwned, NoGhostHost
  <2>8. QED
    BY <2>3, <2>4, <2>6, <2>7
<1>14. ASSUME NEW j \in MicIds, MicGranted(j) \/ MicRefused(j) PROVE CaptureInv'
  <2>1. UNCHANGED <<socket, video, sound, activeStream, dark, mishaps>>
    BY <1>14 DEF MicGranted, MicRefused, pictureVars
  <2>2. QED
    BY <1>0, <2>1, CaptureFrame
<1>15. ASSUME NEW s \in Sessions, Announce(s) \/ HostSession(s) PROVE CaptureInv'
  <2>1. UNCHANGED <<socket, video, sound, activeStream, dark, mishaps>>
    BY <1>15 DEF Announce, HostSession, pictureVars
  <2>2. QED
    BY <1>0, <2>1, CaptureFrame
<1>16. QED
  BY <1>1, <1>2, <1>3, <1>4, <1>5, <1>6, <1>7, <1>8, <1>9, <1>10, <1>11, <1>12, <1>13, <1>14, <1>15 DEF Next

-------------------------------------------------------------------------------
\* The picture: what the peer connections show is what is presented, or is frozen
\* or dark while it is paused.
PictureInv == PauseKnown /\ PictureIsRight

LEMMA PictureFrame ==
    ASSUME PictureInv, UNCHANGED <<activeStream, isPaused, frozen, dark>>,
           \A s \in Sessions : sends'[s].made = sends[s].made /\ sends'[s].video = sends[s].video
    PROVE  PictureInv'
BY DEF PictureInv, PauseKnown, PictureIsRight, Peers

\* What is presented anew is not dark and is sent to every peer connection.
LEMMA PresentShows ==
    ASSUME TypeOK, Stages, NEW k \in Asking, NEW heard \in BOOLEAN, Present(k, heard)
    PROVE  PictureInv'
<1>1. k \in Captures /\ k \notin dark
  BY DEF Asking, Stages, Granted
<1>2. activeStream' = k /\ isPaused' = FALSE /\ dark' = dark
  BY DEF Present
<1>3. \A s \in Sessions : sends'[s].made = sends[s].made /\ (sends[s].made => sends'[s].video = k)
  BY <1>1, PresentSends
<1>4. QED
  BY <1>1, <1>2, <1>3 DEF PictureInv, PauseKnown, PictureIsRight, Peers

LEMMA PictureStep == TypeOK /\ Stages /\ PictureInv /\ [Next]_vars => PictureInv'
<1> SUFFICES ASSUME TypeOK, Stages, PictureInv, [Next]_vars PROVE PictureInv'
  OBVIOUS
<1>0. sends \in [Sessions -> Sender]
  BY DEF TypeOK, Sender
<1>1. CASE UNCHANGED <<activeStream, isPaused, frozen, dark, sends>>
  BY <1>1, PictureFrame
<1>2. ASSUME NEW k \in Captures, DisplayGranted(k) \/ LoopbackDone(k) PROVE PictureInv'
  <2>1. k \in Asking
    BY <1>2 DEF DisplayGranted, LoopbackDone, Asking
  <2>2. (\E heard \in BOOLEAN : Present(k, heard)) \/ UNCHANGED <<activeStream, isPaused, frozen, dark, sends>>
    BY <1>2 DEF DisplayGranted, LoopbackDone
  <2>3. QED
    BY <1>1, <2>1, <2>2, PresentShows
<1>3. ASSUME activeStream' = 0 PROVE PictureInv'
  BY <1>3 DEF PictureInv, PauseKnown, PictureIsRight
<1>4. CASE Pause
  <2>1. activeStream # 0 /\ isPaused = FALSE /\ isPaused' = TRUE /\ activeStream' = activeStream
    BY <1>4 DEF Pause, TypeOK
  <2>2. \A s \in Sessions : sends[s].made => sends[s].video = activeStream /\ sends[s].video # 0
    BY <2>1 DEF PictureInv, PictureIsRight, Peers
  <2>3. CASE frozen' = TRUE /\ dark' = dark
             /\ sends' = [s \in Sessions |-> IF HasVideo(s) THEN [sends[s] EXCEPT !.video = Frozen]
                                            ELSE sends[s]]
    <3>1. \A s \in Sessions : sends'[s].made = sends[s].made /\ (sends[s].made => sends'[s].video = Frozen)
      BY <1>0, <2>2, <2>3 DEF HasVideo, Sender
    <3>2. QED
      BY <2>1, <2>3, <3>1 DEF PictureInv, PauseKnown, PictureIsRight, Peers
  <2>4. CASE dark' = dark \union {activeStream} /\ sends' = sends
    BY <2>1, <2>2, <2>4 DEF PictureInv, PauseKnown, PictureIsRight, Peers
  <2>5. QED
    BY <1>4, <2>3, <2>4 DEF Pause
<1>5. CASE Resume
  <2>1. activeStream # 0 /\ isPaused = TRUE /\ isPaused' = FALSE /\ activeStream' = activeStream
        /\ dark' = dark \ {activeStream}
    BY <1>5 DEF Resume, TypeOK
  <2>2. \A s \in Sessions : sends[s].made => HasVideo(s)
    <3>1. \A k \in dark : k # 0
      BY Numbers DEF TypeOK
    <3>2. QED
      BY <2>1, <3>1, Numbers DEF PictureInv, PictureIsRight, Peers, HasVideo
  <2>3. \A s \in Sessions : sends'[s].made = sends[s].made
                            /\ (sends[s].made => sends'[s].video = activeStream)
    BY <1>0, <1>5, <2>2, Numbers DEF Resume, TypeOK, Sender
  <2>4. QED
    BY <2>1, <2>3 DEF PictureInv, PauseKnown, PictureIsRight, Peers
<1>6. ASSUME NEW j \in MicIds, MicGranted(j) PROVE PictureInv'
  <2>1. UNCHANGED <<activeStream, isPaused, frozen, dark>>
    BY <1>6 DEF MicGranted, pictureVars
  <2>2. \A s \in Sessions : sends'[s].made = sends[s].made /\ sends'[s].video = sends[s].video
    BY <1>0, <1>6 DEF MicGranted, Sender
  <2>3. QED
    BY <2>1, <2>2, PictureFrame
<1>7. ASSUME NEW s \in Sessions, HostSession(s) PROVE PictureInv'
  <2>1. UNCHANGED <<activeStream, isPaused, frozen, dark>>
        /\ \A r \in Sessions : r # s => sends'[r] = sends[r]
    BY <1>0, <1>7 DEF HostSession, pictureVars
  <2>2. activeStream # 0 => sends'[s].video = IF isPaused /\ frozen THEN Frozen ELSE activeStream
    BY <1>0, <1>7 DEF HostSession
  <2>3. QED
    BY <2>1, <2>2 DEF PictureInv, PauseKnown, PictureIsRight, Peers
<1>8. QED
  <2>1. OpenSocket \/ LoseSocket \/ AskToShare \/ EnableMic \/ DisableMic \/ toggleSoundMute
        \/ (\E k \in Captures : DisplayRefused(k)) \/ (\E j \in MicIds : MicRefused(j))
        \/ (\E s \in Sessions : Announce(s)) \/ UNCHANGED vars
        => UNCHANGED <<activeStream, isPaused, frozen, dark, sends>>
    BY DEF OpenSocket, LoseSocket, AskToShare, EnableMic, DisableMic, toggleSoundMute, DisplayRefused,
           MicRefused, Announce, vars, pictureVars
  <2>2. StopShare \/ (\E k \in Captures : CaptureEnds(k))
        => activeStream' = 0 \/ UNCHANGED <<activeStream, isPaused, frozen, dark, sends>>
    BY DEF StopShare, CaptureEnds, stopShare, StopTracks
  <2>3. QED
    BY <1>1, <1>2, <1>3, <1>4, <1>5, <1>6, <1>7, <2>1, <2>2 DEF Next

-------------------------------------------------------------------------------
\* The microphone.
MicInv == MicOwned /\ MicObeyed

LEMMA MicStep == TypeOK /\ MicInv /\ [Next]_vars => MicInv'
<1> SUFFICES ASSUME TypeOK, MicInv, [Next]_vars PROVE MicInv'
  OBVIOUS
<1> USE Numbers DEF MicInv
<1>0. mic \in [MicIds -> {"none", "asked", "live", "over"}] /\ isMicMuted \in BOOLEAN
  BY DEF TypeOK
<1>1. ASSUME UNCHANGED micVars, "micLate" \in mishaps' <=> "micLate" \in mishaps PROVE MicInv'
  BY <1>1 DEF micVars, MicOwned, MicObeyed, AskedMics
<1>2. ASSUME NEW v, stopShare(v) PROVE MicInv'
  <2>1. /\ micStream' = 0 /\ isMicMuted' = isMicMuted
        /\ \A j \in MicIds : mic'[j] = "over" \/ (j # micStream /\ mic'[j] = mic[j])
    BY <1>2 DEF stopShare, StopTracks
  <2>2. "micLate" \notin mishaps' => "micLate" \notin mishaps /\ AskedMics = {}
    BY <1>2 DEF stopShare
  <2>3. "micLate" \notin mishaps' => \A j \in MicIds : mic'[j] \notin {"asked", "live"}
    BY <2>1, <2>2 DEF MicOwned, AskedMics
  <2>4. QED
    BY <2>1, <2>3 DEF MicOwned, MicObeyed, AskedMics
<1>3. CASE EnableMic
  <2>1. isMicMuted = TRUE /\ isMicMuted' = FALSE /\ UNCHANGED <<micStream, mishaps>>
    BY <1>0, <1>3 DEF EnableMic
  <2>2. "micLate" \notin mishaps => micStream = 0 /\ AskedMics = {} /\ \A j \in MicIds : mic[j] # "live"
    BY <2>1 DEF MicOwned, MicObeyed
  <2>3. CASE mic' = mic
    BY <2>1, <2>2, <2>3 DEF MicOwned, MicObeyed, AskedMics
  <2>4. ASSUME NEW j \in MicIds, mic' = [mic EXCEPT ![j] = "asked"] PROVE MicInv'
    <3>1. "micLate" \notin mishaps => AskedMics' = {j} /\ \A i \in MicIds : mic'[i] # "live"
      BY <1>0, <2>2, <2>4 DEF AskedMics
    <3>2. QED
      BY <2>1, <2>2, <3>1 DEF MicOwned, MicObeyed
  <2>5. QED
    BY <1>3, <2>3, <2>4 DEF EnableMic
<1>4. CASE DisableMic
  <2>1. isMicMuted' = TRUE /\ micStream' = 0
    BY <1>4 DEF DisableMic
  <2>2. "micLate" \notin mishaps' => "micLate" \notin mishaps /\ AskedMics = {}
    BY <1>4 DEF DisableMic
  <2>3. \A j \in MicIds : mic'[j] = "over" \/ (j # micStream /\ mic'[j] = mic[j])
    BY <1>0, <1>4 DEF DisableMic
  <2>4. "micLate" \notin mishaps' => \A j \in MicIds : mic'[j] \notin {"asked", "live"}
    BY <2>2, <2>3 DEF MicOwned, AskedMics
  <2>5. QED
    BY <2>1, <2>4 DEF MicOwned, MicObeyed, AskedMics
<1>5. ASSUME NEW j \in MicIds, MicGranted(j) PROVE MicInv'
  <2>1. /\ j \in AskedMics /\ mic' = [mic EXCEPT ![j] = "live"] /\ micStream' = j
        /\ UNCHANGED <<isMicMuted, mishaps>>
    BY <1>5 DEF MicGranted, AskedMics
  <2>2. "micLate" \notin mishaps => isMicMuted = FALSE /\ micStream = 0 /\ \A i \in AskedMics : i = j
    BY <1>0, <2>1 DEF MicOwned
  <2>3. "micLate" \notin mishaps => AskedMics' = {} /\ \A i \in MicIds : mic'[i] = "live" => i = j
    BY <1>0, <2>1, <2>2 DEF MicOwned, AskedMics
  <2>4. QED
    BY <2>1, <2>2, <2>3 DEF MicOwned, MicObeyed
<1>6. ASSUME NEW j \in MicIds, MicRefused(j) PROVE MicInv'
  <2>1. /\ mic' = [mic EXCEPT ![j] = "over"] /\ UNCHANGED <<micStream, isMicMuted, mishaps>>
    BY <1>6 DEF MicRefused
  <2>2. AskedMics' \subseteq AskedMics /\ \A i \in MicIds : mic'[i] = "live" => mic[i] = "live"
    BY <1>0, <2>1 DEF AskedMics
  <2>3. QED
    BY <2>1, <2>2 DEF MicOwned, MicObeyed
<1>7. QED
  <2>1. OpenSocket \/ LoseSocket \/ AskToShare \/ Pause \/ Resume \/ toggleSoundMute
        \/ (\E k \in Captures : DisplayGranted(k) \/ DisplayRefused(k) \/ LoopbackDone(k))
        \/ (\E s \in Sessions : Announce(s) \/ HostSession(s)) \/ UNCHANGED vars
        => UNCHANGED micVars /\ ("micLate" \in mishaps' <=> "micLate" \in mishaps)
    BY DEF OpenSocket, LoseSocket, AskToShare, startShare, Pause, Resume, toggleSoundMute, DisplayGranted,
           DisplayRefused, LoopbackDone, Present, Announce, HostSession, vars, micVars
  <2>2. CASE StopShare
    BY <1>2, <2>2 DEF StopShare
  <2>3. ASSUME NEW k \in Captures, CaptureEnds(k) PROVE MicInv'
    <3>1. CASE sound[k] = "asked"
      BY <1>1, <2>3, <3>1 DEF CaptureEnds
    <3>2. CASE sound[k] # "asked"
      BY <1>2, <2>3, <3>2 DEF CaptureEnds
    <3>3. QED
      BY <3>1, <3>2
  <2>4. QED
    BY <1>1, <1>3, <1>4, <1>5, <1>6, <2>1, <2>2, <2>3 DEF Next

-------------------------------------------------------------------------------
\* The sound.

\* New sound starts as the mute says, and the peer connections keep what they had
\* or get the new sound.
LEMMA PresentMuted ==
    ASSUME TypeOK, SoundObeyed, NEW k \in Captures, NEW heard \in BOOLEAN, Present(k, heard),
           NEW a \in {Enabled, "over"}, sound' = [sound EXCEPT ![k] = a]
    PROVE  SoundObeyed'
<1> USE Numbers
<1>1. activeStream' = k /\ UNCHANGED <<isSoundMuted, mishaps>>
  BY DEF Present
<1>2. isSoundMuted => sound'[k] # "on" /\ \A j \in Captures : j # k => sound'[j] = sound[j]
  BY DEF Enabled, TypeOK
<1>3. \A s \in Sessions : /\ sends'[s].made = sends[s].made
                          /\ sends[s].made => sends'[s].sound \in {sends[s].sound, k}
  BY PresentSends
<1>4. \A s \in Sessions : sends[s].sound # 0 => sends[s].sound \in Captures
  BY DEF TypeOK
<1>5. QED
  BY <1>1, <1>2, <1>3, <1>4 DEF SoundObeyed, Peers

LEMMA SoundStep == TypeOK /\ SoundOwned /\ SoundObeyed /\ [Next]_vars => SoundObeyed'
<1> SUFFICES ASSUME TypeOK, SoundOwned, SoundObeyed, [Next]_vars PROVE SoundObeyed'
  OBVIOUS
<1> USE Numbers
<1>0. /\ sends \in [Sessions -> Sender] /\ isSoundMuted \in BOOLEAN
      /\ activeStream # 0 => activeStream \in Captures
      /\ \A s \in Sessions : sends[s].sound # 0 => sends[s].sound \in Captures
  BY DEF TypeOK, Sender
<1>1. ASSUME UNCHANGED <<isSoundMuted, sound, activeStream>>, "twice" \in mishaps => "twice" \in mishaps',
             \A s \in Sessions : sends'[s].made = sends[s].made /\ sends'[s].sound = sends[s].sound
      PROVE  SoundObeyed'
  BY <1>1 DEF SoundObeyed, Peers
<1>2. ASSUME NEW k \in Captures, DisplayGranted(k) PROVE SoundObeyed'
  <2>1. CASE sound' = [sound EXCEPT ![k] = Enabled] /\ Present(k, TRUE)
    BY <2>1, PresentMuted
  <2>2. CASE sound' = [sound EXCEPT ![k] = "asked"]
             /\ UNCHANGED <<activeStream, isSoundMuted, sends, mishaps>>
    <3>1. \A j \in Captures : sound'[j] = "on" => sound[j] = "on"
      BY <2>2 DEF TypeOK
    <3>2. QED
      BY <1>0, <2>2, <3>1 DEF SoundObeyed, Peers
  <2>3. QED
    BY <1>2, <2>1, <2>2 DEF DisplayGranted
<1>3. ASSUME NEW k \in Captures, LoopbackDone(k) PROVE SoundObeyed'
  <2>1. PICK heard \in BOOLEAN : /\ sound' = [sound EXCEPT ![k] = IF heard THEN Enabled ELSE "over"]
                                 /\ Present(k, heard)
    BY <1>3 DEF LoopbackDone
  <2>2. (IF heard THEN Enabled ELSE "over") \in {Enabled, "over"}
    OBVIOUS
  <2>3. QED
    BY <2>1, <2>2, PresentMuted
<1>4. ASSUME NEW v, stopShare(v) PROVE SoundObeyed'
  <2>1. activeStream' = 0 /\ UNCHANGED <<isSoundMuted, sends>> /\ mishaps \subseteq mishaps'
    BY <1>4 DEF stopShare, StopTracks
  <2>2. \A j \in Captures : sound'[j] = "on" => sound[j] = "on"
    BY <1>4 DEF stopShare, StopTracks, TypeOK
  <2>3. QED
    BY <1>0, <2>1, <2>2 DEF SoundObeyed, Peers
<1>5. CASE toggleSoundMute
  <2>1. UNCHANGED <<activeStream, sends, mishaps>> /\ (isSoundMuted' => isSoundMuted = FALSE)
    BY <1>0, <1>5 DEF toggleSoundMute
  <2>2. isSoundMuted' => /\ activeStream # 0 => sound'[activeStream] # "on"
                         /\ \A j \in Captures : j # activeStream => sound'[j] = sound[j]
    BY <1>0, <1>5, <2>1 DEF toggleSoundMute, TypeOK
  <2>3. isSoundMuted' /\ "twice" \notin mishaps => \A j \in Captures : sound'[j] # "on"
    BY <2>2 DEF SoundOwned
  <2>4. QED
    BY <1>0, <2>1, <2>2, <2>3 DEF SoundObeyed, Peers
<1>6. ASSUME NEW j \in MicIds, MicGranted(j) PROVE SoundObeyed'
  <2>1. UNCHANGED <<isSoundMuted, sound, activeStream, mishaps>>
    BY <1>6 DEF MicGranted
  <2>2. \A s \in Sessions : sends'[s].made = sends[s].made /\ sends'[s].sound = sends[s].sound
    BY <1>0, <1>6 DEF MicGranted, Sender
  <2>3. QED
    BY <1>1, <2>1, <2>2
<1>7. CASE Pause \/ Resume
  <2>1. UNCHANGED <<isSoundMuted, sound, activeStream, mishaps>>
    BY <1>7 DEF Pause, Resume
  <2>2. \A s \in Sessions : sends'[s].made = sends[s].made /\ sends'[s].sound = sends[s].sound
    BY <1>0, <1>7 DEF Pause, Resume, Sender
  <2>3. QED
    BY <1>1, <2>1, <2>2
<1>8. ASSUME NEW s \in Sessions, HostSession(s) PROVE SoundObeyed'
  <2>1. UNCHANGED <<isSoundMuted, sound, activeStream, mishaps>>
        /\ \A r \in Sessions : r # s => sends'[r] = sends[r]
    BY <1>0, <1>8 DEF HostSession
  <2>2. sends'[s].sound # 0 => activeStream # 0 /\ sends'[s].sound = activeStream
    BY <1>0, <1>8 DEF HostSession, NoPeer
  <2>3. QED
    BY <2>1, <2>2 DEF SoundObeyed, Peers
<1>9. QED
  <2>1. OpenSocket \/ LoseSocket \/ AskToShare \/ EnableMic \/ DisableMic
        \/ (\E k \in Captures : DisplayRefused(k)) \/ (\E j \in MicIds : MicRefused(j))
        \/ (\E s \in Sessions : Announce(s)) \/ UNCHANGED vars
        => UNCHANGED <<isSoundMuted, sound, activeStream, sends>> /\ mishaps \subseteq mishaps'
    BY DEF OpenSocket, LoseSocket, AskToShare, startShare, EnableMic, DisableMic, DisplayRefused,
           MicRefused, Announce, vars
  <2>2. ASSUME NEW k \in Captures, CaptureEnds(k) PROVE SoundObeyed'
    <3>1. CASE sound[k] = "asked"
      BY <1>1, <2>2, <3>1 DEF CaptureEnds
    <3>2. CASE sound[k] # "asked"
      BY <1>4, <2>2, <3>2 DEF CaptureEnds
    <3>3. QED
      BY <3>1, <3>2
  <2>3. CASE StopShare
    BY <1>4, <2>3 DEF StopShare
  <2>4. QED
    BY <1>1, <1>2, <1>3, <1>5, <1>6, <1>7, <1>8, <2>1, <2>2, <2>3 DEF Next

-------------------------------------------------------------------------------
\* Every step preserves the invariant.
LEMMA StepInv == HostInv /\ [Next]_vars => HostInv'
<1> SUFFICES ASSUME HostInv, [Next]_vars PROVE HostInv'
  OBVIOUS
<1>1. TypeOK'
  BY TypeStep DEF HostInv
<1>2. CaptureInv'
  BY CaptureStep DEF HostInv, CaptureInv
<1>3. PictureInv'
  BY PictureStep DEF HostInv, PictureInv
<1>4. MicInv'
  BY MicStep DEF HostInv, MicInv, MuteObeyed
<1>5. SoundObeyed'
  BY SoundStep DEF HostInv, MuteObeyed
<1>6. QED
  BY <1>1, <1>2, <1>3, <1>4, <1>5 DEF HostInv, CaptureInv, PictureInv, MicInv, MuteObeyed

LEMMA Invariant == Spec => []HostInv
BY InitInv, StepInv, PTL DEF Spec

\* "Broadcasting (PAUSED)", with any number of sessions and of captures that replace
\* one another: a peer connection of the page never shows anything but what is
\* presented (startShare, togglePause and handleHostSession of ui_failsafe.py).
THEOREM PictureIsRightAlways == Spec => []PictureIsRight
<1>1. HostInv => PictureIsRight
  BY DEF HostInv
<1>2. QED
  BY <1>1, Invariant, PTL

\* "Sound Off" and "Mic Off": what is off is neither sent nor recorded, but for the
\* two races the property names (toggleSoundMute and setMicEnabled).
THEOREM MuteObeyedAlways == Spec => []MuteObeyed
<1>1. HostInv => MuteObeyed
  BY DEF HostInv
<1>2. QED
  BY <1>1, Invariant, PTL

\* "Screen sharing is stopped": as long as startShare is called once at a time, no
\* capture runs that stopShare does not know of.
THEOREM CaptureOwnedAlways == Spec => []CaptureOwned
<1>1. HostInv => CaptureOwned
  BY DEF HostInv
<1>2. QED
  BY <1>1, Invariant, PTL

\* The server never takes the page for a presenter that presents nothing.
THEOREM NoGhostHostAlways == Spec => []NoGhostHost
<1>1. HostInv => NoGhostHost
  BY DEF HostInv
<1>2. QED
  BY <1>1, Invariant, PTL
===============================================================================
