# Formal models of ScreenShare

TLA+ modules, TLC runs and TLAPS proofs about ScreenShare: a signalling server
in Go, a browser client in TypeScript, a host controller in Python and an
Android host. The modules are translated from the code under `src/`;
`PROJECT.json` maps every definition to the lines it stands for.

## 1. Inventory

| component | state | operations | talks to |
|---|---|---|---|
| rooms main loop (`ws/rooms.go`, `room.go`, `event_*.go`) | `connected` (connection to room id), `Rooms` (room to users and sessions), prometheus counters | `Connected`, `Disconnected`, `Create`, `Join`, `StartShare`, `StopShare`, `Name`, the four relays, `Health` | connections by channels, TURN server and IP provider by calls |
| connection goroutines (`ws/client.go`) | socket, `once`, channel `Write` of one message | `Upgrade`, `startReading`, `startWriteHandler`, `CloseOnError`, `CloseOnDone` | main loop by `Incoming` (unbuffered) and `Write` |
| close-once (`ws/once.go`) | `done`, mutex | `Do` | reader and writer |
| TURN server (`turn/*.go`) | table of user names | `Credentials`, `Disallow`, `authenticate`, port allocation | main loop, pion |
| IP providers (`config/ipdns`) | cached addresses, time of the next lookup | `Get` | main loop, TURN allocation |
| configuration (`config/*.go`) | none after start | parsing and checks | everybody |
| HTTP server (`server/server.go`, `router`, `cmd`) | channel `shutdown` | serve, shut down, health, config | main loop (`Count`) |
| browser client (`ui/src/useRoom.ts`) | `host` and `client` peer connections, `stream`, pause data | room messages, share, stop, pause, mute | server by WebSocket, peers by WebRTC |
| browser pages (`ui/src/*.tsx`) | selected stream, settings | poll loop, state report | host bridge by HTTP |
| host bridge (`bridge_server.py`, `gui_overlay.py`, `control_server.py`) | `pending_action`, `app_state`, the toolbar's copy of both | `/poll`, `/state`, toolbar clicks, exit | page by HTTP, toolbar by Qt signals, mixer by calls |
| host launch (`control_server.py`, `process_util.py`, `browser_launcher.py`, `system_util.py`) | ports 5050 and 5055, child processes, default source, remap modules | `start`, `cleanup`, killing of what holds the ports | operating system, sound server |
| server build (`go_builder.py`, `ui_builder.py`, `ui_repair.py`) | `ui/build`, the binary, the times of the files | `needs_rebuild`, `build_frontend_ui`, `compile_go_binary`, search | yarn, npm, deno, go |
| fallback page (`ui_failsafe.py`) | `activeStream`, microphone, pause and mute flags, `peerConnections`, `iceQueues`, WebSocket | `startShare`, `stopShare`, `togglePause`, `setMicEnabled`, `onmessage`, poll loop | server by WebSocket, peers by WebRTC, bridge by HTTP |
| Android host (`android/app`) | capture service, signalling client, peer connections, server process | start, stop, callbacks | server by WebSocket |
| QR codes (`qr_util.py`, `QRCodeGenerator.kt`) | none | GF(256), error correction, matrix | - |

What is hard, and what makes each part correct:

- *Main loop.* One goroutine, so a message is atomic, but each handler keeps
  several maps in step (`connected`, `Users`, `Sessions`, the TURN table, the
  counters, what clients were told), and a handler may fail half way and be
  followed by `executeNoError`. Correct: the maps agree; sessions join exactly
  the users who share to the others; credentials, counters and announcements
  follow sessions however they end.
- *Connections.* Reader, writer and the main loop close a connection in any
  order, while the main loop writes to channels that may be full. Correct: a
  closed connection is always removed, once, and nobody waits for ever.
- *Browser client.* Messages arrive while promises are pending. Correct: no
  peer connection outlives its session, a paused viewer never sees live video,
  no capture runs that cannot be stopped, and what is muted is not heard.
- *Host bridge.* Threads share one slot, one dictionary and the switches of the
  mixer, and the page answers when it likes. Correct: once everything has
  arrived, page, `app_state`, toolbar and mixer say the same.
- *Host launch.* What a host leaves behind outlasts it, and it may be killed
  anywhere. Correct: a host ends what was there before it, comes up or ends, and
  leaves the machine as it found it.
- *Build.* Bundlers and compilers fail, time out and leave processes behind while
  sources are edited, and the next start has only the times of the files to go by.
  Correct: a stale binary is noticed and a fresh one is not built again.
- *Fallback page.* `startShare` may run twice, a socket is replaced while the
  peer connections of the old one go on, and every handler awaits several times.
  Correct: peers get the picture that is presented, muted is silent, candidates
  and offers find their connection, and the server throws nobody out.
- *QR code.* Tables, polynomials and parts drawn one over the other. Correct: the
  codewords are those of the text, and a reader finds them, which section 5 says is not so.
- *Android host, shutdown, IP provider.* Threads started before they are
  stopped; values cached past a failure.

The hazards with their lines are in `PROJECT.json`.

## 2. Modules and how they correspond to the code

**`Rooms`** is `Rooms.Start` and everything a message executes. `connected` and
`rooms` are partial functions, as the Go maps are. A room's `Users` map is
split into the sets `users`, `owners` and `streaming` and the function `names`.
A session is its two ends and the number of the message that created it, which
stands for its fresh `xid`. `allowed` is the TURN server's `lookup`; `told`,
`open` and `closeSent` record what was written to each client: the last room
message, sessions announced and not ended, `CloseWriter`. `told` and `open` are
cleared when the client leaves, since nothing is written to it afterwards. One
action per event; a handler that returns an error includes `executeNoError`
(operators `LeaveNoRoom`, `LeaveRoom`), called with the maps as the failed
handler left them. `ipFails` is an error of `TurnIPProvider.Get`.

Writes are assumed to be accepted here; what happens when they are not is
`Connection`.

**`ShareMesh`** is the abstract specification: who is in which room, who
shares, who therefore sees whom, who has left. It has no sessions, messages,
credentials or failures. `Rooms` implements it (`ImplementsMesh`): a failed
join is invisible, a failed share is a departure, a repeated share changes
nothing.

**`Connection`** is `ws/client.go` around the main loop: for each connection
the HTTP handler in `Upgrade`, the reader, the writer and the goroutine that
posts `Disconnected`. `incoming` is the queue of goroutines blocked in a send on
the unbuffered channel (Go serves them in order of arrival). A handler is
reduced to its writes: rounds of at most one message for each client
(`Rounds`; `share` writes one round for the sessions and one for the room), and within
a round the order is that of a Go map iteration, any. A handler that fails has written a
part of it before the departure is announced (`Disconnect`). A write succeeds when the
channel (capacity 1) has room, or is given up, which may happen whenever it is full:
time is not modelled. A ping may fail and the read deadline may pass at any moment.

**`Once`** is `ws/once.go` at the grain of its atomic load, lock, test, store
and unlock. `Connection` uses `once.Do` as one step, which the properties of
`Once` justify: one function runs, and callers that do not run it return
without waiting for it.

**`Presentation`** is the presenting page: `share`, `stopShare`, `togglePause`,
the two mutes, the WebSocket and `hostsession` of `ui/src/useRoom.ts`. An action
is what JavaScript runs between two awaits, so `share` is `share` (up to
`getDisplayMedia`), `DisplayGranted`, `LoopbackDone`, `ShareDone`; `togglePause`
is `Resume`, or `Pause` followed by `FrameFrozen` or `FreezeFails`;
`hostSession` is `HostSession` and `HostSessionDone`. The refs of the hook are
variables of the same meaning (`stream`, `isPaused`, `peer` for `host.current`);
tracks are named by their capture. `state` is React's state and `shown` what the
page rendered last: clicks and the poll loop use `shown`, what they do changes
`state`. The browser may refuse a capture, grant it with or without sound, or
end it at any time. The server is reduced to announcing sessions.

**`Signaling`** is a presenter's page, the pages of its viewers and the server
between them. `up` and `down` are the WebSockets, in order each and independent
of one another; the server takes the first message of any page. A session is a
viewer and the number of the share; `hostPeer` and `viewPeer` are its two peer
connections, created when `hostsession` and `clientsession` are handled and
usable when their promises resolve. `EndShareKey` is the id that reaches the
clients in `endshare`: none, because `outgoing.EndShare` loses the text form of
`xid.ID`. A connection ends when the other end is closed and WebRTC notices
(`HostNotices`, `ViewerNotices`). ICE candidates are left out, and so are lost
messages, and the network works: that a connection fails while both of its ends are there
(`useRoom.ts:84`, `163`) is not modelled. The server's handlers are those of `Rooms` for
one room.

**`Bridge`** is the toolbar, the request threads of `bridge_server.py` and the
page they serve. An action is what a thread does between two reads or writes of
shared state: a poll reads the slot (`PollRead`), clears it (`PollClear`) and is
answered (`PollAnswered`); a report updates `app_state`, emits a Qt signal and
mutes the microphones one by one; the toolbar's thread sets the slot and the
mixer (`Click`, `Flip`, `AskPage`, `SetMic`) and shows what was emitted
(`Deliver`). `shown` is what the toolbar says, `muted` what the operating system
does, `page` what the page does. `mishaps` is a ghost: it names what has
happened that the code has no remedy for (a request lost or obeyed twice, a
report that overtook another, a click while something was under way), and the
properties say that nothing else separates the parts.

**`FallbackHost`** is the presenting side of `ui_failsafe.py`. `startShare` is
`startShare`, `DisplayGranted` or `DisplayRefused`, `LoopbackDone` (which ends in
`Present`); captures are numbered by the call that asked for them, since a second
call replaces the first (`Replaced`). `sends[s]` are the senders of a peer
connection, chosen when it is made (`HostSession`) and changed by `Present`,
`Pause`, `Resume` and the microphone.

**`FallbackPeers`** is the same page at both ends, with the server between them
and sockets that are lost and opened again. A session is its two connections;
a page keeps `peer` and `ice` of the sessions of all its sockets, as
`peerConnections` is never emptied. Each handler is cut at its awaits: the
description is being set (`setting`, `describing`), the kept candidates are being
added one after the other (`draining`). What the server makes of messages is that
of `Rooms` for one room, with the refusal that closes a socket. A connection ends in
one step for the messages that it has sent: the server may have read one more from it
(`Incoming`) than the model lets it execute, while a connection that is thrown out stays
in the room until its departure is handled, where the code removes it at once.

**`QrCode`** is `_init_gf` and `generate_qr_matrix`, one action per round of a loop or
part that is drawn, in the code's order, since a later part may cover an earlier one.
The tables of the field are compared with multiplication by shifting, the generators
with the roots that they should have. `PatternsAndDataStand` compares the matrix with what
a reader who knows the mask would look for; what it does not look at is in section 5.

**`Build`** is `find_or_build_binary` in a tree whose sources are edited at any
time. A file is the version of the sources it was made of; of the times only
`newer`, what is newer than the binary, matters. `orphans` are the pages that bundlers
write which outlived `subprocess.run`'s time limit or their host: one empties `ui/build`
(`OrphanEmpties`), writes it later (`OrphanWrites`), or fails. `late` are the binaries of
compilers that outlived their host. The ghost `missed` says where a change has escaped the
times: a file changed after it was read and before the binary was written. A build that
reads the file again, with no compiler of an earlier host at work, takes that back.

**`Launch`** is several runs of `control_server.py`, on Linux, each of which may
be killed anywhere. Ports, processes, the default source and the remap modules are
those of the machine; `pc` is how far each host is, in the order of `start` and
`cleanup`. The process that the host has started for the browser is taken for the
browser; a wrapper, or `flatpak run`, may end without it.

`MCRooms`, `MCConnection` and `MCBridge` add symmetry sets; the other modules are
run as they are. Seven modules hold the theorems: `RoomsProofs` (also about `ShareMesh`),
`ConnectionProofs` (also about `Once`), `PageProofs` (about `Presentation` and
`Signaling`), `FallbackHostProofs`, `FallbackPeersProofs`, `BridgeProofs` and
`LaunchProofs` (about `Build` and `Launch`). `QueueLemmas` has what `PageProofs` and
`FallbackPeersProofs` need to know of queues of messages: how often a message is in one
(`Count`) and which of two comes first (`Ahead`), both defined in `Queues`.
`Once`, `ShareMesh`, `Launch` and `Presentation` name their specification after themselves
(`OnceSpec`, `MeshSpec`, `LaunchSpec`, `PageSpec`) because the module with their theorems
is about another specification too.

## 3. Runs

| run | instance | what it shows |
|---|---|---|
| `rooms` | 3 connections (one logged in), 2 rooms, 2 names, TURN and STUN, `AuthMode` "turn", 2 messages that create sessions | `TypeOK`, `Agree`, `SessionsSound`, `SharesComplete`, `TurnExact`, `CountersExact`, `SessionsKnown`, `ToldTruth`, `ImplementsMesh`, `LeaveForCause` |
| `connection` | 2 connections, 1 message, 2 rounds of writes to a handler, fair | `DisconnectedOnce`, `EventuallyRemoved`, `GoroutinesEnd` |
| `once` | 4 callers, fair | `AtMostOnce`, `SomebodyRuns`, `OthersReturn` |
| `presentation` | 1 viewer session, 2 captures, 2 pauses at a time, `create=true` | `CaptureOwned`, `NoGhostHost`, `MuteObeyed` |
| `signaling` | 2 viewers, 1 share, fair | `MessagesFindPeers`, `SharingIsSeen`, `TilesEnd` |
| `signaling_end` | 1 viewer, 1 share | violation: a viewer that has got `endshare` keeps its answered peer connection, and the picture |
| `bridge` | 1 microphone, 1 poll at a time, 2 clicks, 2 reports at a time | `PageIsKnown`, `ToolbarIsTrue`, `MutesFollow`, `ExitUnmutes` |
| `fallback_host` | 1 session, 2 captures, 2 microphones | `PictureIsRight`, `MuteObeyed`, `CaptureOwned`, `NoGhostHost` |
| `fallback_peers` | 1 viewer, 1 lost socket, 1 share, 3 candidates in all, 2 connections per page | `IceComplete`, `MessagesFindPeers`, `NobodyThrownOut` |
| `build` | 2 edits of each part, 2 bundlers or compilers that go on | `StaleIsNoticed`, `RestartIsQuick` |
| `launch` | 2 hosts, 1 crash, fair | `CleanSlate`, `TakeOver`, `Starts` |
| `qr` | 12 lengths, around the limits of the versions | `CodewordsAreRight`, `PatternsAndDataStand` |

Bounds. `MaxBatch` limits the messages that create sessions, and nothing else:
all other counters are bounded by it and by the number of connections, since a
connection comes once. Two batches are a share and a repeated share, or a share
and a join; three connections are an owner, a second host and a viewer, or one
that fails, and two rooms are enough for a connection that tries the second room,
and for a room that closes while the other goes on. The same invariants hold with
four connections, one room and three batches. `MaxRead` limits the messages
clients send in `Connection`, and `MaxWrites` the rounds of a handler; two connections
suffice because the main loop treats every receiver alike and a handler writes to one or
to several. Two rounds are enough to find a channel full that the same handler has filled.
The properties hold with two messages as well (1 million states).

Two captures in `presentation` and `fallback_host` are what it takes to lose one;
the sessions do not depend on one another. Two pauses at a time are a pause, a
resume and a pause before the first frame is there. Two viewers in `signaling` let
one join, or leave, while the sessions of the other are being made. With one
viewer and two shares, where messages of the first share arrive during the second,
the properties hold as well.

Two clicks in `bridge` are what it takes to lose one, and two reports to reorder
them. Two polls, which may obey a request twice, are too many for this instance;
the properties hold with two polls, one click and two reports (6.7 million
states), and with two microphones and one poll (17 million), where the calls of
the mixer interleave. One lost socket and two connections of a page in
`fallback_peers` are one reconnection; three candidates, of whichever session and end
(`MaxIce` limits their sum), are what it takes for one to arrive while those kept are being
added, and one more. Instances with two viewers and one candidate (1.7 million states), and
with two lost sockets and two candidates (4.2 million) hold too. Two edits in `build` are
one that the build sees and one that comes too late; two bundlers or compilers that go on
overtake one another. Two hosts in `launch` overlap or follow one another; the
safety properties hold with three. The lengths in `qr` are the limits of
the first three versions with the lengths next to them, the limits of versions 5 and
7, a text of version 6 and one that is too long.

Type invariants (`TypeOK` of every module), `RoomsOccupied` and `ClosedOnce` of
`Rooms` hold in the same instances; they are not part of the runs but for
that of `rooms`: `RoomsOccupied` and `ClosedOnce` are proved, and the others say little
that the properties listed do not depend on.

Deadlock is checked in `presentation`, `fallback_host` and `build`. It is no error in
the other runs: when every connection or page has come and gone, every caller has
returned, the hosts have exited or the matrix is done, nothing is left to do.

Fairness (`connection`, `once`). The Go scheduler runs every goroutine
that can go on, so the main loop, `StartLoops`, the reader of a dead socket,
the poster and the writer are weakly fair. Peers are not: they need not
connect, send or break; nor are `BadMessage` and `PingFails`. `GoroutinesEnd`
excludes the writer whose `CloseWriter` was dropped: that writer really stays.

Fairness (`signaling`). The main loop handles messages, an open page
handles its messages, promises resolve, and a lost connection is noticed:
WebRTC's consent checks time out. Nobody has to join, leave, share or stop. That the
picture comes is promised for a network that works.

Fairness (`launch`). Each host goes on with `start` and `cleanup`. Most calls in them
have a time limit; of `go build` (`go_builder.py:72`, `93`), `pactl` and `fuser`, which
have none, it is assumed that they end. The server need not answer, nobody has to exit.

## 4. Mutants

Before some definitions stands an operator `Mutant...` with the same
parameters: the definition with a plausible mistake, such as a forgotten map, a
`Disallow` for one of two names, a poster started without the once. No
specification uses them. Each property of a passing run fails when its mutant
(listed in `PROJECT.json`) replaces the definition, which shows that the
property depends on that code.

## 5. Findings

- `signaling_end`: the id in `endshare` is an array of numbers
  (`ws/outgoing/messages.go:86`), the clients expect a string
  (`ui/src/message.ts:86`) and close nothing. In the trace the presenter stops sharing
  after its offer; the viewer shows the tile, answers, handles `endshare`, and has nothing
  more to come, but keeps peer connection and tile of a session that is over. The fallback
  page likewise (`ui_failsafe.py:572`).

Six definitions state what a reader of the code may expect and the code does not
do. No run checks them; as an `INVARIANT` of the run of their module each has a short
counterexample.

- `Rooms.NotInARoom` (with `Empty` among `RoomIDs`): `connected` uses `""` for "not
  in a room" (`ws/rooms.go:62`), but a room may be created with the id `""`, which
  the start page asks for when its field is empty. Its users stay in it for good.
- `Presentation.PauseObeyed`: a peer connection that is being made when the
  presentation is paused keeps the live track (`ui/src/useRoom.ts:579`). It fails in
  the other direction too: `togglePause` does not look again after waiting for the
  frame, and freezes (`769`) or darkens (`777`) a presentation that was resumed
  meanwhile.
- `Presentation.StatusIsTrue`: `share` listens to the end of the capture only after
  its last await (`useRoom.ts:451`). It also fails after a lost WebSocket:
  `stream.current` stays and blocks `share` in the next room (`216`), while stopping
  is not offered.
- `QrCode.CorrectionIsRight`: `rs_generator_poly` puts the coefficient of x^0 first,
  `rs_encode` takes the first for the leading one (`qr_util.py:42`), so that the error
  correction fits no text and a reader finds more errors than it can correct. With the
  generator read backwards the definition holds for all lengths of the run. The copy in
  `QRCodeGenerator.kt` does the same.
- `QrCode.FormatIsRead`: the format information is written with rows and columns
  exchanged (`qr_util.py:172`): row 8 has the bits of column 8 and the other way round, so
  a reader finds 0x11F7 where 0x77C4 is meant, and does not know mask and level. No
  standard reader decodes such a code, which the dialog "Scan with Phone to Join"
  (`gui_overlay.py:52`) shows when the library `qrcode` is missing. The copy in
  `QRCodeGenerator.kt:232` does the same.
- `QrCode.EveryBitPlaced`: the loop over the columns (`qr_util.py:144`) fills column 4
  twice and column 0 never.

Where a property needs a condition, the condition names what goes wrong without it:

- a second `startShare` (`ui_failsafe.py:421`, or the poll at `871`) replaces the first
  capture without stopping it (`"twice"`); a microphone that is granted late stays on
  (`"micLate"`, `790`); a capture that ends while a loopback device is looked for is
  presented (`"endedEarly"`, `644`);
- a page that reconnects before the server has noticed is thrown out when an old
  peer connection sends a candidate (`NobodyThrownOut`, `460`);
- a takeover, and `sys.exit` for want of a binary (`process_util.py:46`), leave
  "ComputerSound" as default source (`CleanSlate`, which does not look at
  `pactl subscribe`, `system_util.py:313`, and at what outlives the process of the browser);
- the fallback client counts as a real build (`ui_builder.py:24`), so that the page is
  not built when a bundler is installed later;
- versions 6 and 7 of the QR code are made as one block without version information,
  which no reader of these versions expects; links to a room are shorter.

A smaller one, without a run: the comment of `startWriteHandler` says that
errors exit the loop (`ws/client.go:133`), but only `CloseWriter` does.

## 6. Proofs

All for any number of connections, rooms, names and messages (`MaxBatch` is any
natural number).

`RoomsProofs`, each under the hypothesis `Empty \notin RoomIDs`, without which
they are false (`NotInARoom` above):

- `TypeCorrect`: `Spec => []TypeOK`
- `MapsAgree`: `Spec => []Agree`
- `EndsPresent`: `Spec => []SessionsSound`
- `SharesReachAll`: `Spec => []SharesComplete`

The four invariants are proved together (`Core`). None is inductive alone:
that a departure removes the right sessions needs both ends of a session to be
users (`SessionsSound`), that a share reaches everybody needs the user map to
be the one `connected` points at (`Agree`), and both need the field types.
`executeNoError` is proved once, for the maps a failed handler leaves behind,
and used by every action that can fail.

The second part of `RoomsProofs`, under the same hypothesis:

- `CredentialsExact`: `Spec => []TurnExact`
- `AnnouncementsExact`: `Spec => []SessionsKnown`
- `NoRoomIsEmpty`: `Spec => []RoomsOccupied`
- `UsersAreTold`: `Spec => []ToldTruth`
- `CloseIsSentOnce`: `Spec => []ClosedOnce`

They follow from `Promises`, which is inductive relative to `Core` and says the
same for every client and login, those of absent clients included. The argument
is that a client is in one room (`Agree`), so a room's sessions and users are
nobody else's and what ends there leaves the other rooms' credentials,
announcements and closings alone. A handler that succeeds is described once, by
`Succeeds` (the room it puts back, the sessions it ends and starts), and lemma
`PutPromises` does the work for `Join`, `Create`, `StartShare`, `StopShare` and
`Name`; `LeaveRoomPromises` does it for a departure, from the maps a failed
handler may have changed already. In between, the users of that one room may
have been told an old state: nothing is claimed of them until it is done.

Another part of the module proves `CountersNeverDrift`, `Spec => []CountersExact`.
`Ledger` is `CountersExact` for the maps and the number of users joined that a failing
handler leaves behind, and says besides that what is counted is finite and that the
session of the next message is new. A handler that succeeds is described by `Counts`
(who enters, which sessions end, which start), one lemma adds up the cardinalities
(`PutLedger`), and `LeaveLedger` does it for a departure: they are additive because the
rooms have no user and no session in common (`SessionsApart`).

The same module, of the refinement and under the same hypothesis:

- `ServerIsAMesh`: `Spec => ImplementsMesh`. Every step of the main loop is a step of
  `ShareMesh` or changes nothing in it. Since a session leads from each sharer to each
  other user of its room and none leads elsewhere (`SessionsSound`, `SharesComplete`), the
  links are a function of who is where and who shares (`View`); each handler, the failed
  ones included, is then one of five things in those terms (`MeshLeaves`, `MeshEnters`,
  `MeshShares`, `MeshStops`, `MeshStays`), and one lemma for each shows that the mesh
  allows it. That a closing room throws out exactly its users is `Agree`.
- `NobodyLeavesWithoutCause`: `Spec => LeaveForCause`, from the same lemmas.
- `SeeingIsSharing` and `InOnePlace`: what the abstract specification means, for any
  clients and rooms, and therefore what `Rooms` does.

`ConnectionProofs`, for any clients and any number of messages: `ConnectionTypes` and
`PostedOnce` (`DisconnectedOnce`). Whoever has a message in the queue is blocked in
the send (`Blocked`), so nobody has the same one there twice (`NoneTwice`) and a
`Connected` behind a `Disconnected` of the same client is impossible (`Gone`); the
poster starts from the first error only, and no error comes before the upgrade is
done (`Started`). The same module proves of `Once`, for any number of callers (of whom
`Nobody` is none), `RunsAtMostOnce` and `OneRuns`, from an invariant that says who holds
the mutex, that `store` still finds `done = 0`, that whoever gives up has seen the
winner's store, and that there is one winner.

`PageProofs`, of `Presentation` and for any sessions, captures and pauses: `CapturesAreOwned`,
`NoGhosts` and `MutedIsSilent`. They are proved together from an invariant that
adds: `share` runs only while nothing is presented (so `ShareDone` never
overwrites a capture), `share` is only sent to an open socket (so `stopShare`,
which says nothing to a closed one, leaves no ghost), and a track or gain that
is on is not muted.

`PageProofs`, of `Signaling` and for any finite set of viewers and any number of shares:
`SignalingTypes` (`TypeOK`) and `PeersAreFound` (`MessagesFindPeers`). That an offer finds
the viewer's peer connection is a race of two paths: `ClientSession` goes from the server
straight to the viewer, the offer by way of the presenter. No statement about the first
message of a queue is inductive, because it says nothing of the second; `SignalingInv`
(`SignalingCounts`) counts instead how often each message of a session is in each queue.
Per session it says: nothing is there before the server made it (`UnbornOK`); its messages
are there once at most, and the presenter's end is as far as they tell (`HostOK`); as long
as an offer may come, the viewer has its peer connection or `ClientSession` is still in its
queue, and ahead of the offer (`ViewerOK`); an answer is on its way only while the
presenter waits for it, or has closed its end because the session is over or a
`stopshare` is on its way (`AnswerOK`). The last needs `ShareOK`: while the
presenter shows nothing, every `share` that waits is followed by its `stopshare`. The
lemmas before them say what one step does to those numbers (`UpAdded`, `UpTaken`,
`DownAdded`, `DownTaken`, `DownNew`, `DownEnds`), whatever the order in which the server
writes to the pages.

`FallbackPeersProofs`, for any finite set of viewers and any number of connections,
lost sockets, shares and candidates: `PeersFound` (`MessagesFindPeers`),
`CandidatesComplete` (`IceComplete`) and `NobodyIsThrownOut` (`NobodyThrownOut`). The
inductive invariant `PeersInv` (`PeersCounted`) counts messages too, but a page is now a
sequence of connections, and candidates come in any number. Per session it says:

- it belongs to two connections that the server let in (`Made`), and nothing is on its way
  before the server made it (`Unborn`);
- how far its two ends are agrees with the offers and answers on their way (`Stage`);
- what is on its way to one of its ends is for the connection which that page has now; it
  begins with the announcement, unless the page has handled that (`End`, `Order`); a page
  that has lost its connection gets nothing of the session any more;
- while both connections last, each candidate is on its way, kept or added (`Ice`).

A message that a page sends about a session of an earlier connection is allowed by all
this, and is why a page can be thrown out: `NobodyIsThrownOut` shows that the server then
still counts the earlier connection as one in the room. The shares need to be numbered in
the order in which the server took them, so that the next number is new. Most actions
change one session, or none: the others are carried over by one lemma that says on what
the claim about a session depends. `VarsOK` is what they need of the types, not all of
`TypeOK`. The bound `MaxIce` is a guard on a sum (`MapThenSumSet`), about which nothing is
proved: the theorems hold without it.

`FallbackHostProofs`, for any sessions, captures and microphones:
`PictureIsRightAlways`, `MuteObeyedAlways`, `CaptureOwnedAlways` and
`NoGhostHostAlways`. `HostInv` adds what each needs of the others: what is presented
or was made dark has been granted and is no longer waited for (`Stages`), so that
what `Present` shows is never dark; a paused picture is frozen or dark also for the
connections to come (`PauseKnown`); while `startShare` was never called twice there
is one capture asked for at most, and only that of the stream sounds (`OneAtATime`,
`SoundOwned`); a microphone is asked for while none runs and none is muted
(`MicOwned`). The histories in `mishaps` carry the exceptions through every step.

`LaunchProofs`, of `Build` and for any number of edits: `BuildTypes`, `NothingStaleIsKept`
(`StaleIsNoticed`) and `NothingIsBuiltTwice` (`RestartIsQuick`). `StaleIsNoticed` speaks of
the time between two starts; `BuildInv` says what keeps it true during one: what
bundler and compiler are reading, and the page between them, is up to date or `missed`
says what is not (`BundlerKnows`, `PageEmitted`, `CompilerKnows`), and so is what a
compiler has read that outlived its host (`LateKnows`); a process that outlives its
bundler writes a page of the bundler, never the fallback (`OrphanBundled`). The actions
that write the binary, now or late, then turn the claims about what was read into those
about the binary.

The same module, of `Launch` and for any number of hosts and crashes:

- `MachineIsLeftAsFound` (`CleanSlate`): while hosts come one after the other and end by
  themselves, whoever is under way is alone (`Alone`): what is not as it was found is its
  doing, and it knows, by `loaded`, `original` and the process of its browser, what to undo;
  when nobody is, the machine is as it was found (`Untouched`). The types need to know that
  a host which restores the default source has looked it up (`LaunchTyped`).
- `NewHostTakesOver` (`TakeOver`): what makes room for a host while it starts. The others
  have ended, or still have the bridge and are killed for it (`GivesWay`); from then on
  nobody can take bridge or port 5050 before it (`Takes`).

`BridgeProofs`, for any number of microphones, polls, clicks and reports. Each theorem
has an inductive invariant of its own, relative to the types (`BridgeOK`, `TypesHold`),
that says what is still under way instead of "nothing is":

- `MicrophonesRestored` (`ExitUnmutes`): while `cleanup_audio` restores the microphones
  no report is handled and those already done stay on (`Restoring`).
- `ToolbarShowsTheTruth` (`ToolbarIsTrue`): a report that has not been passed on, a
  request or a dialog will be heard of, or the last state in the Qt queue, or the toolbar
  itself if the queue is empty, is `app_state` (`ShownInTheEnd`).
- `AppStateIsThePage` (`PageIsKnown`): for each flag, either it has been asked to change
  and the page will tell (`Owed`), or the last report under way that tells the flag is
  right, or there is none and `app_state` is right (`LastWord`). As long as nothing was
  reordered, reports are taken up in the order in which they were sent (`TakenInOrder`), so
  that the last one has the last word.
- `SwitchesFollowTheToolbar` (`MutesFollow`): `Steady` says what nobody clicking in
  between amounts to: one request at a time, nothing told about a switch while it is being
  toggled, and what is told of it otherwise is what the page has. From it follow
  `MicsRight`, which the reports restore even after a lost request, and `SoundRight`, which
  only the toolbar keeps. `Calm`, the history without such clicks, is passed on because
  `mishaps` only grows (`CalmBefore`).

The instance of the run `bridge` has one poll, so that no request is obeyed twice there;
the theorems cover any number.

Only model-checked: the two properties of `QrCode`, which computes with folds over data
and uses `Bitwise`, and liveness (`EventuallyRemoved`, `GoroutinesEnd`, `OthersReturn`,
`SharingIsSeen`, `TilesEnd`, `Starts`), which is out of the prover's reach.

## 7. Not modelled, and what could follow

- *Android host*: start and stop of the capture service race with the thread that
  starts server, capture and signalling; a module `AndroidHost` would have the
  service, that thread and the callbacks of two libraries.
- *Shutdown* (`server/server.go`) and *IP provider* (`config/ipdns/dns.go`): two goroutines
  on one channel; a lookup that holds the mutex of the main loop and of TURN
  allocations. `Rooms` takes it that `Get` may fail at any time.
- *Port range* (`turn/portrange.go`): arithmetic in 16 bit whose result goes to the TURN
  library.
- *Health check and counters*, the second WebSocket that `useRoom.ts` opens when
  `roomID` changes, and messages that are dropped by a write timeout on the way to a
  page: `Signaling` and `FallbackPeers` assume that a socket delivers what was written
  or is lost.
- *Windows*: the branches of `system_util.py`, `browser_launcher.py` and
  `process_util.py` for it; `sync_audio_volume`; the threads that copy output into the
  log; the progress bar.
- *Drawing*: the toolbar's layout, the QR dialog, the audio pipeline and banner of the
  fallback viewer, forms and settings of the React page, `ui_repair.py` beyond its part
  in the Deno bundler.
- *Library calls*: the session cookie, the password file, static files, logging.
