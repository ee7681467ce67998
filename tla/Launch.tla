-------------------------------- MODULE Launch --------------------------------
(* One run of control_server.py after the other, or several at the same time, on *)
(* Linux: the ports, the processes, the default source of the sound server and   *)
(* the windows of the browser, which all outlast a host that does not end by     *)
(* itself. Whether there is a binary of the server is the matter of module Build. *)
EXTENDS Naturals, FiniteSets

CONSTANTS
    Hosts,      \* runs of the program
    NoHost,     \* no run
    MaxCrashes  \* bound: hosts that the user kills

ASSUME HostsAssumption == NoHost \notin Hosts /\ IsFiniteSet(Hosts)
ASSUME CrashesAssumption == MaxCrashes \in Nat

VARIABLES
    pc,         \* how far each host is
    bridge,     \* the host that has port 5055, or NoHost
    server,     \* the server of each host; one that is ready has port 5050
    default,    \* the default source
    original,   \* original_default_source of each host
    modules,    \* remap modules: of a host, or the one of the user
    loaded,     \* remap_module_id of each host is set
    browser,    \* the host that started the process of the browser, or NoHost
    pages,      \* hosts whose page is open
    crashes,
    together,   \* (ghost) two hosts were under way at a time
    clear       \* (ghost) no other host was starting or ending, or up without a
                \* bridge, when this one started, and none was started before it was up

ports == <<bridge, server>>
sound == <<default, original, modules, loaded>>
windows == <<browser, pages>>
seen == <<crashes, together, clear>>
launchVars == <<pc, ports, sound, windows, seen>>

Ended == {"off", "ended", "killed", "failed"}
LaunchInit ==
    /\ pc = [h \in Hosts |-> "off"]
    /\ bridge = NoHost /\ server = [h \in Hosts |-> "none"]
    /\ default = "own" /\ original = [h \in Hosts |-> "none"]
    /\ modules = {NoHost} /\ loaded = [h \in Hosts |-> FALSE]
    /\ browser = NoHost /\ pages = {}
    /\ crashes = 0
    /\ together = FALSE /\ clear = [h \in Hosts |-> FALSE]

Goto(h, at) == pc' = [pc EXCEPT ![h] = at]
Others(h) == Hosts \ {h}

-------------------------------------------------------------------------------
\* kill_port_owners: fuser -k, once for each port.

Launch(h) ==
    /\ pc[h] = "off"
    /\ Goto(h, "kill_server")
    /\ together' = (together \/ \E g \in Others(h) : pc[g] \notin Ended)
    /\ clear' = [g \in Hosts |->
                    IF g = h THEN \A f \in Others(h) : server[f] # "starting" /\
                                     (pc[f] \in Ended \/ (pc[f] = "up" /\ bridge = f))
                    ELSE clear[g] /\ pc[g] \in Ended \union {"up"}]
    /\ UNCHANGED <<ports, sound, windows, crashes>>

MutantKillServer(h) ==         \* leaves the servers of hosts that are no more
    /\ pc[h] = "kill_server"
    /\ server' = [g \in Hosts |-> IF server[g] = "ready" /\ pc[g] = "up" THEN "gone" ELSE server[g]]
    /\ Goto(h, "kill_host")
    /\ UNCHANGED <<bridge, sound, windows, seen>>
KillServer(h) ==
    /\ pc[h] = "kill_server"
    /\ server' = [g \in Hosts |-> IF server[g] = "ready" THEN "gone" ELSE server[g]]
    /\ Goto(h, "kill_host")
    /\ UNCHANGED <<bridge, sound, windows, seen>>

\* A host that is killed cleans nothing up.
KillHost(h) ==
    /\ pc[h] = "kill_host"
    /\ pc' = [g \in Hosts |-> IF g = h THEN "sources" ELSE IF g = bridge THEN "killed" ELSE pc[g]]
    /\ bridge' = NoHost
    /\ UNCHANGED <<server, sound, windows, seen>>

-------------------------------------------------------------------------------
\* setup_pipewire_audio. All modules have the same name for the source.

GetDefault(h) ==
    /\ pc[h] = "sources"
    /\ original' = [original EXCEPT ![h] = default]
    /\ pc' \in {[pc EXCEPT ![h] = at] : at \in {"module", "build"}}     \* no sink: that is all
    /\ UNCHANGED <<ports, default, modules, loaded, windows, seen>>

LoadModule(h) ==
    /\ pc[h] = "module"
    /\ \/ /\ modules' = modules \union {h}
          /\ loaded' = [loaded EXCEPT ![h] = TRUE]
       \/ UNCHANGED <<modules, loaded>>
    /\ Goto(h, "default")
    /\ UNCHANGED <<ports, default, original, windows, seen>>

SetDefault(h) ==
    /\ pc[h] = "default"
    /\ default' = IF loaded[h] THEN "ComputerSound" ELSE "monitor"
    /\ Goto(h, "build")
    /\ UNCHANGED <<ports, original, modules, loaded, windows, seen>>

-------------------------------------------------------------------------------
\* start_screenshare_server and wait_for_server.

\* find_or_build_binary takes as long as a build; without a binary sys.exit(1).
FindBinary(h) ==
    /\ pc[h] = "build"
    /\ \/ Goto(h, "wait") /\ server' = [server EXCEPT ![h] = "starting"]
       \/ Goto(h, "failed") /\ UNCHANGED server
    /\ UNCHANGED <<bridge, sound, windows, seen>>

\* The process of the server takes its port, or ends if another has it.
Bind(h) ==
    /\ server[h] = "starting"
    /\ server' = [server EXCEPT ![h] = IF \E g \in Hosts : server[g] = "ready" THEN "gone" ELSE "ready"]
    /\ UNCHANGED <<pc, bridge, sound, windows, seen>>

\* Whether a server answers, the own one or another, or has ended, or the time is
\* up: the host goes on.
MutantWaitForServer(h) ==      \* has no time limit
    /\ pc[h] = "wait"
    /\ server[h] = "gone" \/ \E g \in Hosts : server[g] = "ready"
    /\ Goto(h, "bridge")
    /\ UNCHANGED <<ports, sound, windows, seen>>
WaitForServer(h) ==
    /\ pc[h] = "wait"
    /\ Goto(h, "bridge")
    /\ UNCHANGED <<ports, sound, windows, seen>>

-------------------------------------------------------------------------------
\* The thread of the bridge ends at once if the port is taken.
StartBridge(h) ==
    /\ pc[h] = "bridge"
    /\ bridge' = IF bridge = NoHost THEN h ELSE bridge
    /\ Goto(h, "browser")
    /\ UNCHANGED <<server, sound, windows, seen>>

\* All hosts use the same profile: a browser that runs already takes the page over,
\* and the process that was started ends.
LaunchBrowser(h) ==
    /\ pc[h] = "browser"
    /\ \/ UNCHANGED windows        \* find_browser_executable finds none
       \/ /\ pages' = pages \union {h}
          /\ browser' = IF browser = NoHost THEN h ELSE browser
    /\ Goto(h, "toolbar")
    /\ UNCHANGED <<ports, sound, seen>>

ShowToolbar(h) ==
    /\ pc[h] = "toolbar"
    /\ Goto(h, "up")
    /\ UNCHANGED <<ports, sound, windows, seen>>

-------------------------------------------------------------------------------
\* cleanup, when the user quits.

Quit(h) ==
    /\ pc[h] = "up"
    /\ Goto(h, "close_browser")
    /\ UNCHANGED <<ports, sound, windows, seen>>

\* browser_proc is taken for the browser, and its end for the end of the windows.
CloseBrowser(h) ==
    /\ pc[h] = "close_browser"
    /\ IF browser = h THEN browser' = NoHost /\ pages' = {} ELSE UNCHANGED windows
    /\ Goto(h, "stop_server")
    /\ UNCHANGED <<ports, sound, seen>>

StopServer(h) ==
    /\ pc[h] = "stop_server"
    /\ server' = [server EXCEPT ![h] = "gone"]
    /\ Goto(h, "restore")
    /\ UNCHANGED <<bridge, sound, windows, seen>>

\* cleanup_audio, and the end of the process.
MutantCleanupAudio(h) ==       \* takes it that the source goes with its module
    /\ pc[h] = "restore"
    /\ modules' = IF loaded[h] THEN modules \ {h} ELSE {}
    /\ default' = IF loaded[h] THEN default ELSE original[h]
    /\ bridge' = IF bridge = h THEN NoHost ELSE bridge
    /\ Goto(h, "ended")
    /\ UNCHANGED <<server, original, loaded, windows, seen>>
CleanupAudio(h) ==
    /\ pc[h] = "restore"
    /\ modules' = IF loaded[h] THEN modules \ {h} ELSE {}
    /\ default' = original[h]
    /\ bridge' = IF bridge = h THEN NoHost ELSE bridge
    /\ Goto(h, "ended")
    /\ UNCHANGED <<server, original, loaded, windows, seen>>

\* The user kills the host, by a signal or with its terminal.
Crash(h) ==
    /\ pc[h] \notin Ended
    /\ crashes < MaxCrashes
    /\ crashes' = crashes + 1
    /\ Goto(h, "killed")
    /\ bridge' = IF bridge = h THEN NoHost ELSE bridge
    /\ UNCHANGED <<server, sound, windows, together, clear>>

-------------------------------------------------------------------------------
Start(h) ==
    \/ KillServer(h) \/ KillHost(h) \/ GetDefault(h) \/ LoadModule(h) \/ SetDefault(h)
    \/ FindBinary(h) \/ WaitForServer(h)
    \/ StartBridge(h) \/ LaunchBrowser(h) \/ ShowToolbar(h)

Cleanup(h) == CloseBrowser(h) \/ StopServer(h) \/ CleanupAudio(h)

LaunchNext ==
    \/ \E h \in Hosts : Launch(h) \/ Start(h) \/ Bind(h) \/ Quit(h) \/ Cleanup(h) \/ Crash(h)

\* The host goes on, and the programs that it runs and waits for end.
Fairness == \A h \in Hosts : WF_launchVars(Start(h)) /\ WF_launchVars(Cleanup(h))

LaunchSpec == LaunchInit /\ [][LaunchNext]_launchVars /\ Fairness

-------------------------------------------------------------------------------
LaunchTypeOK ==
    /\ pc \in [Hosts -> Ended \union {"kill_server", "kill_host", "sources", "module", "default",
                 "build", "wait", "bridge", "browser", "toolbar", "up",
                 "close_browser", "stop_server", "restore"}]
    /\ bridge \in Hosts \union {NoHost}
    /\ server \in [Hosts -> {"none", "starting", "ready", "gone"}]
    /\ default \in {"own", "ComputerSound", "monitor"}
    /\ original \in [Hosts -> {"none", "own", "ComputerSound", "monitor"}]
    /\ modules \subseteq Hosts \union {NoHost} /\ loaded \in [Hosts -> BOOLEAN]
    /\ browser \in Hosts \union {NoHost} /\ pages \subseteq Hosts
    /\ crashes \in 0 .. MaxCrashes
    /\ together \in BOOLEAN /\ clear \in [Hosts -> BOOLEAN]

\* As long as one host after the other is started and ended by itself, the machine is
\* left as it was found: own default source, no module, no server, no browser_proc. A
\* module of the user is gone only if one of the hosts could not load its own. (What
\* outlives browser_proc, which may be a wrapper or flatpak run, and the pactl subscribe
\* of sync_audio_volume, system_util.py:313, are outside of it.)
CleanSlate ==
    ~together /\ (\A h \in Hosts : pc[h] \in {"off", "ended"}) =>
        /\ default = "own"
        /\ modules \subseteq {NoHost}
        /\ NoHost \in modules \/ \E h \in Hosts : pc[h] = "ended" /\ ~loaded[h]
        /\ \A h \in Hosts : server[h] \in {"none", "gone"}
        /\ pages = {} /\ bridge = NoHost

\* A host takes the place of those before it, one of which may be up, while others are
\* gone and have left processes behind: once it is up it has the bridge, the others
\* have neither bridge nor server, and none of them is up.
TakeOver ==
    \A h \in Hosts : pc[h] = "up" /\ clear[h] =>
        /\ bridge = h
        /\ \A g \in Others(h) : pc[g] # "up" /\ server[g] \in {"none", "gone"}

\* A host that is started comes up or ends, even if its server never answers.
Starts == \A h \in Hosts : pc[h] = "kill_server" ~> pc[h] \in Ended \union {"up"}
=============================================================================
