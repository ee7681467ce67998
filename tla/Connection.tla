----------------------------- MODULE Connection -----------------------------
(***************************************************************************)
(* The goroutines around the main loop (ws/client.go): for every WebSocket *)
(* the HTTP handler that upgrades it, a reader, a writer and, once the     *)
(* connection fails, a goroutine that posts Disconnected.  They meet the   *)
(* main loop at two kinds of channel: Incoming, unbuffered and shared by   *)
(* all, and Write, of one message, for each connection.                    *)
(*                                                                         *)
(* What the main loop does with a message is module Rooms; here a handler  *)
(* may write to any connected client and may throw some of them out.       *)
(*                                                                         *)
(* An operator Mutant... is the definition after it with a plausible bug;  *)
(* no specification uses it (see "Mutants" in README.md).                  *)
(***************************************************************************)
EXTENDS Naturals, Sequences, FiniteSets

CONSTANTS
    Clients,
    MaxRead,    \* bound: messages the clients send, all together
    MaxWrites   \* bound: rounds of messages a handler writes to its room

ASSUME ConnectionAssumption ==
    IsFiniteSet(Clients) /\ MaxRead \in Nat /\ MaxWrites \in Nat

VARIABLES
    sock,       \* the socket: "none", "open", "broken" by the peer, "closed"
    upgrader,   \* Upgrade: "new", "sending", "accepted", "done"
    reader,     \* startReading: "off", "reading", "sending", "closing", "done"
    writer,     \* startWriteHandler: "off", "select", "writing", "closing",
                \* "exiting", "done"
    poster,     \* go func() in CloseOnError: "off", "started", "sending", "done"
    fired,      \* once.done
    write,      \* the channel ClientInfo.Write
    incoming,   \* the senders blocked on Incoming, in the order they arrived
    connected,  \* the keys of Rooms.connected
    todo,       \* what the running handler has still to write, in stages
    reads,      \* how many messages the clients have sent
    dropped     \* connections whose CloseWriter was not accepted in time

vars == <<sock, upgrader, reader, writer, poster, fired, write, incoming,
          connected, todo, reads, dropped>>

Kinds == {"Connected", "Message", "Disconnected"}
Writes(S, what) == {[to |-> c, what |-> what] : c \in S}

TypeOK ==
    /\ sock \in [Clients -> {"none", "open", "broken", "closed"}]
    /\ upgrader \in [Clients -> {"new", "sending", "accepted", "done"}]
    /\ reader \in [Clients -> {"off", "reading", "sending", "closing", "done"}]
    /\ writer \in [Clients -> {"off", "select", "writing", "closing",
                               "exiting", "done"}]
    /\ poster \in [Clients -> {"off", "started", "sending", "done"}]
    /\ fired \in [Clients -> BOOLEAN]
    /\ write \in [Clients -> {<<>>, <<"message">>, <<"CloseWriter">>}]
    /\ incoming \in Seq([from : Clients, kind : Kinds])
    /\ connected \subseteq Clients
    /\ todo \in Seq(SUBSET [to : Clients, what : {"message", "CloseWriter"}])
    /\ reads \in 0 .. MaxRead
    /\ dropped \subseteq Clients

Init ==
    /\ sock = [c \in Clients |-> "none"]
    /\ upgrader = [c \in Clients |-> "new"]
    /\ reader = [c \in Clients |-> "off"]
    /\ writer = [c \in Clients |-> "off"]
    /\ poster = [c \in Clients |-> "off"]
    /\ fired = [c \in Clients |-> FALSE]
    /\ write = [c \in Clients |-> <<>>]
    /\ incoming = <<>>
    /\ connected = {}
    /\ todo = <<>>
    /\ reads = 0
    /\ dropped = {}

\* A goroutine blocks in a send on Incoming; Go serves blocked senders in order.
Send(c, kind) == incoming' = Append(incoming, [from |-> c, kind |-> kind])
-----------------------------------------------------------------------------
(***************************************************************************)
(* Upgrade, and the two goroutines it starts when Connected is accepted.   *)
(***************************************************************************)
Upgrade(c) ==
    /\ upgrader[c] = "new"
    /\ upgrader' = [upgrader EXCEPT ![c] = "sending"]
    /\ sock' = [sock EXCEPT ![c] = "open"]
    /\ Send(c, "Connected")
    /\ UNCHANGED <<reader, writer, poster, fired, write, connected, todo, reads,
                   dropped>>

StartLoops(c) ==
    /\ upgrader[c] = "accepted"
    /\ upgrader' = [upgrader EXCEPT ![c] = "done"]
    /\ reader' = [reader EXCEPT ![c] = "reading"]
    /\ writer' = [writer EXCEPT ![c] = "select"]
    /\ UNCHANGED <<sock, poster, fired, write, incoming, connected, todo, reads,
                   dropped>>

\* The peer goes away: both reads and writes fail from now on.
PeerBreaks(c) ==
    /\ sock[c] = "open"
    /\ sock' = [sock EXCEPT ![c] = "broken"]
    /\ UNCHANGED <<upgrader, reader, writer, poster, fired, write, incoming,
                   connected, todo, reads, dropped>>
-----------------------------------------------------------------------------
MutantCloseOnErrorTwice(c) ==
    /\ fired' = [fired EXCEPT ![c] = TRUE]
    /\ poster' = [poster EXCEPT ![c] = "started"]
MutantCloseOnErrorSilent(c) ==
    /\ fired' = [fired EXCEPT ![c] = TRUE]
    /\ UNCHANGED poster
\* CloseOnError: the first caller starts the goroutine that posts Disconnected
\* and goes on to close the socket; for any other it does nothing.
CloseOnError(c) ==
    /\ fired' = [fired EXCEPT ![c] = TRUE]
    /\ poster' = IF fired[c] THEN poster ELSE [poster EXCEPT ![c] = "started"]

ReadMessage(c) ==
    /\ reader[c] = "reading" /\ sock[c] = "open" /\ reads < MaxRead
    /\ reads' = reads + 1
    /\ reader' = [reader EXCEPT ![c] = "sending"]
    /\ Send(c, "Message")
    /\ UNCHANGED <<sock, upgrader, writer, poster, fired, write, connected,
                   todo, dropped>>

ReaderFails(c) ==
    /\ reader[c] = "reading"
    /\ CloseOnError(c)
    /\ reader' = [reader EXCEPT ![c] = IF fired[c] THEN "done" ELSE "closing"]
    /\ UNCHANGED <<sock, upgrader, writer, write, incoming, connected, todo,
                   reads, dropped>>

\* NextReader returns an error: the socket is gone.
ReadError(c) == sock[c] \in {"broken", "closed"} /\ ReaderFails(c)

\* A binary or malformed message, or no pong for 20 seconds.
BadMessage(c) == sock[c] = "open" /\ ReaderFails(c)

\* writeCloseMessage in the reader; the deferred CloseOnError is then the second.
ReaderCloses(c) ==
    /\ reader[c] = "closing"
    /\ reader' = [reader EXCEPT ![c] = "done"]
    /\ sock' = [sock EXCEPT ![c] = "closed"]
    /\ UNCHANGED <<upgrader, writer, poster, fired, write, incoming, connected,
                   todo, reads, dropped>>

Post(c) ==
    /\ poster[c] = "started"
    /\ poster' = [poster EXCEPT ![c] = "sending"]
    /\ Send(c, "Disconnected")
    /\ UNCHANGED <<sock, upgrader, reader, writer, fired, write, connected,
                   todo, reads, dropped>>
-----------------------------------------------------------------------------
(***************************************************************************)
(* startWriteHandler.  Only CloseWriter ends it: after an error it closes  *)
(* the socket and goes back to the select.                                 *)
(***************************************************************************)
TakeMessage(c) ==
    /\ writer[c] = "select" /\ write[c] = <<"message">>
    /\ write' = [write EXCEPT ![c] = <<>>]
    /\ writer' = [writer EXCEPT ![c] = "writing"]
    /\ UNCHANGED <<sock, upgrader, reader, poster, fired, incoming, connected,
                   todo, reads, dropped>>

WriteDone(c) ==
    /\ writer[c] = "writing" /\ sock[c] = "open"
    /\ writer' = [writer EXCEPT ![c] = "select"]
    /\ UNCHANGED <<sock, upgrader, reader, poster, fired, write, incoming,
                   connected, todo, reads, dropped>>

\* writeJSON fails, at the latest when writeWait is over.
WriteFails(c) ==
    /\ writer[c] = "writing"
    /\ CloseOnError(c)
    /\ writer' = [writer EXCEPT ![c] = IF fired[c] THEN "select" ELSE "closing"]
    /\ UNCHANGED <<sock, upgrader, reader, write, incoming, connected, todo,
                   reads, dropped>>

\* A ping fails too when it cannot be written in time to a socket that is open.
PingFails(c) ==
    /\ writer[c] = "select"
    /\ CloseOnError(c)
    /\ writer' = [writer EXCEPT ![c] = IF fired[c] THEN "select" ELSE "closing"]
    /\ UNCHANGED <<sock, upgrader, reader, write, incoming, connected, todo,
                   reads, dropped>>

WriterCloses(c) ==
    /\ writer[c] = "closing"
    /\ writer' = [writer EXCEPT ![c] = "select"]
    /\ sock' = [sock EXCEPT ![c] = "closed"]
    /\ UNCHANGED <<upgrader, reader, poster, fired, write, incoming, connected,
                   todo, reads, dropped>>

\* CloseWriter: CloseOnDone and the deferred conn.Close.
TakeCloseWriter(c) ==
    /\ writer[c] = "select" /\ write[c] = <<"CloseWriter">>
    /\ write' = [write EXCEPT ![c] = <<>>]
    /\ fired' = [fired EXCEPT ![c] = TRUE]
    /\ writer' = [writer EXCEPT ![c] = "exiting"]
    /\ UNCHANGED <<sock, upgrader, reader, poster, incoming, connected, todo,
                   reads, dropped>>

WriterExits(c) ==
    /\ writer[c] = "exiting"
    /\ writer' = [writer EXCEPT ![c] = "done"]
    /\ sock' = [sock EXCEPT ![c] = "closed"]
    /\ UNCHANGED <<upgrader, reader, poster, fired, write, incoming, connected,
                   todo, reads, dropped>>
-----------------------------------------------------------------------------
(***************************************************************************)
(* The main loop.                                                          *)
(***************************************************************************)
\* The sender whose message is received goes on.
Unblock(c, kind) ==
    /\ upgrader' = IF kind = "Connected"
                   THEN [upgrader EXCEPT ![c] = "accepted"] ELSE upgrader
    /\ reader' = IF kind = "Message"
                 THEN [reader EXCEPT ![c] = "reading"] ELSE reader
    /\ poster' = IF kind = "Disconnected"
                 THEN [poster EXCEPT ![c] = "done"] ELSE poster

\* What a handler writes to clients of S: in each round a message to some of them,
\* such as the two ends of a session or all users of the room.
Rounds(S, most) ==
    UNION {[1 .. n -> {Writes(T, "message") : T \in (SUBSET S) \ {{}}}] : n \in 0 .. most}

\* A handler writes to clients of the room of c.
Notify(c) == todo' \in Rounds(connected, MaxWrites) /\ UNCHANGED connected

\* Disconnected.executeNoError, after a handler that has written sent before it
\* failed (a join has notified the room by then): CloseWriter to c itself, then messages to the others, then CloseWriter
\* to all of them if the room closes with its owner.
Disconnect(c, sent) ==
    \E S \in SUBSET (connected \ {c}) : \E told \in Rounds(S, MaxWrites) :
        \/ /\ connected' = connected \ {c}
           /\ todo' = sent \o <<Writes({c}, "CloseWriter")>> \o told
        \/ /\ S # {}
           /\ connected' = connected \ ({c} \cup S)
           /\ todo' = sent \o <<Writes({c}, "CloseWriter")>> \o told
                           \o <<Writes(S, "CloseWriter")>>

MutantExecute(c, kind) ==
    \/ kind = "Connected" /\ connected' = connected \cup {c} /\ todo' = todo
    \/ kind # "Connected" /\ c \notin connected /\ UNCHANGED <<connected, todo>>
    \/ /\ kind = "Message" /\ c \in connected
       /\ Notify(c) \/ \E sent \in Rounds(connected, 1) : Disconnect(c, sent)
    \/ /\ kind = "Disconnected" /\ c \in connected
       /\ connected' = connected \ {c} /\ todo' = todo
Execute(c, kind) ==
    \/ kind = "Connected" /\ connected' = connected \cup {c} /\ todo' = todo
    \/ kind # "Connected" /\ c \notin connected /\ UNCHANGED <<connected, todo>>
    \/ /\ kind = "Message" /\ c \in connected
       /\ Notify(c) \/ \E sent \in Rounds(connected, 1) : Disconnect(c, sent)
    \/ kind = "Disconnected" /\ c \in connected /\ Disconnect(c, <<>>)

Receive ==
    /\ todo = <<>> /\ incoming # <<>>
    /\ LET msg == Head(incoming)
       IN Unblock(msg.from, msg.kind) /\ Execute(msg.from, msg.kind)
    /\ incoming' = Tail(incoming)
    /\ UNCHANGED <<sock, writer, fired, write, reads, dropped>>

\* The write w is over; the next stage follows when the first has none left.
Written(w) ==
    todo' = IF Head(todo) = {w} THEN Tail(todo) ELSE [todo EXCEPT ![1] = @ \ {w}]

\* The channel Write has room: its capacity is 1.
HasSpace(c) == Len(write[c]) < 1

\* writeTimeout: the channel takes the message ...
WriteAccepted(w) ==
    /\ todo # <<>> /\ w \in Head(todo) /\ HasSpace(w.to)
    /\ write' = [write EXCEPT ![w.to] = Append(@, w.what)]
    /\ Written(w)
    /\ UNCHANGED <<sock, upgrader, reader, writer, poster, fired, incoming,
                   connected, reads, dropped>>

\* ... or is still full after two seconds and the message is lost.
WriteTimesOut(w) ==
    /\ todo # <<>> /\ w \in Head(todo) /\ ~HasSpace(w.to)
    /\ Written(w)
    /\ dropped' = IF w.what = "CloseWriter" THEN dropped \cup {w.to} ELSE dropped
    /\ UNCHANGED <<sock, upgrader, reader, writer, poster, fired, write,
                   incoming, connected, reads>>

MainLoop ==
    \/ Receive
    \/ \E c \in Clients, what \in {"message", "CloseWriter"} :
          LET w == [to |-> c, what |-> what]
          IN WriteAccepted(w) \/ WriteTimesOut(w)

ReaderStep(c) == ReadError(c) \/ ReaderCloses(c)
WriterStep(c) == TakeMessage(c) \/ WriteDone(c) \/ WriteFails(c)
                    \/ WriterCloses(c) \/ TakeCloseWriter(c) \/ WriterExits(c)

Next ==
    \/ MainLoop
    \/ \E c \in Clients :
          \/ Upgrade(c) \/ StartLoops(c) \/ PeerBreaks(c)
          \/ ReadMessage(c) \/ BadMessage(c) \/ ReaderStep(c)
          \/ Post(c)
          \/ WriterStep(c) \/ PingFails(c)

\* The Go scheduler runs every goroutine that can run.  Nothing is assumed of
\* the peers: they need not connect, send or break.
Fairness ==
    /\ WF_vars(MainLoop)
    /\ \A c \in Clients :
          /\ WF_vars(StartLoops(c))
          /\ WF_vars(ReaderStep(c))
          /\ WF_vars(Post(c))
          /\ WF_vars(WriterStep(c))

Spec == Init /\ [][Next]_vars
FairSpec == Spec /\ Fairness
-----------------------------------------------------------------------------
\* Disconnected is posted at most once, and is the last thing the connection
\* has to say that counts: when it has been executed, c is not connected, also
\* if a message of c is still queued behind it.
DisconnectedOnce ==
    \A c \in Clients :
        /\ Cardinality({i \in DOMAIN incoming :
                incoming[i] = [from |-> c, kind |-> "Disconnected"]}) <= 1
        /\ poster[c] = "done" => c \notin connected

\* A connection whose socket is gone leaves connected.
EventuallyRemoved ==
    \A c \in Clients :
        sock[c] \in {"broken", "closed"} /\ upgrader[c] = "done" ~> c \notin connected

\* Reader and poster of a socket that is gone end; so does a writer, unless its
\* CloseWriter was dropped.
GoroutinesEnd ==
    \A c \in Clients :
        sock[c] = "closed" ~>
            /\ reader[c] = "done"
            /\ poster[c] \in {"off", "done"}
            /\ writer[c] = "done" \/ c \in dropped
=============================================================================
