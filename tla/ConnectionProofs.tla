--------------------------- MODULE ConnectionProofs ---------------------------
(* Proofs about module Connection, for any clients and any number of messages,  *)
(* and about Once, on which it rests.                                           *)
EXTENDS Connection, Once, FiniteSetTheorems, TLAPS

Msgs == [from : Clients, kind : Kinds]

\* The loops and the poster of a connection follow its upgrade, and only the first
\* error starts the poster.
Started ==
    \A c \in Clients :
        /\ reader[c] # "off" \/ writer[c] # "off" \/ poster[c] # "off" => upgrader[c] = "done"
        /\ poster[c] # "off" => fired[c]

\* Whoever has a message in the queue is blocked in the send.
Blocked ==
    \A i \in DOMAIN incoming :
        /\ incoming[i].kind = "Connected" => upgrader[incoming[i].from] = "sending"
        /\ incoming[i].kind = "Message" => reader[incoming[i].from] = "sending"
        /\ incoming[i].kind = "Disconnected" => poster[incoming[i].from] = "sending"

\* Nobody has the same message in the queue twice.
NoneTwice ==
    \A i, j \in DOMAIN incoming :
        incoming[i] = incoming[j] => i = j

\* Nobody is connected again after Disconnected.
Gone == \A c \in Clients : poster[c] = "done" => c \notin connected

PostedInv == Started /\ Blocked /\ NoneTwice /\ Gone
-------------------------------------------------------------------------------
\* Every variable keeps its type.
LEMMA InitTypes == Init => TypeOK
BY ConnectionAssumption DEF Init, TypeOK

LEMMA ErrorTypes ==
    ASSUME TypeOK, NEW c \in Clients, CloseOnError(c)
    PROVE  /\ fired' \in [Clients -> BOOLEAN]
           /\ poster' \in [Clients -> {"off", "started", "sending", "done"}]
BY DEF TypeOK, CloseOnError

LEMMA HandlerTypes ==
    ASSUME NEW c \in Clients, NEW kind \in Kinds, Execute(c, kind), connected \subseteq Clients,
           todo \in Seq(SUBSET [to : Clients, what : {"message", "CloseWriter"}])
    PROVE  /\ connected' \subseteq Clients
           /\ todo' \in Seq(SUBSET [to : Clients, what : {"message", "CloseWriter"}])
<1> DEFINE W == SUBSET [to : Clients, what : {"message", "CloseWriter"}]
<1>1. \A S \in SUBSET Clients : Writes(S, "message") \in W /\ Writes(S, "CloseWriter") \in W
  BY DEF Writes
<1> HIDE DEF W
<1>2. \A S \in SUBSET Clients, most \in Nat : Rounds(S, most) \subseteq Seq(W)
  <2>1. ASSUME NEW S \in SUBSET Clients, NEW n \in Nat,
               NEW r \in [1 .. n -> {Writes(T, "message") : T \in (SUBSET S) \ {{}}}]
        PROVE  r \in Seq(W)
    <3>1. \A i \in 1 .. n : r[i] \in W
      BY <1>1
    <3>2. QED
      BY <3>1
  <2>2. SUFFICES ASSUME NEW S \in SUBSET Clients, NEW most \in Nat, NEW r \in Rounds(S, most)
                 PROVE  r \in Seq(W)
    OBVIOUS
  <2>3. PICK n \in 0 .. most : r \in [1 .. n -> {Writes(T, "message") : T \in (SUBSET S) \ {{}}}]
    BY DEF Rounds
  <2>4. n \in Nat
    OBVIOUS
  <2>5. QED
    BY <2>1, <2>3, <2>4
<1>3. ASSUME Notify(c) PROVE connected' \subseteq Clients /\ todo' \in Seq(W)
  BY <1>2, <1>3, ConnectionAssumption DEF Notify
<1>4. ASSUME NEW sent \in Seq(W), Disconnect(c, sent)
      PROVE  connected' \subseteq Clients /\ todo' \in Seq(W)
  <2>1. PICK S \in SUBSET (connected \ {c}) : \E told \in Rounds(S, MaxWrites) :
           \/ /\ connected' = connected \ {c}
              /\ todo' = sent \o <<Writes({c}, "CloseWriter")>> \o told
           \/ /\ S # {}
              /\ connected' = connected \ ({c} \cup S)
              /\ todo' = sent \o <<Writes({c}, "CloseWriter")>> \o told
                              \o <<Writes(S, "CloseWriter")>>
    BY <1>4 DEF Disconnect
  <2>2. Writes({c}, "CloseWriter") \in W /\ Writes(S, "CloseWriter") \in W
    BY <1>1
  <2>3. PICK told \in Seq(W) :
           \/ /\ connected' = connected \ {c}
              /\ todo' = sent \o <<Writes({c}, "CloseWriter")>> \o told
           \/ /\ connected' = connected \ ({c} \cup S)
              /\ todo' = sent \o <<Writes({c}, "CloseWriter")>> \o told
                              \o <<Writes(S, "CloseWriter")>>
    BY <1>2, <2>1, ConnectionAssumption
  <2>4. <<Writes({c}, "CloseWriter")>> \in Seq(W) /\ <<Writes(S, "CloseWriter")>> \in Seq(W)
    BY <2>2
  <2>5. sent \o <<Writes({c}, "CloseWriter")>> \o told \in Seq(W)
    BY <1>4, <2>3, <2>4
  <2>6. sent \o <<Writes({c}, "CloseWriter")>> \o told \o <<Writes(S, "CloseWriter")>> \in Seq(W)
    BY <2>4, <2>5
  <2>7. QED
    BY <2>3, <2>5, <2>6
<1>5. ASSUME NEW sent \in Rounds(connected, 1), Disconnect(c, sent)
      PROVE  connected' \subseteq Clients /\ todo' \in Seq(W)
  <2>1. sent \in Seq(W)
    BY <1>2
  <2>2. QED
    BY <1>4, <1>5, <2>1
<1>6. ASSUME Disconnect(c, <<>>) PROVE connected' \subseteq Clients /\ todo' \in Seq(W)
  <2>1. <<>> \in Seq(W)
    OBVIOUS
  <2>2. QED
    BY <1>4, <1>6, <2>1
<1>7. connected' \subseteq Clients /\ todo' \in Seq(W)
  BY <1>3, <1>5, <1>6 DEF Execute, W
<1>8. QED
  BY <1>7 DEF W

LEMMA TypeStep == TypeOK /\ [Next]_vars => TypeOK'
<1> SUFFICES ASSUME TypeOK, [Next]_vars PROVE TypeOK'
  OBVIOUS
<1> USE DEF TypeOK
<1>1. CASE UNCHANGED vars
  BY <1>1 DEF vars
<1>2. ASSUME NEW c \in Clients, NEW kind \in Kinds, Send(c, kind)
      PROVE  incoming' \in Seq([from : Clients, kind : Kinds])
  BY <1>2 DEF Send
<1>3. ASSUME NEW c \in Clients, Upgrade(c) \/ ReadMessage(c) \/ Post(c) PROVE TypeOK'
  <2>1. incoming' \in Seq([from : Clients, kind : Kinds])
    BY <1>2, <1>3 DEF Upgrade, ReadMessage, Post, Kinds
  <2>2. reads' \in 0 .. MaxRead
    BY <1>3, ConnectionAssumption DEF Upgrade, ReadMessage, Post
  <2>3. QED
    BY <1>3, <2>1, <2>2 DEF Upgrade, ReadMessage, Post
<1>4. ASSUME NEW c \in Clients, StartLoops(c) \/ PeerBreaks(c) PROVE TypeOK'
  BY <1>4 DEF StartLoops, PeerBreaks
<1>5. ASSUME NEW c \in Clients, ReaderFails(c) PROVE TypeOK'
  BY <1>5, ErrorTypes DEF ReaderFails
<1>6. ASSUME NEW c \in Clients, WriteFails(c) \/ PingFails(c) PROVE TypeOK'
  BY <1>6, ErrorTypes DEF WriteFails, PingFails
<1>7. ASSUME NEW c \in Clients, ReaderCloses(c) \/ WriterCloses(c) \/ WriterExits(c) \/ WriteDone(c)
      PROVE  TypeOK'
  BY <1>7 DEF ReaderCloses, WriterCloses, WriterExits, WriteDone
<1>8. ASSUME NEW c \in Clients, TakeMessage(c) \/ TakeCloseWriter(c) PROVE TypeOK'
  <2>1. write' \in [Clients -> {<<>>, <<"message">>, <<"CloseWriter">>}]
    BY <1>8 DEF TakeMessage, TakeCloseWriter
  <2>2. QED
    BY <1>8, <2>1 DEF TakeMessage, TakeCloseWriter
<1>9. CASE Receive
  <2> DEFINE e == Head(incoming)
  <2>1. e.from \in Clients /\ e.kind \in Kinds /\ incoming' \in Seq([from : Clients, kind : Kinds])
    <3>1. e \in [from : Clients, kind : Kinds] /\ Tail(incoming) \in Seq([from : Clients, kind : Kinds])
      <4> DEFINE M == [from : Clients, kind : Kinds]
      <4>1. incoming \in Seq(M) /\ incoming # <<>>
        BY <1>9 DEF Receive
      <4> HIDE DEF M
      <4>2. e \in M /\ Tail(incoming) \in Seq(M)
        BY <4>1
      <4>3. QED
        BY <4>2 DEF M
    <3>2. incoming' = Tail(incoming)
      BY <1>9 DEF Receive
    <3>3. QED
      BY <3>1, <3>2
  <2>2. Unblock(e.from, e.kind) /\ Execute(e.from, e.kind)
    BY <1>9 DEF Receive
  <2>3. connected' \subseteq Clients
        /\ todo' \in Seq(SUBSET [to : Clients, what : {"message", "CloseWriter"}])
    BY <2>1, <2>2, HandlerTypes
  <2>4. /\ upgrader' \in [Clients -> {"new", "sending", "accepted", "done"}]
        /\ reader' \in [Clients -> {"off", "reading", "sending", "closing", "done"}]
        /\ poster' \in [Clients -> {"off", "started", "sending", "done"}]
    BY <2>1, <2>2 DEF Unblock
  <2>5. QED
    BY <1>9, <2>1, <2>3, <2>4 DEF Receive
<1>10. ASSUME NEW w \in [to : Clients, what : {"message", "CloseWriter"}],
              WriteAccepted(w) \/ WriteTimesOut(w)
       PROVE  TypeOK'
  <2> DEFINE W == SUBSET [to : Clients, what : {"message", "CloseWriter"}]
  <2>1. todo' \in Seq(W)
    <3>1. /\ todo \in Seq(W) /\ todo # <<>>
          /\ todo' = Tail(todo) \/ todo' = [todo EXCEPT ![1] = todo[1] \ {w}]
      BY <1>10 DEF WriteAccepted, WriteTimesOut, Written
    <3>2. todo[1] \ {w} \in W
      BY <3>1
    <3> HIDE DEF W
    <3>3. Tail(todo) \in Seq(W) /\ [todo EXCEPT ![1] = todo[1] \ {w}] \in Seq(W)
      BY <3>1, <3>2
    <3>4. QED
      BY <3>1, <3>3
  <2>2. write' \in [Clients -> {<<>>, <<"message">>, <<"CloseWriter">>}]
    <3>1. CASE WriteAccepted(w)
      <4>1. write[w.to] = <<>>
        BY <3>1 DEF WriteAccepted, HasSpace
      <4>2. Append(write[w.to], w.what) \in {<<>>, <<"message">>, <<"CloseWriter">>}
        BY <4>1
      <4>3. QED
        BY <3>1, <4>2 DEF WriteAccepted
    <3>2. CASE WriteTimesOut(w)
      BY <3>2 DEF WriteTimesOut
    <3>3. QED
      BY <1>10, <3>1, <3>2
  <2>3. dropped' \subseteq Clients
    BY <1>10 DEF WriteAccepted, WriteTimesOut
  <2>4. QED
    BY <1>10, <2>1, <2>2, <2>3 DEF WriteAccepted, WriteTimesOut
<1>11. QED
  BY <1>1, <1>3, <1>4, <1>5, <1>6, <1>7, <1>8, <1>9, <1>10
     DEF Next, MainLoop, ReaderStep, WriterStep, ReadError, BadMessage


-------------------------------------------------------------------------------
\* The queue.
LEMMA InitPosted == Init => PostedInv
BY DEF Init, PostedInv, Started, Blocked, NoneTwice, Gone

\* What the queue holds.
LEMMA Queued ==
    ASSUME TypeOK
    PROVE  \A i \in DOMAIN incoming : /\ incoming[i] \in Msgs
                                      /\ incoming[i].from \in Clients /\ incoming[i].kind \in Kinds
<1>1. incoming \in Seq(Msgs)
  BY DEF TypeOK, Msgs
<1>2. \A i \in DOMAIN incoming : incoming[i] \in Msgs
  BY <1>1
<1>3. \A x \in Msgs : x.from \in Clients /\ x.kind \in Kinds
  BY DEF Msgs
<1>4. QED
  BY <1>2, <1>3

\* What a step that leaves the queue alone must not do.
LEMMA QueueFrame ==
    ASSUME TypeOK, PostedInv, UNCHANGED <<incoming, connected>>, Started',
           \A c \in Clients : upgrader[c] = "sending" => upgrader'[c] = "sending",
           \A c \in Clients : reader[c] = "sending" => reader'[c] = "sending",
           \A c \in Clients : poster[c] = "sending" => poster'[c] = "sending",
           \A c \in Clients : poster'[c] = "done" => poster[c] = "done"
    PROVE  PostedInv'
<1>1. \A i \in DOMAIN incoming : incoming[i].from \in Clients
  BY Queued
<1>2. QED
  BY <1>1 DEF PostedInv, Blocked, NoneTwice, Gone

\* An error starts the poster of a connection whose loops run, if it is the first.
LEMMA ErrorKeeps ==
    ASSUME TypeOK, PostedInv, NEW c \in Clients, CloseOnError(c), UNCHANGED <<upgrader, incoming, connected>>,
           reader[c] # "off" \/ writer[c] # "off", reader[c] = "sending" => reader'[c] = "sending",
           \A d \in Clients : d # c => reader'[d] = reader[d] /\ writer'[d] = writer[d]
    PROVE  PostedInv'
<1>1. /\ upgrader[c] = "done"
      /\ fired[c] = FALSE => poster[c] = "off"
  BY DEF PostedInv, Started, TypeOK
<1>2. /\ fired'[c] = TRUE
      /\ poster'[c] = poster[c] \/ (poster[c] = "off" /\ poster'[c] = "started")
      /\ \A d \in Clients : d # c => fired'[d] = fired[d] /\ poster'[d] = poster[d]
  <2>1. fired' = [fired EXCEPT ![c] = TRUE]
    BY DEF CloseOnError
  <2>2. CASE fired[c] = TRUE /\ poster' = poster
    BY <2>1, <2>2 DEF TypeOK
  <2>3. CASE fired[c] = FALSE /\ poster' = [poster EXCEPT ![c] = "started"]
    BY <1>1, <2>1, <2>3 DEF TypeOK
  <2>4. QED
    BY <2>2, <2>3 DEF CloseOnError, TypeOK
<1>3. Started'
  BY <1>1, <1>2 DEF PostedInv, Started
<1>4. /\ \A d \in Clients : poster[d] = "sending" => poster'[d] = "sending"
      /\ \A d \in Clients : poster'[d] = "done" => poster[d] = "done"
  BY <1>2
<1>5. QED
  BY <1>3, <1>4, QueueFrame

\* Who starts to send had nothing of that kind in the queue.
LEMMA SendKeeps ==
    ASSUME TypeOK, PostedInv, NEW c \in Clients, NEW kind \in Kinds, Send(c, kind),
           kind = "Connected" => upgrader[c] # "sending" /\ upgrader'[c] = "sending",
           kind = "Message" => reader[c] # "sending" /\ reader'[c] = "sending",
           kind = "Disconnected" => poster[c] # "sending" /\ poster'[c] = "sending",
           \A d \in Clients : reader[d] = "sending" => reader'[d] = "sending",
           \A d \in Clients : upgrader[d] = "sending" => upgrader'[d] = "sending",
           \A d \in Clients : poster[d] = "sending" => poster'[d] = "sending"
    PROVE  Blocked' /\ NoneTwice'
<1> DEFINE e == [from |-> c, kind |-> kind]
           n == Len(incoming) + 1
<1>1. /\ DOMAIN incoming' = DOMAIN incoming \cup {n} /\ n \notin DOMAIN incoming
      /\ incoming'[n] = e
      /\ \A i \in DOMAIN incoming : incoming'[i] = incoming[i]
  BY DEF TypeOK, Send
<1>2. \A i \in DOMAIN incoming : incoming[i].from \in Clients
  BY Queued
<1>3. \A i \in DOMAIN incoming : incoming[i] # e
  BY DEF PostedInv, Blocked, Kinds
<1>4. Blocked'
  BY <1>1, <1>2 DEF PostedInv, Blocked
<1>5. NoneTwice'
  BY <1>1, <1>3 DEF PostedInv, NoneTwice
<1>6. QED
  BY <1>4, <1>5

\* The main loop takes the first message, and its sender goes on.
LEMMA ReceiveKeeps == TypeOK /\ PostedInv /\ Receive => PostedInv'
<1> SUFFICES ASSUME TypeOK, PostedInv, Receive PROVE PostedInv'
  OBVIOUS
<1> DEFINE e == Head(incoming)
<1>1. /\ e = incoming[1] /\ 1 \in DOMAIN incoming /\ e.from \in Clients /\ e.kind \in Kinds
      /\ \A i \in DOMAIN incoming' : /\ i + 1 \in DOMAIN incoming /\ i + 1 # 1 /\ i \in Nat
                                     /\ incoming'[i] = incoming[i + 1]
  <2>1. incoming \in Seq(Msgs) /\ incoming # <<>> /\ incoming' = Tail(incoming)
    BY DEF TypeOK, Receive, Msgs
  <2>2. /\ e = incoming[1] /\ 1 \in DOMAIN incoming /\ e \in Msgs
        /\ \A i \in DOMAIN incoming' : /\ i + 1 \in DOMAIN incoming /\ i + 1 # 1 /\ i \in Nat
                                       /\ incoming'[i] = incoming[i + 1]
    BY <2>1
  <2>3. QED
    BY <2>2 DEF Msgs
<1>2. Unblock(e.from, e.kind) /\ Execute(e.from, e.kind) /\ UNCHANGED <<writer, fired>>
  BY DEF Receive
<1> HIDE DEF e
<1>3. \A i \in DOMAIN incoming : incoming[i].from \in Clients
  BY Queued
<1>4. \A i \in DOMAIN incoming' : incoming'[i] # e
  BY <1>1 DEF PostedInv, NoneTwice
<1>5. /\ e.kind = "Connected" => upgrader[e.from] = "sending" /\ poster[e.from] = "off"
      /\ e.kind = "Disconnected" => poster[e.from] = "sending" /\ upgrader[e.from] = "done"
  BY <1>1 DEF PostedInv, Blocked, Started
<1>6. Started'
  <2>1. /\ UNCHANGED <<writer, fired>>
        /\ \A c \in Clients : reader'[c] = reader[c] \/ (e.kind = "Message" /\ reader'[c] = "reading" /\ c = e.from)
    BY <1>2 DEF Unblock, TypeOK
  <2>2. \A c \in Clients : upgrader'[c] = upgrader[c]
                           \/ (e.kind = "Connected" /\ c = e.from)
    BY <1>2 DEF Unblock, TypeOK
  <2>3. \A c \in Clients : poster'[c] = poster[c] \/ (e.kind = "Disconnected" /\ c = e.from)
    BY <1>2 DEF Unblock, TypeOK
  <2>4. e.kind = "Message" => reader[e.from] # "off"
    BY <1>1 DEF PostedInv, Blocked
  <2>5. e.kind = "Connected" => UNCHANGED <<reader, poster>>
    BY <1>2 DEF Unblock
  <2>6. QED
    BY <1>1, <1>5, <2>1, <2>2, <2>3, <2>4, <2>5 DEF PostedInv, Started
<1>7. Blocked'
  <2> SUFFICES ASSUME NEW i \in DOMAIN incoming'
               PROVE  /\ incoming'[i].kind = "Connected" => upgrader'[incoming'[i].from] = "sending"
                      /\ incoming'[i].kind = "Message" => reader'[incoming'[i].from] = "sending"
                      /\ incoming'[i].kind = "Disconnected" => poster'[incoming'[i].from] = "sending"
    BY DEF Blocked
  <2>1. incoming'[i].from \in Clients
        /\ (incoming'[i].kind = "Connected" => upgrader[incoming'[i].from] = "sending")
        /\ (incoming'[i].kind = "Message" => reader[incoming'[i].from] = "sending")
        /\ (incoming'[i].kind = "Disconnected" => poster[incoming'[i].from] = "sending")
    BY <1>1, <1>3 DEF PostedInv, Blocked
  <2>2. incoming'[i] \in Msgs /\ e \in Msgs
    BY <1>1, Queued
  <2>3. incoming'[i].kind = e.kind => incoming'[i].from # e.from
    BY <1>4, <2>2 DEF Msgs
  <2>4. QED
    BY <1>1, <1>2, <2>1, <2>3 DEF Unblock, TypeOK
<1>8. NoneTwice'
  <2> SUFFICES ASSUME NEW i \in DOMAIN incoming', NEW j \in DOMAIN incoming',
                      incoming'[i] = incoming'[j]
               PROVE  i = j
    BY DEF NoneTwice
  <2>1. i + 1 = j + 1
    BY <1>1 DEF PostedInv, NoneTwice
  <2>2. QED
    BY <1>1, <2>1
<1>9. Gone'
  <2>1. e.kind = "Disconnected" => e.from \notin connected'
    BY <1>2 DEF Execute, Disconnect
  <2>2. \A c \in Clients : c \in connected' => c \in connected \/ (e.kind = "Connected" /\ c = e.from)
    BY <1>2 DEF Execute, Disconnect, Notify
  <2>3. \A c \in Clients : poster'[c] = "done" => poster[c] = "done"
                                                  \/ (e.kind = "Disconnected" /\ c = e.from)
    BY <1>1, <1>2 DEF Unblock, TypeOK
  <2>4. QED
    BY <1>5, <2>1, <2>2, <2>3 DEF PostedInv, Gone
<1>10. QED
  BY <1>6, <1>7, <1>8, <1>9 DEF PostedInv

LEMMA PostedStep == TypeOK /\ PostedInv /\ [Next]_vars => PostedInv'
<1> SUFFICES ASSUME TypeOK, PostedInv, [Next]_vars PROVE PostedInv'
  OBVIOUS
<1>1. CASE UNCHANGED <<upgrader, reader, writer, poster, incoming, connected>> /\ UNCHANGED fired
  BY <1>1 DEF PostedInv, Started, Blocked, NoneTwice, Gone
<1>2. ASSUME NEW c \in Clients, ReaderFails(c) \/ WriteFails(c) \/ PingFails(c) PROVE PostedInv'
  <2>1. /\ CloseOnError(c) /\ UNCHANGED <<upgrader, incoming, connected>>
        /\ reader[c] # "off" \/ writer[c] # "off"
        /\ reader[c] = "sending" => reader'[c] = "sending"
    BY <1>2 DEF ReaderFails, WriteFails, PingFails
  <2>2. \A d \in Clients : d # c => reader'[d] = reader[d] /\ writer'[d] = writer[d]
    BY <1>2 DEF ReaderFails, WriteFails, PingFails, TypeOK
  <2>3. QED
    BY <2>1, <2>2, ErrorKeeps
<1>3. ASSUME NEW c \in Clients, Upgrade(c) PROVE PostedInv'
  <2>1. Send(c, "Connected") /\ upgrader[c] # "sending" /\ upgrader'[c] = "sending"
        /\ (\A d \in Clients : upgrader[d] = "sending" => upgrader'[d] = "sending")
        /\ UNCHANGED <<reader, writer, poster, fired, connected>>
    BY <1>3 DEF Upgrade, TypeOK
  <2>2. Blocked' /\ NoneTwice'
    BY <2>1, SendKeeps DEF Kinds
  <2>3. Started' /\ Gone'
    BY <1>3, <2>1 DEF Upgrade, PostedInv, Started, Gone, TypeOK
  <2>4. QED
    BY <2>2, <2>3 DEF PostedInv
<1>4. ASSUME NEW c \in Clients, ReadMessage(c) PROVE PostedInv'
  <2>1. Send(c, "Message") /\ UNCHANGED <<upgrader, writer, poster, fired, connected>>
    BY <1>4 DEF ReadMessage
  <2>2. reader[c] # "sending" /\ reader'[c] = "sending"
        /\ \A d \in Clients : reader[d] = "sending" => reader'[d] = "sending"
    BY <1>4 DEF ReadMessage, TypeOK
  <2>3. Blocked' /\ NoneTwice'
    BY <2>1, <2>2, SendKeeps DEF Kinds
  <2>4. Started' /\ Gone'
    BY <1>4, <2>1 DEF ReadMessage, PostedInv, Started, Gone, TypeOK
  <2>5. QED
    BY <2>3, <2>4 DEF PostedInv
<1>5. ASSUME NEW c \in Clients, Post(c) PROVE PostedInv'
  <2>1. Send(c, "Disconnected") /\ poster[c] = "started" /\ poster' = [poster EXCEPT ![c] = "sending"]
        /\ UNCHANGED <<upgrader, reader, writer, fired, connected>>
    BY <1>5 DEF Post
  <2>2. poster'[c] = "sending" /\ \A d \in Clients : poster[d] = "sending" => poster'[d] = "sending"
    BY <2>1 DEF TypeOK
  <2>3. Blocked' /\ NoneTwice'
    BY <2>1, <2>2, SendKeeps DEF Kinds
  <2>4. Started' /\ Gone'
    BY <2>1 DEF PostedInv, Started, Gone, TypeOK
  <2>5. QED
    BY <2>3, <2>4 DEF PostedInv
<1>6. ASSUME NEW c \in Clients, StartLoops(c) PROVE PostedInv'
  <2>1. UNCHANGED <<incoming, connected, poster, fired>>
        /\ upgrader[c] = "accepted" /\ upgrader' = [upgrader EXCEPT ![c] = "done"]
        /\ reader' = [reader EXCEPT ![c] = "reading"] /\ writer' = [writer EXCEPT ![c] = "select"]
    BY <1>6 DEF StartLoops
  <2>2. Started' /\ \A d \in Clients : /\ upgrader[d] = "sending" => upgrader'[d] = "sending"
                                       /\ reader[d] = "sending" => reader'[d] = "sending"
    BY <2>1 DEF PostedInv, Started, TypeOK
  <2>3. QED
    BY <2>1, <2>2, QueueFrame
<1>7. ASSUME NEW c \in Clients, ReaderCloses(c) \/ TakeMessage(c) \/ WriteDone(c) \/ WriterCloses(c)
                                \/ TakeCloseWriter(c) \/ WriterExits(c)
      PROVE  PostedInv'
  <2>1. /\ UNCHANGED <<upgrader, poster, incoming, connected>>
        /\ \A d \in Clients : (fired[d] => fired'[d]) /\ (reader[d] = "sending" => reader'[d] = "sending")
        /\ \A d \in Clients : (reader'[d] # "off" => reader[d] # "off") /\ (writer'[d] # "off" => writer[d] # "off")
    BY <1>7 DEF ReaderCloses, TakeMessage, WriteDone, WriterCloses, TakeCloseWriter, WriterExits, TypeOK
  <2>2. Started'
    BY <2>1 DEF PostedInv, Started
  <2>3. QED
    BY <2>1, <2>2, QueueFrame
<1>8. CASE Receive
  BY <1>8, ReceiveKeeps
<1>9. ASSUME NEW c \in Clients, PeerBreaks(c) PROVE PostedInv'
  BY <1>1, <1>9 DEF PeerBreaks
<1>10. CASE \E w \in [to : Clients, what : {"message", "CloseWriter"}] :
                            WriteAccepted(w) \/ WriteTimesOut(w)
  BY <1>1, <1>10 DEF WriteAccepted, WriteTimesOut
<1>11. CASE UNCHANGED vars
  BY <1>1, <1>11 DEF vars
<1>12. QED
  BY <1>2, <1>3, <1>4, <1>5, <1>6, <1>7, <1>8, <1>9, <1>10, <1>11
     DEF Next, MainLoop, ReaderStep, WriterStep, ReadError, BadMessage

LEMMA Invariant == Spec => [](TypeOK /\ PostedInv)
<1>1. Init => TypeOK /\ PostedInv
  BY InitTypes, InitPosted
<1>2. TypeOK /\ PostedInv /\ [Next]_vars => TypeOK' /\ PostedInv'
  BY TypeStep, PostedStep
<1>3. QED
  BY <1>1, <1>2, PTL DEF Spec
-------------------------------------------------------------------------------
\* The goroutines of a connection, the queue of the main loop and what is written to
\* clients keep their types.
THEOREM ConnectionTypes == Spec => []TypeOK
BY Invariant, PTL

\* However often reader, pinger and writer find the socket broken, and whatever is
\* queued by then, Disconnected is in the queue at most once, and a connection whose
\* Disconnected has been executed is not connected (CloseOnError, Start).
THEOREM PostedOnce == Spec => []DisconnectedOnce
<1>1. TypeOK /\ PostedInv => DisconnectedOnce
  <2> SUFFICES ASSUME TypeOK, PostedInv, NEW c \in Clients
               PROVE  Cardinality({i \in DOMAIN incoming :
                          incoming[i] = [from |-> c, kind |-> "Disconnected"]}) <= 1
    BY DEF DisconnectedOnce, PostedInv, Gone
  <2> DEFINE D == {i \in DOMAIN incoming : incoming[i] = [from |-> c, kind |-> "Disconnected"]}
  <2>1. \A i, j \in D : i = j
    BY DEF PostedInv, NoneTwice
  <2>2. CASE D = {}
    BY <2>2, FS_EmptySet
  <2>3. ASSUME NEW i \in D PROVE Cardinality(D) <= 1
    <3>1. D = {i}
      BY <2>1
    <3>2. Cardinality({i}) = 1
      BY FS_Singleton
    <3>3. QED
      BY <3>1, <3>2
  <2>4. QED
    BY <2>2, <2>3
<1>2. QED
  BY <1>1, Invariant, PTL

-------------------------------------------------------------------------------
(* sync.Once without the mutex held (module Once), for any number of callers:   *)
(* what once.Do of a connection does in one step of module Connection.          *)

Holding == {"check", "store", "unlock", "unlockrun"}
Winning == {"unlockrun", "run", "ran"}

\* The mutex protects the test and the store; whoever stored has won, alone;
\* whoever gives up has seen the winner's store.
OnceInv ==
    /\ OnceTypeOK
    /\ \A p \in Callers : pc[p] \in Holding => m = p
    /\ \A p \in Callers : pc[p] = "store" => done = 0
    /\ \A p \in Callers : pc[p] \in Winning \cup {"unlock", "returned"} => done = 1
    /\ done = 1 => \E p \in Callers : pc[p] \in Winning
    /\ \A p, q \in Callers : pc[p] \in Winning /\ pc[q] \in Winning => p = q

LEMMA OnceInvInductive == (OnceInit => OnceInv) /\ (OnceInv /\ [OnceNext]_onceVars => OnceInv')
<1>1. OnceInit => OnceInv
  BY DEF OnceInit, OnceInv, OnceTypeOK, Places, Holding, Winning
<1>2. OnceInv /\ [OnceNext]_onceVars => OnceInv'
  <2> SUFFICES ASSUME OnceInv, [OnceNext]_onceVars PROVE OnceInv'
    OBVIOUS
  <2> USE NobodyIsNoCaller DEF OnceInv, OnceTypeOK, Places, Holding, Winning, Goto
  <2>1. ASSUME NEW p \in Callers, Load(p) PROVE OnceInv'
    BY <2>1 DEF Load
  <2>2. ASSUME NEW p \in Callers, Lock(p) PROVE OnceInv'
    BY <2>2 DEF Lock
  <2>3. ASSUME NEW p \in Callers, Check(p) PROVE OnceInv'
    BY <2>3 DEF Check
  <2>4. ASSUME NEW p \in Callers, Store(p) PROVE OnceInv'
    BY <2>4 DEF Store
  <2>5. ASSUME NEW p \in Callers, Unlock(p) PROVE OnceInv'
    BY <2>5 DEF Unlock
  <2>6. ASSUME NEW p \in Callers, Run(p) PROVE OnceInv'
    BY <2>6 DEF Run
  <2>7. CASE UNCHANGED onceVars
    BY <2>7 DEF onceVars
  <2>8. QED
    BY <2>1, <2>2, <2>3, <2>4, <2>5, <2>6, <2>7 DEF OnceNext, Do
<1>3. QED
  BY <1>1, <1>2

LEMMA OnceInvAlways == OnceSpec => []OnceInv
<1>1. (OnceInit => OnceInv) /\ (OnceInv /\ [OnceNext]_onceVars => OnceInv')
  BY OnceInvInductive
<1>2. QED
  BY <1>1, PTL DEF OnceSpec

\* However many goroutines race to close a connection, one function at most is
\* started: the connection is closed once and Disconnected posted once.
THEOREM RunsAtMostOnce == OnceSpec => []AtMostOnce
<1>1. OnceInv => AtMostOnce
  BY DEF OnceInv, AtMostOnce, Winning
<1>2. QED
  BY <1>1, OnceInvAlways, PTL

\* And one is: when all callers are through, the mutex freed early has not let
\* everyone conclude that someone else would do it.
THEOREM OneRuns == OnceSpec => []SomebodyRuns
<1>1. OnceInv => SomebodyRuns
  <2> SUFFICES ASSUME OnceInv, Callers # {},
                      \A p \in Callers : pc[p] \in {"returned", "run", "ran"}
               PROVE  \E p \in Callers : pc[p] \in {"run", "ran"}
    BY DEF SomebodyRuns
  <2>1. done = 1
    BY DEF OnceInv, Winning
  <2>2. PICK p \in Callers : pc[p] \in Winning
    BY <2>1 DEF OnceInv
  <2>3. QED
    BY <2>2 DEF Winning
<1>2. QED
  BY <1>1, OnceInvAlways, PTL
===============================================================================
