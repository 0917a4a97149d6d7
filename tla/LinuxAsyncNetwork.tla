------------------------- MODULE LinuxAsyncNetwork -------------------------
(***************************************************************************)
(* The epoll backend (LinuxAsyncNetworkInterface.cpp) with the coroutines  *)
(* that use it: the test session connects or accepts and sends, the packet *)
(* receiver (PacketReceiver.cpp) receives and parses.                      *)
(*                                                                         *)
(* A callback resumes its coroutine, which then runs on the worker thread  *)
(* until it suspends again; only then does the worker go on with the rest  *)
(* of its event (work).  Callbacks are never cleared.  One that is called  *)
(* for a coroutine that does not wait for it resumes the coroutine in the  *)
(* wrong place, which is undefined: the model records it in strays and     *)
(* stops there.                                                            *)
(***************************************************************************)
EXTENDS PacketStreamParser, SequencesExt, FiniteSets

CONSTANTS
  Streams,    \* what the peer may send, as sequences of frames
  PacketSize, \* bytes of a packet the session sends
  MaxSends,   \* bound: packets sent
  MaxPeers    \* bound: connections to the listening socket

ASSUME NetworkAssumption ==
  /\ Streams \subseteq Seq(Seq(Byte))
  /\ {PacketSize, MaxSends, MaxPeers} \subseteq Nat

VARIABLES
  mode,       \* client or server
  running,    \* the flag of the worker
  worker,     \* the epoll thread: "runs", "ended"
  work,       \* what is left to do for the event at hand
  entry,      \* the connection in socketDataMap
  polled,     \* its descriptor is in the epoll set
  op,         \* its operationType
  mask,       \* its currentEvents
  callbacks,  \* the callbacks that were ever set
  sendData,   \* bytes queued for sending
  mutex,      \* socketDataMutex: "free", or "held" around a callback
  session,    \* the session coroutine
  onWorker,   \* it runs, and does so on the worker thread
  receiver,   \* the receiver coroutine
  stopping,   \* stopTest(): "no", "stopped", "joining", "closed"
  peer,       \* the other end
  backlog,    \* connections that wait to be accepted
  peers,      \* connections there were
  submitted,  \* history: bytes given to send()
  wire,       \* history: bytes the socket took
  frames,     \* what the peer sends
  arrived,    \* bytes of it that have arrived
  taken,      \* bytes of it that were received
  parser,     \* the parser's buffer, and what it has found so far
  early,      \* history: a connection came up before it was in the map
  strays      \* operations whose callback came unexpected

coroutines == <<session, onWorker, receiver>>
socket == <<entry, polled, op, mask, callbacks, sendData>>
sent == <<submitted, wire>>
input == <<arrived, taken, parser>>
network == <<peer, backlog, peers, frames>>

vars == <<mode, running, worker, work, socket, mutex, coroutines, stopping,
          network, sent, input, early, strays>>

Stream == FlattenSeq(frames)

Init ==
  /\ mode \in {"client", "server"}
  /\ running = TRUE
  /\ worker = "runs"
  /\ work = <<>>
  /\ entry = "none"
  /\ polled = FALSE
  /\ op = "Recv"
  /\ mask = {}
  /\ callbacks = {}
  /\ sendData = 0
  /\ mutex = "free"
  /\ session = "running"
  /\ onWorker = FALSE
  /\ receiver = "none"
  /\ stopping = "no"
  /\ peer = "none"
  /\ backlog = 0
  /\ peers = 0
  /\ submitted = 0
  /\ wire = 0
  /\ frames \in Streams
  /\ arrived = 0
  /\ taken = 0
  /\ parser = [packets |-> <<>>, failures |-> 0, clears |-> 0, rest |-> <<>>]
  /\ early = FALSE
  /\ strays = {}

Defined == strays = {}

(* The worker is inside a callback.                                        *)
InCallback == onWorker \/ receiver = "running"

(* The backend calls a callback of the session: it runs on, here on the    *)
(* worker thread, if it waits for this operation.                          *)
ResumeSession(o) ==
  IF session = o
    THEN session' = "running" /\ onWorker' = TRUE /\ UNCHANGED strays
    ELSE strays' = strays \cup {o} /\ UNCHANGED <<session, onWorker>>

-----------------------------------------------------------------------------
(* The session coroutine, on any thread.                                   *)

Suspend(s) == session' = s /\ onWorker' = FALSE

SessionRuns == Defined /\ session = "running"

(* doAsyncConnect(): the connection is there at once ...                   *)
ConnectAtOnce ==
  /\ SessionRuns
  /\ mode = "client" /\ entry = "none"
  /\ stopping = "no"
  /\ mutex = "free"
  /\ entry' = "mapped"
  /\ peer' = "connected"
  /\ UNCHANGED <<early, mode, running, worker, work, polled, op, mask, callbacks, sendData,
                 mutex, coroutines, stopping, backlog, peers, frames, sent, input, strays>>

(* ... or fails at once ...                                                *)
ConnectFails ==
  /\ SessionRuns
  /\ mode = "client" /\ entry = "none"
  /\ stopping = "no"
  /\ session' = "ended"
  /\ UNCHANGED <<early, mode, running, worker, work, socket, mutex, onWorker, receiver,
                 stopping, network, sent, input, strays>>

(* ... or is in progress.  The descriptor is put into the epoll set before *)
(* its data is put into the map.                                           *)
ConnectRegisters ==
  /\ SessionRuns
  /\ mode = "client" /\ entry = "none"
  /\ stopping = "no"
  /\ entry' = "unmapped"
  /\ polled' = TRUE
  /\ op' = "Connect"
  /\ mask' = {"out"}
  /\ callbacks' = callbacks \cup {"connect"}
  /\ session' = "connect"
  /\ peer' = "connecting"
  /\ UNCHANGED <<early, mode, running, worker, work, sendData, mutex, onWorker, receiver,
                 stopping, backlog, peers, frames, sent, input, strays>>

ConnectMaps ==
  /\ Defined
  /\ entry = "unmapped"
  /\ mutex = "free"
  /\ entry' = "mapped"
  /\ UNCHANGED <<early, mode, running, worker, work, polled, op, mask, callbacks, sendData,
                 mutex, coroutines, stopping, network, sent, input, strays>>

(* doAsyncAccept().                                                        *)
AcceptCalled ==
  /\ SessionRuns
  /\ mode = "server" /\ "accept" \notin callbacks
  /\ mutex = "free"
  /\ callbacks' = callbacks \cup {"accept"}
  /\ session' = "accept"
  /\ UNCHANGED <<early, mode, running, worker, work, entry, polled, op, mask, sendData, mutex,
                 onWorker, receiver, stopping, network, sent, input, strays>>

Up == entry # "none" /\ (mode = "server" => "accept" \in callbacks)

(* Mutant of Armed: the event is not asked for again.                      *)
NotArmed(e) == mask

Armed(e) == mask \cup {e}

(* doAsyncReceive().  Without an entry the receiver is told that the       *)
(* connection is closed, and ends.                                         *)
Receive ==
  IF entry = "mapped"
    THEN /\ receiver' = "receive"
         /\ callbacks' = callbacks \cup {"receive"}
         /\ mask' = Armed("in")
         /\ polled' = TRUE
    ELSE receiver' = "ended" /\ UNCHANGED <<callbacks, mask, polled>>

(* A connected session starts the receiver first.                          *)
StartReceiver ==
  /\ SessionRuns
  /\ Up /\ receiver = "none"
  /\ mutex = "free"
  /\ Receive
  /\ UNCHANGED <<early, mode, running, worker, work, entry, op, sendData, mutex, session,
                 onWorker, stopping, network, sent, input, strays>>

Talks == SessionRuns /\ receiver # "none" /\ submitted < MaxSends * PacketSize

(* doAsyncSend() queues the packet ...                                     *)
Send ==
  /\ Talks
  /\ entry = "mapped"
  /\ mutex = "free"
  /\ sendData' = sendData + PacketSize
  /\ submitted' = submitted + PacketSize
  /\ callbacks' = callbacks \cup {"send"}
  /\ mask' = Armed("out")
  /\ polled' = TRUE
  /\ Suspend("send")
  /\ UNCHANGED <<early, mode, running, worker, work, entry, op, mutex, receiver, stopping,
                 network, wire, input, strays>>

(* ... or, without an entry, reports 0 bytes while it holds the mutex.     *)
SendRefused ==
  /\ Talks
  /\ entry # "mapped" /\ stopping # "closed"
  /\ mutex = "free"
  /\ mutex' = "held"
  /\ UNCHANGED <<early, mode, running, worker, work, socket, coroutines, stopping, network,
                 sent, input, strays>>

(* The session sends again from there (TEST_FIN after the data packets)    *)
(* and locks the mutex its own thread holds.                               *)
SendLocksAgain ==
  /\ Talks
  /\ mutex = "held"
  /\ session' = "stuck"
  /\ UNCHANGED <<early, mode, running, worker, work, socket, mutex, onWorker, receiver,
                 stopping, network, sent, input, strays>>

(* The session waits for a message or a delay, perhaps for ever, or ends;  *)
(* its caller returns and releases the mutex.                              *)
Pause ==
  /\ SessionRuns
  /\ receiver # "none"
  /\ Suspend("paused")
  /\ mutex' = "free"
  /\ UNCHANGED <<early, mode, running, worker, work, socket, receiver, stopping, network,
                 sent, input, strays>>

(* It goes on on a thread of the timer, or on the worker when the receiver *)
(* dispatches the message.                                                 *)
Continue(w) ==
  /\ Defined
  /\ session = "paused"
  /\ w => receiver = "running"
  /\ session' = "running"
  /\ onWorker' = w
  /\ UNCHANGED <<early, mode, running, worker, work, socket, mutex, receiver, stopping,
                 network, sent, input, strays>>

-----------------------------------------------------------------------------
(* The receiver coroutine, on the worker.                                  *)

(* The packets are dispatched: the next receive, or the end of the loop.   *)
ReceiverLoops ==
  /\ Defined
  /\ receiver = "running"
  /\ ~ onWorker
  /\ mutex = "free"
  /\ IF stopping = "no"
       THEN Receive
       ELSE receiver' = "ended" /\ UNCHANGED <<callbacks, mask, polled>>
  /\ UNCHANGED <<early, mode, running, worker, work, entry, op, sendData, mutex, session,
                 onWorker, stopping, network, sent, input, strays>>

-----------------------------------------------------------------------------
(* The worker thread.                                                      *)

Unread == arrived - taken
Failed == peer \in {"refused", "reset"}

(* The events epoll reports for the connection.  Errors and hang-ups come  *)
(* whether they are asked for or not.                                      *)
Ready ==
  {e \in {"in", "out", "hup"} :
     \/ e = "in" /\ e \in mask /\ (Unread > 0 \/ peer = "closed")
     \/ e = "out" /\ e \in mask /\ peer # "connecting"
     \/ e = "hup" /\ Failed}

(* What the worker does for a set of events, in this order.                *)
WorkFor(events) ==
  IF op = "Connect" THEN <<"connect">>
  ELSE IF "hup" \in events THEN <<"hangUp", "failConnect", "erase">>
  ELSE (IF "out" \in events THEN <<"out">> ELSE <<>>)
       \o (IF "in" \in events THEN <<"in">> ELSE <<>>)

(* The worker is in epoll_wait().                                          *)
Waits == Defined /\ worker = "runs" /\ work = <<>> /\ ~ InCallback

EpollWait ==
  /\ Waits
  /\ running
  /\ \/ polled /\ Ready # {} /\ work' = WorkFor(Ready)
     \/ backlog > 0 /\ work' = <<"accept">>
  /\ UNCHANGED <<early, mode, running, worker, socket, mutex, coroutines, stopping, network,
                 sent, input, strays>>

(* The worker gets to the next part of the event.                          *)
Does(w) ==
  /\ Defined
  /\ ~ InCallback
  /\ work # <<>>
  /\ Head(work) = w
  /\ work' = Tail(work)

(* Mutant of WorkerEnds: the flag is not looked at.                        *)
WorkerGoesOn == FALSE /\ UNCHANGED vars

(* The loop ends; an event at hand is dealt with first.                    *)
WorkerEnds ==
  /\ Waits
  /\ ~ running
  /\ worker' = "ended"
  /\ UNCHANGED <<early, mode, running, work, socket, mutex, coroutines, stopping, network,
                 sent, input, strays>>

(* The listening socket: the new connection takes the place of clientFd,   *)
(* and whoever has asked last is told.                                     *)
AcceptConnection ==
  /\ Does("accept")
  /\ mutex = "free"
  /\ backlog' = backlog - 1
  /\ entry' = "mapped"
  /\ polled' = FALSE
  /\ mask' = {}
  /\ peer' = "connected"
  /\ arrived' = taken
  /\ IF "accept" \in callbacks
       THEN ResumeSession("accept")
       ELSE UNCHANGED <<session, onWorker, strays>>
  /\ UNCHANGED <<early, mode, running, worker, op, callbacks, sendData, mutex, receiver,
                 stopping, peers, frames, sent, taken, parser>>

(* The outcome of a connect().  Only the data in the map is updated.       *)
ConnectCompletes ==
  /\ Does("connect")
  /\ mutex = "free"
  /\ IF entry = "mapped"
       THEN mask' = mask \ {"out"} /\ op' = IF Failed THEN op ELSE "Recv"
       ELSE UNCHANGED <<mask, op>>
  /\ early' = (early \/ entry = "unmapped")
  /\ IF Failed /\ session = "connect"
       THEN session' = "ended" /\ UNCHANGED <<onWorker, strays>>
       ELSE ResumeSession("connect")
  /\ UNCHANGED <<mode, running, worker, entry, polled, callbacks, sendData, mutex,
                 receiver, stopping, network, sent, input>>

(* Mutant of Sent: one byte of every piece is sent again.                  *)
SentAgain(k) == IF k > 0 THEN wire + k + 1 ELSE wire

Sent(k) == wire + k

(* Mutant of SendPiece: every piece is reported, not only the last.        *)
SendPieceReports ==
  /\ Does("out")
  /\ mutex = "free"
  /\ \E k \in (IF sendData > 0 THEN 1..sendData ELSE {0}) :
       /\ sendData' = sendData - k
       /\ wire' = Sent(k)
       /\ mask' = IF k = sendData THEN mask \ {"out"} ELSE mask
       /\ IF k > 0
            THEN ResumeSession("send")
            ELSE UNCHANGED <<session, onWorker, strays>>
  /\ UNCHANGED <<early, mode, running, worker, entry, polled, op, callbacks, mutex, receiver,
                 stopping, network, submitted, input>>

(* send() takes at least one byte.  When all are taken EPOLLOUT is given   *)
(* up and the sender told.                                                 *)
SendPiece ==
  /\ Does("out")
  /\ mutex = "free"
  /\ \E k \in (IF sendData > 0 THEN 1..sendData ELSE {0}) :
       /\ sendData' = sendData - k
       /\ wire' = Sent(k)
       /\ mask' = IF k = sendData THEN mask \ {"out"} ELSE mask
       /\ IF k = sendData /\ k > 0
            THEN ResumeSession("send")
            ELSE UNCHANGED <<session, onWorker, strays>>
  /\ UNCHANGED <<early, mode, running, worker, entry, polled, op, callbacks, mutex, receiver,
                 stopping, network, submitted, input>>

(* The receiver's callback: with bytes it parses them and runs on, with    *)
(* none it ends.                                                           *)
ResumeReceiver(next) ==
  IF "receive" \notin callbacks THEN UNCHANGED <<receiver, strays>>
  ELSE IF receiver = "receive" THEN receiver' = next /\ UNCHANGED strays
  ELSE strays' = strays \cup {"receive"} /\ UNCHANGED receiver

Parsed(bytes) ==
  LET d == DrainPackets(parser.rest \o bytes)
  IN [packets |-> parser.packets \o d.packets,
      failures |-> parser.failures + d.failures,
      clears |-> parser.clears + d.clears,
      rest |-> d.rest]

(* recv() takes all there is, and EPOLLIN is given up until the next call. *)
ReceiveBytes ==
  /\ Does("in")
  /\ Unread > 0
  /\ mutex = "free"
  /\ taken' = arrived
  /\ parser' = Parsed(SubSeq(Stream, taken + 1, arrived))
  /\ mask' = mask \ {"in"}
  /\ ResumeReceiver("running")
  /\ UNCHANGED <<early, mode, running, worker, entry, polled, op, callbacks, sendData, mutex,
                 session, onWorker, stopping, network, sent, arrived>>

(* The peer has closed: the socket is closed and erased, with whatever is  *)
(* still to be sent, and the receiver told.                                *)
ReceiveEnd ==
  /\ Does("in")
  /\ Unread = 0
  /\ mutex = "free"
  /\ entry' = "gone"
  /\ polled' = FALSE
  /\ ResumeReceiver("ended")
  /\ UNCHANGED <<early, mode, running, worker, op, mask, callbacks, sendData, mutex, session,
                 onWorker, stopping, network, sent, input>>

(* An error or a hang-up: the receiver is told, then whoever connected,    *)
(* but not the sender.                                                     *)
HangUpTellsReceiver ==
  /\ Does("hangUp")
  /\ ResumeReceiver("ended")
  /\ UNCHANGED <<early, mode, running, worker, socket, mutex, session, onWorker, stopping,
                 network, sent, input>>

HangUpTellsSession ==
  /\ Does("failConnect")
  /\ IF "connect" \in callbacks
       THEN ResumeSession("connect")
       ELSE UNCHANGED <<session, onWorker, strays>>
  /\ UNCHANGED <<early, mode, running, worker, socket, mutex, receiver, stopping, network,
                 sent, input>>

HangUpErases ==
  /\ Does("erase")
  /\ mutex = "free"
  /\ entry' = "gone"
  /\ polled' = FALSE
  /\ UNCHANGED <<early, mode, running, worker, op, mask, callbacks, sendData, mutex, coroutines,
                 stopping, network, sent, input, strays>>

-----------------------------------------------------------------------------
(* stopTest(): the receiver is stopped, then close() ends the worker.      *)

StopTest ==
  /\ Defined
  /\ stopping = "no"
  /\ stopping' = "stopped"
  /\ UNCHANGED <<early, mode, running, worker, work, socket, mutex, coroutines, network, sent,
                 input, strays>>

Close ==
  /\ Defined
  /\ stopping = "stopped"
  /\ running' = FALSE
  /\ stopping' = "joining"
  /\ UNCHANGED <<early, mode, worker, work, socket, mutex, coroutines, network, sent, input, strays>>

CloseClears ==
  /\ Defined
  /\ stopping = "joining"
  /\ worker = "ended"
  /\ mutex = "free"
  /\ stopping' = "closed"
  /\ entry' = IF entry = "none" THEN "none" ELSE "gone"
  /\ UNCHANGED <<early, mode, running, worker, work, polled, op, mask, callbacks, sendData, mutex,
                 coroutines, network, sent, input, strays>>

-----------------------------------------------------------------------------
(* The peer and the network.                                               *)

PeerConnects ==
  /\ Defined
  /\ mode = "server"
  /\ peers < MaxPeers
  /\ peers' = peers + 1
  /\ backlog' = backlog + 1
  /\ UNCHANGED <<early, mode, running, worker, work, socket, mutex, coroutines, stopping, peer,
                 frames, sent, input, strays>>

PeerAnswers ==
  /\ Defined
  /\ peer = "connecting"
  /\ peer' \in {"connected", "refused"}
  /\ UNCHANGED <<early, mode, running, worker, work, socket, mutex, coroutines, stopping, backlog,
                 peers, frames, sent, input, strays>>

(* What comes before there is a receiver waits in the socket.              *)
BytesArrive ==
  /\ Defined
  /\ peer = "connected" /\ receiver # "none"
  /\ arrived' \in (arrived + 1)..Len(Stream)
  /\ UNCHANGED <<early, mode, running, worker, work, socket, mutex, coroutines, stopping, network,
                 sent, taken, parser, strays>>

PeerLeaves ==
  /\ Defined
  /\ peer = "connected"
  /\ peer' \in {"closed", "reset"}
  /\ UNCHANGED <<early, mode, running, worker, work, socket, mutex, coroutines, stopping, backlog,
                 peers, frames, sent, input, strays>>

-----------------------------------------------------------------------------
SessionStep ==
  \/ ConnectAtOnce \/ ConnectFails \/ ConnectRegisters \/ AcceptCalled \/ StartReceiver
  \/ Send \/ SendRefused \/ SendLocksAgain \/ Pause

WorkerStep ==
  \/ EpollWait \/ WorkerEnds \/ AcceptConnection \/ ConnectCompletes \/ SendPiece
  \/ ReceiveBytes \/ ReceiveEnd \/ HangUpTellsReceiver \/ HangUpTellsSession \/ HangUpErases

CloseStep == Close \/ CloseClears

PeerStep == PeerConnects \/ PeerAnswers \/ BytesArrive \/ PeerLeaves

Next ==
  \/ SessionStep \/ ConnectMaps \/ (\E w \in BOOLEAN : Continue(w))
  \/ ReceiverLoops \/ WorkerStep \/ StopTest \/ CloseStep \/ PeerStep

(* Every thread runs.  Nothing is assumed of the peer but that it reads    *)
(* what a connected socket takes, nor that a pause of the session ends.    *)
(* close() gets a mutex that is free again and again.                      *)
Fairness ==
  /\ WF_vars(SessionStep) /\ WF_vars(ConnectMaps)
  /\ SF_vars(ReceiverLoops) /\ SF_vars(WorkerStep) /\ SF_vars(CloseStep)

SafetySpec == Init /\ [][Next]_vars
Spec == SafetySpec /\ Fairness

-----------------------------------------------------------------------------
(* Every variable has its type.                                            *)
TypeOK ==
  /\ mode \in {"client", "server"}
  /\ running \in BOOLEAN
  /\ worker \in {"runs", "ended"}
  /\ work \in Seq({"accept", "connect", "out", "in", "hangUp", "failConnect", "erase"})
  /\ entry \in {"none", "unmapped", "mapped", "gone"}
  /\ polled \in BOOLEAN
  /\ op \in {"Connect", "Recv"}
  /\ mask \subseteq {"in", "out"}
  /\ callbacks \subseteq {"connect", "accept", "send", "receive"}
  /\ sendData \in 0..(MaxSends * PacketSize)
  /\ mutex \in {"free", "held"}
  /\ session \in {"running", "connect", "accept", "send", "paused", "stuck", "ended"}
  /\ onWorker \in BOOLEAN
  /\ receiver \in {"none", "receive", "running", "ended"}
  /\ stopping \in {"no", "stopped", "joining", "closed"}
  /\ peer \in {"none", "connecting", "connected", "refused", "closed", "reset"}
  /\ backlog \in 0..MaxPeers
  /\ peers \in 0..MaxPeers
  /\ submitted \in 0..(MaxSends * PacketSize)
  /\ wire \in 0..submitted
  /\ arrived \in 0..Len(Stream)
  /\ taken \in 0..arrived
  /\ strays \subseteq {"connect", "accept", "send", "receive"}

(* Callbacks are never cleared, but the one of a send is never called out  *)
(* of turn, the one of a receive only when a hang-up follows the end of    *)
(* the receiver, and the others only after a failed connection, a          *)
(* hang-up, a second peer, or a connection that came up before             *)
(* doAsyncConnect() had put it into the map.                               *)
StraysHaveCause ==
  /\ "send" \notin strays
  /\ "receive" \in strays => peer = "reset" /\ receiver = "ended"
  /\ "accept" \in strays => peers > 1
  /\ "connect" \in strays =>
       \/ peer \in {"refused", "reset"}
       \/ early

(* However the stream is cut into pieces, the receiver finds what is in a  *)
(* stream that comes all at once: the same packets, checksum failures and  *)
(* left-over bytes.  Only when an oversized header has made the parser     *)
(* clear its buffer can the pieces matter, and then it is cleared in       *)
(* either case.                                                            *)
PiecesDoNotMatter ==
  LET atOnce == DrainPackets(SubSeq(Stream, 1, taken))
  IN /\ parser.clears = 0 <=> atOnce.clears = 0
     /\ parser.clears = 0 => parser = atOnce

Payload(frame) == SubSeq(frame, HeaderSize + 1, Len(frame))
WellFormed(frame) == frame = Encode(Payload(frame)) /\ Len(Payload(frame)) <= MaxPayloadSize

(* The packet in a frame, if it is one.                                    *)
PacketIn(frame) == IF WellFormed(frame) THEN <<Payload(frame)>> ELSE <<>>

(* What the receiver finds, in whatever pieces it comes, is the            *)
(* well-formed frames in their order, each as soon as it is complete,      *)
(* stray bytes before them or not, unless an oversized header cleared the  *)
(* buffer.                                                                 *)
ParsedRight ==
  LET complete == {n \in DOMAIN frames : Len(FlattenSeq(SubSeq(frames, 1, n))) <= taken}
  IN /\ PiecesDoNotMatter
     /\ parser.clears = 0 =>
          parser.packets
            = FlattenSeq([n \in 1..Cardinality(complete) |-> PacketIn(frames[n])])

Over == stopping # "no" \/ peer \in {"closed", "reset", "refused"} \/ ~ Defined

(* While the connection lasts, a send returns when the socket has taken    *)
(* every byte, in however many pieces and none twice, and what arrives is  *)
(* received as long as there is a receiver.                                *)
IOCompletes ==
  /\ session = "send" ~> (session # "send" /\ wire = submitted) \/ Over
  /\ (Unread > 0 /\ receiver = "receive") ~> Unread = 0 \/ receiver = "ended" \/ Over

(* The hand-off document asks that a peer that disconnects stops the       *)
(* receiver "without leaving session coroutines stuck".  See the finding:  *)
(* the session that sends next locks a mutex its thread holds.             *)
NoSessionStuck ==
  peer = "closed" /\ receiver = "ended" => session # "stuck"

(* close() returns, unless such a session has locked the mutex for ever    *)
(* (the violated NoSessionStuck).                                          *)
CloseReturns == stopping = "joining" ~> stopping = "closed" \/ session = "stuck" \/ ~ Defined
=============================================================================
