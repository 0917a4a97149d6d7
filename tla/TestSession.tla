---------------------------- MODULE TestSession ----------------------------
(***************************************************************************)
(* The two-phase test protocol of MyIperf: ClientTestSession and           *)
(* ServerTestSession, each with its PacketGenerator, PacketReceiver and    *)
(* receive statistics, over one TCP connection.                            *)
(*                                                                         *)
(* A session is a coroutine: pc[s] is the await it is at.  What it does    *)
(* between two awaits is one action, except where the order of a local     *)
(* step and a message on the wire matters: a packet is on the wire before  *)
(* the co_await of its send returns.  chan[s] is what TCP carries towards  *)
(* side s; Receive(s) is the receive loop dispatching one packet; inbox[s] *)
(* is the ControlMessageBus of side s, as module ControlMessageBus shows   *)
(* it to behave: one queue per type, a wait takes the head or times out.   *)
(***************************************************************************)
EXTENDS Integers, Sequences

CONSTANTS
  NumPackets,          \* the values of --num-packets considered
  MaxPackets,          \* bound: packets one generator sends
  SingleNetworkThread  \* TRUE: one thread completes sends and dispatches
                       \*   received packets (Linux epoll); FALSE: a pool
                       \*   does (Windows IOCP)

ASSUME NumPacketsAssumption == NumPackets \subseteq Nat
ASSUME MaxPacketsAssumption ==
  MaxPackets \in Nat /\ \A n \in NumPackets : n <= MaxPackets
ASSUME ThreadAssumption == SingleNetworkThread \in BOOLEAN

VARIABLES
  pc,        \* the await each session is at
  state,     \* TestController::State of each side
  config,    \* each side's Config
  tx,        \* totalPacketsSent (= packetCounter) of each generator
  rx,        \* the PacketReceiveStats of each receiver
  results,   \* the statistics of both phases as each side keeps them
  inbox,     \* each side's ControlMessageBus
  chan,      \* packets under way to each side
  link,      \* the connection: "none", "up" or "lost"
  unheard,   \* the network thread has accepted it before accept() asked
  closed,    \* sides that have closed their socket after their session
  disturbed  \* history: a wait timed out, a call failed or the link broke

local == <<state, config, tx, rx, results>>
network == <<link, unheard, closed>>
vars == <<pc, local, inbox, chan, network, disturbed>>

Sides == {"client", "server"}
Peer(s) == IF s = "client" THEN "server" ELSE "client"

ControlTypes == {"CONFIG_HANDSHAKE", "CONFIG_ACK", "TEST_FIN", "STATS_EXCHANGE",
                 "STATS_ACK", "CLIENT_READY", "SHUTDOWN_ACK"}

(* packetSize is abstracted to whether a packet header fits into it, which *)
(* the generator requires and Config, accepting every size > 0, does not.  *)
(* Sizes above the stream parser's limit are not considered.               *)
Configs == [numPackets : NumPackets, headerFits : BOOLEAN]

NoStats == [packets |-> 0, sequenceErrors |-> 0]
SentStats(s) == [packets |-> tx[s], sequenceErrors |-> 0]

(* phase is not on the wire: it is the phase of the protocol in which the  *)
(* packet was sent, for the properties.  body is the payload.              *)
Control(type, phase, body) == [type |-> type, phase |-> phase, body |-> body]
Data(phase, counter) == [type |-> "DATA_PACKET", phase |-> phase, body |-> counter]

ClientAwaits ==
  [waitAck |-> "CONFIG_ACK", waitFin1 |-> "TEST_FIN", waitStatsAck1 |-> "STATS_ACK",
   waitFin2 |-> "TEST_FIN", waitStatsAck2 |-> "STATS_ACK"]
ServerAwaits ==
  [waitConfig |-> "CONFIG_HANDSHAKE", waitFin1 |-> "TEST_FIN",
   waitStats1 |-> "STATS_EXCHANGE", waitReady |-> "CLIENT_READY",
   waitStats2 |-> "STATS_EXCHANGE", waitShutdown |-> "SHUTDOWN_ACK"]
Awaits(s) == IF s = "client" THEN ClientAwaits ELSE ServerAwaits

ClientPCs == DOMAIN ClientAwaits \cup
  {"start", "connecting", "sendConfig", "generate", "sendFin1", "sendStats1", "sendReady",
   "readySent", "sendStats2", "sendShutdown", "shutdownSent", "done", "failed"}
ServerPCs == DOMAIN ServerAwaits \cup
  {"start", "listening", "accepting", "sendAck", "ackSent", "sendFin1", "sendStatsAck1",
   "generate", "sendFin2", "sendStatsAck2", "done", "failed"}
PCs(s) == IF s = "client" THEN ClientPCs ELSE ServerPCs

States ==
  {"IDLE", "CONNECTING", "SENDING_CONFIG", "WAITING_FOR_ACK", "ACCEPTING",
   "WAITING_FOR_CONFIG", "RUNNING_TEST", "FINISHING", "EXCHANGING_STATS",
   "WAITING_FOR_CLIENT_READY", "RUNNING_SERVER_TEST", "SERVER_TEST_FINISHING",
   "WAITING_FOR_SERVER_FIN", "EXCHANGING_SERVER_STATS",
   "WAITING_FOR_SHUTDOWN_ACK", "FINISHED", "ERRORED"}

Ended(s) == pc[s] \in {"done", "failed"}

FreshReceiver == [stats |-> NoStats, expected |-> 0]

Init ==
  /\ pc = [s \in Sides |-> "start"]
  /\ state = [s \in Sides |-> "IDLE"]
  /\ config \in [Sides -> Configs]
  /\ tx = [s \in Sides |-> 0]
  /\ rx = [s \in Sides |-> FreshReceiver]
  /\ results = [s \in Sides |-> [c1 |-> NoStats, s1 |-> NoStats,
                                 c2 |-> NoStats, s2 |-> NoStats]]
  /\ inbox = [s \in Sides |-> [t \in ControlTypes |-> <<>>]]
  /\ chan = [s \in Sides |-> <<>>]
  /\ link = "none"
  /\ unheard = FALSE
  /\ closed = {}
  /\ disturbed = FALSE

-----------------------------------------------------------------------------
(* The steps sessions are made of.                                         *)

Goto(s, to) == pc' = [pc EXCEPT ![s] = to]
TransitionTo(s, st) == state' = [state EXCEPT ![s] = st]

(* fail(), or an exception that reaches runTestCoroutine().                *)
Fail(s) ==
  /\ Goto(s, "failed")
  /\ TransitionTo(s, "ERRORED")
  /\ disturbed' = TRUE
  /\ UNCHANGED <<config, tx, rx, results, inbox, chan, network>>

Connected(s) == link = "up" /\ Peer(s) \notin closed

(* NetworkInterface::send of one packet.  On a broken connection the call  *)
(* still completes (the kernel took the bytes, or the backend reports 0    *)
(* bytes) or never completes; no packet reaches the peer.                  *)
Transmit(s, packet) ==
  chan' = IF Connected(s)
            THEN [chan EXCEPT ![Peer(s)] = Append(@, packet)]
            ELSE chan

(* co_await control.send(type): sendControlPacket() ignores how many bytes *)
(* were sent, so the session always goes on.                               *)
Send(s, from, to, type, phase, body) ==
  /\ pc[s] = from
  /\ Goto(s, to)
  /\ Transmit(s, Control(type, phase, body))
  /\ UNCHANGED <<config, tx, rx, results, inbox, network, disturbed>>

(* co_await control.waitFor(type) returns the oldest message of its type.  *)
Message(s) == Head(inbox[s][Awaits(s)[pc[s]]])

Await(s, from, to) ==
  /\ pc[s] = from
  /\ inbox[s][Awaits(s)[from]] # <<>>
  /\ Goto(s, to)
  /\ inbox' = [inbox EXCEPT ![s][Awaits(s)[from]] = Tail(@)]
  /\ UNCHANGED <<chan, network, disturbed>>

(* Mutant of Timed: only the handshake's wait has a timeout.                *)
TimedHandshake(s) == pc[s] = "waitAck"

(* Every wait of a session has a timeout: handshakeTimeoutMs, which Config  *)
(* keeps > 0, for CONFIG_ACK, the default 5000 ms for the others.          *)
Timed(s) == pc[s] \in DOMAIN Awaits(s)

(* The timeout passes first and the co_await throws.                       *)
Timeout(s) ==
  /\ Timed(s)
  /\ inbox[s][Awaits(s)[pc[s]]] = <<>>
  /\ Fail(s)

-----------------------------------------------------------------------------
(* PacketGenerator::sendPackets(), the same on both sides.                 *)

(* Mutant of ShouldContinueSending: sends one packet too many.             *)
SendOneMore(s) == config[s].numPackets = 0 \/ tx[s] <= config[s].numPackets

ShouldContinueSending(s) ==
  config[s].numPackets = 0 \/ tx[s] < config[s].numPackets

Phase(s) == IF s = "client" THEN 1 ELSE 2

StartGenerator(s) == tx' = [tx EXCEPT ![s] = 0]

(* One packet is created, numbered and sent.                               *)
GeneratePacket(s) ==
  /\ pc[s] = "generate"
  /\ ShouldContinueSending(s)
  /\ config[s].headerFits
  /\ tx[s] < MaxPackets
  /\ Transmit(s, Data(Phase(s), tx[s]))
  /\ tx' = [tx EXCEPT ![s] = @ + 1]
  /\ UNCHANGED <<pc, state, config, rx, results, inbox, network, disturbed>>

(* The loop ends: all packets are sent, createPacket() returned an empty   *)
(* packet, or a send on a broken connection returned 0 bytes.              *)
GeneratorStops(s) ==
  /\ pc[s] = "generate"
  /\ ~ ShouldContinueSending(s) \/ ~ config[s].headerFits \/ ~ Connected(s)
  /\ Goto(s, IF s = "client" THEN "sendFin1" ELSE "sendFin2")
  /\ TransitionTo(s, IF s = "client" THEN "FINISHING" ELSE "SERVER_TEST_FINISHING")
  /\ UNCHANGED <<config, tx, rx, results, inbox, chan, network, disturbed>>

-----------------------------------------------------------------------------
(* PacketReceiver.                                                         *)

(* start(): the receive loop runs from when the connection is there.       *)
Receiving(s) ==
  pc[s] \notin {"start", "connecting", "listening", "accepting"} /\ s \notin closed

(* Mutant of CountPacket: the expected number is not advanced.             *)
CountStuck(r, counter) ==
  [stats |-> [packets |-> r.stats.packets + 1,
              sequenceErrors |-> r.stats.sequenceErrors
                                 + (IF counter = r.expected THEN 0 ELSE 1)],
   expected |-> r.expected]

(* PacketReceiveStats::onDataPacket(): a number other than the expected    *)
(* one is a sequence error, and the expectation is realigned to it.        *)
CountPacket(r, counter) ==
  [stats |-> [packets |-> r.stats.packets + 1,
              sequenceErrors |-> r.stats.sequenceErrors
                                 + (IF counter = r.expected THEN 0 ELSE 1)],
   expected |-> counter + 1]

(* With one network thread a packet is not dispatched between a send's     *)
(* bytes leaving and the statements after its co_await: the same thread    *)
(* runs those first.                                                       *)
NetworkThreadFree(s) ==
  SingleNetworkThread => pc[s] \notin {"ackSent", "readySent", "shutdownSent"}

DispatchData(s) ==
  /\ Head(chan[s]).type = "DATA_PACKET"
  /\ rx' = [rx EXCEPT ![s] = CountPacket(@, Head(chan[s]).body)]
  /\ UNCHANGED inbox

DispatchControl(s) ==
  /\ Head(chan[s]).type # "DATA_PACKET"
  /\ inbox' = [inbox EXCEPT ![s][Head(chan[s]).type] = Append(@, Head(chan[s]))]
  /\ UNCHANGED rx

(* PacketDispatcher::dispatch() of the next packet: data is counted, a     *)
(* control message goes to the bus.                                        *)
Receive(s) ==
  /\ Receiving(s)
  /\ NetworkThreadFree(s)
  /\ chan[s] # <<>>
  /\ DispatchData(s) \/ DispatchControl(s)
  /\ chan' = [chan EXCEPT ![s] = Tail(@)]
  /\ UNCHANGED <<pc, state, config, tx, results, network, disturbed>>

ResetReceiver(s) == rx' = [rx EXCEPT ![s] = FreshReceiver]

-----------------------------------------------------------------------------
(* ClientTestSession.                                                      *)

(* connectAndHandshake(): initialize() or the connect fails, ...            *)
ClientInitFails == pc["client"] \in {"start", "connecting"} /\ Fail("client")

ClientStart ==
  /\ pc["client"] = "start"
  /\ Goto("client", "connecting")
  /\ TransitionTo("client", "CONNECTING")
  /\ UNCHANGED <<config, tx, rx, results, inbox, chan, network, disturbed>>

(* ... or the server's socket listens: the kernel makes the connection,    *)
(* whether or not the server has called accept().                          *)
Connect ==
  /\ pc["client"] = "connecting"
  /\ link = "none"
  /\ pc["server"] \in {"listening", "accepting"}
  /\ link' = "up"
  /\ Goto("client", "sendConfig")
  /\ TransitionTo("client", "SENDING_CONFIG")
  /\ ResetReceiver("client")
  /\ UNCHANGED <<config, tx, results, inbox, chan, unheard, closed, disturbed>>

SendConfig ==
  /\ Send("client", "sendConfig", "waitAck", "CONFIG_HANDSHAKE", 0, config["client"])
  /\ TransitionTo("client", "WAITING_FOR_ACK")

AwaitAck ==
  /\ Await("client", "waitAck", "generate")
  /\ TransitionTo("client", "RUNNING_TEST")
  /\ StartGenerator("client")
  /\ UNCHANGED <<config, rx, results>>

(* runClientToServerPhase()                                                *)
SendFin1 ==
  /\ Send("client", "sendFin1", "waitFin1", "TEST_FIN", 1, NoStats)
  /\ TransitionTo("client", "EXCHANGING_STATS")

(* Mutant of AwaitFin1: the client does not wait for the server's TEST_FIN. *)
SkipFin1 ==
  /\ pc["client"] = "waitFin1"
  /\ Goto("client", "sendStats1")
  /\ UNCHANGED <<local, inbox, chan, network, disturbed>>

AwaitFin1 ==
  /\ Await("client", "waitFin1", "sendStats1")
  /\ UNCHANGED local

SendStats1 ==
  /\ Send("client", "sendStats1", "waitStatsAck1", "STATS_EXCHANGE", 1,
          SentStats("client"))
  /\ UNCHANGED state

(* Mutant of AwaitStatsAck1: the statistics in STATS_ACK are not kept.     *)
ForgetStatsAck1 ==
  /\ Await("client", "waitStatsAck1", "sendReady")
  /\ results' = [results EXCEPT !["client"].c1 = SentStats("client")]
  /\ UNCHANGED <<state, config, tx, rx>>

AwaitStatsAck1 ==
  /\ Await("client", "waitStatsAck1", "sendReady")
  /\ results' = [results EXCEPT !["client"].s1 = Message("client").body,
                                !["client"].c1 = SentStats("client")]
  /\ UNCHANGED <<state, config, tx, rx>>

(* runServerToClientPhase()                                                *)
SendReady ==
  /\ Send("client", "sendReady", "readySent", "CLIENT_READY", 2, NoStats)
  /\ UNCHANGED state

AfterReady ==
  /\ pc["client"] = "readySent"
  /\ Goto("client", "waitFin2")
  /\ TransitionTo("client", "WAITING_FOR_SERVER_FIN")
  /\ ResetReceiver("client")
  /\ UNCHANGED <<config, tx, results, inbox, chan, network, disturbed>>

AwaitFin2 ==
  /\ Await("client", "waitFin2", "sendStats2")
  /\ TransitionTo("client", "EXCHANGING_SERVER_STATS")
  /\ results' = [results EXCEPT !["client"].c2 = rx["client"].stats]
  /\ UNCHANGED <<config, tx, rx>>

SendStats2 ==
  /\ Send("client", "sendStats2", "waitStatsAck2", "STATS_EXCHANGE", 2,
          results["client"].c2)
  /\ UNCHANGED state

AwaitStatsAck2 ==
  /\ Await("client", "waitStatsAck2", "sendShutdown")
  /\ results' = [results EXCEPT !["client"].s2 = Message("client").body]
  /\ UNCHANGED <<state, config, tx, rx>>

(* run(): the last message, and FINISHED once it is sent.                  *)
SendShutdown ==
  /\ Send("client", "sendShutdown", "shutdownSent", "SHUTDOWN_ACK", 2, NoStats)
  /\ UNCHANGED state

ClientFinishes ==
  /\ pc["client"] = "shutdownSent"
  /\ Goto("client", "done")
  /\ TransitionTo("client", "FINISHED")
  /\ UNCHANGED <<config, tx, rx, results, inbox, chan, network, disturbed>>

-----------------------------------------------------------------------------
(* ServerTestSession.                                                      *)

(* acceptAndReceiveConfig(): prepareServer() opens the listening socket    *)
(* and, on Linux, starts the network thread that watches it, ...           *)
PrepareServer ==
  /\ pc["server"] = "start"
  /\ Goto("server", "listening")
  /\ UNCHANGED <<local, inbox, chan, network, disturbed>>

(* ... and accept() leaves its callback with the backend.                  *)
RegisterAccept ==
  /\ pc["server"] = "listening"
  /\ Goto("server", "accepting")
  /\ TransitionTo("server", "ACCEPTING")
  /\ UNCHANGED <<config, tx, rx, results, inbox, chan, network, disturbed>>

(* The epoll thread takes a connection that is there before the callback:  *)
(* it has nobody to tell, and accept() waits for the next one.  AcceptEx   *)
(* takes it from the backlog, when it is called.                           *)
AcceptUnheard ==
  /\ SingleNetworkThread
  /\ pc["server"] = "listening"
  /\ link # "none"
  /\ ~ unheard
  /\ unheard' = TRUE
  /\ UNCHANGED <<pc, local, inbox, chan, link, closed, disturbed>>

(* prepareServer() or the accept fails.                                    *)
ServerInitFails == pc["server"] \in {"start", "accepting"} /\ Fail("server")

Accept ==
  /\ pc["server"] = "accepting"
  /\ link # "none"
  /\ ~ unheard
  /\ Goto("server", "waitConfig")
  /\ TransitionTo("server", "WAITING_FOR_CONFIG")
  /\ ResetReceiver("server")
  /\ UNCHANGED <<config, tx, results, inbox, chan, network, disturbed>>

(* Mutants of AdoptedConfig: the message is not parsed, and the server     *)
(* keeps the options it was started with.                                  *)
RawConfig == Message("server")
KeptConfig == config["server"]

AdoptedConfig == Message("server").body

AwaitConfig ==
  /\ Await("server", "waitConfig", "sendAck")
  /\ config' = [config EXCEPT !["server"] = AdoptedConfig]
  /\ UNCHANGED <<state, tx, rx, results>>

SendAck ==
  /\ Send("server", "sendAck", "ackSent", "CONFIG_ACK", 0, NoStats)
  /\ UNCHANGED state

(* runClientToServerPhase()                                                *)
AfterAck ==
  /\ pc["server"] = "ackSent"
  /\ Goto("server", "waitFin1")
  /\ TransitionTo("server", "RUNNING_TEST")
  /\ ResetReceiver("server")
  /\ UNCHANGED <<config, tx, results, inbox, chan, network, disturbed>>

ServerAwaitFin1 ==
  /\ Await("server", "waitFin1", "sendFin1")
  /\ TransitionTo("server", "FINISHING")
  /\ UNCHANGED <<config, tx, rx, results>>

(* Mutant of ServerSendFin1: the server does not answer TEST_FIN.          *)
OmitFin1 ==
  /\ pc["server"] = "sendFin1"
  /\ Goto("server", "waitStats1")
  /\ UNCHANGED <<local, inbox, chan, network, disturbed>>

ServerSendFin1 ==
  /\ Send("server", "sendFin1", "waitStats1", "TEST_FIN", 1, NoStats)
  /\ UNCHANGED state

AwaitStats1 ==
  /\ Await("server", "waitStats1", "sendStatsAck1")
  /\ results' = [results EXCEPT !["server"].c1 = Message("server").body,
                                !["server"].s1 = rx["server"].stats]
  /\ TransitionTo("server", "WAITING_FOR_CLIENT_READY")
  /\ UNCHANGED <<config, tx, rx>>

SendStatsAck1 ==
  /\ Send("server", "sendStatsAck1", "waitReady", "STATS_ACK", 1,
          results["server"].s1)
  /\ UNCHANGED state

(* runServerToClientPhase(): the generator's counters start again at 0.    *)
AwaitReady ==
  /\ Await("server", "waitReady", "generate")
  /\ TransitionTo("server", "RUNNING_SERVER_TEST")
  /\ StartGenerator("server")
  /\ UNCHANGED <<config, rx, results>>

SendFin2 ==
  /\ Send("server", "sendFin2", "waitStats2", "TEST_FIN", 2, NoStats)
  /\ UNCHANGED state

AwaitStats2 ==
  /\ Await("server", "waitStats2", "sendStatsAck2")
  /\ results' = [results EXCEPT !["server"].c2 = Message("server").body,
                                !["server"].s2 = SentStats("server")]
  /\ TransitionTo("server", "WAITING_FOR_SHUTDOWN_ACK")
  /\ UNCHANGED <<config, tx, rx>>

SendStatsAck2 ==
  /\ Send("server", "sendStatsAck2", "waitShutdown", "STATS_ACK", 2,
          results["server"].s2)
  /\ UNCHANGED state

AwaitShutdown ==
  /\ Await("server", "waitShutdown", "done")
  /\ TransitionTo("server", "FINISHED")
  /\ UNCHANGED <<config, tx, rx, results>>

-----------------------------------------------------------------------------
(* The connection.                                                         *)

(* An ended session's controller is stopped: its socket is closed, what    *)
(* was under way to it is dropped, what it sent still arrives.             *)
Close(s) ==
  /\ Ended(s)
  /\ link = "up"
  /\ s \notin closed
  /\ closed' = closed \cup {s}
  /\ chan' = [chan EXCEPT ![s] = <<>>]
  /\ UNCHANGED <<pc, local, inbox, link, unheard, disturbed>>

Prefix(q, n) == SubSeq(q, 1, n)

(* The connection breaks: of what is under way each side still gets a      *)
(* prefix.  A packet cut in the middle stays in the stream parser.         *)
Lose ==
  /\ link = "up"
  /\ link' = "lost"
  /\ disturbed' = TRUE
  /\ \E n \in 0..Len(chan["client"]), m \in 0..Len(chan["server"]) :
       chan' = [s \in Sides |-> Prefix(chan[s], IF s = "client" THEN n ELSE m)]
  /\ UNCHANGED <<pc, local, inbox, unheard, closed>>

ClientSends ==
  SendConfig \/ SendFin1 \/ SendStats1 \/ SendReady \/ SendStats2 \/ SendShutdown
ClientContinues ==
  \/ ClientStart \/ Connect \/ AwaitAck \/ AwaitFin1 \/ AwaitStatsAck1
  \/ AfterReady \/ AwaitFin2 \/ AwaitStatsAck2 \/ ClientFinishes

ServerSends ==
  SendAck \/ ServerSendFin1 \/ SendStatsAck1 \/ SendFin2 \/ SendStatsAck2
ServerContinues ==
  \/ PrepareServer \/ RegisterAccept \/ Accept \/ AwaitConfig \/ AfterAck
  \/ ServerAwaitFin1 \/ AwaitStats1 \/ AwaitReady \/ AwaitStats2 \/ AwaitShutdown

Generate(s) == GeneratePacket(s) \/ GeneratorStops(s)

Next ==
  \/ ClientSends \/ ClientContinues \/ ClientInitFails
  \/ ServerSends \/ ServerContinues \/ ServerInitFails
  \/ \E s \in Sides : Generate(s) \/ Receive(s) \/ Timeout(s) \/ Close(s)
  \/ AcceptUnheard \/ Lose

(* The network threads keep running: received packets are dispatched,      *)
(* coroutines resumed, and sends complete as long as the connection works. *)
(* Nothing is assumed of a send on a broken connection, whose callback a   *)
(* backend may drop, nor that anything fails.                              *)
Fairness ==
  /\ WF_vars(ClientContinues)
  /\ WF_vars(ServerContinues)
  /\ WF_vars(ClientSends /\ Connected("client"))
  /\ WF_vars(ServerSends /\ Connected("server"))
  /\ \A s \in Sides : WF_vars(Generate(s) /\ Connected(s)) /\ WF_vars(Receive(s))

SafetySpec == Init /\ [][Next]_vars
Spec == SafetySpec /\ Fairness

-----------------------------------------------------------------------------
StatsTypes == [packets : Nat, sequenceErrors : Nat]

(* Every variable has its type.                                            *)
TypeOK ==
  /\ \A s \in Sides : pc[s] \in PCs(s)
  /\ state \in [Sides -> States]
  /\ config \in [Sides -> Configs]
  /\ tx \in [Sides -> 0..MaxPackets]
  /\ rx \in [Sides -> [stats : StatsTypes, expected : Nat]]
  /\ results \in [Sides -> [c1 : StatsTypes, s1 : StatsTypes,
                           c2 : StatsTypes, s2 : StatsTypes]]
  /\ DOMAIN inbox = Sides /\ DOMAIN chan = Sides
  /\ link \in {"none", "up", "lost"}
  /\ unheard \in BOOLEAN
  /\ closed \in SUBSET Sides
  /\ disturbed \in BOOLEAN

(* validateReceiverStats() finds nothing to report.                        *)
Valid(stats, cfg) ==
  /\ cfg.numPackets > 0 => stats.packets = cfg.numPackets
  /\ stats.sequenceErrors = 0

(* TestRunResult::success as buildCurrentResult() computes it.             *)
Success(s) ==
  /\ state[s] = "FINISHED"
  /\ Valid(results[s].s1, config[s])
  /\ Valid(results[s].c2, config[s])

(* The two result files never contradict each other: when either side has  *)
(* FINISHED, both hold the same configuration and the same four statistics *)
(* and so, if both have, the same verdict.                                 *)
ResultsAgree ==
  \A s \in Sides : state[s] = "FINISHED" =>
    results["client"] = results["server"] /\ config["client"] = config["server"]

(* When a session takes the peer's TEST_FIN of the phase in which it       *)
(* receives, its statistics count every packet of the peer's generator, in *)
(* order: none was dispatched before resetStats() and none is yet to come. *)
EveryPacketCounted ==
  /\ pc["server"] = "sendFin1" =>
       rx["server"].stats = SentStats("client")
  /\ pc["client"] = "sendStats2" =>
       results["client"].c2 = SentStats("server")

(* No false alarms: with a usable packet size, whatever was lost or late,  *)
(* a session that reaches FINISHED reports success.                        *)
FinishedIsSuccess ==
  \A s \in Sides :
    state[s] = "FINISHED" /\ config[s].headerFits => Success(s)

PhaseOf(at) ==
  IF at \in {"waitAck", "waitConfig"} THEN 0
  ELSE IF at \in {"waitFin1", "waitStatsAck1", "waitStats1"} THEN 1 ELSE 2

(* TEST_FIN, STATS_EXCHANGE and STATS_ACK are sent in both phases with     *)
(* nothing to tell them apart; still a wait never gets the message of the  *)
(* other phase.                                                            *)
PhaseMatches ==
  \A s \in Sides :
    pc[s] \in DOMAIN Awaits(s) /\ inbox[s][Awaits(s)[pc[s]]] # <<>>
      => Message(s).phase = PhaseOf(pc[s])

(* The protocol never deadlocks: if nothing fails, breaks or times out, a  *)
(* limited test with a usable packet size succeeds on both sides, unless   *)
(* the client's connection was taken before accept() asked for it.         *)
UndisturbedSucceeds ==
  config["client"].numPackets > 0 /\ config["client"].headerFits =>
    <>(disturbed \/ unheard \/ \A s \in Sides : Success(s))

BlockedInSend(s) == ~ Connected(s) /\ pc[s] \notin DOMAIN Awaits(s) /\ ~ Ended(s)

(* The server in accept(), whose client has been taken from it.            *)
Unaware(s) == s = "server" /\ unheard /\ pc[s] = "accepting"

(* A wait's timer thread resumes the session when the time is up.          *)
Timers == \A s \in Sides : WF_vars(Timeout(s))

(* Nobody waits for ever: once connected, each session of a limited test   *)
(* ends, whatever happens to its peer and the connection, with two         *)
(* exceptions, both for good: a send on a broken connection that is never  *)
(* completed (LinuxAsyncNetwork shows how, and that the documentation      *)
(* denies it) and an accept() that came too late.                          *)
SessionsEnd ==
  Timers => \A s \in Sides :
    \/ (link = "up" /\ config["client"].numPackets > 0) ~> Ended(s)
    \/ <>[]BlockedInSend(s)
    \/ <>[]Unaware(s)
=============================================================================
