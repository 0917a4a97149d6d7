------------------------- MODULE TestSessionProofs -------------------------
(***************************************************************************)
(* The two-phase protocol is right, for any set of packet numbers: the     *)
(* sides are in lockstep, so that a wait gets the message of its phase and *)
(* the two result files agree; they never wait for each other; with one    *)
(* network thread every packet is counted, so that a finished test is a    *)
(* successful one.                                                         *)
(***************************************************************************)
EXTENDS TestSession, TLAPS

USE NumPacketsAssumption, MaxPacketsAssumption, ThreadAssumption

-----------------------------------------------------------------------------
(* The sessions exchange eleven control messages, the client the odd and   *)
(* the server the even ones.  The rank of a session is the number of those *)
(* it has sent or taken.                                                   *)

TypeOf(k) ==
  IF k = 1 THEN "CONFIG_HANDSHAKE" ELSE IF k = 2 THEN "CONFIG_ACK"
  ELSE IF k \in {3, 4, 8} THEN "TEST_FIN" ELSE IF k \in {5, 9} THEN "STATS_EXCHANGE"
  ELSE IF k \in {6, 10} THEN "STATS_ACK" ELSE IF k = 7 THEN "CLIENT_READY" ELSE "SHUTDOWN_ACK"

PhaseNr(k) == IF k \in {1, 2} THEN 0 ELSE IF k \in 3..6 THEN 1 ELSE 2

BodyOf(k) ==
  IF k = 1 THEN config["client"]
  ELSE IF k = 5 THEN SentStats("client")
  ELSE IF k = 6 THEN results["server"].s1
  ELSE IF k = 9 THEN results["client"].c2
  ELSE IF k = 10 THEN results["server"].s2
  ELSE NoStats

Numbered(k) == Control(TypeOf(k), PhaseNr(k), BodyOf(k))

ClientRank(p) ==
  IF p \in {"start", "connecting", "sendConfig"} THEN 0 ELSE IF p = "waitAck" THEN 1
  ELSE IF p \in {"generate", "sendFin1"} THEN 2 ELSE IF p = "waitFin1" THEN 3
  ELSE IF p = "sendStats1" THEN 4 ELSE IF p = "waitStatsAck1" THEN 5
  ELSE IF p = "sendReady" THEN 6 ELSE IF p \in {"readySent", "waitFin2"} THEN 7
  ELSE IF p = "sendStats2" THEN 8 ELSE IF p = "waitStatsAck2" THEN 9
  ELSE IF p = "sendShutdown" THEN 10 ELSE 11

ServerRank(p) ==
  IF p \in {"start", "listening", "accepting", "waitConfig"} THEN 0 ELSE IF p = "sendAck" THEN 1
  ELSE IF p \in {"ackSent", "waitFin1"} THEN 2 ELSE IF p = "sendFin1" THEN 3
  ELSE IF p = "waitStats1" THEN 4 ELSE IF p = "sendStatsAck1" THEN 5
  ELSE IF p = "waitReady" THEN 6 ELSE IF p \in {"generate", "sendFin2"} THEN 7
  ELSE IF p = "waitStats2" THEN 8 ELSE IF p = "sendStatsAck2" THEN 9
  ELSE IF p = "waitShutdown" THEN 10 ELSE 11

RankOf(s, p) == IF s = "client" THEN ClientRank(p) ELSE ServerRank(p)

Ranks == 0..11

(* A message is under way to s: its peer is one ahead.                     *)
Coming(rank, s) == rank[Peer(s)] = rank[s] + 1

(* A session that failed keeps the rank it had.  Only the sender of a      *)
(* message is ever ahead, by that message.                                 *)
Lockstep(rank) ==
  /\ \A s \in Sides : pc[s] # "failed" => rank[s] = RankOf(s, pc[s])
  /\ \/ rank["client"] = rank["server"]
     \/ rank["client"] = rank["server"] + 1 /\ rank["client"] \in {1, 3, 5, 7, 9, 11}
     \/ rank["server"] = rank["client"] + 1 /\ rank["server"] \in {2, 4, 6, 8, 10}

DataPacket == [type : {"DATA_PACKET"}, phase : {1, 2}, body : Nat]
ControlPacket == [type : ControlTypes, phase : 0..2, body : Configs \cup StatsTypes]
Packet == DataPacket \cup ControlPacket

IsData(m) == m.type = "DATA_PACKET"

(* A mailbox holds at most the message under way.                          *)
Inboxes(rank) ==
  \A s \in Sides, t \in ControlTypes :
    \/ inbox[s][t] = <<>>
    \/ /\ Coming(rank, s) /\ t = TypeOf(rank[Peer(s)])
       /\ inbox[s][t] = <<Numbered(rank[Peer(s)])>>

(* What TCP carries: data, and at most the message under way as the last.  *)
Channels(rank) ==
  \A s \in Sides : \A i \in 1..Len(chan[s]) :
    ~ IsData(chan[s][i]) =>
      /\ i = Len(chan[s]) /\ Coming(rank, s)
      /\ chan[s][i] = Numbered(rank[Peer(s)])
      /\ inbox[s][TypeOf(rank[Peer(s)])] = <<>>

(* What the sides have learned from each other.                            *)
Learned(rank) ==
  /\ rank["server"] >= 1 => config["server"] = config["client"]
  /\ rank["server"] >= 5 => results["server"].c1 = SentStats("client")
  /\ rank["client"] >= 6 => /\ results["client"].c1 = SentStats("client")
                            /\ results["client"].s1 = results["server"].s1
  /\ rank["server"] >= 9 => /\ results["server"].c2 = results["client"].c2
                            /\ results["server"].s2 = SentStats("server")
  /\ rank["client"] >= 10 => results["client"].s2 = results["server"].s2

(* The number of the TEST_FIN that ends the phase in which s receives, and *)
(* whether s has got it.                                                   *)
Fin(s) == IF s = "server" THEN 3 ELSE 8
GotFin(rank, s) ==
  \/ rank[s] >= Fin(s)
  \/ rank[s] = Fin(s) - 1 /\ rank[Peer(s)] = Fin(s) /\ inbox[s]["TEST_FIN"] # <<>>

(* The generator of p has sent what was asked for.                         *)
AllSent(p) ==
  config["client"].headerFits /\ config["client"].numPackets > 0
    => tx[p] = config["client"].numPackets

(* TEST_FIN is behind all packets of a test that the link has survived.    *)
Generated(rank) ==
  \A s \in Sides :
    /\ config["client"].numPackets > 0 => tx[Peer(s)] <= config["client"].numPackets
    /\ rank[Peer(s)] < Fin(s) - 1 => tx[Peer(s)] = 0
    /\ rank[Peer(s)] = Fin(s) - 1 /\ pc[Peer(s)] \in {"sendFin1", "sendFin2"} /\ Connected(Peer(s))
         => AllSent(Peer(s))
    /\ \A i \in 1..Len(chan[s]) :
         ~ IsData(chan[s][i]) /\ rank[Peer(s)] = Fin(s) => AllSent(Peer(s))
    /\ GotFin(rank, s) => AllSent(Peer(s))

(* With one network thread: the packets under way to s continue what s has *)
(* counted, all of them while the link is there, and TEST_FIN is behind    *)
(* the last.                                                               *)
Counting(rank, s) ==
  /\ rx[s].stats = [packets |-> rx[s].expected, sequenceErrors |-> 0]
  /\ rank[Peer(s)] < Fin(s) - 1 \/ pc[s] \in {"ackSent", "readySent"} => rx[s].expected = 0
  /\ rank[Peer(s)] = Fin(s) - 1 /\ Connected(Peer(s))
       => rx[s].expected + Len(chan[s]) = tx[Peer(s)]
  /\ \A i \in 1..Len(chan[s]) : IsData(chan[s][i]) =>
       /\ chan[s][i].body = rx[s].expected + i - 1
       /\ rank[Peer(s)] >= Fin(s) - 1 /\ ~ GotFin(rank, s)
  /\ \A i \in 1..Len(chan[s]) : ~ IsData(chan[s][i]) /\ rank[Peer(s)] = Fin(s)
       => rx[s].expected + Len(chan[s]) - 1 = tx[Peer(s)]
  /\ GotFin(rank, s) => rx[s].expected = tx[Peer(s)]

Counted(rank) ==
  /\ \A s \in Sides : Counting(rank, s)
  /\ rank["server"] >= 5 => results["server"].s1 = SentStats("client")
  /\ rank["client"] >= 8 => results["client"].c2 = SentStats("server")

Types ==
  /\ TypeOK
  /\ pc \in [Sides -> ClientPCs \cup ServerPCs]
  /\ inbox \in [Sides -> [ControlTypes -> Seq(ControlPacket)]]
  /\ chan \in [Sides -> Seq(Packet)]
  /\ \A s \in Sides : state[s] = "FINISHED" => pc[s] = "done"

InvAt(rank) ==
  /\ Lockstep(rank) /\ Inboxes(rank) /\ Channels(rank) /\ Learned(rank) /\ Generated(rank)
  /\ SingleNetworkThread => Counted(rank)

IInv == Types /\ \E rank \in [Sides -> Ranks] : InvAt(rank)

-----------------------------------------------------------------------------
(* Facts about the definitions.                                            *)

(* There are two sides, each the other's peer.                             *)
LEMMA TwoSides ==
  /\ Sides = {"client", "server"}
  /\ \A s \in Sides : Peer(s) \in Sides /\ Peer(s) # s /\ Peer(Peer(s)) = s
  /\ \A s, u \in Sides : u = s \/ u = Peer(s)
  /\ Peer("client") = "server" /\ Peer("server") = "client"
BY DEF Sides, Peer

(* The elements of a sequence with one more at its end.                    *)
LEMMA AppendElements ==
  ASSUME NEW S, NEW q \in Seq(S), NEW x \in S
  PROVE  /\ Append(q, x) \in Seq(S) /\ Len(q) \in Nat /\ Len(Append(q, x)) = Len(q) + 1
         /\ \A i \in 1..Len(q) : i # Len(q) + 1 /\ Append(q, x)[i] = q[i]
         /\ Append(q, x)[Len(q) + 1] = x
         /\ \A i \in 1..Len(Append(q, x)) : i \in 1..Len(q) \/ i = Len(q) + 1
OBVIOUS

(* The elements of a sequence without its first.                           *)
LEMMA TailElements ==
  ASSUME NEW S, NEW q \in Seq(S), q # <<>>
  PROVE  /\ Tail(q) \in Seq(S) /\ Len(q) \in Nat /\ Len(Tail(q)) \in Nat
         /\ Len(Tail(q)) = Len(q) - 1
         /\ 1 \in 1..Len(q) /\ Head(q) = q[1] /\ Head(q) \in S
         /\ \A i \in 1..Len(Tail(q)) :
              i \in Int /\ i + 1 \in 1..Len(q) /\ Tail(q)[i] = q[i + 1]
OBVIOUS

(* A sequence without elements.                                            *)
LEMMA NoElements ==
  ASSUME NEW S, NEW q \in Seq(S), \A i \in 1..Len(q) : FALSE
  PROVE  q = <<>> /\ Len(q) = 0
<1>1. Len(q) \in Nat
  OBVIOUS
<1>2. ~ (1 \in 1..Len(q))
  OBVIOUS
<1>3. Len(q) = 0
  BY <1>1, <1>2
<1> QED BY <1>3

(* The types a rank gives.                                                 *)
LEMMA RankTypes ==
  ASSUME NEW rank \in [Sides -> Ranks], NEW s \in Sides
  PROVE  rank[s] \in Ranks /\ rank[s] \in Int /\ rank[Peer(s)] \in Ranks /\ rank[Peer(s)] \in Int
BY TwoSides DEF Ranks

(* The awaits of the sessions are for the message after their rank.        *)
LEMMA AwaitedType ==
  ASSUME NEW s \in Sides, NEW p \in DOMAIN Awaits(s)
  PROVE  /\ Awaits(s)[p] = TypeOf(RankOf(s, p) + 1) /\ Awaits(s)[p] \in ControlTypes
         /\ p # "failed" /\ RankOf(s, p) \in 0..10
         /\ PhaseNr(RankOf(s, p) + 1) = PhaseOf(p)
<1>1. CASE s = "client"
  <2>1. p \in {"waitAck", "waitFin1", "waitStatsAck1", "waitFin2", "waitStatsAck2"}
    BY <1>1 DEF Awaits, ClientAwaits
  <2>2. Awaits(s) = ClientAwaits
    BY <1>1 DEF Awaits
  <2> USE DEF ClientAwaits, RankOf, ClientRank, TypeOf, ControlTypes, PhaseNr, PhaseOf
  <2>3. CASE p = "waitAck"
    BY <1>1, <2>2, <2>3
  <2>4. CASE p = "waitFin1"
    BY <1>1, <2>2, <2>4
  <2>5. CASE p = "waitStatsAck1"
    BY <1>1, <2>2, <2>5
  <2>6. CASE p = "waitFin2"
    BY <1>1, <2>2, <2>6
  <2>7. CASE p = "waitStatsAck2"
    BY <1>1, <2>2, <2>7
  <2> QED BY <2>1, <2>3, <2>4, <2>5, <2>6, <2>7
<1>2. CASE s = "server"
  <2>1. p \in {"waitConfig", "waitFin1", "waitStats1", "waitReady", "waitStats2", "waitShutdown"}
    BY <1>2 DEF Awaits, ServerAwaits
  <2>2. Awaits(s) = ServerAwaits
    BY <1>2 DEF Awaits
  <2> USE DEF ServerAwaits, RankOf, ServerRank, TypeOf, ControlTypes, PhaseNr, PhaseOf
  <2>3. CASE p = "waitConfig"
    BY <1>2, <2>2, <2>3
  <2>4. CASE p = "waitFin1"
    BY <1>2, <2>2, <2>4
  <2>5. CASE p = "waitStats1"
    BY <1>2, <2>2, <2>5
  <2>6. CASE p = "waitReady"
    BY <1>2, <2>2, <2>6
  <2>7. CASE p = "waitStats2"
    BY <1>2, <2>2, <2>7
  <2>8. CASE p = "waitShutdown"
    BY <1>2, <2>2, <2>8
  <2> QED BY <2>1, <2>3, <2>4, <2>5, <2>6, <2>7, <2>8
<1> QED BY <1>1, <1>2, TwoSides

(* The types of the messages.                                              *)
LEMMA NumberedType ==
  ASSUME Types, NEW k \in 1..11
  PROVE  /\ Numbered(k) \in ControlPacket /\ ~ IsData(Numbered(k))
         /\ Numbered(k).type = TypeOf(k) /\ Numbered(k).phase = PhaseNr(k)
         /\ Numbered(k).body = BodyOf(k) /\ TypeOf(k) \in ControlTypes
         /\ k = 1 => BodyOf(k) \in Configs
         /\ k \in {5, 6, 9, 10} => BodyOf(k) \in StatsTypes
<1>1. /\ config["client"] \in Configs /\ SentStats("client") \in StatsTypes
      /\ results["server"].s1 \in StatsTypes /\ results["client"].c2 \in StatsTypes
      /\ results["server"].s2 \in StatsTypes /\ NoStats \in StatsTypes
  <2>1. /\ results \in [Sides -> [c1 : StatsTypes, s1 : StatsTypes, c2 : StatsTypes, s2 : StatsTypes]]
        /\ config \in [Sides -> Configs] /\ tx \in [Sides -> 0..MaxPackets]
    BY DEF Types, TypeOK
  <2>2. tx["client"] \in Nat
    BY <2>1, TwoSides
  <2>3. SentStats("client") \in StatsTypes /\ NoStats \in StatsTypes
    BY <2>2 DEF StatsTypes, SentStats, NoStats
  <2>4. /\ results["server"].s1 \in StatsTypes /\ results["client"].c2 \in StatsTypes
        /\ results["server"].s2 \in StatsTypes
    BY <2>1, TwoSides
  <2>5. config["client"] \in Configs
    BY <2>1, TwoSides
  <2> QED BY <2>3, <2>4, <2>5
<1>2. BodyOf(k) \in Configs \cup StatsTypes
  BY <1>1 DEF BodyOf
<1>3. TypeOf(k) \in ControlTypes /\ TypeOf(k) # "DATA_PACKET" /\ PhaseNr(k) \in 0..2
  BY DEF TypeOf, ControlTypes, PhaseNr
<1>4. /\ k = 1 => BodyOf(k) \in Configs
      /\ k \in {5, 6, 9, 10} => BodyOf(k) \in StatsTypes
  BY <1>1 DEF BodyOf
<1> QED BY <1>2, <1>3, <1>4 DEF Numbered, Control, ControlPacket, IsData

(* A side to which nothing is under way has an empty bus.                  *)
LEMMA NothingComing ==
  ASSUME Types, NEW rank \in [Sides -> Ranks], Inboxes(rank), Channels(rank),
         NEW s \in Sides, ~ Coming(rank, s)
  PROVE  /\ \A t \in ControlTypes : inbox[s][t] = <<>>
         /\ \A i \in 1..Len(chan[s]) : IsData(chan[s][i])
BY DEF Inboxes, Channels

-----------------------------------------------------------------------------
(* A session sends message k, the next one.                                *)

Bumped(rank, s) == [rank EXCEPT ![s] = @ + 1]

(* The new ranks.                                                          *)
LEMMA BumpedRanks ==
  ASSUME NEW rank \in [Sides -> Ranks], NEW s \in Sides, rank[s] # 11
  PROVE  /\ Bumped(rank, s) \in [Sides -> Ranks]
         /\ Bumped(rank, s)[s] = rank[s] + 1
         /\ Bumped(rank, s)[Peer(s)] = rank[Peer(s)]
<1>1. rank[s] \in Ranks /\ rank[s] + 1 \in Ranks
  BY DEF Ranks
<1> QED BY <1>1, TwoSides DEF Bumped

Odd == {1, 3, 5, 7, 9, 11}
Even == {2, 4, 6, 8, 10}

(* k is a message for s to send.                                           *)
Sends(s, k) == k \in (IF s = "client" THEN Odd ELSE Even)

(* The effect of sending it.                                               *)
SendStep(rank, s, to, k) ==
  /\ rank[s] = k - 1 /\ rank[Peer(s)] = k - 1 /\ Sends(s, k)
  /\ Transmit(s, Numbered(k))
  /\ pc[s] # "failed" /\ pc' = [pc EXCEPT ![s] = to]
  /\ to # "failed" /\ RankOf(s, to) = k /\ to \notin {"sendFin1", "sendFin2"}
  /\ k = Fin(Peer(s)) => pc[s] \in {"sendFin1", "sendFin2"}
  /\ to \in {"ackSent", "readySent"} => k < Fin(s)
  /\ UNCHANGED <<config, tx, rx, results, inbox, network>>

(* The sender is now one ahead, by that message.                           *)
LEMMA SendKeepsLockstep ==
  ASSUME Types, NEW rank \in [Sides -> Ranks], InvAt(rank), NEW s \in Sides, NEW k \in 1..11,
         NEW to, SendStep(rank, s, to, k)
  PROVE  Lockstep(Bumped(rank, s))'
<1> DEFINE r == Bumped(rank, s)
<1>1. rank[s] # 11 /\ r[s] = k /\ r[Peer(s)] = k - 1
  BY BumpedRanks DEF SendStep
<1>2. pc'[s] = to /\ pc'[Peer(s)] = pc[Peer(s)]
  BY TwoSides DEF SendStep, Types
<1>3. pc[Peer(s)] # "failed" => k - 1 = RankOf(Peer(s), pc[Peer(s)])
  BY TwoSides DEF InvAt, Lockstep, SendStep
<1>4. \A u \in Sides : pc'[u] # "failed" => r[u] = RankOf(u, pc'[u])
  BY <1>1, <1>2, <1>3, TwoSides DEF SendStep
<1>5. CASE s = "client"
  BY <1>1, <1>4, <1>5, TwoSides DEF Lockstep, SendStep, Sends, Odd
<1>6. CASE s = "server"
  BY <1>1, <1>4, <1>6, TwoSides DEF Lockstep, SendStep, Sends, Even
<1> QED BY <1>5, <1>6, TwoSides

(* The message is the last one under way and its mailbox is empty.         *)
LEMMA SendKeepsChannels ==
  ASSUME Types, NEW rank \in [Sides -> Ranks], InvAt(rank), NEW s \in Sides, NEW k \in 1..11,
         NEW to, SendStep(rank, s, to, k)
  PROVE  Inboxes(Bumped(rank, s))' /\ Channels(Bumped(rank, s))'
<1> DEFINE r == Bumped(rank, s)
           p == Peer(s)
<1>1. r[s] = k /\ r[p] = k - 1 /\ r[Peer(p)] = k
  BY BumpedRanks, TwoSides DEF SendStep
<1>2. rank[s] = k - 1 /\ rank[p] = k - 1 /\ rank[Peer(p)] = k - 1
  BY TwoSides DEF SendStep
<1>3. ASSUME NEW u \in Sides
      PROVE  /\ ~ Coming(rank, u) /\ \A t \in ControlTypes : inbox[u][t] = <<>>
             /\ \A i \in 1..Len(chan[u]) : IsData(chan[u][i])
  <2>1. ~ Coming(rank, u)
    BY <1>2, TwoSides DEF Coming
  <2> QED BY <2>1, NothingComing DEF InvAt
<1>4. Inboxes(r)'
  BY <1>3 DEF Inboxes, SendStep
<1>5. Numbered(k)' = Numbered(k) /\ Numbered(k) \in Packet /\ TypeOf(k) \in ControlTypes
  BY NumberedType DEF Numbered, BodyOf, SentStats, SendStep, Packet
<1>6. p \in Sides /\ chan[p] \in Seq(Packet) /\ chan[s] \in Seq(Packet)
  BY TwoSides DEF Types
<1>7. \/ chan' = chan
      \/ chan'[s] = chan[s] /\ chan'[p] = Append(chan[p], Numbered(k))
  BY TwoSides DEF SendStep, Transmit, Types
<1>8. Coming(r, p)
  BY <1>1 DEF Coming
<1>9. ASSUME NEW u \in Sides, NEW i \in 1..Len(chan'[u]), ~ IsData(chan'[u][i])
      PROVE  /\ i = Len(chan'[u]) /\ Coming(r, u)
             /\ chan'[u][i] = Numbered(r[Peer(u)])'
             /\ inbox'[u][TypeOf(r[Peer(u)])] = <<>>
  <2>1. chan' # chan
    BY <1>3, <1>9
  <2>2. u = p
    BY <1>3, <1>7, <1>9, <2>1, TwoSides
  <2>3. chan'[u] = Append(chan[p], Numbered(k))
    BY <1>7, <2>1, <2>2
  <2>4. i = Len(chan[p]) + 1 /\ i = Len(chan'[u]) /\ chan'[u][i] = Numbered(k)
    <3>1. i \in 1..Len(chan[p]) => chan'[u][i] = chan[p][i]
      BY <2>3, <1>5, <1>6, AppendElements
    <3>2. ~ (i \in 1..Len(chan[p]))
      BY <3>1, <1>3, <1>6, <1>9
    <3> QED BY <3>2, <2>3, <1>5, <1>6, <1>9, AppendElements
  <2>5. Numbered(r[Peer(u)])' = Numbered(k) /\ TypeOf(r[Peer(u)]) = TypeOf(k)
    BY <1>1, <1>5, <2>2
  <2>6. inbox'[u][TypeOf(k)] = <<>>
    BY <1>3, <1>5 DEF SendStep
  <2> QED BY <1>8, <2>2, <2>4, <2>5, <2>6
<1>10. Channels(r)'
  BY <1>9 DEF Channels
<1> QED BY <1>4, <1>10

(* Sending teaches the sides nothing and unlearns nothing.                 *)
LEMMA SendKeepsLearned ==
  ASSUME Types, NEW rank \in [Sides -> Ranks], InvAt(rank), NEW s \in Sides, NEW k \in 1..11,
         NEW to, SendStep(rank, s, to, k)
  PROVE  Learned(Bumped(rank, s))'
<1>1. Bumped(rank, s)[s] = k /\ Bumped(rank, s)[Peer(s)] = k - 1 /\ rank[s] = k - 1
      /\ rank[Peer(s)] = k - 1
  BY BumpedRanks DEF SendStep
<1>2. CASE s = "client"
  BY <1>1, <1>2, TwoSides DEF InvAt, Learned, SendStep, Sends, Odd, SentStats
<1>3. CASE s = "server"
  BY <1>1, <1>3, TwoSides DEF InvAt, Learned, SendStep, Sends, Even, SentStats
<1> QED BY <1>2, <1>3, TwoSides

(* What the step does to the channel towards the peer.                     *)
LEMMA SendAppends ==
  ASSUME Types, NEW rank \in [Sides -> Ranks], InvAt(rank), NEW s \in Sides, NEW k \in 1..11,
         NEW to, SendStep(rank, s, to, k)
  PROVE  /\ Connected(s)' = Connected(s) /\ Connected(Peer(s))' = Connected(Peer(s))
         /\ chan'[s] = chan[s]
         /\ pc'[s] = to /\ pc'[Peer(s)] = pc[Peer(s)]
         /\ Bumped(rank, s)[s] = k /\ Bumped(rank, s)[Peer(s)] = k - 1
         /\ rank[s] = k - 1 /\ rank[Peer(s)] = k - 1
         /\ \A u \in Sides : \A i \in 1..Len(chan[u]) : IsData(chan[u][i])
         /\ \A u \in Sides : \A t \in ControlTypes : inbox[u][t] = <<>>
         /\ \A i \in 1..Len(chan'[Peer(s)]) : IsData(chan'[Peer(s)][i]) =>
              i \in 1..Len(chan[Peer(s)]) /\ chan'[Peer(s)][i] = chan[Peer(s)][i]
         /\ \A i \in 1..Len(chan'[Peer(s)]) : ~ IsData(chan'[Peer(s)][i]) =>
              Connected(s) /\ Len(chan'[Peer(s)]) = Len(chan[Peer(s)]) + 1
         /\ Len(chan[Peer(s)]) \in Nat
         /\ Sends(s, k) /\ to \notin {"sendFin1", "sendFin2"}
         /\ k = Fin(Peer(s)) => pc[s] \in {"sendFin1", "sendFin2"}
<1> DEFINE p == Peer(s)
<1>1. p \in Sides /\ chan[p] \in Seq(Packet) /\ chan[s] \in Seq(Packet)
  BY TwoSides DEF Types
<1>2. Numbered(k) \in Packet /\ ~ IsData(Numbered(k))
  BY NumberedType DEF Packet
<1>3. Connected(s)' = Connected(s) /\ Connected(p)' = Connected(p)
  BY DEF SendStep, Connected, network
<1>4. /\ pc'[s] = to /\ pc'[p] = pc[p]
  BY TwoSides DEF SendStep, Types
<1>5. /\ Bumped(rank, s)[s] = k /\ Bumped(rank, s)[p] = k - 1
      /\ rank[s] = k - 1 /\ rank[p] = k - 1
  BY BumpedRanks DEF SendStep
<1>6. ASSUME NEW u \in Sides
      PROVE  /\ \A t \in ControlTypes : inbox[u][t] = <<>>
             /\ \A i \in 1..Len(chan[u]) : IsData(chan[u][i])
  <2>1. ~ Coming(rank, u)
    BY <1>5, TwoSides DEF Coming
  <2> QED BY <2>1, NothingComing DEF InvAt
<1>7. Len(chan[p]) \in Nat
  BY <1>1
<1>f. /\ Sends(s, k) /\ to \notin {"sendFin1", "sendFin2"}
      /\ k = Fin(p) => pc[s] \in {"sendFin1", "sendFin2"}
  BY DEF SendStep
<1>8. CASE Connected(s)
  <2>1. chan'[s] = chan[s] /\ chan'[p] = Append(chan[p], Numbered(k))
    BY <1>8, TwoSides DEF SendStep, Transmit, Types
  <2>2. /\ Len(chan'[p]) = Len(chan[p]) + 1
        /\ \A i \in 1..Len(chan[p]) : chan'[p][i] = chan[p][i]
        /\ chan'[p][Len(chan[p]) + 1] = Numbered(k)
        /\ \A i \in 1..Len(chan'[p]) : i \in 1..Len(chan[p]) \/ i = Len(chan[p]) + 1
    BY <2>1, <1>1, <1>2, AppendElements
  <2>3. \A i \in 1..Len(chan'[p]) : IsData(chan'[p][i]) =>
          i \in 1..Len(chan[p]) /\ chan'[p][i] = chan[p][i]
    BY <2>2, <1>2
  <2> QED BY <2>1, <2>2, <2>3, <1>3, <1>4, <1>5, <1>6, <1>7, <1>8, <1>f
<1>9. CASE ~ Connected(s)
  <2>1. chan' = chan
    BY <1>9 DEF SendStep, Transmit
  <2> QED BY <2>1, <1>1, <1>3, <1>4, <1>5, <1>6, <1>7, <1>9, <1>f
<1> QED BY <1>8, <1>9

(* Nobody gets a TEST_FIN by it.                                           *)
LEMMA SendIsNotGot ==
  ASSUME Types, NEW rank \in [Sides -> Ranks], InvAt(rank), NEW s \in Sides, NEW k \in 1..11,
         NEW to, SendStep(rank, s, to, k), NEW u \in Sides, GotFin(Bumped(rank, s), u)'
  PROVE  GotFin(rank, u)
<1>1. inbox'[u]["TEST_FIN"] = <<>>
  <2>1. inbox[u]["TEST_FIN"] = <<>>
    BY SendAppends DEF ControlTypes
  <2> QED BY <2>1 DEF SendStep
<1>2. Bumped(rank, s)[u] >= Fin(u)
  BY <1>1 DEF GotFin
<1>3. CASE s = "client" /\ u = "client"
  BY <1>2, <1>3, SendAppends DEF GotFin, Fin, Sends, Odd
<1>4. CASE s = "server" /\ u = "server"
  BY <1>2, <1>4, SendAppends DEF GotFin, Fin, Sends, Even
<1>5. CASE u = Peer(s)
  BY <1>2, <1>5, SendAppends DEF GotFin
<1> QED BY <1>3, <1>4, <1>5, TwoSides

(* A TEST_FIN that is sent has all packets before it.                      *)
LEMMA SendKeepsGenerated ==
  ASSUME Types, NEW rank \in [Sides -> Ranks], InvAt(rank), NEW s \in Sides, NEW k \in 1..11,
         NEW to, SendStep(rank, s, to, k)
  PROVE  Generated(Bumped(rank, s))'
<1> DEFINE r == Bumped(rank, s)
           p == Peer(s)
<1>a. \A u \in Sides : AllSent(u)' <=> AllSent(u)
  BY DEF AllSent, SendStep
<1>b. /\ UNCHANGED <<config, tx>> /\ p \in Sides /\ Peer(p) = s /\ Fin(p) \in Int /\ Fin(s) \in Int
  BY TwoSides DEF SendStep, Fin
<1>i. Generated(rank)
  BY DEF InvAt
<1>1. ASSUME NEW u \in Sides, u = p
      PROVE  /\ config'["client"].numPackets > 0 => tx'[Peer(u)] <= config'["client"].numPackets
             /\ r[Peer(u)] < Fin(u) - 1 => tx'[Peer(u)] = 0
             /\ r[Peer(u)] = Fin(u) - 1 /\ pc'[Peer(u)] \in {"sendFin1", "sendFin2"}
                  /\ Connected(Peer(u))' => AllSent(Peer(u))'
             /\ \A i \in 1..Len(chan'[u]) :
                  ~ IsData(chan'[u][i]) /\ r[Peer(u)] = Fin(u) => AllSent(Peer(u))'
             /\ GotFin(r, u)' => AllSent(Peer(u))'
  <2>1. /\ r[s] = k /\ rank[s] = k - 1 /\ pc'[s] = to /\ to \notin {"sendFin1", "sendFin2"}
    BY SendAppends
  <2>2. r[s] < Fin(p) - 1 => tx'[s] = 0
    BY <2>1, <1>b, <1>i DEF Generated
  <2>3. ASSUME NEW i \in 1..Len(chan'[p]), ~ IsData(chan'[p][i]), k = Fin(p)
        PROVE  AllSent(s)'
    <3>1. Connected(s) /\ pc[s] \in {"sendFin1", "sendFin2"} /\ rank[s] = Fin(p) - 1
      BY <2>3, <2>1, SendAppends
    <3> QED BY <3>1, <1>a, <1>b, <1>i DEF Generated
  <2>4. GotFin(r, p)' => AllSent(s)'
    BY <1>a, <1>b, <1>i, SendIsNotGot DEF Generated
  <2>5. config'["client"].numPackets > 0 => tx'[s] <= config'["client"].numPackets
    BY <1>b, <1>i DEF Generated
  <2> HIDE DEF r
  <2> QED BY <1>1, <1>b, <2>1, <2>2, <2>3, <2>4, <2>5
<1>2. ASSUME NEW u \in Sides, u = s
      PROVE  /\ config'["client"].numPackets > 0 => tx'[Peer(u)] <= config'["client"].numPackets
             /\ r[Peer(u)] < Fin(u) - 1 => tx'[Peer(u)] = 0
             /\ r[Peer(u)] = Fin(u) - 1 /\ pc'[Peer(u)] \in {"sendFin1", "sendFin2"}
                  /\ Connected(Peer(u))' => AllSent(Peer(u))'
             /\ \A i \in 1..Len(chan'[u]) :
                  ~ IsData(chan'[u][i]) /\ r[Peer(u)] = Fin(u) => AllSent(Peer(u))'
             /\ GotFin(r, u)' => AllSent(Peer(u))'
  <2>1. /\ r[p] = rank[p] /\ pc'[p] = pc[p] /\ chan'[s] = chan[s]
        /\ Connected(p)' = Connected(p)
    BY SendAppends
  <2>2. GotFin(r, s)' => AllSent(p)'
    BY <1>a, <1>b, <1>i, SendIsNotGot DEF Generated
  <2> HIDE DEF r
  <2> QED BY <1>2, <1>a, <1>b, <1>i, <2>1, <2>2 DEF Generated
<1> HIDE DEF r, p
<1>3. \A u \in Sides : u = s \/ u = p
  BY TwoSides DEF p
<1> QED BY <1>1, <1>2, <1>3 DEF Generated, r, p

(* The data under way is what it was, the message is behind it.            *)
LEMMA SendKeepsCounted ==
  ASSUME Types, NEW rank \in [Sides -> Ranks], InvAt(rank), Counted(rank), NEW s \in Sides,
         NEW k \in 1..11, NEW to, SendStep(rank, s, to, k)
  PROVE  Counted(Bumped(rank, s))'
<1> DEFINE r == Bumped(rank, s)
           p == Peer(s)
<1>b. /\ UNCHANGED <<tx, rx, results>> /\ p \in Sides /\ Peer(p) = s
      /\ Fin(p) \in {3, 8} /\ Fin(s) \in {3, 8}
  BY TwoSides DEF SendStep, Fin
<1>t. rx[p].expected \in Nat /\ rx[s].expected \in Nat /\ tx[s] \in Nat
  BY <1>b DEF Types, TypeOK
<1>i. Counting(rank, s) /\ Counting(rank, p)
  BY <1>b DEF Counted
<1>r. /\ r[s] = k /\ rank[s] = k - 1 /\ r[p] = k - 1 /\ rank[p] = k - 1
      /\ pc'[s] = to /\ pc'[p] = pc[p] /\ chan'[s] = chan[s]
      /\ Connected(s)' = Connected(s) /\ Connected(p)' = Connected(p)
  BY SendAppends
<1>1. Counting(r, p)'
  <2>1. rx'[p].stats = [packets |-> rx'[p].expected, sequenceErrors |-> 0]
    BY <1>b, <1>i DEF Counting
  <2>2. r[s] < Fin(p) - 1 \/ pc'[p] \in {"ackSent", "readySent"} => rx'[p].expected = 0
    BY <1>b, <1>i, <1>r DEF Counting
  <2>3. r[s] # Fin(p) - 1
    BY <1>r, TwoSides DEF SendStep, Sends, Odd, Even, Fin
  <2>4. ASSUME NEW i \in 1..Len(chan'[p]), IsData(chan'[p][i])
        PROVE  /\ chan'[p][i].body = rx'[p].expected + i - 1
               /\ r[s] >= Fin(p) - 1 /\ ~ GotFin(r, p)'
    <3>1. i \in 1..Len(chan[p]) /\ chan'[p][i] = chan[p][i] /\ IsData(chan[p][i])
      BY <2>4, SendAppends
    <3>2. chan[p][i].body = rx[p].expected + i - 1 /\ rank[s] >= Fin(p) - 1 /\ ~ GotFin(rank, p)
      BY <3>1, <1>b, <1>i DEF Counting
    <3>3. ~ GotFin(r, p)'
      BY <3>2, <1>b, SendIsNotGot
    <3>4. r[s] >= Fin(p) - 1
      BY <3>2, <1>r, <1>b
    <3> QED BY <3>1, <3>2, <3>3, <3>4, <1>b
  <2>5. ASSUME NEW i \in 1..Len(chan'[p]), ~ IsData(chan'[p][i]), r[s] = Fin(p)
        PROVE  rx'[p].expected + Len(chan'[p]) - 1 = tx'[s]
    <3>1. /\ Connected(s) /\ Len(chan'[p]) = Len(chan[p]) + 1 /\ Len(chan[p]) \in Nat
      BY <2>5, SendAppends
    <3>2. rank[s] = Fin(p) - 1
      BY <2>5, <1>r
    <3>3. rx[p].expected + Len(chan[p]) = tx[s]
      BY <3>1, <3>2, <1>b, <1>i DEF Counting
    <3> QED BY <3>1, <3>3, <1>b, <1>t
  <2>6. GotFin(r, p)' => rx'[p].expected = tx'[s]
    BY <1>b, <1>i, SendIsNotGot DEF Counting
  <2> HIDE DEF r, p
  <2> QED BY <2>1, <2>2, <2>3, <2>4, <2>5, <2>6, <1>b DEF Counting
<1>2. Counting(r, s)'
  <2>1. to \in {"ackSent", "readySent"} => rank[p] < Fin(s) - 1
    BY <1>r, <1>b DEF SendStep
  <2>2. GotFin(r, s)' => GotFin(rank, s)
    BY SendIsNotGot
  <2> HIDE DEF r, p
  <2> QED BY <2>1, <2>2, <1>b, <1>i, <1>r DEF Counting, p
<1>3. /\ r["server"] >= 5 => results'["server"].s1 = SentStats("client")'
      /\ r["client"] >= 8 => results'["client"].c2 = SentStats("server")'
  <2>1. CASE s = "client"
    BY <2>1, <1>r, <1>b, TwoSides DEF Counted, SentStats, SendStep, Sends, Odd
  <2>2. CASE s = "server"
    BY <2>2, <1>r, <1>b, TwoSides DEF Counted, SentStats, SendStep, Sends, Even
  <2> QED BY <2>1, <2>2, TwoSides
<1>4. \A u \in Sides : u = s \/ u = p
  BY TwoSides
<1> HIDE DEF r, p
<1> QED BY <1>1, <1>2, <1>3, <1>4 DEF Counted, r

-----------------------------------------------------------------------------
(* A session takes the message under way to it.                            *)

TakeStep(s, to) ==
  /\ pc[s] \in DOMAIN Awaits(s) /\ Await(s, pc[s], to)
  /\ to \notin {"failed", "ackSent", "readySent"}
  /\ RankOf(s, to) = RankOf(s, pc[s]) + 1
  /\ to \in {"sendFin1", "sendFin2"} => RankOf(s, to) # Fin(Peer(s)) - 1
  /\ UNCHANGED <<tx, rx>> /\ config'["client"] = config["client"]

(* It is the next message, and then there is none.                         *)
LEMMA Taken ==
  ASSUME Types, NEW rank \in [Sides -> Ranks], InvAt(rank), NEW s \in Sides, NEW to,
         TakeStep(s, to)
  PROVE  /\ rank[s] = RankOf(s, pc[s]) /\ rank[s] \in 0..10 /\ rank[Peer(s)] = rank[s] + 1
         /\ Sends(Peer(s), rank[s] + 1) /\ Message(s) = Numbered(rank[s] + 1)
         /\ inbox[s][TypeOf(rank[s] + 1)] # <<>>
         /\ Bumped(rank, s) \in [Sides -> Ranks]
         /\ Bumped(rank, s)[s] = rank[s] + 1 /\ Bumped(rank, s)[Peer(s)] = rank[s] + 1
         /\ pc'[s] = to /\ pc'[Peer(s)] = pc[Peer(s)]
         /\ \A u \in Sides : \A t \in ControlTypes : inbox'[u][t] = <<>>
         /\ \A u \in Sides : \A i \in 1..Len(chan[u]) : IsData(chan[u][i])
         /\ UNCHANGED <<chan, tx, rx, network>> /\ config'["client"] = config["client"]
         /\ \A u \in Sides : Connected(u)' = Connected(u)
         /\ RankOf(s, to) = rank[s] + 1 /\ to \notin {"failed", "ackSent", "readySent"}
         /\ to \in {"sendFin1", "sendFin2"} => rank[s] + 1 # Fin(Peer(s)) - 1
<1> DEFINE k == rank[s] + 1
           t == Awaits(s)[pc[s]]
<1>1. /\ pc[s] \in DOMAIN Awaits(s) /\ inbox[s][t] # <<>> /\ pc' = [pc EXCEPT ![s] = to]
      /\ inbox' = [inbox EXCEPT ![s][t] = Tail(@)] /\ UNCHANGED <<chan, network>>
  BY DEF TakeStep, Await, Goto
<1>2. rank[s] = RankOf(s, pc[s]) /\ rank[s] \in 0..10 /\ t = TypeOf(k) /\ t \in ControlTypes
  <2>1. /\ t = TypeOf(RankOf(s, pc[s]) + 1) /\ t \in ControlTypes
        /\ pc[s] # "failed" /\ RankOf(s, pc[s]) \in 0..10
    BY <1>1, AwaitedType
  <2>2. rank[s] = RankOf(s, pc[s])
    BY <2>1 DEF InvAt, Lockstep
  <2> QED BY <2>1, <2>2
<1>3. Coming(rank, s) /\ inbox[s][t] = <<Numbered(k)>>
  BY <1>1, <1>2 DEF InvAt, Inboxes, Coming
<1>4. rank[Peer(s)] = k
  BY <1>3 DEF Coming
<1>5. Sends(Peer(s), k)
  BY <1>2, <1>4, TwoSides DEF InvAt, Lockstep, Sends, Odd, Even
<1>6. Message(s) = Numbered(k)
  BY <1>3 DEF Message
<1>7. /\ Bumped(rank, s) \in [Sides -> Ranks]
      /\ Bumped(rank, s)[s] = k /\ Bumped(rank, s)[Peer(s)] = k
  BY <1>2, <1>4, BumpedRanks
<1>8. pc'[s] = to /\ pc'[Peer(s)] = pc[Peer(s)]
  BY <1>1, TwoSides DEF Types
<1>9. ~ Coming(rank, Peer(s))
  BY <1>2, <1>4, TwoSides DEF Coming
<1>10. /\ \A v \in ControlTypes : inbox[Peer(s)][v] = <<>>
       /\ \A i \in 1..Len(chan[Peer(s)]) : IsData(chan[Peer(s)][i])
  BY <1>9, NothingComing, TwoSides DEF InvAt
<1>11. \A i \in 1..Len(chan[s]) : IsData(chan[s][i])
  BY <1>1, <1>2, <1>4 DEF InvAt, Channels
<1>12. ASSUME NEW v \in ControlTypes
       PROVE  inbox'[s][v] = <<>> /\ inbox'[Peer(s)][v] = <<>>
  <2>1. inbox'[Peer(s)] = inbox[Peer(s)]
    BY <1>1, TwoSides DEF Types
  <2>2. v # t => inbox'[s][v] = inbox[s][v] /\ inbox[s][v] = <<>>
    BY <1>1, <1>2, <1>4 DEF Types, InvAt, Inboxes
  <2>3. inbox'[s][t] = Tail(inbox[s][t])
    BY <1>1, <1>2 DEF Types
  <2>4. Tail(inbox[s][t]) = <<>>
    BY <1>3
  <2> QED BY <2>1, <2>2, <2>3, <2>4, <1>10
<1>13. \A u \in Sides : Connected(u)' = Connected(u)
  BY <1>1 DEF Connected, network
<1>14. /\ UNCHANGED <<tx, rx>> /\ config'["client"] = config["client"]
       /\ RankOf(s, to) = k /\ to \notin {"failed", "ackSent", "readySent"}
       /\ to \in {"sendFin1", "sendFin2"} => k # Fin(Peer(s)) - 1
  BY <1>2 DEF TakeStep
<1>15. \A u \in Sides : u = s \/ u = Peer(s)
  BY TwoSides
<1> HIDE DEF k
<1> QED BY <1>1, <1>2, <1>4, <1>5, <1>6, <1>7, <1>8, <1>10, <1>11, <1>12, <1>13, <1>14, <1>15
        DEF k

(* Taking the message brings the sides level; nothing is left under way.   *)
LEMMA TakeKeepsControl ==
  ASSUME Types, NEW rank \in [Sides -> Ranks], InvAt(rank), NEW s \in Sides, NEW to,
         TakeStep(s, to)
  PROVE  /\ Lockstep(Bumped(rank, s))' /\ Inboxes(Bumped(rank, s))' /\ Channels(Bumped(rank, s))'
<1> DEFINE r == Bumped(rank, s)
<1>1. /\ r[s] = rank[s] + 1 /\ r[Peer(s)] = rank[Peer(s)] /\ r[Peer(s)] = r[s]
      /\ pc'[s] = to /\ pc'[Peer(s)] = pc[Peer(s)] /\ RankOf(s, to) = r[s]
      /\ chan' = chan
  BY Taken
<1>2. \A u \in Sides : pc[u] # "failed" => rank[u] = RankOf(u, pc[u])
  BY DEF InvAt, Lockstep
<1>3. ASSUME NEW u \in Sides, pc'[u] # "failed"
      PROVE  r[u] = RankOf(u, pc'[u])
  <2>1. CASE u = s
    BY <2>1, <1>1
  <2>2. CASE u = Peer(s)
    BY <2>2, <1>1, <1>2, <1>3
  <2> QED BY <2>1, <2>2, TwoSides
<1>4. r["client"] = r["server"]
  BY <1>1, TwoSides
<1>5. Inboxes(r)'
  <2>1. \A u \in Sides : \A t \in ControlTypes : inbox'[u][t] = <<>>
    BY Taken
  <2> QED BY <2>1 DEF Inboxes
<1>6. Channels(r)'
  <2>1. \A u \in Sides : \A i \in 1..Len(chan'[u]) : IsData(chan'[u][i])
    BY <1>1, Taken
  <2> QED BY <2>1 DEF Channels
<1> QED BY <1>3, <1>4, <1>5, <1>6 DEF Lockstep

(* Nobody gets a TEST_FIN by it who had it not.                            *)
LEMMA TakeIsNotGot ==
  ASSUME Types, NEW rank \in [Sides -> Ranks], InvAt(rank), NEW s \in Sides, NEW to,
         TakeStep(s, to), NEW u \in Sides, GotFin(Bumped(rank, s), u)'
  PROVE  GotFin(rank, u)
<1>1. inbox'[u]["TEST_FIN"] = <<>>
  BY Taken DEF ControlTypes
<1>2. Bumped(rank, s)[u] >= Fin(u)
  BY <1>1 DEF GotFin
<1>3. CASE u = s
  <2>1. CASE rank[s] + 1 = Fin(s)
    <3>1. TypeOf(rank[s] + 1) = "TEST_FIN"
      BY <2>1 DEF Fin, TypeOf
    <3>2. rank[s] = Fin(s) - 1
      BY <2>1, RankTypes
    <3>3. rank[Peer(s)] = Fin(s) /\ inbox[s]["TEST_FIN"] # <<>>
      BY <3>1, <2>1, Taken
    <3> QED BY <1>3, <3>2, <3>3 DEF GotFin
  <2>2. CASE rank[s] + 1 # Fin(s)
    <3>1. rank[s] + 1 >= Fin(s) /\ rank[s] \in Int /\ Fin(s) \in Int
      BY <1>2, <1>3, Taken, RankTypes DEF Fin
    <3> QED BY <3>1, <2>2, <1>3 DEF GotFin
  <2> QED BY <2>1, <2>2
<1>4. CASE u = Peer(s)
  BY <1>2, <1>4, Taken DEF GotFin
<1> QED BY <1>3, <1>4, TwoSides

(* Who takes TEST_FIN had already got it.                                  *)
LEMMA TakeKeepsGenerated ==
  ASSUME Types, NEW rank \in [Sides -> Ranks], InvAt(rank), NEW s \in Sides, NEW to,
         TakeStep(s, to)
  PROVE  Generated(Bumped(rank, s))'
<1> DEFINE r == Bumped(rank, s)
<1>i. Generated(rank)
  BY DEF InvAt
<1>b. /\ UNCHANGED <<chan, tx>> /\ config'["client"] = config["client"]
      /\ \A u \in Sides : Connected(u)' = Connected(u)
      /\ \A u \in Sides : \A i \in 1..Len(chan[u]) : IsData(chan[u][i])
      /\ r[s] = rank[s] + 1 /\ r[Peer(s)] = rank[Peer(s)] /\ pc'[Peer(s)] = pc[Peer(s)]
      /\ pc'[s] = to /\ (to \in {"sendFin1", "sendFin2"} => r[s] # Fin(Peer(s)) - 1)
  BY Taken
<1>a. \A u \in Sides : AllSent(u)' <=> AllSent(u)
  BY <1>b DEF AllSent
<1>g. \A u \in Sides : GotFin(r, u)' => GotFin(rank, u)
  BY TakeIsNotGot
<1>r. rank[s] \in Int /\ \A u \in Sides : Fin(u) \in Int
  BY RankTypes DEF Fin
<1>1. \A u \in Sides : Peer(u) \in Sides /\ (Peer(u) = s \/ (Peer(u) = Peer(s) /\ u = s))
                       /\ (Peer(u) = s => u = Peer(s))
  BY TwoSides
<1> HIDE DEF r
<1> SUFFICES ASSUME NEW u \in Sides
             PROVE  /\ config'["client"].numPackets > 0
                         => tx'[Peer(u)] <= config'["client"].numPackets
                    /\ r[Peer(u)] < Fin(u) - 1 => tx'[Peer(u)] = 0
                    /\ r[Peer(u)] = Fin(u) - 1 /\ pc'[Peer(u)] \in {"sendFin1", "sendFin2"}
                         /\ Connected(Peer(u))' => AllSent(Peer(u))'
                    /\ \A i \in 1..Len(chan'[u]) :
                         ~ IsData(chan'[u][i]) /\ r[Peer(u)] = Fin(u) => AllSent(Peer(u))'
                    /\ GotFin(r, u)' => AllSent(Peer(u))'
  BY DEF Generated, r
<1>2. config'["client"].numPackets > 0 => tx'[Peer(u)] <= config'["client"].numPackets
  BY <1>b, <1>i DEF Generated
<1>3. r[Peer(u)] < Fin(u) - 1 => tx'[Peer(u)] = 0
  BY <1>b, <1>i, <1>1, <1>r DEF Generated
<1>4. r[Peer(u)] = Fin(u) - 1 /\ pc'[Peer(u)] \in {"sendFin1", "sendFin2"} /\ Connected(Peer(u))'
        => AllSent(Peer(u))'
  <2>1. CASE Peer(u) = s
    BY <2>1, <1>1, <1>b
  <2>2. CASE Peer(u) = Peer(s)
    BY <2>2, <1>1, <1>a, <1>b, <1>i DEF Generated
  <2> QED BY <2>1, <2>2, <1>1
<1>5. GotFin(r, u)' => AllSent(Peer(u))'
  BY <1>g, <1>a, <1>i, <1>1 DEF Generated
<1> QED BY <1>2, <1>3, <1>4, <1>5, <1>b

(* The packet counts are those of before.                                  *)
LEMMA TakeKeepsCounting ==
  ASSUME Types, NEW rank \in [Sides -> Ranks], InvAt(rank), Counted(rank), NEW s \in Sides,
         NEW to, TakeStep(s, to), NEW u \in Sides
  PROVE  Counting(Bumped(rank, s), u)'
<1> DEFINE r == Bumped(rank, s)
           p == Peer(s)
<1>i. Counting(rank, u) /\ Generated(rank)
  BY DEF Counted, InvAt
<1>b. /\ UNCHANGED <<chan, tx, rx>>
      /\ \A v \in Sides : Connected(v)' = Connected(v)
      /\ \A v \in Sides : \A i \in 1..Len(chan[v]) : IsData(chan[v][i])
      /\ r[s] = rank[s] + 1 /\ r[p] = rank[p] /\ rank[p] = rank[s] + 1
      /\ pc'[p] = pc[p] /\ pc'[s] = to /\ to \notin {"ackSent", "readySent"}
  BY Taken
<1>g. GotFin(r, u)' => GotFin(rank, u)
  BY TakeIsNotGot
<1>r. rank[s] \in Int /\ Fin(u) \in Int /\ Fin(u) >= 3 /\ Len(chan[u]) \in Nat /\ u \in Sides
  <2>1. chan[u] \in Seq(Packet)
    BY DEF Types
  <2> QED BY <2>1, RankTypes DEF Fin
<1>1. CASE u = s
  <2>1. Peer(u) = p
    BY <1>1
  <2>2. r[p] < Fin(u) - 1 \/ pc'[u] \in {"ackSent", "readySent"} => rx'[u].expected = 0
    BY <1>1, <1>b, <1>i DEF Counting
  <2>3. r[p] = Fin(u) - 1 /\ Connected(p)' => rx'[u].expected + Len(chan'[u]) = tx'[p]
    BY <1>1, <1>b, <1>i, TwoSides DEF Counting
  <2>4. \A i \in 1..Len(chan[u]) : IsData(chan[u][i]) =>
          /\ chan[u][i].body = rx[u].expected + i - 1
          /\ r[p] >= Fin(u) - 1 /\ ~ GotFin(r, u)'
    BY <1>1, <1>b, <1>i, <1>g DEF Counting
  <2>5. /\ rx'[u].stats = [packets |-> rx'[u].expected, sequenceErrors |-> 0]
        /\ GotFin(r, u)' => rx'[u].expected = tx'[p]
    BY <1>1, <1>i, <1>b, <1>g DEF Counting
  <2> HIDE DEF r, p
  <2> QED BY <2>1, <2>2, <2>3, <2>4, <2>5, <1>b, <1>r DEF Counting, r
<1>2. CASE u = p
  <2>1. Peer(u) = s /\ s \in Sides
    BY <1>2, TwoSides
  <2>2. r[s] < Fin(u) - 1 \/ pc'[u] \in {"ackSent", "readySent"} => rx'[u].expected = 0
    BY <1>2, <1>b, <1>i, <1>r, <2>1 DEF Counting
  <2>3. r[s] = Fin(u) - 1 => rx'[u].expected + Len(chan'[u]) = tx'[s]
    <3> SUFFICES ASSUME r[s] = Fin(u) - 1
                 PROVE  rx[u].expected + Len(chan[u]) = tx[s]
      BY <1>b
    <3>1. rank[s] < Fin(u) - 1
      BY <1>b, <1>r
    <3>2. rx[u].expected = 0 /\ tx[s] = 0
      BY <3>1, <1>i, <2>1 DEF Counting, Generated
    <3>3. \A i \in 1..Len(chan[u]) : FALSE
      BY <3>1, <1>b, <1>i, <1>r, <2>1 DEF Counting
    <3>4. Len(chan[u]) = 0
      <4>1. chan[u] \in Seq(Packet)
        BY DEF Types
      <4> QED BY <3>3, <4>1, NoElements
    <3> QED BY <3>2, <3>4
  <2>4. ASSUME NEW i \in 1..Len(chan[u]), IsData(chan[u][i])
        PROVE  /\ chan[u][i].body = rx[u].expected + i - 1
               /\ r[s] >= Fin(u) - 1 /\ ~ GotFin(r, u)'
    <3>1. chan[u][i].body = rx[u].expected + i - 1 /\ rank[s] >= Fin(u) - 1 /\ ~ GotFin(rank, u)
      BY <2>4, <1>i, <2>1 DEF Counting
    <3> QED BY <3>1, <1>g, <1>b, <1>r
  <2>5. /\ rx'[u].stats = [packets |-> rx'[u].expected, sequenceErrors |-> 0]
        /\ GotFin(r, u)' => rx'[u].expected = tx'[s]
    BY <1>i, <1>b, <1>g, <2>1 DEF Counting
  <2> HIDE DEF r, p
  <2> QED BY <2>1, <2>2, <2>3, <2>4, <2>5, <1>b, <1>r DEF Counting, r
<1> QED BY <1>1, <1>2, TwoSides

-----------------------------------------------------------------------------
(* A session goes on, or fails, and nothing is sent or taken.              *)

StayStep(rank, s, to) ==
  /\ pc' = [pc EXCEPT ![s] = to]
  /\ to = "failed" \/ RankOf(s, to) = rank[s]
  /\ to \notin {"ackSent", "readySent"}
  /\ to \in {"sendFin1", "sendFin2"} /\ rank[s] = Fin(Peer(s)) - 1 /\ Connected(s) => AllSent(s)
  /\ UNCHANGED <<config, tx, results, inbox, chan, closed>>
  /\ SingleNetworkThread => UNCHANGED rx
  /\ link' = link \/ (rank[s] = 0 /\ rank[Peer(s)] = 0)

(* Such a step keeps the invariant at the same ranks.                      *)
LEMMA StayKeeps ==
  ASSUME Types, NEW rank \in [Sides -> Ranks], InvAt(rank), NEW s \in Sides, NEW to,
         StayStep(rank, s, to)
  PROVE  InvAt(rank)'
<1> DEFINE p == Peer(s)
<1>b. /\ UNCHANGED <<config, tx, results, inbox, chan>>
      /\ pc'[s] = to /\ pc'[p] = pc[p]
      /\ to \notin {"ackSent", "readySent"} /\ (to = "failed" \/ RankOf(s, to) = rank[s])
  BY TwoSides DEF StayStep, Types
<1>f. \A u \in Sides : Fin(u) \in {3, 8}
  BY DEF Fin
<1>c. ASSUME NEW u \in Sides, rank[Peer(u)] = Fin(u) - 1
      PROVE  Connected(Peer(u))' = Connected(Peer(u))
  <2>1. link' = link
    BY <1>c, <1>f, TwoSides DEF StayStep
  <2> QED BY <2>1 DEF Connected, StayStep
<1>g. /\ \A u \in Sides : GotFin(rank, u)' <=> GotFin(rank, u)
      /\ \A u \in Sides : AllSent(u)' <=> AllSent(u)
      /\ \A k \in 1..11 : Numbered(k)' = Numbered(k)
  BY <1>b DEF GotFin, AllSent, Numbered, BodyOf, SentStats
<1>1. Lockstep(rank)'
  <2>1. ASSUME NEW u \in Sides, pc'[u] # "failed"
        PROVE  rank[u] = RankOf(u, pc'[u])
    <3>1. CASE u = s
      BY <2>1, <3>1, <1>b
    <3>2. CASE u = p
      BY <2>1, <3>2, <1>b DEF InvAt, Lockstep
    <3> QED BY <3>1, <3>2, TwoSides
  <2> QED BY <2>1 DEF InvAt, Lockstep
<1>2. Inboxes(rank)'
  <2>1. \A u \in Sides : Coming(rank, u) => rank[Peer(u)] \in 1..11
    BY RankTypes DEF Coming, Ranks
  <2> QED BY <2>1, <1>b, <1>g DEF InvAt, Inboxes
<1>3. Channels(rank)'
  <2>1. \A u \in Sides : Coming(rank, u) => rank[Peer(u)] \in 1..11
    BY RankTypes DEF Coming, Ranks
  <2> QED BY <2>1, <1>b, <1>g DEF InvAt, Channels
<1>4. Learned(rank)'
  BY <1>b DEF InvAt, Learned, SentStats
<1>5. Generated(rank)'
  <2>1. ASSUME NEW u \in Sides, rank[Peer(u)] = Fin(u) - 1, Connected(Peer(u))',
               pc'[Peer(u)] \in {"sendFin1", "sendFin2"}
        PROVE  AllSent(Peer(u))'
    <3>1. CASE Peer(u) = s
      <4>1. u = p /\ Connected(s)
        BY <3>1, <2>1, <1>c, TwoSides
      <4> QED BY <4>1, <3>1, <2>1, <1>b, <1>g DEF StayStep
    <3>2. CASE Peer(u) = p
      <4>1. pc[Peer(u)] \in {"sendFin1", "sendFin2"} /\ Connected(Peer(u)) /\ Peer(u) \in Sides
        BY <3>2, <2>1, <1>b, <1>c, TwoSides
      <4> QED BY <4>1, <2>1, <1>g DEF InvAt, Generated
    <3> QED BY <3>1, <3>2, TwoSides
  <2>2. \A u \in Sides : Peer(u) \in Sides
    BY TwoSides
  <2> QED BY <2>1, <2>2, <1>b, <1>g DEF InvAt, Generated
<1>6. ASSUME SingleNetworkThread
      PROVE  Counted(rank)'
  <2>1. rx' = rx /\ Counted(rank)
    BY <1>6 DEF StayStep, InvAt
  <2>2. ASSUME NEW u \in Sides
        PROVE  Counting(rank, u)'
    <3>1. pc'[u] \in {"ackSent", "readySent"} => pc[u] \in {"ackSent", "readySent"}
      BY <1>b, TwoSides
    <3>2. rank[Peer(u)] = Fin(u) - 1 /\ Connected(Peer(u))' => Connected(Peer(u))
      BY <1>c
    <3> QED BY <2>1, <3>1, <3>2, <1>b, <1>g DEF Counted, Counting
  <2> QED BY <2>1, <2>2, <1>b DEF Counted, SentStats
<1> QED BY <1>1, <1>2, <1>3, <1>4, <1>5, <1>6 DEF InvAt

-----------------------------------------------------------------------------
(* A generator sends a packet.  Nothing else is under way then.            *)
LEMMA GenerateKeeps ==
  ASSUME Types, NEW rank \in [Sides -> Ranks], InvAt(rank), NEW s \in Sides, GeneratePacket(s)
  PROVE  InvAt(rank)'
<1> DEFINE p == Peer(s)
           m == Data(Phase(s), tx[s])
<1>t. /\ p \in Sides /\ Peer(p) = s /\ tx[s] \in Nat /\ tx[p] \in Nat
      /\ chan[p] \in Seq(Packet) /\ Len(chan[p]) \in Nat
  <2>1. p \in Sides /\ Peer(p) = s /\ chan[p] \in Seq(Packet) /\ tx \in [Sides -> 0..MaxPackets]
    BY TwoSides DEF Types, TypeOK
  <2> QED BY <2>1
<1>n. config["client"].numPackets \in Nat /\ rx[p].expected \in Nat
  BY <1>t, TwoSides DEF Types, TypeOK, Configs
<1>b. /\ UNCHANGED <<pc, config, rx, results, inbox, link, closed>>
      /\ pc[s] = "generate" /\ Transmit(s, m) /\ ShouldContinueSending(s)
      /\ tx' = [tx EXCEPT ![s] = @ + 1]
  BY DEF GeneratePacket, network
<1>c. tx'[s] = tx[s] + 1 /\ tx'[p] = tx[p]
  BY <1>b, <1>t, TwoSides DEF Types, TypeOK
<1>m. m \in Packet /\ IsData(m) /\ m.body = tx[s]
  BY <1>t DEF Packet, DataPacket, Data, Phase, IsData
<1> HIDE DEF m
<1>r. /\ rank[s] = Fin(p) - 1 /\ rank[p] = rank[s] /\ Fin(p) \in {3, 8}
      /\ s = "client" => rank["client"] = 2 /\ rank["server"] = 2
      /\ s = "server" => rank["client"] = 7 /\ rank["server"] = 7
  <2>1. rank[s] = RankOf(s, "generate")
    BY <1>b DEF InvAt, Lockstep
  <2>2. CASE s = "client"
    <3>1. rank["client"] = 2 /\ rank["server"] \in Int
      BY <2>1, <2>2, RankTypes, TwoSides DEF RankOf, ClientRank
    <3>2. rank["server"] = 2
      BY <3>1 DEF InvAt, Lockstep
    <3> QED BY <2>2, <3>1, <3>2, TwoSides DEF Fin
  <2>3. CASE s = "server"
    <3>1. rank["server"] = 7 /\ rank["client"] \in Int
      BY <2>1, <2>3, RankTypes, TwoSides DEF RankOf, ServerRank
    <3>2. rank["client"] = 7
      BY <3>1 DEF InvAt, Lockstep
    <3> QED BY <2>3, <3>1, <3>2, TwoSides DEF Fin
  <2> QED BY <2>2, <2>3, TwoSides
<1>e. ASSUME NEW u \in Sides
      PROVE  /\ \A t \in ControlTypes : inbox[u][t] = <<>>
             /\ \A i \in 1..Len(chan[u]) : IsData(chan[u][i])
  <2>1. rank[s] \in Int
    BY RankTypes
  <2>2. ~ Coming(rank, u)
    BY <2>1, <1>r, TwoSides DEF Coming
  <2> QED BY <2>2, NothingComing DEF InvAt
<1>g. \A u \in Sides : GotFin(rank, u)' <=> GotFin(rank, u)
  BY <1>b DEF GotFin
<1>k. /\ ~ GotFin(rank, p) /\ Connected(s)' = Connected(s) /\ Connected(p)' = Connected(p)
  <2>1. Connected(s)' = Connected(s) /\ Connected(p)' = Connected(p)
    BY <1>b DEF Connected
  <2>2. ~ GotFin(rank, p)
    BY <1>r, <1>t DEF GotFin
  <2> QED BY <2>1, <2>2
<1>a. /\ chan'[s] = chan[s]
      /\ \A i \in 1..Len(chan'[p]) :
           \/ i \in 1..Len(chan[p]) /\ chan'[p][i] = chan[p][i]
           \/ i = Len(chan[p]) + 1 /\ chan'[p][i] = m /\ Connected(s)
      /\ Connected(s) => Len(chan'[p]) = Len(chan[p]) + 1
  <2>1. CASE Connected(s)
    <3>1. chan'[s] = chan[s] /\ chan'[p] = Append(chan[p], m)
      BY <2>1, <1>b, TwoSides DEF Transmit, Types
    <3> QED BY <3>1, <2>1, <1>t, <1>m, AppendElements
  <2>2. CASE ~ Connected(s)
    <3>1. chan' = chan
      BY <2>2, <1>b DEF Transmit
    <3> QED BY <3>1, <2>2
  <2> QED BY <2>1, <2>2
<1>d. \A u \in Sides : \A i \in 1..Len(chan'[u]) : IsData(chan'[u][i])
  <2>1. \A i \in 1..Len(chan'[p]) : IsData(chan'[p][i])
    BY <1>a, <1>e, <1>m, <1>t
  <2>2. \A i \in 1..Len(chan'[s]) : IsData(chan'[s][i])
    BY <1>a, <1>e
  <2> QED BY <2>1, <2>2, TwoSides
<1>1. Lockstep(rank)'
  BY <1>b DEF InvAt, Lockstep
<1>2. Inboxes(rank)'
  BY <1>b, <1>e DEF Inboxes
<1>3. Channels(rank)'
  BY <1>d DEF Channels
<1>4. Learned(rank)'
  <2>1. CASE s = "client"
    BY <2>1, <1>b, <1>r DEF InvAt, Learned
  <2>2. CASE s = "server"
    <3>1. tx'["client"] = tx["client"]
      BY <2>2, <1>c, TwoSides
    <3> QED BY <2>2, <3>1, <1>b, <1>r DEF InvAt, Learned, SentStats
  <2> QED BY <2>1, <2>2, TwoSides
<1>5. Generated(rank)'
  <2>1. config["client"].numPackets > 0 => tx'[s] <= config["client"].numPackets
    <3>1. config[s].numPackets = config["client"].numPackets
      <4>1. CASE s = "client"
        BY <4>1
      <4>2. CASE s = "server"
        BY <4>2, <1>r DEF InvAt, Learned
      <4> QED BY <4>1, <4>2, TwoSides
    <3> QED BY <3>1, <1>b, <1>c, <1>t, <1>n DEF ShouldContinueSending
  <2>2. AllSent(p)' <=> AllSent(p)
    BY <1>b, <1>c DEF AllSent
  <2>3. ASSUME NEW u \in Sides
        PROVE  /\ config'["client"].numPackets > 0
                    => tx'[Peer(u)] <= config'["client"].numPackets
               /\ rank[Peer(u)] < Fin(u) - 1 => tx'[Peer(u)] = 0
               /\ rank[Peer(u)] = Fin(u) - 1 /\ pc'[Peer(u)] \in {"sendFin1", "sendFin2"}
                    /\ Connected(Peer(u))' => AllSent(Peer(u))'
               /\ GotFin(rank, u)' => AllSent(Peer(u))'
    <3>1. CASE u = p
      <4>1. Peer(u) = s /\ rank[s] = Fin(u) - 1 /\ ~ (rank[s] < Fin(u) - 1)
        BY <3>1, <1>r, <1>t
      <4> QED BY <3>1, <4>1, <2>1, <1>b, <1>g, <1>k
    <3>2. CASE u = s
      <4>1. Peer(u) = p
        BY <3>2
      <4> QED BY <3>2, <4>1, <2>2, <1>b, <1>c, <1>g, <1>k DEF InvAt, Generated
    <3> QED BY <3>1, <3>2, TwoSides
  <2> QED BY <2>3, <1>d DEF Generated
<1>6. ASSUME SingleNetworkThread
      PROVE  Counted(rank)'
  <2>i. Counted(rank)
    BY <1>6 DEF InvAt
  <2>1. Counting(rank, s)'
    <3>1. Counting(rank, s)
      BY <2>i DEF Counted
    <3> QED BY <3>1, <1>a, <1>b, <1>c, <1>g, <1>k DEF Counting
  <2>2. Counting(rank, p)'
    <3>i. Counting(rank, p)
      BY <2>i, <1>t DEF Counted
    <3>1. Connected(s) => rx[p].expected + Len(chan[p]) = tx[s]
      BY <3>i, <1>r, <1>t DEF Counting
    <3>2. Connected(s)' => rx'[p].expected + Len(chan'[p]) = tx'[s]
      <4> SUFFICES ASSUME Connected(s)'
                   PROVE  rx'[p].expected + Len(chan'[p]) = tx'[s]
        OBVIOUS
      <4>1. rx'[p].expected = rx[p].expected
        BY <1>b
      <4>2. Connected(s) /\ Len(chan'[p]) = Len(chan[p]) + 1
        BY <1>a, <1>k
      <4>3. rx[p].expected + (Len(chan[p]) + 1) = tx[s] + 1
        BY <3>1, <4>2, <1>t, <1>n
      <4> QED BY <4>1, <4>2, <4>3, <1>c
    <3>3. ASSUME NEW i \in 1..Len(chan'[p])
          PROVE  /\ chan'[p][i].body = rx'[p].expected + i - 1
                 /\ rank[s] >= Fin(p) - 1 /\ ~ GotFin(rank, p)'
      <4>1. CASE i \in 1..Len(chan[p]) /\ chan'[p][i] = chan[p][i]
        <5>1. IsData(chan[p][i])
          BY <4>1, <1>e, <1>t
        <5>2. chan[p][i].body = rx[p].expected + i - 1
          BY <5>1, <4>1, <3>i DEF Counting
        <5> QED BY <5>2, <4>1, <1>b, <1>r, <1>k, <1>g, <1>t
      <4>2. CASE i = Len(chan[p]) + 1 /\ chan'[p][i] = m /\ Connected(s)
        <5>1. chan'[p][i].body = rx'[p].expected + i - 1
          BY <4>2, <3>1, <1>m, <1>b, <1>t, <1>n
        <5> QED BY <5>1, <1>r, <1>k, <1>g, <1>t
      <4> QED BY <4>1, <4>2, <1>a
    <3>4. /\ rx'[p].stats = [packets |-> rx'[p].expected, sequenceErrors |-> 0]
          /\ rank[s] < Fin(p) - 1 \/ pc'[p] \in {"ackSent", "readySent"} => rx'[p].expected = 0
          /\ GotFin(rank, p)' => rx'[p].expected = tx'[s]
      BY <3>i, <1>b, <1>g, <1>k, <1>r, <1>t DEF Counting
    <3>5. \A i \in 1..Len(chan'[p]) : IsData(chan'[p][i])
      BY <1>d, <1>t
    <3> HIDE DEF p
    <3> QED BY <3>2, <3>3, <3>4, <3>5, <1>t DEF Counting
  <2>3. /\ rank["server"] >= 5 => results'["server"].s1 = SentStats("client")'
        /\ rank["client"] >= 8 => results'["client"].c2 = SentStats("server")'
    <3>1. CASE s = "client"
      BY <3>1, <1>r
    <3>2. CASE s = "server"
      <4>1. tx'["client"] = tx["client"]
        BY <3>2, <1>c, TwoSides
      <4> QED BY <3>2, <4>1, <2>i, <1>b, <1>r DEF Counted, SentStats
    <3> QED BY <3>1, <3>2, TwoSides
  <2> QED BY <2>1, <2>2, <2>3, TwoSides DEF Counted
<1> QED BY <1>1, <1>2, <1>3, <1>4, <1>5, <1>6 DEF InvAt

-----------------------------------------------------------------------------
(* The receive loop dispatches a packet: data is the next one expected ... *)
LEMMA DispatchDataKeeps ==
  ASSUME Types, NEW rank \in [Sides -> Ranks], InvAt(rank), NEW s \in Sides,
         Receive(s), DispatchData(s)
  PROVE  InvAt(rank)'
<1> DEFINE p == Peer(s)
<1>b. /\ UNCHANGED <<pc, config, tx, results, inbox, link, closed>>
      /\ chan[s] # <<>> /\ chan' = [chan EXCEPT ![s] = Tail(@)] /\ NetworkThreadFree(s)
      /\ Head(chan[s]).type = "DATA_PACKET"
      /\ rx' = [rx EXCEPT ![s] = CountPacket(@, Head(chan[s]).body)]
  BY DEF Receive, DispatchData, network
<1>t. /\ p \in Sides /\ Peer(p) = s /\ chan[s] \in Seq(Packet) /\ Len(chan[s]) \in Nat
      /\ chan'[s] = Tail(chan[s]) /\ chan'[p] = chan[p] /\ rx'[p] = rx[p]
      /\ rx'[s] = CountPacket(rx[s], Head(chan[s]).body)
  <2>1. /\ p \in Sides /\ Peer(p) = s /\ chan[s] \in Seq(Packet)
        /\ chan'[s] = Tail(chan[s]) /\ chan'[p] = chan[p] /\ rx'[p] = rx[p]
        /\ rx'[s] = CountPacket(rx[s], Head(chan[s]).body)
    BY <1>b, TwoSides DEF Types, TypeOK
  <2> QED BY <2>1
<1>n. rx[s].expected \in Nat /\ tx[p] \in Nat
  BY <1>t DEF Types, TypeOK
<1>l. /\ Len(chan'[s]) = Len(chan[s]) - 1 /\ Len(chan'[s]) \in Nat
      /\ 1 \in 1..Len(chan[s]) /\ Head(chan[s]) = chan[s][1]
      /\ \A i \in 1..Len(chan'[s]) :
           i \in Int /\ i + 1 \in 1..Len(chan[s]) /\ chan'[s][i] = chan[s][i + 1]
  <2>1. chan[s] # <<>>
    BY <1>b
  <2> QED BY <2>1, <1>t, TailElements
<1>g. /\ \A u \in Sides : GotFin(rank, u)' <=> GotFin(rank, u)
      /\ \A u \in Sides : AllSent(u)' <=> AllSent(u)
      /\ \A u \in Sides : Connected(u)' = Connected(u)
      /\ \A k \in 1..11 : Numbered(k)' = Numbered(k)
  BY <1>b DEF GotFin, AllSent, Connected, Numbered, BodyOf, SentStats
<1>c. \A u \in Sides : Coming(rank, u) => rank[Peer(u)] \in 1..11
  BY RankTypes DEF Coming, Ranks
<1>d. IsData(chan[s][1])
  BY <1>b, <1>l DEF IsData
<1>1. Lockstep(rank)' /\ Learned(rank)'
  BY <1>b DEF InvAt, Lockstep, Learned, SentStats
<1>2. Inboxes(rank)'
  BY <1>b, <1>c, <1>g DEF InvAt, Inboxes
<1>3. Channels(rank)'
  <2>1. ASSUME NEW u \in Sides, NEW i \in 1..Len(chan'[u]), ~ IsData(chan'[u][i])
        PROVE  /\ i = Len(chan'[u]) /\ Coming(rank, u)
               /\ chan'[u][i] = Numbered(rank[Peer(u)])'
               /\ inbox'[u][TypeOf(rank[Peer(u)])] = <<>>
    <3>1. CASE u = s
      <4>1. i \in Int /\ i + 1 \in 1..Len(chan[s]) /\ chan'[s][i] = chan[s][i + 1]
        BY <2>1, <3>1, <1>l
      <4>2. /\ i + 1 = Len(chan[s]) /\ Coming(rank, s)
            /\ chan[s][i + 1] = Numbered(rank[Peer(s)])
            /\ inbox[s][TypeOf(rank[Peer(s)])] = <<>>
        BY <2>1, <3>1, <4>1 DEF InvAt, Channels
      <4>3. i = Len(chan'[s])
        BY <4>1, <4>2, <1>l, <1>t
      <4>4. Numbered(rank[Peer(s)])' = Numbered(rank[Peer(s)])
        BY <4>2, <1>c, <1>g
      <4> QED BY <4>1, <4>2, <4>3, <4>4, <3>1, <1>b
    <3>2. CASE u = p
      <4>1. i \in 1..Len(chan[u]) /\ chan'[u][i] = chan[u][i]
        BY <2>1, <3>2, <1>t
      <4>2. /\ i = Len(chan[u]) /\ Coming(rank, u)
            /\ chan[u][i] = Numbered(rank[Peer(u)])
            /\ inbox[u][TypeOf(rank[Peer(u)])] = <<>>
        BY <2>1, <4>1 DEF InvAt, Channels
      <4> QED BY <4>1, <4>2, <3>2, <1>b, <1>c, <1>g, <1>t
    <3> QED BY <3>1, <3>2, TwoSides
  <2> QED BY <2>1 DEF Channels
<1>4. Generated(rank)'
  <2>1. ASSUME NEW u \in Sides, NEW i \in 1..Len(chan'[u]), ~ IsData(chan'[u][i]),
               rank[Peer(u)] = Fin(u)
        PROVE  AllSent(Peer(u))'
    <3>1. \E j \in 1..Len(chan[u]) : ~ IsData(chan[u][j])
      <4>1. CASE u = s
        BY <4>1, <2>1, <1>l
      <4>2. CASE u = p
        BY <4>2, <2>1, <1>t
      <4> QED BY <4>1, <4>2, TwoSides
    <3>2. AllSent(Peer(u))
      BY <3>1, <2>1 DEF InvAt, Generated
    <3> QED BY <3>2, <1>g, TwoSides
  <2>2. \A u \in Sides : Peer(u) \in Sides
    BY TwoSides
  <2> QED BY <2>1, <2>2, <1>b, <1>g DEF InvAt, Generated
<1>5. ASSUME SingleNetworkThread
      PROVE  Counted(rank)'
  <2>i. Counted(rank)
    BY <1>5 DEF InvAt
  <2>1. Counting(rank, p)'
    <3>1. Counting(rank, p)
      BY <2>i, <1>t DEF Counted
    <3> QED BY <3>1, <1>b, <1>g, <1>t DEF Counting
  <2>2. Counting(rank, s)'
    <3>i. Counting(rank, s)
      BY <2>i DEF Counted
    <3>1. /\ chan[s][1].body = rx[s].expected + 1 - 1
          /\ rank[p] >= Fin(s) - 1 /\ ~ GotFin(rank, s)
      BY <3>i, <1>d, <1>l DEF Counting
    <3>2. chan[s][1].body = rx[s].expected
      BY <3>1, <1>n
    <3>3. /\ rx'[s].stats.packets = rx[s].stats.packets + 1
          /\ rx'[s].stats.sequenceErrors = rx[s].stats.sequenceErrors + 0
          /\ rx'[s].expected = rx[s].expected + 1
          /\ rx'[s].stats = [packets |-> rx[s].stats.packets + 1,
                             sequenceErrors |-> rx[s].stats.sequenceErrors + 0]
      BY <3>2, <1>t, <1>l DEF CountPacket
    <3>4. rx'[s].stats = [packets |-> rx'[s].expected, sequenceErrors |-> 0]
      <4>1. rx[s].stats.packets = rx[s].expected /\ rx[s].stats.sequenceErrors = 0
        BY <3>i DEF Counting
      <4>2. rx[s].stats.packets + 1 = rx'[s].expected /\ rx[s].stats.sequenceErrors + 0 = 0
        BY <4>1, <3>3
      <4> QED BY <4>2, <3>3
    <3>5. ~ (rank[p] < Fin(s) - 1) /\ pc'[s] \notin {"ackSent", "readySent"}
      <4>1. rank[p] \in Int /\ Fin(s) \in Int
        BY RankTypes DEF Fin
      <4>2. pc[s] \notin {"ackSent", "readySent"}
        BY <1>5, <1>b DEF NetworkThreadFree
      <4> QED BY <4>1, <4>2, <3>1, <1>b
    <3>6. rank[p] = Fin(s) - 1 /\ Connected(p)' => rx'[s].expected + Len(chan'[s]) = tx'[p]
      <4>1. rank[p] = Fin(s) - 1 /\ Connected(p) => rx[s].expected + Len(chan[s]) = tx[p]
        BY <3>i DEF Counting
      <4> SUFFICES ASSUME rank[p] = Fin(s) - 1, Connected(p)'
                   PROVE  rx'[s].expected + Len(chan'[s]) = tx'[p]
        OBVIOUS
      <4>2. rx[s].expected + Len(chan[s]) = tx[p] /\ tx'[p] = tx[p]
        BY <4>1, <1>b, <1>g, <1>t
      <4>3. (rx[s].expected + 1) + (Len(chan[s]) - 1) = tx[p]
        <5>1. rx[s].expected \in Int /\ Len(chan[s]) \in Int
          BY <1>n, <1>t
        <5>2. \A a, b \in Int : (a + 1) + (b - 1) = a + b
          OBVIOUS
        <5> QED BY <5>1, <5>2, <4>2
      <4> QED BY <4>2, <4>3, <3>3, <1>l
    <3>7. ASSUME NEW i \in 1..Len(chan'[s]), IsData(chan'[s][i])
          PROVE  /\ chan'[s][i].body = rx'[s].expected + i - 1
                 /\ rank[p] >= Fin(s) - 1 /\ ~ GotFin(rank, s)'
      <4>1. i \in Int /\ i + 1 \in 1..Len(chan[s]) /\ chan'[s][i] = chan[s][i + 1]
        BY <1>l
      <4>2. chan[s][i + 1].body = rx[s].expected + (i + 1) - 1
        BY <4>1, <3>7, <3>i DEF Counting
      <4>3. chan'[s][i].body = rx'[s].expected + i - 1
        BY <4>1, <4>2, <3>3, <1>n
      <4> QED BY <4>3, <3>1, <1>g
    <3>8. ASSUME NEW i \in 1..Len(chan'[s]), ~ IsData(chan'[s][i]), rank[p] = Fin(s)
          PROVE  rx'[s].expected + Len(chan'[s]) - 1 = tx'[p]
      <4>1. i + 1 \in 1..Len(chan[s]) /\ ~ IsData(chan[s][i + 1])
        BY <1>l, <3>8
      <4>2. rx[s].expected + Len(chan[s]) - 1 = tx[p]
        BY <4>1, <3>8, <3>i DEF Counting
      <4> QED BY <4>2, <3>3, <1>b, <1>l, <1>n, <1>t
    <3>9. ~ GotFin(rank, s)'
      BY <3>1, <1>g
    <3> HIDE DEF p
    <3> QED BY <3>4, <3>5, <3>6, <3>7, <3>8, <3>9 DEF Counting, p
  <2> QED BY <2>i, <2>1, <2>2, <1>b, TwoSides DEF Counted, SentStats
<1> QED BY <1>1, <1>2, <1>3, <1>4, <1>5 DEF InvAt

(* ... and a control message is the one under way, behind all data.        *)
LEMMA DispatchControlKeeps ==
  ASSUME Types, NEW rank \in [Sides -> Ranks], InvAt(rank), NEW s \in Sides,
         Receive(s), DispatchControl(s)
  PROVE  InvAt(rank)'
<1> DEFINE p == Peer(s)
           k == rank[p]
<1>b. /\ UNCHANGED <<pc, config, tx, rx, results, link, closed>>
      /\ chan[s] # <<>> /\ chan' = [chan EXCEPT ![s] = Tail(@)]
      /\ ~ IsData(Head(chan[s]))
      /\ inbox' = [inbox EXCEPT ![s][Head(chan[s]).type] = Append(@, Head(chan[s]))]
  BY DEF Receive, DispatchControl, network, IsData
<1>t. /\ p \in Sides /\ Peer(p) = s /\ chan[s] \in Seq(Packet) /\ Len(chan[s]) \in Nat
      /\ chan'[s] = Tail(chan[s]) /\ chan'[p] = chan[p] /\ inbox'[p] = inbox[p]
  <2>1. /\ p \in Sides /\ Peer(p) = s /\ chan[s] \in Seq(Packet)
        /\ chan'[s] = Tail(chan[s]) /\ chan'[p] = chan[p] /\ inbox'[p] = inbox[p]
    BY <1>b, TwoSides DEF Types
  <2> QED BY <2>1
<1>l. /\ Len(chan'[s]) = Len(chan[s]) - 1 /\ 1 \in 1..Len(chan[s]) /\ Head(chan[s]) = chan[s][1]
  BY <1>b, <1>t, TailElements
<1>h. /\ 1 = Len(chan[s]) /\ Coming(rank, s) /\ Head(chan[s]) = Numbered(k)
      /\ inbox[s][TypeOf(k)] = <<>>
  BY <1>b, <1>l DEF InvAt, Channels
<1>k. k \in 1..11 /\ k = rank[s] + 1 /\ rank[s] \in Int
  BY <1>h, RankTypes DEF Coming, Ranks
<1>m. Numbered(k).type = TypeOf(k) /\ TypeOf(k) \in ControlTypes
  BY <1>k, NumberedType
<1>e. Len(chan'[s]) = 0
  BY <1>h, <1>l
<1>x. /\ inbox'[s][TypeOf(k)] = <<Numbered(k)>>
      /\ \A t \in ControlTypes : t # TypeOf(k) => inbox'[s][t] = inbox[s][t]
  <2>1. inbox' = [inbox EXCEPT ![s][TypeOf(k)] = Append(@, Numbered(k))]
    BY <1>b, <1>h, <1>m
  <2>2. /\ inbox'[s][TypeOf(k)] = Append(inbox[s][TypeOf(k)], Numbered(k))
        /\ \A t \in ControlTypes : t # TypeOf(k) => inbox'[s][t] = inbox[s][t]
    BY <2>1, <1>m DEF Types
  <2>3. Append(<<>>, Numbered(k)) = <<Numbered(k)>>
    OBVIOUS
  <2> QED BY <2>2, <2>3, <1>h
<1>g. /\ \A u \in Sides : AllSent(u)' <=> AllSent(u)
      /\ \A u \in Sides : Connected(u)' = Connected(u)
      /\ \A n \in 1..11 : Numbered(n)' = Numbered(n)
      /\ GotFin(rank, p)' <=> GotFin(rank, p)
  <2>1. /\ \A u \in Sides : AllSent(u)' <=> AllSent(u)
        /\ \A u \in Sides : Connected(u)' = Connected(u)
        /\ \A n \in 1..11 : Numbered(n)' = Numbered(n)
    BY <1>b DEF AllSent, Connected, Numbered, BodyOf, SentStats
  <2>2. GotFin(rank, p)' <=> GotFin(rank, p)
    BY <1>t DEF GotFin
  <2> QED BY <2>1, <2>2
<1>f. /\ rank[s] >= Fin(s) => GotFin(rank, s)
      /\ GotFin(rank, s)' => rank[s] >= Fin(s) \/ k = Fin(s)
      /\ k # Fin(s) - 1
  <2>1. k # Fin(s) - 1
    BY <1>k, <1>h, TwoSides DEF InvAt, Lockstep, Coming, Fin
  <2> QED BY <2>1 DEF GotFin
<1>1. Lockstep(rank)' /\ Learned(rank)'
  BY <1>b DEF InvAt, Lockstep, Learned, SentStats
<1>2. Inboxes(rank)'
  <2>1. ASSUME NEW t \in ControlTypes
        PROVE  inbox'[s][t] = <<>> \/ (t = TypeOf(k) /\ inbox'[s][t] = <<Numbered(k)'>>)
    <3>1. CASE t = TypeOf(k)
      BY <3>1, <1>x, <1>k, <1>g
    <3>2. CASE t # TypeOf(k)
      BY <3>2, <1>x DEF InvAt, Inboxes
    <3> QED BY <3>1, <3>2
  <2>2. \A t \in ControlTypes : inbox'[p][t] = <<>>
    <3>1. ~ Coming(rank, p)
      BY <1>k, <1>t DEF Coming
    <3> QED BY <3>1, <1>t, NothingComing DEF InvAt
  <2>3. \A u \in Sides : u = s \/ u = p
    BY TwoSides
  <2> QED BY <2>1, <2>2, <2>3, <1>h DEF Inboxes
<1>3. \A u \in Sides : \A i \in 1..Len(chan'[u]) : IsData(chan'[u][i])
  <2>1. \A i \in 1..Len(chan'[p]) : IsData(chan'[p][i])
    <3>1. ~ Coming(rank, p)
      BY <1>k, <1>t DEF Coming
    <3> QED BY <3>1, <1>t, NothingComing DEF InvAt
  <2>2. \A i \in 1..Len(chan'[s]) : FALSE
    BY <1>e
  <2> QED BY <2>1, <2>2, TwoSides
<1>4. Channels(rank)'
  BY <1>3 DEF Channels
<1>5. Generated(rank)'
  <2>1. GotFin(rank, s)' => AllSent(p)
    <3>1. k = Fin(s) => AllSent(p)
      BY <1>b, <1>l DEF InvAt, Generated
    <3>2. GotFin(rank, s) => AllSent(p)
      BY DEF InvAt, Generated
    <3> QED BY <3>1, <3>2, <1>f
  <2>2. ASSUME NEW u \in Sides
        PROVE  GotFin(rank, u)' => AllSent(Peer(u))'
    <3>1. CASE u = s
      BY <3>1, <2>1, <1>g, <1>t
    <3>2. CASE u = p
      BY <3>2, <1>g, <1>t DEF InvAt, Generated
    <3> QED BY <3>1, <3>2, TwoSides
  <2>3. \A u \in Sides : Peer(u) \in Sides
    BY TwoSides
  <2> QED BY <2>2, <2>3, <1>3, <1>b, <1>g DEF InvAt, Generated
<1>6. ASSUME SingleNetworkThread
      PROVE  Counted(rank)'
  <2>i. Counted(rank)
    BY <1>6 DEF InvAt
  <2>1. Counting(rank, p)'
    <3>1. Counting(rank, p)
      BY <2>i, <1>t DEF Counted
    <3> QED BY <3>1, <1>b, <1>g, <1>t DEF Counting
  <2>2. Counting(rank, s)'
    <3>i. Counting(rank, s)
      BY <2>i DEF Counted
    <3>1. GotFin(rank, s)' => rx[s].expected = tx[p]
      <4>1. k = Fin(s) => rx[s].expected + 1 - 1 = tx[p]
        BY <3>i, <1>b, <1>h, <1>l DEF Counting
      <4>2. rx[s].expected \in Nat
        BY DEF Types, TypeOK
      <4>3. GotFin(rank, s) => rx[s].expected = tx[p]
        BY <3>i DEF Counting
      <4> QED BY <4>1, <4>2, <4>3, <1>f
    <3>2. \A i \in 1..Len(chan'[s]) : FALSE
      BY <1>e
    <3> QED BY <3>i, <3>1, <3>2, <1>b, <1>f DEF Counting
  <2> QED BY <2>i, <2>1, <2>2, <1>b, TwoSides DEF Counted, SentStats
<1> QED BY <1>1, <1>2, <1>4, <1>5, <1>6 DEF InvAt

-----------------------------------------------------------------------------
(* The connection.  What it loses are the last packets under way.          *)
LEMMA LossKeeps ==
  ASSUME Types, NEW rank \in [Sides -> Ranks], InvAt(rank),
         UNCHANGED <<pc, config, tx, rx, results, inbox>>,
         \A s \in Sides : /\ chan'[s] \in Seq(Packet) /\ Len(chan'[s]) <= Len(chan[s])
                          /\ \A i \in 1..Len(chan'[s]) : chan'[s][i] = chan[s][i],
         \A s \in Sides : Connected(Peer(s))' =>
                          Connected(Peer(s)) /\ Len(chan'[s]) = Len(chan[s])
  PROVE  InvAt(rank)'
<1>l. ASSUME NEW s \in Sides, NEW i \in 1..Len(chan'[s])
      PROVE  /\ i \in 1..Len(chan[s]) /\ chan'[s][i] = chan[s][i]
             /\ ~ IsData(chan[s][i]) => i = Len(chan[s]) /\ Len(chan'[s]) = Len(chan[s])
  <2>1. Len(chan[s]) \in Nat /\ Len(chan'[s]) \in Nat /\ Len(chan'[s]) <= Len(chan[s])
    <3>1. chan[s] \in Seq(Packet) /\ chan'[s] \in Seq(Packet)
      BY DEF Types
    <3> QED BY <3>1
  <2>2. i \in 1..Len(chan[s]) /\ chan'[s][i] = chan[s][i]
    BY <2>1
  <2>3. ~ IsData(chan[s][i]) => i = Len(chan[s])
    BY <2>2 DEF InvAt, Channels
  <2> QED BY <2>1, <2>2, <2>3
<1>g. /\ \A u \in Sides : GotFin(rank, u)' <=> GotFin(rank, u)
      /\ \A u \in Sides : AllSent(u)' <=> AllSent(u)
      /\ \A k \in 1..11 : Numbered(k)' = Numbered(k)
  BY DEF GotFin, AllSent, Numbered, BodyOf, SentStats
<1>c. \A u \in Sides : Peer(u) \in Sides /\ (Coming(rank, u) => rank[Peer(u)] \in 1..11)
  BY RankTypes, TwoSides, SMTT(30) DEF Coming, Ranks
<1>1. Lockstep(rank)' /\ Learned(rank)'
  BY DEF InvAt, Lockstep, Learned, SentStats
<1>2. Inboxes(rank)'
  <2>1. Inboxes(rank) /\ inbox' = inbox
    BY DEF InvAt
  <2>2. ASSUME NEW u \in Sides, Coming(rank, u)
        PROVE  Numbered(rank[Peer(u)])' = Numbered(rank[Peer(u)])
    BY <1>c, <1>g, <2>2
  <2> QED BY ONLY <2>1, <2>2 DEF Inboxes, Coming
<1>3. Channels(rank)'
  <2>1. ASSUME NEW u \in Sides, NEW i \in 1..Len(chan'[u]), ~ IsData(chan'[u][i])
        PROVE  /\ i = Len(chan'[u]) /\ Coming(rank, u)
               /\ chan'[u][i] = Numbered(rank[Peer(u)])'
               /\ inbox'[u][TypeOf(rank[Peer(u)])] = <<>>
    <3>1. /\ i \in 1..Len(chan[u]) /\ chan'[u][i] = chan[u][i] /\ ~ IsData(chan[u][i])
          /\ i = Len(chan'[u])
      BY <2>1, <1>l
    <3>2. /\ Coming(rank, u) /\ chan[u][i] = Numbered(rank[Peer(u)])
          /\ inbox[u][TypeOf(rank[Peer(u)])] = <<>>
      BY <3>1 DEF InvAt, Channels
    <3> QED BY <3>1, <3>2, <1>c, <1>g
  <2> QED BY <2>1 DEF Channels
<1>4. Generated(rank)'
  <2>1. ASSUME NEW u \in Sides, NEW i \in 1..Len(chan'[u]), ~ IsData(chan'[u][i]),
               rank[Peer(u)] = Fin(u)
        PROVE  AllSent(Peer(u))'
    <3>1. i \in 1..Len(chan[u]) /\ ~ IsData(chan[u][i])
      BY <2>1, <1>l
    <3> QED BY <3>1, <2>1, <1>c, <1>g DEF InvAt, Generated
  <2> QED BY <2>1, <1>c, <1>g DEF InvAt, Generated
<1>5. ASSUME SingleNetworkThread
      PROVE  Counted(rank)'
  <2>i. Counted(rank)
    BY <1>5 DEF InvAt
  <2>1. ASSUME NEW u \in Sides
        PROVE  Counting(rank, u)'
    <3>i. Counting(rank, u)
      BY <2>i DEF Counted
    <3>1. rank[Peer(u)] = Fin(u) - 1 /\ Connected(Peer(u))' =>
            rx'[u].expected + Len(chan'[u]) = tx'[Peer(u)]
      BY <3>i DEF Counting
    <3>2. \A i \in 1..Len(chan'[u]) : IsData(chan'[u][i]) =>
            /\ chan'[u][i].body = rx'[u].expected + i - 1
            /\ rank[Peer(u)] >= Fin(u) - 1 /\ ~ GotFin(rank, u)'
      BY <3>i, <1>l, <1>g DEF Counting
    <3>3. \A i \in 1..Len(chan'[u]) : ~ IsData(chan'[u][i]) /\ rank[Peer(u)] = Fin(u)
            => rx'[u].expected + Len(chan'[u]) - 1 = tx'[Peer(u)]
      BY <3>i, <1>l DEF Counting
    <3>4. /\ rx'[u].stats = [packets |-> rx'[u].expected, sequenceErrors |-> 0]
          /\ rank[Peer(u)] < Fin(u) - 1 \/ pc'[u] \in {"ackSent", "readySent"}
               => rx'[u].expected = 0
          /\ GotFin(rank, u)' => rx'[u].expected = tx'[Peer(u)]
      BY <3>i, <1>g DEF Counting
    <3> QED BY <3>1, <3>2, <3>3, <3>4 DEF Counting
  <2> QED BY <2>i, <2>1 DEF Counted, SentStats
<1> QED BY <1>1, <1>2, <1>3, <1>4, <1>5 DEF InvAt

(* A side closes its socket.                                               *)
LEMMA CloseKeeps ==
  ASSUME Types, NEW rank \in [Sides -> Ranks], InvAt(rank), NEW s \in Sides, Close(s)
  PROVE  InvAt(rank)'
<1>1. /\ UNCHANGED <<pc, config, tx, rx, results, inbox, link>> /\ closed' = closed \cup {s}
      /\ chan' = [chan EXCEPT ![s] = <<>>]
  BY DEF Close, local
<1>2. /\ chan'[s] = <<>> /\ \A u \in Sides : u # s => chan'[u] = chan[u]
      /\ \A u \in Sides : chan[u] \in Seq(Packet)
  BY <1>1 DEF Types
<1>3. ASSUME NEW u \in Sides
      PROVE  /\ chan'[u] \in Seq(Packet) /\ Len(chan'[u]) <= Len(chan[u])
             /\ \A i \in 1..Len(chan'[u]) : chan'[u][i] = chan[u][i]
  <2>1. CASE u = s
    <3>1. Len(chan[u]) \in Nat
      BY <1>2
    <3> QED BY <2>1, <3>1, <1>2
  <2>2. CASE u # s
    <3>1. chan'[u] = chan[u] /\ Len(chan[u]) \in Nat
      BY <2>2, <1>2
    <3> QED BY <3>1, <1>2
  <2> QED BY <2>1, <2>2
<1>4. ASSUME NEW u \in Sides, Connected(Peer(u))'
      PROVE  Connected(Peer(u)) /\ Len(chan'[u]) = Len(chan[u])
  <2>1. link = "up" /\ u \notin closed /\ u # s
    BY <1>1, <1>4, TwoSides DEF Connected
  <2> QED BY <2>1, <1>2, TwoSides DEF Connected
<1> QED BY <1>1, <1>3, <1>4, LossKeeps

(* The network thread takes the connection before accept() asks for it.    *)
LEMMA UnheardKeeps ==
  ASSUME Types, NEW rank \in [Sides -> Ranks], InvAt(rank), AcceptUnheard
  PROVE  InvAt(rank)'
<1>1. UNCHANGED <<pc, config, tx, rx, results, inbox, chan, link, closed>>
  BY DEF AcceptUnheard, local
<1>2. ASSUME NEW u \in Sides
      PROVE  /\ chan'[u] \in Seq(Packet) /\ Len(chan'[u]) <= Len(chan[u])
             /\ \A i \in 1..Len(chan'[u]) : chan'[u][i] = chan[u][i]
  BY <1>1 DEF Types
<1>3. \A u \in Sides : Connected(Peer(u))' => Connected(Peer(u)) /\ Len(chan'[u]) = Len(chan[u])
  BY <1>1 DEF Connected
<1> QED BY <1>1, <1>2, <1>3, LossKeeps

(* The link breaks.                                                        *)
LEMMA LoseKeeps ==
  ASSUME Types, NEW rank \in [Sides -> Ranks], InvAt(rank), Lose
  PROVE  InvAt(rank)'
<1>1. /\ UNCHANGED <<pc, config, tx, rx, results, inbox>> /\ link' = "lost"
  BY DEF Lose, local
<1>2. PICK n \in 0..Len(chan["client"]), m \in 0..Len(chan["server"]) :
        chan' = [s \in Sides |-> Prefix(chan[s], IF s = "client" THEN n ELSE m)]
  BY DEF Lose
<1>3. ASSUME NEW u \in Sides
      PROVE  /\ chan'[u] \in Seq(Packet) /\ Len(chan'[u]) <= Len(chan[u])
             /\ \A i \in 1..Len(chan'[u]) : chan'[u][i] = chan[u][i]
  <2>1. PICK k \in 0..Len(chan[u]) : chan'[u] = SubSeq(chan[u], 1, k)
    BY <1>2, TwoSides DEF Prefix
  <2>2. chan[u] \in Seq(Packet)
    BY DEF Types
  <2> QED BY <2>1, <2>2
<1>4. \A u \in Sides : ~ Connected(Peer(u))'
  BY <1>1 DEF Connected
<1> QED BY <1>1, <1>3, <1>4, LossKeeps

-----------------------------------------------------------------------------
(* The actions are such steps.                                             *)

(* Sending a message keeps the invariant.                                  *)
LEMMA SendKeeps ==
  ASSUME Types, NEW rank \in [Sides -> Ranks], InvAt(rank), NEW s \in Sides, NEW k \in 1..11,
         NEW to, SendStep(rank, s, to, k)
  PROVE  \E r \in [Sides -> Ranks] : InvAt(r)'
<1>1. Bumped(rank, s) \in [Sides -> Ranks]
  <2>1. rank[s] # 11
    BY DEF SendStep
  <2> QED BY <2>1, BumpedRanks
<1>2. SingleNetworkThread => Counted(Bumped(rank, s))'
  <2>1. SingleNetworkThread => Counted(rank)
    BY DEF InvAt
  <2> QED BY <2>1, SendKeepsCounted
<1>3. InvAt(Bumped(rank, s))'
  BY <1>2, SendKeepsLockstep, SendKeepsChannels, SendKeepsLearned, SendKeepsGenerated DEF InvAt
<1> QED BY <1>1, <1>3

(* Taking a message keeps the invariant, given what is learned from it.    *)
LEMMA TakeKeeps ==
  ASSUME Types, NEW rank \in [Sides -> Ranks], InvAt(rank), NEW s \in Sides, NEW to,
         TakeStep(s, to), Learned(Bumped(rank, s))',
         SingleNetworkThread =>
           /\ Bumped(rank, s)["server"] >= 5 => results'["server"].s1 = SentStats("client")'
           /\ Bumped(rank, s)["client"] >= 8 => results'["client"].c2 = SentStats("server")'
  PROVE  \E r \in [Sides -> Ranks] : InvAt(r)'
<1>1. Bumped(rank, s) \in [Sides -> Ranks]
  BY Taken
<1>2. ASSUME SingleNetworkThread
      PROVE  Counted(Bumped(rank, s))'
  <2>1. Counted(rank)
    BY <1>2 DEF InvAt
  <2>2. \A u \in Sides : Counting(Bumped(rank, s), u)'
    BY <2>1, TakeKeepsCounting
  <2> QED BY <2>2, <1>2 DEF Counted
<1>3. InvAt(Bumped(rank, s))'
  BY <1>2, TakeKeepsControl, TakeKeepsGenerated DEF InvAt
<1> QED BY <1>1, <1>3

(* Before its session sends, a side is in step with its peer.              *)
LEMMA InStep ==
  ASSUME Types, NEW rank \in [Sides -> Ranks], InvAt(rank), NEW s \in Sides,
         pc[s] # "failed", NEW k \in 1..11, Sends(s, k), RankOf(s, pc[s]) = k - 1
  PROVE  rank[s] = k - 1 /\ rank[Peer(s)] = k - 1
<1>1. rank[s] = k - 1
  BY DEF InvAt, Lockstep
<1>2. rank[Peer(s)] \in Int
  BY RankTypes
<1>3. CASE s = "client"
  BY <1>1, <1>2, <1>3, TwoSides DEF InvAt, Lockstep, Sends, Odd
<1>4. CASE s = "server"
  BY <1>1, <1>2, <1>4, TwoSides DEF InvAt, Lockstep, Sends, Even
<1> QED BY <1>1, <1>3, <1>4, TwoSides

(* A control message is sent.                                              *)
LEMMA SendIsStep ==
  ASSUME Types, NEW rank \in [Sides -> Ranks], InvAt(rank), NEW s \in Sides, NEW k \in 1..11,
         NEW from, NEW to, Send(s, from, to, TypeOf(k), PhaseNr(k), BodyOf(k)),
         Sends(s, k), from # "failed", RankOf(s, from) = k - 1,
         to # "failed", RankOf(s, to) = k, to \notin {"sendFin1", "sendFin2"},
         k = Fin(Peer(s)) => from \in {"sendFin1", "sendFin2"},
         to \in {"ackSent", "readySent"} => k < Fin(s)
  PROVE  \E r \in [Sides -> Ranks] : InvAt(r)'
<1>1. pc[s] = from
  BY DEF Send
<1>2. rank[s] = k - 1 /\ rank[Peer(s)] = k - 1
  BY <1>1, InStep
<1>3. SendStep(rank, s, to, k)
  BY <1>1, <1>2 DEF SendStep, Send, Goto, Numbered
<1> QED BY <1>3, SendKeeps

(* Every action that sends a control message keeps the invariant.          *)
LEMMA SendsKeep ==
  ASSUME Types, NEW rank \in [Sides -> Ranks], InvAt(rank), ClientSends \/ ServerSends
  PROVE  \E r \in [Sides -> Ranks] : InvAt(r)'
<1> USE DEF Sends, Odd, Even, Fin
<1>s. "client" \in Sides /\ "server" \in Sides /\ Peer("client") = "server"
      /\ Peer("server") = "client"
  BY TwoSides
<1>1. CASE SendConfig
  <2>1. Send("client", "sendConfig", "waitAck", TypeOf(1), PhaseNr(1), BodyOf(1))
    BY <1>1 DEF SendConfig, TypeOf, PhaseNr, BodyOf
  <2>2. RankOf("client", "sendConfig") = 0 /\ RankOf("client", "waitAck") = 1
    BY DEF RankOf, ClientRank
  <2> QED BY <2>1, <2>2, <1>s, SendIsStep
<1>2. CASE SendFin1
  <2>1. Send("client", "sendFin1", "waitFin1", TypeOf(3), PhaseNr(3), BodyOf(3))
    BY <1>2 DEF SendFin1, TypeOf, PhaseNr, BodyOf
  <2>2. RankOf("client", "sendFin1") = 2 /\ RankOf("client", "waitFin1") = 3
    BY DEF RankOf, ClientRank
  <2> QED BY <2>1, <2>2, <1>s, SendIsStep
<1>3. CASE SendStats1
  <2>1. Send("client", "sendStats1", "waitStatsAck1", TypeOf(5), PhaseNr(5), BodyOf(5))
    BY <1>3 DEF SendStats1, TypeOf, PhaseNr, BodyOf
  <2>2. RankOf("client", "sendStats1") = 4 /\ RankOf("client", "waitStatsAck1") = 5
    BY DEF RankOf, ClientRank
  <2> QED BY <2>1, <2>2, <1>s, SendIsStep
<1>4. CASE SendReady
  <2>1. Send("client", "sendReady", "readySent", TypeOf(7), PhaseNr(7), BodyOf(7))
    BY <1>4 DEF SendReady, TypeOf, PhaseNr, BodyOf
  <2>2. RankOf("client", "sendReady") = 6 /\ RankOf("client", "readySent") = 7
    BY DEF RankOf, ClientRank
  <2> QED BY <2>1, <2>2, <1>s, SendIsStep
<1>5. CASE SendStats2
  <2>1. Send("client", "sendStats2", "waitStatsAck2", TypeOf(9), PhaseNr(9), BodyOf(9))
    BY <1>5 DEF SendStats2, TypeOf, PhaseNr, BodyOf
  <2>2. RankOf("client", "sendStats2") = 8 /\ RankOf("client", "waitStatsAck2") = 9
    BY DEF RankOf, ClientRank
  <2> QED BY <2>1, <2>2, <1>s, SendIsStep
<1>6. CASE SendShutdown
  <2>1. Send("client", "sendShutdown", "shutdownSent", TypeOf(11), PhaseNr(11), BodyOf(11))
    BY <1>6 DEF SendShutdown, TypeOf, PhaseNr, BodyOf
  <2>2. RankOf("client", "sendShutdown") = 10 /\ RankOf("client", "shutdownSent") = 11
    BY DEF RankOf, ClientRank
  <2> QED BY <2>1, <2>2, <1>s, SendIsStep
<1>7. CASE SendAck
  <2>1. Send("server", "sendAck", "ackSent", TypeOf(2), PhaseNr(2), BodyOf(2))
    BY <1>7 DEF SendAck, TypeOf, PhaseNr, BodyOf
  <2>2. RankOf("server", "sendAck") = 1 /\ RankOf("server", "ackSent") = 2
    BY DEF RankOf, ServerRank
  <2> QED BY <2>1, <2>2, <1>s, SendIsStep
<1>8. CASE ServerSendFin1
  <2>1. Send("server", "sendFin1", "waitStats1", TypeOf(4), PhaseNr(4), BodyOf(4))
    BY <1>8 DEF ServerSendFin1, TypeOf, PhaseNr, BodyOf
  <2>2. RankOf("server", "sendFin1") = 3 /\ RankOf("server", "waitStats1") = 4
    BY DEF RankOf, ServerRank
  <2> QED BY <2>1, <2>2, <1>s, SendIsStep
<1>9. CASE SendStatsAck1
  <2>1. Send("server", "sendStatsAck1", "waitReady", TypeOf(6), PhaseNr(6), BodyOf(6))
    BY <1>9 DEF SendStatsAck1, TypeOf, PhaseNr, BodyOf
  <2>2. RankOf("server", "sendStatsAck1") = 5 /\ RankOf("server", "waitReady") = 6
    BY DEF RankOf, ServerRank
  <2> QED BY <2>1, <2>2, <1>s, SendIsStep
<1>10. CASE SendFin2
  <2>1. Send("server", "sendFin2", "waitStats2", TypeOf(8), PhaseNr(8), BodyOf(8))
    BY <1>10 DEF SendFin2, TypeOf, PhaseNr, BodyOf
  <2>2. RankOf("server", "sendFin2") = 7 /\ RankOf("server", "waitStats2") = 8
    BY DEF RankOf, ServerRank
  <2> QED BY <2>1, <2>2, <1>s, SendIsStep
<1>11. CASE SendStatsAck2
  <2>1. Send("server", "sendStatsAck2", "waitShutdown", TypeOf(10), PhaseNr(10), BodyOf(10))
    BY <1>11 DEF SendStatsAck2, TypeOf, PhaseNr, BodyOf
  <2>2. RankOf("server", "sendStatsAck2") = 9 /\ RankOf("server", "waitShutdown") = 10
    BY DEF RankOf, ServerRank
  <2> QED BY <2>1, <2>2, <1>s, SendIsStep
<1> QED BY <1>1, <1>2, <1>3, <1>4, <1>5, <1>6, <1>7, <1>8, <1>9, <1>10, <1>11 DEF ClientSends,
     ServerSends

ClientTakes == AwaitAck \/ AwaitFin1 \/ AwaitStatsAck1 \/ AwaitFin2 \/ AwaitStatsAck2
ServerTakes ==
  AwaitConfig \/ ServerAwaitFin1 \/ AwaitStats1 \/ AwaitReady \/ AwaitStats2 \/ AwaitShutdown

(* The waits of the sessions.                                              *)
LEMMA WaitNames ==
  /\ DOMAIN Awaits("client") = {"waitAck", "waitFin1", "waitStatsAck1", "waitFin2", "waitStatsAck2"}
  /\ DOMAIN Awaits("server") =
       {"waitConfig", "waitFin1", "waitStats1", "waitReady", "waitStats2", "waitShutdown"}
BY DEF Awaits, ClientAwaits, ServerAwaits

(* A generator that starts has sent nothing before.                        *)
LEMMA FreshGenerator ==
  ASSUME Types, NEW rank \in [Sides -> Ranks], InvAt(rank), NEW s \in Sides,
         rank[s] < Fin(Peer(s)) - 1, StartGenerator(s)
  PROVE  tx' = tx
<1>1. tx[s] = 0
  BY TwoSides DEF InvAt, Generated
<1>2. tx \in [Sides -> 0..MaxPackets]
  BY DEF Types, TypeOK
<1> QED BY <1>1, <1>2 DEF StartGenerator

(* Every action that takes a control message keeps the invariant.          *)
LEMMA TakesKeep ==
  ASSUME Types, NEW rank \in [Sides -> Ranks], InvAt(rank), ClientTakes \/ ServerTakes
  PROVE  \E r \in [Sides -> Ranks] : InvAt(r)'
<1>s. "client" \in Sides /\ "server" \in Sides /\ Peer("client") = "server"
      /\ Peer("server") = "client"
  BY TwoSides
<1>i. Learned(rank) /\ (SingleNetworkThread => Counted(rank))
  BY DEF InvAt
<1>t. /\ results \in [Sides -> [c1 : StatsTypes, s1 : StatsTypes, c2 : StatsTypes, s2 : StatsTypes]]
      /\ config \in [Sides -> Configs]
  BY DEF Types, TypeOK
<1>1. CASE AwaitAck
  <2>1. Await("client", "waitAck", "generate") /\ pc["client"] = "waitAck"
    BY <1>1 DEF AwaitAck, Await
  <2>2. RankOf("client", "waitAck") = 1 /\ RankOf("client", "generate") = 2
    BY DEF RankOf, ClientRank
  <2>3. rank["client"] = 1
    BY <2>1, <2>2, <1>s DEF InvAt, Lockstep
  <2>4. StartGenerator("client") /\ UNCHANGED <<config, rx, results>>
    BY <1>1 DEF AwaitAck
  <2>5. tx' = tx
    BY <2>3, <2>4, <1>s, FreshGenerator DEF Fin
  <2>7. TakeStep("client", "generate")
    BY <2>1, <2>2, <2>4, <2>5, <1>s, WaitNames DEF TakeStep, Fin
  <2>8. /\ Bumped(rank, "client")["client"] = 2 /\ Bumped(rank, "client")["server"] = 2
        /\ rank["server"] = 2
    BY <2>3, <2>7, <1>s, Taken
  <2>10. Learned(Bumped(rank, "client"))'
    BY <2>3, <2>5, <2>8, <1>i, <2>4 DEF Learned, SentStats
  <2>12. ASSUME SingleNetworkThread
         PROVE  /\ Bumped(rank, "client")["server"] >= 5 => results'["server"].s1 = SentStats("client")'
                /\ Bumped(rank, "client")["client"] >= 8 => results'["client"].c2 = SentStats("server")'
    BY <2>3, <2>5, <2>8, <1>i, <2>4, <2>12 DEF Counted, SentStats
  <2> QED BY <2>7, <2>10, <2>12, <1>s, TakeKeeps
<1>2. CASE AwaitFin1
  <2>1. Await("client", "waitFin1", "sendStats1") /\ pc["client"] = "waitFin1"
    BY <1>2 DEF AwaitFin1, Await
  <2>2. RankOf("client", "waitFin1") = 3 /\ RankOf("client", "sendStats1") = 4
    BY DEF RankOf, ClientRank
  <2>3. rank["client"] = 3
    BY <2>1, <2>2, <1>s DEF InvAt, Lockstep
  <2>5. UNCHANGED <<config, tx, rx, results>>
    BY <1>2 DEF AwaitFin1, local
  <2>7. TakeStep("client", "sendStats1")
    BY <2>1, <2>2, <2>5, <1>s, WaitNames DEF TakeStep, Fin
  <2>8. /\ Bumped(rank, "client")["client"] = 4 /\ Bumped(rank, "client")["server"] = 4
        /\ rank["server"] = 4
    BY <2>3, <2>7, <1>s, Taken
  <2>10. Learned(Bumped(rank, "client"))'
    BY <2>3, <2>5, <2>8, <1>i DEF Learned, SentStats
  <2>12. ASSUME SingleNetworkThread
         PROVE  /\ Bumped(rank, "client")["server"] >= 5 => results'["server"].s1 = SentStats("client")'
                /\ Bumped(rank, "client")["client"] >= 8 => results'["client"].c2 = SentStats("server")'
    BY <2>3, <2>5, <2>8, <1>i, <2>12 DEF Counted, SentStats
  <2> QED BY <2>7, <2>10, <2>12, <1>s, TakeKeeps
<1>3. CASE AwaitStatsAck1
  <2>1. Await("client", "waitStatsAck1", "sendReady") /\ pc["client"] = "waitStatsAck1"
    BY <1>3 DEF AwaitStatsAck1, Await
  <2>2. RankOf("client", "waitStatsAck1") = 5 /\ RankOf("client", "sendReady") = 6
    BY DEF RankOf, ClientRank
  <2>3. rank["client"] = 5
    BY <2>1, <2>2, <1>s DEF InvAt, Lockstep
  <2>5. UNCHANGED <<config, tx, rx>>
    BY <1>3 DEF AwaitStatsAck1
  <2>6. /\ results'["client"].s1 = Message("client").body
        /\ results'["client"].c1 = SentStats("client")
        /\ results'["client"].c2 = results["client"].c2
        /\ results'["server"] = results["server"]
    BY <1>3, <1>s, <1>t DEF AwaitStatsAck1
  <2>7. TakeStep("client", "sendReady")
    BY <2>1, <2>2, <2>5, <1>s, WaitNames DEF TakeStep, Fin
  <2>8. /\ Bumped(rank, "client")["client"] = 6 /\ Bumped(rank, "client")["server"] = 6
        /\ rank["server"] = 6
    BY <2>3, <2>7, <1>s, Taken
  <2>9. Message("client").body = BodyOf(6)
    <3>1. Message("client") = Numbered(6)
      BY <2>3, <2>7, <1>s, Taken
    <3> QED BY <3>1, NumberedType
  <2>10. Learned(Bumped(rank, "client"))'
    BY <2>3, <2>5, <2>8, <1>i, <2>6, <2>9 DEF Learned, SentStats, BodyOf
  <2>12. ASSUME SingleNetworkThread
         PROVE  /\ Bumped(rank, "client")["server"] >= 5 => results'["server"].s1 = SentStats("client")'
                /\ Bumped(rank, "client")["client"] >= 8 => results'["client"].c2 = SentStats("server")'
    BY <2>3, <2>5, <2>8, <1>i, <2>6, <2>12 DEF Counted, SentStats
  <2> QED BY <2>7, <2>10, <2>12, <1>s, TakeKeeps
<1>4. CASE AwaitFin2
  <2>1. Await("client", "waitFin2", "sendStats2") /\ pc["client"] = "waitFin2"
    BY <1>4 DEF AwaitFin2, Await
  <2>2. RankOf("client", "waitFin2") = 7 /\ RankOf("client", "sendStats2") = 8
    BY DEF RankOf, ClientRank
  <2>3. rank["client"] = 7
    BY <2>1, <2>2, <1>s DEF InvAt, Lockstep
  <2>5. UNCHANGED <<config, tx, rx>>
    BY <1>4 DEF AwaitFin2
  <2>6. /\ results'["client"].c2 = rx["client"].stats
        /\ results'["client"].c1 = results["client"].c1
        /\ results'["client"].s1 = results["client"].s1
        /\ results'["server"] = results["server"]
    BY <1>4, <1>s, <1>t DEF AwaitFin2
  <2>7. TakeStep("client", "sendStats2")
    BY <2>1, <2>2, <2>5, <1>s, WaitNames DEF TakeStep, Fin
  <2>8. /\ Bumped(rank, "client")["client"] = 8 /\ Bumped(rank, "client")["server"] = 8
        /\ rank["server"] = 8
    BY <2>3, <2>7, <1>s, Taken
  <2>10. Learned(Bumped(rank, "client"))'
    BY <2>3, <2>5, <2>8, <1>i, <2>6 DEF Learned, SentStats
  <2>11. ASSUME SingleNetworkThread
         PROVE  rx["client"].stats = SentStats("server")
    <3>1. GotFin(rank, "client")
      <4>1. inbox["client"]["TEST_FIN"] # <<>>
        BY <2>3, <2>7, <1>s, Taken DEF TypeOf
      <4> QED BY <4>1, <2>3, <2>8, <1>s DEF GotFin, Fin
    <3>2. Counting(rank, "client")
      BY <2>11, <1>i, <1>s DEF Counted
    <3> QED BY <3>1, <3>2, <1>s DEF Counting, SentStats
  <2>12. ASSUME SingleNetworkThread
         PROVE  /\ Bumped(rank, "client")["server"] >= 5 => results'["server"].s1 = SentStats("client")'
                /\ Bumped(rank, "client")["client"] >= 8 => results'["client"].c2 = SentStats("server")'
    BY <2>3, <2>5, <2>8, <1>i, <2>6, <2>11, <2>12 DEF Counted, SentStats
  <2> QED BY <2>7, <2>10, <2>12, <1>s, TakeKeeps
<1>5. CASE AwaitStatsAck2
  <2>1. Await("client", "waitStatsAck2", "sendShutdown") /\ pc["client"] = "waitStatsAck2"
    BY <1>5 DEF AwaitStatsAck2, Await
  <2>2. RankOf("client", "waitStatsAck2") = 9 /\ RankOf("client", "sendShutdown") = 10
    BY DEF RankOf, ClientRank
  <2>3. rank["client"] = 9
    BY <2>1, <2>2, <1>s DEF InvAt, Lockstep
  <2>5. UNCHANGED <<config, tx, rx>>
    BY <1>5 DEF AwaitStatsAck2
  <2>6. /\ results'["client"].s2 = Message("client").body
        /\ results'["client"].c1 = results["client"].c1
        /\ results'["client"].s1 = results["client"].s1
        /\ results'["client"].c2 = results["client"].c2
        /\ results'["server"] = results["server"]
    BY <1>5, <1>s, <1>t DEF AwaitStatsAck2
  <2>7. TakeStep("client", "sendShutdown")
    BY <2>1, <2>2, <2>5, <1>s, WaitNames DEF TakeStep, Fin
  <2>8. /\ Bumped(rank, "client")["client"] = 10 /\ Bumped(rank, "client")["server"] = 10
        /\ rank["server"] = 10
    BY <2>3, <2>7, <1>s, Taken
  <2>9. Message("client").body = BodyOf(10)
    <3>1. Message("client") = Numbered(10)
      BY <2>3, <2>7, <1>s, Taken
    <3> QED BY <3>1, NumberedType
  <2>10. Learned(Bumped(rank, "client"))'
    BY <2>3, <2>5, <2>8, <1>i, <2>6, <2>9 DEF Learned, SentStats, BodyOf
  <2>12. ASSUME SingleNetworkThread
         PROVE  /\ Bumped(rank, "client")["server"] >= 5 => results'["server"].s1 = SentStats("client")'
                /\ Bumped(rank, "client")["client"] >= 8 => results'["client"].c2 = SentStats("server")'
    BY <2>3, <2>5, <2>8, <1>i, <2>6, <2>12 DEF Counted, SentStats
  <2> QED BY <2>7, <2>10, <2>12, <1>s, TakeKeeps
<1>6. CASE AwaitConfig
  <2>1. Await("server", "waitConfig", "sendAck") /\ pc["server"] = "waitConfig"
    BY <1>6 DEF AwaitConfig, Await
  <2>2. RankOf("server", "waitConfig") = 0 /\ RankOf("server", "sendAck") = 1
    BY DEF RankOf, ServerRank
  <2>3. rank["server"] = 0
    BY <2>1, <2>2, <1>s DEF InvAt, Lockstep
  <2>4. config' = [config EXCEPT !["server"] = Message("server").body]
    BY <1>6 DEF AwaitConfig, AdoptedConfig
  <2>5. UNCHANGED <<tx, rx, results>> /\ config'["client"] = config["client"]
        /\ config'["server"] = Message("server").body
    BY <1>6, <2>4, <1>s, <1>t DEF AwaitConfig
  <2>7. TakeStep("server", "sendAck")
    BY <2>1, <2>2, <2>5, <1>s, WaitNames DEF TakeStep, Fin
  <2>8. /\ Bumped(rank, "server")["server"] = 1 /\ Bumped(rank, "server")["client"] = 1
        /\ rank["client"] = 1
    BY <2>3, <2>7, <1>s, Taken
  <2>9. Message("server").body = BodyOf(1)
    <3>1. Message("server") = Numbered(1)
      BY <2>3, <2>7, <1>s, Taken
    <3> QED BY <3>1, NumberedType
  <2>10. Learned(Bumped(rank, "server"))'
    BY <2>3, <2>5, <2>8, <1>i, <2>9 DEF Learned, SentStats, BodyOf
  <2>12. ASSUME SingleNetworkThread
         PROVE  /\ Bumped(rank, "server")["server"] >= 5 => results'["server"].s1 = SentStats("client")'
                /\ Bumped(rank, "server")["client"] >= 8 => results'["client"].c2 = SentStats("server")'
    BY <2>3, <2>5, <2>8, <1>i, <2>12 DEF Counted, SentStats
  <2> QED BY <2>7, <2>10, <2>12, <1>s, TakeKeeps
<1>7. CASE ServerAwaitFin1
  <2>1. Await("server", "waitFin1", "sendFin1") /\ pc["server"] = "waitFin1"
    BY <1>7 DEF ServerAwaitFin1, Await
  <2>2. RankOf("server", "waitFin1") = 2 /\ RankOf("server", "sendFin1") = 3
    BY DEF RankOf, ServerRank
  <2>3. rank["server"] = 2
    BY <2>1, <2>2, <1>s DEF InvAt, Lockstep
  <2>5. UNCHANGED <<config, tx, rx, results>>
    BY <1>7 DEF ServerAwaitFin1, local
  <2>7. TakeStep("server", "sendFin1")
    BY <2>1, <2>2, <2>5, <1>s, WaitNames DEF TakeStep, Fin
  <2>8. /\ Bumped(rank, "server")["server"] = 3 /\ Bumped(rank, "server")["client"] = 3
        /\ rank["client"] = 3
    BY <2>3, <2>7, <1>s, Taken
  <2>10. Learned(Bumped(rank, "server"))'
    BY <2>3, <2>5, <2>8, <1>i DEF Learned, SentStats
  <2>12. ASSUME SingleNetworkThread
         PROVE  /\ Bumped(rank, "server")["server"] >= 5 => results'["server"].s1 = SentStats("client")'
                /\ Bumped(rank, "server")["client"] >= 8 => results'["client"].c2 = SentStats("server")'
    BY <2>3, <2>5, <2>8, <1>i, <2>12 DEF Counted, SentStats
  <2> QED BY <2>7, <2>10, <2>12, <1>s, TakeKeeps
<1>8. CASE AwaitStats1
  <2>1. Await("server", "waitStats1", "sendStatsAck1") /\ pc["server"] = "waitStats1"
    BY <1>8 DEF AwaitStats1, Await
  <2>2. RankOf("server", "waitStats1") = 4 /\ RankOf("server", "sendStatsAck1") = 5
    BY DEF RankOf, ServerRank
  <2>3. rank["server"] = 4
    BY <2>1, <2>2, <1>s DEF InvAt, Lockstep
  <2>5. UNCHANGED <<config, tx, rx>>
    BY <1>8 DEF AwaitStats1
  <2>6. /\ results'["server"].c1 = Message("server").body
        /\ results'["server"].s1 = rx["server"].stats
        /\ results'["client"] = results["client"]
    BY <1>8, <1>s, <1>t DEF AwaitStats1
  <2>7. TakeStep("server", "sendStatsAck1")
    BY <2>1, <2>2, <2>5, <1>s, WaitNames DEF TakeStep, Fin
  <2>8. /\ Bumped(rank, "server")["server"] = 5 /\ Bumped(rank, "server")["client"] = 5
        /\ rank["client"] = 5
    BY <2>3, <2>7, <1>s, Taken
  <2>9. Message("server").body = BodyOf(5)
    <3>1. Message("server") = Numbered(5)
      BY <2>3, <2>7, <1>s, Taken
    <3> QED BY <3>1, NumberedType
  <2>10. Learned(Bumped(rank, "server"))'
    BY <2>3, <2>5, <2>8, <1>i, <2>6, <2>9 DEF Learned, SentStats, BodyOf
  <2>11. ASSUME SingleNetworkThread
         PROVE  rx["server"].stats = SentStats("client")
    <3>1. GotFin(rank, "server")
      BY <2>3 DEF GotFin, Fin
    <3>2. Counting(rank, "server")
      BY <2>11, <1>i, <1>s DEF Counted
    <3> QED BY <3>1, <3>2, <1>s DEF Counting, SentStats
  <2>12. ASSUME SingleNetworkThread
         PROVE  /\ Bumped(rank, "server")["server"] >= 5 => results'["server"].s1 = SentStats("client")'
                /\ Bumped(rank, "server")["client"] >= 8 => results'["client"].c2 = SentStats("server")'
    BY <2>3, <2>5, <2>8, <1>i, <2>6, <2>11, <2>12 DEF Counted, SentStats
  <2> QED BY <2>7, <2>10, <2>12, <1>s, TakeKeeps
<1>9. CASE AwaitReady
  <2>1. Await("server", "waitReady", "generate") /\ pc["server"] = "waitReady"
    BY <1>9 DEF AwaitReady, Await
  <2>2. RankOf("server", "waitReady") = 6 /\ RankOf("server", "generate") = 7
    BY DEF RankOf, ServerRank
  <2>3. rank["server"] = 6
    BY <2>1, <2>2, <1>s DEF InvAt, Lockstep
  <2>4. StartGenerator("server") /\ UNCHANGED <<config, rx, results>>
    BY <1>9 DEF AwaitReady
  <2>5. tx' = tx
    BY <2>3, <2>4, <1>s, FreshGenerator DEF Fin
  <2>7. TakeStep("server", "generate")
    BY <2>1, <2>2, <2>4, <2>5, <1>s, WaitNames DEF TakeStep, Fin
  <2>8. /\ Bumped(rank, "server")["server"] = 7 /\ Bumped(rank, "server")["client"] = 7
        /\ rank["client"] = 7
    BY <2>3, <2>7, <1>s, Taken
  <2>10. Learned(Bumped(rank, "server"))'
    BY <2>3, <2>5, <2>8, <1>i, <2>4 DEF Learned, SentStats
  <2>12. ASSUME SingleNetworkThread
         PROVE  /\ Bumped(rank, "server")["server"] >= 5 => results'["server"].s1 = SentStats("client")'
                /\ Bumped(rank, "server")["client"] >= 8 => results'["client"].c2 = SentStats("server")'
    BY <2>3, <2>5, <2>8, <1>i, <2>4, <2>12 DEF Counted, SentStats
  <2> QED BY <2>7, <2>10, <2>12, <1>s, TakeKeeps
<1>10. CASE AwaitStats2
  <2>1. Await("server", "waitStats2", "sendStatsAck2") /\ pc["server"] = "waitStats2"
    BY <1>10 DEF AwaitStats2, Await
  <2>2. RankOf("server", "waitStats2") = 8 /\ RankOf("server", "sendStatsAck2") = 9
    BY DEF RankOf, ServerRank
  <2>3. rank["server"] = 8
    BY <2>1, <2>2, <1>s DEF InvAt, Lockstep
  <2>5. UNCHANGED <<config, tx, rx>>
    BY <1>10 DEF AwaitStats2
  <2>6. /\ results'["server"].c2 = Message("server").body
        /\ results'["server"].s2 = SentStats("server")
        /\ results'["server"].c1 = results["server"].c1
        /\ results'["server"].s1 = results["server"].s1
        /\ results'["client"] = results["client"]
    BY <1>10, <1>s, <1>t DEF AwaitStats2
  <2>7. TakeStep("server", "sendStatsAck2")
    BY <2>1, <2>2, <2>5, <1>s, WaitNames DEF TakeStep, Fin
  <2>8. /\ Bumped(rank, "server")["server"] = 9 /\ Bumped(rank, "server")["client"] = 9
        /\ rank["client"] = 9
    BY <2>3, <2>7, <1>s, Taken
  <2>9. Message("server").body = BodyOf(9)
    <3>1. Message("server") = Numbered(9)
      BY <2>3, <2>7, <1>s, Taken
    <3> QED BY <3>1, NumberedType
  <2>10. Learned(Bumped(rank, "server"))'
    BY <2>3, <2>5, <2>8, <1>i, <2>6, <2>9 DEF Learned, SentStats, BodyOf
  <2>12. ASSUME SingleNetworkThread
         PROVE  /\ Bumped(rank, "server")["server"] >= 5 => results'["server"].s1 = SentStats("client")'
                /\ Bumped(rank, "server")["client"] >= 8 => results'["client"].c2 = SentStats("server")'
    BY <2>3, <2>5, <2>8, <1>i, <2>6, <2>12 DEF Counted, SentStats
  <2> QED BY <2>7, <2>10, <2>12, <1>s, TakeKeeps
<1>11. CASE AwaitShutdown
  <2>1. Await("server", "waitShutdown", "done") /\ pc["server"] = "waitShutdown"
    BY <1>11 DEF AwaitShutdown, Await
  <2>2. RankOf("server", "waitShutdown") = 10 /\ RankOf("server", "done") = 11
    BY DEF RankOf, ServerRank
  <2>3. rank["server"] = 10
    BY <2>1, <2>2, <1>s DEF InvAt, Lockstep
  <2>5. UNCHANGED <<config, tx, rx, results>>
    BY <1>11 DEF AwaitShutdown, local
  <2>7. TakeStep("server", "done")
    BY <2>1, <2>2, <2>5, <1>s, WaitNames DEF TakeStep, Fin
  <2>8. /\ Bumped(rank, "server")["server"] = 11 /\ Bumped(rank, "server")["client"] = 11
        /\ rank["client"] = 11
    BY <2>3, <2>7, <1>s, Taken
  <2>10. Learned(Bumped(rank, "server"))'
    BY <2>3, <2>5, <2>8, <1>i DEF Learned, SentStats
  <2>12. ASSUME SingleNetworkThread
         PROVE  /\ Bumped(rank, "server")["server"] >= 5 => results'["server"].s1 = SentStats("client")'
                /\ Bumped(rank, "server")["client"] >= 8 => results'["client"].c2 = SentStats("server")'
    BY <2>3, <2>5, <2>8, <1>i, <2>12 DEF Counted, SentStats
  <2> QED BY <2>7, <2>10, <2>12, <1>s, TakeKeeps
<1> QED BY <1>1, <1>2, <1>3, <1>4, <1>5, <1>6, <1>7, <1>8, <1>9, <1>10, <1>11 DEF ClientTakes,
     ServerTakes

-----------------------------------------------------------------------------
(* The actions that neither send nor take a message.                       *)

(* With one network thread, resetStats() comes before any packet is        *)
(* counted and changes nothing.                                            *)
LEMMA ResetChangesNothing ==
  ASSUME Types, NEW rank \in [Sides -> Ranks], InvAt(rank), NEW s \in Sides,
         SingleNetworkThread, ResetReceiver(s),
         rank[Peer(s)] < Fin(s) - 1 \/ pc[s] \in {"ackSent", "readySent"}
  PROVE  rx' = rx
<1>1. Counting(rank, s)
  BY DEF InvAt, Counted
<1>2. /\ rx[s].stats = [packets |-> rx[s].expected, sequenceErrors |-> 0]
      /\ rx[s].expected = 0
  BY <1>1 DEF Counting
<1>3. rx \in [Sides -> [stats : StatsTypes, expected : Nat]]
  BY DEF Types, TypeOK
<1>4. rx[s] \in [stats : StatsTypes, expected : Nat]
  BY <1>3
<1>5. rx[s] = [stats |-> rx[s].stats, expected |-> rx[s].expected]
  BY <1>4
<1>6. rx[s] = FreshReceiver
  BY <1>2, <1>5 DEF FreshReceiver, NoStats
<1> QED BY <1>3, <1>6 DEF ResetReceiver

(* A failing session stays where it is in the protocol.                    *)
LEMMA FailKeeps ==
  ASSUME Types, NEW rank \in [Sides -> Ranks], InvAt(rank), NEW s \in Sides, Fail(s)
  PROVE  InvAt(rank)'
<1>1. StayStep(rank, s, "failed")
  BY DEF StayStep, Fail, Goto, network
<1> QED BY <1>1, StayKeeps

(* A generator that stops while the link is there has sent all packets.    *)
LEMMA StopKeeps ==
  ASSUME Types, NEW rank \in [Sides -> Ranks], InvAt(rank), NEW s \in Sides, GeneratorStops(s)
  PROVE  InvAt(rank)'
<1> DEFINE to == IF s = "client" THEN "sendFin1" ELSE "sendFin2"
<1>1. rank[s] = RankOf(s, "generate") /\ pc[s] = "generate"
  BY DEF InvAt, Lockstep, GeneratorStops
<1>2. RankOf(s, to) = rank[s]
  BY <1>1 DEF RankOf, ClientRank, ServerRank
<1>3. config[s] = config["client"]
  <2>1. CASE s = "client"
    BY <2>1
  <2>2. CASE s = "server"
    <3>1. rank["server"] = 7
      BY <1>1, <2>2 DEF RankOf, ServerRank
    <3> QED BY <3>1, <2>2 DEF InvAt, Learned
  <2> QED BY <2>1, <2>2, TwoSides
<1>4. ASSUME Connected(s), config["client"].headerFits, config["client"].numPackets > 0
      PROVE  tx[s] = config["client"].numPackets
  <2>1. ~ ShouldContinueSending(s)
    BY <1>3, <1>4 DEF GeneratorStops
  <2>2. ~ (tx[s] < config["client"].numPackets)
    BY <2>1, <1>3 DEF ShouldContinueSending
  <2>3. tx[s] <= config["client"].numPackets
    <3>1. tx[Peer(Peer(s))] <= config["client"].numPackets
      BY <1>4, TwoSides DEF InvAt, Generated
    <3> QED BY <3>1, TwoSides
  <2>4. tx[s] \in Int /\ config["client"].numPackets \in Int
    <3>1. tx \in [Sides -> 0..MaxPackets] /\ config \in [Sides -> Configs]
      BY DEF Types, TypeOK
    <3>2. config["client"] \in Configs
      BY <3>1, TwoSides
    <3>3. config["client"].numPackets \in NumPackets
      BY <3>2 DEF Configs
    <3>4. tx[s] \in 0..MaxPackets
      BY <3>1
    <3>5. config["client"].numPackets \in Nat
      BY <3>3, NumPacketsAssumption
    <3>6. tx[s] \in Int
      BY <3>4, MaxPacketsAssumption
    <3> QED BY <3>5, <3>6
  <2>5. \A a, b \in Int : a <= b /\ ~ (a < b) => a = b
    OBVIOUS
  <2> QED BY <2>2, <2>3, <2>4, <2>5
<1>5. Connected(s) => AllSent(s)
  BY <1>4 DEF AllSent
<1>6. /\ pc' = [pc EXCEPT ![s] = to]
      /\ UNCHANGED <<config, tx, rx, results, inbox, chan, link, closed>>
  BY DEF GeneratorStops, Goto, network
<1>7. to \notin {"ackSent", "readySent"}
  OBVIOUS
<1>8. StayStep(rank, s, to)
  BY <1>2, <1>5, <1>6, <1>7 DEF StayStep
<1> QED BY <1>8, StayKeeps

ClientStays == ClientInitFails \/ ClientStart \/ Connect \/ AfterReady \/ ClientFinishes
ServerStays ==
  ServerInitFails \/ PrepareServer \/ RegisterAccept \/ Accept \/ AfterAck

(* So do the other steps of the sessions.                                  *)
LEMMA StaysKeep ==
  ASSUME Types, NEW rank \in [Sides -> Ranks], InvAt(rank), ClientStays \/ ServerStays
  PROVE  InvAt(rank)'
<1>s. "client" \in Sides /\ "server" \in Sides /\ Peer("client") = "server"
      /\ Peer("server") = "client"
  BY TwoSides
<1>l. /\ \A s \in Sides : pc[s] # "failed" => rank[s] = RankOf(s, pc[s])
      /\ rank["server"] = 0 => rank["client"] < 2
  BY <1>s, RankTypes DEF InvAt, Lockstep
<1>1. CASE ClientInitFails \/ ServerInitFails
  BY <1>1, <1>s, FailKeeps DEF ClientInitFails, ServerInitFails
<1>2. CASE ClientStart
  <2>1. pc["client"] = "start" /\ RankOf("client", "start") = 0 /\ RankOf("client", "connecting") = 0
    BY <1>2 DEF ClientStart, RankOf, ClientRank
  <2>2. rank["client"] = 0
    BY <2>1, <1>l, <1>s
  <2>3. StayStep(rank, "client", "connecting")
    BY <1>2, <2>1, <2>2 DEF ClientStart, StayStep, Goto, network
  <2> QED BY <2>3, <1>s, StayKeeps
<1>3. CASE PrepareServer
  <2>1. pc["server"] = "start" /\ RankOf("server", "start") = 0 /\ RankOf("server", "listening") = 0
    BY <1>3 DEF PrepareServer, RankOf, ServerRank
  <2>2. rank["server"] = 0
    BY <2>1, <1>l, <1>s
  <2>3. StayStep(rank, "server", "listening")
    BY <1>3, <2>1, <2>2 DEF PrepareServer, StayStep, Goto, local, network
  <2> QED BY <2>3, <1>s, StayKeeps
<1>9. CASE RegisterAccept
  <2>1. /\ pc["server"] = "listening"
        /\ RankOf("server", "listening") = 0 /\ RankOf("server", "accepting") = 0
    BY <1>9 DEF RegisterAccept, RankOf, ServerRank
  <2>2. rank["server"] = 0
    BY <2>1, <1>l, <1>s
  <2>3. StayStep(rank, "server", "accepting")
    BY <1>9, <2>1, <2>2 DEF RegisterAccept, StayStep, Goto, network
  <2> QED BY <2>3, <1>s, StayKeeps
<1>4. CASE Connect
  <2>1. /\ pc["client"] = "connecting" /\ pc["server"] \in {"listening", "accepting"}
        /\ RankOf("client", "connecting") = 0 /\ RankOf("client", "sendConfig") = 0
        /\ RankOf("server", pc["server"]) = 0 /\ pc["server"] # "failed"
    BY <1>4 DEF Connect, RankOf, ClientRank, ServerRank
  <2>2. rank["client"] = 0 /\ rank["server"] = 0
    BY <2>1, <1>l, <1>s
  <2>3. SingleNetworkThread => UNCHANGED rx
    BY <1>4, <2>2, <1>s, ResetChangesNothing DEF Connect, Fin
  <2>4. StayStep(rank, "client", "sendConfig")
    BY <1>4, <2>1, <2>2, <2>3, <1>s DEF Connect, StayStep, Goto
  <2> QED BY <2>4, <1>s, StayKeeps
<1>5. CASE Accept
  <2>1. /\ pc["server"] = "accepting"
        /\ RankOf("server", "accepting") = 0 /\ RankOf("server", "waitConfig") = 0
    BY <1>5 DEF Accept, RankOf, ServerRank
  <2>2. rank["server"] = 0 /\ rank["client"] < 2
    BY <2>1, <1>l, <1>s
  <2>3. SingleNetworkThread => UNCHANGED rx
    BY <1>5, <2>2, <1>s, ResetChangesNothing DEF Accept, Fin
  <2>4. StayStep(rank, "server", "waitConfig")
    BY <1>5, <2>1, <2>2, <2>3 DEF Accept, StayStep, Goto, network
  <2> QED BY <2>4, <1>s, StayKeeps
<1>6. CASE AfterAck
  <2>1. /\ pc["server"] = "ackSent"
        /\ RankOf("server", "ackSent") = 2 /\ RankOf("server", "waitFin1") = 2
    BY <1>6 DEF AfterAck, RankOf, ServerRank
  <2>2. rank["server"] = 2
    BY <2>1, <1>l, <1>s
  <2>3. SingleNetworkThread => UNCHANGED rx
    BY <1>6, <2>1, <1>s, ResetChangesNothing DEF AfterAck
  <2>4. StayStep(rank, "server", "waitFin1")
    BY <1>6, <2>1, <2>2, <2>3 DEF AfterAck, StayStep, Goto, network
  <2> QED BY <2>4, <1>s, StayKeeps
<1>7. CASE AfterReady
  <2>1. /\ pc["client"] = "readySent"
        /\ RankOf("client", "readySent") = 7 /\ RankOf("client", "waitFin2") = 7
    BY <1>7 DEF AfterReady, RankOf, ClientRank
  <2>2. rank["client"] = 7
    BY <2>1, <1>l, <1>s
  <2>3. SingleNetworkThread => UNCHANGED rx
    BY <1>7, <2>1, <1>s, ResetChangesNothing DEF AfterReady
  <2>4. StayStep(rank, "client", "waitFin2")
    BY <1>7, <2>1, <2>2, <2>3 DEF AfterReady, StayStep, Goto, network
  <2> QED BY <2>4, <1>s, StayKeeps
<1>8. CASE ClientFinishes
  <2>1. /\ pc["client"] = "shutdownSent"
        /\ RankOf("client", "shutdownSent") = 11 /\ RankOf("client", "done") = 11
    BY <1>8 DEF ClientFinishes, RankOf, ClientRank
  <2>2. rank["client"] = 11
    BY <2>1, <1>l, <1>s
  <2>3. StayStep(rank, "client", "done")
    BY <1>8, <2>1, <2>2 DEF ClientFinishes, StayStep, Goto, network
  <2> QED BY <2>3, <1>s, StayKeeps
<1> QED
  BY <1>1, <1>2, <1>3, <1>4, <1>5, <1>6, <1>7, <1>8, <1>9 DEF ClientStays, ServerStays

(* Every step keeps the rest of the invariant, perhaps at other ranks.     *)
LEMMA NextKeeps ==
  ASSUME Types, NEW rank \in [Sides -> Ranks], InvAt(rank), Next
  PROVE  \E r \in [Sides -> Ranks] : InvAt(r)'
<1>1. CASE ClientSends \/ ServerSends
  BY <1>1, SendsKeep
<1>2. CASE ClientTakes \/ ServerTakes
  BY <1>2, TakesKeep
<1>3. CASE ClientStays \/ ServerStays
  BY <1>3, StaysKeep
<1>4. ASSUME NEW s \in Sides, Generate(s) \/ Receive(s) \/ Timeout(s) \/ Close(s)
      PROVE  InvAt(rank)'
  <2>1. CASE Generate(s)
    BY <2>1, GenerateKeeps, StopKeeps DEF Generate
  <2>2. CASE Receive(s)
    <3>1. DispatchData(s) \/ DispatchControl(s)
      BY <2>2 DEF Receive
    <3> QED BY <2>2, <3>1, DispatchDataKeeps, DispatchControlKeeps
  <2>3. CASE Timeout(s)
    BY <2>3, FailKeeps DEF Timeout
  <2>4. CASE Close(s)
    BY <2>4, CloseKeeps
  <2> QED BY <1>4, <2>1, <2>2, <2>3, <2>4
<1>5. CASE Lose
  BY <1>5, LoseKeeps
<1>7. CASE AcceptUnheard
  BY <1>7, UnheardKeeps
<1>6. \/ ClientSends \/ ServerSends \/ ClientTakes \/ ServerTakes \/ ClientStays \/ ServerStays
      \/ (\E s \in Sides : Generate(s) \/ Receive(s) \/ Timeout(s) \/ Close(s)) \/ Lose
      \/ AcceptUnheard
  BY DEF Next, ClientContinues, ServerContinues, ClientTakes, ServerTakes, ClientStays,
     ServerStays
<1> QED BY <1>1, <1>2, <1>3, <1>4, <1>5, <1>6, <1>7

-----------------------------------------------------------------------------
(* Types.                                                                  *)

(* The places a session can be at.                                         *)
LEMMA Places ==
  /\ PCs("client") =
       {"waitAck", "waitFin1", "waitStatsAck1", "waitFin2", "waitStatsAck2",
        "start", "connecting", "sendConfig", "generate", "sendFin1", "sendStats1", "sendReady",
        "readySent", "sendStats2", "sendShutdown", "shutdownSent", "done", "failed"}
  /\ PCs("server") =
       {"waitConfig", "waitFin1", "waitStats1", "waitReady", "waitStats2", "waitShutdown",
        "start", "listening", "accepting", "sendAck", "ackSent", "sendFin1", "sendStatsAck1",
        "generate", "sendFin2", "sendStatsAck2", "done", "failed"}
  /\ \A s \in Sides : PCs(s) \subseteq ClientPCs \cup ServerPCs
<1>1. /\ DOMAIN ClientAwaits = {"waitAck", "waitFin1", "waitStatsAck1", "waitFin2", "waitStatsAck2"}
      /\ DOMAIN ServerAwaits =
           {"waitConfig", "waitFin1", "waitStats1", "waitReady", "waitStats2", "waitShutdown"}
  BY DEF ClientAwaits, ServerAwaits
<1> HIDE DEF ClientAwaits, ServerAwaits
<1>2. PCs("client") = ClientPCs /\ PCs("server") = ServerPCs
  BY DEF PCs
<1>3. \A s \in Sides : PCs(s) \subseteq ClientPCs \cup ServerPCs
  BY DEF PCs
<1> QED BY <1>1, <1>2, <1>3 DEF ClientPCs, ServerPCs

(* The types of everything but the position and the state of a session.    *)
DataOK ==
  /\ config \in [Sides -> Configs]
  /\ tx \in [Sides -> 0..MaxPackets]
  /\ rx \in [Sides -> [stats : StatsTypes, expected : Nat]]
  /\ results \in [Sides -> [c1 : StatsTypes, s1 : StatsTypes,
                           c2 : StatsTypes, s2 : StatsTypes]]
  /\ inbox \in [Sides -> [ControlTypes -> Seq(ControlPacket)]]
  /\ chan \in [Sides -> Seq(Packet)]
  /\ link \in {"none", "up", "lost"}
  /\ unheard \in BOOLEAN
  /\ closed \in SUBSET Sides
  /\ disturbed \in BOOLEAN

(* A session moves, and enters FINISHED only as its last step.             *)
MoveStep(s, to) ==
  /\ pc[s] # "done" /\ to \in PCs(s)
  /\ pc' = [pc EXCEPT ![s] = to]
  /\ \/ state' = state
     \/ \E st \in States : state' = [state EXCEPT ![s] = st] /\ (st = "FINISHED" => to = "done")

(* Such a move keeps the types.                                            *)
LEMMA MoveTypes ==
  ASSUME Types, NEW s \in Sides, NEW to, MoveStep(s, to), DataOK'
  PROVE  Types'
<1>t. /\ pc \in [Sides -> ClientPCs \cup ServerPCs] /\ state \in [Sides -> States]
      /\ \A u \in Sides : pc[u] \in PCs(u)
      /\ \A u \in Sides : state[u] = "FINISHED" => pc[u] = "done"
  BY DEF Types, TypeOK
<1>1. to \in ClientPCs \cup ServerPCs /\ to \in PCs(s)
  BY Places DEF MoveStep
<1>2. pc' \in [Sides -> ClientPCs \cup ServerPCs] /\ pc'[s] = to /\ \A u \in Sides : u # s => pc'[u] = pc[u]
  BY <1>1, <1>t DEF MoveStep
<1>3. \A u \in Sides : pc'[u] \in PCs(u)
  BY <1>1, <1>2, <1>t
<1>4. state' \in [Sides -> States]
  BY <1>t DEF MoveStep
<1>5. ASSUME NEW u \in Sides, state'[u] = "FINISHED"
      PROVE  pc'[u] = "done"
  <2>1. CASE u = s
    <3>1. CASE state' = state
      BY <2>1, <3>1, <1>5, <1>t DEF MoveStep
    <3>2. CASE \E st \in States : state' = [state EXCEPT ![s] = st] /\ (st = "FINISHED" => to = "done")
      BY <2>1, <3>2, <1>5, <1>2, <1>t
    <3> QED BY <3>1, <3>2 DEF MoveStep
  <2>2. CASE u # s
    <3>1. state'[u] = state[u]
      BY <2>2, <1>t DEF MoveStep
    <3> QED BY <3>1, <2>2, <1>5, <1>2, <1>t
  <2> QED BY <2>1, <2>2
<1>6. TypeOK'
  <2>1. DOMAIN inbox' = Sides /\ DOMAIN chan' = Sides
    BY DEF DataOK
  <2> QED BY <2>1, <1>3, <1>4 DEF DataOK, TypeOK
<1> QED BY <1>2, <1>5, <1>6 DEF DataOK, Types

(* The types of the data follow.                                           *)
LEMMA DataTypes ==
  ASSUME Types
  PROVE  DataOK
BY DEF Types, TypeOK, DataOK

(* What is sent is a packet.                                               *)
LEMMA TransmitTypes ==
  ASSUME Types, NEW s \in Sides, NEW m \in Packet, Transmit(s, m)
  PROVE  chan' \in [Sides -> Seq(Packet)]
<1>1. chan \in [Sides -> Seq(Packet)] /\ Peer(s) \in Sides
  BY TwoSides DEF Types
<1>2. Append(chan[Peer(s)], m) \in Seq(Packet)
  BY <1>1, AppendElements
<1> QED BY <1>1, <1>2 DEF Transmit

(* A send keeps the types.                                                 *)
LEMMA SendTypes ==
  ASSUME Types, NEW s \in Sides, NEW k \in 1..11, NEW from, NEW to,
         Send(s, from, to, TypeOf(k), PhaseNr(k), BodyOf(k)), MoveStep(s, to)
  PROVE  Types'
<1>1. Control(TypeOf(k), PhaseNr(k), BodyOf(k)) \in Packet
  BY NumberedType DEF Numbered, Packet
<1>2. chan' \in [Sides -> Seq(Packet)]
  BY <1>1, TransmitTypes DEF Send
<1>3. DataOK'
  BY <1>2, DataTypes DEF DataOK, Send, network
<1> QED BY <1>3, MoveTypes

(* The message a wait takes is the one after the session's rank.           *)
LEMMA AwaitedMessage ==
  ASSUME Types, NEW rank \in [Sides -> Ranks], InvAt(rank), NEW s \in Sides,
         pc[s] \in DOMAIN Awaits(s), inbox[s][Awaits(s)[pc[s]]] # <<>>
  PROVE  Message(s) = Numbered(RankOf(s, pc[s]) + 1)
<1>1. /\ Awaits(s)[pc[s]] \in ControlTypes /\ pc[s] # "failed"
  BY AwaitedType
<1>2. rank[s] = RankOf(s, pc[s])
  BY <1>1 DEF InvAt, Lockstep
<1>3. /\ rank[Peer(s)] = rank[s] + 1
      /\ inbox[s][Awaits(s)[pc[s]]] = <<Numbered(rank[Peer(s)])>>
  BY <1>1 DEF InvAt, Inboxes, Coming
<1>4. Head(inbox[s][Awaits(s)[pc[s]]]) = Numbered(rank[Peer(s)])
  BY <1>3
<1> QED BY <1>2, <1>3, <1>4 DEF Message

(* A wait that ends keeps the types.                                       *)
LEMMA AwaitTypes ==
  ASSUME Types, NEW s \in Sides, NEW from, from \in DOMAIN Awaits(s), NEW to, Await(s, from, to),
         MoveStep(s, to), config' \in [Sides -> Configs], tx' \in [Sides -> 0..MaxPackets],
         UNCHANGED rx,
         results' \in [Sides -> [c1 : StatsTypes, s1 : StatsTypes,
                                 c2 : StatsTypes, s2 : StatsTypes]]
  PROVE  Types'
<1> DEFINE t == Awaits(s)[from]
<1>1. t \in ControlTypes
  BY AwaitedType
<1>2. /\ inbox \in [Sides -> [ControlTypes -> Seq(ControlPacket)]] /\ inbox[s][t] # <<>>
      /\ inbox' = [inbox EXCEPT ![s][t] = Tail(@)]
  BY DEF Types, Await
<1>3. inbox[s] \in [ControlTypes -> Seq(ControlPacket)]
  BY <1>2
<1>4. inbox[s][t] \in Seq(ControlPacket)
  BY <1>1, <1>3
<1>5. Tail(inbox[s][t]) \in Seq(ControlPacket)
  BY <1>2, <1>4, TailElements
<1>6. inbox' = [inbox EXCEPT ![s] = [inbox[s] EXCEPT ![t] = Tail(inbox[s][t])]]
  BY <1>2
<1>7. inbox' \in [Sides -> [ControlTypes -> Seq(ControlPacket)]]
  <2> HIDE DEF t
  <2>1. [inbox[s] EXCEPT ![t] = Tail(inbox[s][t])] \in [ControlTypes -> Seq(ControlPacket)]
    BY <1>1, <1>3, <1>5
  <2> QED BY <2>1, <1>2, <1>6
<1>8. DataOK'
  <2>1. UNCHANGED <<chan, link, unheard, closed, disturbed>>
    BY DEF Await, network
  <2> QED BY <2>1, <1>7, DataTypes DEF DataOK
<1> QED BY <1>8, MoveTypes

(* The actions that send.                                                  *)
LEMMA SendsTypes ==
  ASSUME Types, ClientSends \/ ServerSends
  PROVE  Types'
<1>s. "client" \in Sides /\ "server" \in Sides
  BY TwoSides
<1>1. CASE SendConfig
  <2>1. Send("client", "sendConfig", "waitAck", TypeOf(1), PhaseNr(1), BodyOf(1))
    BY <1>1 DEF SendConfig, TypeOf, PhaseNr, BodyOf
  <2>2. pc["client"] = "sendConfig"
    BY <2>1 DEF Send
  <2>3. MoveStep("client", "waitAck")
    BY <1>1, <2>1, <2>2, Places DEF SendConfig, MoveStep, Send, Goto, TransitionTo, States
  <2> QED BY <2>1, <2>3, <1>s, SendTypes
<1>2. CASE SendFin1
  <2>1. Send("client", "sendFin1", "waitFin1", TypeOf(3), PhaseNr(3), BodyOf(3))
    BY <1>2 DEF SendFin1, TypeOf, PhaseNr, BodyOf
  <2>2. pc["client"] = "sendFin1"
    BY <2>1 DEF Send
  <2>3. MoveStep("client", "waitFin1")
    BY <1>2, <2>1, <2>2, Places DEF SendFin1, MoveStep, Send, Goto, TransitionTo, States
  <2> QED BY <2>1, <2>3, <1>s, SendTypes
<1>3. CASE SendStats1
  <2>1. Send("client", "sendStats1", "waitStatsAck1", TypeOf(5), PhaseNr(5), BodyOf(5))
    BY <1>3 DEF SendStats1, TypeOf, PhaseNr, BodyOf
  <2>2. pc["client"] = "sendStats1"
    BY <2>1 DEF Send
  <2>3. MoveStep("client", "waitStatsAck1")
    BY <1>3, <2>1, <2>2, Places DEF SendStats1, MoveStep, Send, Goto
  <2> QED BY <2>1, <2>3, <1>s, SendTypes
<1>4. CASE SendReady
  <2>1. Send("client", "sendReady", "readySent", TypeOf(7), PhaseNr(7), BodyOf(7))
    BY <1>4 DEF SendReady, TypeOf, PhaseNr, BodyOf
  <2>2. pc["client"] = "sendReady"
    BY <2>1 DEF Send
  <2>3. MoveStep("client", "readySent")
    BY <1>4, <2>1, <2>2, Places DEF SendReady, MoveStep, Send, Goto
  <2> QED BY <2>1, <2>3, <1>s, SendTypes
<1>5. CASE SendStats2
  <2>1. Send("client", "sendStats2", "waitStatsAck2", TypeOf(9), PhaseNr(9), BodyOf(9))
    BY <1>5 DEF SendStats2, TypeOf, PhaseNr, BodyOf
  <2>2. pc["client"] = "sendStats2"
    BY <2>1 DEF Send
  <2>3. MoveStep("client", "waitStatsAck2")
    BY <1>5, <2>1, <2>2, Places DEF SendStats2, MoveStep, Send, Goto
  <2> QED BY <2>1, <2>3, <1>s, SendTypes
<1>6. CASE SendShutdown
  <2>1. Send("client", "sendShutdown", "shutdownSent", TypeOf(11), PhaseNr(11), BodyOf(11))
    BY <1>6 DEF SendShutdown, TypeOf, PhaseNr, BodyOf
  <2>2. pc["client"] = "sendShutdown"
    BY <2>1 DEF Send
  <2>3. MoveStep("client", "shutdownSent")
    BY <1>6, <2>1, <2>2, Places DEF SendShutdown, MoveStep, Send, Goto
  <2> QED BY <2>1, <2>3, <1>s, SendTypes
<1>7. CASE SendAck
  <2>1. Send("server", "sendAck", "ackSent", TypeOf(2), PhaseNr(2), BodyOf(2))
    BY <1>7 DEF SendAck, TypeOf, PhaseNr, BodyOf
  <2>2. pc["server"] = "sendAck"
    BY <2>1 DEF Send
  <2>3. MoveStep("server", "ackSent")
    BY <1>7, <2>1, <2>2, Places DEF SendAck, MoveStep, Send, Goto
  <2> QED BY <2>1, <2>3, <1>s, SendTypes
<1>8. CASE ServerSendFin1
  <2>1. Send("server", "sendFin1", "waitStats1", TypeOf(4), PhaseNr(4), BodyOf(4))
    BY <1>8 DEF ServerSendFin1, TypeOf, PhaseNr, BodyOf
  <2>2. pc["server"] = "sendFin1"
    BY <2>1 DEF Send
  <2>3. MoveStep("server", "waitStats1")
    BY <1>8, <2>1, <2>2, Places DEF ServerSendFin1, MoveStep, Send, Goto
  <2> QED BY <2>1, <2>3, <1>s, SendTypes
<1>9. CASE SendStatsAck1
  <2>1. Send("server", "sendStatsAck1", "waitReady", TypeOf(6), PhaseNr(6), BodyOf(6))
    BY <1>9 DEF SendStatsAck1, TypeOf, PhaseNr, BodyOf
  <2>2. pc["server"] = "sendStatsAck1"
    BY <2>1 DEF Send
  <2>3. MoveStep("server", "waitReady")
    BY <1>9, <2>1, <2>2, Places DEF SendStatsAck1, MoveStep, Send, Goto
  <2> QED BY <2>1, <2>3, <1>s, SendTypes
<1>10. CASE SendFin2
  <2>1. Send("server", "sendFin2", "waitStats2", TypeOf(8), PhaseNr(8), BodyOf(8))
    BY <1>10 DEF SendFin2, TypeOf, PhaseNr, BodyOf
  <2>2. pc["server"] = "sendFin2"
    BY <2>1 DEF Send
  <2>3. MoveStep("server", "waitStats2")
    BY <1>10, <2>1, <2>2, Places DEF SendFin2, MoveStep, Send, Goto
  <2> QED BY <2>1, <2>3, <1>s, SendTypes
<1>11. CASE SendStatsAck2
  <2>1. Send("server", "sendStatsAck2", "waitShutdown", TypeOf(10), PhaseNr(10), BodyOf(10))
    BY <1>11 DEF SendStatsAck2, TypeOf, PhaseNr, BodyOf
  <2>2. pc["server"] = "sendStatsAck2"
    BY <2>1 DEF Send
  <2>3. MoveStep("server", "waitShutdown")
    BY <1>11, <2>1, <2>2, Places DEF SendStatsAck2, MoveStep, Send, Goto
  <2> QED BY <2>1, <2>3, <1>s, SendTypes
<1> QED BY <1>1, <1>2, <1>3, <1>4, <1>5, <1>6, <1>7, <1>8, <1>9, <1>10, <1>11 DEF ClientSends,
     ServerSends

(* The actions that take a message.                                        *)
LEMMA TakesTypes ==
  ASSUME Types, NEW rank \in [Sides -> Ranks], InvAt(rank), ClientTakes \/ ServerTakes
  PROVE  Types'
<1>s. "client" \in Sides /\ "server" \in Sides
  BY TwoSides
<1>0. 0 \in 0..MaxPackets
  BY MaxPacketsAssumption
<1>t. /\ results \in [Sides -> [c1 : StatsTypes, s1 : StatsTypes, c2 : StatsTypes, s2 : StatsTypes]]
      /\ config \in [Sides -> Configs] /\ tx \in [Sides -> 0..MaxPackets]
      /\ \A s \in Sides : rx[s].stats \in StatsTypes /\ SentStats(s) \in StatsTypes
  <2>1. /\ results \in [Sides -> [c1 : StatsTypes, s1 : StatsTypes, c2 : StatsTypes, s2 : StatsTypes]]
        /\ config \in [Sides -> Configs] /\ tx \in [Sides -> 0..MaxPackets]
        /\ rx \in [Sides -> [stats : StatsTypes, expected : Nat]]
    BY DEF Types, TypeOK
  <2>2. \A s \in Sides : rx[s].stats \in StatsTypes
    BY <2>1
  <2>3. \A s \in Sides : tx[s] \in Nat
    BY <2>1
  <2>4. \A s \in Sides : SentStats(s) \in StatsTypes
    BY <2>3 DEF SentStats, StatsTypes
  <2> QED BY <2>1, <2>2, <2>4
<1>1. CASE AwaitAck
  <2>1. Await("client", "waitAck", "generate")
    BY <1>1 DEF AwaitAck
  <2>2. pc["client"] = "waitAck" /\ "waitAck" \in DOMAIN Awaits("client")
    BY <2>1, WaitNames DEF Await
  <2>3. MoveStep("client", "generate")
    BY <1>1, <2>1, <2>2, Places DEF AwaitAck, MoveStep, Await, Goto, TransitionTo, States
  <2>5. tx' \in [Sides -> 0..MaxPackets] /\ UNCHANGED <<config, rx, results>>
    BY <1>1, <1>t, <1>0 DEF AwaitAck, StartGenerator
  <2> QED BY <2>1, <2>2, <2>3, <2>5, <1>s, <1>t, AwaitTypes
<1>2. CASE AwaitFin1
  <2>1. Await("client", "waitFin1", "sendStats1")
    BY <1>2 DEF AwaitFin1
  <2>2. pc["client"] = "waitFin1" /\ "waitFin1" \in DOMAIN Awaits("client")
    BY <2>1, WaitNames DEF Await
  <2>3. MoveStep("client", "sendStats1")
    BY <1>2, <2>1, <2>2, Places DEF AwaitFin1, MoveStep, Await, Goto, local
  <2>5. UNCHANGED <<config, tx, rx, results>>
    BY <1>2 DEF AwaitFin1, local
  <2> QED BY <2>1, <2>2, <2>3, <2>5, <1>s, <1>t, AwaitTypes
<1>3. CASE AwaitStatsAck1
  <2>1. Await("client", "waitStatsAck1", "sendReady")
    BY <1>3 DEF AwaitStatsAck1
  <2>2. pc["client"] = "waitStatsAck1" /\ "waitStatsAck1" \in DOMAIN Awaits("client")
    BY <2>1, WaitNames DEF Await
  <2>3. MoveStep("client", "sendReady")
    BY <1>3, <2>1, <2>2, Places DEF AwaitStatsAck1, MoveStep, Await, Goto
  <2>4. Message("client").body \in StatsTypes
    <3>1. RankOf("client", "waitStatsAck1") + 1 = 6
      BY DEF RankOf, ClientRank
    <3>2. Message("client") = Numbered(6)
      BY <2>1, <2>2, <3>1, <1>s, AwaitedMessage DEF Await
    <3> QED BY <3>2, NumberedType
  <2>5. /\ results' \in [Sides -> [c1 : StatsTypes, s1 : StatsTypes,
                                     c2 : StatsTypes, s2 : StatsTypes]]
        /\ UNCHANGED <<config, tx, rx>>
    BY <1>3, <2>4, <1>s, <1>t DEF AwaitStatsAck1
  <2> QED BY <2>1, <2>2, <2>3, <2>5, <1>s, <1>t, AwaitTypes
<1>4. CASE AwaitFin2
  <2>1. Await("client", "waitFin2", "sendStats2")
    BY <1>4 DEF AwaitFin2
  <2>2. pc["client"] = "waitFin2" /\ "waitFin2" \in DOMAIN Awaits("client")
    BY <2>1, WaitNames DEF Await
  <2>3. MoveStep("client", "sendStats2")
    BY <1>4, <2>1, <2>2, Places DEF AwaitFin2, MoveStep, Await, Goto, TransitionTo, States
  <2>5. /\ results' \in [Sides -> [c1 : StatsTypes, s1 : StatsTypes,
                                     c2 : StatsTypes, s2 : StatsTypes]]
        /\ UNCHANGED <<config, tx, rx>>
    BY <1>4, <1>s, <1>t DEF AwaitFin2
  <2> QED BY <2>1, <2>2, <2>3, <2>5, <1>s, <1>t, AwaitTypes
<1>5. CASE AwaitStatsAck2
  <2>1. Await("client", "waitStatsAck2", "sendShutdown")
    BY <1>5 DEF AwaitStatsAck2
  <2>2. pc["client"] = "waitStatsAck2" /\ "waitStatsAck2" \in DOMAIN Awaits("client")
    BY <2>1, WaitNames DEF Await
  <2>3. MoveStep("client", "sendShutdown")
    BY <1>5, <2>1, <2>2, Places DEF AwaitStatsAck2, MoveStep, Await, Goto
  <2>4. Message("client").body \in StatsTypes
    <3>1. RankOf("client", "waitStatsAck2") + 1 = 10
      BY DEF RankOf, ClientRank
    <3>2. Message("client") = Numbered(10)
      BY <2>1, <2>2, <3>1, <1>s, AwaitedMessage DEF Await
    <3> QED BY <3>2, NumberedType
  <2>5. /\ results' \in [Sides -> [c1 : StatsTypes, s1 : StatsTypes,
                                     c2 : StatsTypes, s2 : StatsTypes]]
        /\ UNCHANGED <<config, tx, rx>>
    BY <1>5, <2>4, <1>s, <1>t DEF AwaitStatsAck2
  <2> QED BY <2>1, <2>2, <2>3, <2>5, <1>s, <1>t, AwaitTypes
<1>6. CASE AwaitConfig
  <2>1. Await("server", "waitConfig", "sendAck")
    BY <1>6 DEF AwaitConfig
  <2>2. pc["server"] = "waitConfig" /\ "waitConfig" \in DOMAIN Awaits("server")
    BY <2>1, WaitNames DEF Await
  <2>3. MoveStep("server", "sendAck")
    BY <1>6, <2>1, <2>2, Places DEF AwaitConfig, MoveStep, Await, Goto
  <2>4. Message("server").body \in Configs
    <3>1. RankOf("server", "waitConfig") + 1 = 1
      BY DEF RankOf, ServerRank
    <3>2. Message("server") = Numbered(1)
      BY <2>1, <2>2, <3>1, <1>s, AwaitedMessage DEF Await
    <3> QED BY <3>2, NumberedType
  <2>5. config' \in [Sides -> Configs] /\ UNCHANGED <<tx, rx, results>>
    BY <1>6, <2>4, <1>t DEF AwaitConfig, AdoptedConfig
  <2> QED BY <2>1, <2>2, <2>3, <2>5, <1>s, <1>t, AwaitTypes
<1>7. CASE ServerAwaitFin1
  <2>1. Await("server", "waitFin1", "sendFin1")
    BY <1>7 DEF ServerAwaitFin1
  <2>2. pc["server"] = "waitFin1" /\ "waitFin1" \in DOMAIN Awaits("server")
    BY <2>1, WaitNames DEF Await
  <2>3. MoveStep("server", "sendFin1")
    BY <1>7, <2>1, <2>2, Places DEF ServerAwaitFin1, MoveStep, Await, Goto, TransitionTo, States
  <2>5. UNCHANGED <<config, tx, rx, results>>
    BY <1>7 DEF ServerAwaitFin1, local
  <2> QED BY <2>1, <2>2, <2>3, <2>5, <1>s, <1>t, AwaitTypes
<1>8. CASE AwaitStats1
  <2>1. Await("server", "waitStats1", "sendStatsAck1")
    BY <1>8 DEF AwaitStats1
  <2>2. pc["server"] = "waitStats1" /\ "waitStats1" \in DOMAIN Awaits("server")
    BY <2>1, WaitNames DEF Await
  <2>3. MoveStep("server", "sendStatsAck1")
    BY <1>8, <2>1, <2>2, Places DEF AwaitStats1, MoveStep, Await, Goto, TransitionTo, States
  <2>4. Message("server").body \in StatsTypes
    <3>1. RankOf("server", "waitStats1") + 1 = 5
      BY DEF RankOf, ServerRank
    <3>2. Message("server") = Numbered(5)
      BY <2>1, <2>2, <3>1, <1>s, AwaitedMessage DEF Await
    <3> QED BY <3>2, NumberedType
  <2>5. /\ results' \in [Sides -> [c1 : StatsTypes, s1 : StatsTypes,
                                     c2 : StatsTypes, s2 : StatsTypes]]
        /\ UNCHANGED <<config, tx, rx>>
    BY <1>8, <2>4, <1>s, <1>t DEF AwaitStats1
  <2> QED BY <2>1, <2>2, <2>3, <2>5, <1>s, <1>t, AwaitTypes
<1>9. CASE AwaitReady
  <2>1. Await("server", "waitReady", "generate")
    BY <1>9 DEF AwaitReady
  <2>2. pc["server"] = "waitReady" /\ "waitReady" \in DOMAIN Awaits("server")
    BY <2>1, WaitNames DEF Await
  <2>3. MoveStep("server", "generate")
    BY <1>9, <2>1, <2>2, Places DEF AwaitReady, MoveStep, Await, Goto, TransitionTo, States
  <2>5. tx' \in [Sides -> 0..MaxPackets] /\ UNCHANGED <<config, rx, results>>
    BY <1>9, <1>t, <1>0 DEF AwaitReady, StartGenerator
  <2> QED BY <2>1, <2>2, <2>3, <2>5, <1>s, <1>t, AwaitTypes
<1>10. CASE AwaitStats2
  <2>1. Await("server", "waitStats2", "sendStatsAck2")
    BY <1>10 DEF AwaitStats2
  <2>2. pc["server"] = "waitStats2" /\ "waitStats2" \in DOMAIN Awaits("server")
    BY <2>1, WaitNames DEF Await
  <2>3. MoveStep("server", "sendStatsAck2")
    BY <1>10, <2>1, <2>2, Places DEF AwaitStats2, MoveStep, Await, Goto, TransitionTo, States
  <2>4. Message("server").body \in StatsTypes
    <3>1. RankOf("server", "waitStats2") + 1 = 9
      BY DEF RankOf, ServerRank
    <3>2. Message("server") = Numbered(9)
      BY <2>1, <2>2, <3>1, <1>s, AwaitedMessage DEF Await
    <3> QED BY <3>2, NumberedType
  <2>5. /\ results' \in [Sides -> [c1 : StatsTypes, s1 : StatsTypes,
                                     c2 : StatsTypes, s2 : StatsTypes]]
        /\ UNCHANGED <<config, tx, rx>>
    BY <1>10, <2>4, <1>s, <1>t DEF AwaitStats2
  <2> QED BY <2>1, <2>2, <2>3, <2>5, <1>s, <1>t, AwaitTypes
<1>11. CASE AwaitShutdown
  <2>1. Await("server", "waitShutdown", "done")
    BY <1>11 DEF AwaitShutdown
  <2>2. pc["server"] = "waitShutdown" /\ "waitShutdown" \in DOMAIN Awaits("server")
    BY <2>1, WaitNames DEF Await
  <2>3. MoveStep("server", "done")
    BY <1>11, <2>1, <2>2, Places DEF AwaitShutdown, MoveStep, Await, Goto, TransitionTo, States
  <2>5. UNCHANGED <<config, tx, rx, results>>
    BY <1>11 DEF AwaitShutdown, local
  <2> QED BY <2>1, <2>2, <2>3, <2>5, <1>s, <1>t, AwaitTypes
<1> QED BY <1>1, <1>2, <1>3, <1>4, <1>5, <1>6, <1>7, <1>8, <1>9, <1>10, <1>11 DEF ClientTakes,
     ServerTakes

(* A failure.                                                              *)
LEMMA FailTypes ==
  ASSUME Types, NEW s \in Sides, Fail(s), pc[s] # "done"
  PROVE  Types'
<1>1. "failed" \in PCs(s)
  BY Places, TwoSides
<1>2. MoveStep(s, "failed")
  BY <1>1 DEF MoveStep, Fail, Goto, TransitionTo, States
<1>3. DataOK'
  BY DataTypes DEF Fail, DataOK, network
<1> QED BY <1>2, <1>3, MoveTypes

(* The other steps of the sessions.                                        *)
LEMMA StaysTypes ==
  ASSUME Types, ClientStays \/ ServerStays
  PROVE  Types'
<1>s. "client" \in Sides /\ "server" \in Sides
  BY TwoSides
<1>d. DataOK /\ FreshReceiver \in [stats : StatsTypes, expected : Nat]
  BY DataTypes DEF FreshReceiver, NoStats, StatsTypes
<1>1. CASE ClientStart
  <2>1. MoveStep("client", "connecting")
    BY <1>1, Places DEF ClientStart, MoveStep, Goto, TransitionTo, States
  <2>2. DataOK'
    BY <1>1, <1>d, <1>s DEF ClientStart, DataOK, network
  <2> QED BY <2>1, <2>2, <1>s, MoveTypes
<1>2. CASE Connect
  <2>1. MoveStep("client", "sendConfig")
    BY <1>2, Places DEF Connect, MoveStep, Goto, TransitionTo, States
  <2>2. DataOK'
    BY <1>2, <1>d, <1>s DEF Connect, DataOK, ResetReceiver
  <2> QED BY <2>1, <2>2, <1>s, MoveTypes
<1>3. CASE AfterReady
  <2>1. MoveStep("client", "waitFin2")
    BY <1>3, Places DEF AfterReady, MoveStep, Goto, TransitionTo, States
  <2>2. DataOK'
    BY <1>3, <1>d, <1>s DEF AfterReady, DataOK, ResetReceiver, network
  <2> QED BY <2>1, <2>2, <1>s, MoveTypes
<1>4. CASE ClientFinishes
  <2>1. MoveStep("client", "done")
    BY <1>4, Places DEF ClientFinishes, MoveStep, Goto, TransitionTo, States
  <2>2. DataOK'
    BY <1>4, <1>d, <1>s DEF ClientFinishes, DataOK, network
  <2> QED BY <2>1, <2>2, <1>s, MoveTypes
<1>5. CASE PrepareServer
  <2>1. MoveStep("server", "listening")
    BY <1>5, Places DEF PrepareServer, MoveStep, Goto, local
  <2>2. DataOK'
    BY <1>5, <1>d, <1>s DEF PrepareServer, DataOK, local, network
  <2> QED BY <2>1, <2>2, <1>s, MoveTypes
<1>9. CASE RegisterAccept
  <2>1. MoveStep("server", "accepting")
    BY <1>9, Places DEF RegisterAccept, MoveStep, Goto, TransitionTo, States
  <2>2. DataOK'
    BY <1>9, <1>d, <1>s DEF RegisterAccept, DataOK, network
  <2> QED BY <2>1, <2>2, <1>s, MoveTypes
<1>6. CASE Accept
  <2>1. MoveStep("server", "waitConfig")
    BY <1>6, Places DEF Accept, MoveStep, Goto, TransitionTo, States
  <2>2. DataOK'
    BY <1>6, <1>d, <1>s DEF Accept, DataOK, ResetReceiver, network
  <2> QED BY <2>1, <2>2, <1>s, MoveTypes
<1>7. CASE AfterAck
  <2>1. MoveStep("server", "waitFin1")
    BY <1>7, Places DEF AfterAck, MoveStep, Goto, TransitionTo, States
  <2>2. DataOK'
    BY <1>7, <1>d, <1>s DEF AfterAck, DataOK, ResetReceiver, network
  <2> QED BY <2>1, <2>2, <1>s, MoveTypes
<1>8. CASE ClientInitFails \/ ServerInitFails
  BY <1>8, <1>s, FailTypes DEF ClientInitFails, ServerInitFails
<1> QED
  BY <1>1, <1>2, <1>3, <1>4, <1>5, <1>6, <1>7, <1>8, <1>9 DEF ClientStays, ServerStays

(* Steps in which no session moves.                                        *)
LEMMA IdleTypes ==
  ASSUME Types, UNCHANGED <<pc, state>>, DataOK'
  PROVE  Types'
<1>1. DOMAIN inbox' = Sides /\ DOMAIN chan' = Sides
  BY DEF DataOK
<1> QED BY <1>1 DEF Types, TypeOK, DataOK

(* A packet is generated.                                                  *)
LEMMA GenerateTypes ==
  ASSUME Types, NEW s \in Sides, GeneratePacket(s)
  PROVE  Types'
<1>1. tx \in [Sides -> 0..MaxPackets] /\ tx[s] < MaxPackets
  BY DEF Types, TypeOK, GeneratePacket
<1>2. tx[s] \in 0..MaxPackets
  BY <1>1
<1>3. tx[s] + 1 \in 0..MaxPackets /\ tx[s] \in Nat
  BY <1>1, <1>2
<1>4. tx' \in [Sides -> 0..MaxPackets]
  BY <1>1, <1>3 DEF GeneratePacket
<1>5. Data(Phase(s), tx[s]) \in Packet
  BY <1>3 DEF Data, Phase, Packet, DataPacket
<1>6. chan' \in [Sides -> Seq(Packet)]
  BY <1>5, TransmitTypes DEF GeneratePacket
<1>7. DataOK'
  BY <1>4, <1>6, DataTypes DEF DataOK, GeneratePacket, network
<1> QED BY <1>7, IdleTypes DEF GeneratePacket

(* A generator stops.                                                      *)
LEMMA StopTypes ==
  ASSUME Types, NEW s \in Sides, GeneratorStops(s)
  PROVE  Types'
<1> DEFINE to == IF s = "client" THEN "sendFin1" ELSE "sendFin2"
<1> DEFINE st == IF s = "client" THEN "FINISHING" ELSE "SERVER_TEST_FINISHING"
<1>1. to \in PCs(s) /\ st \in States /\ st # "FINISHED"
  BY Places, TwoSides DEF States
<1>2. /\ pc[s] = "generate" /\ pc' = [pc EXCEPT ![s] = to]
      /\ state' = [state EXCEPT ![s] = st]
  BY DEF GeneratorStops, Goto, TransitionTo
<1> HIDE DEF to, st
<1>3. MoveStep(s, to)
  BY <1>1, <1>2 DEF MoveStep
<1>4. DataOK'
  BY DataTypes DEF GeneratorStops, DataOK, network
<1> QED BY <1>3, <1>4, MoveTypes

(* A packet is dispatched.                                                 *)
LEMMA ReceiveTypes ==
  ASSUME Types, NEW s \in Sides, Receive(s)
  PROVE  Types'
<1>t. DataOK /\ chan[s] \in Seq(Packet) /\ chan[s] # <<>>
  BY DataTypes DEF DataOK, Receive
<1>1. Tail(chan[s]) \in Seq(Packet) /\ Head(chan[s]) \in Packet
  BY <1>t, TailElements
<1>2. chan' \in [Sides -> Seq(Packet)]
  BY <1>1, <1>t DEF Receive, DataOK
<1>3. UNCHANGED <<pc, state, config, tx, results, link, unheard, closed, disturbed>>
  BY DEF Receive, network
<1>4. CASE DispatchData(s)
  <2>1. Head(chan[s]).body \in Nat
    <3>1. Head(chan[s]) \notin ControlPacket
      BY <1>4 DEF DispatchData, ControlPacket, ControlTypes
    <3> QED BY <3>1, <1>1 DEF Packet, DataPacket
  <2>2. rx \in [Sides -> [stats : StatsTypes, expected : Nat]]
    BY <1>t DEF DataOK
  <2>3. rx[s].stats.packets \in Nat /\ rx[s].stats.sequenceErrors \in Nat
    <3>1. rx[s].stats \in StatsTypes
      BY <2>2
    <3> QED BY <3>1 DEF StatsTypes
  <2>4. CountPacket(rx[s], Head(chan[s]).body) \in [stats : StatsTypes, expected : Nat]
    BY <2>1, <2>3 DEF CountPacket, StatsTypes
  <2>5. rx' \in [Sides -> [stats : StatsTypes, expected : Nat]] /\ inbox' = inbox
    BY <1>4, <2>2, <2>4 DEF DispatchData
  <2>6. DataOK'
    BY <2>5, <1>2, <1>3, <1>t DEF DataOK
  <2> QED BY <2>6, <1>3, IdleTypes
<1>5. CASE DispatchControl(s)
  <2> DEFINE m == Head(chan[s])
  <2>1. m \in ControlPacket /\ m.type \in ControlTypes
    <3>1. m \notin DataPacket
      BY <1>5 DEF DispatchControl, DataPacket
    <3>2. m \in ControlPacket
      BY <3>1, <1>1 DEF Packet
    <3> QED BY <3>2 DEF ControlPacket
  <2>2. /\ inbox' = [inbox EXCEPT ![s][m.type] = Append(@, m)] /\ rx' = rx
    BY <1>5 DEF DispatchControl
  <2> HIDE DEF m
  <2>3. inbox \in [Sides -> [ControlTypes -> Seq(ControlPacket)]]
    BY <1>t DEF DataOK
  <2>4. inbox[s] \in [ControlTypes -> Seq(ControlPacket)]
    BY <2>3
  <2>5. inbox[s][m.type] \in Seq(ControlPacket)
    BY <2>1, <2>4
  <2>6. Append(inbox[s][m.type], m) \in Seq(ControlPacket)
    BY <2>1, <2>5, AppendElements
  <2>7. [inbox[s] EXCEPT ![m.type] = Append(inbox[s][m.type], m)] \in [ControlTypes -> Seq(ControlPacket)]
    BY <2>1, <2>4, <2>6
  <2>8. inbox' = [inbox EXCEPT ![s] = [inbox[s] EXCEPT ![m.type] = Append(inbox[s][m.type], m)]]
    BY <2>2
  <2>9. inbox' \in [Sides -> [ControlTypes -> Seq(ControlPacket)]]
    BY <2>3, <2>7, <2>8
  <2>10. DataOK'
    BY <2>2, <2>9, <1>2, <1>3, <1>t DEF DataOK
  <2> QED BY <2>10, <1>3, IdleTypes
<1> QED BY <1>4, <1>5 DEF Receive

(* What a break leaves is still made of packets.                           *)
LEMMA LoseTypes ==
  ASSUME Types, Lose
  PROVE  Types'
<1>1. PICK n \in 0..Len(chan["client"]), m \in 0..Len(chan["server"]) :
        chan' = [s \in Sides |-> Prefix(chan[s], IF s = "client" THEN n ELSE m)]
  BY DEF Lose
<1>2. ASSUME NEW u \in Sides
      PROVE  Prefix(chan[u], IF u = "client" THEN n ELSE m) \in Seq(Packet)
  <2>1. PICK k \in 0..Len(chan[u]) : k = IF u = "client" THEN n ELSE m
    BY <1>1, TwoSides
  <2>2. chan[u] \in Seq(Packet)
    BY DEF Types
  <2>3. SubSeq(chan[u], 1, k) \in Seq(Packet)
    BY <2>2
  <2> QED BY <2>1, <2>3 DEF Prefix
<1>3. chan' \in [Sides -> Seq(Packet)]
  BY <1>1, <1>2
<1>4. DataOK'
  BY <1>3, DataTypes DEF DataOK, Lose, local
<1> QED BY <1>4, IdleTypes DEF Lose, local

(* Every step keeps the types.                                             *)
LEMMA NextTypes ==
  ASSUME Types, NEW rank \in [Sides -> Ranks], InvAt(rank), Next
  PROVE  Types'
<1>1. CASE ClientSends \/ ServerSends
  BY <1>1, SendsTypes
<1>2. CASE ClientTakes \/ ServerTakes
  BY <1>2, TakesTypes
<1>3. CASE ClientStays \/ ServerStays
  BY <1>3, StaysTypes
<1>4. ASSUME NEW s \in Sides, Generate(s) \/ Receive(s) \/ Timeout(s) \/ Close(s)
      PROVE  Types'
  <2>1. CASE Generate(s)
    BY <2>1, GenerateTypes, StopTypes DEF Generate
  <2>2. CASE Receive(s)
    BY <2>2, ReceiveTypes
  <2>3. CASE Timeout(s)
    <3>1. pc[s] \in DOMAIN Awaits(s) /\ Fail(s)
      BY <2>3 DEF Timeout, Timed
    <3>2. pc[s] # "done"
      BY <3>1, WaitNames, TwoSides
    <3> QED BY <3>1, <3>2, FailTypes
  <2>4. CASE Close(s)
    <3>1. chan' \in [Sides -> Seq(Packet)] /\ closed' \in SUBSET Sides
      BY <2>4, DataTypes DEF Close, DataOK
    <3>2. DataOK'
      BY <3>1, <2>4, DataTypes DEF Close, DataOK, local
    <3> QED BY <3>2, <2>4, IdleTypes DEF Close, local
  <2> QED BY <1>4, <2>1, <2>2, <2>3, <2>4
<1>5. CASE Lose
  BY <1>5, LoseTypes
<1>7. CASE AcceptUnheard
  <2>1. DataOK'
    BY <1>7, DataTypes DEF AcceptUnheard, DataOK, local
  <2> QED BY <1>7, <2>1, IdleTypes DEF AcceptUnheard, local
<1>6. \/ ClientSends \/ ServerSends \/ ClientTakes \/ ServerTakes \/ ClientStays \/ ServerStays
      \/ (\E s \in Sides : Generate(s) \/ Receive(s) \/ Timeout(s) \/ Close(s)) \/ Lose
      \/ AcceptUnheard
  BY DEF Next, ClientContinues, ServerContinues, ClientTakes, ServerTakes, ClientStays,
     ServerStays
<1> QED BY <1>1, <1>2, <1>3, <1>4, <1>5, <1>6, <1>7

-----------------------------------------------------------------------------
(* The invariant.                                                          *)

(* It holds initially, with no message sent.                               *)
LEMMA InitIInv == Init => IInv
<1> SUFFICES ASSUME Init
             PROVE  IInv
  OBVIOUS
<1> DEFINE rank == [s \in Sides |-> 0]
<1>0. 0 \in 0..MaxPackets
  BY MaxPacketsAssumption
<1>1. /\ \A s \in Sides : pc[s] = "start" /\ state[s] = "IDLE" /\ tx[s] = 0 /\ rx[s] = FreshReceiver
      /\ \A s \in Sides : chan[s] = <<>> /\ \A t \in ControlTypes : inbox[s][t] = <<>>
      /\ link = "none"
  BY DEF Init
<1>2. rank \in [Sides -> Ranks] /\ \A s \in Sides : rank[s] = 0 /\ rank[Peer(s)] = 0
  BY TwoSides DEF Ranks
<1>3. \A s \in Sides : Len(chan[s]) = 0 /\ 1..Len(chan[s]) = {}
  BY <1>1
<1>4. Types
  <2>1. NoStats \in StatsTypes
    BY DEF NoStats, StatsTypes
  <2>2. FreshReceiver \in [stats : StatsTypes, expected : Nat]
    BY <2>1 DEF FreshReceiver
  <2>3. \A s \in Sides : "start" \in PCs(s)
    BY Places, TwoSides
  <2>4. pc \in [Sides -> ClientPCs \cup ServerPCs] /\ \A s \in Sides : pc[s] \in PCs(s)
    BY <2>3, Places DEF Init
  <2>5. state \in [Sides -> States]
    BY DEF Init, States
  <2>6. tx \in [Sides -> 0..MaxPackets]
    BY <1>0 DEF Init
  <2>7. rx \in [Sides -> [stats : StatsTypes, expected : Nat]]
    BY <2>2 DEF Init
  <2>8. results \in [Sides -> [c1 : StatsTypes, s1 : StatsTypes, c2 : StatsTypes, s2 : StatsTypes]]
    BY <2>1 DEF Init
  <2>9. /\ inbox \in [Sides -> [ControlTypes -> Seq(ControlPacket)]]
        /\ chan \in [Sides -> Seq(Packet)]
    BY DEF Init
  <2>10. DOMAIN inbox = Sides /\ DOMAIN chan = Sides
    BY DEF Init
  <2>11. TypeOK
    BY <2>4, <2>5, <2>6, <2>7, <2>8, <2>10 DEF TypeOK, Init
  <2> QED BY <2>4, <2>9, <2>11, <1>1 DEF Types
<1> HIDE DEF rank
<1>5. Lockstep(rank)
  BY <1>1, <1>2, TwoSides DEF Lockstep, RankOf, ClientRank, ServerRank
<1>6. Inboxes(rank) /\ Channels(rank)
  BY <1>1, <1>3 DEF Inboxes, Channels
<1>7. Learned(rank)
  BY <1>2, TwoSides DEF Learned
<1>f. \A s \in Sides : Fin(s) \in {3, 8} /\ ~ GotFin(rank, s) /\ Peer(s) \in Sides
  BY <1>2, TwoSides DEF Fin, GotFin
<1>8. Generated(rank)
  <2>1. config["client"].numPackets \in NumPackets
    BY TwoSides DEF Init, Configs
  <2>2. config["client"].numPackets \in Nat
    BY <2>1, NumPacketsAssumption
  <2> QED BY <2>2, <1>1, <1>2, <1>3, <1>f DEF Generated
<1>9. Counted(rank)
  <2>1. ASSUME NEW s \in Sides
        PROVE  Counting(rank, s)
    <3>1. rx[s].expected = 0 /\ rx[s].stats = [packets |-> 0, sequenceErrors |-> 0]
      BY <1>1 DEF FreshReceiver, NoStats
    <3>2. rank[Peer(s)] # Fin(s) - 1
      BY <1>2, <1>f
    <3> QED BY <3>1, <3>2, <1>3, <1>f DEF Counting
  <2> QED BY <2>1, <1>2, TwoSides DEF Counted
<1> QED BY <1>2, <1>4, <1>5, <1>6, <1>7, <1>8, <1>9 DEF IInv, InvAt

(* A stuttering step keeps it.                                             *)
LEMMA StutterIInv == IInv /\ UNCHANGED vars => IInv'
<1> SUFFICES ASSUME IInv, UNCHANGED vars
             PROVE  IInv'
  OBVIOUS
<1>1. UNCHANGED <<pc, state, config, tx, rx, results, inbox, chan, link, unheard, closed,
                  disturbed>>
  BY DEF vars, local, network
<1>2. PICK rank \in [Sides -> Ranks] : InvAt(rank)
  BY DEF IInv
<1>3. Types'
  BY <1>1 DEF IInv, Types, TypeOK
<1>4. /\ \A k \in 1..11 : Numbered(k)' = Numbered(k)
      /\ \A s \in Sides : Connected(s)' = Connected(s)
      /\ \A s \in Sides : GotFin(rank, s)' = GotFin(rank, s)
      /\ \A s \in Sides : AllSent(s)' = AllSent(s)
      /\ \A s \in Sides : SentStats(s)' = SentStats(s)
  BY <1>1 DEF Numbered, BodyOf, SentStats, Connected, GotFin, AllSent
<1>5. InvAt(rank)'
  <2>1. Types
    BY DEF IInv
  <2>2. \A s \in Sides : /\ chan'[s] \in Seq(Packet) /\ Len(chan'[s]) <= Len(chan[s])
                         /\ \A i \in 1..Len(chan'[s]) : chan'[s][i] = chan[s][i]
    BY <2>1, <1>1 DEF Types
  <2>3. \A s \in Sides : Connected(Peer(s))' => Connected(Peer(s)) /\ Len(chan'[s]) = Len(chan[s])
    BY <1>1, <1>4, TwoSides
  <2> QED BY <2>1, <2>2, <2>3, <1>1, <1>2, LossKeeps
<1> QED BY <1>3, <1>5 DEF IInv

(* It holds in every reachable state.                                      *)
LEMMA Invariance == SafetySpec => []IInv
<1>1. IInv /\ [Next]_vars => IInv'
  <2>1. ASSUME IInv, Next
        PROVE  IInv'
    <3>1. PICK rank \in [Sides -> Ranks] : InvAt(rank)
      BY <2>1 DEF IInv
    <3>2. Types
      BY <2>1 DEF IInv
    <3>3. Types' /\ \E r \in [Sides -> Ranks] : InvAt(r)'
      BY <2>1, <3>1, <3>2, NextTypes, NextKeeps
    <3> QED BY <3>3 DEF IInv
  <2> QED BY <2>1, StutterIInv
<1> QED BY <1>1, InitIInv, PTL DEF SafetySpec

(* Type correctness: every variable has its type, in particular every      *)
(* session is at one of its awaits and every statistic is a number.        *)
THEOREM TypeCorrect == SafetySpec => []TypeOK
<1>1. IInv => TypeOK
  BY DEF IInv, Types
<1> QED BY <1>1, Invariance, PTL

(* A wait for a message type used in both phases gets the message of its   *)
(* phase: TEST_FIN, STATS_EXCHANGE and STATS_ACK are never mixed up, with  *)
(* any number of network threads, packets lost and peers failed.           *)
THEOREM PhasesMatch == SafetySpec => []PhaseMatches
<1>1. IInv => PhaseMatches
  <2> SUFFICES ASSUME IInv, NEW s \in Sides, pc[s] \in DOMAIN Awaits(s),
                      inbox[s][Awaits(s)[pc[s]]] # <<>>
               PROVE  Message(s).phase = PhaseOf(pc[s])
    BY DEF PhaseMatches
  <2>1. PICK rank \in [Sides -> Ranks] : InvAt(rank)
    BY DEF IInv
  <2>2. Types
    BY DEF IInv
  <2>3. Message(s) = Numbered(RankOf(s, pc[s]) + 1)
    BY <2>1, <2>2, AwaitedMessage
  <2>4. RankOf(s, pc[s]) + 1 \in 1..11 /\ PhaseNr(RankOf(s, pc[s]) + 1) = PhaseOf(pc[s])
    BY AwaitedType
  <2> QED BY <2>2, <2>3, <2>4, NumberedType
<1> QED BY <1>1, Invariance, PTL

(* A side that is FINISHED has all eleven messages behind it.              *)
LEMMA FinishedIsLast ==
  ASSUME Types, NEW rank \in [Sides -> Ranks], InvAt(rank), NEW s \in Sides,
         state[s] = "FINISHED"
  PROVE  rank[s] = 11 /\ rank["client"] = 11 /\ rank["server"] >= 10
<1>1. pc[s] = "done"
  BY DEF Types
<1>2. rank[s] = 11
  BY <1>1 DEF InvAt, Lockstep, RankOf, ClientRank, ServerRank
<1>3. rank["client"] \in Ranks /\ rank["server"] \in Ranks
  BY RankTypes, TwoSides
<1>4. CASE s = "client"
  BY <1>2, <1>3, <1>4 DEF InvAt, Lockstep, Ranks
<1>5. CASE s = "server"
  BY <1>2, <1>3, <1>5 DEF InvAt, Lockstep, Ranks
<1> QED BY <1>2, <1>4, <1>5, TwoSides

(* The two result files never contradict each other: once either side has  *)
(* FINISHED, both hold the same configuration and the same statistics of   *)
(* both phases, whatever was lost, late or counted wrongly.                *)
THEOREM ResultsAgreement == SafetySpec => []ResultsAgree
<1>1. IInv => ResultsAgree
  <2> SUFFICES ASSUME IInv, NEW s \in Sides, state[s] = "FINISHED"
               PROVE  results["client"] = results["server"] /\ config["client"] = config["server"]
    BY DEF ResultsAgree
  <2>1. PICK rank \in [Sides -> Ranks] : InvAt(rank)
    BY DEF IInv
  <2>2. Types
    BY DEF IInv
  <2>3. rank["client"] = 11 /\ rank["server"] >= 10
    BY <2>1, <2>2, FinishedIsLast
  <2>4. rank["server"] \in Int
    BY RankTypes, TwoSides
  <2>5. /\ config["server"] = config["client"]
        /\ results["client"].c1 = results["server"].c1 /\ results["client"].s1 = results["server"].s1
        /\ results["client"].c2 = results["server"].c2 /\ results["client"].s2 = results["server"].s2
    BY <2>1, <2>3, <2>4 DEF InvAt, Learned
  <2>6. results["client"] = results["server"]
    <3>1. \A u \in Sides : results[u] \in [c1 : StatsTypes, s1 : StatsTypes,
                                           c2 : StatsTypes, s2 : StatsTypes]
      BY <2>2 DEF Types, TypeOK
    <3>2. \A u \in Sides : results[u] = [c1 |-> results[u].c1, s1 |-> results[u].s1,
                                         c2 |-> results[u].c2, s2 |-> results[u].s2]
      BY <3>1
    <3> QED BY <3>2, <2>5, TwoSides
  <2> QED BY <2>5, <2>6
<1> QED BY <1>1, Invariance, PTL

(* With one network thread (the epoll backend) the receiver's statistics   *)
(* are complete when TEST_FIN is taken: no packet was counted before       *)
(* resetStats() and none is still under way.                               *)
THEOREM AllCounted == SingleNetworkThread => (SafetySpec => []EveryPacketCounted)
<1> SUFFICES ASSUME SingleNetworkThread
             PROVE  SafetySpec => []EveryPacketCounted
  OBVIOUS
<1>1. IInv => EveryPacketCounted
  <2> SUFFICES ASSUME IInv
               PROVE  EveryPacketCounted
    OBVIOUS
  <2>1. PICK rank \in [Sides -> Ranks] : InvAt(rank)
    BY DEF IInv
  <2>2. Counted(rank)
    BY <2>1 DEF InvAt
  <2>3. ASSUME pc["server"] = "sendFin1"
        PROVE  rx["server"].stats = SentStats("client")
    <3>1. rank["server"] = 3
      BY <2>1, <2>3, TwoSides DEF InvAt, Lockstep, RankOf, ServerRank
    <3>2. GotFin(rank, "server") /\ Counting(rank, "server")
      BY <3>1, <2>2, TwoSides DEF GotFin, Fin, Counted
    <3> QED BY <3>2, TwoSides DEF Counting, SentStats
  <2>4. ASSUME pc["client"] = "sendStats2"
        PROVE  results["client"].c2 = SentStats("server")
    <3>1. rank["client"] = 8
      BY <2>1, <2>4, TwoSides DEF InvAt, Lockstep, RankOf, ClientRank
    <3> QED BY <3>1, <2>2 DEF Counted
  <2> QED BY <2>3, <2>4 DEF EveryPacketCounted
<1> QED BY <1>1, Invariance, PTL

(* No false alarms: with one network thread and a usable packet size a     *)
(* session that reaches FINISHED reports success: the receivers counted    *)
(* exactly the packets that were asked for, in order.                      *)
THEOREM FinishedSucceeds == SingleNetworkThread => (SafetySpec => []FinishedIsSuccess)
<1> SUFFICES ASSUME SingleNetworkThread
             PROVE  SafetySpec => []FinishedIsSuccess
  OBVIOUS
<1>1. IInv => FinishedIsSuccess
  <2> SUFFICES ASSUME IInv, NEW s \in Sides,
                      state[s] = "FINISHED", config[s].headerFits
               PROVE  Success(s)
    BY DEF FinishedIsSuccess
  <2>1. PICK rank \in [Sides -> Ranks] : InvAt(rank)
    BY DEF IInv
  <2>2. Types
    BY DEF IInv
  <2>3. rank["client"] = 11 /\ rank["server"] >= 10 /\ rank["server"] \in Int
    BY <2>1, <2>2, FinishedIsLast, RankTypes, TwoSides
  <2>4. /\ config["server"] = config["client"] /\ config[s] = config["client"]
        /\ results[s].s1 = results["server"].s1 /\ results[s].c2 = results["client"].c2
    BY <2>1, <2>3, TwoSides DEF InvAt, Learned
  <2>5. /\ results["server"].s1 = SentStats("client")
        /\ results["client"].c2 = SentStats("server")
    BY <2>1, <2>3 DEF InvAt, Counted
  <2>6. AllSent("client") /\ AllSent("server")
    <3>1. GotFin(rank, "client") /\ GotFin(rank, "server")
      BY <2>3 DEF GotFin, Fin
    <3> QED BY <3>1, <2>1, TwoSides DEF InvAt, Generated
  <2>7. /\ Valid(SentStats("client"), config["client"])
        /\ Valid(SentStats("server"), config["client"])
    BY <2>4, <2>6 DEF Valid, SentStats, AllSent
  <2> QED BY <2>4, <2>5, <2>7 DEF Success
<1> QED BY <1>1, Invariance, PTL

-----------------------------------------------------------------------------
(* Nobody waits for nobody.  UndisturbedSucceeds is liveness; it rests on  *)
(* this: as long as nothing fails, breaks or times out, no message is lost *)
(* and one of the sessions has something to do.                            *)

Waiting(s) == pc[s] \in DOMAIN Awaits(s)

(* The message s waits for is in its mailbox or under way to it.           *)
Comes(s) ==
  \/ inbox[s][Awaits(s)[pc[s]]] # <<>>
  \/ \E i \in 1..Len(chan[s]) : chan[s][i].type = Awaits(s)[pc[s]]

(* A session that has its connection takes its next step, now or once its  *)
(* message has come.                                                       *)
GoesOn(s) ==
  /\ ~ Ended(s) /\ Connected(s)
  /\ Waiting(s) => Comes(s)
  /\ pc[s] # "connecting" /\ ~ Unaware(s)

(* A waiting session gets its message, or its peer goes on; or its peer is *)
(* the server whose network thread took the connection too early.          *)
NoDeadlock ==
  ~ disturbed => \A s \in Sides :
    Waiting(s) => Comes(s) \/ GoesOn(Peer(s)) \/ Unaware(Peer(s))

(* The rank of a session that has not failed.                              *)
Pos(s) == RankOf(s, pc[s])

(* The connection is there once it is used, until a session has ended.     *)
Settled ==
  /\ \A s \in Sides : pc[s] # "failed"
  /\ link # "lost"
  /\ link = "none" =>
       /\ pc["client"] \in {"start", "connecting"}
       /\ pc["server"] \in {"start", "listening", "accepting"}
  /\ link # "none" => pc["client"] \notin {"start", "connecting"}
  /\ \A s \in closed : pc[s] = "done"

(* What the peer is ahead by is in the mailbox or under way.               *)
Arrives(s) ==
  Pos(Peer(s)) = Pos(s) + 1 =>
    \/ inbox[s][TypeOf(Pos(Peer(s)))] # <<>>
    \/ \E i \in 1..Len(chan[s]) : ~ IsData(chan[s][i])

Arrivals == \A s \in Sides : Arrives(s)

Undisturbed == ~ disturbed => Settled /\ Arrivals

(* Where a session waits, the next message is its peer's to send.          *)
LEMMA WaitingRank ==
  ASSUME NEW s \in Sides, Waiting(s)
  PROVE  /\ s = "client" => Pos(s) \in {1, 3, 5, 7, 9}
         /\ s = "server" => Pos(s) \in {0, 2, 4, 6, 8, 10}
         /\ pc[s] \notin {"start", "connecting", "listening", "accepting", "done", "failed"}
<1>1. CASE s = "client"
  BY <1>1, WaitNames DEF Waiting, Pos, RankOf, ClientRank
<1>2. CASE s = "server"
  BY <1>2, WaitNames DEF Waiting, Pos, RankOf, ServerRank
<1> QED BY <1>1, <1>2, TwoSides

(* A session that is done has the last rank.                               *)
LEMMA DoneRank ==
  ASSUME NEW s \in Sides, pc[s] = "done"
  PROVE  Pos(s) = 11
BY DEF Pos, RankOf, ClientRank, ServerRank

(* Undisturbed, the ranks are those of the positions.                      *)
LEMMA RankIsPos ==
  ASSUME NEW rank \in [Sides -> Ranks], InvAt(rank), Settled
  PROVE  \A s \in Sides : rank[s] = Pos(s) /\ Pos(s) \in Ranks
<1>1. ASSUME NEW s \in Sides
      PROVE  rank[s] = Pos(s) /\ Pos(s) \in Ranks
  <2>1. rank[s] = Pos(s)
    BY DEF InvAt, Lockstep, Settled, Pos
  <2> QED BY <2>1
<1> QED BY <1>1

(* A move of one session changes the rank of no other.                     *)
LEMMA MovePos ==
  ASSUME Types, NEW s \in Sides, NEW to, pc' = [pc EXCEPT ![s] = to]
  PROVE  /\ Pos(s)' = RankOf(s, to) /\ Pos(Peer(s))' = Pos(Peer(s))
         /\ pc'[s] = to /\ pc'[Peer(s)] = pc[Peer(s)]
<1>1. pc'[s] = to /\ pc'[Peer(s)] = pc[Peer(s)]
  BY TwoSides DEF Types
<1> QED BY <1>1 DEF Pos

(* A session that has its connection moves on.                             *)
LEMMA MoveSettled ==
  ASSUME Types, Settled, NEW s \in Sides, NEW to, pc' = [pc EXCEPT ![s] = to],
         to \notin {"failed", "start", "connecting"},
         pc[s] \notin {"start", "connecting", "listening", "accepting", "done"}, UNCHANGED <<link, closed>>
  PROVE  Settled'
<1>1. pc'[s] = to /\ pc'[Peer(s)] = pc[Peer(s)]
  BY MovePos
<1>2. link # "none"
  BY TwoSides DEF Settled
<1>3. \A u \in Sides : pc'[u] # "failed"
  BY <1>1, TwoSides DEF Settled
<1>4. \A u \in closed : pc'[u] = "done"
  <2>1. closed \subseteq Sides
    BY DEF Types, TypeOK
  <2> QED BY <2>1, <1>1, TwoSides DEF Settled
<1>5. pc'["client"] \notin {"start", "connecting"}
  BY <1>1, <1>2, TwoSides DEF Settled
<1> QED BY <1>2, <1>3, <1>4, <1>5 DEF Settled

(* A step at the same rank that leaves mailboxes and connection alone.     *)
LEMMA StayArrivals ==
  ASSUME Types, Arrivals, NEW s \in Sides, NEW to, pc' = [pc EXCEPT ![s] = to],
         RankOf(s, to) = Pos(s), UNCHANGED <<inbox, chan>>
  PROVE  Arrivals'
<1>1. Pos(s)' = Pos(s) /\ Pos(Peer(s))' = Pos(Peer(s))
  BY MovePos
<1>2. ASSUME NEW u \in Sides
      PROVE  Arrives(u)'
  <2>1. Pos(u)' = Pos(u) /\ Pos(Peer(u))' = Pos(Peer(u))
    BY <1>1, TwoSides
  <2>2. Arrives(u)
    BY DEF Arrivals
  <2> QED BY <2>1, <2>2 DEF Arrives
<1> QED BY <1>2 DEF Arrivals

(* A message that is sent gets under way.                                  *)
LEMMA SendArrivals ==
  ASSUME Types, NEW rank \in [Sides -> Ranks], InvAt(rank), Settled, NEW s \in Sides,
         NEW k \in 1..11, NEW from, NEW to,
         Send(s, from, to, TypeOf(k), PhaseNr(k), BodyOf(k)), Sends(s, k),
         from \notin {"start", "connecting", "listening", "accepting", "done", "failed"},
         to \notin {"failed", "start", "connecting"},
         RankOf(s, from) = k - 1, RankOf(s, to) = k
  PROVE  Settled' /\ Arrivals'
<1> DEFINE p == Peer(s)
           m == Numbered(k)
<1>1. /\ pc[s] = from /\ pc' = [pc EXCEPT ![s] = to] /\ Transmit(s, m)
      /\ UNCHANGED <<inbox, link, closed>>
  BY DEF Send, Goto, network, Numbered
<1>2. Settled'
  BY <1>1, MoveSettled
<1>3. rank[s] = k - 1 /\ rank[p] = k - 1
  BY <1>1, InStep
<1>4. Pos(s)' = k /\ Pos(p)' = k - 1 /\ Pos(p) = k - 1
  <2>1. Pos(s)' = k /\ Pos(p)' = Pos(p)
    BY <1>1, MovePos
  <2>2. p \in Sides /\ rank[p] = Pos(p)
    BY RankIsPos, TwoSides
  <2> QED BY <2>1, <2>2, <1>3
<1>5. Connected(s)
  <2>1. link = "up"
    BY <1>1, TwoSides DEF Settled, Types, TypeOK
  <2>2. pc[p] # "done"
    BY <1>4, DoneRank, TwoSides
  <2> QED BY <2>1, <2>2 DEF Connected, Settled
<1>6. chan' = [chan EXCEPT ![p] = Append(@, m)] /\ chan[p] \in Seq(Packet)
  BY <1>1, <1>5, TwoSides DEF Transmit, Types
<1>7. ~ IsData(m) /\ m \in Packet
  BY NumberedType DEF Packet
<1>8. \E i \in 1..Len(chan'[p]) : ~ IsData(chan'[p][i])
  <2>1. chan'[p] = Append(chan[p], m)
    BY <1>6, TwoSides DEF Types
  <2> HIDE DEF m, p
  <2>2. /\ Len(chan[p]) \in Nat /\ Len(chan'[p]) = Len(chan[p]) + 1
        /\ chan'[p][Len(chan[p]) + 1] = m
    BY <2>1, <1>6, <1>7, AppendElements
  <2>3. Len(chan[p]) + 1 \in 1..Len(chan'[p])
    BY <2>2
  <2> QED BY <2>2, <2>3, <1>7
<1>9. Arrives(p)'
  BY <1>8 DEF Arrives
<1>10. Arrives(s)'
  BY <1>4 DEF Arrives
<1> QED BY <1>2, <1>9, <1>10, TwoSides DEF Arrivals

(* A message that is taken was the only one.                               *)
LEMMA TakeArrivals ==
  ASSUME Types, NEW rank \in [Sides -> Ranks], InvAt(rank), Settled, NEW s \in Sides,
         NEW from, from \in DOMAIN Awaits(s), NEW to, Await(s, from, to),
         to \notin {"failed", "start", "connecting"}, RankOf(s, to) = RankOf(s, from) + 1
  PROVE  Settled' /\ Arrivals'
<1> DEFINE p == Peer(s)
           t == Awaits(s)[from]
<1>1. /\ pc[s] = from /\ pc' = [pc EXCEPT ![s] = to] /\ inbox[s][t] # <<>>
      /\ UNCHANGED <<link, closed>>
  BY DEF Await, Goto, network
<1>2. Settled'
  <2>1. Waiting(s)
    BY <1>1 DEF Waiting
  <2> QED BY <2>1, <1>1, WaitingRank, MoveSettled
<1>3. t \in ControlTypes
  BY AwaitedType
<1>4. rank[p] = rank[s] + 1
  BY <1>1, <1>3 DEF InvAt, Inboxes, Coming
<1>5. Pos(s)' = Pos(p)' /\ Pos(s)' \in Int
  <2>1. rank[s] = Pos(s) /\ rank[p] = Pos(p) /\ Pos(s) = RankOf(s, from)
    BY <1>1, RankIsPos, TwoSides DEF Pos
  <2>2. Pos(s)' = RankOf(s, to) /\ Pos(p)' = Pos(p)
    BY <1>1, MovePos
  <2>3. rank[s] \in Int
    BY RankTypes
  <2> QED BY <2>1, <2>2, <2>3, <1>4
<1>6. Arrives(s)' /\ Arrives(p)'
  BY <1>5, TwoSides DEF Arrives
<1> QED BY <1>2, <1>6, TwoSides DEF Arrivals

(* Nothing that is sent is lost.                                           *)
LEMMA SendsUndisturbed ==
  ASSUME Types, NEW rank \in [Sides -> Ranks], InvAt(rank), Settled, ClientSends \/ ServerSends
  PROVE  Settled' /\ Arrivals'
<1>s. "client" \in Sides /\ "server" \in Sides
  BY TwoSides
<1> USE DEF Sends, Odd, Even
<1>1. CASE SendConfig
  <2>1. Send("client", "sendConfig", "waitAck", TypeOf(1), PhaseNr(1), BodyOf(1))
    BY <1>1 DEF SendConfig, TypeOf, PhaseNr, BodyOf
  <2>2. RankOf("client", "sendConfig") = 0 /\ RankOf("client", "waitAck") = 1
    BY DEF RankOf, ClientRank
  <2> QED BY <2>1, <2>2, <1>s, SendArrivals
<1>2. CASE SendFin1
  <2>1. Send("client", "sendFin1", "waitFin1", TypeOf(3), PhaseNr(3), BodyOf(3))
    BY <1>2 DEF SendFin1, TypeOf, PhaseNr, BodyOf
  <2>2. RankOf("client", "sendFin1") = 2 /\ RankOf("client", "waitFin1") = 3
    BY DEF RankOf, ClientRank
  <2> QED BY <2>1, <2>2, <1>s, SendArrivals
<1>3. CASE SendStats1
  <2>1. Send("client", "sendStats1", "waitStatsAck1", TypeOf(5), PhaseNr(5), BodyOf(5))
    BY <1>3 DEF SendStats1, TypeOf, PhaseNr, BodyOf
  <2>2. RankOf("client", "sendStats1") = 4 /\ RankOf("client", "waitStatsAck1") = 5
    BY DEF RankOf, ClientRank
  <2> QED BY <2>1, <2>2, <1>s, SendArrivals
<1>4. CASE SendReady
  <2>1. Send("client", "sendReady", "readySent", TypeOf(7), PhaseNr(7), BodyOf(7))
    BY <1>4 DEF SendReady, TypeOf, PhaseNr, BodyOf
  <2>2. RankOf("client", "sendReady") = 6 /\ RankOf("client", "readySent") = 7
    BY DEF RankOf, ClientRank
  <2> QED BY <2>1, <2>2, <1>s, SendArrivals
<1>5. CASE SendStats2
  <2>1. Send("client", "sendStats2", "waitStatsAck2", TypeOf(9), PhaseNr(9), BodyOf(9))
    BY <1>5 DEF SendStats2, TypeOf, PhaseNr, BodyOf
  <2>2. RankOf("client", "sendStats2") = 8 /\ RankOf("client", "waitStatsAck2") = 9
    BY DEF RankOf, ClientRank
  <2> QED BY <2>1, <2>2, <1>s, SendArrivals
<1>6. CASE SendShutdown
  <2>1. Send("client", "sendShutdown", "shutdownSent", TypeOf(11), PhaseNr(11), BodyOf(11))
    BY <1>6 DEF SendShutdown, TypeOf, PhaseNr, BodyOf
  <2>2. RankOf("client", "sendShutdown") = 10 /\ RankOf("client", "shutdownSent") = 11
    BY DEF RankOf, ClientRank
  <2> QED BY <2>1, <2>2, <1>s, SendArrivals
<1>7. CASE SendAck
  <2>1. Send("server", "sendAck", "ackSent", TypeOf(2), PhaseNr(2), BodyOf(2))
    BY <1>7 DEF SendAck, TypeOf, PhaseNr, BodyOf
  <2>2. RankOf("server", "sendAck") = 1 /\ RankOf("server", "ackSent") = 2
    BY DEF RankOf, ServerRank
  <2> QED BY <2>1, <2>2, <1>s, SendArrivals
<1>8. CASE ServerSendFin1
  <2>1. Send("server", "sendFin1", "waitStats1", TypeOf(4), PhaseNr(4), BodyOf(4))
    BY <1>8 DEF ServerSendFin1, TypeOf, PhaseNr, BodyOf
  <2>2. RankOf("server", "sendFin1") = 3 /\ RankOf("server", "waitStats1") = 4
    BY DEF RankOf, ServerRank
  <2> QED BY <2>1, <2>2, <1>s, SendArrivals
<1>9. CASE SendStatsAck1
  <2>1. Send("server", "sendStatsAck1", "waitReady", TypeOf(6), PhaseNr(6), BodyOf(6))
    BY <1>9 DEF SendStatsAck1, TypeOf, PhaseNr, BodyOf
  <2>2. RankOf("server", "sendStatsAck1") = 5 /\ RankOf("server", "waitReady") = 6
    BY DEF RankOf, ServerRank
  <2> QED BY <2>1, <2>2, <1>s, SendArrivals
<1>10. CASE SendFin2
  <2>1. Send("server", "sendFin2", "waitStats2", TypeOf(8), PhaseNr(8), BodyOf(8))
    BY <1>10 DEF SendFin2, TypeOf, PhaseNr, BodyOf
  <2>2. RankOf("server", "sendFin2") = 7 /\ RankOf("server", "waitStats2") = 8
    BY DEF RankOf, ServerRank
  <2> QED BY <2>1, <2>2, <1>s, SendArrivals
<1>11. CASE SendStatsAck2
  <2>1. Send("server", "sendStatsAck2", "waitShutdown", TypeOf(10), PhaseNr(10), BodyOf(10))
    BY <1>11 DEF SendStatsAck2, TypeOf, PhaseNr, BodyOf
  <2>2. RankOf("server", "sendStatsAck2") = 9 /\ RankOf("server", "waitShutdown") = 10
    BY DEF RankOf, ServerRank
  <2> QED BY <2>1, <2>2, <1>s, SendArrivals
<1> QED
  BY <1>1, <1>2, <1>3, <1>4, <1>5, <1>6, <1>7, <1>8, <1>9, <1>10, <1>11
     DEF ClientSends, ServerSends

(* Nothing is under way once it is taken.                                  *)
LEMMA TakesUndisturbed ==
  ASSUME Types, NEW rank \in [Sides -> Ranks], InvAt(rank), Settled, ClientTakes \/ ServerTakes
  PROVE  Settled' /\ Arrivals'
<1>s. "client" \in Sides /\ "server" \in Sides
  BY TwoSides
<1>1. CASE AwaitAck
  <2>1. Await("client", "waitAck", "generate")
    BY <1>1 DEF AwaitAck
  <2>2. RankOf("client", "generate") = RankOf("client", "waitAck") + 1
    BY DEF RankOf, ClientRank
  <2> QED BY <2>1, <2>2, <1>s, WaitNames, TakeArrivals
<1>2. CASE AwaitFin1
  <2>1. Await("client", "waitFin1", "sendStats1")
    BY <1>2 DEF AwaitFin1
  <2>2. RankOf("client", "sendStats1") = RankOf("client", "waitFin1") + 1
    BY DEF RankOf, ClientRank
  <2> QED BY <2>1, <2>2, <1>s, WaitNames, TakeArrivals
<1>3. CASE AwaitStatsAck1
  <2>1. Await("client", "waitStatsAck1", "sendReady")
    BY <1>3 DEF AwaitStatsAck1
  <2>2. RankOf("client", "sendReady") = RankOf("client", "waitStatsAck1") + 1
    BY DEF RankOf, ClientRank
  <2> QED BY <2>1, <2>2, <1>s, WaitNames, TakeArrivals
<1>4. CASE AwaitFin2
  <2>1. Await("client", "waitFin2", "sendStats2")
    BY <1>4 DEF AwaitFin2
  <2>2. RankOf("client", "sendStats2") = RankOf("client", "waitFin2") + 1
    BY DEF RankOf, ClientRank
  <2> QED BY <2>1, <2>2, <1>s, WaitNames, TakeArrivals
<1>5. CASE AwaitStatsAck2
  <2>1. Await("client", "waitStatsAck2", "sendShutdown")
    BY <1>5 DEF AwaitStatsAck2
  <2>2. RankOf("client", "sendShutdown") = RankOf("client", "waitStatsAck2") + 1
    BY DEF RankOf, ClientRank
  <2> QED BY <2>1, <2>2, <1>s, WaitNames, TakeArrivals
<1>6. CASE AwaitConfig
  <2>1. Await("server", "waitConfig", "sendAck")
    BY <1>6 DEF AwaitConfig
  <2>2. RankOf("server", "sendAck") = RankOf("server", "waitConfig") + 1
    BY DEF RankOf, ServerRank
  <2> QED BY <2>1, <2>2, <1>s, WaitNames, TakeArrivals
<1>7. CASE ServerAwaitFin1
  <2>1. Await("server", "waitFin1", "sendFin1")
    BY <1>7 DEF ServerAwaitFin1
  <2>2. RankOf("server", "sendFin1") = RankOf("server", "waitFin1") + 1
    BY DEF RankOf, ServerRank
  <2> QED BY <2>1, <2>2, <1>s, WaitNames, TakeArrivals
<1>8. CASE AwaitStats1
  <2>1. Await("server", "waitStats1", "sendStatsAck1")
    BY <1>8 DEF AwaitStats1
  <2>2. RankOf("server", "sendStatsAck1") = RankOf("server", "waitStats1") + 1
    BY DEF RankOf, ServerRank
  <2> QED BY <2>1, <2>2, <1>s, WaitNames, TakeArrivals
<1>9. CASE AwaitReady
  <2>1. Await("server", "waitReady", "generate")
    BY <1>9 DEF AwaitReady
  <2>2. RankOf("server", "generate") = RankOf("server", "waitReady") + 1
    BY DEF RankOf, ServerRank
  <2> QED BY <2>1, <2>2, <1>s, WaitNames, TakeArrivals
<1>10. CASE AwaitStats2
  <2>1. Await("server", "waitStats2", "sendStatsAck2")
    BY <1>10 DEF AwaitStats2
  <2>2. RankOf("server", "sendStatsAck2") = RankOf("server", "waitStats2") + 1
    BY DEF RankOf, ServerRank
  <2> QED BY <2>1, <2>2, <1>s, WaitNames, TakeArrivals
<1>11. CASE AwaitShutdown
  <2>1. Await("server", "waitShutdown", "done")
    BY <1>11 DEF AwaitShutdown
  <2>2. RankOf("server", "done") = RankOf("server", "waitShutdown") + 1
    BY DEF RankOf, ServerRank
  <2> QED BY <2>1, <2>2, <1>s, WaitNames, TakeArrivals
<1> QED
  BY <1>1, <1>2, <1>3, <1>4, <1>5, <1>6, <1>7, <1>8, <1>9, <1>10, <1>11
     DEF ClientTakes, ServerTakes

(* The steps in between.                                                   *)
LEMMA StaysUndisturbed ==
  ASSUME Types, Settled, Arrivals, ~ disturbed',
         ClientStays \/ ServerStays \/ \E s \in Sides : GeneratorStops(s)
  PROVE  Settled' /\ Arrivals'
<1>s. "client" \in Sides /\ "server" \in Sides /\ Peer("client") = "server"
      /\ Peer("server") = "client" /\ Sides = {"client", "server"}
  BY TwoSides
<1>c. closed \subseteq Sides
  BY DEF Types, TypeOK
<1> USE DEF Goto, network
<1>1. CASE ClientInitFails \/ ServerInitFails
  BY <1>1 DEF ClientInitFails, ServerInitFails, Fail
<1>2. CASE ClientStart
  <2>1. /\ pc["client"] = "start" /\ pc' = [pc EXCEPT !["client"] = "connecting"]
        /\ UNCHANGED <<inbox, chan, closed>>
    BY <1>2 DEF ClientStart
  <2>2. RankOf("client", "connecting") = Pos("client")
    BY <2>1 DEF Pos, RankOf, ClientRank
  <2>3. Arrivals'
    BY <2>1, <2>2, <1>s, StayArrivals
  <2>4. pc'["client"] = "connecting" /\ pc'["server"] = pc["server"]
    BY <2>1, <1>s, MovePos
  <2>5. Settled'
    BY <1>2, <2>1, <2>4, <1>s, <1>c DEF Settled, ClientStart
  <2> QED BY <2>3, <2>5
<1>3. CASE Connect
  <2>1. /\ pc["client"] = "connecting" /\ pc' = [pc EXCEPT !["client"] = "sendConfig"]
        /\ UNCHANGED <<inbox, chan, closed>>
    BY <1>3 DEF Connect
  <2>2. RankOf("client", "sendConfig") = Pos("client")
    BY <2>1 DEF Pos, RankOf, ClientRank
  <2>3. Arrivals'
    BY <2>1, <2>2, <1>s, StayArrivals
  <2>4. pc'["client"] = "sendConfig" /\ pc'["server"] = pc["server"]
    BY <2>1, <1>s, MovePos
  <2>5. Settled'
    BY <1>3, <2>1, <2>4, <1>s, <1>c DEF Settled, Connect
  <2> QED BY <2>3, <2>5
<1>4. CASE AfterReady
  <2>1. /\ pc["client"] = "readySent" /\ pc' = [pc EXCEPT !["client"] = "waitFin2"]
        /\ UNCHANGED <<inbox, chan, closed>>
    BY <1>4 DEF AfterReady
  <2>2. RankOf("client", "waitFin2") = Pos("client")
    BY <2>1 DEF Pos, RankOf, ClientRank
  <2>3. Arrivals'
    BY <2>1, <2>2, <1>s, StayArrivals
  <2>5. Settled'
    BY <1>4, <2>1, <1>s, MoveSettled DEF AfterReady
  <2> QED BY <2>3, <2>5
<1>5. CASE ClientFinishes
  <2>1. /\ pc["client"] = "shutdownSent" /\ pc' = [pc EXCEPT !["client"] = "done"]
        /\ UNCHANGED <<inbox, chan, closed>>
    BY <1>5 DEF ClientFinishes
  <2>2. RankOf("client", "done") = Pos("client")
    BY <2>1 DEF Pos, RankOf, ClientRank
  <2>3. Arrivals'
    BY <2>1, <2>2, <1>s, StayArrivals
  <2>5. Settled'
    BY <1>5, <2>1, <1>s, MoveSettled DEF ClientFinishes
  <2> QED BY <2>3, <2>5
<1>6. CASE PrepareServer
  <2>1. /\ pc["server"] = "start" /\ pc' = [pc EXCEPT !["server"] = "listening"]
        /\ UNCHANGED <<inbox, chan, link, closed>>
    BY <1>6 DEF PrepareServer, network
  <2>2. RankOf("server", "listening") = Pos("server")
    BY <2>1 DEF Pos, RankOf, ServerRank
  <2>3. Arrivals'
    BY <2>1, <2>2, <1>s, StayArrivals
  <2>4. pc'["server"] = "listening" /\ pc'["client"] = pc["client"]
    BY <2>1, <1>s, MovePos
  <2>5. Settled'
    BY <2>1, <2>4, <1>s, <1>c DEF Settled
  <2> QED BY <2>3, <2>5
<1>10. CASE RegisterAccept
  <2>1. /\ pc["server"] = "listening" /\ pc' = [pc EXCEPT !["server"] = "accepting"]
        /\ UNCHANGED <<inbox, chan, link, closed>>
    BY <1>10 DEF RegisterAccept, network
  <2>2. RankOf("server", "accepting") = Pos("server")
    BY <2>1 DEF Pos, RankOf, ServerRank
  <2>3. Arrivals'
    BY <2>1, <2>2, <1>s, StayArrivals
  <2>4. pc'["server"] = "accepting" /\ pc'["client"] = pc["client"]
    BY <2>1, <1>s, MovePos
  <2>5. Settled'
    BY <2>1, <2>4, <1>s, <1>c DEF Settled
  <2> QED BY <2>3, <2>5
<1>7. CASE Accept
  <2>1. /\ pc["server"] = "accepting" /\ pc' = [pc EXCEPT !["server"] = "waitConfig"]
        /\ UNCHANGED <<inbox, chan, closed>>
    BY <1>7 DEF Accept
  <2>2. RankOf("server", "waitConfig") = Pos("server")
    BY <2>1 DEF Pos, RankOf, ServerRank
  <2>3. Arrivals'
    BY <2>1, <2>2, <1>s, StayArrivals
  <2>4. pc'["server"] = "waitConfig" /\ pc'["client"] = pc["client"]
    BY <2>1, <1>s, MovePos
  <2>5. Settled'
    BY <1>7, <2>1, <2>4, <1>s, <1>c DEF Settled, Accept
  <2> QED BY <2>3, <2>5
<1>8. CASE AfterAck
  <2>1. /\ pc["server"] = "ackSent" /\ pc' = [pc EXCEPT !["server"] = "waitFin1"]
        /\ UNCHANGED <<inbox, chan, closed>>
    BY <1>8 DEF AfterAck
  <2>2. RankOf("server", "waitFin1") = Pos("server")
    BY <2>1 DEF Pos, RankOf, ServerRank
  <2>3. Arrivals'
    BY <2>1, <2>2, <1>s, StayArrivals
  <2>5. Settled'
    BY <1>8, <2>1, <1>s, MoveSettled DEF AfterAck
  <2> QED BY <2>3, <2>5
<1>9. ASSUME NEW s \in Sides, GeneratorStops(s)
      PROVE  Settled' /\ Arrivals'
  <2> DEFINE to == IF s = "client" THEN "sendFin1" ELSE "sendFin2"
  <2>1. /\ pc[s] = "generate" /\ pc' = [pc EXCEPT ![s] = to]
        /\ UNCHANGED <<inbox, chan, link, closed>>
    BY <1>9 DEF GeneratorStops
  <2>2. RankOf(s, to) = Pos(s) /\ to \notin {"failed", "start", "connecting"}
    BY <2>1, <1>s DEF Pos, RankOf, ClientRank, ServerRank
  <2> HIDE DEF to
  <2> QED BY <2>1, <2>2, StayArrivals, MoveSettled
<1> QED
  BY <1>1, <1>2, <1>3, <1>4, <1>5, <1>6, <1>7, <1>8, <1>9, <1>10 DEF ClientStays, ServerStays

(* No session moves and the connection stays as it is.                     *)
LEMMA NobodyMoves ==
  ASSUME Settled, UNCHANGED <<pc, link, closed>>
  PROVE  Settled' /\ \A s \in Sides : Pos(s)' = Pos(s)
BY DEF Settled, Pos

(* A data packet does not overtake the message under way.                  *)
LEMMA GenerateUndisturbed ==
  ASSUME Types, Settled, Arrivals, NEW s \in Sides, GeneratePacket(s)
  PROVE  Settled' /\ Arrivals'
<1> DEFINE m == Data(Phase(s), tx[s])
           p == Peer(s)
<1>1. UNCHANGED <<pc, inbox, link, closed>> /\ Transmit(s, m)
  BY DEF GeneratePacket, network
<1>2. Settled' /\ \A u \in Sides : Pos(u)' = Pos(u)
  BY <1>1, NobodyMoves
<1>3. m \in Packet /\ chan[p] \in Seq(Packet) /\ p \in Sides
  <2>1. tx \in [Sides -> 0..MaxPackets] /\ p \in Sides /\ chan \in [Sides -> Seq(Packet)]
    BY TwoSides DEF Types, TypeOK
  <2>2. tx[s] \in Nat
    BY <2>1
  <2> QED BY <2>1, <2>2 DEF Data, Phase, Packet, DataPacket
<1>4. chan'[s] = chan[s] /\ (chan'[p] = chan[p] \/ chan'[p] = Append(chan[p], m))
  BY <1>1, TwoSides DEF Transmit, Types
<1>5. ASSUME NEW u \in Sides, NEW i \in 1..Len(chan[u]), ~ IsData(chan[u][i])
      PROVE  \E j \in 1..Len(chan'[u]) : ~ IsData(chan'[u][j])
  <2>1. CASE chan'[u] = chan[u]
    BY <2>1, <1>5
  <2>2. CASE u = p /\ chan'[u] = Append(chan[p], m)
    <3> HIDE DEF m, p
    <3>1. i \in 1..Len(chan'[u]) /\ chan'[u][i] = chan[u][i]
      BY <2>2, <1>3, <1>5, AppendElements
    <3> QED BY <3>1, <1>5
  <2> QED BY <2>1, <2>2, <1>4, TwoSides
<1>6. ASSUME NEW u \in Sides
      PROVE  Arrives(u)'
  <2>1. Arrives(u) /\ Pos(u)' = Pos(u) /\ Pos(Peer(u))' = Pos(Peer(u))
    BY <1>2, TwoSides DEF Arrivals
  <2> QED BY <2>1, <1>1, <1>5 DEF Arrives
<1> QED BY <1>2, <1>6 DEF Arrivals

(* The receive loop moves the message from the connection to the mailbox.  *)
LEMMA ReceiveUndisturbed ==
  ASSUME Types, NEW rank \in [Sides -> Ranks], InvAt(rank), Settled, Arrivals,
         NEW s \in Sides, Receive(s)
  PROVE  Settled' /\ Arrivals'
<1> DEFINE p == Peer(s)
           c == chan[s]
<1>1. /\ UNCHANGED <<pc, link, closed>> /\ chan' = [chan EXCEPT ![s] = Tail(@)]
      /\ c # <<>> /\ (DispatchData(s) \/ DispatchControl(s))
  BY DEF Receive, network
<1>2. Settled' /\ \A u \in Sides : Pos(u)' = Pos(u)
  BY <1>1, NobodyMoves
<1>3. c \in Seq(Packet) /\ chan'[s] = Tail(c) /\ chan'[p] = chan[p] /\ p \in Sides
  BY <1>1, TwoSides DEF Types
<1>p. Pos(s)' = Pos(s) /\ Pos(p)' = Pos(p) /\ Peer(p) = s /\ Peer(s) = p
  BY <1>2, <1>3, TwoSides
<1>a. Arrives(s) /\ Arrives(p)
  BY <1>3 DEF Arrivals
<1>4. CASE DispatchData(s)
  <2>1. IsData(Head(c)) /\ inbox' = inbox
    BY <1>4 DEF DispatchData, IsData
  <2>2. ASSUME NEW i \in 1..Len(c), ~ IsData(c[i])
        PROVE  \E j \in 1..Len(Tail(c)) : ~ IsData(Tail(c)[j])
    <3> HIDE DEF c
    <3>1. /\ Len(c) \in Nat /\ Len(Tail(c)) = Len(c) - 1 /\ Head(c) = c[1]
          /\ \A j \in 1..Len(Tail(c)) : Tail(c)[j] = c[j + 1]
      BY <1>1, <1>3, TailElements
    <3>2. i # 1
      BY <2>1, <2>2, <3>1
    <3>3. i - 1 \in 1..Len(Tail(c)) /\ (i - 1) + 1 = i
      BY <3>1, <3>2
    <3>4. Tail(c)[i - 1] = c[i]
      BY <3>1, <3>3
    <3> QED BY <3>3, <3>4, <2>2
  <2>3. Arrives(s)'
    BY <1>a, <1>p, <1>3, <2>1, <2>2 DEF Arrives
  <2>4. Arrives(p)'
    BY <1>a, <1>p, <1>3, <2>1 DEF Arrives
  <2> QED BY <1>2, <2>3, <2>4, TwoSides DEF Arrivals
<1>5. CASE DispatchControl(s)
  <2> DEFINE t == Head(c).type
  <2>1. ~ IsData(Head(c)) /\ inbox' = [inbox EXCEPT ![s][t] = Append(@, Head(c))]
    BY <1>5 DEF DispatchControl, IsData
  <2>2. Head(c) = Numbered(rank[p]) /\ Coming(rank, s)
    <3>1. 1 \in 1..Len(c) /\ Head(c) = c[1]
      <4> HIDE DEF c
      <4> QED BY <1>1, <1>3, TailElements
    <3> QED BY <3>1, <2>1 DEF InvAt, Channels
  <2>3. rank[p] = Pos(p) /\ rank[p] \in 1..11
    <3>1. rank[p] = Pos(p)
      BY <1>3, RankIsPos
    <3>2. rank[p] \in Ranks /\ rank[s] \in Ranks /\ rank[p] = rank[s] + 1
      BY <2>2, RankTypes DEF Coming
    <3> QED BY <3>1, <3>2 DEF Ranks
  <2>4. t = TypeOf(Pos(p)) /\ t \in ControlTypes
    BY <2>2, <2>3, NumberedType
  <2>5. inbox'[s][t] = Append(inbox[s][t], Head(c)) /\ inbox'[p] = inbox[p]
    <3> HIDE DEF t
    <3> QED BY <2>1, <2>4, TwoSides DEF Types
  <2>6. inbox'[s][t] # <<>>
    <3> HIDE DEF t, c
    <3>1. inbox[s][t] \in Seq(ControlPacket)
      BY <2>4 DEF Types
    <3> QED BY <3>1, <2>5
  <2>7. Arrives(s)'
    BY <1>p, <2>4, <2>6 DEF Arrives
  <2>8. Arrives(p)'
    BY <1>a, <1>p, <1>3, <2>5 DEF Arrives
  <2> QED BY <1>2, <2>7, <2>8, TwoSides DEF Arrivals
<1> QED BY <1>1, <1>4, <1>5

(* A session that is done waits for nothing.                               *)
LEMMA CloseUndisturbed ==
  ASSUME Types, NEW rank \in [Sides -> Ranks], InvAt(rank), Settled, Arrivals,
         NEW s \in Sides, Close(s)
  PROVE  Settled' /\ Arrivals'
<1> DEFINE p == Peer(s)
<1>1. /\ UNCHANGED <<pc, inbox, link>> /\ closed' = closed \cup {s} /\ link = "up"
      /\ pc[s] = "done" /\ chan' = [chan EXCEPT ![s] = <<>>]
  BY DEF Close, Ended, Settled
<1>2. Settled'
  BY <1>1 DEF Settled
<1>3. Pos(s)' = 11 /\ Pos(p)' = Pos(p) /\ Pos(s)' = Pos(s) /\ p \in Sides /\ Peer(p) = s
  BY <1>1, DoneRank, TwoSides DEF Pos
<1>4. Pos(p) \in Ranks
  BY <1>3, RankIsPos
<1>5. Arrives(s)'
  BY <1>3, <1>4 DEF Arrives, Ranks
<1>6. chan'[p] = chan[p]
  BY <1>1, TwoSides DEF Types
<1>7. Arrives(p)'
  BY <1>1, <1>3, <1>6 DEF Arrives, Arrivals
<1> QED BY <1>2, <1>5, <1>7, TwoSides DEF Arrivals

(* Every step keeps it; once disturbed, a test stays disturbed.            *)
LEMMA UndisturbedStep == IInv /\ Undisturbed /\ [Next]_vars => Undisturbed'
<1> SUFFICES ASSUME IInv, Undisturbed, [Next]_vars, ~ disturbed'
             PROVE  Settled' /\ Arrivals'
  BY DEF Undisturbed
<1>t. Types
  BY DEF IInv
<1>r. PICK rank \in [Sides -> Ranks] : InvAt(rank)
  BY DEF IInv
<1>d. ~ disturbed
  <2> USE DEF Fail, Send, Await, Goto
  <2>1. CASE ClientSends \/ ServerSends
    BY <2>1 DEF ClientSends, ServerSends, SendConfig, SendFin1, SendStats1, SendReady,
       SendStats2, SendShutdown, SendAck, ServerSendFin1, SendStatsAck1, SendFin2,
       SendStatsAck2
  <2>2. CASE ClientContinues
    BY <2>2 DEF ClientContinues, ClientStart, Connect, AwaitAck, AwaitFin1, AwaitStatsAck1,
       AfterReady, AwaitFin2, AwaitStatsAck2, ClientFinishes
  <2>3. CASE ServerContinues
    BY <2>3 DEF ServerContinues, PrepareServer, RegisterAccept, Accept, AwaitConfig, AfterAck, ServerAwaitFin1,
       AwaitStats1, AwaitReady, AwaitStats2, AwaitShutdown
  <2>4. CASE ClientInitFails \/ ServerInitFails \/ Lose \/ AcceptUnheard
    BY <2>4 DEF ClientInitFails, ServerInitFails, Lose, AcceptUnheard
  <2>5. ASSUME NEW s \in Sides, Generate(s) \/ Receive(s) \/ Timeout(s) \/ Close(s)
        PROVE  ~ disturbed
    BY <2>5 DEF Generate, GeneratePacket, GeneratorStops, Receive, Timeout, Close
  <2>6. CASE UNCHANGED vars
    BY <2>6 DEF vars
  <2> QED BY <2>1, <2>2, <2>3, <2>4, <2>5, <2>6 DEF Next
<1>u. Settled /\ Arrivals
  BY <1>d DEF Undisturbed
<1>1. CASE ClientSends \/ ServerSends
  BY <1>1, <1>t, <1>r, <1>u, SendsUndisturbed
<1>2. CASE ClientTakes \/ ServerTakes
  BY <1>2, <1>t, <1>r, <1>u, TakesUndisturbed
<1>3. CASE ClientStays \/ ServerStays
  BY <1>3, <1>t, <1>u, StaysUndisturbed
<1>4. ASSUME NEW s \in Sides, Generate(s) \/ Receive(s) \/ Timeout(s) \/ Close(s)
      PROVE  Settled' /\ Arrivals'
  <2>1. CASE Generate(s)
    BY <2>1, <1>t, <1>u, GenerateUndisturbed, StaysUndisturbed DEF Generate
  <2>2. CASE Receive(s)
    BY <2>2, <1>t, <1>r, <1>u, ReceiveUndisturbed
  <2>3. CASE Timeout(s)
    BY <2>3 DEF Timeout, Fail
  <2>4. CASE Close(s)
    BY <2>4, <1>t, <1>r, <1>u, CloseUndisturbed
  <2> QED BY <1>4, <2>1, <2>2, <2>3, <2>4
<1>5. CASE Lose
  BY <1>5 DEF Lose
<1>6. CASE AcceptUnheard \/ UNCHANGED vars
  <2>1. UNCHANGED <<pc, inbox, chan, link, closed>>
    BY <1>6 DEF AcceptUnheard, vars, network
  <2>2. Settled' /\ \A s \in Sides : Pos(s)' = Pos(s)
    BY <2>1, <1>u, NobodyMoves
  <2> QED BY <2>1, <2>2, <1>u, TwoSides DEF Arrivals, Arrives
<1>7. \/ ClientSends \/ ServerSends \/ ClientTakes \/ ServerTakes \/ ClientStays \/ ServerStays
      \/ (\E s \in Sides : Generate(s) \/ Receive(s) \/ Timeout(s) \/ Close(s)) \/ Lose
      \/ AcceptUnheard \/ UNCHANGED vars
  BY DEF Next, ClientContinues, ServerContinues, ClientTakes, ServerTakes, ClientStays,
     ServerStays
<1> QED BY <1>1, <1>2, <1>3, <1>4, <1>5, <1>6, <1>7

(* The safety half of UndisturbedSucceeds: undisturbed, the two sessions   *)
(* never wait for each other, for tests of any length and any number of    *)
(* network threads.  The one wait without an end is for the server that    *)
(* called accept() after its network thread had taken the connection.      *)
THEOREM SessionsNeverDeadlock == SafetySpec => []NoDeadlock
<1>1. Init => Undisturbed
  <2> SUFFICES ASSUME Init PROVE Settled /\ Arrivals
    BY DEF Undisturbed
  <2>1. \A s \in Sides : pc[s] = "start" /\ Pos(s) = 0
    BY DEF Init, Pos, RankOf, ClientRank, ServerRank
  <2>2. Settled
    BY <2>1, TwoSides DEF Init, Settled
  <2>3. Arrivals
    BY <2>1, TwoSides DEF Arrivals, Arrives
  <2> QED BY <2>2, <2>3
<1>2. IInv /\ Undisturbed => NoDeadlock
  <2> SUFFICES ASSUME IInv, Undisturbed, ~ disturbed, NEW s \in Sides, Waiting(s),
                      ~ Comes(s), ~ Unaware(Peer(s))
               PROVE  GoesOn(Peer(s))
    BY DEF NoDeadlock
  <2> DEFINE p == Peer(s)
  <2>t. Types /\ Settled /\ Arrivals
    BY DEF IInv, Undisturbed
  <2>r. PICK rank \in [Sides -> Ranks] : InvAt(rank)
    BY DEF IInv
  <2>p. p \in Sides /\ Peer(p) = s /\ Peer(s) = p
    BY TwoSides
  <2>1. \A u \in Sides : rank[u] = Pos(u) /\ Pos(u) \in Ranks
    BY <2>t, <2>r, RankIsPos
  <2>2. ASSUME NEW u \in Sides, Waiting(u), Pos(Peer(u)) = Pos(u) + 1
        PROVE  Comes(u)
    <3>1. Awaits(u)[pc[u]] = TypeOf(Pos(u) + 1)
      BY <2>2, AwaitedType DEF Waiting, Pos
    <3>2. CASE inbox[u][TypeOf(Pos(Peer(u)))] # <<>>
      BY <3>1, <3>2, <2>2 DEF Comes
    <3>3. ASSUME NEW i \in 1..Len(chan[u]), ~ IsData(chan[u][i])
          PROVE  Comes(u)
      <4>1. chan[u][i] = Numbered(rank[Peer(u)])
        BY <3>3, <2>r DEF InvAt, Channels
      <4>2. rank[Peer(u)] = Pos(u) + 1 /\ rank[Peer(u)] \in 1..11
        <5>1. rank[Peer(u)] = Pos(Peer(u)) /\ Pos(Peer(u)) \in Ranks /\ Pos(u) \in Ranks
          BY <2>1, TwoSides
        <5> QED BY <5>1, <2>2 DEF Ranks
      <4>3. chan[u][i].type = TypeOf(Pos(u) + 1)
        BY <4>1, <4>2, <2>t, NumberedType
      <4> QED BY <4>3, <3>1, <3>3 DEF Comes
    <3> QED BY <3>2, <3>3, <2>2, <2>t DEF Arrivals, Arrives
  <2>3. /\ s = "client" => Pos(s) \in {1, 3, 5, 7, 9}
        /\ s = "server" => Pos(s) \in {0, 2, 4, 6, 8, 10}
        /\ pc[s] \notin {"start", "connecting", "listening", "accepting", "done", "failed"}
    BY WaitingRank
  <2>4. Pos(p) = Pos(s) \/ Pos(s) = Pos(p) + 1
    <3>1. Pos(p) # Pos(s) + 1
      BY <2>2
    <3>2. \/ Pos("client") = Pos("server") \/ Pos("client") = Pos("server") + 1
          \/ Pos("server") = Pos("client") + 1
      BY <2>1, <2>r, TwoSides DEF InvAt, Lockstep
    <3> QED BY <3>1, <3>2, <2>p, TwoSides
  <2>5. ~ Ended(p)
    <3>1. Pos(p) # 11
      BY <2>1, <2>3, <2>4, <2>p, TwoSides DEF Ranks
    <3> QED BY <3>1, <2>p, <2>t, DoneRank DEF Ended, Settled
  <2>6. Connected(p)
    <3>1. link = "up"
      BY <2>3, <2>t, TwoSides DEF Settled, Types, TypeOK
    <3>2. s \notin closed
      BY <2>3, <2>t DEF Settled
    <3> QED BY <3>1, <3>2, <2>p DEF Connected
  <2>7. ASSUME Waiting(p)
        PROVE  Comes(p)
    <3>1. /\ p = "client" => Pos(p) \in {1, 3, 5, 7, 9}
          /\ p = "server" => Pos(p) \in {0, 2, 4, 6, 8, 10}
      BY <2>7, <2>p, WaitingRank
    <3>2. Pos(p) # Pos(s)
      BY <3>1, <2>3, <2>p, TwoSides
    <3>3. Pos(s) = Pos(p) + 1
      BY <3>2, <2>4
    <3> QED BY <3>3, <2>2, <2>7, <2>p
  <2>8. pc[p] # "connecting"
    <3>1. p = "client" => pc[p] # "connecting"
      BY <2>6, <2>t DEF Settled, Connected
    <3>2. p = "server" => pc[p] # "connecting"
      BY <2>t, <2>p, Places DEF Types, TypeOK
    <3> QED BY <3>1, <3>2, <2>p, TwoSides
  <2> QED BY <2>5, <2>6, <2>7, <2>8 DEF GoesOn
<1> QED BY <1>1, <1>2, UndisturbedStep, Invariance, PTL DEF SafetySpec
=============================================================================
