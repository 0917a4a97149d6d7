---------------------- MODULE LinuxAsyncNetworkProofs ----------------------
(***************************************************************************)
(* The epoll backend is right for any stream the peer sends: types, that a *)
(* callback is called out of turn only for the causes that StraysHaveCause *)
(* lists, that epoll is asked for what is waited for and who holds the     *)
(* mutex, that the pieces in which the stream comes do not matter to what  *)
(* the parser finds in it, and that the packets of a well-formed stream    *)
(* are all found, each when it is complete, with stray bytes between them  *)
(* or not.                                                                 *)
(***************************************************************************)
EXTENDS LinuxAsyncNetwork, SequenceTheorems, FiniteSetTheorems, WellFoundedInduction, TLAPS

-----------------------------------------------------------------------------
(* The inductive invariant.                                                *)

(* What is left of an event can only be one of these.                      *)
Idle == <<>>
Accepting == <<"accept">>
Connecting == <<"connect">>
Writing == <<"out">>
Reading == <<"in">>
WritingReading == <<"out", "in">>
HungUp == <<"hangUp", "failConnect", "erase">>
Failing == <<"failConnect", "erase">>
Erasing == <<"erase">>
Events ==
  {Idle, Accepting, Connecting, Writing, Reading, WritingReading, HungUp, Failing, Erasing}

(* Bytes are queued while the session waits for its send, and not lost.    *)
BytesInv ==
  /\ sendData + wire = submitted
  /\ \E k \in Nat : submitted = k * PacketSize
  /\ sendData > 0 => session = "send"

(* Only a server has a backlog; a client's op tells how its connect() is.  *)
ModeInv ==
  /\ backlog <= peers
  /\ mode = "client" => peers = 0 /\ "accept" \notin callbacks
  /\ mode = "server" => op = "Recv" /\ peer \notin {"connecting", "refused"}
  /\ peer \in {"connecting", "refused"} => op = "Connect"
  /\ peer \in {"none", "connecting"} => arrived = 0 /\ taken = 0

(* Where the descriptor is.                                                *)
EntryInv ==
  /\ entry = "none" => ~ polled /\ op = "Recv" /\ peer = "none"
  /\ entry \in {"none", "unmapped"} => "in" \notin mask
  /\ entry = "gone" /\ (polled \/ op = "Connect") => worker = "ended"
  /\ entry = "mapped" /\ "in" \in mask => receiver = "receive" \/ work \in {Failing, Erasing}
  /\ "receive" \in callbacks => receiver # "none"

(* What was so when epoll reported an event is still so when the worker    *)
(* gets to it.                                                             *)
WorkInv ==
  /\ work \in Events
  /\ worker = "ended" => work = Idle
  /\ work = Accepting => backlog > 0
  /\ work = Connecting => op = "Connect" /\ peer # "connecting"
  /\ work \in {Reading, WritingReading} => receiver = "receive" /\ op = "Recv" /\ entry # "none"
  /\ work \in {HungUp, Failing, Erasing} => peer = "reset" /\ op = "Recv" /\ entry # "none"

(* Why the session no longer waits for what it had asked for.              *)
SessionInv ==
  /\ op = "Connect" /\ session # "connect" => early \/ Failed
  /\ "accept" \in callbacks /\ session # "accept" => peers > backlog

IInv ==
  /\ frames \in Streams
  /\ TypeOK /\ BytesInv /\ ModeInv /\ EntryInv /\ WorkInv /\ SessionInv
  /\ StraysHaveCause

-----------------------------------------------------------------------------
(* Numbers.                                                                *)

(* The constants are natural numbers.                                      *)
LEMMA Constants ==
  /\ PacketSize \in Nat /\ MaxSends \in Nat /\ MaxPeers \in Nat
  /\ MaxSends * PacketSize \in Nat
<1>1. PacketSize \in Nat /\ MaxSends \in Nat /\ MaxPeers \in Nat
  BY NetworkAssumption
<1> QED BY <1>1

(* The counters are natural numbers, within their bounds.                  *)
LEMMA Counters ==
  ASSUME TypeOK
  PROVE  /\ sendData \in Nat /\ submitted \in Nat /\ wire \in Nat /\ wire <= submitted
         /\ submitted <= MaxSends * PacketSize
         /\ backlog \in Nat /\ peers \in Nat /\ peers <= MaxPeers
<1> DEFINE M == MaxSends * PacketSize
<1>1. /\ sendData \in 0..M /\ submitted \in 0..M /\ wire \in 0..submitted
      /\ backlog \in 0..MaxPeers /\ peers \in 0..MaxPeers
  BY DEF TypeOK
<1>2. M \in Nat /\ MaxPeers \in Nat
  BY Constants
<1> HIDE DEF M
<1>3. sendData \in Nat /\ submitted \in Nat /\ wire \in Nat /\ wire <= submitted /\ submitted <= M
  BY <1>1, <1>2
<1>4. backlog \in Nat /\ peers \in Nat /\ peers <= MaxPeers
  BY <1>1, <1>2
<1> QED BY <1>3, <1>4 DEF M

(* A packet more is within the bound if anything is.                       *)
LEMMA OneMorePacket ==
  ASSUME NEW k \in Nat, k * PacketSize < MaxSends * PacketSize
  PROVE  k * PacketSize + PacketSize <= MaxSends * PacketSize
<1>1. PacketSize \in Nat /\ MaxSends \in Nat
  BY Constants
<1>2. \A a, b, p \in Nat : a >= b => a * p >= b * p
  OBVIOUS
<1>3. k + 1 <= MaxSends
  <2>1. CASE k >= MaxSends
    <3>1. k * PacketSize >= MaxSends * PacketSize
      BY <1>1, <1>2, <2>1
    <3>2. k * PacketSize \in Nat /\ MaxSends * PacketSize \in Nat
      BY <1>1
    <3> QED BY <3>1, <3>2
  <2> QED BY <2>1, <1>1
<1>4. MaxSends * PacketSize >= (k + 1) * PacketSize
  BY <1>1, <1>2, <1>3
<1>5. (k + 1) * PacketSize = k * PacketSize + PacketSize
  BY <1>1
<1>6. (k + 1) * PacketSize \in Nat /\ MaxSends * PacketSize \in Nat
  BY <1>1
<1> QED BY <1>4, <1>5, <1>6

-----------------------------------------------------------------------------
(* The worker's event.                                                     *)

(* The events are different.                                               *)
LEMMA EventsDiffer ==
  /\ Idle # Accepting /\ Idle # Connecting /\ Idle # Writing /\ Idle # Reading
  /\ Idle # WritingReading /\ Idle # HungUp /\ Idle # Failing /\ Idle # Erasing
  /\ Accepting # Connecting /\ Accepting # Writing /\ Accepting # Reading
  /\ Accepting # WritingReading /\ Accepting # HungUp /\ Accepting # Failing
  /\ Accepting # Erasing /\ Connecting # Writing /\ Connecting # Reading
  /\ Connecting # WritingReading /\ Connecting # HungUp /\ Connecting # Failing
  /\ Connecting # Erasing /\ Writing # Reading /\ Writing # WritingReading
  /\ Writing # HungUp /\ Writing # Failing /\ Writing # Erasing
  /\ Reading # WritingReading /\ Reading # HungUp /\ Reading # Failing
  /\ Reading # Erasing /\ WritingReading # HungUp /\ WritingReading # Failing
  /\ WritingReading # Erasing /\ HungUp # Failing /\ HungUp # Erasing
  /\ Failing # Erasing
<1> DEFINE Sig(q) == <<Len(q), q[1]>>
<1>1. /\ Len(Idle) = 0 /\ Len(WritingReading) = 2 /\ Len(HungUp) = 3 /\ Len(Failing) = 2
      /\ \A q \in {Accepting, Connecting, Writing, Reading, Erasing} : Len(q) = 1
  BY DEF Idle, Accepting, Connecting, Writing, Reading, WritingReading, HungUp, Failing, Erasing
<1>2. /\ Accepting[1] = "accept" /\ Connecting[1] = "connect" /\ Writing[1] = "out"
      /\ Reading[1] = "in" /\ WritingReading[1] = "out" /\ Failing[1] = "failConnect"
      /\ Erasing[1] = "erase"
  BY DEF Accepting, Connecting, Writing, Reading, WritingReading, Failing, Erasing
<1> QED BY <1>1, <1>2

(* Doing the next part of an event leaves the rest of it.                  *)
LEMMA DoesIt ==
  ASSUME work \in Events, NEW w, Does(w)
  PROVE  /\ Defined /\ ~ InCallback
         /\ w = "accept" => work = Accepting /\ work' = Idle
         /\ w = "connect" => work = Connecting /\ work' = Idle
         /\ w = "out" => (work = Writing /\ work' = Idle) \/ (work = WritingReading /\ work' = Reading)
         /\ w = "in" => work = Reading /\ work' = Idle
         /\ w = "hangUp" => work = HungUp /\ work' = Failing
         /\ w = "failConnect" => work = Failing /\ work' = Erasing
         /\ w = "erase" => work = Erasing /\ work' = Idle
<1>1. work # Idle /\ Head(work) = w /\ work' = Tail(work) /\ Defined /\ ~ InCallback
  BY DEF Does, Idle
<1>2. /\ Head(Accepting) = "accept" /\ Tail(Accepting) = Idle
      /\ Head(Connecting) = "connect" /\ Tail(Connecting) = Idle
      /\ Head(Writing) = "out" /\ Tail(Writing) = Idle
      /\ Head(Reading) = "in" /\ Tail(Reading) = Idle
      /\ Head(Erasing) = "erase" /\ Tail(Erasing) = Idle
  BY DEF Accepting, Connecting, Writing, Reading, Erasing, Idle
<1>3. /\ Head(WritingReading) = "out" /\ Tail(WritingReading) = Reading
      /\ Head(Failing) = "failConnect" /\ Tail(Failing) = Erasing
      /\ Head(HungUp) = "hangUp" /\ Tail(HungUp) = Failing
  BY DEF WritingReading, Reading, Failing, Erasing, HungUp
<1> QED BY <1>1, <1>2, <1>3 DEF Events

(* EPOLLOUT comes before EPOLLIN.                                          *)
LEMMA Joined ==
  /\ <<"out">> \o <<"in">> = WritingReading /\ <<"out">> \o <<>> = Writing
  /\ <<>> \o <<"in">> = Reading /\ <<>> \o <<>> = Idle
<1> DEFINE S == {"out", "in"}
<1>1. <<"out">> \in Seq(S) /\ <<"in">> \in Seq(S) /\ Len(<<"out">>) = 1 /\ Len(<<"in">>) = 1
      /\ <<"out">>[1] = "out" /\ <<"in">>[1] = "in"
  OBVIOUS
<1>2. WritingReading \in Seq(S) /\ Len(WritingReading) = 2
      /\ WritingReading[1] = "out" /\ WritingReading[2] = "in"
  BY DEF WritingReading
<1>3. ASSUME NEW s \in Seq(S), NEW t \in Seq(S), Len(s) = 1, Len(t) = 1
      PROVE  /\ s \o t \in Seq(S) /\ Len(s \o t) = 2 /\ (s \o t)[1] = s[1] /\ (s \o t)[2] = t[1]
             /\ s \o <<>> = s /\ <<>> \o t = t
  <2> HIDE DEF S
  <2>1. s \o t \in Seq(S) /\ Len(s \o t) = 2 /\ (s \o t)[1] = s[1] /\ (s \o t)[2] = t[1]
    <3>1. /\ s \o t \in Seq(S) /\ Len(s \o t) = Len(s) + Len(t)
          /\ \A i \in 1..(Len(s) + Len(t)) : (s \o t)[i] = IF i <= Len(s) THEN s[i] ELSE t[i - Len(s)]
      BY ConcatProperties
    <3> QED BY <1>3, <3>1
  <2>2. s \o <<>> = s /\ <<>> \o t = t
    BY ConcatEmptySeq
  <2> QED BY <2>1, <2>2
<1>4. \A s, t \in Seq(S) : Len(s) = 2 /\ Len(t) = 2 /\ s[1] = t[1] /\ s[2] = t[2] => s = t
  <2> HIDE DEF S
  <2> TAKE s, t \in Seq(S)
  <2> HAVE Len(s) = 2 /\ Len(t) = 2 /\ s[1] = t[1] /\ s[2] = t[2]
  <2>1. \A i \in 1..Len(s) : s[i] = t[i]
    OBVIOUS
  <2> QED BY <2>1, SeqEqual
<1>5. <<>> \o <<>> = <<>>
  BY ConcatEmptySeq, <<>> \in Seq(S)
<1> HIDE DEF S
<1>6. <<"out">> \o <<"in">> = WritingReading
  <2>1. /\ <<"out">> \o <<"in">> \in Seq(S) /\ Len(<<"out">> \o <<"in">>) = 2
        /\ (<<"out">> \o <<"in">>)[1] = "out" /\ (<<"out">> \o <<"in">>)[2] = "in"
    BY <1>1, <1>3, Zenon
  <2> QED BY <2>1, <1>2, <1>4, Zenon
<1>7. <<"out">> \o <<>> = Writing /\ <<>> \o <<"in">> = Reading
  BY <1>1, <1>3, Zenon DEF Writing, Reading
<1> QED BY <1>5, <1>6, <1>7, Zenon DEF Idle

-----------------------------------------------------------------------------
(* The stream.                                                             *)

(* A set of natural numbers that is not empty has a least element.         *)
LEMMA LeastNatural ==
  ASSUME NEW S \in SUBSET Nat, S # {}
  PROVE  \E n \in S : \A m \in S : n <= m
<1> DEFINE R == OpToRel(<, Nat)
<1>1. IsWellFoundedOn(R, Nat)
  BY NatLessThanWellFounded
<1>2. \A x, y \in Nat : x < y => <<x, y>> \in R
  BY DEF OpToRel
<1> HIDE DEF R
<1>3. \E x \in S : \A y \in S : ~ (<<y, x>> \in R)
  BY <1>1, WFMin
<1>4. PICK x \in S : \A y \in S : ~ (<<y, x>> \in R)
  BY <1>3
<1>5. \A y \in S : ~ (y < x)
  BY <1>2, <1>4
<1>6. \A y \in S : x <= y
  BY <1>5
<1> QED BY <1>4, <1>6

(* A set of numbers up to N that is not empty has a greatest element.      *)
LEMMA GreatestNatural ==
  ASSUME NEW N \in Nat, NEW S \in SUBSET (0..N), S # {}
  PROVE  \E n \in S : \A m \in S : m <= n
<1> DEFINE T == {N - m : m \in S}
<1>0. \A m \in S : m \in 0..N /\ N - m \in Nat
  OBVIOUS
<1>1. T \in SUBSET Nat /\ T # {}
  BY <1>0
<1>2. \A m \in S : N - m \in T /\ m \in Int
  OBVIOUS
<1>3. \A t \in T : \E m \in S : t = N - m
  OBVIOUS
<1> HIDE DEF T
<1>4. PICK t \in T : \A u \in T : t <= u
  BY <1>1, LeastNatural
<1>5. PICK n \in S : t = N - n
  BY <1>3
<1>6. \A m \in S : N - n <= N - m
  BY <1>2, <1>4, <1>5
<1> QED BY <1>2, <1>6

(* f[i] is the first i frames of q, one after the other.                   *)
Flattens(S, q, f) ==
  /\ \A i \in 1..Len(q) : /\ f[i] = IF i = 1 THEN q[i] ELSE f[i - 1] \o q[i]
                         /\ f[i] \in Seq(S)
  /\ Len(q) # 0 => FlattenSeq(q) = f[Len(q)]

(* Frames one after the other are what one frame less is with that frame   *)
(* behind: were there a first number of frames for which there is no such  *)
(* function, there would be one for the number before it.                  *)
LEMMA FlattenUnfolds ==
  ASSUME NEW S, NEW q \in Seq(Seq(S))
  PROVE  \E f : Flattens(S, q, f)
<1> DEFINE n == Len(q)
<1> DEFINE Good(f, m) == f = [i \in 1..m |-> IF i = 1 THEN q[i] ELSE f[i - 1] \o q[i]]
<1>n. n \in Nat /\ \A i \in 1..n : q[i] \in Seq(S)
  OBVIOUS
<1>1. \A m \in 0..n : \E f : Good(f, m)
  <2> DEFINE Bad == {m \in 0..n : ~ \E f : Good(f, m)}
  <2> SUFFICES ASSUME Bad # {} PROVE FALSE
    OBVIOUS
  <2>0. Bad \subseteq 0..n /\ \A m \in 0..n : m \notin Bad => \E f : Good(f, m)
    OBVIOUS
  <2>1. PICK m \in Bad : \A k \in Bad : m <= k
    <3> HIDE DEF Bad
    <3>1. Bad \in SUBSET Nat
      BY <2>0, <1>n
    <3> QED BY <3>1, LeastNatural
  <2>2. CASE m = 0
    <3>1. Good([i \in 1..0 |-> 0], 0)
      OBVIOUS
    <3> QED BY <3>1, <2>1, <2>2
  <2>3. CASE m # 0
    <3>1. m \in 1..n /\ m - 1 \in 0..n /\ m - 1 \notin Bad
      <4> HIDE DEF Bad
      <4> QED BY <2>0, <2>1, <2>3, <1>n
    <3>2. PICK f : Good(f, m - 1)
      BY <2>0, <3>1
    <3> DEFINE g == [i \in 1..m |-> IF i = m THEN IF m = 1 THEN q[m] ELSE f[m - 1] \o q[m] ELSE f[i]]
    <3>3. ASSUME NEW i \in 1..m
          PROVE  g[i] = IF i = 1 THEN q[i] ELSE g[i - 1] \o q[i]
      <4>1. CASE i = m
        BY <4>1, <3>1
      <4>2. CASE i # m
        <5>1. i \in 1..(m - 1) /\ (i # 1 => i - 1 \in 1..(m - 1) /\ i - 1 # m /\ i - 1 \in 1..m)
          BY <4>2, <3>1
        <5>2. f[i] = IF i = 1 THEN q[i] ELSE f[i - 1] \o q[i]
          BY <5>1, <3>2
        <5>3. g[i] = f[i] /\ (i # 1 => g[i - 1] = f[i - 1])
          BY <4>2, <5>1
        <5> QED BY <5>2, <5>3
      <4> QED BY <4>1, <4>2
    <3>4. g = [i \in 1..m |-> g[i]]
      OBVIOUS
    <3>5. Good(g, m)
      <4> HIDE DEF g
      <4> QED BY <3>3, <3>4
    <3> QED BY <3>5, <2>1
  <2> QED BY <2>2, <2>3
<1> DEFINE flatten == CHOOSE f : Good(f, n)
<1>2. Good(flatten, n)
  <2> HIDE DEF Good
  <2>0. n \in 0..n
    BY <1>n
  <2>1. \E f : Good(f, n)
    BY <1>1, <2>0, Zenon
  <2> QED BY <2>1, Zenon
<1>3. n # 0 => FlattenSeq(q) = flatten[n]
  BY DEF FlattenSeq
<1> HIDE DEF flatten
<1>4. \A i \in 1..n : flatten[i] \in Seq(S)
  <2> DEFINE Bad == {i \in 1..n : flatten[i] \notin Seq(S)}
  <2> SUFFICES ASSUME Bad # {} PROVE FALSE
    OBVIOUS
  <2>1. PICK m \in Bad : \A k \in Bad : m <= k
    <3>1. Bad \in SUBSET Nat
      OBVIOUS
    <3> HIDE DEF Bad
    <3> QED BY <3>1, LeastNatural
  <2>2. m \in 1..n /\ flatten[m] = IF m = 1 THEN q[m] ELSE flatten[m - 1] \o q[m]
    BY <1>2
  <2>3. m # 1 => m - 1 \in 1..n /\ flatten[m - 1] \in Seq(S)
    BY <2>1, <2>2, <1>n
  <2>4. q[m] \in Seq(S)
    BY <2>2, <1>n
  <2>5. flatten[m] \in Seq(S)
    BY <2>2, <2>3, <2>4
  <2> QED BY <2>1, <2>5
<1>5. \A i \in 1..n : flatten[i] = IF i = 1 THEN q[i] ELSE flatten[i - 1] \o q[i]
  BY <1>2
<1>6. Flattens(S, q, flatten)
  BY <1>3, <1>4, <1>5 DEF Flattens
<1> QED BY <1>6, Zenon

(* So they are a sequence of bytes.                                        *)
LEMMA FlattenType ==
  ASSUME NEW S, NEW q \in Seq(Seq(S))
  PROVE  FlattenSeq(q) \in Seq(S)
<1> DEFINE n == Len(q)
<1>1. n \in Nat
  OBVIOUS
<1>2. PICK f : Flattens(S, q, f)
  BY FlattenUnfolds, Zenon
<1>3. CASE n = 0
  BY <1>3 DEF FlattenSeq
<1>4. CASE n # 0
  BY <1>1, <1>2, <1>4 DEF Flattens
<1> QED BY <1>3, <1>4


(* Positions in the stream are natural numbers.                            *)
LEMMA LengthOfStream ==
  ASSUME frames \in Streams, TypeOK
  PROVE  /\ Stream \in Seq(Byte) /\ Len(Stream) \in Nat
         /\ arrived \in Nat /\ taken \in Nat /\ taken <= arrived /\ arrived <= Len(Stream)
<1>1. frames \in Seq(Seq(Byte))
  BY NetworkAssumption
<1>2. Stream \in Seq(Byte)
  BY <1>1, FlattenType DEF Stream
<1>3. Len(Stream) \in Nat
  BY <1>2
<1>4. arrived \in 0..Len(Stream) /\ taken \in 0..arrived
  BY DEF TypeOK
<1> QED BY <1>2, <1>3, <1>4

(* No byte is lost.                                                        *)
LEMMA BytesStep ==
  ASSUME TypeOK, BytesInv, Next
  PROVE  BytesInv'
<1> USE DEF BytesInv, coroutines, socket, sent, input, network
<1>1. CASE ConnectFails
  BY <1>1, Counters DEF ConnectFails, SessionRuns
<1>2. CASE ConnectRegisters
  BY <1>2, Counters DEF ConnectRegisters, SessionRuns
<1>3. CASE AcceptCalled
  BY <1>3, Counters DEF AcceptCalled, SessionRuns
<1>4. CASE Send
  <2>1. /\ sendData' = sendData + PacketSize /\ submitted' = submitted + PacketSize
        /\ wire' = wire /\ session' = "send"
    BY <1>4 DEF Send, Suspend
  <2>2. PICK k \in Nat : submitted = k * PacketSize
    OBVIOUS
  <2>3. submitted' = (k + 1) * PacketSize
    BY <2>1, <2>2, Constants
  <2>4. sendData' + wire' = submitted'
    BY <2>1, Counters, Constants
  <2> QED BY <2>1, <2>3, <2>4
<1>5. CASE SendLocksAgain
  BY <1>5, Counters DEF SendLocksAgain, Talks, SessionRuns
<1>6. CASE Pause
  BY <1>6, Counters DEF Pause, SessionRuns, Suspend
<1>7. CASE \E w \in BOOLEAN : Continue(w)
  BY <1>7, Counters DEF Continue
<1>8. CASE AcceptConnection
  BY <1>8, Counters DEF AcceptConnection, Does, ResumeSession
<1>9. CASE ConnectCompletes
  BY <1>9, Counters DEF ConnectCompletes, Does, ResumeSession
<1>10. CASE SendPiece
  <2>1. PICK k \in (IF sendData > 0 THEN 1..sendData ELSE {0}) :
          /\ sendData' = sendData - k /\ wire' = wire + k /\ submitted' = submitted
          /\ k = sendData \/ session' = session
    BY <1>10 DEF SendPiece, Sent
  <2>2. k \in Int
    BY <2>1, Counters
  <2> QED BY <2>1, <2>2, Counters
<1>11. CASE HangUpTellsSession
  BY <1>11, Counters DEF HangUpTellsSession, Does, ResumeSession
<1>12. CASE ConnectAtOnce \/ ConnectMaps \/ StartReceiver \/ SendRefused \/ ReceiverLoops \/
            EpollWait \/ WorkerEnds \/ ReceiveBytes \/ ReceiveEnd \/ HangUpTellsReceiver \/
            HangUpErases \/ StopTest \/ Close \/ CloseClears \/ PeerConnects \/ PeerAnswers
            \/ BytesArrive \/ PeerLeaves
  BY <1>12, Counters DEF ConnectAtOnce, ConnectMaps, StartReceiver, SendRefused,
     ReceiverLoops, EpollWait, WorkerEnds, ReceiveBytes, ReceiveEnd, HangUpTellsReceiver,
     HangUpErases, StopTest, Close, CloseClears, PeerConnects, PeerAnswers, BytesArrive,
     PeerLeaves, Armed, Does, Receive, ResumeReceiver, SessionRuns, Talks, Unread, Up, Waits
<1> QED
  BY <1>1, <1>2, <1>3, <1>4, <1>5, <1>6, <1>7, <1>8, <1>9, <1>10, <1>11, <1>12
     DEF Next, SessionStep, WorkerStep, CloseStep, PeerStep

(* Sides and their connections.                                            *)
LEMMA ModeStep ==
  ASSUME TypeOK, ModeInv, EntryInv, WorkInv, Next
  PROVE  ModeInv'
<1> USE DEF ModeInv, Failed, coroutines, socket, sent, input, network
<1>1. CASE ConnectAtOnce
  BY <1>1, Counters DEF ConnectAtOnce, SessionRuns
<1>2. CASE ConnectRegisters
  BY <1>2, Counters DEF ConnectRegisters, EntryInv
<1>3. CASE AcceptCalled
  BY <1>3, Counters DEF AcceptCalled, SessionRuns
<1>4. CASE StartReceiver
  BY <1>4, Counters DEF StartReceiver, SessionRuns, Up, Receive, Armed
<1>5. CASE Send
  BY <1>5, Counters DEF Send, Talks, SessionRuns, Suspend, Armed
<1>6. CASE ReceiverLoops
  BY <1>6, Counters DEF ReceiverLoops, Receive, Armed
<1>7. CASE AcceptConnection
  <2>1. backlog > 0 /\ backlog' = backlog - 1
    BY <1>7, DoesIt DEF AcceptConnection, WorkInv
  <2>2. mode = "server"
    <3>1. mode \in {"client", "server"}
      BY DEF TypeOK
    <3> QED BY <3>1, <2>1, Counters
  <2>3. mode' = mode /\ peers' = peers /\ op' = op /\ peer' = "connected"
    BY <1>7 DEF AcceptConnection
  <2> QED BY <2>1, <2>2, <2>3, Counters
<1>8. CASE ConnectCompletes
  <2>1. op = "Connect" /\ peer # "connecting"
    BY <1>8, DoesIt DEF ConnectCompletes, WorkInv
  <2> QED BY <1>8, <2>1 DEF ConnectCompletes
<1>9. CASE PeerConnects
  BY <1>9, Counters DEF PeerConnects
<1>10. CASE PeerAnswers
  BY <1>10, Counters DEF PeerAnswers
<1>11. CASE PeerLeaves
  BY <1>11, Counters DEF PeerLeaves
<1>12. CASE ConnectFails \/ ConnectMaps \/ SendRefused \/ SendLocksAgain \/ Pause \/ (\E w
            \in BOOLEAN : Continue(w)) \/ EpollWait \/ WorkerEnds \/ ReceiveBytes \/
            ReceiveEnd \/ HangUpTellsReceiver \/ HangUpTellsSession \/ HangUpErases \/
            StopTest \/ Close \/ CloseClears \/ BytesArrive \/ SendPiece
  BY <1>12, Counters DEF ConnectFails, ConnectMaps, SendRefused, SendLocksAgain, Pause,
     Continue, EpollWait, WorkerEnds, ReceiveBytes, ReceiveEnd, HangUpTellsReceiver,
     HangUpTellsSession, HangUpErases, StopTest, Close, CloseClears, BytesArrive, SendPiece,
     Does, ResumeReceiver, ResumeSession, Sent, SessionRuns, Suspend, Talks, Unread, Waits
<1> QED
  BY <1>1, <1>2, <1>3, <1>4, <1>5, <1>6, <1>7, <1>8, <1>9, <1>10, <1>11, <1>12
     DEF Next, SessionStep, WorkerStep, CloseStep, PeerStep

(* Where the descriptor is.                                                *)
LEMMA EntryStep ==
  ASSUME TypeOK, ModeInv, EntryInv, WorkInv, Next
  PROVE  EntryInv'
<1> USE DEF EntryInv, coroutines, socket, sent, input, network
<1>1. CASE ConnectAtOnce
  BY <1>1 DEF ConnectAtOnce, SessionRuns
<1>2. CASE ConnectFails
  BY <1>2 DEF ConnectFails, SessionRuns
<1>3. CASE ConnectRegisters
  BY <1>3 DEF ConnectRegisters, SessionRuns
<1>4. CASE ConnectMaps
  BY <1>4 DEF ConnectMaps, ModeInv
<1>5. CASE AcceptCalled
  BY <1>5 DEF AcceptCalled, SessionRuns
<1>6. CASE StartReceiver
  BY <1>6 DEF StartReceiver, SessionRuns, Up, Receive, Armed
<1>7. CASE Send
  BY <1>7 DEF Send, Talks, SessionRuns, Suspend, Armed
<1>8. CASE SendRefused
  BY <1>8 DEF SendRefused, Talks, SessionRuns
<1>9. CASE SendLocksAgain
  BY <1>9 DEF SendLocksAgain, Talks, SessionRuns
<1>10. CASE Pause
  BY <1>10 DEF Pause, SessionRuns, Suspend
<1>11. CASE \E w \in BOOLEAN : Continue(w)
  BY <1>11 DEF Continue
<1>12. CASE ReceiverLoops
  BY <1>12 DEF ReceiverLoops, Receive, Armed
<1>13. CASE EpollWait
  <2>1. work = Idle /\ worker = "runs"
    BY <1>13 DEF EpollWait, Waits, Idle
  <2>2. UNCHANGED <<entry, polled, op, mask, worker, receiver, callbacks, peer>>
    BY <1>13 DEF EpollWait
  <2> QED BY <2>1, <2>2, EventsDiffer
<1>14. CASE WorkerEnds
  BY <1>14 DEF WorkerEnds, Waits
<1>15. CASE AcceptConnection
  <2>1. backlog > 0
    BY <1>15, DoesIt DEF AcceptConnection, WorkInv
  <2>2. op = "Recv"
    <3>1. mode \in {"client", "server"}
      BY DEF TypeOK
    <3> QED BY <3>1, <2>1, Counters DEF ModeInv
  <2>3. /\ entry' = "mapped" /\ polled' = FALSE /\ mask' = {}
        /\ UNCHANGED <<op, receiver, callbacks>>
    BY <1>15 DEF AcceptConnection
  <2> QED BY <2>2, <2>3
<1>16. CASE ConnectCompletes
  <2>1. work = Connecting
    BY <1>16, DoesIt DEF ConnectCompletes, WorkInv
  <2> QED BY <1>16, <2>1, EventsDiffer DEF ConnectCompletes
<1>17. CASE SendPiece
  <2>1. work \in {Writing, WritingReading}
    BY <1>17, DoesIt DEF SendPiece, WorkInv
  <2>2. mask' \subseteq mask /\ UNCHANGED <<entry, polled, op, worker, receiver, callbacks, peer>>
    BY <1>17 DEF SendPiece
  <2> QED BY <2>1, <2>2, EventsDiffer
<1>18. CASE ReceiveBytes
  <2>1. mask' = mask \ {"in"} /\ UNCHANGED <<entry, polled, op, worker, callbacks, peer>>
    BY <1>18 DEF ReceiveBytes
  <2>2. receiver = "receive"
    BY <1>18, DoesIt DEF ReceiveBytes, WorkInv
  <2>3. receiver' \in {receiver, "running"}
    BY <1>18 DEF ReceiveBytes, ResumeReceiver
  <2> QED BY <2>1, <2>2, <2>3
<1>19. CASE ReceiveEnd
  <2>1. op = "Recv" /\ receiver = "receive"
    BY <1>19, DoesIt DEF ReceiveEnd, WorkInv
  <2>2. receiver' \in {receiver, "ended"}
    BY <1>19 DEF ReceiveEnd, ResumeReceiver
  <2>3. entry' = "gone" /\ polled' = FALSE /\ UNCHANGED <<op, callbacks>>
    BY <1>19 DEF ReceiveEnd
  <2> QED BY <2>1, <2>2, <2>3
<1>20. CASE HangUpTellsReceiver
  <2>1. /\ receiver' \in {receiver, "ended"}
        /\ UNCHANGED <<entry, polled, op, mask, worker, callbacks, peer>>
    BY <1>20 DEF HangUpTellsReceiver, ResumeReceiver
  <2>2. work' = Failing
    BY <1>20, DoesIt DEF HangUpTellsReceiver, WorkInv
  <2> QED BY <2>1, <2>2
<1>21. CASE HangUpTellsSession
  <2>1. work' = Erasing
    BY <1>21, DoesIt DEF HangUpTellsSession, WorkInv
  <2> QED BY <1>21, <2>1 DEF HangUpTellsSession
<1>22. CASE HangUpErases
  <2>1. op = "Recv"
    BY <1>22, DoesIt DEF HangUpErases, WorkInv
  <2> QED BY <1>22, <2>1 DEF HangUpErases
<1>23. CASE StopTest
  BY <1>23 DEF StopTest
<1>24. CASE Close
  BY <1>24 DEF Close
<1>25. CASE CloseClears
  BY <1>25 DEF CloseClears
<1>26. CASE PeerConnects
  BY <1>26 DEF PeerConnects
<1>27. CASE PeerAnswers
  BY <1>27 DEF PeerAnswers
<1>28. CASE BytesArrive
  BY <1>28 DEF BytesArrive
<1>29. CASE PeerLeaves
  BY <1>29 DEF PeerLeaves
<1> QED
  BY <1>1, <1>2, <1>3, <1>4, <1>5, <1>6, <1>7, <1>8, <1>9, <1>10, <1>11, <1>12, <1>13, <1>14,
     <1>15, <1>16, <1>17, <1>18, <1>19, <1>20, <1>21, <1>22, <1>23, <1>24, <1>25, <1>26, <1>27,
     <1>28, <1>29
     DEF Next, SessionStep, WorkerStep, CloseStep, PeerStep

(* The worker's event.                                                     *)
LEMMA WorkStep ==
  ASSUME TypeOK, ModeInv, EntryInv, WorkInv, Next
  PROVE  WorkInv'
<1> USE DEF WorkInv, coroutines, socket, sent, input, network
<1>1. CASE ConnectAtOnce
  BY <1>1, Counters DEF ConnectAtOnce, SessionRuns
<1>2. CASE ConnectFails
  BY <1>2, Counters DEF ConnectFails, SessionRuns
<1>3. CASE ConnectRegisters
  BY <1>3 DEF ConnectRegisters, EntryInv
<1>4. CASE ConnectMaps
  BY <1>4, Counters DEF ConnectMaps
<1>5. CASE AcceptCalled
  BY <1>5, Counters DEF AcceptCalled, SessionRuns
<1>6. CASE StartReceiver
  BY <1>6, Counters DEF StartReceiver, SessionRuns, Up, Receive, Armed
<1>7. CASE Send
  BY <1>7, Counters DEF Send, Talks, SessionRuns, Suspend, Armed
<1>8. CASE SendRefused
  BY <1>8, Counters DEF SendRefused, Talks, SessionRuns
<1>9. CASE SendLocksAgain
  BY <1>9, Counters DEF SendLocksAgain, Talks, SessionRuns
<1>10. CASE Pause
  BY <1>10, Counters DEF Pause, SessionRuns, Suspend
<1>11. CASE \E w \in BOOLEAN : Continue(w)
  BY <1>11, Counters DEF Continue
<1>12. CASE ReceiverLoops
  BY <1>12, Counters DEF ReceiverLoops, Receive, Armed
<1>13. CASE EpollWait
  <2>1. work = Idle /\ worker = "runs"
    BY <1>13 DEF EpollWait, Waits, Idle
  <2>2. UNCHANGED <<worker, entry, polled, op, mask, peer, backlog, receiver>>
    BY <1>13 DEF EpollWait
  <2>3. CASE work' = <<"accept">> /\ backlog > 0
    <3>1. work' = Accepting
      BY <2>3 DEF Accepting
    <3> QED BY <3>1, <2>1, <2>2, <2>3, EventsDiffer DEF Events
  <2>4. CASE polled /\ Ready # {} /\ work' = WorkFor(Ready)
    <3>1. entry \in {"unmapped", "mapped"}
      BY <2>1, <2>4 DEF EntryInv, TypeOK
    <3>2. "in" \in Ready => receiver = "receive"
      BY <3>1, <2>1, EventsDiffer DEF Ready, EntryInv
    <3>3. CASE op = "Connect"
      <4>1. work' = Connecting
        BY <2>4, <3>3 DEF WorkFor, Connecting
      <4>2. peer # "connecting"
        <5>1. \A e \in Ready : e = "in" \/ (e = "out" /\ peer # "connecting") \/ (e = "hup" /\ Failed)
          BY DEF Ready
        <5>2. peer = "connecting" => "in" \notin Ready
          BY DEF Ready, ModeInv, Unread
        <5> QED BY <2>4, <5>1, <5>2 DEF Failed
      <4> QED BY <4>1, <4>2, <3>3, <2>1, <2>2, EventsDiffer DEF Events
    <3>4. CASE op # "Connect" /\ "hup" \in Ready
      <4>1. work' = HungUp
        BY <2>4, <3>4 DEF WorkFor, HungUp
      <4>2. op = "Recv" /\ Failed
        BY <3>4 DEF Ready, TypeOK
      <4>3. peer = "reset"
        BY <4>2 DEF Failed, ModeInv
      <4> QED BY <4>1, <4>2, <4>3, <3>1, <2>1, <2>2, EventsDiffer DEF Events
    <3>5. CASE op # "Connect" /\ "hup" \notin Ready
      <4>1. work' = (IF "out" \in Ready THEN <<"out">> ELSE <<>>)
                    \o (IF "in" \in Ready THEN <<"in">> ELSE <<>>)
        BY <2>4, <3>5 DEF WorkFor
      <4>2. work' \in {Idle, Writing} \/ ("in" \in Ready /\ work' \in {Reading, WritingReading})
        BY <4>1, Joined, Zenon
      <4>3. op = "Recv"
        BY <3>5 DEF TypeOK
      <4> QED BY <4>2, <4>3, <3>1, <3>2, <2>1, <2>2, EventsDiffer DEF Events
    <3> QED BY <3>3, <3>4, <3>5
  <2> QED BY <1>13, <2>3, <2>4 DEF EpollWait
<1>14. CASE WorkerEnds
  BY <1>14 DEF WorkerEnds, Waits, Idle
<1>15. CASE AcceptConnection
  <2>1. work' = Idle
    BY <1>15, DoesIt DEF AcceptConnection
  <2> QED BY <2>1, EventsDiffer DEF Events
<1>16. CASE ConnectCompletes
  <2>1. work' = Idle
    BY <1>16, DoesIt DEF ConnectCompletes
  <2> QED BY <2>1, EventsDiffer DEF Events
<1>17. CASE SendPiece
  <2>1. (work = Writing /\ work' = Idle) \/ (work = WritingReading /\ work' = Reading)
    BY <1>17, DoesIt DEF SendPiece
  <2>2. UNCHANGED <<worker, entry, op, peer, backlog, receiver>>
    BY <1>17 DEF SendPiece
  <2> QED BY <2>1, <2>2, EventsDiffer DEF Events
<1>18. CASE ReceiveBytes
  <2>1. work' = Idle
    BY <1>18, DoesIt DEF ReceiveBytes
  <2> QED BY <2>1, EventsDiffer DEF Events
<1>19. CASE ReceiveEnd
  <2>1. work' = Idle
    BY <1>19, DoesIt DEF ReceiveEnd
  <2> QED BY <2>1, EventsDiffer DEF Events
<1>20. CASE HangUpTellsReceiver
  <2>1. work = HungUp /\ work' = Failing
    BY <1>20, DoesIt DEF HangUpTellsReceiver
  <2>2. UNCHANGED <<worker, entry, op, peer>>
    BY <1>20 DEF HangUpTellsReceiver
  <2> QED BY <2>1, <2>2, EventsDiffer DEF Events
<1>21. CASE HangUpTellsSession
  <2>1. work = Failing /\ work' = Erasing
    BY <1>21, DoesIt DEF HangUpTellsSession
  <2>2. UNCHANGED <<worker, entry, op, peer>>
    BY <1>21 DEF HangUpTellsSession
  <2> QED BY <2>1, <2>2, EventsDiffer DEF Events
<1>22. CASE HangUpErases
  <2>1. work' = Idle
    BY <1>22, DoesIt DEF HangUpErases
  <2> QED BY <2>1, EventsDiffer DEF Events
<1>23. CASE StopTest
  BY <1>23, Counters DEF StopTest
<1>24. CASE Close
  BY <1>24, Counters DEF Close
<1>25. CASE CloseClears
  BY <1>25, Counters DEF CloseClears
<1>26. CASE PeerConnects
  BY <1>26, Counters DEF PeerConnects
<1>27. CASE PeerAnswers
  BY <1>27, Counters DEF PeerAnswers
<1>28. CASE BytesArrive
  BY <1>28, Counters DEF BytesArrive
<1>29. CASE PeerLeaves
  BY <1>29, Counters DEF PeerLeaves
<1> QED
  BY <1>1, <1>2, <1>3, <1>4, <1>5, <1>6, <1>7, <1>8, <1>9, <1>10, <1>11, <1>12, <1>13, <1>14,
     <1>15, <1>16, <1>17, <1>18, <1>19, <1>20, <1>21, <1>22, <1>23, <1>24, <1>25, <1>26, <1>27,
     <1>28, <1>29
     DEF Next, SessionStep, WorkerStep, CloseStep, PeerStep

(* Why the session no longer waits.                                        *)
LEMMA SessionInvStep ==
  ASSUME TypeOK, ModeInv, EntryInv, WorkInv, SessionInv, Next
  PROVE  SessionInv'
<1> USE DEF SessionInv, Failed, coroutines, socket, sent, input, network
<1>1. CASE ConnectAtOnce
  BY <1>1, Counters DEF ConnectAtOnce, EntryInv
<1>2. CASE ConnectFails
  BY <1>2, Counters DEF ConnectFails, SessionRuns
<1>3. CASE ConnectRegisters
  BY <1>3, Counters DEF ConnectRegisters, SessionRuns
<1>4. CASE AcceptCalled
  BY <1>4, Counters DEF AcceptCalled, SessionRuns
<1>5. CASE Send
  BY <1>5, Counters DEF Send, Talks, SessionRuns, Suspend, Armed
<1>6. CASE SendLocksAgain
  BY <1>6, Counters DEF SendLocksAgain, Talks, SessionRuns
<1>7. CASE Pause
  BY <1>7, Counters DEF Pause, SessionRuns, Suspend
<1>8. CASE \E w \in BOOLEAN : Continue(w)
  BY <1>8, Counters DEF Continue
<1>9. CASE AcceptConnection
  <2>1. backlog > 0 /\ backlog' = backlog - 1
    BY <1>9, DoesIt DEF AcceptConnection, WorkInv
  <2>2. op = "Recv"
    <3>1. mode \in {"client", "server"}
      BY DEF TypeOK
    <3> QED BY <3>1, <2>1, Counters DEF ModeInv
  <2>3. peers' = peers /\ op' = op
    BY <1>9 DEF AcceptConnection
  <2> QED BY <2>1, <2>2, <2>3, Counters DEF ModeInv
<1>10. CASE ConnectCompletes
  <2>1. op = "Connect"
    BY <1>10, DoesIt DEF ConnectCompletes, WorkInv
  <2>2. "accept" \notin callbacks /\ callbacks' = callbacks
    <3>1. mode \in {"client", "server"}
      BY DEF TypeOK
    <3> QED BY <1>10, <3>1, <2>1 DEF ModeInv, ConnectCompletes
  <2>3. entry # "none" /\ entry # "gone"
    <3>1. worker # "ended"
      BY <1>10, DoesIt, EventsDiffer DEF ConnectCompletes, WorkInv
    <3> QED BY <2>1, <3>1 DEF EntryInv
  <2>4. CASE entry = "unmapped"
    BY <1>10, <2>2, <2>4 DEF ConnectCompletes
  <2>5. CASE entry = "mapped"
    BY <1>10, <2>2, <2>5 DEF ConnectCompletes
  <2> QED BY <2>3, <2>4, <2>5 DEF TypeOK
<1>11. CASE SendPiece
  <2>1. session' = session \/ session = "send"
    BY <1>11 DEF SendPiece, ResumeSession
  <2>2. UNCHANGED <<op, peer, early, callbacks, peers, backlog>>
    BY <1>11 DEF SendPiece
  <2> QED BY <2>1, <2>2
<1>12. CASE HangUpTellsSession
  <2>1. op = "Recv" /\ op' = op
    BY <1>12, DoesIt DEF HangUpTellsSession, WorkInv
  <2>2. session = "accept" => session' = session
    BY <1>12 DEF HangUpTellsSession, ResumeSession
  <2>3. UNCHANGED <<callbacks, peers, backlog>>
    BY <1>12 DEF HangUpTellsSession
  <2> QED BY <2>1, <2>2, <2>3
<1>13. CASE PeerConnects
  BY <1>13, Counters DEF PeerConnects
<1>14. CASE PeerAnswers
  BY <1>14, Counters DEF PeerAnswers
<1>15. CASE PeerLeaves
  BY <1>15, Counters DEF PeerLeaves
<1>16. CASE ConnectMaps \/ StartReceiver \/ SendRefused \/ ReceiverLoops \/ EpollWait \/
            WorkerEnds \/ ReceiveBytes \/ ReceiveEnd \/ HangUpTellsReceiver \/ HangUpErases
            \/ StopTest \/ Close \/ CloseClears \/ BytesArrive
  BY <1>16, Counters DEF ConnectMaps, StartReceiver, SendRefused, ReceiverLoops, EpollWait,
     WorkerEnds, ReceiveBytes, ReceiveEnd, HangUpTellsReceiver, HangUpErases, StopTest, Close,
     CloseClears, BytesArrive, Armed, Does, Receive, ResumeReceiver, SessionRuns, Talks, Unread,
     Up, Waits
<1> QED
  BY <1>1, <1>2, <1>3, <1>4, <1>5, <1>6, <1>7, <1>8, <1>9, <1>10, <1>11, <1>12, <1>13, <1>14,
     <1>15, <1>16
     DEF Next, SessionStep, WorkerStep, CloseStep, PeerStep

(* A callback that is called out of turn has one of the causes.            *)
LEMMA StraysStep ==
  ASSUME TypeOK, BytesInv, ModeInv, EntryInv, WorkInv, SessionInv, StraysHaveCause, Next
  PROVE  StraysHaveCause'
<1> USE DEF StraysHaveCause, Defined, Failed, coroutines, socket, sent, input, network
<1>1. CASE AcceptConnection
  <2>1. Defined /\ backlog > 0
    BY <1>1, DoesIt DEF AcceptConnection, WorkInv
  <2>2. strays' = {} \/ (strays' = {"accept"} /\ "accept" \in callbacks /\ session # "accept")
    BY <1>1, <2>1 DEF AcceptConnection, ResumeSession
  <2>3. strays' = {"accept"} => peers > backlog
    BY <2>2 DEF SessionInv
  <2>4. strays' = {"accept"} => peers' > 1
    BY <1>1, <2>1, <2>3, Counters DEF AcceptConnection
  <2> QED BY <2>2, <2>4
<1>2. CASE ConnectCompletes
  <2>1. Defined /\ op = "Connect"
    BY <1>2, DoesIt DEF ConnectCompletes, WorkInv
  <2>2. strays' = {} \/ (strays' = {"connect"} /\ session # "connect")
    BY <1>2, <2>1 DEF ConnectCompletes, ResumeSession
  <2>3. strays' = {"connect"} => early \/ Failed
    BY <2>1, <2>2 DEF SessionInv
  <2>4. peer' = peer /\ (early => early')
    BY <1>2 DEF ConnectCompletes
  <2> QED BY <2>2, <2>3, <2>4
<1>3. CASE SendPiece
  <2>1. Defined
    BY <1>3, DoesIt DEF SendPiece, WorkInv
  <2>2. PICK k \in (IF sendData > 0 THEN 1..sendData ELSE {0}) :
          IF k = sendData /\ k > 0 THEN ResumeSession("send") ELSE UNCHANGED strays
    BY <1>3 DEF SendPiece
  <2>3. k = sendData /\ k > 0 => session = "send"
    BY DEF BytesInv
  <2>4. strays' = {}
    BY <2>1, <2>2, <2>3 DEF ResumeSession
  <2> QED BY <2>4
<1>4. CASE ReceiveBytes
  <2>1. Defined /\ receiver = "receive"
    BY <1>4, DoesIt DEF ReceiveBytes, WorkInv
  <2>2. strays' = {}
    BY <1>4, <2>1 DEF ReceiveBytes, ResumeReceiver
  <2> QED BY <2>2
<1>5. CASE ReceiveEnd
  <2>1. Defined /\ receiver = "receive"
    BY <1>5, DoesIt DEF ReceiveEnd, WorkInv
  <2>2. strays' = {}
    BY <1>5, <2>1 DEF ReceiveEnd, ResumeReceiver
  <2> QED BY <2>2
<1>6. CASE HangUpTellsReceiver
  <2>1. Defined /\ peer = "reset" /\ receiver # "running"
    BY <1>6, DoesIt DEF HangUpTellsReceiver, WorkInv, InCallback
  <2>2. \/ strays' = {}
        \/ strays' = {"receive"} /\ "receive" \in callbacks /\ receiver # "receive" /\ receiver' = receiver
    BY <1>6, <2>1 DEF HangUpTellsReceiver, ResumeReceiver
  <2>3. strays' = {"receive"} => receiver' = "ended"
    BY <2>1, <2>2 DEF EntryInv, TypeOK
  <2>4. peer' = peer
    BY <1>6 DEF HangUpTellsReceiver
  <2> QED BY <2>1, <2>2, <2>3, <2>4
<1>7. CASE HangUpTellsSession
  <2>1. Defined /\ peer = "reset"
    BY <1>7, DoesIt DEF HangUpTellsSession, WorkInv
  <2>2. strays' = {} \/ strays' = {"connect"}
    BY <1>7, <2>1 DEF HangUpTellsSession, ResumeSession
  <2>3. peer' = peer
    BY <1>7 DEF HangUpTellsSession
  <2> QED BY <2>1, <2>2, <2>3
<1>8. CASE ConnectAtOnce \/ ConnectFails \/ ConnectRegisters \/ ConnectMaps \/ AcceptCalled
            \/ StartReceiver \/ Send \/ SendRefused \/ SendLocksAgain \/ Pause \/ (\E w \in
            BOOLEAN : Continue(w)) \/ ReceiverLoops \/ EpollWait \/ WorkerEnds \/
            HangUpErases \/ StopTest \/ Close \/ CloseClears \/ PeerConnects \/ PeerAnswers
            \/ BytesArrive \/ PeerLeaves
  BY <1>8 DEF ConnectAtOnce, ConnectFails, ConnectRegisters, ConnectMaps, AcceptCalled,
     StartReceiver, Send, SendRefused, SendLocksAgain, Pause, Continue, ReceiverLoops, EpollWait,
     WorkerEnds, HangUpErases, StopTest, Close, CloseClears, PeerConnects, PeerAnswers,
     BytesArrive, PeerLeaves, Armed, Does, Receive, SessionRuns, Suspend, Talks, Up, Waits
<1> QED
  BY <1>1, <1>2, <1>3, <1>4, <1>5, <1>6, <1>7, <1>8
     DEF Next, SessionStep, WorkerStep, CloseStep, PeerStep

-----------------------------------------------------------------------------
(* Types.                                                                  *)

(* The variables that take a few values.                                   *)
Values ==
  /\ mode \in {"client", "server"}
  /\ worker \in {"runs", "ended"}
  /\ entry \in {"none", "unmapped", "mapped", "gone"}
  /\ op \in {"Connect", "Recv"}
  /\ mask \subseteq {"in", "out"}
  /\ callbacks \subseteq {"connect", "accept", "send", "receive"}
  /\ mutex \in {"free", "held"}
  /\ session \in {"running", "connect", "accept", "send", "paused", "stuck", "ended"}
  /\ receiver \in {"none", "receive", "running", "ended"}
  /\ stopping \in {"no", "stopped", "joining", "closed"}
  /\ peer \in {"none", "connecting", "connected", "refused", "closed", "reset"}
  /\ strays \subseteq {"connect", "accept", "send", "receive"}

(* The flags.                                                              *)
Flags == running \in BOOLEAN /\ polled \in BOOLEAN /\ onWorker \in BOOLEAN

(* The counters.                                                           *)
Amounts ==
  /\ sendData \in 0..(MaxSends * PacketSize)
  /\ backlog \in 0..MaxPeers
  /\ peers \in 0..MaxPeers
  /\ submitted \in 0..(MaxSends * PacketSize)
  /\ wire \in 0..submitted
  /\ arrived \in 0..Len(Stream)
  /\ taken \in 0..arrived

Parts == {"accept", "connect", "out", "in", "hangUp", "failConnect", "erase"}

(* An event is a sequence of parts.                                        *)
LEMMA EventsType == Events \subseteq Seq(Parts)
BY DEF Events, Parts, Idle, Accepting, Connecting, Writing, Reading, WritingReading, HungUp,
       Failing, Erasing

(* The type invariant is these four.                                       *)
LEMMA TypeParts == TypeOK <=> Values /\ Flags /\ Amounts /\ work \in Seq(Parts)
BY Zenon DEF TypeOK, Values, Flags, Amounts, Parts

(* Types of the variables that take a few values.                          *)
LEMMA ValuesStep ==
  ASSUME Values, Next
  PROVE  Values'
<1> USE DEF Values, coroutines, socket, sent, input, network
<1>1. CASE ConnectAtOnce
  BY <1>1 DEF ConnectAtOnce, SessionRuns
<1>2. CASE ConnectFails
  BY <1>2 DEF ConnectFails, SessionRuns
<1>3. CASE ConnectRegisters
  BY <1>3 DEF ConnectRegisters, SessionRuns
<1>4. CASE ConnectMaps
  BY <1>4 DEF ConnectMaps
<1>5. CASE AcceptCalled
  BY <1>5 DEF AcceptCalled, SessionRuns
<1>6. CASE StartReceiver
  BY <1>6 DEF StartReceiver, SessionRuns, Up, Receive, Armed
<1>7. CASE Send
  BY <1>7 DEF Send, Talks, SessionRuns, Suspend, Armed
<1>8. CASE SendRefused
  BY <1>8 DEF SendRefused, Talks, SessionRuns
<1>9. CASE SendLocksAgain
  BY <1>9 DEF SendLocksAgain, Talks, SessionRuns
<1>10. CASE Pause
  BY <1>10 DEF Pause, SessionRuns, Suspend
<1>11. CASE \E w \in BOOLEAN : Continue(w)
  BY <1>11 DEF Continue
<1>12. CASE ReceiverLoops
  BY <1>12, ZenonT(30) DEF ReceiverLoops, Receive, Armed
<1>13. CASE EpollWait
  BY <1>13 DEF EpollWait, Waits
<1>14. CASE WorkerEnds
  BY <1>14 DEF WorkerEnds, Waits
<1>15. CASE AcceptConnection
  BY <1>15 DEF AcceptConnection, Does, ResumeSession
<1>16. CASE ConnectCompletes
  <2>1. /\ session' \in {session, "running", "ended"} /\ strays' \in {strays, strays \cup {"connect"}}
        /\ mask' \subseteq mask /\ op' \in {op, "Recv"}
    BY <1>16 DEF ConnectCompletes, ResumeSession
  <2>2. UNCHANGED <<mode, worker, entry, callbacks, mutex, receiver, stopping, peer>>
    BY <1>16 DEF ConnectCompletes
  <2> QED BY <2>1, <2>2
<1>17. CASE SendPiece
  <2>1. /\ session' \in {session, "running"} /\ strays' \in {strays, strays \cup {"send"}}
        /\ mask' \subseteq mask
    BY <1>17 DEF SendPiece, ResumeSession
  <2>2. UNCHANGED <<mode, worker, entry, op, callbacks, mutex, receiver, stopping, peer>>
    BY <1>17 DEF SendPiece
  <2> QED BY <2>1, <2>2
<1>18. CASE ReceiveBytes
  <2>1. receiver' \in {receiver, "running"} /\ strays' \in {strays, strays \cup {"receive"}}
    BY <1>18 DEF ReceiveBytes, ResumeReceiver
  <2>2. mask' \subseteq mask /\ UNCHANGED <<mode, worker, entry, op, callbacks, mutex, session, stopping, peer>>
    BY <1>18 DEF ReceiveBytes
  <2> QED BY <2>1, <2>2
<1>19. CASE ReceiveEnd
  <2>1. receiver' \in {receiver, "ended"} /\ strays' \in {strays, strays \cup {"receive"}}
    BY <1>19 DEF ReceiveEnd, ResumeReceiver
  <2>2. entry' = "gone" /\ UNCHANGED <<mode, worker, op, mask, callbacks, mutex, session, stopping, peer>>
    BY <1>19 DEF ReceiveEnd
  <2> QED BY <2>1, <2>2
<1>20. CASE HangUpTellsReceiver
  <2>1. receiver' \in {receiver, "ended"} /\ strays' \in {strays, strays \cup {"receive"}}
    BY <1>20 DEF HangUpTellsReceiver, ResumeReceiver
  <2>2. UNCHANGED <<mode, worker, entry, op, mask, callbacks, mutex, session, stopping, peer>>
    BY <1>20 DEF HangUpTellsReceiver
  <2> QED BY <2>1, <2>2
<1>21. CASE HangUpTellsSession
  <2>1. session' \in {session, "running"} /\ strays' \in {strays, strays \cup {"connect"}}
    BY <1>21 DEF HangUpTellsSession, ResumeSession
  <2>2. UNCHANGED <<mode, worker, entry, op, mask, callbacks, mutex, receiver, stopping, peer>>
    BY <1>21 DEF HangUpTellsSession
  <2> QED BY <2>1, <2>2
<1>22. CASE HangUpErases
  BY <1>22 DEF HangUpErases, Does
<1>23. CASE StopTest
  BY <1>23 DEF StopTest
<1>24. CASE Close
  BY <1>24 DEF Close
<1>25. CASE CloseClears
  BY <1>25 DEF CloseClears
<1>26. CASE PeerConnects
  BY <1>26 DEF PeerConnects
<1>27. CASE PeerAnswers
  BY <1>27 DEF PeerAnswers
<1>28. CASE BytesArrive
  BY <1>28 DEF BytesArrive
<1>29. CASE PeerLeaves
  BY <1>29 DEF PeerLeaves
<1> QED
  BY <1>1, <1>2, <1>3, <1>4, <1>5, <1>6, <1>7, <1>8, <1>9, <1>10, <1>11, <1>12, <1>13, <1>14,
     <1>15, <1>16, <1>17, <1>18, <1>19, <1>20, <1>21, <1>22, <1>23, <1>24, <1>25, <1>26, <1>27,
     <1>28, <1>29
     DEF Next, SessionStep, WorkerStep, CloseStep, PeerStep

(* Types of the flags.                                                     *)
LEMMA FlagsStep ==
  ASSUME Flags, Next
  PROVE  Flags'
<1> USE DEF Flags, coroutines, socket, sent, input, network
<1>1. CASE ConnectRegisters
  BY <1>1, Zenon DEF ConnectRegisters, SessionRuns
<1>2. CASE StartReceiver
  BY <1>2, Zenon DEF StartReceiver, SessionRuns, Up, Receive, Armed
<1>3. CASE Send
  BY <1>3, Zenon DEF Send, Talks, SessionRuns, Suspend, Armed
<1>4. CASE Pause
  BY <1>4, Zenon DEF Pause, SessionRuns, Suspend
<1>5. CASE \E w \in BOOLEAN : Continue(w)
  BY <1>5, Zenon DEF Continue
<1>6. CASE ReceiverLoops
  BY <1>6, Zenon DEF ReceiverLoops, Receive, Armed
<1>7. CASE AcceptConnection
  BY <1>7, Zenon DEF AcceptConnection, Does, ResumeSession
<1>8. CASE ConnectCompletes
  BY <1>8, Zenon DEF ConnectCompletes, Does, ResumeSession
<1>9. CASE SendPiece
  BY <1>9, Zenon DEF SendPiece, Does, ResumeSession, Sent
<1>10. CASE ReceiveEnd
  BY <1>10, Zenon DEF ReceiveEnd, Does, ResumeReceiver, Unread
<1>11. CASE HangUpTellsSession
  BY <1>11, Zenon DEF HangUpTellsSession, Does, ResumeSession
<1>12. CASE HangUpErases
  BY <1>12, Zenon DEF HangUpErases, Does
<1>13. CASE Close
  BY <1>13, Zenon DEF Close
<1>14. CASE ConnectAtOnce \/ ConnectFails \/ ConnectMaps \/ AcceptCalled \/ SendRefused \/
            SendLocksAgain \/ EpollWait \/ WorkerEnds \/ ReceiveBytes \/ HangUpTellsReceiver
            \/ StopTest \/ CloseClears \/ PeerConnects \/ PeerAnswers \/ BytesArrive \/
            PeerLeaves
  BY <1>14, Zenon DEF ConnectAtOnce, ConnectFails, ConnectMaps, AcceptCalled, SendRefused,
     SendLocksAgain, EpollWait, WorkerEnds, ReceiveBytes, HangUpTellsReceiver, StopTest,
     CloseClears, PeerConnects, PeerAnswers, BytesArrive, PeerLeaves, Does, ResumeReceiver,
     SessionRuns, Talks, Unread, Waits
<1> QED
  BY <1>1, <1>2, <1>3, <1>4, <1>5, <1>6, <1>7, <1>8, <1>9, <1>10, <1>11, <1>12, <1>13, <1>14
     DEF Next, SessionStep, WorkerStep, CloseStep, PeerStep

(* Types of the counters.                                                  *)
LEMMA AmountsStep ==
  ASSUME frames \in Streams, TypeOK, Amounts, BytesInv, ModeInv, WorkInv, Next
  PROVE  Amounts'
<1> USE DEF Amounts, Stream, coroutines, socket, sent, input, network
<1>1. CASE Send
  <2> DEFINE M == MaxSends * PacketSize
  <2>1. /\ sendData' = sendData + PacketSize /\ submitted' = submitted + PacketSize
        /\ submitted < M /\ UNCHANGED <<wire, backlog, peers, arrived, taken, frames>>
    BY <1>1 DEF Send, Talks
  <2>2. submitted + PacketSize <= M
    <3>1. PICK k \in Nat : submitted = k * PacketSize
      BY DEF BytesInv
    <3> QED BY <2>1, <3>1, OneMorePacket
  <2>3. sendData + wire = submitted
    BY DEF BytesInv
  <2>4. PacketSize \in Nat /\ M \in Nat
    BY Constants
  <2> HIDE DEF M
  <2>5. sendData' \in 0..M /\ submitted' \in 0..M /\ wire' \in 0..submitted'
    BY <2>1, <2>2, <2>3, <2>4, Counters
  <2> QED BY <2>1, <2>5 DEF M
<1>2. CASE AcceptConnection
  <2>1. backlog > 0 /\ backlog' = backlog - 1
    BY <1>2, DoesIt DEF AcceptConnection, WorkInv
  <2>2. arrived' = taken /\ UNCHANGED <<sendData, submitted, wire, peers, taken, frames>>
    BY <1>2 DEF AcceptConnection
  <2>3. backlog' \in 0..MaxPeers
    BY <2>1, Constants DEF TypeOK
  <2>4. arrived' \in 0..Len(Stream) /\ taken' \in 0..arrived'
    BY <2>2, LengthOfStream DEF TypeOK
  <2> QED BY <2>2, <2>3, <2>4
<1>3. CASE SendPiece
  <2> DEFINE M == MaxSends * PacketSize
  <2>1. PICK k \in (IF sendData > 0 THEN 1..sendData ELSE {0}) :
          sendData' = sendData - k /\ wire' = wire + k
    BY <1>3 DEF SendPiece, Sent
  <2>2. UNCHANGED <<submitted, backlog, peers, arrived, taken, frames>>
    BY <1>3 DEF SendPiece
  <2>3. sendData + wire = submitted
    BY DEF BytesInv
  <2>4. M \in Nat /\ sendData \in 0..M
    BY Constants DEF TypeOK
  <2> HIDE DEF M
  <2>5. sendData' \in 0..M /\ wire' \in 0..submitted'
    BY <2>1, <2>2, <2>3, <2>4, Counters
  <2> QED BY <2>2, <2>5 DEF M
<1>4. CASE ReceiveBytes
  <2>1. taken' = arrived /\ UNCHANGED <<sendData, submitted, wire, backlog, peers, arrived, frames>>
    BY <1>4 DEF ReceiveBytes
  <2>2. taken' \in 0..arrived'
    BY <2>1, LengthOfStream DEF TypeOK
  <2> QED BY <2>1, <2>2
<1>5. CASE PeerConnects
  <2>1. /\ peers < MaxPeers /\ peers' = peers + 1 /\ backlog' = backlog + 1
        /\ UNCHANGED <<sendData, submitted, wire, arrived, taken, frames>>
    BY <1>5 DEF PeerConnects
  <2>2. peers' \in 0..MaxPeers /\ backlog' \in 0..MaxPeers
    BY <2>1, Constants, Counters DEF ModeInv
  <2> QED BY <2>1, <2>2
<1>6. CASE BytesArrive
  <2>1. /\ arrived' \in (arrived + 1)..Len(Stream)
        /\ UNCHANGED <<sendData, submitted, wire, backlog, peers, taken, frames>>
    BY <1>6 DEF BytesArrive
  <2>2. arrived' \in 0..Len(Stream) /\ taken' \in 0..arrived'
    BY <2>1, LengthOfStream DEF TypeOK
  <2> QED BY <2>1, <2>2
<1>7. CASE ConnectAtOnce \/ ConnectFails \/ ConnectRegisters \/ ConnectMaps \/ AcceptCalled
            \/ StartReceiver \/ SendRefused \/ SendLocksAgain \/ Pause \/ (\E w \in BOOLEAN
            : Continue(w)) \/ ReceiverLoops \/ EpollWait \/ WorkerEnds \/ ConnectCompletes
            \/ ReceiveEnd \/ HangUpTellsReceiver \/ HangUpTellsSession \/ HangUpErases \/
            StopTest \/ Close \/ CloseClears \/ PeerAnswers \/ PeerLeaves
  BY <1>7 DEF ConnectAtOnce, ConnectFails, ConnectRegisters, ConnectMaps, AcceptCalled,
     StartReceiver, SendRefused, SendLocksAgain, Pause, Continue, ReceiverLoops, EpollWait,
     WorkerEnds, ConnectCompletes, ReceiveEnd, HangUpTellsReceiver, HangUpTellsSession,
     HangUpErases, StopTest, Close, CloseClears, PeerAnswers, PeerLeaves, Armed, Does, Receive,
     ResumeReceiver, ResumeSession, SessionRuns, Suspend, Talks, Unread, Up, Waits
<1> QED
  BY <1>1, <1>2, <1>3, <1>4, <1>5, <1>6, <1>7
     DEF Next, SessionStep, WorkerStep, CloseStep, PeerStep

-----------------------------------------------------------------------------
(* The invariant is one.                                                   *)

(* It holds at first.                                                      *)
LEMMA InitInv == Init => IInv
<1> SUFFICES ASSUME Init PROVE IInv
  OBVIOUS
<1>1. frames \in Streams /\ work = Idle
  BY DEF Init, Idle
<1>2. Values /\ Flags
  BY DEF Init, Values, Flags
<1>3. Amounts
  <2>1. Len(Stream) \in Nat
    <3>1. frames \in Seq(Seq(Byte))
      BY <1>1, NetworkAssumption
    <3>2. Stream \in Seq(Byte)
      BY <3>1, FlattenType DEF Stream
    <3> QED BY <3>2
  <2>2. /\ sendData = 0 /\ backlog = 0 /\ peers = 0 /\ submitted = 0 /\ wire = 0 /\ arrived = 0
        /\ taken = 0
    BY DEF Init
  <2> QED BY <2>1, <2>2, Constants DEF Amounts
<1>4. TypeOK
  BY <1>1, <1>2, <1>3, EventsType, TypeParts DEF Events
<1>5. BytesInv
  <2>1. sendData = 0 /\ submitted = 0 /\ wire = 0 /\ 0 = 0 * PacketSize
    BY Constants DEF Init
  <2> QED BY <2>1 DEF BytesInv
<1>6. ModeInv /\ EntryInv /\ SessionInv /\ StraysHaveCause
  BY DEF Init, ModeInv, EntryInv, SessionInv, StraysHaveCause
<1>7. WorkInv
  BY <1>1, EventsDiffer DEF Init, WorkInv, Events
<1> QED BY <1>1, <1>4, <1>5, <1>6, <1>7 DEF IInv

(* Every step keeps it.                                                    *)
LEMMA StepInv == IInv /\ [Next]_vars => IInv'
<1> SUFFICES ASSUME IInv, [Next]_vars PROVE IInv'
  OBVIOUS
<1>1. CASE Next
  <2> USE DEF IInv
  <2>1. frames' = frames
    BY <1>1 DEF Next, SessionStep, WorkerStep, CloseStep, PeerStep, ConnectAtOnce, ConnectFails,
       ConnectRegisters, ConnectMaps, AcceptCalled, StartReceiver, Send, SendRefused,
       SendLocksAgain, Pause, Continue, ReceiverLoops, EpollWait, WorkerEnds, AcceptConnection,
       ConnectCompletes, SendPiece, ReceiveBytes, ReceiveEnd, HangUpTellsReceiver,
       HangUpTellsSession, HangUpErases, StopTest, Close, CloseClears, PeerConnects, PeerAnswers,
       BytesArrive, PeerLeaves, network
  <2>2. WorkInv'
    BY <1>1, WorkStep
  <2>3. Values' /\ Flags' /\ Amounts'
    BY <1>1, ValuesStep, FlagsStep, AmountsStep, TypeParts
  <2>4. work' \in Seq(Parts)
    BY <2>2, EventsType DEF WorkInv
  <2>5. TypeOK'
    BY <2>3, <2>4, Zenon DEF TypeOK, Values, Flags, Amounts, Parts
  <2>6. BytesInv' /\ ModeInv' /\ EntryInv' /\ SessionInv' /\ StraysHaveCause'
    BY <1>1, BytesStep, ModeStep, EntryStep, SessionInvStep, StraysStep
  <2> QED BY <2>1, <2>2, <2>5, <2>6
<1>2. CASE UNCHANGED vars
  BY <1>2 DEF IInv, TypeOK, Stream, BytesInv, ModeInv, EntryInv, WorkInv, SessionInv,
     StraysHaveCause, Failed, vars, socket, coroutines, network, sent, input
<1> QED BY <1>1, <1>2

(* The invariant holds throughout.                                         *)
THEOREM Invariance == SafetySpec => []IInv
<1> QED BY InitInv, StepInv, PTL DEF SafetySpec

(* Every variable has its type.                                            *)
THEOREM TypeCorrect == SafetySpec => []TypeOK
<1>1. IInv => TypeOK
  BY DEF IInv
<1> QED BY <1>1, Invariance, PTL

(* Whatever the peer sends and whenever it connects, answers, leaves or    *)
(* resets the connection, and however stopTest() comes in between: a send  *)
(* is never reported out of turn, a receive only by a hang-up after the    *)
(* receiver has ended, and a connect or an accept only after a failed      *)
(* connection, a hang-up, a second peer or a connection that came up       *)
(* before doAsyncConnect() had put it into the map.                        *)
THEOREM StrayCallbacks == SafetySpec => []StraysHaveCause
<1>1. IInv => StraysHaveCause
  BY DEF IInv
<1> QED BY <1>1, Invariance, PTL

-----------------------------------------------------------------------------
(* What the coroutines wait for is asked for.  IOCompletes is liveness; it *)
(* rests on the next invariant: whoever waits for the socket has its event *)
(* in the mask of a descriptor that is in the epoll set.                   *)

AskedFor ==
  Defined /\ entry = "mapped" =>
    /\ session = "send" => polled /\ "out" \in mask
    /\ receiver = "receive" => polled /\ "in" \in mask

(* A send waits while it has bytes left, a receive while its callback is   *)
(* set, and neither before the connection is in the map; a server that has *)
(* not accepted yet has no receiver.                                       *)
WaitsInv ==
  /\ session = "send" <=> sendData # 0
  /\ receiver = "receive" => "receive" \in callbacks
  /\ entry \in {"none", "unmapped"} => receiver # "receive" /\ sendData = 0
  /\ receiver = "none" => sendData = 0
  /\ mode = "server" /\ "accept" \notin callbacks => receiver = "none"
  /\ session = "accept" => receiver = "none"

(* Every step of the backend and of its users keeps both.                  *)
LEMMA AskedStep ==
  ASSUME TypeOK, BytesInv, ModeInv, WorkInv, AskedFor, WaitsInv, Next
  PROVE  AskedFor' /\ WaitsInv'
<1> USE DEF AskedFor, WaitsInv, Defined, socket, coroutines, network, sent, input
<1>1. CASE ConnectAtOnce
  BY <1>1 DEF ConnectAtOnce, SessionRuns
<1>2. CASE ConnectFails
  BY <1>2 DEF ConnectFails, SessionRuns
<1>3. CASE ConnectRegisters
  BY <1>3 DEF ConnectRegisters, SessionRuns
<1>4. CASE ConnectMaps
  BY <1>4 DEF ConnectMaps
<1>5. CASE AcceptCalled
  BY <1>5 DEF AcceptCalled, SessionRuns
<1>6. CASE StartReceiver
  BY <1>6 DEF StartReceiver, SessionRuns, Up, Receive, Armed
<1>7. CASE Send
  <2>1. /\ sendData' = sendData + PacketSize /\ PacketSize \in Nat \ {0} /\ sendData \in Nat
        /\ session' = "send" /\ polled' = TRUE /\ mask' = mask \cup {"out"} /\ receiver # "none"
        /\ session = "running" /\ entry = "mapped" /\ callbacks' = callbacks \cup {"send"}
        /\ UNCHANGED <<entry, receiver, strays, mode>>
    BY <1>7, NetworkAssumption, Counters DEF Send, Talks, SessionRuns, Suspend, Armed
  <2>2. sendData' # 0
    BY <2>1
  <2> QED BY <2>1, <2>2
<1>8. CASE SendRefused
  BY <1>8 DEF SendRefused, Talks, SessionRuns
<1>9. CASE SendLocksAgain
  BY <1>9 DEF SendLocksAgain, Talks, SessionRuns
<1>10. CASE Pause
  BY <1>10 DEF Pause, SessionRuns, Suspend
<1>11. CASE \E w \in BOOLEAN : Continue(w)
  BY <1>11 DEF Continue
<1>12. CASE ReceiverLoops
  BY <1>12 DEF ReceiverLoops, Receive, Armed
<1>13. CASE EpollWait
  BY <1>13 DEF EpollWait
<1>14. CASE WorkerEnds
  BY <1>14 DEF WorkerEnds
<1>15. CASE AcceptConnection
  <2>1. mode = "server"
    <3>1. backlog > 0
      BY <1>15, DoesIt DEF AcceptConnection, WorkInv
    <3>2. mode \in {"client", "server"}
      BY DEF TypeOK
    <3> QED BY <3>1, <3>2, Counters DEF ModeInv
  <2>2. /\ entry' = "mapped" /\ Defined
        /\ UNCHANGED <<mode, receiver, callbacks, sendData>>
    BY <1>15 DEF AcceptConnection, Does
  <2>3. CASE "accept" \in callbacks /\ session # "accept"
    <3>1. strays' # {} /\ session' = session
      BY <1>15, <2>3 DEF AcceptConnection, ResumeSession
    <3> QED BY <3>1, <2>2
  <2>4. CASE "accept" \notin callbacks \/ session = "accept"
    <3>1. receiver = "none" /\ sendData = 0
      BY <2>1, <2>4
    <3>2. session' \in {session, "running"}
      BY <1>15 DEF AcceptConnection, ResumeSession
    <3> QED BY <3>1, <3>2, <2>2
  <2> QED BY <2>3, <2>4
<1>16. CASE ConnectCompletes
  <2>1. /\ mask' \in {mask, mask \ {"out"}} /\ Defined
        /\ UNCHANGED <<mode, entry, polled, callbacks, sendData, receiver>>
    BY <1>16 DEF ConnectCompletes, Does
  <2>2. CASE session = "connect"
    <3>1. sendData = 0
      BY <2>2, Counters DEF BytesInv
    <3>2. session' \in {"ended", "running"} /\ UNCHANGED strays
      BY <2>2, <1>16 DEF ConnectCompletes, ResumeSession
    <3> QED BY <3>1, <3>2, <2>1
  <2>3. CASE session # "connect"
    <3>1. strays' # {} /\ session' = session
      BY <2>3, <1>16 DEF ConnectCompletes, ResumeSession
    <3> QED BY <3>1, <2>1
  <2> QED BY <2>2, <2>3
<1>17. CASE SendPiece
  <2>1. PICK k \in (IF sendData > 0 THEN 1..sendData ELSE {0}) :
          /\ sendData' = sendData - k
          /\ mask' = IF k = sendData THEN mask \ {"out"} ELSE mask
          /\ IF k = sendData /\ k > 0
               THEN ResumeSession("send")
               ELSE UNCHANGED <<session, onWorker, strays>>
    BY <1>17 DEF SendPiece
  <2>2. UNCHANGED <<mode, entry, polled, callbacks, receiver>> /\ Defined
    BY <1>17 DEF SendPiece, Does
  <2>3. sendData \in Nat
    BY Counters
  <2>4. sendData' \in Nat /\ sendData' <= sendData /\ (sendData' = 0 <=> k = sendData)
    BY <2>1, <2>3
  <2>5. CASE k = sendData
    <3>1. sendData' = 0 /\ mask' = mask \ {"out"}
      BY <2>1, <2>4, <2>5
    <3>2. session' # "send" /\ session' \in {session, "running"}
      <4>1. CASE sendData > 0
        BY <4>1, <2>1, <2>5 DEF ResumeSession
      <4>2. CASE ~ (sendData > 0)
        <5>1. sendData = 0
          BY <4>2, <2>3
        <5> QED BY <5>1, <2>1, <2>5
      <4> QED BY <4>1, <4>2
    <3>3. Defined' => Defined
      BY <2>2
    <3> QED BY <3>1, <3>2, <2>2
  <2>6. CASE k # sendData
    <3>1. sendData' # 0 /\ sendData # 0 /\ UNCHANGED <<session, strays, mask>>
      BY <2>1, <2>3, <2>4, <2>6
    <3> QED BY <3>1, <2>2
  <2> QED BY <2>5, <2>6
<1>18. CASE ReceiveBytes
  <2>1. receiver = "receive"
    BY <1>18, DoesIt DEF ReceiveBytes, WorkInv
  <2>2. receiver' = "running" /\ UNCHANGED strays
    BY <1>18, <2>1 DEF ReceiveBytes, ResumeReceiver
  <2>3. mask' = mask \ {"in"} /\ UNCHANGED <<mode, entry, polled, callbacks, sendData, session>>
    BY <1>18 DEF ReceiveBytes
  <2> QED BY <2>1, <2>2, <2>3
<1>19. CASE ReceiveEnd
  BY <1>19 DEF ReceiveEnd, ResumeReceiver
<1>20. CASE HangUpTellsReceiver
  BY <1>20 DEF HangUpTellsReceiver, ResumeReceiver
<1>21. CASE HangUpTellsSession
  <2>1. session' \in {session, "running"} /\ (session = "send" => session' = "send") /\ Defined
    BY <1>21 DEF HangUpTellsSession, ResumeSession, Does
  <2>2. UNCHANGED <<mode, entry, polled, mask, callbacks, sendData, receiver>>
    BY <1>21 DEF HangUpTellsSession
  <2> QED BY <2>1, <2>2
<1>22. CASE HangUpErases
  BY <1>22 DEF HangUpErases
<1>23. CASE StopTest
  BY <1>23 DEF StopTest
<1>24. CASE Close
  BY <1>24 DEF Close
<1>25. CASE CloseClears
  BY <1>25 DEF CloseClears
<1>26. CASE PeerConnects
  BY <1>26 DEF PeerConnects
<1>27. CASE PeerAnswers
  BY <1>27 DEF PeerAnswers
<1>28. CASE BytesArrive
  BY <1>28 DEF BytesArrive
<1>29. CASE PeerLeaves
  BY <1>29 DEF PeerLeaves
<1> QED
  BY <1>1, <1>2, <1>3, <1>4, <1>5, <1>6, <1>7, <1>8, <1>9, <1>10, <1>11, <1>12, <1>13, <1>14,
     <1>15, <1>16, <1>17, <1>18, <1>19, <1>20, <1>21, <1>22, <1>23, <1>24, <1>25, <1>26, <1>27,
     <1>28, <1>29
     DEF Next, SessionStep, WorkerStep, CloseStep, PeerStep

(* Both hold throughout.                                                   *)
LEMMA AskedAlways == SafetySpec => [](AskedFor /\ WaitsInv)
<1>1. Init => AskedFor /\ WaitsInv
  BY DEF Init, AskedFor, WaitsInv
<1>2. IInv /\ AskedFor /\ WaitsInv /\ [Next]_vars => (AskedFor /\ WaitsInv)'
  <2> SUFFICES ASSUME IInv, AskedFor, WaitsInv, [Next]_vars
               PROVE  AskedFor' /\ WaitsInv'
    OBVIOUS
  <2>1. CASE Next
    BY <2>1, AskedStep DEF IInv
  <2>2. CASE UNCHANGED vars
    BY <2>2 DEF AskedFor, WaitsInv, Defined, vars, socket, coroutines
  <2> QED BY <2>1, <2>2
<1> QED BY <1>1, <1>2, Invariance, PTL DEF SafetySpec

(* The safety half of IOCompletes.  A send that has returned has given     *)
(* every byte to the socket, none of them twice, and one that has not has  *)
(* bytes left.  As long as the connection is in the map and no callback    *)
(* came out of turn, epoll is asked for whatever a send or the receiver    *)
(* waits for, in whatever order the two register and give up their events. *)
THEOREM IOIsAskedFor ==
  SafetySpec => [](AskedFor /\ (session = "send" <=> wire < submitted)
                   /\ (session # "send" => wire = submitted))
<1>1. IInv /\ WaitsInv => (session = "send" <=> wire < submitted)
                          /\ (session # "send" => wire = submitted)
  <2> SUFFICES ASSUME IInv, WaitsInv
               PROVE  (session = "send" <=> wire < submitted)
                      /\ (session # "send" => wire = submitted)
    OBVIOUS
  <2>1. sendData \in Nat /\ wire \in Nat /\ submitted \in Nat /\ sendData + wire = submitted
    BY Counters DEF IInv, BytesInv
  <2>2. session = "send" <=> sendData # 0
    BY DEF WaitsInv
  <2> QED BY <2>1, <2>2
<1> QED BY <1>1, Invariance, AskedAlways, PTL

-----------------------------------------------------------------------------
(* Who holds socketDataMutex across steps: only a session whose send was   *)
(* refused because the socket is gone, from the refusal until it pauses,   *)
(* and for ever if it sends again from there.                              *)

MutexInv ==
  /\ mutex = "held" => session \in {"running", "stuck"} /\ receiver # "none"
  /\ session = "stuck" => mutex = "held"
  /\ entry = "none" \/ (mode = "server" /\ "accept" \notin callbacks) => receiver = "none"

Stuck == session = "stuck" /\ mutex = "held"

(* Every step keeps this, and a session that is stuck stays so.            *)
LEMMA MutexStep ==
  ASSUME WorkInv, MutexInv, Next
  PROVE  MutexInv' /\ (Stuck => Stuck')
<1> USE DEF MutexInv, Stuck, socket, coroutines, network, sent, input
<1>1. CASE ConnectAtOnce
  BY <1>1 DEF ConnectAtOnce, SessionRuns
<1>2. CASE ConnectFails
  BY <1>2 DEF ConnectFails, SessionRuns
<1>3. CASE ConnectRegisters
  BY <1>3 DEF ConnectRegisters, SessionRuns
<1>4. CASE ConnectMaps
  BY <1>4 DEF ConnectMaps
<1>5. CASE AcceptCalled
  BY <1>5 DEF AcceptCalled, SessionRuns
<1>6. CASE StartReceiver
  BY <1>6 DEF StartReceiver, SessionRuns, Up, Receive
<1>7. CASE Send
  BY <1>7 DEF Send, Talks, SessionRuns, Suspend
<1>8. CASE SendRefused
  BY <1>8 DEF SendRefused, Talks, SessionRuns
<1>9. CASE SendLocksAgain
  BY <1>9 DEF SendLocksAgain, Talks, SessionRuns
<1>10. CASE Pause
  BY <1>10 DEF Pause, SessionRuns, Suspend
<1>11. CASE \E w \in BOOLEAN : Continue(w)
  BY <1>11 DEF Continue
<1>12. CASE ReceiverLoops
  BY <1>12 DEF ReceiverLoops, Receive
<1>13. CASE EpollWait
  BY <1>13 DEF EpollWait
<1>14. CASE WorkerEnds
  BY <1>14 DEF WorkerEnds
<1>15. CASE AcceptConnection
  BY <1>15 DEF AcceptConnection, ResumeSession
<1>16. CASE ConnectCompletes
  BY <1>16 DEF ConnectCompletes, ResumeSession
<1>17. CASE SendPiece
  BY <1>17 DEF SendPiece, ResumeSession
<1>18. CASE ReceiveBytes
  <2>1. receiver = "receive"
    BY <1>18, DoesIt DEF ReceiveBytes, WorkInv
  <2> QED BY <1>18, <2>1 DEF ReceiveBytes, ResumeReceiver
<1>19. CASE ReceiveEnd
  <2>1. receiver = "receive"
    BY <1>19, DoesIt DEF ReceiveEnd, WorkInv
  <2> QED BY <1>19, <2>1 DEF ReceiveEnd, ResumeReceiver
<1>20. CASE HangUpTellsReceiver
  BY <1>20 DEF HangUpTellsReceiver, ResumeReceiver
<1>21. CASE HangUpTellsSession
  BY <1>21 DEF HangUpTellsSession, ResumeSession
<1>22. CASE HangUpErases
  BY <1>22 DEF HangUpErases
<1>23. CASE StopTest
  BY <1>23 DEF StopTest
<1>24. CASE Close
  BY <1>24 DEF Close
<1>25. CASE CloseClears
  BY <1>25 DEF CloseClears
<1>26. CASE PeerConnects
  BY <1>26 DEF PeerConnects
<1>27. CASE PeerAnswers
  BY <1>27 DEF PeerAnswers
<1>28. CASE BytesArrive
  BY <1>28 DEF BytesArrive
<1>29. CASE PeerLeaves
  BY <1>29 DEF PeerLeaves
<1> QED
  BY <1>1, <1>2, <1>3, <1>4, <1>5, <1>6, <1>7, <1>8, <1>9, <1>10, <1>11, <1>12, <1>13, <1>14,
     <1>15, <1>16, <1>17, <1>18, <1>19, <1>20, <1>21, <1>22, <1>23, <1>24, <1>25, <1>26, <1>27,
     <1>28, <1>29
     DEF Next, SessionStep, WorkerStep, CloseStep, PeerStep

(* The account of the mutex holds throughout, and being stuck is for ever. *)
LEMMA MutexAlways == SafetySpec => []MutexInv /\ [][Stuck => Stuck']_vars
<1>1. Init => MutexInv
  BY DEF Init, MutexInv
<1>2. IInv /\ MutexInv /\ [Next]_vars => MutexInv' /\ (Stuck => Stuck')
  <2> SUFFICES ASSUME IInv, MutexInv, [Next]_vars
               PROVE  MutexInv' /\ (Stuck => Stuck')
    OBVIOUS
  <2>1. CASE Next
    BY <2>1, MutexStep DEF IInv
  <2>2. CASE UNCHANGED vars
    BY <2>2 DEF MutexInv, Stuck, vars, socket, coroutines
  <2> QED BY <2>1, <2>2
<1> QED BY <1>1, <1>2, Invariance, PTL DEF SafetySpec

(* The safety half of CloseReturns: socketDataMutex, which close(), the    *)
(* worker and the receiver all lock, is held across steps only by the      *)
(* session, and for ever once the session has sent again from the callback *)
(* of a refused send.                                                      *)
THEOREM OnlySessionHoldsMutex ==
  SafetySpec => /\ [](mutex = "held" => session \in {"running", "stuck"})
                /\ [](session = "stuck" => mutex = "held")
                /\ [][Stuck => Stuck']_vars
<1>1. MutexInv => /\ mutex = "held" => session \in {"running", "stuck"}
                  /\ session = "stuck" => mutex = "held"
  BY DEF MutexInv
<1> QED BY <1>1, MutexAlways, PTL

-----------------------------------------------------------------------------
(* The loop of drainPackets(), as a function of the place in the buffer.   *)

(* The loop ends at place i, or clears the buffer.                         *)
StopAt(b, i) ==
  [packets |-> <<>>, failures |-> 0, clears |-> 0, rest |-> SubSeq(b, i, Len(b))]
Clear(b) == [StopAt(b, Len(b) + 1) EXCEPT !.clears = 1]

(* What the loop finds from place i on, when f tells what it finds later.  *)
Round(b, f, i) ==
  IF ~ HasHeader(b, i) THEN StopAt(b, i)
  ELSE IF Oversized(b, i) THEN Clear(b)
  ELSE IF ~ Complete(b, i) THEN StopAt(b, i)
  ELSE IF b[i] # StartCode THEN f[Resync(b, i)]
  ELSE IF ~ VerifyPacket(b, i)
    THEN [f[Resync(b, i)] EXCEPT !.failures = @ + 1]
  ELSE [f[EndAt(b, i)] EXCEPT !.packets = <<PayloadAt(b, i)>> \o @]

(* What the loop finds from each place on.                                 *)
From(b) == CHOOSE f : f = [i \in 1..(Len(b) + 1) |-> Round(b, f, i)]

(* That is the recursion of DrainPackets.                                  *)
LEMMA DrainIsFrom == ASSUME NEW b PROVE DrainPackets(b) = From(b)[1]
BY DEF DrainPackets, From, Round, StopAt, Clear

(* Bytes are numbers.                                                      *)
LEMMA ByteType == Byte \subseteq Nat /\ StartCode \in Byte
BY DEF Byte, StartCode

(* A packet that is there as a whole.                                      *)
Whole(b, i) == HasHeader(b, i) /\ ~ Oversized(b, i) /\ Complete(b, i)

(* Where a whole packet is.                                                *)
LEMMA WholePlace ==
  ASSUME NEW b \in Seq(Byte), NEW i \in 1..(Len(b) + 1), Whole(b, i)
  PROVE  /\ i \in 1..Len(b) /\ i + 2 \in 1..Len(b) /\ i + 3 \in 1..Len(b)
         /\ SizeAt(b, i) \in Nat
         /\ EndAt(b, i) = i + 4 + SizeAt(b, i)
         /\ EndAt(b, i) \in (i + 1)..(Len(b) + 1) /\ Resync(b, i) \in (i + 1)..(Len(b) + 1)
<1>1. i + 4 <= Len(b) + 1 /\ Len(b) \in Nat
  BY DEF Whole, HasHeader, HeaderSize
<1>2. b[i + 2] \in Nat
  <2>1. i + 2 \in 1..Len(b)
    BY <1>1
  <2>2. b[i + 2] \in Byte
    BY <2>1
  <2> QED BY <2>2, ByteType
<1>3. EndAt(b, i) = i + 4 + b[i + 2] /\ EndAt(b, i) <= Len(b) + 1
  BY DEF Whole, Complete, EndAt, SizeAt, HeaderSize
<1>4. EndAt(b, i) \in (i + 1)..(Len(b) + 1) /\ i + 1 \in (i + 1)..(Len(b) + 1)
  BY <1>1, <1>2, <1>3
<1> QED BY <1>1, <1>2, <1>3, <1>4 DEF SizeAt, Resync

(* The loop goes forward.                                                  *)
LEMMA RoundLooksAhead ==
  ASSUME NEW b \in Seq(Byte), NEW i \in 1..(Len(b) + 1), NEW f, NEW g,
         \A j \in (i + 1)..(Len(b) + 1) : f[j] = g[j]
  PROVE  Round(b, f, i) = Round(b, g, i)
<1>1. CASE ~ Whole(b, i)
  BY <1>1 DEF Round, Whole
<1>2. CASE Whole(b, i)
  <2>1. f[EndAt(b, i)] = g[EndAt(b, i)] /\ f[Resync(b, i)] = g[Resync(b, i)]
    BY <1>2, WholePlace
  <2> QED BY <2>1, Zenon DEF Round
<1> QED BY <1>1, <1>2

(* The recursion is well founded, so the function is what it says.         *)
LEMMA FromUnfolds ==
  ASSUME NEW b \in Seq(Byte)
  PROVE  \A i \in 1..(Len(b) + 1) : From(b)[i] = Round(b, From(b), i)
<1> DEFINE N == Len(b) + 1
           Good(f, n) == f = [i \in n..N |-> Round(b, f, i)]
<1>n. N \in Nat /\ N >= 1
  OBVIOUS
<1>1. \A n \in 1..(N + 1) : \E f : Good(f, n)
  <2> DEFINE Bad == {n \in 1..(N + 1) : ~ \E f : Good(f, n)}
  <2> SUFFICES ASSUME Bad # {} PROVE FALSE
    OBVIOUS
  <2>0. Bad \subseteq 1..(N + 1) /\ \A n \in 1..(N + 1) : n \notin Bad => \E f : Good(f, n)
    OBVIOUS
  <2>1. PICK n \in Bad : \A k \in Bad : k <= n
    <3> HIDE DEF Bad, N
    <3>1. Bad \in SUBSET (0..(N + 1)) /\ N + 1 \in Nat
      BY <2>0, <1>n
    <3> QED BY <3>1, GreatestNatural
  <2>2. CASE n = N + 1
    <3>1. n..N = {}
      BY <2>2, <1>n
    <3> DEFINE g == [i \in n..N |-> 0]
    <3>2. Good(g, n)
      BY <3>1
    <3> QED BY <3>2, <2>1
  <2>3. CASE n # N + 1
    <3>1. n \in 1..N /\ n + 1 \in 1..(N + 1) /\ n + 1 \notin Bad
      <4> HIDE DEF Bad, N
      <4> QED BY <2>0, <2>1, <2>3, <1>n
    <3>2. PICK f : Good(f, n + 1)
      BY <2>0, <3>1
    <3> DEFINE g == [i \in n..N |-> IF i = n THEN Round(b, f, n) ELSE f[i]]
    <3>3. ASSUME NEW i \in n..N
          PROVE  g[i] = Round(b, g, i)
      <4>1. \A j \in (i + 1)..N : g[j] = f[j]
        <5> HIDE DEF N
        <5> QED BY <3>1, <1>n
      <4>2. i \in 1..N
        <5> HIDE DEF N
        <5> QED BY <3>1, <1>n
      <4>3. Round(b, g, i) = Round(b, f, i)
        <5> HIDE DEF g
        <5> QED BY <4>1, <4>2, RoundLooksAhead
      <4>4. CASE i = n
        BY <4>3, <4>4
      <4>5. CASE i # n
        <5>1. i \in (n + 1)..N
          <6> HIDE DEF N
          <6> QED BY <4>5, <3>1, <1>n
        <5>2. f[i] = Round(b, f, i)
          <6> HIDE DEF N
          <6> QED BY <5>1, <3>2
        <5>3. g[i] = f[i]
          BY <4>5
        <5> QED BY <5>2, <5>3, <4>3
      <4> QED BY <4>4, <4>5
    <3>4. g = [i \in n..N |-> g[i]]
      OBVIOUS
    <3>5. Good(g, n)
      <4> HIDE DEF g, N
      <4> QED BY <3>3, <3>4
    <3> QED BY <3>5, <2>1
  <2> QED BY <2>2, <2>3
<1>2. From(b) = CHOOSE f : Good(f, 1)
  BY Zenon DEF From
<1>3. Good(From(b), 1)
  <2>1. \E f : Good(f, 1)
    <3> HIDE DEF Good, N
    <3>1. 1 \in 1..(N + 1)
      BY <1>n
    <3> QED BY <1>1, <3>1, Zenon
  <2> HIDE DEF Good
  <2> QED BY <1>2, <2>1, Zenon
<1> HIDE DEF N
<1> QED BY <1>3 DEF N

-----------------------------------------------------------------------------
(* What the loop finds.                                                    *)

(* What the loop may find.                                                 *)
Results == [packets : Seq(Seq(Byte)), failures : Nat, clears : Nat, rest : Seq(Byte)]

(* Equal bytes at places that differ by o are equal slices.                *)
LEMMA EqualSlices ==
  ASSUME NEW S, NEW d \in Seq(S), NEW e \in Seq(S), NEW m \in Int, NEW n \in Int, NEW o \in Int,
         \A j \in m..n : j \in 1..Len(d) /\ j + o \in 1..Len(e) /\ d[j] = e[j + o]
  PROVE  SubSeq(d, m, n) = SubSeq(e, m + o, n + o) /\ SubSeq(d, m, n) \in Seq(S)
<1>1. \A j \in m..n : d[j] \in S
  OBVIOUS
<1>2. /\ SubSeq(d, m, n) \in Seq(S) /\ Len(SubSeq(d, m, n)) = IF m <= n THEN n - m + 1 ELSE 0
      /\ \A i \in 1..(n - m + 1) : SubSeq(d, m, n)[i] = d[m + i - 1]
  BY <1>1, SubSeqProperties
<1>3. \A j \in (m + o)..(n + o) : e[j] \in S
  <2> SUFFICES ASSUME NEW j \in (m + o)..(n + o) PROVE e[j] \in S
    OBVIOUS
  <2>1. j - o \in m..n /\ j - o + o = j
    OBVIOUS
  <2> QED BY <2>1
<1>4. /\ SubSeq(e, m + o, n + o) \in Seq(S)
      /\ Len(SubSeq(e, m + o, n + o)) = IF m + o <= n + o THEN n + o - (m + o) + 1 ELSE 0
      /\ \A i \in 1..(n + o - (m + o) + 1) : SubSeq(e, m + o, n + o)[i] = e[m + o + i - 1]
  <2> DEFINE p == m + o
             q == n + o
  <2>1. p \in Int /\ q \in Int /\ \A j \in p..q : e[j] \in S
    BY <1>3
  <2> HIDE DEF p, q
  <2>2. /\ SubSeq(e, p, q) \in Seq(S) /\ Len(SubSeq(e, p, q)) = IF p <= q THEN q - p + 1 ELSE 0
        /\ \A i \in 1..(q - p + 1) : SubSeq(e, p, q)[i] = e[p + i - 1]
    BY <2>1, SubSeqProperties
  <2> QED BY <2>2 DEF p, q
<1>5. Len(SubSeq(d, m, n)) = Len(SubSeq(e, m + o, n + o))
  BY <1>2, <1>4
<1>6. ASSUME NEW i \in 1..Len(SubSeq(d, m, n))
      PROVE  SubSeq(d, m, n)[i] = SubSeq(e, m + o, n + o)[i]
  <2>1. i \in 1..(n - m + 1) /\ i \in 1..(n + o - (m + o) + 1)
    BY <1>2
  <2>2. m + i - 1 \in m..n /\ m + i - 1 + o = m + o + i - 1
    BY <2>1
  <2>3. d[m + i - 1] = e[m + i - 1 + o]
    BY <2>2
  <2> QED BY <1>2, <1>4, <2>1, <2>2, <2>3
<1> QED BY <1>2, <1>4, <1>5, <1>6, SeqEqual

(* A packet is the same wherever its bytes are.                            *)
LEMMA SamePacket ==
  ASSUME NEW d \in Seq(Byte), NEW e \in Seq(Byte), NEW o \in Int,
         NEW i \in 1..(Len(d) + 1), i + o \in 1..(Len(e) + 1), Len(d) + o <= Len(e),
         \A j \in i..Len(d) : j + o \in 1..Len(e) /\ d[j] = e[j + o]
  PROVE  /\ HasHeader(d, i) => HasHeader(e, i + o) /\ (Oversized(d, i) <=> Oversized(e, i + o))
         /\ Whole(d, i) =>
              /\ Whole(e, i + o) /\ d[i] = e[i + o]
              /\ EndAt(e, i + o) = EndAt(d, i) + o /\ Resync(e, i + o) = Resync(d, i) + o
              /\ PayloadAt(d, i) \in Seq(Byte) /\ PayloadAt(e, i + o) = PayloadAt(d, i)
              /\ VerifyPacket(e, i + o) <=> VerifyPacket(d, i)
<1>0. Len(d) \in Nat /\ Len(e) \in Nat
  OBVIOUS
<1>1. ASSUME HasHeader(d, i)
      PROVE  /\ HasHeader(e, i + o) /\ (Oversized(d, i) <=> Oversized(e, i + o))
             /\ i + 2 \in i..Len(d) /\ SizeAt(d, i) = SizeAt(e, i + o) /\ i + 4 <= Len(d) + 1
  <2>1. i + 4 <= Len(d) + 1
    BY <1>1 DEF HasHeader, HeaderSize
  <2>2. i + 2 \in i..Len(d) /\ i + o + 4 <= Len(e) + 1 /\ i + 2 + o = i + o + 2
    BY <2>1, <1>0
  <2>3. d[i + 2] = e[i + o + 2]
    <3> DEFINE j == i + 2
    <3>1. j \in i..Len(d) /\ j + o = i + o + 2
      BY <2>2
    <3> HIDE DEF j
    <3>2. d[j] = e[j + o]
      BY <3>1, Zenon
    <3> QED BY <3>1, <3>2, Zenon DEF j
  <2> QED BY <2>1, <2>2, <2>3 DEF HasHeader, HeaderSize, SizeAt, Oversized
<1>2. ASSUME Whole(d, i)
      PROVE  /\ Whole(e, i + o) /\ d[i] = e[i + o]
             /\ EndAt(e, i + o) = EndAt(d, i) + o /\ Resync(e, i + o) = Resync(d, i) + o
             /\ PayloadAt(d, i) \in Seq(Byte) /\ PayloadAt(e, i + o) = PayloadAt(d, i)
             /\ VerifyPacket(e, i + o) <=> VerifyPacket(d, i)
  <2> DEFINE z == SizeAt(d, i)
             en == EndAt(d, i)
  <2>1. /\ HasHeader(e, i + o) /\ ~ Oversized(e, i + o) /\ z = SizeAt(e, i + o)
    BY <1>1, <1>2 DEF Whole
  <2>2. /\ i \in 1..Len(d) /\ i + 3 \in 1..Len(d) /\ z \in Nat /\ en = i + 4 + z
        /\ en \in (i + 1)..(Len(d) + 1)
    BY <1>2, WholePlace
  <2>3. EndAt(e, i + o) = i + o + 4 + z /\ EndAt(d, i) = en
    BY <2>1 DEF EndAt, HeaderSize
  <2>a. Resync(e, i + o) = i + o + 1 /\ Resync(d, i) = i + 1
    BY DEF Resync
  <2>p. /\ PayloadAt(d, i) = SubSeq(d, i + 4, en - 1)
        /\ PayloadAt(e, i + o) = SubSeq(e, i + o + 4, EndAt(e, i + o) - 1)
    BY DEF PayloadAt, HeaderSize
  <2> HIDE DEF z, en
  <2>4. EndAt(e, i + o) = en + o /\ en + o <= Len(e) + 1
    BY <2>2, <2>3, <1>0
  <2>5. Whole(e, i + o)
    BY <2>1, <2>4 DEF Whole, Complete
  <2>6. /\ i \in i..Len(d) /\ i + 3 \in i..Len(d) /\ i + 3 + o = i + o + 3 /\ en - 1 \in Int
        /\ i + 4 \in Int /\ i + 4 + o = i + o + 4 /\ en - 1 + o = en + o - 1
        /\ \A j \in (i + 4)..(en - 1) : j \in i..Len(d) /\ j \in 1..Len(d)
    BY <2>2, <1>0
  <2>7. \A j \in (i + 4)..(en - 1) : j \in 1..Len(d) /\ j + o \in 1..Len(e) /\ d[j] = e[j + o]
    BY <2>6
  <2>8. /\ SubSeq(d, i + 4, en - 1) = SubSeq(e, i + 4 + o, en - 1 + o)
        /\ SubSeq(d, i + 4, en - 1) \in Seq(Byte)
    <3> DEFINE k == i + 4
               l == en - 1
    <3>1. k \in Int /\ l \in Int
      BY <2>6
    <3>2. \A j \in k..l : j \in 1..Len(d) /\ j + o \in 1..Len(e) /\ d[j] = e[j + o]
      BY <2>7
    <3> HIDE DEF k, l
    <3>3. SubSeq(d, k, l) = SubSeq(e, k + o, l + o) /\ SubSeq(d, k, l) \in Seq(Byte)
      BY <3>1, <3>2, EqualSlices
    <3> QED BY <3>3 DEF k, l
  <2>9. PayloadAt(d, i) \in Seq(Byte) /\ PayloadAt(e, i + o) = PayloadAt(d, i)
    <3> DEFINE ee == EndAt(e, i + o)
    <3>1. ee = en + o
      BY <2>4
    <3> HIDE DEF ee
    <3>2. ee - 1 = en - 1 + o
      <4>1. en \in Int /\ o \in Int
        BY <2>2
      <4> QED BY ONLY <3>1, <4>1
    <3>3. i + o + 4 = i + 4 + o
      BY <2>6
    <3> QED BY <2>8, <2>p, <3>2, <3>3, Zenon DEF ee
  <2>10. d[i] = e[i + o] /\ d[i + 3] = e[i + o + 3]
    BY <2>6
  <2>11. VerifyPacket(e, i + o) <=> VerifyPacket(d, i)
    BY <2>9, <2>10 DEF VerifyPacket
  <2>12. Resync(e, i + o) = Resync(d, i) + o
    BY <2>a, <1>0
  <2> QED BY <2>3, <2>4, <2>5, <2>9, <2>10, <2>11, <2>12
<1> QED BY <1>1, <1>2, Zenon

(* How a round goes on.                                                    *)
LEMMA RoundCases ==
  ASSUME NEW b \in Seq(Byte), NEW i \in 1..(Len(b) + 1)
  PROVE  \/ ~ Whole(b, i) /\ ~ (HasHeader(b, i) /\ Oversized(b, i)) /\ From(b)[i] = StopAt(b, i)
         \/ ~ Whole(b, i) /\ HasHeader(b, i) /\ Oversized(b, i) /\ From(b)[i] = Clear(b)
         \/ Whole(b, i) /\ b[i] # StartCode /\ From(b)[i] = From(b)[Resync(b, i)]
         \/ Whole(b, i) /\ b[i] = StartCode /\ ~ VerifyPacket(b, i)
            /\ From(b)[i] = [From(b)[Resync(b, i)] EXCEPT !.failures = @ + 1]
         \/ Whole(b, i) /\ b[i] = StartCode /\ VerifyPacket(b, i)
            /\ From(b)[i] = [From(b)[EndAt(b, i)] EXCEPT !.packets = <<PayloadAt(b, i)>> \o @]
<1>1. From(b)[i] = Round(b, From(b), i)
  BY FromUnfolds
<1> QED BY <1>1, Zenon DEF Round, Whole

(* The loop finds packets, a number of failures and bytes.                 *)
LEMMA FromType ==
  ASSUME NEW b \in Seq(Byte)
  PROVE  \A i \in 1..(Len(b) + 1) : From(b)[i] \in Results
<1> DEFINE N == Len(b) + 1
           Bad == {i \in 1..N : From(b)[i] \notin Results}
<1> SUFFICES ASSUME Bad # {} PROVE FALSE
  OBVIOUS
<1>n. N \in Nat /\ Len(b) \in Nat
  OBVIOUS
<1>0. Bad \subseteq 1..N /\ \A i \in 1..N : i \in Bad <=> From(b)[i] \notin Results
  OBVIOUS
<1>1. PICK i \in Bad : \A k \in Bad : k <= i
  <2> HIDE DEF Bad, N
  <2>1. Bad \in SUBSET (0..N)
    BY <1>0, <1>n
  <2> QED BY <2>1, <1>n, GreatestNatural
<1>2. \A j \in (i + 1)..N : From(b)[j] \in Results
  <2> HIDE DEF Bad, N
  <2> QED BY <1>0, <1>1, <1>n
<1>3. i \in 1..(Len(b) + 1)
  BY <1>0, <1>1
<1>4. \A j \in 1..(Len(b) + 1) : StopAt(b, j) \in Results
  <2> TAKE j \in 1..(Len(b) + 1)
  <2>1. \A k \in j..Len(b) : b[k] \in Byte
    BY <1>n
  <2>2. SubSeq(b, j, Len(b)) \in Seq(Byte)
    BY <2>1, <1>n, SubSeqProperties
  <2>3. <<>> \in Seq(Seq(Byte))
    OBVIOUS
  <2> QED BY <2>2, <2>3 DEF StopAt, Results
<1>5. CASE ~ Whole(b, i)
  <2>1. From(b)[i] = StopAt(b, i) \/ From(b)[i] = Clear(b)
    BY <1>3, <1>5, RoundCases, Zenon
  <2>2. Clear(b) \in Results
    <3>1. StopAt(b, Len(b) + 1) \in Results
      BY <1>4, <1>n
    <3> QED BY <3>1 DEF Clear, Results
  <2>3. From(b)[i] \in Results
    BY <2>1, <2>2, <1>3, <1>4, Zenon
  <2> QED BY <2>3, <1>1
<1>6. CASE Whole(b, i)
  <2>1. From(b)[Resync(b, i)] \in Results /\ From(b)[EndAt(b, i)] \in Results
    BY <1>2, <1>3, <1>6, WholePlace
  <2>2. PayloadAt(b, i) \in Seq(Byte)
    <3> DEFINE k == i + 4
               e == EndAt(b, i)
               l == e - 1
    <3>1. PayloadAt(b, i) = SubSeq(b, k, l)
      BY DEF PayloadAt, HeaderSize
    <3>2. e \in (i + 1)..(Len(b) + 1)
      BY <1>3, <1>6, WholePlace
    <3> HIDE DEF e
    <3>3. k \in Int /\ l \in Int /\ \A j \in k..l : b[j] \in Byte
      BY <1>3, <1>n, <3>2
    <3> HIDE DEF k, l
    <3>4. b \in Seq(Byte)
      OBVIOUS
    <3>5. SubSeq(b, k, l) \in Seq(Byte)
      BY ONLY <3>3, <3>4, SubSeqProperties
    <3> QED BY <3>1, <3>5, Zenon
  <2>3. \A r \in Results : [r EXCEPT !.failures = @ + 1] \in Results
    <3> TAKE r \in Results
    <3> HIDE DEF N, Bad
    <3>1. r.failures + 1 \in Nat
      BY DEF Results
    <3> QED BY <3>1 DEF Results
  <2>4. \A r \in Results : [r EXCEPT !.packets = <<PayloadAt(b, i)>> \o @] \in Results
    <3> TAKE r \in Results
    <3>1. r.packets \in Seq(Seq(Byte)) /\ <<PayloadAt(b, i)>> \in Seq(Seq(Byte))
      BY <2>2 DEF Results
    <3>2. <<PayloadAt(b, i)>> \o r.packets \in Seq(Seq(Byte))
      BY <3>1, ConcatProperties
    <3> QED BY <3>2 DEF Results
  <2>5. From(b)[i] \in Results
    <3> HIDE DEF Bad, N
    <3> QED BY <1>3, <1>6, <2>1, <2>3, <2>4, RoundCases, Zenon
  <2> QED BY <2>5, <1>1
<1> QED BY <1>5, <1>6

(* What is left is the same wherever its bytes are.                        *)
LEMMA EqualEnds ==
  ASSUME NEW d \in Seq(Byte), NEW e \in Seq(Byte), NEW o \in Int, NEW i \in 1..(Len(d) + 1),
         Len(d) + o = Len(e),
         \A j \in i..Len(d) : j + o \in 1..Len(e) /\ d[j] = e[j + o]
  PROVE  StopAt(d, i) = StopAt(e, i + o)
<1> DEFINE n == Len(d)
<1>1. \A j \in i..n : j \in 1..Len(d) /\ j + o \in 1..Len(e) /\ d[j] = e[j + o]
  OBVIOUS
<1>2. i \in Int /\ n \in Int
  OBVIOUS
<1> HIDE DEF n
<1>3. SubSeq(d, i, n) = SubSeq(e, i + o, n + o)
  BY <1>1, <1>2, EqualSlices
<1> QED BY <1>3 DEF StopAt, n

(* A round over bytes that are found o places further on in e, up to its   *)
(* end, finds the same there if the later rounds do.                       *)
LEMMA ShiftedRound ==
  ASSUME NEW d \in Seq(Byte), NEW e \in Seq(Byte), NEW o \in Int, NEW i \in 1..(Len(d) + 1),
         i + o \in 1..(Len(e) + 1), Len(d) + o = Len(e),
         \A j \in i..Len(d) : j + o \in 1..Len(e) /\ d[j] = e[j + o],
         \A j \in (i + 1)..(Len(d) + 1) : From(d)[j] = From(e)[j + o]
  PROVE  From(d)[i] = From(e)[i + o]
<1>0. Len(d) \in Nat /\ Len(e) \in Nat /\ Len(d) + o <= Len(e)
  OBVIOUS
<1>1. /\ HasHeader(d, i) => HasHeader(e, i + o) /\ (Oversized(d, i) <=> Oversized(e, i + o))
      /\ Whole(d, i) =>
            /\ Whole(e, i + o) /\ d[i] = e[i + o]
            /\ EndAt(e, i + o) = EndAt(d, i) + o /\ Resync(e, i + o) = Resync(d, i) + o
            /\ PayloadAt(e, i + o) = PayloadAt(d, i)
            /\ VerifyPacket(e, i + o) <=> VerifyPacket(d, i)
  BY <1>0, SamePacket, ZenonT(30)
<1>2. CASE ~ Whole(d, i)
  <2>1. HasHeader(d, i) <=> HasHeader(e, i + o)
    BY <1>0 DEF HasHeader, HeaderSize
  <2>2. HasHeader(d, i) => (Oversized(d, i) <=> Oversized(e, i + o))
    BY <1>1
  <2>3. ~ Whole(e, i + o)
    <3>1. CASE HasHeader(d, i) /\ ~ Oversized(d, i)
      <4>1. ~ Complete(d, i)
        BY <3>1, <1>2 DEF Whole
      <4>2. SizeAt(d, i) = SizeAt(e, i + o) /\ SizeAt(d, i) \in Nat
        <5>1. i + 2 \in i..Len(d) /\ i + 2 \in 1..Len(d) /\ i + 2 + o = i + o + 2
          BY <3>1, <1>0 DEF HasHeader, HeaderSize
        <5>2. d[i + 2] = e[i + o + 2] /\ d[i + 2] \in Byte
          BY <5>1
        <5> QED BY <5>2, ByteType DEF SizeAt
      <4>3. ~ Complete(e, i + o)
        BY <4>1, <4>2, <1>0 DEF Complete, EndAt, HeaderSize
      <4> QED BY <4>3 DEF Whole
    <3> QED BY <3>1, <2>1, <2>2 DEF Whole
  <2>4. StopAt(d, i) = StopAt(e, i + o)
    BY EqualEnds
  <2>5. StopAt(d, Len(d) + 1) = StopAt(e, Len(e) + 1)
    <3>1. SubSeq(d, Len(d) + 1, Len(d)) = <<>> /\ SubSeq(e, Len(e) + 1, Len(e)) = <<>>
      BY <1>0, SubSeqEmpty
    <3> QED BY <3>1, Zenon DEF StopAt
  <2>6. Clear(d) = Clear(e)
    BY <2>5, Zenon DEF Clear
  <2>7. From(d)[i] = IF HasHeader(d, i) /\ Oversized(d, i) THEN Clear(d) ELSE StopAt(d, i)
    BY <1>2, RoundCases, Zenon
  <2>8. From(e)[i + o] =
          IF HasHeader(e, i + o) /\ Oversized(e, i + o) THEN Clear(e) ELSE StopAt(e, i + o)
    BY <2>3, RoundCases, Zenon
  <2> QED BY <2>1, <2>2, <2>4, <2>6, <2>7, <2>8, Zenon
<1>3. CASE Whole(d, i)
  <2>1. EndAt(d, i) \in (i + 1)..(Len(d) + 1) /\ Resync(d, i) \in (i + 1)..(Len(d) + 1)
    BY <1>3, WholePlace
  <2>2. /\ From(d)[EndAt(d, i)] = From(e)[EndAt(e, i + o)]
        /\ From(d)[Resync(d, i)] = From(e)[Resync(e, i + o)]
    BY <1>1, <1>3, <2>1, Zenon
  <2>3. \/ d[i] # StartCode /\ From(d)[i] = From(d)[Resync(d, i)]
        \/ d[i] = StartCode /\ ~ VerifyPacket(d, i)
           /\ From(d)[i] = [From(d)[Resync(d, i)] EXCEPT !.failures = @ + 1]
        \/ d[i] = StartCode /\ VerifyPacket(d, i)
           /\ From(d)[i] = [From(d)[EndAt(d, i)] EXCEPT !.packets = <<PayloadAt(d, i)>> \o @]
    BY <1>3, RoundCases, Zenon
  <2>4. \/ e[i + o] # StartCode /\ From(e)[i + o] = From(e)[Resync(e, i + o)]
        \/ e[i + o] = StartCode /\ ~ VerifyPacket(e, i + o)
           /\ From(e)[i + o] = [From(e)[Resync(e, i + o)] EXCEPT !.failures = @ + 1]
        \/ e[i + o] = StartCode /\ VerifyPacket(e, i + o)
           /\ From(e)[i + o]
                = [From(e)[EndAt(e, i + o)] EXCEPT !.packets = <<PayloadAt(e, i + o)>> \o @]
    BY <1>1, <1>3, RoundCases, Zenon
  <2> QED BY <2>2, <2>3, <2>4, <1>1, <1>3, Zenon
<1> QED BY <1>2, <1>3

(* The loop over what is left of a buffer finds what the loop over the     *)
(* whole of it finds from there on.                                        *)
LEMMA DrainFromHere ==
  ASSUME NEW e \in Seq(Byte), NEW k \in 1..(Len(e) + 1)
  PROVE  /\ SubSeq(e, k, Len(e)) \in Seq(Byte)
         /\ DrainPackets(SubSeq(e, k, Len(e))) = From(e)[k]
<1> DEFINE d == SubSeq(e, k, Len(e))
           o == k - 1
           N == Len(d) + 1
           Bad == {i \in 1..N : From(d)[i] # From(e)[i + o]}
<1>1. /\ d \in Seq(Byte) /\ Len(d) = Len(e) - o /\ o \in Nat /\ o <= Len(e) /\ Len(e) \in Nat
      /\ \A j \in 1..Len(d) : j + o \in 1..Len(e) /\ d[j] = e[j + o]
  <2>1. Len(e) \in Nat /\ \A j \in k..Len(e) : e[j] \in Byte
    OBVIOUS
  <2>2. /\ d \in Seq(Byte) /\ Len(d) = IF k <= Len(e) THEN Len(e) - k + 1 ELSE 0
        /\ \A i \in 1..(Len(e) - k + 1) : d[i] = e[k + i - 1]
    BY <2>1, SubSeqProperties
  <2> HIDE DEF d
  <2>3. Len(d) = Len(e) - o /\ o \in Nat /\ o <= Len(e)
    BY <2>1, <2>2
  <2>4. ASSUME NEW j \in 1..Len(d)
        PROVE  j + o \in 1..Len(e) /\ d[j] = e[j + o]
    <3>1. j \in 1..(Len(e) - k + 1) /\ k + j - 1 = j + o /\ j + o \in 1..Len(e)
      BY <2>1, <2>3
    <3> QED BY <3>1, <2>2
  <2> QED BY <2>1, <2>2, <2>3, <2>4
<1>n. N \in Nat /\ Len(d) \in Nat
  BY <1>1
<1>2. d \in Seq(Byte) /\ 1 \in 1..N /\ 1 + o = k /\ DrainPackets(d) = From(d)[1]
  <2>1. DrainPackets(d) = From(d)[1]
    BY DrainIsFrom
  <2> HIDE DEF d
  <2> QED BY <1>1, <1>n, <2>1
<1> HIDE DEF d
<1>3. Bad = {}
  <2> SUFFICES ASSUME Bad # {} PROVE FALSE
    OBVIOUS
  <2>0. Bad \subseteq 1..N /\ \A i \in 1..N : i \in Bad <=> From(d)[i] # From(e)[i + o]
    OBVIOUS
  <2>1. PICK i \in Bad : \A j \in Bad : j <= i
    <3> HIDE DEF Bad, N
    <3>1. Bad \in SUBSET (0..N)
      BY <2>0, <1>n
    <3> QED BY <3>1, <1>n, GreatestNatural
  <2>2. \A j \in (i + 1)..N : From(d)[j] = From(e)[j + o]
    <3> HIDE DEF Bad, N, o
    <3> QED BY <2>0, <2>1, <1>n
  <2> HIDE DEF Bad, o
  <2>3. /\ i \in 1..(Len(d) + 1) /\ i + o \in 1..(Len(e) + 1) /\ o \in Int /\ Len(d) + o = Len(e)
        /\ From(d)[i] # From(e)[i + o]
        /\ \A j \in i..Len(d) : j + o \in 1..Len(e) /\ d[j] = e[j + o]
    BY <2>0, <2>1, <1>1, <1>n
  <2>4. From(d)[i] = From(e)[i + o]
    <3>1. \A j \in (i + 1)..(Len(d) + 1) : From(d)[j] = From(e)[j + o]
      BY <2>2
    <3> HIDE DEF N
    <3> QED BY <1>2, <2>3, <3>1, ShiftedRound
  <2> QED BY <2>3, <2>4
<1>4. From(d)[1] = From(e)[1 + o]
  BY <1>2, <1>3
<1> QED BY <1>2, <1>4 DEF d

-----------------------------------------------------------------------------
(* A stream in pieces.                                                     *)

(* First r was found, then q.                                              *)
Then(r, q) ==
  [packets |-> r.packets \o q.packets, failures |-> r.failures + q.failures,
   clears |-> r.clears + q.clears, rest |-> q.rest]

(* The bytes of two pieces, one behind the other.                          *)
LEMMA TwoPieces ==
  ASSUME NEW b \in Seq(Byte), NEW c \in Seq(Byte)
  PROVE  /\ b \o c \in Seq(Byte) /\ Len(b) \in Nat /\ Len(c) \in Nat
         /\ Len(b \o c) = Len(b) + Len(c) /\ Len(b) <= Len(b \o c)
         /\ \A j \in 1..Len(b) : j \in 1..Len(b \o c) /\ (b \o c)[j] = b[j]
         /\ \A j \in 1..Len(c) : (b \o c)[Len(b) + j] = c[j]
<1>1. /\ b \o c \in Seq(Byte) /\ Len(b \o c) = Len(b) + Len(c)
      /\ \A i \in 1..(Len(b) + Len(c)) : (b \o c)[i] = IF i <= Len(b) THEN b[i] ELSE c[i - Len(b)]
  BY ConcatProperties
<1>2. Len(b) \in Nat /\ Len(c) \in Nat
  OBVIOUS
<1> DEFINE m == Len(b)
           n == Len(c)
           e == b \o c
<1> HIDE DEF m, n, e
<1>3. e \in Seq(Byte) /\ Len(e) = m + n /\ m \in Nat /\ n \in Nat
      /\ \A i \in 1..(m + n) : e[i] = IF i <= m THEN b[i] ELSE c[i - m]
  BY <1>1, <1>2, Zenon DEF m, n, e
<1>4. m <= Len(e) /\ \A j \in 1..m : j \in 1..Len(e) /\ e[j] = b[j]
  BY <1>3
<1>5. \A j \in 1..n : e[m + j] = c[j]
  <2> TAKE j \in 1..n
  <2>1. m + j \in 1..(m + n) /\ ~ (m + j <= m) /\ m + j - m = j
    BY <1>3
  <2> QED BY <1>3, <2>1
<1> QED BY <1>3, <1>4, <1>5 DEF m, n, e

(* What is left of a buffer, with what comes next.                         *)
LEMMA EndWithPiece ==
  ASSUME NEW b \in Seq(Byte), NEW c \in Seq(Byte), NEW i \in 1..(Len(b) + 1)
  PROVE  SubSeq(b, i, Len(b)) \o c = SubSeq(b \o c, i, Len(b \o c))
<1> DEFINE m == Len(b)
           n == Len(c)
           e == b \o c
           k == m + n
           s == SubSeq(b, i, m)
           u == SubSeq(e, i, k)
<1>1. /\ e \in Seq(Byte) /\ Len(e) = m + n /\ m \in Nat /\ n \in Nat
      /\ \A j \in 1..m : j \in 1..Len(e) /\ e[j] = b[j]
      /\ \A j \in 1..n : e[m + j] = c[j]
  BY TwoPieces, Zenon
<1>2. i \in 1..(m + 1) /\ \A j \in i..m : b[j] \in Byte
  OBVIOUS
<1>k. k = m + n
  OBVIOUS
<1> HIDE DEF m, n, e, k
<1>3. /\ s \in Seq(Byte) /\ Len(s) = IF i <= m THEN m - i + 1 ELSE 0
      /\ \A j \in 1..(m - i + 1) : s[j] = b[i + j - 1]
  BY <1>1, <1>2, SubSeqProperties
<1>4. /\ u \in Seq(Byte) /\ Len(u) = IF i <= k THEN k - i + 1 ELSE 0
      /\ \A j \in 1..(k - i + 1) : u[j] = e[i + j - 1]
  <2>1. k \in Int /\ i \in Int /\ \A j \in i..k : e[j] \in Byte
    BY <1>1, <1>2, <1>k
  <2> QED BY <2>1, SubSeqProperties
<1> HIDE DEF s, u
<1>5. /\ s \o c \in Seq(Byte) /\ Len(s \o c) = Len(s) + n
      /\ \A j \in 1..Len(s) : (s \o c)[j] = s[j]
      /\ \A j \in 1..n : (s \o c)[Len(s) + j] = c[j]
  BY <1>3, TwoPieces DEF n
<1>6. Len(s) = m - i + 1 /\ Len(u) = m + n - i + 1 /\ Len(s) \in Nat
  BY <1>1, <1>2, <1>3, <1>4, <1>k
<1>7. Len(s \o c) = Len(u)
  BY <1>1, <1>2, <1>5, <1>6
<1>8. ASSUME NEW j \in 1..Len(u)
      PROVE  (s \o c)[j] = u[j]
  <2>0. j \in Nat /\ j \in 1..(m + n - i + 1) /\ u[j] = e[i + j - 1]
    BY <1>1, <1>2, <1>4, <1>6, <1>k
  <2>1. CASE j <= Len(s)
    <3>1. j \in 1..Len(s) /\ j \in 1..(m - i + 1) /\ i + j - 1 \in 1..m
      BY <2>0, <2>1, <1>1, <1>2, <1>6
    <3> QED BY <3>1, <2>0, <1>1, <1>3, <1>5
  <2>2. CASE ~ (j <= Len(s))
    <3> DEFINE l == j - Len(s)
    <3>1. l \in 1..n /\ Len(s) + l = j /\ i + j - 1 = m + l
      BY <2>0, <2>2, <1>1, <1>2, <1>6
    <3> HIDE DEF l
    <3>2. (s \o c)[Len(s) + l] = c[l] /\ e[m + l] = c[l]
      BY <3>1, <1>1, <1>5
    <3> QED BY <3>1, <3>2, <2>0
  <2> QED BY <2>1, <2>2
<1>9. s \o c = u
  BY <1>4, <1>5, <1>7, <1>8, SeqEqual
<1> QED BY <1>1, <1>k, <1>9, Zenon DEF s, u, m, e

(* Finding nothing first changes nothing.                                  *)
LEMMA ThenAfterStop ==
  ASSUME NEW b, NEW i, NEW q \in Results
  PROVE  Then(StopAt(b, i), q) = q
<1>1. q.packets \in Seq(Seq(Byte)) /\ q.failures \in Nat /\ q.clears \in Nat
  BY DEF Results
<1>2. <<>> \o q.packets = q.packets
  BY <1>1, ConcatEmptySeq
<1>3. 0 + q.failures = q.failures /\ 0 + q.clears = q.clears
  BY <1>1
<1>4. q = [packets |-> q.packets, failures |-> q.failures, clears |-> q.clears, rest |-> q.rest]
  BY DEF Results
<1>5. StopAt(b, i).packets = <<>> /\ StopAt(b, i).failures = 0 /\ StopAt(b, i).clears = 0
  BY DEF StopAt
<1>6. Then(StopAt(b, i), q) =
        [packets |-> <<>> \o q.packets, failures |-> 0 + q.failures, clears |-> 0 + q.clears,
         rest |-> q.rest]
  BY <1>5 DEF Then
<1> QED BY <1>2, <1>3, <1>4, <1>6, Zenon

(* One more failure or packet first is one more of both together.          *)
LEMMA ThenMore ==
  ASSUME NEW r \in Results, NEW q \in Results, NEW p \in Seq(Byte)
  PROVE  /\ Then([r EXCEPT !.failures = @ + 1], q) = [Then(r, q) EXCEPT !.failures = @ + 1]
         /\ Then([r EXCEPT !.packets = <<p>> \o @], q) = [Then(r, q) EXCEPT !.packets = <<p>> \o @]
         /\ [r EXCEPT !.failures = @ + 1].rest = r.rest
         /\ [r EXCEPT !.failures = @ + 1].clears = r.clears
         /\ [r EXCEPT !.packets = <<p>> \o @].rest = r.rest
         /\ [r EXCEPT !.packets = <<p>> \o @].clears = r.clears
<1> DEFINE one == <<p>>
           x == r.packets
           y == r.failures
           k == r.clears
           z == r.rest
           kq == r.clears + q.clears
           qp == q.packets
           qf == q.failures
           t == Then(r, q)
           xq == x \o qp
           yq == y + qf
           v == one \o x
           w == y + 1
           vt == one \o xq
           wt == yq + 1
           f == [r EXCEPT !.failures = w]
           g == [r EXCEPT !.packets = v]
<1>1. /\ x \in Seq(Seq(Byte)) /\ y \in Nat /\ one \in Seq(Seq(Byte))
      /\ qp \in Seq(Seq(Byte)) /\ qf \in Nat
  BY DEF Results
<1>2. r = [packets |-> x, failures |-> y, clears |-> k, rest |-> z]
  BY DEF Results
<1>3. t = [packets |-> xq, failures |-> yq, clears |-> kq, rest |-> q.rest]
  BY DEF Then
<1>4. v \o qp = vt
  <2> DEFINE T == Seq(Byte)
  <2> HIDE DEF one, x, qp
  <2>1. x \in Seq(T) /\ qp \in Seq(T) /\ one \in Seq(T)
    BY <1>1
  <2> HIDE DEF T
  <2>2. (one \o x) \o qp = one \o (x \o qp)
    BY ONLY <2>1, ConcatAssociative
  <2> QED BY <2>2
<1>5. w + qf = wt
  <2> HIDE DEF y, qf
  <2> QED BY <1>1
<1>t. \A a : Then(a, q) = [packets |-> a.packets \o qp, failures |-> a.failures + qf,
                           clears |-> a.clears + q.clears, rest |-> q.rest]
  BY Zenon DEF Then
<1> HIDE DEF one, x, y, z, k, kq, qp, qf, t, xq, yq, v, w, vt, wt
<1>6. f = [packets |-> x, failures |-> w, clears |-> k, rest |-> z]
  BY <1>2
<1>7. g = [packets |-> v, failures |-> y, clears |-> k, rest |-> z]
  BY <1>2
<1>8. [t EXCEPT !.failures = wt] = [packets |-> xq, failures |-> wt, clears |-> kq, rest |-> q.rest]
  BY <1>3
<1>9. [t EXCEPT !.packets = vt] = [packets |-> vt, failures |-> yq, clears |-> kq, rest |-> q.rest]
  BY <1>3
<1> HIDE DEF f, g
<1>10. /\ f.packets = x /\ f.failures = w /\ f.clears = k /\ f.rest = z
       /\ g.packets = v /\ g.failures = y /\ g.clears = k /\ g.rest = z
       /\ t.packets = xq /\ t.failures = yq
  BY <1>3, <1>6, <1>7
<1>11. Then(f, q) = [packets |-> xq, failures |-> wt, clears |-> kq, rest |-> q.rest]
  BY <1>5, <1>10, <1>t, Zenon DEF xq, k, kq
<1>12. Then(g, q) = [packets |-> vt, failures |-> yq, clears |-> kq, rest |-> q.rest]
  BY <1>4, <1>10, <1>t, Zenon DEF yq, k, kq
<1>13. /\ wt = t.failures + 1 /\ vt = one \o t.packets
       /\ f.rest = r.rest /\ f.clears = r.clears /\ g.rest = r.rest /\ g.clears = r.clears
  BY <1>10, Zenon DEF wt, vt, z, k
<1>14. /\ Then(f, q) = [t EXCEPT !.failures = t.failures + 1]
       /\ Then(g, q) = [t EXCEPT !.packets = one \o t.packets]
  BY <1>8, <1>9, <1>11, <1>12, <1>13, Zenon
<1> QED BY <1>13, <1>14, Zenon DEF f, g, t, v, w, one, x, y

(* What the loop finds in b from i on, and then in what is left of it with *)
(* c behind.                                                               *)
InTwo(b, c, i) == Then(From(b)[i], DrainPackets(From(b)[i].rest \o c))

(* Two pieces are parsed from place i on as one is; when the first makes   *)
(* the parser clear its buffer, the whole does.                            *)
Pieces(b, c, i) ==
  IF From(b)[i].clears = 0 THEN From(b \o c)[i] = InTwo(b, c, i)
  ELSE From(b \o c)[i].clears # 0

(* Both are the same at a place if a round goes on from j in both, and     *)
(* they are the same at j.                                                 *)
LEMMA GoesOn ==
  ASSUME NEW b \in Seq(Byte), NEW c \in Seq(Byte), NEW i, NEW p \in Seq(Byte),
         NEW j \in 1..(Len(b) + 1), Pieces(b, c, j),
         \/ /\ From(b)[i] = From(b)[j]
            /\ From(b \o c)[i] = From(b \o c)[j]
         \/ /\ From(b)[i] = [From(b)[j] EXCEPT !.failures = @ + 1]
            /\ From(b \o c)[i] = [From(b \o c)[j] EXCEPT !.failures = @ + 1]
         \/ /\ From(b)[i] = [From(b)[j] EXCEPT !.packets = <<p>> \o @]
            /\ From(b \o c)[i] = [From(b \o c)[j] EXCEPT !.packets = <<p>> \o @]
  PROVE  Pieces(b, c, i)
<1> DEFINE r == From(b)[j]
           q == DrainPackets(r.rest \o c)
           s == From(b \o c)[j]
           u == From(b)[i]
           v == From(b \o c)[i]
<1>1. r \in Results
  BY FromType
<1>2. q \in Results
  <2> DEFINE d == r.rest \o c
  <2>1. r.rest \in Seq(Byte)
    BY <1>1 DEF Results
  <2> HIDE DEF r
  <2>2. d \in Seq(Byte)
    BY <2>1, ConcatProperties
  <2> HIDE DEF d
  <2>3. 1 \in 1..(Len(d) + 1) /\ DrainPackets(d) = From(d)[1]
    BY <2>2, DrainIsFrom
  <2>4. DrainPackets(d) \in Results
    BY <2>2, <2>3, FromType, Zenon
  <2> QED BY <2>4 DEF d
<1>3. s \in Results
  <2> DEFINE e == b \o c
  <2>1. e \in Seq(Byte) /\ Len(b) \in Nat /\ Len(e) \in Nat /\ Len(b) <= Len(e)
    BY TwoPieces
  <2> HIDE DEF e
  <2>2. j \in 1..(Len(e) + 1)
    BY <2>1
  <2>3. From(e)[j] \in Results
    BY <2>1, <2>2, FromType, Zenon
  <2> QED BY <2>3 DEF e
<1>4. IF r.clears = 0 THEN s = Then(r, q) ELSE s.clears # 0
  BY DEF Pieces, InTwo
<1>5. Pieces(b, c, i) <=>
        IF u.clears = 0 THEN v = Then(u, DrainPackets(u.rest \o c)) ELSE v.clears # 0
  BY DEF Pieces, InTwo
<1>6. q = DrainPackets(r.rest \o c)
  OBVIOUS
<1>7. \/ u = r /\ v = s
      \/ u = [r EXCEPT !.failures = @ + 1] /\ v = [s EXCEPT !.failures = @ + 1]
      \/ u = [r EXCEPT !.packets = <<p>> \o @] /\ v = [s EXCEPT !.packets = <<p>> \o @]
  BY Zenon
<1> HIDE DEF r, q, s, u, v
<1>8. /\ Then([r EXCEPT !.failures = @ + 1], q) = [Then(r, q) EXCEPT !.failures = @ + 1]
      /\ Then([r EXCEPT !.packets = <<p>> \o @], q) = [Then(r, q) EXCEPT !.packets = <<p>> \o @]
  <2>1. p \in Seq(Byte)
    OBVIOUS
  <2> QED BY ONLY <1>1, <1>2, <2>1, ThenMore, ZenonT(30)
<1>9. u.rest = r.rest /\ u.clears = r.clears /\ v.clears = s.clears
  <2>1. /\ [r EXCEPT !.failures = @ + 1].rest = r.rest
        /\ [r EXCEPT !.failures = @ + 1].clears = r.clears
        /\ [r EXCEPT !.packets = <<p>> \o @].rest = r.rest
        /\ [r EXCEPT !.packets = <<p>> \o @].clears = r.clears
    BY <1>1, ThenMore
  <2>2. /\ [s EXCEPT !.failures = @ + 1].clears = s.clears
        /\ [s EXCEPT !.packets = <<p>> \o @].clears = s.clears
    BY <1>3, ThenMore
  <2> QED BY <1>7, <2>1, <2>2, Zenon
<1>10. CASE r.clears = 0
  <2>1. s = Then(r, q)
    BY <1>4, <1>10
  <2>2. v = Then(u, q)
    BY <1>7, <1>8, <2>1, Zenon
  <2>3. v = Then(u, DrainPackets(u.rest \o c))
    BY <1>6, <1>9, <2>2, Zenon
  <2> QED BY <1>5, <1>9, <1>10, <2>3, Zenon
<1>11. CASE r.clears # 0
  BY <1>4, <1>5, <1>9, <1>11, Zenon
<1> QED BY <1>10, <1>11

(* A round over the first of two pieces, if the later rounds are right.    *)
LEMMA PieceRound ==
  ASSUME NEW b \in Seq(Byte), NEW c \in Seq(Byte), NEW i \in 1..(Len(b) + 1),
         \A j \in (i + 1)..(Len(b) + 1) : Pieces(b, c, j)
  PROVE  Pieces(b, c, i)
<1> DEFINE e == b \o c
<1>1. /\ e \in Seq(Byte) /\ Len(b) \in Nat /\ Len(e) \in Nat /\ Len(b) <= Len(e)
      /\ \A j \in 1..Len(b) : j \in 1..Len(e) /\ e[j] = b[j]
  BY TwoPieces
<1>2. SubSeq(b, i, Len(b)) \o c = SubSeq(e, i, Len(e))
  BY EndWithPiece
<1> HIDE DEF e
<1>3. i \in 1..(Len(e) + 1)
  BY <1>1
<1>4. CASE ~ Whole(b, i) /\ ~ (HasHeader(b, i) /\ Oversized(b, i))
  <2>1. From(b)[i] = StopAt(b, i)
    BY <1>4, RoundCases, Zenon
  <2>2. From(b)[i].rest = SubSeq(b, i, Len(b)) /\ From(b)[i].clears = 0
    BY <2>1 DEF StopAt
  <2>3. DrainPackets(SubSeq(e, i, Len(e))) = From(e)[i]
    BY <1>1, <1>3, DrainFromHere, Zenon
  <2>4. From(e)[i] \in Results
    BY <1>1, <1>3, FromType, Zenon
  <2>5. InTwo(b, c, i) = Then(StopAt(b, i), From(e)[i])
    BY <1>2, <2>1, <2>2, <2>3, Zenon DEF InTwo
  <2>6. From(e)[i] = InTwo(b, c, i)
    BY <2>4, <2>5, ThenAfterStop, Zenon
  <2> QED BY <2>2, <2>6, Zenon DEF Pieces, e
<1>5. CASE HasHeader(b, i) /\ Oversized(b, i)
  <2>1. i + 4 <= Len(b) + 1 /\ i + 2 \in 1..Len(b) /\ i + 4 <= Len(e) + 1
    BY <1>1, <1>5 DEF HasHeader, HeaderSize
  <2>2. e[i + 2] = b[i + 2]
    BY <2>1, <1>1
  <2>3. HasHeader(e, i) /\ Oversized(e, i)
    BY <2>1, <2>2, <1>5 DEF HasHeader, HeaderSize, Oversized, SizeAt
  <2>4. ~ Whole(b, i) /\ ~ Whole(e, i)
    BY <1>5, <2>3, Zenon DEF Whole
  <2>5. From(b)[i] = Clear(b)
    BY <1>5, <2>4, RoundCases, Zenon
  <2>6. From(e)[i] = Clear(e)
    BY <1>1, <1>3, <2>3, <2>4, RoundCases, Zenon
  <2>7. Clear(b).clears = 1 /\ Clear(e).clears = 1
    BY DEF Clear, StopAt
  <2>8. From(b)[i].clears # 0 /\ From(e)[i].clears # 0
    BY <2>5, <2>6, <2>7
  <2> QED BY <2>8, Zenon DEF Pieces, e
<1>6. CASE Whole(b, i)
  <2>1. /\ Whole(e, i) /\ b[i] = e[i] /\ EndAt(e, i) = EndAt(b, i) /\ Resync(e, i) = Resync(b, i)
        /\ PayloadAt(b, i) \in Seq(Byte) /\ PayloadAt(e, i) = PayloadAt(b, i)
        /\ VerifyPacket(e, i) <=> VerifyPacket(b, i)
    <3>1. /\ 0 \in Int /\ i + 0 = i /\ i + 0 \in 1..(Len(e) + 1) /\ Len(b) + 0 <= Len(e)
          /\ \A j \in i..Len(b) : j + 0 \in 1..Len(e) /\ b[j] = e[j + 0]
      BY <1>1, <1>3
    <3>2. /\ Whole(e, i + 0) /\ b[i] = e[i + 0]
          /\ EndAt(e, i + 0) = EndAt(b, i) + 0 /\ Resync(e, i + 0) = Resync(b, i) + 0
          /\ PayloadAt(b, i) \in Seq(Byte) /\ PayloadAt(e, i + 0) = PayloadAt(b, i)
          /\ VerifyPacket(e, i + 0) <=> VerifyPacket(b, i)
      BY <1>1, <1>6, <3>1, SamePacket, Zenon
    <3>3. EndAt(b, i) + 0 = EndAt(b, i) /\ Resync(b, i) + 0 = Resync(b, i)
      BY <1>1, <1>6, WholePlace
    <3> QED BY <3>1, <3>2, <3>3, Zenon
  <2>2. EndAt(b, i) \in (i + 1)..(Len(b) + 1) /\ Resync(b, i) \in (i + 1)..(Len(b) + 1)
    BY <1>6, WholePlace
  <2>3. EndAt(b, i) \in 1..(Len(b) + 1) /\ Resync(b, i) \in 1..(Len(b) + 1)
    BY <1>1, <2>2
  <2>4. Pieces(b, c, EndAt(b, i)) /\ Pieces(b, c, Resync(b, i))
    BY <2>2
  <2>5. CASE b[i] # StartCode
    <3>1. From(b)[i] = From(b)[Resync(b, i)]
      BY <1>6, <2>5, RoundCases, Zenon
    <3>2. From(e)[i] = From(e)[Resync(b, i)]
      <4>1. Whole(e, i) /\ e[i] # StartCode
        BY <2>1, <2>5
      <4>2. From(e)[i] = From(e)[Resync(e, i)]
        BY <1>1, <1>3, <4>1, RoundCases, Zenon
      <4> QED BY <2>1, <4>2, Zenon
    <3> QED BY <2>1, <2>3, <2>4, <3>1, <3>2, GoesOn, Zenon DEF e
  <2>6. CASE b[i] = StartCode /\ ~ VerifyPacket(b, i)
    <3>1. From(b)[i] = [From(b)[Resync(b, i)] EXCEPT !.failures = @ + 1]
      BY <1>6, <2>6, RoundCases, Zenon
    <3>2. From(e)[i] = [From(e)[Resync(b, i)] EXCEPT !.failures = @ + 1]
      <4>1. Whole(e, i) /\ e[i] = StartCode /\ ~ VerifyPacket(e, i)
        BY <2>1, <2>6
      <4> QED BY <1>1, <1>3, <2>1, <4>1, RoundCases, Zenon
    <3> QED BY <2>1, <2>3, <2>4, <3>1, <3>2, GoesOn, Zenon DEF e
  <2>7. CASE b[i] = StartCode /\ VerifyPacket(b, i)
    <3>1. From(b)[i] = [From(b)[EndAt(b, i)] EXCEPT !.packets = <<PayloadAt(b, i)>> \o @]
      BY <1>6, <2>7, RoundCases, Zenon
    <3>2. From(e)[i] = [From(e)[EndAt(b, i)] EXCEPT !.packets = <<PayloadAt(b, i)>> \o @]
      <4>1. From(e)[i] = [From(e)[EndAt(e, i)] EXCEPT !.packets = <<PayloadAt(e, i)>> \o @]
        <5>1. Whole(e, i) /\ e[i] = StartCode /\ VerifyPacket(e, i)
          BY <2>1, <2>7
        <5> QED BY <1>1, <1>3, <5>1, RoundCases, Zenon
      <4> QED BY <4>1, <2>1, Zenon
    <3> QED BY <2>1, <2>3, <2>4, <3>1, <3>2, GoesOn, Zenon DEF e
  <2> QED BY <2>5, <2>6, <2>7
<1> QED BY <1>4, <1>5, <1>6

(* A stream that comes in two pieces is parsed as one that comes at once,  *)
(* unless the first makes the parser clear its buffer, which then happens  *)
(* in either case.                                                         *)
LEMMA DrainInPieces ==
  ASSUME NEW b \in Seq(Byte), NEW c \in Seq(Byte)
  PROVE  IF DrainPackets(b).clears = 0
           THEN DrainPackets(b \o c)
                  = Then(DrainPackets(b), DrainPackets(DrainPackets(b).rest \o c))
           ELSE DrainPackets(b \o c).clears # 0
<1> DEFINE N == Len(b) + 1
           Bad == {i \in 1..N : ~ Pieces(b, c, i)}
<1>n. N \in Nat /\ 1 \in 1..N
  OBVIOUS
<1>1. Bad = {}
  <2> SUFFICES ASSUME Bad # {} PROVE FALSE
    OBVIOUS
  <2>0. Bad \subseteq 1..N /\ \A i \in 1..N : i \in Bad <=> ~ Pieces(b, c, i)
    OBVIOUS
  <2> HIDE DEF Bad
  <2>1. PICK i \in Bad : \A j \in Bad : j <= i
    <3> HIDE DEF N
    <3>1. Bad \in SUBSET (0..N)
      BY <2>0, <1>n
    <3> QED BY <3>1, <1>n, GreatestNatural
  <2>2. \A j \in (i + 1)..N : Pieces(b, c, j)
    <3> HIDE DEF N
    <3>1. \A j \in (i + 1)..N : j \in 1..N /\ ~ (j <= i)
      BY <2>0, <2>1, <1>n
    <3> QED BY <2>0, <2>1, <3>1, Zenon
  <2>3. i \in 1..N /\ ~ Pieces(b, c, i)
    BY <2>0, <2>1, Zenon
  <2> QED BY <2>2, <2>3, PieceRound, Zenon
<1>2. Pieces(b, c, 1)
  BY <1>1, <1>n
<1> QED BY <1>2, DrainIsFrom, Zenon DEF Pieces, InTwo

-----------------------------------------------------------------------------
(* A stream of well-formed packets.                                        *)

(* The first packet of a stream is found, and then what is behind it.      *)
LEMMA DrainEncoded ==
  ASSUME NEW p \in Seq(Byte), Encode(p) \in Seq(Byte), Len(p) <= MaxPayloadSize,
         NEW c \in Seq(Byte)
  PROVE  DrainPackets(Encode(p) \o c) = [DrainPackets(c) EXCEPT !.packets = <<p>> \o @]
<1> DEFINE h == <<StartCode, 0, Len(p), Checksum(p)>>
           f == Encode(p)
           e == f \o c
           n == Len(p)
<1>1. n \in Nat /\ Len(h) = 4 /\ h[1] = StartCode /\ h[3] = n /\ h[4] = Checksum(p)
  OBVIOUS
<1>2. f = h \o p
  BY DEF Encode
<1>3. /\ Len(f) = 4 + n /\ f[1] = StartCode /\ f[3] = n /\ f[4] = Checksum(p)
      /\ \A j \in 1..n : f[4 + j] = p[j]
  <2> DEFINE S == Byte \cup {StartCode, 0, Len(p), Checksum(p)}
  <2>1. h \in Seq(S)
    OBVIOUS
  <2>2. p \in Seq(S)
    OBVIOUS
  <2> HIDE DEF S, h, n
  <2>3. /\ Len(h \o p) = Len(h) + Len(p)
        /\ \A i \in 1..(Len(h) + Len(p)) : (h \o p)[i] = IF i <= Len(h) THEN h[i] ELSE p[i - Len(h)]
    BY <2>1, <2>2, ConcatProperties
  <2>4. Len(f) = 4 + n /\ \A i \in 1..(4 + n) : f[i] = IF i <= 4 THEN h[i] ELSE p[i - 4]
    BY <2>3, <1>1, <1>2 DEF n
  <2>5. f[1] = h[1] /\ f[3] = h[3] /\ f[4] = h[4]
    BY <2>4, <1>1
  <2>6. ASSUME NEW j \in 1..n
        PROVE  f[4 + j] = p[j]
    <3>1. 4 + j \in 1..(4 + n) /\ ~ (4 + j <= 4) /\ 4 + j - 4 = j
      BY <1>1
    <3> QED BY <3>1, <2>4
  <2> QED BY <2>4, <2>5, <2>6, <1>1
<1> HIDE DEF h, f, n
<1>4. f \in Seq(Byte)
  BY DEF f
<1>5. /\ e \in Seq(Byte) /\ Len(c) \in Nat /\ Len(e) = Len(f) + Len(c)
      /\ \A j \in 1..Len(f) : j \in 1..Len(e) /\ e[j] = f[j]
      /\ \A j \in 1..Len(c) : e[Len(f) + j] = c[j]
  BY <1>4, TwoPieces
<1> HIDE DEF e
<1>6. /\ e[1] = StartCode /\ e[3] = n /\ e[4] = Checksum(p)
      /\ \A j \in 1..n : e[4 + j] = p[j] /\ 4 + j \in 1..Len(e)
      /\ Len(e) = 4 + n + Len(c) /\ 1 \in 1..(Len(e) + 1)
  BY <1>1, <1>3, <1>5
<1>7. SizeAt(e, 1) = n /\ EndAt(e, 1) = 5 + n
  BY <1>1, <1>6 DEF SizeAt, EndAt, HeaderSize
<1>8. Whole(e, 1)
  <2>1. n <= MaxPayloadSize
    BY DEF n
  <2> QED BY <2>1, <1>1, <1>5, <1>6, <1>7, PayloadAssumption
          DEF Whole, HasHeader, Oversized, Complete, HeaderSize
<1>9. PayloadAt(e, 1) = p
  <2>1. PayloadAt(e, 1) = SubSeq(e, 5, 4 + n)
    BY <1>1, <1>7 DEF PayloadAt, HeaderSize
  <2>2. \A j \in 1..n : j \in 1..Len(p) /\ j + 4 \in 1..Len(e) /\ p[j] = e[j + 4]
    BY <1>1, <1>6 DEF n
  <2> DEFINE o == 4
             l == 1
             m == l + o
             k == n + o
  <2>3. o \in Int /\ l \in Int /\ n \in Int /\ m = 5 /\ k = 4 + n
    BY <1>1
  <2>4. SubSeq(p, l, n) = p
    BY SubSeqFull DEF n
  <2>5. \A j \in l..n : j \in 1..Len(p) /\ j + o \in 1..Len(e) /\ p[j] = e[j + o]
    BY <2>2
  <2> HIDE DEF o, l
  <2>6. SubSeq(p, l, n) = SubSeq(e, l + o, n + o)
    BY <2>3, <2>5, <1>5, EqualSlices
  <2>7. SubSeq(e, m, k) = p
    BY <2>4, <2>6, Zenon DEF m, k
  <2> HIDE DEF m, k
  <2> QED BY <2>1, <2>3, <2>7, Zenon
<1>10. VerifyPacket(e, 1)
  BY <1>6, <1>9 DEF VerifyPacket
<1>11. From(e)[1] = [From(e)[5 + n] EXCEPT !.packets = <<p>> \o @]
  <2>1. From(e)[1] = [From(e)[EndAt(e, 1)] EXCEPT !.packets = <<PayloadAt(e, 1)>> \o @]
    BY <1>5, <1>6, <1>8, <1>10, RoundCases
  <2> QED BY <2>1, <1>7, <1>9, Zenon
<1>12. From(e)[5 + n] = DrainPackets(c)
  <2> DEFINE k == 5 + n
  <2>1. k \in 1..(Len(e) + 1) /\ k = Len(f) + 1
    BY <1>1, <1>3, <1>5, <1>6
  <2>2. SubSeq(e, k, Len(e)) = c
    <3> DEFINE m == Len(c)
    <3>1. \A j \in 1..m : j \in 1..Len(c) /\ j + Len(f) \in 1..Len(e) /\ c[j] = e[j + Len(f)]
      BY <1>3, <1>1, <1>5
    <3>2. m \in Int /\ Len(f) \in Int /\ 1 + Len(f) = k /\ m + Len(f) = Len(e)
      BY <1>1, <1>3, <1>5, <2>1
    <3>3. SubSeq(c, 1, m) = c
      BY SubSeqFull
    <3> HIDE DEF m, k
    <3>4. SubSeq(c, 1, m) = SubSeq(e, 1 + Len(f), m + Len(f))
      BY <3>1, <3>2, <1>5, EqualSlices
    <3> QED BY <3>2, <3>3, <3>4, Zenon
  <2> HIDE DEF k
  <2>3. DrainPackets(SubSeq(e, k, Len(e))) = From(e)[k]
    BY <1>5, <2>1, DrainFromHere, Zenon
  <2> QED BY <2>2, <2>3 DEF k
<1> QED BY <1>11, <1>12, DrainIsFrom, Zenon DEF e, f

(* What drainPackets() returns.                                            *)
LEMMA DrainType ==
  ASSUME NEW b \in Seq(Byte)
  PROVE  DrainPackets(b) \in Results
<1>1. 1 \in 1..(Len(b) + 1)
  OBVIOUS
<1> QED BY <1>1, DrainIsFrom, FromType, Zenon

(* Nothing is found in nothing.                                            *)
LEMMA DrainNothing == DrainPackets(<<>>) = StopAt(<<>>, 1) /\ StopAt(<<>>, 1).rest = <<>>
<1> DEFINE b == <<>>
<1>1. b \in Seq(Byte) /\ Len(b) = 0 /\ SubSeq(b, 1, Len(b)) = <<>>
  OBVIOUS
<1> HIDE DEF b
<1>2. 1 \in 1..(Len(b) + 1) /\ ~ HasHeader(b, 1)
  BY <1>1 DEF HasHeader, HeaderSize
<1>3. From(b)[1] = StopAt(b, 1)
  BY <1>1, <1>2, RoundCases, Zenon DEF Whole
<1>4. StopAt(b, 1).rest = <<>>
  BY <1>1 DEF StopAt
<1> QED BY <1>3, <1>4, DrainIsFrom, Zenon DEF b

(* A packet before what is found next is one behind what was found first.  *)
LEMMA ThenPacket ==
  ASSUME NEW r \in Results, NEW q \in Results, NEW p \in Seq(Byte)
  PROVE  Then(r, [q EXCEPT !.packets = <<p>> \o @]) = Then([r EXCEPT !.packets = @ \o <<p>>], q)
<1> DEFINE one == <<p>>
           x == r.packets
           y == q.packets
           f == r.failures
           k == r.clears
           z == r.rest
           g == q.failures
           l == q.clears
           w == q.rest
           u == one \o y
           v == x \o one
           fg == f + g
           kl == k + l
           xy == x \o u
           vy == v \o y
<1>1. x \in Seq(Seq(Byte)) /\ y \in Seq(Seq(Byte)) /\ one \in Seq(Seq(Byte))
  BY DEF Results
<1>2. xy = vy
  <2> HIDE DEF one, x, y
  <2> DEFINE T == Seq(Byte)
  <2>1. x \in Seq(T) /\ y \in Seq(T) /\ one \in Seq(T)
    BY <1>1
  <2> HIDE DEF T
  <2>2. (x \o one) \o y = x \o (one \o y)
    BY ONLY <2>1, ConcatAssociative
  <2> QED BY <2>2
<1>3. /\ r = [packets |-> x, failures |-> f, clears |-> k, rest |-> z]
      /\ q = [packets |-> y, failures |-> g, clears |-> l, rest |-> w]
  BY DEF Results
<1>4. \A a, b : Then(a, b) =
        [packets |-> a.packets \o b.packets, failures |-> a.failures + b.failures,
         clears |-> a.clears + b.clears, rest |-> b.rest]
  BY Zenon DEF Then
<1> DEFINE a == [r EXCEPT !.packets = v]
           b == [q EXCEPT !.packets = u]
<1> HIDE DEF one, x, y, f, k, z, g, l, w, u, v, fg, kl, xy, vy
<1>5. /\ a.packets = v /\ a.failures = f /\ a.clears = k
      /\ b.packets = u /\ b.failures = g /\ b.clears = l /\ b.rest = w
  BY <1>3
<1> HIDE DEF a, b
<1>6. Then(r, b) = [packets |-> xy, failures |-> fg, clears |-> kl, rest |-> w]
  BY <1>4, <1>5, Zenon DEF xy, fg, kl, x, f, k
<1>7. Then(a, q) = [packets |-> vy, failures |-> fg, clears |-> kl, rest |-> w]
  BY <1>4, <1>5, Zenon DEF vy, fg, kl, y, g, l, w
<1> QED BY <1>2, <1>6, <1>7, Zenon DEF a, b, u, v, one, x, y

(* Three pieces.                                                           *)
LEMMA Regrouped ==
  ASSUME NEW a \in Seq(Byte), NEW b \in Seq(Byte), NEW c \in Seq(Byte)
  PROVE  (a \o b) \o c = a \o (b \o c) /\ b \o c \in Seq(Byte)
<1> DEFINE S == Byte
<1>1. a \in Seq(S) /\ b \in Seq(S) /\ c \in Seq(S)
  OBVIOUS
<1> HIDE DEF S
<1>2. (a \o b) \o c = a \o (b \o c)
  BY ONLY <1>1, ConcatAssociative
<1>3. b \o c \in Seq(S)
  BY ONLY <1>1, ConcatProperties
<1> QED BY <1>2, <1>3 DEF S

(* A stream of well-formed packets, all of them there, is parsed into      *)
(* these, and nothing else: were there a first packet up to which it is    *)
(* not, it would be before it and with it.                                 *)
LEMMA PacketsFound ==
  ASSUME NEW q \in Seq(Seq(Byte)), \A i \in 1..Len(q) : WellFormed(q[i])
  PROVE  DrainPackets(FlattenSeq(q)) =
           [packets |-> [i \in 1..Len(q) |-> Payload(q[i])], failures |-> 0, clears |-> 0,
            rest |-> <<>>]
<1> DEFINE N == Len(q)
           P(i) == [k \in 1..i |-> Payload(q[k])]
           Found(i) == [packets |-> P(i), failures |-> 0, clears |-> 0, rest |-> <<>>]
<1>1. N \in Nat
  OBVIOUS
<1>f. PICK f : Flattens(Byte, q, f)
  BY FlattenUnfolds, Zenon
<1>2. /\ \A i \in 1..N : f[i] = IF i = 1 THEN q[i] ELSE f[i - 1] \o q[i]
      /\ \A i \in 1..N : f[i] \in Seq(Byte)
      /\ N # 0 => FlattenSeq(q) = f[N]
  BY <1>f, Zenon DEF Flattens
<1> DEFINE g == [i \in 0..N |-> IF i = 0 THEN <<>> ELSE f[i]]
<1>3. \A i \in 1..N : q[i] \in Seq(Byte)
  OBVIOUS
<1>4. \A i \in 0..N : g[i] \in Seq(Byte)
  BY <1>1, <1>2
<1>5. ASSUME NEW i \in 1..N
      PROVE  g[i] = g[i - 1] \o q[i]
  <2>1. i \in 0..N /\ i - 1 \in 0..N /\ i # 0
    BY <1>1
  <2>2. g[i] = IF i = 1 THEN q[i] ELSE f[i - 1] \o q[i]
    BY <1>2, <2>1
  <2>3. CASE i = 1
    <3>1. g[i - 1] = <<>>
      BY <2>1, <2>3
    <3>2. <<>> \o q[i] = q[i]
      BY <1>3, ConcatEmptySeq
    <3> QED BY <2>2, <2>3, <3>1, <3>2
  <2>4. CASE i # 1
    <3>1. g[i - 1] = f[i - 1]
      BY <2>1, <2>4
    <3> QED BY <2>2, <2>4, <3>1
  <2> QED BY <2>3, <2>4
<1>6. FlattenSeq(q) = g[N]
  <2>1. N \in 0..N
    BY <1>1
  <2>2. CASE N = 0
    BY <2>1, <2>2 DEF FlattenSeq
  <2> QED BY <1>2, <2>1, <2>2
<1>7. g[0] = <<>>
  BY <1>1
<1>8. \A i \in 1..N : Payload(q[i]) \in Seq(Byte) /\ q[i] = Encode(Payload(q[i]))
                     /\ Len(Payload(q[i])) <= MaxPayloadSize
  <2> TAKE i \in 1..N
  <2>1. q[i] = Encode(Payload(q[i])) /\ Len(Payload(q[i])) <= MaxPayloadSize
    BY DEF WellFormed
  <2> DEFINE t == q[i]
             m == HeaderSize + 1
             n == Len(t)
  <2>2. t \in Seq(Byte)
    BY <1>3
  <2> HIDE DEF t
  <2>3. m \in Int /\ n \in Int /\ \A j \in m..n : t[j] \in Byte
    BY <2>2 DEF HeaderSize
  <2> HIDE DEF m, n
  <2>4. SubSeq(t, m, n) \in Seq(Byte)
    BY <2>2, <2>3, SubSeqProperties
  <2> QED BY <2>1, <2>4 DEF Payload, t, m, n
<1> HIDE DEF g
<1>9. \A i \in 0..N : Found(i) \in Results
  <2> TAKE i \in 0..N
  <2>1. P(i) \in Seq(Seq(Byte))
    BY <1>1, <1>8
  <2> HIDE DEF P
  <2> QED BY <2>1 DEF Results
<1>10. ASSUME NEW i \in 1..N
       PROVE  Found(i) = [Found(i - 1) EXCEPT !.packets = @ \o <<Payload(q[i])>>]
  <2>1. P(i - 1) \o <<Payload(q[i])>> = P(i)
    BY <1>1, <1>8
  <2>2. Found(i - 1).packets = P(i - 1)
    OBVIOUS
  <2> DEFINE v == P(i)
             u == P(i - 1)
  <2> HIDE DEF P
  <2>3. Found(i) = [Found(i - 1) EXCEPT !.packets = v]
    OBVIOUS
  <2> QED BY <2>1, <2>2, <2>3, Zenon
<1> DEFINE Right(i) == \A c \in Seq(Byte) :
                         DrainPackets(g[i] \o c) = Then(Found(i), DrainPackets(c))
           Bad == {i \in 0..N : ~ Right(i)}
<1>11. Right(0)
  <2> TAKE c \in Seq(Byte)
  <2>1. g[0] \o c = c
    BY <1>7, ConcatEmptySeq
  <2>2. DrainPackets(c) \in Results
    BY DrainType
  <2>3. Found(0) = StopAt(<<>>, 1)
    BY DEF StopAt
  <2> DEFINE u == DrainPackets(c)
  <2> HIDE DEF Found, u
  <2>4. Then(StopAt(<<>>, 1), u) = u
    BY <2>2, ThenAfterStop DEF u
  <2> QED BY <2>1, <2>3, <2>4, Zenon DEF u
<1>12. ASSUME NEW i \in 1..N, Right(i - 1)
       PROVE  Right(i)
  <2> SUFFICES ASSUME NEW c \in Seq(Byte)
               PROVE  DrainPackets(g[i] \o c) = Then(Found(i), DrainPackets(c))
    OBVIOUS
  <2> DEFINE p == Payload(q[i])
             h == g[i - 1]
             t == q[i]
             d == t \o c
             r == Found(i - 1)
             u == DrainPackets(c)
  <2>1. g[i] = h \o t
    BY <1>5
  <2>2. h \in Seq(Byte) /\ t \in Seq(Byte) /\ i - 1 \in 0..N
    BY <1>1, <1>3, <1>4
  <2>3. p \in Seq(Byte) /\ t = Encode(p) /\ Len(p) <= MaxPayloadSize
    BY <1>8
  <2>4. r \in Results /\ u \in Results
    BY <1>9, <2>2, DrainType
  <2>5. Found(i) = [r EXCEPT !.packets = @ \o <<p>>]
    BY <1>10
  <2>6. \A e \in Seq(Byte) : DrainPackets(h \o e) = Then(r, DrainPackets(e))
    BY <1>12
  <2> HIDE DEF p, h, t, r, u, Found
  <2>7. (h \o t) \o c = h \o d /\ d \in Seq(Byte)
    <3>1. c \in Seq(Byte) /\ h \in Seq(Byte) /\ t \in Seq(Byte)
      BY <2>2
    <3> QED BY ONLY <3>1, Regrouped, Zenon
  <2>8. DrainPackets(d) = [u EXCEPT !.packets = <<p>> \o @]
    <3>1. Encode(p) \in Seq(Byte)
      BY <2>2, <2>3
    <3>2. DrainPackets(Encode(p) \o c) = [DrainPackets(c) EXCEPT !.packets = <<p>> \o @]
      BY <2>3, <3>1, DrainEncoded
    <3> QED BY <2>3, <3>2, Zenon DEF u
  <2> HIDE DEF d
  <2>9. DrainPackets(g[i] \o c) = Then(r, [u EXCEPT !.packets = <<p>> \o @])
    BY <2>1, <2>6, <2>7, <2>8, Zenon
  <2>10. Then(r, [u EXCEPT !.packets = <<p>> \o @]) = Then([r EXCEPT !.packets = @ \o <<p>>], u)
    BY <2>3, <2>4, ThenPacket
  <2> QED BY <2>5, <2>9, <2>10, Zenon DEF u
<1> HIDE DEF Right
<1>13. Bad = {}
  <2> SUFFICES ASSUME Bad # {} PROVE FALSE
    OBVIOUS
  <2>1. Bad \in SUBSET Nat /\ \A i \in 0..N : i \in Bad <=> ~ Right(i)
    BY <1>1
  <2>2. \A i \in Bad : i \in 0..N
    OBVIOUS
  <2> HIDE DEF Bad, N
  <2>3. PICK i \in Bad : \A j \in Bad : i <= j
    BY <2>1, LeastNatural
  <2>4. i # 0
    BY <2>1, <2>2, <2>3, <1>11, Zenon
  <2>5. i \in 1..N /\ i - 1 \in 0..N /\ ~ (i <= i - 1)
    BY <1>1, <2>2, <2>3, <2>4
  <2>6. Right(i - 1)
    BY <2>1, <2>3, <2>5, Zenon
  <2>7. Right(i)
    BY <1>12, <2>5, <2>6, Zenon
  <2> QED BY <2>1, <2>2, <2>3, <2>7, Zenon
<1>14. Right(N) /\ g[N] \in Seq(Byte) /\ Found(N) \in Results
  <2>1. N \in 0..N
    BY <1>1
  <2> QED BY <1>4, <1>9, <1>13, <2>1
<1>15. DrainPackets(g[N] \o <<>>) = Then(Found(N), DrainPackets(<<>>))
  <2>1. <<>> \in Seq(Byte)
    OBVIOUS
  <2> QED BY <1>14, <2>1, Zenon DEF Right
<1>16. g[N] \o <<>> = g[N]
  BY <1>14, ConcatEmptySeq
<1>17. Then(Found(N), DrainPackets(<<>>)) = Found(N)
  <2> DEFINE x == P(N)
             none == StopAt(<<>>, 1)
  <2>1. x \in Seq(Seq(Byte))
    BY <1>1, <1>8
  <2>2. none.packets = <<>> /\ none.failures = 0 /\ none.clears = 0 /\ none.rest = <<>>
    BY DrainNothing DEF StopAt
  <2> HIDE DEF x, none
  <2>3. x \o <<>> = x /\ 0 + 0 = 0
    BY <2>1, ConcatEmptySeq
  <2>4. Then([packets |-> x, failures |-> 0, clears |-> 0, rest |-> <<>>], none)
          = [packets |-> x \o <<>>, failures |-> 0 + 0, clears |-> 0 + 0, rest |-> <<>>]
    BY <2>2 DEF Then
  <2>5. Then([packets |-> x, failures |-> 0, clears |-> 0, rest |-> <<>>], none)
          = [packets |-> x, failures |-> 0, clears |-> 0, rest |-> <<>>]
    BY <2>3, <2>4, Zenon
  <2>6. DrainPackets(<<>>) = none
    BY DrainNothing DEF none
  <2> QED BY <2>5, <2>6, Zenon DEF x
<1> QED BY <1>6, <1>15, <1>16, <1>17, Zenon

-----------------------------------------------------------------------------
(* The receiver's parser.                                                  *)

(* What the parser has found is what it would have found at once.          *)
PieceInv == parser \in Results /\ PiecesDoNotMatter

(* The bytes up to m and the ones behind, up to n.                         *)
LEMMA CutStream ==
  ASSUME NEW s \in Seq(Byte), NEW m \in 0..Len(s), NEW n \in m..Len(s)
  PROVE  /\ SubSeq(s, 1, m) \in Seq(Byte) /\ SubSeq(s, m + 1, n) \in Seq(Byte)
         /\ SubSeq(s, 1, m) \o SubSeq(s, m + 1, n) = SubSeq(s, 1, n)
<1>1. m \in Nat /\ n \in Nat /\ m <= n /\ n <= Len(s) /\ Len(s) \in Nat
  OBVIOUS
<1>2. /\ \A j \in 1..m : s[j] \in Byte
      /\ \A j \in (m + 1)..n : s[j] \in Byte
  BY <1>1
<1>3. SubSeq(s, 1, m) \in Seq(Byte)
  BY <1>1, <1>2, SubSeqProperties
<1>4. SubSeq(s, m + 1, n) \in Seq(Byte)
  BY <1>1, <1>2, SubSeqProperties
<1>5. SubSeq(s, 1, m) \o SubSeq(s, m + 1, n) = SubSeq(s, 1, n)
  BY <1>1, ConcatAdjacentSubSeq
<1> QED BY <1>3, <1>4, <1>5

(* What was found first and then is a result again.                        *)
LEMMA ThenType ==
  ASSUME NEW r \in Results, NEW q \in Results
  PROVE  Then(r, q) \in Results
<1>1. /\ r.packets \in Seq(Seq(Byte)) /\ q.packets \in Seq(Seq(Byte)) /\ q.rest \in Seq(Byte)
      /\ r.failures \in Nat /\ q.failures \in Nat /\ r.clears \in Nat /\ q.clears \in Nat
  BY DEF Results
<1>2. r.packets \o q.packets \in Seq(Seq(Byte))
  BY <1>1, ConcatProperties
<1>3. r.failures + q.failures \in Nat /\ r.clears + q.clears \in Nat
  BY <1>1
<1> QED BY <1>1, <1>2, <1>3 DEF Then, Results

(* A piece more.                                                           *)
LEMMA PiecesStep ==
  ASSUME frames \in Streams, TypeOK, PieceInv, [Next]_vars
  PROVE  PieceInv'
<1>1. CASE UNCHANGED <<frames, taken, parser>>
  BY <1>1, Zenon DEF PieceInv, PiecesDoNotMatter, Stream
<1>2. CASE ReceiveBytes
  <2> DEFINE b == SubSeq(Stream, 1, taken)
             c == SubSeq(Stream, taken + 1, arrived)
             q == DrainPackets(parser.rest \o c)
             first == DrainPackets(b)
             both == DrainPackets(b \o c)
  <2>1. /\ Stream \in Seq(Byte) /\ taken \in 0..Len(Stream) /\ arrived \in taken..Len(Stream)
        /\ taken \in Nat /\ arrived \in Nat
    BY LengthOfStream
  <2>2. b \in Seq(Byte) /\ c \in Seq(Byte) /\ b \o c = SubSeq(Stream, 1, arrived)
    BY <2>1, CutStream, Zenon
  <2>3. parser' = Then(parser, q)
    BY <1>2 DEF ReceiveBytes, Parsed, Then
  <2>4. DrainPackets(SubSeq(Stream, 1, taken))' = both
    <3>1. frames' = frames /\ taken' = arrived
      BY <1>2 DEF ReceiveBytes, network
    <3>2. Stream' = Stream
      BY <3>1 DEF Stream
    <3> QED BY <2>2, <3>1, <3>2, Zenon
  <2>5. /\ parser \in Results /\ (parser.clears = 0 <=> first.clears = 0)
        /\ (parser.clears = 0 => parser = first)
    BY DEF PieceInv, PiecesDoNotMatter
  <2>6. q \in Results
    <3>1. parser.rest \in Seq(Byte)
      BY <2>5 DEF Results
    <3>2. parser.rest \o c \in Seq(Byte)
      BY <2>2, <3>1, ConcatProperties
    <3> QED BY <3>2, DrainType
  <2>7. IF first.clears = 0 THEN both = Then(first, DrainPackets(first.rest \o c))
        ELSE both.clears # 0
    BY <2>2, DrainInPieces, Zenon
  <2>8. parser' \in Results
    BY <2>3, <2>5, <2>6, ThenType
  <2>9. parser.clears = 0 => parser' = both
    BY <2>3, <2>5, <2>7, Zenon
  <2>10. parser.clears # 0 => parser'.clears # 0 /\ both.clears # 0
    <3>1. parser'.clears = parser.clears + q.clears
      BY <2>3 DEF Then
    <3>2. parser.clears \in Nat /\ q.clears \in Nat
      BY <2>5, <2>6 DEF Results
    <3>3. parser.clears # 0 => parser'.clears # 0
      BY <3>1, <3>2
    <3> QED BY <2>5, <2>7, <3>3, Zenon
  <2> HIDE DEF both
  <2>11. (parser'.clears = 0 <=> both.clears = 0) /\ (parser'.clears = 0 => parser' = both)
    BY <2>9, <2>10, Zenon
  <2> QED BY <2>4, <2>8, <2>11, Zenon DEF PieceInv, PiecesDoNotMatter
<1>3. [Next]_vars => ReceiveBytes \/ UNCHANGED <<frames, taken, parser>>
  BY DEF Next, SessionStep, WorkerStep, CloseStep, PeerStep, ConnectAtOnce, ConnectFails,
     ConnectRegisters, ConnectMaps, AcceptCalled, StartReceiver, Send, SendRefused,
     SendLocksAgain, Pause, Continue, ReceiverLoops, EpollWait, WorkerEnds, AcceptConnection,
     ConnectCompletes, SendPiece, ReceiveEnd, HangUpTellsReceiver,
     HangUpTellsSession, HangUpErases, StopTest, Close, CloseClears, PeerConnects, PeerAnswers,
     BytesArrive, PeerLeaves, network, input, vars
<1> QED BY <1>1, <1>2, <1>3

(* However TCP cuts the stream, the receiver's parser finds the packets,   *)
(* the checksum failures and the left-over bytes that it would find if all *)
(* came at once, for every stream the peer may send, garbage included;     *)
(* only an oversized header, which clears the buffer, makes a difference.  *)
THEOREM CutAnywhere == SafetySpec => []PiecesDoNotMatter
<1>1. Init => PieceInv
  <2> SUFFICES ASSUME Init PROVE PieceInv
    OBVIOUS
  <2>1. taken = 0 /\ parser = [packets |-> <<>>, failures |-> 0, clears |-> 0, rest |-> <<>>]
    BY DEF Init
  <2>2. SubSeq(Stream, 1, 0) = <<>>
    <3>1. frames \in Seq(Seq(Byte))
      BY NetworkAssumption DEF Init
    <3>2. Stream \in Seq(Byte)
      BY <3>1, FlattenType DEF Stream
    <3> QED BY <3>2, SubSeqEmpty
  <2>3. parser = StopAt(<<>>, 1)
    BY <2>1 DEF StopAt
  <2>4. DrainPackets(SubSeq(Stream, 1, taken)) = parser
    BY <2>1, <2>2, <2>3, DrainNothing, Zenon
  <2>5. parser \in Results
    BY <2>1 DEF Results
  <2> QED BY <2>4, <2>5, Zenon DEF PieceInv, PiecesDoNotMatter
<1>2. IInv /\ PieceInv /\ [Next]_vars => PieceInv'
  BY PiecesStep DEF IInv
<1>3. PieceInv => PiecesDoNotMatter
  BY DEF PieceInv
<1> QED BY <1>1, <1>2, <1>3, Invariance, PTL DEF SafetySpec

(* When the peer sends nothing but well-formed packets, the receiver never *)
(* counts a checksum failure or clears its buffer, has found some of the   *)
(* packets, from the first on and in their order, and has found all of     *)
(* them, with no byte left over, when it has received everything.          *)
PacketsArrive ==
  LET payloads == [n \in 1..Len(frames) |-> Payload(frames[n])]
  IN (\A n \in 1..Len(frames) : WellFormed(frames[n])) =>
       /\ parser.failures = 0 /\ parser.clears = 0
       /\ IsPrefix(parser.packets, payloads)
       /\ taken = Len(Stream) => parser.packets = payloads /\ parser.rest = <<>>

(* What comes first of two sequences is a prefix of both together.         *)
LEMMA FirstIsPrefix ==
  ASSUME NEW S, NEW s \in Seq(S), NEW t \in Seq(S)
  PROVE  IsPrefix(s, s \o t)
<1> DEFINE u == s \o t
           n == Len(s)
           l == 1
           o == 0
<1>1. /\ u \in Seq(S) /\ Len(u) = Len(s) + Len(t)
      /\ \A i \in 1..(Len(s) + Len(t)) : u[i] = IF i <= Len(s) THEN s[i] ELSE t[i - Len(s)]
  BY ConcatProperties
<1>2. Len(s) \in Nat /\ Len(t) \in Nat
  OBVIOUS
<1> HIDE DEF u
<1>3. Len(s) <= Len(u)
  BY <1>1, <1>2
<1>4. \A j \in l..n : j \in 1..Len(s) /\ j + o \in 1..Len(u) /\ s[j] = u[j + o]
  BY <1>1, <1>2
<1>5. l \in Int /\ n \in Int /\ o \in Int /\ l + o = 1 /\ n + o = n
  BY <1>2
<1>6. l = 1
  OBVIOUS
<1> HIDE DEF l, n, o
<1>7. SubSeq(s, l, n) = SubSeq(u, l + o, n + o)
  BY <1>1, <1>4, <1>5, EqualSlices
<1>8. SubSeq(s, 1, n) = SubSeq(u, 1, n)
  BY <1>5, <1>6, <1>7, Zenon
<1> QED BY <1>3, <1>8, Zenon DEF IsPrefix, u, n

(* The packets of a stream that is well-formed are found.                  *)
THEOREM AllPacketsArrive == SafetySpec => []PacketsArrive
<1>1. IInv /\ PiecesDoNotMatter => PacketsArrive
  <2> DEFINE payloads == [n \in 1..Len(frames) |-> Payload(frames[n])]
  <2> SUFFICES ASSUME IInv, PiecesDoNotMatter, \A n \in 1..Len(frames) : WellFormed(frames[n])
               PROVE  /\ parser.failures = 0 /\ parser.clears = 0
                      /\ IsPrefix(parser.packets, payloads)
                      /\ taken = Len(Stream) => parser.packets = payloads /\ parser.rest = <<>>
    BY DEF PacketsArrive
  <2> DEFINE b == SubSeq(Stream, 1, taken)
             c == SubSeq(Stream, taken + 1, Len(Stream))
             r == DrainPackets(b)
             q == DrainPackets(r.rest \o c)
             all == DrainPackets(Stream)
  <2>1. /\ Stream \in Seq(Byte) /\ taken \in 0..Len(Stream) /\ Len(Stream) \in taken..Len(Stream)
        /\ frames \in Seq(Seq(Byte))
    BY LengthOfStream, NetworkAssumption DEF IInv
  <2>2. b \in Seq(Byte) /\ c \in Seq(Byte) /\ b \o c = Stream
    <3>1. SubSeq(Stream, 1, Len(Stream)) = Stream
      BY <2>1, SubSeqFull
    <3> QED BY <2>1, <3>1, CutStream, Zenon
  <2>3. all = [packets |-> payloads, failures |-> 0, clears |-> 0, rest |-> <<>>]
    BY <2>1, PacketsFound, Zenon DEF Stream
  <2>4. /\ all.packets = payloads /\ all.failures = 0 /\ all.clears = 0 /\ all.rest = <<>>
    <3> HIDE DEF payloads, all
    <3> QED BY <2>3
  <2>5. IF r.clears = 0 THEN all = Then(r, q) ELSE all.clears # 0
    BY <2>2, DrainInPieces, Zenon
  <2>6. r.clears = 0 /\ parser = r
    BY <2>4, <2>5, Zenon DEF PiecesDoNotMatter
  <2>7. r \in Results /\ q \in Results
    <3>1. r \in Results
      BY <2>2, DrainType
    <3>2. r.rest \in Seq(Byte)
      BY <3>1 DEF Results
    <3> HIDE DEF r
    <3>3. r.rest \o c \in Seq(Byte)
      BY <2>2, <3>2, ConcatProperties
    <3> QED BY <3>1, <3>3, DrainType
  <2>8. taken = Len(Stream) => r = all
    <3>1. SubSeq(Stream, 1, Len(Stream)) = Stream
      BY <2>1, SubSeqFull
    <3> QED BY <3>1, Zenon
  <2> HIDE DEF payloads, all, r, q
  <2>9. r.packets \o q.packets = payloads /\ r.failures + q.failures = 0
    <3>1. /\ Then(r, q).packets = r.packets \o q.packets
          /\ Then(r, q).failures = r.failures + q.failures
      BY DEF Then
    <3> QED BY <2>4, <2>5, <2>6, <3>1, Zenon
  <2>10. /\ r.packets \in Seq(Seq(Byte)) /\ q.packets \in Seq(Seq(Byte))
         /\ r.failures \in Nat /\ q.failures \in Nat
    BY <2>7 DEF Results
  <2>11. r.failures = 0
    BY <2>9, <2>10
  <2>12. IsPrefix(r.packets, payloads)
    <3>1. IsPrefix(r.packets, r.packets \o q.packets)
      BY <2>10, FirstIsPrefix
    <3> QED BY <2>9, <3>1, Zenon
  <2> QED BY <2>4, <2>6, <2>8, <2>11, <2>12, Zenon
<1> QED BY <1>1, Invariance, CutAnywhere, PTL

-----------------------------------------------------------------------------
(* The frames of a stream, up to one of them.                              *)

(* The first i frames of q, one after the other.                           *)
FirstOf(q, i) == FlattenSeq(SubSeq(q, 1, i))

(* Frames that begin alike are alike one after the other.                  *)
LEMMA FlattenAlike ==
  ASSUME NEW S, NEW q, NEW r, NEW f, NEW h, NEW n \in Nat, n <= Len(q), n <= Len(r),
         Len(q) \in Nat, Len(r) \in Nat,
         Flattens(S, q, f), Flattens(S, r, h), \A i \in 1..n : q[i] = r[i]
  PROVE  \A i \in 1..n : f[i] = h[i]
<1> DEFINE Bad == {i \in 1..n : f[i] # h[i]}
<1> SUFFICES ASSUME Bad # {} PROVE FALSE
  OBVIOUS
<1>1. \A i \in 1..n : i \in 1..Len(q) /\ i \in 1..Len(r)
  OBVIOUS
<1>2. \A i \in 1..n : /\ f[i] = IF i = 1 THEN q[i] ELSE f[i - 1] \o q[i]
                      /\ h[i] = IF i = 1 THEN r[i] ELSE h[i - 1] \o r[i]
  BY <1>1, Zenon DEF Flattens
<1>3. PICK i \in Bad : \A j \in Bad : i <= j
  <2>1. Bad \in SUBSET Nat
    OBVIOUS
  <2> HIDE DEF Bad
  <2> QED BY <2>1, LeastNatural
<1>4. i \in 1..n /\ f[i] # h[i] /\ (i # 1 => i - 1 \in 1..n /\ f[i - 1] = h[i - 1])
  BY <1>3
<1> HIDE DEF Bad
<1>5. /\ q[i] = r[i]
      /\ f[i] = IF i = 1 THEN q[i] ELSE f[i - 1] \o q[i]
      /\ h[i] = IF i = 1 THEN r[i] ELSE h[i - 1] \o r[i]
  BY <1>2, <1>4, ZenonT(30)
<1>6. f[i] = h[i]
  BY ONLY <1>4, <1>5, ZenonT(30)
<1> QED BY <1>4, <1>6

(* One frame more.                                                         *)
LEMMA FirstOfUnfolds ==
  ASSUME NEW S, NEW q \in Seq(Seq(S)), NEW i \in 1..Len(q)
  PROVE  FirstOf(q, i) = FirstOf(q, i - 1) \o q[i]
<1> DEFINE k == i - 1
           r == SubSeq(q, 1, i)
           s == SubSeq(q, 1, k)
<1>1. i \in Nat /\ k \in Nat /\ i <= Len(q) /\ k <= i /\ i # 0 /\ k = i - 1 /\ Len(q) \in Nat
  OBVIOUS
<1>2. q[i] \in Seq(S)
  OBVIOUS
<1>3. r \in Seq(Seq(S)) /\ Len(r) = i /\ \A j \in 1..i : r[j] = q[j]
  OBVIOUS
<1> HIDE DEF k
<1>4. s \in Seq(Seq(S)) /\ Len(s) = k /\ \A j \in 1..k : s[j] = q[j]
  BY <1>1
<1> HIDE DEF r, s
<1>5. PICK f : Flattens(S, r, f)
  BY <1>3, FlattenUnfolds, Zenon
<1>6. PICK h : Flattens(S, s, h)
  BY <1>4, FlattenUnfolds, Zenon
<1>7. \A j \in 1..k : f[j] = h[j]
  <2>1. k <= Len(r) /\ k <= Len(s) /\ Len(r) \in Nat /\ Len(s) \in Nat
    BY <1>1, <1>3, <1>4
  <2>2. \A j \in 1..k : j \in 1..i
    BY <1>1
  <2>3. \A j \in 1..k : r[j] = s[j]
    BY <1>3, <1>4, <2>2, Zenon
  <2>4. k \in Nat
    BY <1>1
  <2> QED BY ONLY <1>5, <1>6, <2>1, <2>3, <2>4, FlattenAlike
<1>8. FlattenSeq(r) = f[i] /\ f[i] = IF i = 1 THEN q[i] ELSE f[i - 1] \o q[i]
  <2>1. i \in 1..Len(r) /\ Len(r) # 0 /\ r[i] = q[i] /\ Len(r) = i
    BY <1>1, <1>3
  <2>2. f[i] = IF i = 1 THEN r[i] ELSE f[i - 1] \o r[i]
    BY <1>5, <2>1, Zenon DEF Flattens
  <2>3. FlattenSeq(r) = f[Len(r)]
    BY <1>5, <2>1, Zenon DEF Flattens
  <2> QED BY <2>1, <2>2, <2>3, Zenon
<1>9. CASE i = 1
  <2>1. Len(s) = 0 /\ s = <<>>
    BY <1>1, <1>4, <1>9
  <2>2. FlattenSeq(s) = <<>>
    BY <2>1 DEF FlattenSeq
  <2>3. <<>> \o q[i] = q[i]
    BY <1>2, ConcatEmptySeq
  <2> QED BY <1>8, <1>9, <2>2, <2>3, Zenon DEF FirstOf, r, s, k
<1>10. CASE i # 1
  <2>1. Len(s) # 0 /\ Len(s) = k /\ k \in 1..k
    BY <1>1, <1>4, <1>10
  <2>2. FlattenSeq(s) = h[k] /\ f[k] = h[k]
    BY <1>6, <1>7, <2>1, Zenon DEF Flattens
  <2> QED BY <1>1, <1>8, <1>10, <2>2, Zenon DEF FirstOf, r, s
<1> QED BY <1>9, <1>10

(* None, and all of them.                                                  *)
LEMMA FirstOfEnds ==
  ASSUME NEW S, NEW q \in Seq(Seq(S))
  PROVE  FirstOf(q, 0) = <<>> /\ FirstOf(q, Len(q)) = FlattenSeq(q)
<1>1. SubSeq(q, 1, 0) = <<>> /\ Len(SubSeq(q, 1, 0)) = 0
  OBVIOUS
<1>2. SubSeq(q, 1, Len(q)) = q
  BY SubSeqFull
<1>3. FlattenSeq(SubSeq(q, 1, 0)) = <<>>
  BY <1>1 DEF FlattenSeq
<1> QED BY <1>2, <1>3, Zenon DEF FirstOf

(* They are bytes.                                                         *)
LEMMA FirstOfType ==
  ASSUME NEW S, NEW q \in Seq(Seq(S)), NEW i \in 0..Len(q)
  PROVE  FirstOf(q, i) \in Seq(S) /\ Len(FirstOf(q, i)) \in Nat
<1> DEFINE r == SubSeq(q, 1, i)
<1>1. r \in Seq(Seq(S))
  OBVIOUS
<1> HIDE DEF r
<1>2. FlattenSeq(r) \in Seq(S)
  BY <1>1, FlattenType
<1>3. FirstOf(q, i) \in Seq(S)
  BY <1>2 DEF FirstOf, r
<1> QED BY <1>3

(* b is how e begins.                                                      *)
Begins(b, e) == Len(b) <= Len(e) /\ \A j \in 1..Len(b) : e[j] = b[j]

(* What the first frames are is how the ones up to a later frame begin.    *)
LEMMA FirstOfBegins ==
  ASSUME NEW q \in Seq(Seq(Byte)), NEW i \in 0..Len(q), NEW k \in i..Len(q)
  PROVE  Begins(FirstOf(q, i), FirstOf(q, k))
<1> DEFINE N == Len(q)
           b == FirstOf(q, i)
           Bad == {m \in i..N : ~ Begins(b, FirstOf(q, m))}
<1>1. N \in Nat /\ i \in Nat
  OBVIOUS
<1>2. b \in Seq(Byte) /\ Len(b) \in Nat
  BY FirstOfType
<1> HIDE DEF b
<1>3. Begins(b, b)
  BY <1>2 DEF Begins
<1>4. ASSUME NEW m \in i..N, m # i, Begins(b, FirstOf(q, m - 1))
      PROVE  Begins(b, FirstOf(q, m))
  <2> DEFINE d == FirstOf(q, m - 1)
             t == q[m]
             e == d \o t
  <2>1. m \in 1..N /\ m - 1 \in 0..N
    BY <1>1, <1>4
  <2>2. d \in Seq(Byte) /\ t \in Seq(Byte) /\ FirstOf(q, m) = e
    <3>1. d \in Seq(Byte)
      BY <2>1, FirstOfType
    <3>2. FirstOf(q, m) = e
      BY <2>1, FirstOfUnfolds
    <3>3. t \in Seq(Byte)
      BY <2>1
    <3> QED BY <3>1, <3>2, <3>3
  <2>3. Begins(b, d)
    BY <1>4
  <2> HIDE DEF d, t
  <2>4. /\ Len(d) <= Len(e) /\ e \in Seq(Byte) /\ Len(d) \in Nat
        /\ \A j \in 1..Len(d) : e[j] = d[j]
    BY <2>2, TwoPieces
  <2> HIDE DEF e
  <2>5. Len(b) <= Len(e) /\ \A j \in 1..Len(b) : j \in 1..Len(d)
    BY <1>2, <2>3, <2>4 DEF Begins
  <2>6. \A j \in 1..Len(b) : e[j] = b[j]
    BY <2>3, <2>4, <2>5, Zenon DEF Begins
  <2>7. Begins(b, e)
    BY <2>5, <2>6 DEF Begins
  <2> QED BY <2>2, <2>7
<1>5. Bad = {}
  <2> SUFFICES ASSUME Bad # {} PROVE FALSE
    OBVIOUS
  <2>1. Bad \in SUBSET Nat /\ \A m \in i..N : m \in Bad <=> ~ Begins(b, FirstOf(q, m))
    BY <1>1
  <2>2. \A m \in Bad : m \in i..N
    OBVIOUS
  <2> HIDE DEF Bad, N
  <2>3. PICK m \in Bad : \A j \in Bad : m <= j
    BY <2>1, LeastNatural
  <2>4. m # i
    BY <1>3, <2>1, <2>2, <2>3, Zenon DEF b
  <2>5. m \in i..N /\ m - 1 \in i..N /\ ~ (m <= m - 1)
    BY <1>1, <2>2, <2>3, <2>4
  <2>6. Begins(b, FirstOf(q, m - 1))
    BY <2>1, <2>3, <2>5, Zenon
  <2> QED BY <1>4, <2>1, <2>3, <2>4, <2>5, <2>6, Zenon
<1> QED BY <1>5 DEF b

-----------------------------------------------------------------------------
(* Stray bytes between the packets.                                        *)

(* A byte that is no start code, alone.                                    *)
Stray(frame) == Len(frame) = 1 /\ frame[1] # StartCode

(* A stray byte is skipped when a header follows: what the parser takes    *)
(* for a size is then the byte behind the start code, which is 0.          *)
LEMMA StraySkipped ==
  ASSUME NEW s \in Seq(Byte), Stray(s), NEW t \in Seq(Byte), Len(t) >= 3, t[2] = 0
  PROVE  DrainPackets(s \o t) = DrainPackets(t)
<1> DEFINE e == s \o t
<1>1. Len(s) = 1 /\ s[1] # StartCode /\ Len(t) \in Nat
  BY DEF Stray
<1>2. /\ e \in Seq(Byte) /\ Len(e) = 1 + Len(t) /\ e[1] = s[1]
      /\ \A j \in 1..Len(t) : e[1 + j] = t[j]
  <2>1. /\ e \in Seq(Byte) /\ Len(e) = Len(s) + Len(t)
        /\ \A j \in 1..Len(s) : e[j] = s[j]
        /\ \A j \in 1..Len(t) : e[Len(s) + j] = t[j]
    BY TwoPieces
  <2>2. 1 \in 1..Len(s)
    BY <1>1
  <2> QED BY <1>1, <2>1, <2>2
<1> HIDE DEF e
<1>3. e[3] = 0
  <2>1. 2 \in 1..Len(t) /\ 1 + 2 = 3
    BY <1>1
  <2> QED BY <1>2, <2>1
<1>4. SizeAt(e, 1) = 0 /\ EndAt(e, 1) = 5
  BY <1>3 DEF SizeAt, EndAt, HeaderSize
<1>5. 1 \in 1..(Len(e) + 1) /\ 2 \in 1..(Len(e) + 1) /\ Resync(e, 1) = 2
  BY <1>1, <1>2 DEF Resync
<1>6. Whole(e, 1)
  BY <1>1, <1>2, <1>4, PayloadAssumption DEF Whole, HasHeader, Oversized, Complete, HeaderSize
<1>7. From(e)[1] = From(e)[2]
  <2>1. e[1] # StartCode
    BY <1>1, <1>2
  <2>2. e \in Seq(Byte) /\ 1 \in 1..(Len(e) + 1)
    BY <1>2, <1>5
  <2>3. From(e)[1] = From(e)[Resync(e, 1)]
    BY ONLY <1>6, <2>1, <2>2, RoundCases, ZenonT(30)
  <2> QED BY <1>5, <2>3, Zenon
<1>8. SubSeq(e, 2, Len(e)) = t
  <2> DEFINE l == 1
             m == Len(t)
  <2>1. \A j \in l..m : j \in 1..Len(t) /\ j + l \in 1..Len(e) /\ t[j] = e[j + l]
    BY <1>1, <1>2
  <2>2. l \in Int /\ m \in Int /\ l + l = 2 /\ m + l = Len(e) /\ l = 1
    BY <1>1, <1>2
  <2>3. SubSeq(t, 1, m) = t
    BY SubSeqFull
  <2> HIDE DEF l, m
  <2>4. SubSeq(t, l, m) = SubSeq(e, l + l, m + l)
    BY <1>2, <2>1, <2>2, EqualSlices
  <2> QED BY <2>2, <2>3, <2>4, Zenon
<1>9. DrainPackets(SubSeq(e, 2, Len(e))) = From(e)[2]
  BY <1>2, <1>5, DrainFromHere, Zenon
<1> QED BY <1>7, <1>8, <1>9, DrainIsFrom, Zenon DEF e

(* Nothing was found, nothing was wrong.                                   *)
Nothing(r) == r.packets = <<>> /\ r.failures = 0 /\ r.clears = 0

(* Less bytes than a header has are kept.                                  *)
LEMMA FewBytes ==
  ASSUME NEW s \in Seq(Byte), NEW t \in Seq(Byte), Len(s) + Len(t) < 4
  PROVE  Nothing(DrainPackets(s \o t))
<1> DEFINE e == s \o t
<1>1. e \in Seq(Byte) /\ Len(e) = Len(s) + Len(t) /\ Len(s) \in Nat /\ Len(t) \in Nat
  BY TwoPieces
<1> HIDE DEF e
<1>2. ~ HasHeader(e, 1) /\ 1 \in 1..(Len(e) + 1)
  BY <1>1 DEF HasHeader, HeaderSize
<1>3. From(e)[1] = StopAt(e, 1)
  BY <1>1, <1>2, RoundCases, Zenon DEF Whole
<1>4. Nothing(StopAt(e, 1))
  BY DEF StopAt, Nothing
<1> QED BY <1>3, <1>4, DrainIsFrom, Zenon DEF e

(* The header of an encoded packet.                                        *)
LEMMA EncodedHeader ==
  ASSUME NEW p \in Seq(Byte)
  PROVE  /\ Len(Encode(p)) = 4 + Len(p) /\ Len(p) \in Nat
         /\ Len(Encode(p)) \in Nat /\ Len(Encode(p)) >= 4
         /\ Encode(p)[2] = 0 /\ Encode(p)[3] = Len(p)
<1> DEFINE h == <<StartCode, 0, Len(p), Checksum(p)>>
           S == Byte \cup {StartCode, 0, Len(p), Checksum(p)}
<1>1. h \in Seq(S) /\ p \in Seq(S) /\ Len(h) = 4 /\ h[2] = 0 /\ h[3] = Len(p) /\ Len(p) \in Nat
  OBVIOUS
<1>2. Encode(p) = h \o p
  BY DEF Encode
<1> HIDE DEF S, h
<1>3. /\ Len(h \o p) = Len(h) + Len(p)
      /\ \A i \in 1..(Len(h) + Len(p)) : (h \o p)[i] = IF i <= Len(h) THEN h[i] ELSE p[i - Len(h)]
  BY <1>1, ConcatProperties
<1>4. Len(h \o p) = 4 + Len(p) /\ (h \o p)[2] = 0 /\ (h \o p)[3] = Len(p)
  BY <1>1, <1>3
<1> QED BY <1>1, <1>2, <1>4

(* A stray byte before a packet makes no difference.                       *)
LEMMA DrainBehindStray ==
  ASSUME NEW s \in Seq(Byte), s = <<>> \/ Stray(s), NEW p \in Seq(Byte),
         Encode(p) \in Seq(Byte), NEW c \in Seq(Byte)
  PROVE  DrainPackets(s \o (Encode(p) \o c)) = DrainPackets(Encode(p) \o c)
<1> DEFINE f == Encode(p)
           t == f \o c
<1>1. Len(f) >= 4 /\ f[2] = 0 /\ Len(f) \in Nat
  BY EncodedHeader
<1>2. f \in Seq(Byte)
  OBVIOUS
<1> HIDE DEF f
<1>3. /\ t \in Seq(Byte) /\ Len(t) = Len(f) + Len(c) /\ Len(c) \in Nat
      /\ \A j \in 1..Len(f) : t[j] = f[j]
  BY <1>2, TwoPieces
<1> HIDE DEF t
<1>4. Len(t) >= 3 /\ t[2] = 0
  <2>1. Len(t) >= 3 /\ 2 \in 1..Len(f)
    BY <1>1, <1>3
  <2> QED BY <1>1, <1>3, <2>1, Zenon
<1>5. CASE s = <<>>
  <2>1. s \o t = t
    BY <1>3, <1>5, ConcatEmptySeq
  <2> QED BY <2>1, Zenon DEF t, f
<1>6. CASE Stray(s)
  <2>1. DrainPackets(s \o t) = DrainPackets(t)
    BY <1>3, <1>4, <1>6, StraySkipped
  <2> QED BY <2>1, Zenon DEF t, f
<1> QED BY <1>5, <1>6

(* In what there is of a packet that is not complete nothing is found.     *)
LEMMA NothingYet ==
  ASSUME NEW p \in Seq(Byte), Encode(p) \in Seq(Byte), Len(p) <= MaxPayloadSize,
         NEW t \in Seq(Byte), Begins(t, Encode(p)), Len(t) # Len(Encode(p))
  PROVE  Nothing(DrainPackets(t))
<1> DEFINE f == Encode(p)
           n == Len(p)
<1>1. Len(f) = 4 + n /\ f[3] = n /\ n \in Nat
  BY EncodedHeader
<1>2. Begins(t, f) /\ Len(t) # Len(f) /\ n <= MaxPayloadSize /\ Len(t) \in Nat
  OBVIOUS
<1> HIDE DEF f, n
<1>3. Len(t) < 4 + n /\ \A j \in 1..Len(t) : t[j] = f[j]
  BY <1>1, <1>2 DEF Begins
<1>4. 1 \in 1..(Len(t) + 1)
  BY <1>2
<1>5. ~ Whole(t, 1) /\ ~ (HasHeader(t, 1) /\ Oversized(t, 1))
  <2>1. CASE ~ HasHeader(t, 1)
    BY <2>1 DEF Whole
  <2>2. CASE HasHeader(t, 1)
    <3>1. 3 \in 1..Len(t)
      BY <1>2, <2>2 DEF HasHeader, HeaderSize
    <3>2. SizeAt(t, 1) = n
      BY <1>1, <1>3, <3>1 DEF SizeAt
    <3>3. ~ Oversized(t, 1)
      BY <1>1, <1>2, <3>2, PayloadAssumption DEF Oversized
    <3>4. ~ Complete(t, 1)
      BY <1>1, <1>2, <1>3, <3>2 DEF Complete, EndAt, HeaderSize
    <3> QED BY <3>3, <3>4 DEF Whole
  <2> QED BY <2>1, <2>2
<1>6. From(t)[1] = StopAt(t, 1)
  BY <1>4, <1>5, RoundCases, Zenon
<1>7. Nothing(StopAt(t, 1))
  BY DEF StopAt, Nothing
<1> QED BY <1>6, <1>7, DrainIsFrom, Zenon

(* Nor is it with a stray byte before it, or in a stray byte alone.        *)
LEMMA NothingBehindStray ==
  ASSUME NEW s \in Seq(Byte), Stray(s), NEW p \in Seq(Byte), Encode(p) \in Seq(Byte),
         Len(p) <= MaxPayloadSize,
         NEW t \in Seq(Byte), Begins(t, Encode(p)), Len(t) # Len(Encode(p))
  PROVE  Nothing(DrainPackets(s \o t))
<1> DEFINE f == Encode(p)
<1>1. Len(f) >= 4 /\ f[2] = 0 /\ Len(f) \in Nat
  BY EncodedHeader
<1>2. Begins(t, f) /\ Len(t) \in Nat
  OBVIOUS
<1> HIDE DEF f
<1>3. CASE Len(t) >= 3
  <2>1. 2 \in 1..Len(t)
    BY <1>2, <1>3
  <2>2. t[2] = 0
    BY <1>1, <1>2, <2>1 DEF Begins
  <2>3. DrainPackets(s \o t) = DrainPackets(t)
    BY <1>3, <2>2, StraySkipped
  <2>4. Nothing(DrainPackets(t))
    BY NothingYet
  <2> QED BY <2>3, <2>4, Zenon
<1>4. CASE ~ (Len(t) >= 3)
  <2>1. Len(s) + Len(t) < 4
    BY <1>2, <1>4 DEF Stray
  <2> QED BY <2>1, FewBytes
<1> QED BY <1>3, <1>4

-----------------------------------------------------------------------------
(* Packets with stray bytes between them.                                  *)

(* Every frame is a packet, or a stray byte that a packet follows, if      *)
(* anything does.                                                          *)
Tidy(q) ==
  \A i \in 1..Len(q) :
    \/ WellFormed(q[i])
    \/ Stray(q[i]) /\ (i < Len(q) => WellFormed(q[i + 1]))

(* The packets in the first i frames of q.                                 *)
PacketsIn(q, i) == FlattenSeq([n \in 1..i |-> PacketIn(q[n])])

(* The stray byte with which the first i frames end.                       *)
StrayAt(q, i) == IF i # 0 /\ Stray(q[i]) THEN q[i] ELSE <<>>

(* A frame that is a packet.                                               *)
LEMMA PacketParts ==
  ASSUME NEW t \in Seq(Byte), WellFormed(t)
  PROVE  /\ Payload(t) \in Seq(Byte) /\ t = Encode(Payload(t)) /\ Encode(Payload(t)) \in Seq(Byte)
         /\ Len(Payload(t)) <= MaxPayloadSize /\ ~ Stray(t)
<1> DEFINE m == HeaderSize + 1
           n == Len(t)
<1>1. t = Encode(Payload(t)) /\ Len(Payload(t)) <= MaxPayloadSize
  BY DEF WellFormed
<1>2. m \in Int /\ n \in Int /\ \A j \in m..n : t[j] \in Byte
  BY DEF HeaderSize
<1> HIDE DEF m, n
<1>3. SubSeq(t, m, n) \in Seq(Byte)
  BY <1>2, SubSeqProperties
<1>4. Payload(t) \in Seq(Byte)
  BY <1>3 DEF Payload, m, n
<1>5. n >= 4 /\ n \in Nat
  BY <1>1, <1>4, EncodedHeader, Zenon DEF n
<1>6. ~ Stray(t)
  <2>1. n # 1
    BY <1>5
  <2> QED BY <2>1, Zenon DEF Stray, n
<1> QED BY <1>1, <1>4, <1>6

(* At most one byte.                                                       *)
LEMMA StrayAtType ==
  ASSUME NEW q \in Seq(Seq(Byte)), NEW i \in 0..Len(q)
  PROVE  StrayAt(q, i) \in Seq(Byte) /\ (StrayAt(q, i) = <<>> \/ Stray(StrayAt(q, i)))
<1>1. i # 0 => q[i] \in Seq(Byte)
  OBVIOUS
<1> QED BY <1>1 DEF StrayAt

(* One frame more, one packet more or not.                                 *)
LEMMA PacketsInUnfolds ==
  ASSUME NEW q \in Seq(Seq(Byte)), NEW i \in 1..Len(q)
  PROVE  PacketsIn(q, i) = PacketsIn(q, i - 1) \o PacketIn(q[i])
<1> DEFINE N == Len(q)
           w == [n \in 1..N |-> PacketIn(q[n])]
           T == Seq(Byte)
<1>1. N \in Nat /\ i \in 1..N /\ i - 1 \in 0..N /\ i \in 0..N /\ \A n \in 1..N : q[n] \in Seq(Byte)
  OBVIOUS
<1>2. ASSUME NEW n \in 1..N
      PROVE  PacketIn(q[n]) \in Seq(T)
  <2> DEFINE t == q[n]
  <2>1. t \in Seq(Byte)
    BY <1>1
  <2> HIDE DEF t
  <2>2. WellFormed(t) => Payload(t) \in T
    BY <2>1, PacketParts
  <2> HIDE DEF T
  <2>3. PacketIn(t) \in Seq(T)
    BY <2>2 DEF PacketIn
  <2> QED BY <2>3 DEF t
<1> HIDE DEF N
<1>3. ASSUME NEW k \in 0..N
      PROVE  SubSeq(w, 1, k) = [n \in 1..k |-> PacketIn(q[n])]
  <2>1. k \in Nat /\ k <= N /\ N \in Nat
    BY <1>1
  <2> QED BY <2>1
<1> HIDE DEF T
<1>4. w \in Seq(Seq(T)) /\ Len(w) = N
  BY <1>1, <1>2
<1>5. w[i] = PacketIn(q[i])
  BY <1>1
<1> HIDE DEF w
<1>6. i \in 1..Len(w)
  BY <1>1, <1>4
<1>7. FirstOf(w, i) = FirstOf(w, i - 1) \o w[i]
  BY <1>4, <1>6, FirstOfUnfolds
<1>8. FirstOf(w, i) = PacketsIn(q, i) /\ FirstOf(w, i - 1) = PacketsIn(q, i - 1)
  <2>1. SubSeq(w, 1, i) = [n \in 1..i |-> PacketIn(q[n])]
    BY <1>1, <1>3
  <2>2. SubSeq(w, 1, i - 1) = [n \in 1..(i - 1) |-> PacketIn(q[n])]
    BY <1>1, <1>3
  <2> QED BY <2>1, <2>2, Zenon DEF FirstOf, PacketsIn
<1> QED BY <1>5, <1>7, <1>8, Zenon

(* The packets are sequences of bytes.                                     *)
LEMMA PacketsInType ==
  ASSUME NEW q \in Seq(Seq(Byte)), NEW i \in 0..Len(q)
  PROVE  PacketsIn(q, i) \in Seq(Seq(Byte))
<1> DEFINE w == [n \in 1..i |-> PacketIn(q[n])]
           T == Seq(Byte)
<1>1. i \in Nat /\ \A n \in 1..i : q[n] \in Seq(Byte)
  OBVIOUS
<1>2. ASSUME NEW n \in 1..i
      PROVE  PacketIn(q[n]) \in Seq(T)
  <2> DEFINE t == q[n]
  <2>1. t \in Seq(Byte)
    BY <1>1
  <2> HIDE DEF t
  <2>2. WellFormed(t) => Payload(t) \in T
    BY <2>1, PacketParts
  <2> HIDE DEF T
  <2>3. PacketIn(t) \in Seq(T)
    BY <2>2 DEF PacketIn
  <2> QED BY <2>3 DEF t
<1> HIDE DEF T
<1>3. w \in Seq(Seq(T))
  BY <1>1, <1>2
<1> HIDE DEF w
<1>4. FlattenSeq(w) \in Seq(T)
  BY <1>3, FlattenType
<1> QED BY <1>4 DEF PacketsIn, w, T

(* The first i frames with anything behind them: the packets in them are   *)
(* found, and then what is in the rest, the stray byte at the end of the   *)
(* frames included.                                                        *)
LEMMA FoundUpTo ==
  ASSUME NEW q \in Seq(Seq(Byte)), Tidy(q), NEW n \in 0..Len(q), NEW b \in Seq(Byte)
  PROVE  DrainPackets(FirstOf(q, n) \o b) =
           Then([packets |-> PacketsIn(q, n), failures |-> 0, clears |-> 0, rest |-> <<>>],
                DrainPackets(StrayAt(q, n) \o b))
<1> DEFINE N == Len(q)
           Found(i) == [packets |-> PacketsIn(q, i), failures |-> 0, clears |-> 0, rest |-> <<>>]
           Right(i) == \A c \in Seq(Byte) :
                         DrainPackets(FirstOf(q, i) \o c) = Then(Found(i), DrainPackets(StrayAt(q, i) \o c))
           Bad == {i \in 0..N : ~ Right(i)}
<1>1. N \in Nat /\ n \in 0..N /\ \A i \in 1..N : q[i] \in Seq(Byte)
  OBVIOUS
<1>2. \A i \in 0..N : Found(i) \in Results
  BY PacketsInType DEF Results
<1>3. ASSUME NEW i \in 0..N
      PROVE  StrayAt(q, i) \in Seq(Byte) /\ (StrayAt(q, i) = <<>> \/ Stray(StrayAt(q, i)))
  BY StrayAtType
<1>4. Right(0)
  <2> SUFFICES ASSUME NEW c \in Seq(Byte)
               PROVE  DrainPackets(FirstOf(q, 0) \o c) = Then(Found(0), DrainPackets(StrayAt(q, 0) \o c))
    OBVIOUS
  <2>1. FirstOf(q, 0) = <<>> /\ StrayAt(q, 0) = <<>> /\ <<>> \o c = c
    BY FirstOfEnds, ConcatEmptySeq DEF StrayAt
  <2>2. DrainPackets(c) \in Results
    BY DrainType
  <2>3. PacketsIn(q, 0) = <<>>
    BY DEF PacketsIn, FlattenSeq
  <2>4. Found(0) = StopAt(<<>>, 1)
    BY <2>3 DEF StopAt
  <2> DEFINE u == DrainPackets(c)
  <2> HIDE DEF Found, u
  <2>5. Then(StopAt(<<>>, 1), u) = u
    BY <2>2, ThenAfterStop DEF u
  <2> QED BY <2>1, <2>4, <2>5, Zenon DEF u
<1>5. ASSUME NEW i \in 1..N, Right(i - 1)
      PROVE  Right(i)
  <2> SUFFICES ASSUME NEW c \in Seq(Byte)
               PROVE  DrainPackets(FirstOf(q, i) \o c) = Then(Found(i), DrainPackets(StrayAt(q, i) \o c))
    OBVIOUS
  <2> DEFINE h == FirstOf(q, i - 1)
             t == q[i]
             d == t \o c
             s == StrayAt(q, i - 1)
             r == Found(i - 1)
             x == PacketsIn(q, i - 1)
             p == Payload(t)
             u == DrainPackets(c)
  <2>1. i - 1 \in 0..N /\ i \in 0..N /\ i # 0 /\ (i - 1 # 0 => i - 1 \in 1..N /\ i - 1 < N)
        /\ i - 1 + 1 = i
    BY <1>1
  <2>2. FirstOf(q, i) = h \o t
    BY FirstOfUnfolds
  <2>3. h \in Seq(Byte) /\ t \in Seq(Byte)
    BY <1>1, <2>1, FirstOfType
  <2>4. s \in Seq(Byte) /\ (s = <<>> \/ Stray(s)) /\ r \in Results
    BY <1>2, <1>3, <2>1
  <2>5. \A e \in Seq(Byte) : DrainPackets(h \o e) = Then(r, DrainPackets(s \o e))
    BY <1>5
  <2>6. PacketsIn(q, i) = x \o PacketIn(t) /\ x \in Seq(Seq(Byte))
    BY <2>1, PacketsInUnfolds, PacketsInType
  <2>7. r = [packets |-> x, failures |-> 0, clears |-> 0, rest |-> <<>>]
    OBVIOUS
  <2>8. Stray(t) => s = <<>>
    <3> SUFFICES ASSUME Stray(t), i - 1 # 0, Stray(q[i - 1]) PROVE FALSE
      BY Zenon DEF StrayAt
    <3>1. q[i - 1] \in Seq(Byte) /\ i - 1 \in 1..Len(q) /\ i - 1 < Len(q)
      BY <1>1, <2>1
    <3>2. ~ WellFormed(q[i - 1]) /\ ~ WellFormed(q[i])
      BY <2>3, <3>1, PacketParts, Zenon
    <3> QED BY <2>1, <3>1, <3>2, Zenon DEF Tidy
  <2>9. Stray(t) \/ WellFormed(t)
    BY <2>1, Zenon DEF Tidy
  <2>10. StrayAt(q, i) = IF Stray(t) THEN t ELSE <<>>
    BY <2>1 DEF StrayAt
  <2> HIDE DEF h, t, s, r, x, p, u
  <2>11. (h \o t) \o c = h \o d /\ d \in Seq(Byte)
    BY ONLY <2>3, c \in Seq(Byte), Regrouped, ZenonT(30) DEF d
  <2>12. DrainPackets(FirstOf(q, i) \o c) = Then(r, DrainPackets(s \o d))
    <3> HIDE DEF d
    <3> QED BY <2>2, <2>5, <2>11, Zenon
  <2>13. CASE Stray(t)
    <3>1. ~ WellFormed(t)
      BY <2>3, <2>13, PacketParts
    <3>2. PacketsIn(q, i) = x
      <4>1. PacketIn(t) = <<>>
        BY <3>1 DEF PacketIn
      <4>2. x \o <<>> = x
        BY <2>6, ConcatEmptySeq
      <4> QED BY <2>6, <4>1, <4>2, Zenon
    <3>3. Found(i) = r
      BY <2>7, <3>2, Zenon
    <3>4. s \o d = StrayAt(q, i) \o c
      <4>1. <<>> \o d = d
        BY <2>11, ConcatEmptySeq
      <4> QED BY <2>8, <2>10, <2>13, <4>1, Zenon
    <3> HIDE DEF Found
    <3> QED BY <2>12, <3>3, <3>4, Zenon
  <2>14. CASE WellFormed(t)
    <3>1. /\ p \in Seq(Byte) /\ t = Encode(p) /\ Encode(p) \in Seq(Byte)
          /\ Len(p) <= MaxPayloadSize /\ ~ Stray(t)
      BY <2>3, <2>14, PacketParts, Zenon DEF p
    <3>2. /\ DrainPackets(s \o (Encode(p) \o c)) = DrainPackets(Encode(p) \o c)
          /\ DrainPackets(Encode(p) \o c) = [DrainPackets(c) EXCEPT !.packets = <<p>> \o @]
      <4>1. DrainPackets(s \o (Encode(p) \o c)) = DrainPackets(Encode(p) \o c)
        BY <2>4, <3>1, DrainBehindStray, Zenon
      <4>2. DrainPackets(Encode(p) \o c) = [DrainPackets(c) EXCEPT !.packets = <<p>> \o @]
        BY <3>1, DrainEncoded
      <4> QED BY <4>1, <4>2
    <3>3. DrainPackets(s \o d) = [u EXCEPT !.packets = <<p>> \o @]
      BY <3>1, <3>2, Zenon DEF u
    <3>4. u \in Results
      BY DrainType DEF u
    <3>5. Then(r, [u EXCEPT !.packets = <<p>> \o @]) = Then([r EXCEPT !.packets = @ \o <<p>>], u)
      BY <2>4, <3>1, <3>4, ThenPacket
    <3>6. Found(i) = [r EXCEPT !.packets = @ \o <<p>>]
      <4>1. PacketIn(t) = <<p>>
        BY <2>14 DEF PacketIn, p
      <4> DEFINE v == x \o <<p>>
      <4>2. PacketsIn(q, i) = v
        BY <2>6, <4>1, Zenon
      <4> HIDE DEF v
      <4>3. Found(i) = [r EXCEPT !.packets = v] /\ r.packets = x
        BY <2>7, <4>2
      <4> QED BY <4>3, Zenon DEF v
    <3>7. StrayAt(q, i) \o c = c
      <4>1. <<>> \o c = c
        BY ConcatEmptySeq
      <4> QED BY <2>10, <3>1, <4>1, Zenon
    <3> HIDE DEF Found, d
    <3> QED BY <2>12, <3>3, <3>5, <3>6, <3>7, Zenon DEF u
  <2> QED BY <2>9, <2>13, <2>14
<1> HIDE DEF Right
<1>6. Bad = {}
  <2> SUFFICES ASSUME Bad # {} PROVE FALSE
    OBVIOUS
  <2>1. Bad \in SUBSET Nat /\ \A i \in 0..N : i \in Bad <=> ~ Right(i)
    BY <1>1
  <2>2. \A i \in Bad : i \in 0..N
    OBVIOUS
  <2> HIDE DEF Bad, N
  <2>3. PICK i \in Bad : \A j \in Bad : i <= j
    BY <2>1, LeastNatural
  <2>4. i # 0
    BY <1>4, <2>1, <2>2, <2>3, Zenon
  <2>5. i \in 1..N /\ i - 1 \in 0..N /\ ~ (i <= i - 1)
    BY <1>1, <2>2, <2>3, <2>4
  <2>6. Right(i - 1)
    BY <2>1, <2>3, <2>5, Zenon
  <2>7. Right(i)
    BY <1>5, <2>5, <2>6, Zenon
  <2> QED BY <2>1, <2>2, <2>3, <2>7, Zenon
<1>7. Right(n)
  BY <1>1, <1>6
<1> QED BY <1>7, Zenon DEF Right

(* M frames are complete when k bytes are there, and no more.              *)
LastComplete(q, k, M) ==
  /\ M \in 0..Len(q)
  /\ Len(FirstOf(q, M)) <= k
  /\ \A j \in 0..Len(q) : Len(FirstOf(q, j)) <= k <=> j <= M

(* So many frames are complete.                                            *)
LEMMA CompleteFrames ==
  ASSUME NEW q \in Seq(Seq(Byte)), NEW k \in Nat
  PROVE  LastComplete(q, k, Cardinality({n \in DOMAIN q : Len(FlattenSeq(SubSeq(q, 1, n))) <= k}))
<1> DEFINE N == Len(q)
           complete == {n \in DOMAIN q : Len(FlattenSeq(SubSeq(q, 1, n))) <= k}
           there == {n \in 0..N : Len(FirstOf(q, n)) <= k}
<1>1. N \in Nat /\ DOMAIN q = 1..N
  OBVIOUS
<1>2. 0 \in there
  <2>1. FirstOf(q, 0) = <<>>
    BY FirstOfEnds
  <2>2. Len(FirstOf(q, 0)) = 0
    BY <2>1
  <2> QED BY <1>1, <2>2
<1>3. PICK M \in there : \A m \in there : m <= M
  <2>1. there \in SUBSET (0..N)
    OBVIOUS
  <2> HIDE DEF there, N
  <2> QED BY <1>1, <1>2, <2>1, GreatestNatural
<1>4. M \in 0..N /\ Len(FirstOf(q, M)) <= k
  OBVIOUS
<1>5. ASSUME NEW j \in 0..N
      PROVE  Len(FirstOf(q, j)) <= k <=> j <= M
  <2>1. Len(FirstOf(q, j)) <= k => j <= M
    BY <1>3
  <2>2. ASSUME j <= M
        PROVE  Len(FirstOf(q, j)) <= k
    <3> DEFINE a == Len(FirstOf(q, j))
               b == Len(FirstOf(q, M))
    <3>1. M \in j..N
      BY <1>1, <1>4, <2>2
    <3>2. a <= b
      BY <3>1, FirstOfBegins, Zenon DEF Begins
    <3>3. a \in Nat /\ b \in Nat
      BY <1>4, FirstOfType
    <3>4. b <= k
      BY <1>4
    <3> HIDE DEF a, b
    <3>5. a <= k
      BY <3>2, <3>3, <3>4
    <3> QED BY <3>5 DEF a
  <2> QED BY <2>1, <2>2
<1>6. complete = 1..M
  <2>1. \A j \in 1..N : j \in complete <=> j <= M
    <3> SUFFICES ASSUME NEW j \in 1..N PROVE j \in complete <=> j <= M
      OBVIOUS
    <3>1. j \in 0..N /\ j \in DOMAIN q
      BY <1>1
    <3>2. Len(FlattenSeq(SubSeq(q, 1, j))) <= k <=> j <= M
      BY <1>5, <3>1, Zenon DEF FirstOf
    <3> QED BY <3>1, <3>2, Zenon
  <2>2. complete \subseteq 1..N
    BY <1>1
  <2> HIDE DEF complete, N, there
  <2>3. M \in Nat /\ M <= N
    BY <1>1, <1>4
  <2>4. \A j \in 1..N : j <= M <=> j \in 1..M
    BY <1>1, <2>3
  <2>5. \A j \in 1..M : j \in 1..N
    BY <1>1, <2>3
  <2>6. \A j : j \in complete <=> j \in 1..M
    BY <2>1, <2>2, <2>4, <2>5, Zenon
  <2> QED BY <2>6, Zenon
<1>7. Cardinality(1..M) = M
  <2>1. M \in Nat
    BY <1>1, <1>4
  <2> HIDE DEF there, N
  <2>2. Cardinality(1..M) = IF 1 > M THEN 0 ELSE M - 1 + 1
    BY <2>1, FS_Interval
  <2> QED BY <2>1, <2>2
<1>8. Cardinality(complete) = M
  BY <1>6, <1>7, Zenon
<1> HIDE DEF complete, there
<1>9. LastComplete(q, k, M)
  BY <1>4, <1>5, Zenon DEF LastComplete
<1> QED BY <1>8, <1>9, Zenon DEF complete

(* The first k bytes of a stream are its complete frames and the beginning *)
(* of the next, if there is one.                                           *)
LEMMA CutAtFrame ==
  ASSUME NEW q \in Seq(Seq(Byte)), NEW k \in 0..Len(FlattenSeq(q)),
         NEW M, LastComplete(q, k, M)
  PROVE  \E t \in Seq(Byte) :
           /\ SubSeq(FlattenSeq(q), 1, k) = FirstOf(q, M) \o t
           /\ M = Len(q) => Len(t) = 0
           /\ M # Len(q) => Begins(t, q[M + 1]) /\ Len(t) # Len(q[M + 1])
<1> DEFINE F == FlattenSeq(q)
           N == Len(q)
           h == FirstOf(q, M)
           m == Len(h)
           t == SubSeq(F, m + 1, k)
<1>1. F \in Seq(Byte) /\ FirstOf(q, N) = F /\ N \in Nat
  BY FlattenType, FirstOfEnds
<1>2. M \in 0..N /\ M \in Nat /\ m <= k /\ N \in M..N
  BY <1>1 DEF LastComplete
<1>3. h \in Seq(Byte) /\ m \in Nat
  BY <1>2, FirstOfType
<1>4. Begins(h, F)
  BY <1>1, <1>2, FirstOfBegins, Zenon
<1>5. k \in 0..Len(F) /\ k \in Nat /\ Len(F) \in Nat /\ k <= Len(F)
  BY <1>1
<1> HIDE DEF F, h, N
<1>6. m \in 0..Len(F) /\ k \in m..Len(F)
  BY <1>2, <1>3, <1>5
<1>7. t \in Seq(Byte) /\ SubSeq(F, 1, m) \o t = SubSeq(F, 1, k)
  BY <1>1, <1>6, CutStream
<1>8. SubSeq(F, 1, m) = h
  <2> DEFINE l == 1
             o == 0
             n == m
  <2>1. \A j \in l..n : j \in 1..Len(h) /\ j + o \in 1..Len(F) /\ h[j] = F[j + o]
    <3> SUFFICES ASSUME NEW j \in l..n
                 PROVE  j \in 1..Len(h) /\ j + o \in 1..Len(F) /\ h[j] = F[j + o]
      OBVIOUS
    <3>1. j \in 1..Len(h) /\ j \in 1..Len(F) /\ j + o = j
      BY <1>3, <1>6
    <3> QED BY <1>4, <3>1 DEF Begins
  <2>2. l \in Int /\ n \in Int /\ o \in Int /\ l + o = 1 /\ n + o = m /\ l = 1 /\ n = m
    BY <1>3
  <2> HIDE DEF l, n, o, m
  <2>3. SubSeq(h, l, n) = SubSeq(F, l + o, n + o)
    BY <1>1, <1>3, <2>1, <2>2, EqualSlices
  <2>4. SubSeq(h, 1, m) = h
    BY <1>3, SubSeqFull DEF m
  <2> QED BY <2>2, <2>3, <2>4, Zenon
<1>9. Len(t) = k - m /\ \A j \in 1..Len(t) : t[j] = F[m + j]
  <2> DEFINE l == m + 1
  <2>1. l \in Int /\ \A j \in l..k : F[j] \in Byte
    BY <1>1, <1>3, <1>5
  <2>2. k \in Int /\ l = m + 1 /\ m \in Nat /\ k \in Nat /\ m <= k
    BY <1>2, <1>3, <1>5
  <2> HIDE DEF l, m
  <2>3. /\ Len(SubSeq(F, l, k)) = IF l <= k THEN k - l + 1 ELSE 0
        /\ \A i \in 1..(k - l + 1) : SubSeq(F, l, k)[i] = F[l + i - 1]
    BY <1>1, <2>1, <2>2, SubSeqProperties
  <2>4. Len(SubSeq(F, l, k)) = k - m
    BY <2>2, <2>3
  <2>5. ASSUME NEW j \in 1..(k - m)
        PROVE  SubSeq(F, l, k)[j] = F[m + j]
    <3>1. j \in 1..(k - l + 1) /\ l + j - 1 = m + j
      BY <2>2
    <3> QED BY <2>3, <3>1
  <2>6. t = SubSeq(F, l, k)
    BY <2>2
  <2> HIDE DEF t
  <2> QED BY <2>4, <2>5, <2>6
<1> HIDE DEF t
<1>10. M = N => Len(t) = 0
  <2> SUFFICES ASSUME M = N PROVE Len(t) = 0
    OBVIOUS
  <2>1. m = Len(F)
    BY <1>1 DEF h
  <2> QED BY <1>2, <1>3, <1>5, <1>9, <2>1
<1>11. ASSUME M # N
       PROVE  Begins(t, q[M + 1]) /\ Len(t) # Len(q[M + 1])
  <2> DEFINE i == M + 1
             f == q[i]
             e == h \o f
  <2>1. i \in 1..N /\ i \in 0..N /\ N \in i..N /\ i - 1 = M /\ ~ (i <= M)
    BY <1>1, <1>2, <1>11
  <2>2. f \in Seq(Byte) /\ FirstOf(q, i) = e
    <3>1. f \in Seq(Byte)
      BY <2>1 DEF N
    <3>2. i \in 1..Len(q)
      BY <2>1 DEF N
    <3> HIDE DEF i
    <3>3. FirstOf(q, i) = FirstOf(q, i - 1) \o q[i]
      BY <3>2, FirstOfUnfolds
    <3> QED BY <2>1, <3>1, <3>3, Zenon DEF h
  <2>3. Begins(e, F)
    <3>1. i \in 0..Len(q) /\ N \in i..Len(q)
      BY <2>1 DEF N
    <3> HIDE DEF i, e
    <3>2. Begins(FirstOf(q, i), FirstOf(q, N))
      BY <3>1, FirstOfBegins
    <3> QED BY <1>1, <2>2, <3>2, Zenon
  <2>4. ~ (Len(e) <= k)
    <3>1. ~ (Len(FirstOf(q, i)) <= k)
      BY <2>1, Zenon DEF LastComplete, N
    <3> QED BY <2>2, <3>1, Zenon
  <2> HIDE DEF i, f
  <2>5. /\ e \in Seq(Byte) /\ Len(f) \in Nat /\ Len(e) = m + Len(f) /\ Len(e) \in Nat
        /\ \A j \in 1..Len(f) : e[m + j] = f[j]
    BY <1>3, <2>2, TwoPieces
  <2> HIDE DEF e, m
  <2>6. Len(t) < Len(f) /\ \A j \in 1..Len(t) : j \in 1..Len(f) /\ m + j \in 1..Len(e)
    BY <1>2, <1>3, <1>5, <1>9, <2>4, <2>5
  <2>7. \A j \in 1..Len(t) : f[j] = t[j]
    BY <1>9, <2>3, <2>5, <2>6, Zenon DEF Begins
  <2>8. Begins(t, f) /\ Len(t) # Len(f)
    <3>1. Len(t) \in Nat
      BY <1>7
    <3>2. Len(t) <= Len(f) /\ Len(t) # Len(f)
      BY <2>5, <2>6, <3>1
    <3> QED BY <2>7, <3>2 DEF Begins
  <2> QED BY <2>8 DEF f, i
<1>12. SubSeq(F, 1, k) = h \o t
  BY <1>7, <1>8, Zenon
<1> QED BY <1>7, <1>10, <1>11, <1>12 DEF F, h, N

(* What is found in the first k bytes of such a stream.                    *)
LEMMA TidyPrefix ==
  ASSUME NEW q \in Seq(Seq(Byte)), Tidy(q), NEW k \in 0..Len(FlattenSeq(q)),
         NEW M, LastComplete(q, k, M), NEW r, r = DrainPackets(SubSeq(FlattenSeq(q), 1, k))
  PROVE  r.packets = PacketsIn(q, M) /\ r.failures = 0 /\ r.clears = 0
<1> DEFINE s == StrayAt(q, M)
           x == PacketsIn(q, M)
           f == q[M + 1]
<1>1. M \in 0..Len(q) /\ Len(q) \in Nat
  BY DEF LastComplete
<1>2. PICK t \in Seq(Byte) :
        /\ SubSeq(FlattenSeq(q), 1, k) = FirstOf(q, M) \o t
        /\ M = Len(q) => Len(t) = 0
        /\ M # Len(q) => Begins(t, f) /\ Len(t) # Len(f)
  BY CutAtFrame
<1> DEFINE u == DrainPackets(s \o t)
<1>3. s \in Seq(Byte) /\ (s = <<>> \/ Stray(s)) /\ x \in Seq(Seq(Byte))
  BY <1>1, StrayAtType, PacketsInType
<1>4. r = Then([packets |-> x, failures |-> 0, clears |-> 0, rest |-> <<>>], u)
  BY <1>1, <1>2, FoundUpTo, Zenon
<1> HIDE DEF x, s
<1>5. Len(s) \in Nat /\ Len(s) <= 1 /\ Len(t) \in Nat
  <2>1. Len(t) \in Nat /\ Len(s) \in Nat
    BY <1>3
  <2>2. CASE s = <<>>
    BY <2>1, <2>2
  <2>3. CASE Stray(s)
    <3>1. Len(s) = 1
      BY <2>3, Zenon DEF Stray
    <3> QED BY <2>1, <3>1
  <2> QED BY <1>3, <2>2, <2>3
<1>6. ASSUME Len(t) = 0
      PROVE  Nothing(u)
  <2>1. Len(s) + Len(t) < 4
    BY <1>5, <1>6
  <2> QED BY <1>3, <2>1, FewBytes
<1>7. ASSUME M # Len(q)
      PROVE  Nothing(u)
  <2>1. M + 1 \in 1..Len(q)
    BY <1>1, <1>7
  <2>2. f \in Seq(Byte) /\ (WellFormed(f) \/ Stray(f))
    <3>1. f \in Seq(Byte)
      BY <2>1
    <3> QED BY <2>1, <3>1, Zenon DEF Tidy
  <2>3. Begins(t, f) /\ Len(t) # Len(f)
    BY <1>2, <1>7
  <2> HIDE DEF f
  <2>4. CASE Stray(f)
    <3>1. Len(t) = 0
      <4>1. Len(t) <= Len(f) /\ Len(t) # Len(f) /\ Len(f) = 1
        BY <2>3, <2>4, Zenon DEF Begins, Stray
      <4> DEFINE n == Len(t)
      <4>2. n <= 1 /\ n # 1 /\ n \in Nat
        BY <1>5, <4>1, Zenon
      <4> HIDE DEF n
      <4>3. n = 0
        BY <4>2
      <4> QED BY <4>3 DEF n
    <3> QED BY <1>6, <3>1
  <2>5. CASE WellFormed(f)
    <3> DEFINE p == Payload(f)
    <3>1. /\ p \in Seq(Byte) /\ f = Encode(p) /\ Encode(p) \in Seq(Byte)
          /\ Len(p) <= MaxPayloadSize
      BY <2>2, <2>5, PacketParts, Zenon
    <3> HIDE DEF p
    <3>2. Begins(t, Encode(p)) /\ Len(t) # Len(Encode(p))
      BY <2>3, <3>1, Zenon
    <3>3. CASE s = <<>>
      <4>1. s \o t = t
        BY <3>3, ConcatEmptySeq
      <4>2. Nothing(DrainPackets(t))
        BY <3>1, <3>2, NothingYet
      <4> QED BY <4>1, <4>2, Zenon
    <3>4. CASE Stray(s)
      BY <1>3, <3>1, <3>2, <3>4, NothingBehindStray, Zenon
    <3> QED BY <1>3, <3>3, <3>4
  <2> QED BY <2>2, <2>4, <2>5
<1>8. Nothing(u)
  BY <1>2, <1>6, <1>7
<1>9. u.packets = <<>> /\ u.failures = 0 /\ u.clears = 0
  BY <1>8 DEF Nothing
<1> HIDE DEF u
<1>10. r.packets = x \o <<>> /\ r.failures = 0 + 0 /\ r.clears = 0 + 0
  BY <1>4, <1>9 DEF Then
<1>11. x \o <<>> = x /\ 0 + 0 = 0
  BY <1>3, ConcatEmptySeq
<1> QED BY <1>10, <1>11, Zenon DEF x

(* In a stream of packets with at most a stray byte before each the        *)
(* receiver finds every packet, in order and as soon as it is complete, in *)
(* whatever pieces the stream comes: the stray byte costs neither the      *)
(* packet behind it nor a checksum failure nor the buffer.                 *)
THEOREM TidyParsed ==
  SafetySpec => [](Tidy(frames) => ParsedRight /\ parser.failures = 0 /\ parser.clears = 0)
<1>1. IInv /\ PiecesDoNotMatter
        => (Tidy(frames) => ParsedRight /\ parser.failures = 0 /\ parser.clears = 0)
  <2> SUFFICES ASSUME IInv, PiecesDoNotMatter, Tidy(frames)
               PROVE  ParsedRight /\ parser.failures = 0 /\ parser.clears = 0
    OBVIOUS
  <2> DEFINE complete == {n \in DOMAIN frames : Len(FlattenSeq(SubSeq(frames, 1, n))) <= taken}
             M == Cardinality(complete)
             r == DrainPackets(SubSeq(Stream, 1, taken))
  <2>1. /\ frames \in Seq(Seq(Byte)) /\ taken \in Nat /\ taken \in 0..Len(FlattenSeq(frames))
    <3>1. frames \in Streams /\ TypeOK
      BY DEF IInv
    <3>2. taken \in Nat /\ taken \in 0..Len(Stream)
      BY <3>1, LengthOfStream
    <3> QED BY <3>1, <3>2, NetworkAssumption DEF Stream
  <2>2. LastComplete(frames, taken, M)
    BY <2>1, CompleteFrames, Zenon
  <2> HIDE DEF M
  <2>3. r.packets = PacketsIn(frames, M) /\ r.failures = 0 /\ r.clears = 0
    BY <2>1, <2>2, TidyPrefix, Zenon DEF Stream
  <2>4. parser = r
    BY <2>3, Zenon DEF PiecesDoNotMatter
  <2>5. parser.packets = FlattenSeq([n \in 1..M |-> PacketIn(frames[n])])
    BY <2>3, <2>4, Zenon DEF PacketsIn
  <2>6. ParsedRight
    BY <2>5, Zenon DEF ParsedRight, M
  <2> QED BY <2>3, <2>4, <2>6, Zenon
<1> QED BY <1>1, Invariance, CutAnywhere, PTL
=============================================================================
