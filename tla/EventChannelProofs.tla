------------------------- MODULE EventChannelProofs -------------------------
(***************************************************************************)
(* The channel delivers in order: a theorem about the abstract             *)
(* specification, which its implementations inherit.                       *)
(***************************************************************************)
EXTENDS EventChannel, TLAPS

Increasing(s) == \A i, j \in DOMAIN s : i < j => s[i] < s[j]

Before(s, t) == \A i \in DOMAIN s, j \in DOMAIN t : s[i] < t[j]

(* What is received and what is pending are both in order, the one before  *)
(* the other, and nothing is numbered beyond put.                          *)
ChannelInv ==
  /\ put \in Nat
  /\ pending \in Seq(1..put)
  /\ received \in Seq(1..put)
  /\ Increasing(pending)
  /\ Increasing(received)
  /\ Before(received, pending)

(* An event with a new number keeps a sequence in order.                   *)
LEMMA AppendNew ==
  ASSUME NEW n \in Nat, NEW s \in Seq(1..n), Increasing(s)
  PROVE  /\ Append(s, n + 1) \in Seq(1..(n + 1))
         /\ Increasing(Append(s, n + 1))
         /\ \A i \in DOMAIN Append(s, n + 1) : i \in DOMAIN s \/ Append(s, n + 1)[i] = n + 1
BY DEF Increasing

(* Putting an event keeps the pending ones in order and behind what was    *)
(* received.                                                               *)
LEMMA PutInv == ChannelInv /\ Put => ChannelInv'
<1> SUFFICES ASSUME ChannelInv, Put
             PROVE  ChannelInv'
  OBVIOUS
<1>1. put' = put + 1 /\ pending' = Append(pending, put + 1) /\ received' = received
  BY DEF Put
<1>2. put \in Nat /\ pending \in Seq(1..put) /\ received \in Seq(1..put)
  BY DEF ChannelInv
<1>3. received \in Seq(1..(put + 1))
  BY <1>2
<1>4. Increasing(pending) /\ Increasing(received) /\ Before(received, pending)
  BY DEF ChannelInv
<1>5. Before(received, Append(pending, put + 1))
  BY <1>2, <1>4 DEF Before
<1>6. Append(pending, put + 1) \in Seq(1..(put + 1)) /\ Increasing(Append(pending, put + 1))
  BY <1>2, <1>4, AppendNew
<1> QED BY <1>1, <1>2, <1>3, <1>4, <1>5, <1>6 DEF ChannelInv

(* Delivering the first pending event keeps the order.                     *)
LEMMA DeliverInv == ChannelInv /\ Deliver => ChannelInv'
<1> SUFFICES ASSUME ChannelInv, Deliver
             PROVE  ChannelInv'
  OBVIOUS
<1>1. /\ put' = put
      /\ pending # <<>>
      /\ pending' = Tail(pending)
      /\ received' = Append(received, Head(pending))
  BY DEF Deliver
<1>2. put \in Nat /\ pending \in Seq(1..put) /\ received \in Seq(1..put)
  BY DEF ChannelInv
<1>3. Increasing(pending) /\ Increasing(received) /\ Before(received, pending)
  BY DEF ChannelInv
<1>4. 1 \in DOMAIN pending /\ Head(pending) = pending[1] /\ Head(pending) \in 1..put
  BY <1>1, <1>2
<1>5. /\ Tail(pending) \in Seq(1..put)
      /\ \A i \in DOMAIN Tail(pending) : i + 1 \in DOMAIN pending /\ Tail(pending)[i] = pending[i + 1]
  BY <1>1, <1>2
<1>6. Increasing(Tail(pending))
  BY <1>2, <1>3, <1>5 DEF Increasing
<1>7. Append(received, Head(pending)) \in Seq(1..put)
  BY <1>2, <1>4
<1>8. Increasing(Append(received, Head(pending)))
  BY <1>2, <1>3, <1>4 DEF Increasing, Before
<1>9. Before(Append(received, Head(pending)), Tail(pending))
  <2> SUFFICES ASSUME NEW i \in DOMAIN Append(received, Head(pending)),
                      NEW j \in DOMAIN Tail(pending)
               PROVE  Append(received, Head(pending))[i] < Tail(pending)[j]
    BY DEF Before
  <2>1. j \in Nat /\ j + 1 \in DOMAIN pending /\ Tail(pending)[j] = pending[j + 1] /\ 1 < j + 1
    BY <1>1, <1>2, <1>5
  <2>2. CASE i \in DOMAIN received
    BY <2>1, <2>2, <1>2, <1>3 DEF Before
  <2>3. CASE i \notin DOMAIN received
    <3>1. Append(received, Head(pending))[i] = pending[1]
      BY <2>3, <1>2, <1>4
    <3> QED BY <3>1, <2>1, <1>3, <1>4 DEF Increasing
  <2> QED BY <2>2, <2>3
<1> QED BY <1>1, <1>2, <1>3, <1>5, <1>6, <1>7, <1>8, <1>9 DEF ChannelInv

(* Giving up events leaves the others in order.                            *)
LEMMA DropInv == ChannelInv /\ Drop => ChannelInv'
<1> SUFFICES ASSUME ChannelInv, Drop
             PROVE  ChannelInv'
  OBVIOUS
<1>1. put' = put /\ received' = received /\ pending # <<>> /\ pending' \in {Tail(pending), <<>>}
  BY DEF Drop
<1>2. put \in Nat /\ pending \in Seq(1..put) /\ received \in Seq(1..put)
  BY DEF ChannelInv
<1>3. Increasing(pending) /\ Increasing(received) /\ Before(received, pending)
  BY DEF ChannelInv
<1>4. CASE pending' = <<>>
  <2>1. Increasing(<<>>) /\ Before(received, <<>>) /\ <<>> \in Seq(1..put)
    BY DEF Increasing, Before
  <2> QED BY <2>1, <1>1, <1>2, <1>3, <1>4 DEF ChannelInv
<1>5. CASE pending' = Tail(pending)
  <2>1. /\ Tail(pending) \in Seq(1..put)
        /\ \A i \in DOMAIN Tail(pending) : i + 1 \in DOMAIN pending /\ Tail(pending)[i] = pending[i + 1]
    BY <1>1, <1>2
  <2>2. Increasing(Tail(pending))
    BY <1>2, <1>3, <2>1 DEF Increasing
  <2>3. Before(received, Tail(pending))
    BY <1>2, <1>3, <2>1 DEF Before
  <2> QED BY <2>1, <2>2, <2>3, <1>1, <1>2, <1>3, <1>5 DEF ChannelInv
<1> QED BY <1>1, <1>4, <1>5

(* The invariant holds initially and every step keeps it.                  *)
LEMMA ChannelInvariance == Spec => []ChannelInv
<1>1. Init => ChannelInv
  <2> SUFFICES ASSUME Init
               PROVE  ChannelInv
    OBVIOUS
  <2>1. put \in Nat /\ pending = <<>> /\ received = <<>>
    BY DEF Init
  <2>2. Increasing(<<>>) /\ Before(<<>>, <<>>) /\ <<>> \in Seq(1..put)
    BY DEF Increasing, Before
  <2> QED BY <2>1, <2>2 DEF ChannelInv
<1>2. ChannelInv /\ [Next]_vars => ChannelInv'
  <2> SUFFICES ASSUME ChannelInv, [Next]_vars
               PROVE  ChannelInv'
    OBVIOUS
  <2>1. CASE Open
    BY <2>1 DEF Open, ChannelInv, Increasing, Before
  <2>2. CASE Close
    BY <2>2 DEF Close, ChannelInv, Increasing, Before
  <2>3. CASE Put
    BY <2>3, PutInv
  <2>4. CASE Deliver
    BY <2>4, DeliverInv
  <2>5. CASE Drop
    BY <2>5, DropInv
  <2>6. CASE UNCHANGED vars
    BY <2>6 DEF vars, ChannelInv, Increasing, Before
  <2> QED BY <2>1, <2>2, <2>3, <2>4, <2>5, <2>6 DEF Next
<1> QED BY <1>1, <1>2, PTL DEF Spec

(* The reader of a channel gets the events in the order in which they were *)
(* put and none twice: what publish() and log() promise of their order.    *)
THEOREM DeliversInOrder == Spec => []InOrder
<1>1. ChannelInv => InOrder
  BY DEF ChannelInv, Increasing, InOrder
<1> QED BY <1>1, ChannelInvariance, PTL
=============================================================================
