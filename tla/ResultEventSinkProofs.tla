----------------------- MODULE ResultEventSinkProofs -----------------------
(***************************************************************************)
(* The result event sink implements the event channel, stop() returns only *)
(* after every event of the run was tried, and no queued event is slept    *)
(* on, for all bounds.                                                     *)
(***************************************************************************)
EXTENDS ResultEventSink, TLAPS

USE BoundsAssumption

(* The worker has a line in its hands exactly while it deals with it, and  *)
(* a line it failed to write was tried.                                    *)
LineHeld ==
  /\ line # 0 <=> worker \in {"writing", "failed", "retrying"}
  /\ worker \in {"failed", "retrying"} => line \in tried

(* stop() and the worker: there is a thread while the sink runs, and it    *)
(* has ended only with an empty queue.                                     *)
StopInOrder ==
  /\ call \in {"stopping", "joining", "joined"} => ~ running
  /\ running => worker \notin {"none", "done"}
  /\ worker \in {"none", "done"} => queue = <<>>
  /\ call = "pushed" => running
  /\ call = "joined" => worker = "none"
  /\ worker = "done" => call # "none"
  /\ ~ running /\ call = "none" => worker = "none"

Queued(e) == \E i \in DOMAIN queue : queue[i] = e

(* No event of the run is forgotten before it was tried.                   *)
NotForgotten == \A e \in first..published : e \in tried \/ e = line \/ Queued(e)

IInv == TypeOK /\ LineHeld /\ StopInOrder /\ NotForgotten

(* Every step keeps the types.                                             *)
LEMMA TypeStep == TypeOK /\ LineHeld /\ [Next]_vars => TypeOK'
<1> SUFFICES ASSUME TypeOK /\ LineHeld, [Next]_vars
             PROVE  TypeOK'
  OBVIOUS
<1> USE DEF TypeOK, LineHeld, Calls, Workers
<1>1. CASE Start
  BY <1>1 DEF Start
<1>2. CASE Publish
  BY <1>2 DEF Publish
<1>3. CASE PublishNotifies
  BY <1>3 DEF PublishNotifies, Wake
<1>4. CASE Stop
  BY <1>4 DEF Stop
<1>5. CASE StopNotifies
  BY <1>5 DEF StopNotifies, Wake
<1>6. CASE StopJoins
  BY <1>6 DEF StopJoins
<1>7. CASE StopClears
  BY <1>7 DEF StopClears
<1>8. CASE WorkerExits
  BY <1>8 DEF WorkerExits, Exits
<1>9. CASE WorkerTakes
  BY <1>9 DEF WorkerTakes, Exits
<1>10. CASE WorkerFindsNothing
  BY <1>10 DEF WorkerFindsNothing
<1>11. CASE WorkerBlocks
  BY <1>11 DEF WorkerBlocks
<1>12. CASE WokenSpuriously
  BY <1>12 DEF WokenSpuriously
<1>13. CASE WriteSucceeds
  BY <1>13 DEF WriteSucceeds
<1>14. CASE WriteFails
  BY <1>14 DEF WriteFails
<1>15. CASE WorkerChecksRunning
  BY <1>15 DEF WorkerChecksRunning, KeepsTrying
<1>16. CASE WorkerRequeues
  BY <1>16 DEF WorkerRequeues, Requeued
<1>17. CASE UNCHANGED vars
  BY <1>17 DEF vars
<1> QED BY <1>1, <1>2, <1>3, <1>4, <1>5, <1>6, <1>7, <1>8, <1>9,
            <1>10, <1>11, <1>12, <1>13, <1>14, <1>15, <1>16, <1>17
         DEF Next, CallStep, WorkerStep

(* Every step keeps line and worker in agreement.                          *)
LEMMA LineStep == TypeOK /\ LineHeld /\ StopInOrder /\ [Next]_vars => LineHeld'
<1> SUFFICES ASSUME TypeOK /\ LineHeld /\ StopInOrder, [Next]_vars
             PROVE  LineHeld'
  OBVIOUS
<1> USE DEF TypeOK, LineHeld, StopInOrder, Workers
<1>1. CASE Start
  BY <1>1 DEF Start
<1>2. CASE Publish
  BY <1>2 DEF Publish
<1>3. CASE PublishNotifies
  BY <1>3 DEF PublishNotifies, Wake
<1>4. CASE Stop
  BY <1>4 DEF Stop
<1>5. CASE StopNotifies
  BY <1>5 DEF StopNotifies, Wake
<1>6. CASE StopJoins
  BY <1>6 DEF StopJoins
<1>7. CASE StopClears
  BY <1>7 DEF StopClears
<1>8. CASE WorkerExits
  BY <1>8 DEF WorkerExits, Exits
<1>9. CASE WorkerTakes
  BY <1>9 DEF WorkerTakes, Exits
<1>10. CASE WorkerFindsNothing
  BY <1>10 DEF WorkerFindsNothing
<1>11. CASE WorkerBlocks
  BY <1>11 DEF WorkerBlocks
<1>12. CASE WokenSpuriously
  BY <1>12 DEF WokenSpuriously
<1>13. CASE WriteSucceeds
  BY <1>13 DEF WriteSucceeds
<1>14. CASE WriteFails
  BY <1>14 DEF WriteFails
<1>15. CASE WorkerChecksRunning
  BY <1>15 DEF WorkerChecksRunning, KeepsTrying
<1>16. CASE WorkerRequeues
  BY <1>16 DEF WorkerRequeues, Requeued
<1>17. CASE UNCHANGED vars
  BY <1>17 DEF vars
<1> QED BY <1>1, <1>2, <1>3, <1>4, <1>5, <1>6, <1>7, <1>8, <1>9,
            <1>10, <1>11, <1>12, <1>13, <1>14, <1>15, <1>16, <1>17
         DEF Next, CallStep, WorkerStep

(* Every step keeps stop() and the worker in agreement.                    *)
LEMMA StopStep == TypeOK /\ LineHeld /\ StopInOrder /\ [Next]_vars => StopInOrder'
<1> SUFFICES ASSUME TypeOK /\ LineHeld /\ StopInOrder, [Next]_vars
             PROVE  StopInOrder'
  OBVIOUS
<1> USE DEF TypeOK, LineHeld, StopInOrder, Calls, Workers
<1>1. CASE Start
  BY <1>1 DEF Start
<1>2. CASE Publish
  BY <1>2 DEF Publish
<1>3. CASE PublishNotifies
  BY <1>3 DEF PublishNotifies, Wake
<1>4. CASE Stop
  BY <1>4 DEF Stop
<1>5. CASE StopNotifies
  BY <1>5 DEF StopNotifies, Wake
<1>6. CASE StopJoins
  BY <1>6 DEF StopJoins
<1>7. CASE StopClears
  BY <1>7 DEF StopClears
<1>8. CASE WorkerExits
  BY <1>8 DEF WorkerExits, Exits
<1>9. CASE WorkerTakes
  BY <1>9 DEF WorkerTakes, Exits
<1>10. CASE WorkerFindsNothing
  BY <1>10 DEF WorkerFindsNothing
<1>11. CASE WorkerBlocks
  BY <1>11 DEF WorkerBlocks
<1>12. CASE WokenSpuriously
  BY <1>12 DEF WokenSpuriously
<1>13. CASE WriteSucceeds
  BY <1>13 DEF WriteSucceeds
<1>14. CASE WriteFails
  BY <1>14 DEF WriteFails
<1>15. CASE WorkerChecksRunning
  BY <1>15 DEF WorkerChecksRunning, KeepsTrying
<1>16. CASE WorkerRequeues
  BY <1>16 DEF WorkerRequeues, Requeued
<1>17. CASE UNCHANGED vars
  BY <1>17 DEF vars
<1> QED BY <1>1, <1>2, <1>3, <1>4, <1>5, <1>6, <1>7, <1>8, <1>9,
            <1>10, <1>11, <1>12, <1>13, <1>14, <1>15, <1>16, <1>17
         DEF Next, CallStep, WorkerStep

(* Every step keeps track of the events of the run.                        *)
LEMMA EventStep == TypeOK /\ LineHeld /\ StopInOrder /\ NotForgotten /\ [Next]_vars => NotForgotten'
<1> SUFFICES ASSUME TypeOK, LineHeld, StopInOrder, NotForgotten, [Next]_vars,
                    NEW e \in (first..published)'
             PROVE  e \in tried' \/ e = line' \/ Queued(e)'
  BY DEF NotForgotten
<1>q. queue \in Seq(1..MaxEvents) /\ published \in Nat /\ first \in Nat /\ line \in Nat
  BY DEF TypeOK
<1>0. ASSUME e \in first..published
      PROVE  e \in tried \/ e = line \/ Queued(e)
  BY <1>0 DEF NotForgotten
<1>1. CASE Start
  BY <1>1, <1>q DEF Start
<1>2. CASE Publish
  <2>1. /\ queue' = Append(queue, published + 1) /\ published' = published + 1
        /\ UNCHANGED <<tried, line, first>>
    BY <1>2 DEF Publish
  <2>2. CASE e = published + 1
    <3>1. Len(queue) + 1 \in DOMAIN queue' /\ queue'[Len(queue) + 1] = e
      BY <2>1, <2>2, <1>q
    <3> QED BY <3>1 DEF Queued
  <2>3. CASE e # published + 1
    <3>1. e \in first..published
      BY <2>1, <2>3, <1>q
    <3>2. ASSUME NEW i \in DOMAIN queue, queue[i] = e
          PROVE  Queued(e)'
      <4>1. i \in DOMAIN Append(queue, published + 1) /\ Append(queue, published + 1)[i] = e
        BY <3>2, <1>q
      <4> QED BY <4>1, <2>1 DEF Queued
    <3> QED BY <3>1, <3>2, <2>1, <1>0 DEF Queued
  <2> QED BY <2>2, <2>3
<1>3. CASE WorkerTakes
  <2>1. /\ queue # <<>> /\ line' = Head(queue) /\ queue' = Tail(queue) /\ worker = "loop"
        /\ UNCHANGED <<tried, first, published>>
    BY <1>3 DEF WorkerTakes
  <2>2. line = 0 /\ e \in first..published /\ e # 0
    BY <2>1, <1>q DEF LineHeld, TypeOK
  <2>3. ASSUME NEW i \in DOMAIN queue, queue[i] = e
        PROVE  e = line' \/ Queued(e)'
    <3>1. CASE i = 1
      BY <3>1, <2>1, <2>3, <1>q
    <3>2. CASE i # 1
      <4>0. i - 1 \in 1..(Len(queue) - 1)
        BY <3>2, <1>q
      <4>1. i - 1 \in DOMAIN Tail(queue) /\ Tail(queue)[i - 1] = queue[(i - 1) + 1]
        BY <4>0, <2>1, <1>q
      <4>2. (i - 1) + 1 = i
        BY <1>q
      <4> QED BY <4>1, <4>2, <2>1, <2>3 DEF Queued
    <3> QED BY <3>1, <3>2
  <2> QED BY <2>1, <2>2, <2>3, <1>0 DEF Queued
<1>4. CASE WorkerRequeues
  <2>1. /\ queue' = <<line>> \o queue /\ line' = 0 /\ worker = "retrying"
        /\ UNCHANGED <<tried, first, published>>
    BY <1>4 DEF WorkerRequeues, Requeued
  <2>2. line \in tried
    BY <2>1 DEF LineHeld
  <2>3. ASSUME NEW i \in DOMAIN queue, queue[i] = e
        PROVE  Queued(e)'
    <3>1. i + 1 \in DOMAIN (<<line>> \o queue) /\ (<<line>> \o queue)[i + 1] = e
      BY <2>3, <1>q
    <3> QED BY <3>1, <2>1 DEF Queued
  <2> QED BY <2>1, <2>2, <2>3, <1>0 DEF Queued
<1>5. CASE WriteSucceeds \/ WriteFails
  BY <1>5, <1>0 DEF WriteSucceeds, WriteFails, Queued
<1>6. CASE WorkerChecksRunning
  BY <1>6, <1>0 DEF WorkerChecksRunning, LineHeld, Queued
<1>7. CASE StopClears
  <2>1. queue = <<>>
    BY <1>7 DEF StopClears, StopInOrder
  <2> QED BY <2>1, <1>7, <1>0 DEF StopClears, Queued
<1>8. CASE \/ PublishNotifies \/ Stop \/ StopNotifies \/ StopJoins \/ WorkerExits
           \/ WorkerFindsNothing \/ WorkerBlocks \/ WokenSpuriously \/ UNCHANGED vars
  <2>1. UNCHANGED <<queue, line, tried, first, published>>
    BY <1>8 DEF PublishNotifies, Stop, StopNotifies, StopJoins, WorkerExits,
                WorkerFindsNothing, WorkerBlocks, WokenSpuriously, vars
  <2> QED BY <2>1, <1>0 DEF Queued
<1> QED BY <1>1, <1>2, <1>3, <1>4, <1>5, <1>6, <1>7, <1>8 DEF Next, CallStep, WorkerStep

(* The inductive invariant.                                                *)
LEMMA Invariance == SafetySpec => []IInv
<1>1. Init => IInv
  <2> SUFFICES ASSUME Init
               PROVE  IInv
    OBVIOUS
  <2>1. TypeOK
    <3>1. <<>> \in Seq(1..MaxEvents)
      OBVIOUS
    <3>2. queue = <<>> /\ pipe = <<>> /\ tried = {} /\ running = FALSE
      BY DEF Init
    <3>3. line = 0 /\ runs = 0 /\ published = 0 /\ first = 1
      BY DEF Init
    <3>4. line \in 0..MaxEvents /\ runs \in 0..MaxRuns /\ published \in 0..MaxEvents
          /\ first \in 1..(MaxEvents + 1)
      BY <3>3
    <3>5. call \in Calls /\ worker \in Workers
      BY DEF Init, Calls, Workers
    <3> QED BY <3>1, <3>2, <3>4, <3>5 DEF TypeOK
  <2>2. LineHeld /\ StopInOrder
    BY DEF Init, LineHeld, StopInOrder
  <2>3. first..published = {}
    BY DEF Init
  <2> QED BY <2>1, <2>2, <2>3 DEF IInv, NotForgotten
<1>2. IInv /\ [Next]_vars => IInv'
  BY TypeStep, LineStep, StopStep, EventStep DEF IInv
<1> QED BY <1>1, <1>2, PTL DEF SafetySpec

(* Every variable of the sink keeps its type.                              *)
THEOREM TypeCorrect == SafetySpec => []TypeOK
<1>1. IInv => TypeOK
  BY DEF IInv
<1> QED BY <1>1, Invariance, PTL

(* When stop() has joined the worker, every event of the run was tried.    *)
THEOREM AllTried == SafetySpec => []TriedBeforeStop
<1>1. IInv => TriedBeforeStop
  <2> SUFFICES ASSUME IInv, call = "joined", NEW e \in first..published
               PROVE  e \in tried
    BY DEF TriedBeforeStop
  <2>1. queue = <<>> /\ line = 0
    BY DEF IInv, StopInOrder, LineHeld
  <2>2. ~ Queued(e)
    BY <2>1 DEF Queued
  <2>3. e # 0
    BY DEF IInv, TypeOK
  <2> QED BY <2>1, <2>2, <2>3 DEF IInv, NotForgotten
<1> QED BY <1>1, Invariance, PTL

-----------------------------------------------------------------------------
(* The refinement.  What the channel has pending is the event in the       *)
(* worker's hands and the queue behind it.                                 *)

Pending == Hand \o queue

(* Taking the first event from the queue does not change what is pending.  *)
LEMMA TakeKeeps ==
  ASSUME NEW q \in Seq(1..MaxEvents), q # <<>>
  PROVE  <<Head(q)>> \o Tail(q) = q
<1>1. Len(<<Head(q)>> \o Tail(q)) = Len(q)
  OBVIOUS
<1>2. \A i \in 1..Len(q) : (<<Head(q)>> \o Tail(q))[i] = q[i]
  OBVIOUS
<1>3. <<Head(q)>> \o Tail(q) \in Seq(1..MaxEvents)
  OBVIOUS
<1> QED BY <1>1, <1>2, <1>3

(* What is behind the event in hand.                                       *)
LEMMA HeadAndTail ==
  ASSUME NEW x \in 1..MaxEvents, NEW q \in Seq(1..MaxEvents)
  PROVE  /\ <<x>> \o q # <<>>
         /\ Head(<<x>> \o q) = x
         /\ Tail(<<x>> \o q) = q
<1>1. <<x>> \o q \in Seq(1..MaxEvents) /\ Len(<<x>> \o q) = Len(q) + 1
  OBVIOUS
<1>2. Len(Tail(<<x>> \o q)) = Len(q) /\ Tail(<<x>> \o q) \in Seq(1..MaxEvents)
  BY <1>1
<1>3. \A i \in 1..Len(q) : Tail(<<x>> \o q)[i] = q[i]
  BY <1>1
<1>4. Tail(<<x>> \o q) = q
  BY <1>2, <1>3
<1>5. <<x>> \o q # <<>> /\ Head(<<x>> \o q) = x
  BY <1>1
<1> QED BY <1>4, <1>5

(* Appending to the queue appends to what is pending.                      *)
LEMMA AppendKeeps ==
  ASSUME NEW x \in 1..MaxEvents, NEW y \in 1..MaxEvents, NEW q \in Seq(1..MaxEvents)
  PROVE  Append(<<x>> \o q, y) = <<x>> \o Append(q, y)
<1>1. Append(<<x>> \o q, y) \in Seq(1..MaxEvents) /\ <<x>> \o Append(q, y) \in Seq(1..MaxEvents)
  OBVIOUS
<1>2. Len(Append(<<x>> \o q, y)) = Len(q) + 2 /\ Len(<<x>> \o Append(q, y)) = Len(q) + 2
  OBVIOUS
<1>3. \A i \in 1..(Len(q) + 2) : Append(<<x>> \o q, y)[i] = (<<x>> \o Append(q, y))[i]
  OBVIOUS
<1> QED BY <1>1, <1>2, <1>3

(* A step of the sink is a step of the channel, or none.                   *)
LEMMA StepRefines == IInv /\ TypeOK' /\ [Next]_vars => [Channel!Next]_(Channel!vars)
<1> SUFFICES ASSUME IInv, TypeOK', [Next]_vars
             PROVE  Channel!Next \/ UNCHANGED Channel!vars
  OBVIOUS
<1> USE DEF Channel!Next, Channel!vars
<1>t. /\ queue \in Seq(1..MaxEvents) /\ line \in 0..MaxEvents /\ published \in Nat
      /\ published' \in 0..MaxEvents /\ TypeOK /\ LineHeld /\ StopInOrder
  BY DEF IInv, TypeOK
<1>p. /\ line = 0 => Pending = queue
      /\ line # 0 => Pending = <<line>> \o queue
      /\ line' = 0 => Pending' = queue'
      /\ line' # 0 => Pending' = <<line'>> \o queue'
  <2>1. <<>> \o queue = queue
    BY <1>t
  <2>2. queue' \in Seq(1..MaxEvents)
    BY DEF TypeOK
  <2>3. <<>> \o queue' = queue'
    BY <2>2
  <2> QED BY <2>1, <2>3 DEF Pending, Hand
<1>1. CASE Start
  <2>1. ~ running /\ running' = TRUE /\ UNCHANGED <<published, pipe>> /\ Pending' = Pending
    BY <1>1 DEF Start, Pending, Hand
  <2> QED BY <2>1 DEF Channel!Open, Pending
<1>2. CASE Stop
  <2>1. running /\ running' = FALSE /\ UNCHANGED <<published, pipe>> /\ Pending' = Pending
    BY <1>2 DEF Stop, Pending, Hand
  <2> QED BY <2>1 DEF Channel!Close, Pending
<1>3. CASE Publish
  <2>1. /\ published' = published + 1 /\ queue' = Append(queue, published + 1)
        /\ UNCHANGED <<running, line, pipe>>
    BY <1>3 DEF Publish
  <2>2. published + 1 \in 1..MaxEvents
    BY <2>1, <1>t
  <2>3. CASE line = 0
    <3>1. Pending' = Append(Pending, published')
      BY <2>1, <2>3, <1>p
    <3> QED BY <3>1, <2>1 DEF Channel!Put, Pending
  <2>4. CASE line # 0
    <3>1. line \in 1..MaxEvents
      BY <2>4, <1>t
    <3>2. Pending' = Append(Pending, published')
      BY <3>1, <2>1, <2>2, <2>4, <1>p, <1>t, AppendKeeps
    <3> QED BY <3>2, <2>1 DEF Channel!Put, Pending
  <2> QED BY <2>3, <2>4
<1>4. CASE WorkerTakes
  <2>1. /\ queue # <<>> /\ line' = Head(queue) /\ queue' = Tail(queue) /\ worker = "loop"
        /\ UNCHANGED <<running, published, pipe>>
    BY <1>4 DEF WorkerTakes
  <2>2. line = 0 /\ line' # 0
    BY <2>1, <1>t DEF LineHeld
  <2>3. Pending' = Pending
    BY <2>1, <2>2, <1>p, <1>t, TakeKeeps
  <2> QED BY <2>1, <2>3 DEF Pending
<1>5. CASE WriteSucceeds
  <2>1. /\ worker = "writing" /\ pipe' = Append(pipe, line) /\ line' = 0
        /\ UNCHANGED <<running, queue, published>>
    BY <1>5 DEF WriteSucceeds
  <2>2. line # 0 /\ line \in 1..MaxEvents
    BY <2>1, <1>t DEF LineHeld
  <2>3. Pending # <<>> /\ Head(Pending) = line /\ Tail(Pending) = queue
    BY <2>2, <1>p, <1>t, HeadAndTail
  <2>4. Pending' = Tail(Pending)
    BY <2>1, <2>3, <1>p
  <2> QED BY <2>1, <2>3, <2>4 DEF Channel!Deliver, Pending
<1>6. CASE WorkerChecksRunning
  <2>1. worker = "failed" /\ UNCHANGED <<running, queue, published, pipe>>
    BY <1>6 DEF WorkerChecksRunning
  <2>2. CASE running
    <3>1. line' = line
      BY <2>2, <1>6 DEF WorkerChecksRunning, KeepsTrying
    <3>2. Pending' = Pending
      BY <3>1, <2>1 DEF Pending, Hand
    <3> QED BY <3>2, <2>1 DEF Pending
  <2>3. CASE ~ running
    <3>1. line' = 0
      BY <2>3, <1>6 DEF WorkerChecksRunning, KeepsTrying
    <3>2. line # 0 /\ line \in 1..MaxEvents
      BY <2>1, <1>t DEF LineHeld
    <3>3. Pending # <<>> /\ Tail(Pending) = queue
      BY <3>2, <1>p, <1>t, HeadAndTail
    <3>4. Pending' = Tail(Pending)
      BY <3>1, <3>3, <2>1, <1>p
    <3> QED BY <3>3, <3>4, <2>1, <2>3 DEF Channel!Drop, Pending
  <2> QED BY <2>2, <2>3
<1>7. CASE WorkerRequeues
  <2>1. /\ worker = "retrying" /\ queue' = <<line>> \o queue /\ line' = 0
        /\ UNCHANGED <<running, published, pipe>>
    BY <1>7 DEF WorkerRequeues, Requeued
  <2>2. line # 0
    BY <2>1, <1>t DEF LineHeld
  <2>3. Pending' = Pending
    BY <2>1, <2>2, <1>p
  <2> QED BY <2>1, <2>3 DEF Pending
<1>8. CASE StopClears
  <2>1. queue = <<>> /\ UNCHANGED <<running, queue, line, published, pipe>>
    BY <1>8, <1>t DEF StopClears, StopInOrder
  <2> QED BY <2>1 DEF Hand
<1>9. CASE \/ PublishNotifies \/ StopNotifies \/ StopJoins \/ WorkerExits \/ WorkerFindsNothing
           \/ WorkerBlocks \/ WokenSpuriously \/ WriteFails \/ UNCHANGED vars
  <2>1. UNCHANGED <<running, queue, line, published, pipe>>
    BY <1>9 DEF PublishNotifies, StopNotifies, StopJoins, WorkerExits, WorkerFindsNothing,
                WorkerBlocks, WokenSpuriously, WriteFails, vars
  <2> QED BY <2>1 DEF Hand
<1> QED BY <1>1, <1>2, <1>3, <1>4, <1>5, <1>6, <1>7, <1>8, <1>9 DEF Next, CallStep, WorkerStep

(* The sink implements the event channel: in order, none twice, and none   *)
(* lost unless stop() was called before.                                   *)
THEOREM SinkIsChannel == SafetySpec => ImplementsChannel
<1>1. Init => Channel!Init
  BY DEF Init, Channel!Init, Hand
<1>2. IInv /\ TypeOK' /\ [Next]_vars => [Channel!Next]_(Channel!vars)
  BY StepRefines
<1>3. SafetySpec => []IInv /\ []TypeOK
  BY Invariance, TypeCorrect, PTL
<1> QED BY <1>1, <1>2, <1>3, PTL DEF SafetySpec, ImplementsChannel, Channel!Spec
Order == INSTANCE EventChannelProofs WITH
  open <- running, put <- published, pending <- Hand \o queue, received <- pipe

(* The reader of the pipe gets the events in the order of publication,     *)
(* none of them twice, because every channel delivers so.                  *)
THEOREM WrittenInOrder == SafetySpec => [](Order!InOrder)
<1>1. Order!Spec => [](Order!InOrder)
  BY Order!DeliversInOrder
<1>2. SafetySpec => Order!Spec
  BY SinkIsChannel DEF ImplementsChannel, Channel!Spec, Channel!Init, Channel!Next, Channel!vars,
     Channel!Open, Channel!Close, Channel!Put, Channel!Deliver, Channel!Drop,
     Order!Spec, Order!Init, Order!Next, Order!vars,
     Order!Open, Order!Close, Order!Put, Order!Deliver, Order!Drop
<1> QED BY <1>1, <1>2, PTL

-----------------------------------------------------------------------------
(* What the worker may sleep through.  EventsAreTaken and StopReturns are  *)
(* liveness; what they rest on is the next invariant: the worker waits     *)
(* only with an empty queue, except between the two halves of publish().   *)

Asleep == worker \in {"blocking", "waiting"}

Attended ==
  /\ Asleep => queue = <<>> \/ (worker = "waiting" /\ call = "pushed")
  /\ Asleep => running \/ call \in {"stopping", "joining"}

(* Every step keeps the worker's sleep in order.                           *)
LEMMA AttendedStep == TypeOK /\ StopInOrder /\ Attended /\ [Next]_vars => Attended'
<1> SUFFICES ASSUME TypeOK /\ StopInOrder /\ Attended, [Next]_vars
             PROVE  Attended'
  OBVIOUS
<1> USE DEF TypeOK, StopInOrder, Attended, Asleep, Workers, Calls
<1>1. CASE Start
  BY <1>1 DEF Start
<1>2. CASE Publish
  BY <1>2 DEF Publish, MutexFree
<1>3. CASE PublishNotifies
  BY <1>3 DEF PublishNotifies, Wake
<1>4. CASE Stop
  BY <1>4 DEF Stop
<1>5. CASE StopNotifies
  BY <1>5 DEF StopNotifies, Wake
<1>6. CASE StopJoins
  BY <1>6 DEF StopJoins
<1>7. CASE StopClears
  BY <1>7 DEF StopClears
<1>8. CASE WorkerExits
  BY <1>8 DEF WorkerExits
<1>9. CASE WorkerTakes
  BY <1>9 DEF WorkerTakes
<1>10. CASE WorkerFindsNothing
  BY <1>10 DEF WorkerFindsNothing
<1>11. CASE WorkerBlocks
  BY <1>11 DEF WorkerBlocks
<1>12. CASE WokenSpuriously
  BY <1>12 DEF WokenSpuriously
<1>13. CASE WriteSucceeds
  BY <1>13 DEF WriteSucceeds
<1>14. CASE WriteFails
  BY <1>14 DEF WriteFails
<1>15. CASE WorkerChecksRunning
  BY <1>15 DEF WorkerChecksRunning
<1>16. CASE WorkerRequeues
  BY <1>16 DEF WorkerRequeues
<1>17. CASE UNCHANGED vars
  BY <1>17 DEF vars
<1> QED BY <1>1, <1>2, <1>3, <1>4, <1>5, <1>6, <1>7, <1>8, <1>9,
            <1>10, <1>11, <1>12, <1>13, <1>14, <1>15, <1>16, <1>17
         DEF Next, CallStep, WorkerStep

(* The invariant holds throughout.                                         *)
LEMMA AttendedAlways == SafetySpec => []Attended
<1>1. Init => Attended
  BY DEF Init, Attended, Asleep
<1>2. IInv => TypeOK /\ StopInOrder
  BY DEF IInv
<1> QED BY <1>1, <1>2, AttendedStep, Invariance, PTL DEF SafetySpec

(* No wakeup is lost between publish() and the worker: a worker that       *)
(* sleeps on a queued event is about to be notified of it, also when       *)
(* writes fail and are retried meanwhile.                                  *)
THEOREM NoEventSleptOn ==
  SafetySpec => [](Asleep /\ queue # <<>> => worker = "waiting" /\ call = "pushed")
<1>1. Attended => (Asleep /\ queue # <<>> => worker = "waiting" /\ call = "pushed")
  BY DEF Attended
<1> QED BY <1>1, AttendedAlways, PTL

(* The hang of stop() that the finding shows costs no event: whenever the  *)
(* controller joins a worker that sleeps, every event of the run was tried *)
(* and none is left, so only the thread hangs.                             *)
THEOREM HungStopLosesNothing ==
  SafetySpec => [](call = "joining" /\ Asleep =>
                     queue = <<>> /\ line = 0 /\ \A e \in first..published : e \in tried)
<1>1. ASSUME IInv, Attended, call = "joining", Asleep
      PROVE  queue = <<>> /\ line = 0 /\ \A e \in first..published : e \in tried
  <2>1. queue = <<>>
    BY <1>1 DEF Attended
  <2>2. line = 0
    BY <1>1 DEF IInv, LineHeld, Asleep
  <2>3. ASSUME NEW e \in first..published
        PROVE  e \in tried
    <3>1. ~ Queued(e)
      BY <2>1 DEF Queued
    <3>2. e # line
      BY <2>2, <1>1 DEF IInv, TypeOK
    <3> QED BY <3>1, <3>2, <1>1 DEF IInv, NotForgotten
  <2> QED BY <2>1, <2>2, <2>3
<1> QED BY <1>1, AttendedAlways, Invariance, PTL
=============================================================================
