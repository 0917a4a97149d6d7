---------------------------- MODULE LoggerProofs ----------------------------
(***************************************************************************)
(* The logger's queue implements the event channel, a thread's messages    *)
(* stay in order, no queued message is slept on and none is missing when   *)
(* the worker ends, for any number of threads and messages.                *)
(***************************************************************************)
EXTENDS Logger, TLAPS

USE LoggerAssumption

(* start(), stop() and the worker: there is no worker before start(), and  *)
(* nobody queues a message then; the worker has a batch only while it      *)
(* writes it; stop() goes on only after the worker has ended.              *)
StopInOrder ==
  /\ worker # "writing" => batch = <<>>
  /\ worker = "none" => ~ started /\ ~ running /\ queue = <<>>
  /\ worker = "none" => \A t \in Loggers : caller[t] \in {"idle", "printing"}
  /\ started /\ main = "idle" => running
  /\ running => started
  /\ main # "idle" => ~ running
  /\ main \in {"joining pipe", "clearing", "cleared"} => worker = "done"
  /\ worker = "done" => ~ running

(* A thread inside log() has a message.                                    *)
Logging == \A t \in Loggers : caller[t] \in {"queueing", "printing"} => logged[t] # 0

IInv == TypeOK /\ StopInOrder /\ Logging

(* The types of the messages grow with their number.                       *)
LEMMA MoreMessages ==
  ASSUME NEW m \in Nat, NEW q \in Seq(1..m)
  PROVE  q \in Seq(1..(m + 1)) /\ Append(q, m + 1) \in Seq(1..(m + 1))
OBVIOUS

(* Every step keeps the types.                                             *)
LEMMA TypeStep == TypeOK /\ Logging /\ [Next]_vars => TypeOK'
<1> SUFFICES ASSUME TypeOK /\ Logging, [Next]_vars
             PROVE  TypeOK'
  OBVIOUS
<1>t. /\ logged \in [Loggers -> 0..MaxLogs]
      /\ messages \in Seq(Loggers \X (1..MaxLogs))
      /\ console \in Seq(Loggers \X (1..MaxLogs))
  BY DEF TypeOK
<1>l. ASSUME NEW t \in Loggers, caller[t] \in {"queueing", "printing"}
      PROVE  <<t, logged[t]>> \in Loggers \X (1..MaxLogs)
  <2>1. logged[t] \in 0..MaxLogs /\ logged[t] # 0
    BY <1>t, <1>l DEF Logging
  <2>2. logged[t] \in 1..MaxLogs
    BY <2>1
  <2> QED BY <2>2
<1> USE DEF TypeOK, MessageIds
<1>1. ASSUME NEW t \in Loggers, LogCalled(t)
      PROVE  TypeOK'
  <2>1. logged[t] \in 0..MaxLogs /\ logged[t] < MaxLogs
    <3> HIDE DEF TypeOK
    <3> QED BY <1>1, <1>t DEF LogCalled, MayLog
  <2>2. logged[t] + 1 \in 0..MaxLogs
    <3> HIDE DEF TypeOK
    <3> QED BY <2>1
  <2>3. logged' \in [Loggers -> 0..MaxLogs]
    <3> HIDE DEF TypeOK
    <3> QED BY <2>2, <1>1, <1>t DEF LogCalled
  <2>4. caller' \in [Loggers -> {"idle", "queueing", "printing", "notifying"}]
    BY <1>1 DEF LogCalled
  <2>5. UNCHANGED <<started, running, queue, batch, worker, pipe, main, console, output, messages,
                    missed>>
    BY <1>1 DEF LogCalled, threadVars, outputs
  <2> QED BY <2>3, <2>4, <2>5, ZenonT(30)
<1>2. ASSUME NEW t \in Loggers, LogPrints(t)
      PROVE  TypeOK'
  <2>1. console' \in Seq(Loggers \X (1..MaxLogs))
    <3> HIDE DEF TypeOK
    <3>1. caller[t] = "printing" /\ console' = Append(console, <<t, logged[t]>>)
      BY <1>2 DEF LogPrints
    <3> QED BY <3>1, <1>l, <1>t
  <2> QED BY <2>1, <1>2, ZenonT(30) DEF LogPrints, threadVars
<1>3. ASSUME NEW t \in Loggers, LogQueues(t)
      PROVE  TypeOK'
  <2>1. <<t, logged[t]>> \in Loggers \X (1..MaxLogs)
    BY <1>3, <1>l DEF LogQueues
  <2>2. messages' \in Seq(Loggers \X (1..MaxLogs)) /\ Len(messages') = Len(messages) + 1
    <3> HIDE DEF TypeOK
    <3> QED BY <2>1, <1>3, <1>t DEF LogQueues
  <2>3. Len(messages) \in Nat
    <3> HIDE DEF TypeOK
    <3> QED BY <1>t
  <2>4. queue \in Seq(1..Len(messages)) /\ batch \in Seq(1..Len(messages))
        /\ output \in Seq(1..Len(messages))
    OBVIOUS
  <2>5. queue' = Append(queue, Len(messages) + 1) /\ UNCHANGED <<batch, output>>
    BY <2>2, <1>3 DEF LogQueues, outputs
  <2>6. queue' \in Seq(1..Len(messages')) /\ batch' \in Seq(1..Len(messages'))
        /\ output' \in Seq(1..Len(messages'))
    <3> HIDE DEF TypeOK
    <3> QED BY <2>2, <2>3, <2>4, <2>5, MoreMessages
  <2>7. caller' \in [Loggers -> {"idle", "queueing", "printing", "notifying"}]
    BY <1>3 DEF LogQueues
  <2>8. /\ UNCHANGED <<started, running, worker, pipe, main, console, logged, missed, batch>>
    BY <1>3 DEF LogQueues, threadVars, outputs
  <2> QED BY <2>2, <2>6, <2>7, <2>8, ZenonT(30)
<1>4. ASSUME NEW t \in Loggers, LogNotifies(t)
      PROVE  TypeOK'
  BY <1>4 DEF LogNotifies, Wake, threadVars, outputs
<1>5. CASE Start
  BY <1>5 DEF Start, threadVars, outputs
<1>6. CASE StopNothing
  BY <1>6 DEF StopNothing, threadVars, outputs
<1>7. CASE Stop
  BY <1>7 DEF Stop, threadVars, outputs
<1>8. CASE StopNotifies
  BY <1>8 DEF StopNotifies, Wake, threadVars, outputs
<1>9. CASE StopJoinsWorker
  BY <1>9 DEF StopJoinsWorker, Joinable, threadVars, outputs
<1>10. CASE StopJoinsPipe
  BY <1>10 DEF StopJoinsPipe, threadVars, outputs
<1>11. CASE StopClears
  BY <1>11 DEF StopClears, threadVars, outputs
<1>12. CASE StopEnds
  BY <1>12 DEF StopEnds, threadVars, outputs
<1>13. CASE WorkerExits
  BY <1>13 DEF WorkerExits, threadVars, outputs
<1>14. CASE WorkerFindsNothing
  BY <1>14 DEF WorkerFindsNothing, threadVars, outputs
<1>15. CASE WorkerBlocks
  BY <1>15 DEF WorkerBlocks, threadVars, outputs
<1>16. CASE WokenSpuriously
  BY <1>16 DEF WokenSpuriously, threadVars, outputs
<1>17. CASE WorkerTakes
  <2>1. batch' = queue /\ queue' = <<>> /\ queue # <<>>
    BY <1>17 DEF WorkerTakes, LeftBehind
  <2>2. UNCHANGED <<started, running, pipe, main, caller, console, output, logged, messages,
                    missed>>
    BY <1>17 DEF WorkerTakes, outputs
  <2>3. worker' = "writing"
    BY <1>17 DEF WorkerTakes
  <2>4. queue \in Seq(1..Len(messages))
    OBVIOUS
  <2>5. /\ batch' \in Seq(1..Len(messages)) /\ batch' # <<>>
        /\ queue' \in Seq(1..Len(messages))
    <3> HIDE DEF TypeOK
    <3> QED BY <2>1, <2>4
  <2> QED BY <2>2, <2>3, <2>5
<1>18. CASE WorkerWrites
  <2>1. /\ batch # <<>> /\ batch \in Seq(1..Len(messages)) /\ output \in Seq(1..Len(messages))
    BY <1>18 DEF WorkerWrites
  <2>2. /\ output' = Append(output, Head(batch)) /\ batch' = Tail(batch)
        /\ console' = Append(console, messages[Head(batch)])
        /\ worker' = AfterLine(Tail(batch))
    BY <1>18 DEF WorkerWrites
  <2>3. Head(batch) \in 1..Len(messages) /\ Tail(batch) \in Seq(1..Len(messages))
    <3> HIDE DEF TypeOK
    <3> QED BY <2>1
  <2>4. messages[Head(batch)] \in Loggers \X (1..MaxLogs)
    <3> HIDE DEF TypeOK
    <3> QED BY <2>3, <1>t
  <2>5. /\ output' \in Seq(1..Len(messages)) /\ batch' \in Seq(1..Len(messages))
        /\ console' \in Seq(Loggers \X (1..MaxLogs))
    <3> HIDE DEF TypeOK
    <3> QED BY <2>1, <2>2, <2>3, <2>4, <1>t
  <2>6. worker' \in {"loop", "writing"} /\ (worker' = "writing" => batch' # <<>>)
    <3> HIDE DEF TypeOK
    <3> QED BY <2>2 DEF AfterLine
  <2>7. UNCHANGED <<started, running, queue, pipe, main, caller, logged, messages, missed>>
    BY <1>18 DEF WorkerWrites
  <2> QED BY <2>5, <2>6, <2>7
<1>19. CASE PipeMade
  BY <1>19 DEF PipeMade, threadVars, outputs
<1>20. CASE PipeReturns
  BY <1>20 DEF PipeReturns, threadVars, outputs
<1>21. CASE UNCHANGED vars
  BY <1>21, ZenonT(30) DEF vars
<1> QED BY <1>1, <1>2, <1>3, <1>4, <1>5, <1>6, <1>7, <1>8, <1>9, <1>10,
            <1>11, <1>12, <1>13, <1>14, <1>15, <1>16, <1>17, <1>18, <1>19, <1>20, <1>21
         DEF Next, LogStep, StopStep, WorkerStep

(* Every step keeps a message for each thread inside log().                *)
LEMMA LoggingStep == TypeOK /\ Logging /\ [Next]_vars => Logging'
<1> SUFFICES ASSUME TypeOK /\ Logging, [Next]_vars
             PROVE  Logging'
  OBVIOUS
<1> USE DEF TypeOK, Logging
<1>1. ASSUME NEW t \in Loggers, LogCalled(t)
      PROVE  Logging'
  <2>1. /\ logged \in [Loggers -> 0..MaxLogs]
        /\ caller \in [Loggers -> {"idle", "queueing", "printing", "notifying"}]
    OBVIOUS
  <2>2. /\ logged' = [logged EXCEPT ![t] = @ + 1]
        /\ \A u \in Loggers : u # t => caller'[u] = caller[u]
    BY <1>1, <2>1 DEF LogCalled
  <2>3. logged[t] \in Nat /\ logged[t] + 1 # 0
    <3> HIDE DEF TypeOK
    <3> QED BY <2>1
  <2>4. ASSUME NEW u \in Loggers, caller'[u] \in {"queueing", "printing"}
        PROVE  logged'[u] # 0
    <3> HIDE DEF TypeOK
    <3>1. CASE u = t
      BY <3>1, <2>1, <2>2, <2>3
    <3>2. CASE u # t
      BY <3>2, <2>1, <2>2, <2>4
    <3> QED BY <3>1, <3>2
  <2> QED BY <2>4
<1>2. ASSUME NEW t \in Loggers, LogPrints(t)
      PROVE  Logging'
  BY <1>2 DEF LogPrints, threadVars, outputs
<1>3. ASSUME NEW t \in Loggers, LogQueues(t)
      PROVE  Logging'
  BY <1>3 DEF LogQueues, threadVars, outputs
<1>4. ASSUME NEW t \in Loggers, LogNotifies(t)
      PROVE  Logging'
  BY <1>4 DEF LogNotifies, Wake, threadVars, outputs
<1>5. CASE Start
  BY <1>5 DEF Start, threadVars, outputs
<1>6. CASE StopNothing
  BY <1>6 DEF StopNothing, threadVars, outputs
<1>7. CASE Stop
  BY <1>7 DEF Stop, threadVars, outputs
<1>8. CASE StopNotifies
  BY <1>8 DEF StopNotifies, Wake, threadVars, outputs
<1>9. CASE StopJoinsWorker
  BY <1>9 DEF StopJoinsWorker, Joinable, threadVars, outputs
<1>10. CASE StopJoinsPipe
  BY <1>10 DEF StopJoinsPipe, threadVars, outputs
<1>11. CASE StopClears
  BY <1>11 DEF StopClears, threadVars, outputs
<1>12. CASE StopEnds
  BY <1>12 DEF StopEnds, threadVars, outputs
<1>13. CASE WorkerExits
  BY <1>13 DEF WorkerExits, threadVars, outputs
<1>14. CASE WorkerFindsNothing
  BY <1>14 DEF WorkerFindsNothing, threadVars, outputs
<1>15. CASE WorkerBlocks
  BY <1>15 DEF WorkerBlocks, threadVars, outputs
<1>16. CASE WokenSpuriously
  BY <1>16 DEF WokenSpuriously, threadVars, outputs
<1>17. CASE WorkerTakes
  BY <1>17 DEF WorkerTakes, LeftBehind, threadVars, outputs
<1>18. CASE WorkerWrites
  BY <1>18 DEF WorkerWrites, AfterLine, threadVars, outputs
<1>19. CASE PipeMade
  BY <1>19 DEF PipeMade, threadVars, outputs
<1>20. CASE PipeReturns
  BY <1>20 DEF PipeReturns, threadVars, outputs
<1>21. CASE UNCHANGED vars
  BY <1>21 DEF vars
<1> QED BY <1>1, <1>2, <1>3, <1>4, <1>5, <1>6, <1>7, <1>8, <1>9, <1>10,
            <1>11, <1>12, <1>13, <1>14, <1>15, <1>16, <1>17, <1>18, <1>19, <1>20, <1>21
         DEF Next, LogStep, StopStep, WorkerStep

(* Every step keeps start(), stop() and the worker in agreement.           *)
LEMMA StopOrderStep == TypeOK /\ StopInOrder /\ [Next]_vars => StopInOrder'
<1> SUFFICES ASSUME TypeOK /\ StopInOrder, [Next]_vars
             PROVE  StopInOrder'
  OBVIOUS
<1> USE DEF TypeOK, StopInOrder, Exits, MutexFree
<1>1. ASSUME NEW t \in Loggers, LogCalled(t)
      PROVE  StopInOrder'
  BY <1>1 DEF LogCalled, Queues, MayLog, threadVars, outputs
<1>2. ASSUME NEW t \in Loggers, LogPrints(t)
      PROVE  StopInOrder'
  BY <1>2 DEF LogPrints, threadVars, outputs
<1>3. ASSUME NEW t \in Loggers, LogQueues(t)
      PROVE  StopInOrder'
  BY <1>3 DEF LogQueues, threadVars, outputs
<1>4. ASSUME NEW t \in Loggers, LogNotifies(t)
      PROVE  StopInOrder'
  BY <1>4 DEF LogNotifies, Wake, threadVars, outputs
<1>5. CASE Start
  BY <1>5 DEF Start, threadVars, outputs
<1>6. CASE StopNothing
  BY <1>6 DEF StopNothing, threadVars, outputs
<1>7. CASE Stop
  BY <1>7 DEF Stop, threadVars, outputs
<1>8. CASE StopNotifies
  BY <1>8 DEF StopNotifies, Wake, threadVars, outputs
<1>9. CASE StopJoinsWorker
  BY <1>9 DEF StopJoinsWorker, Joinable, threadVars, outputs
<1>10. CASE StopJoinsPipe
  BY <1>10 DEF StopJoinsPipe, threadVars, outputs
<1>11. CASE StopClears
  BY <1>11 DEF StopClears, threadVars, outputs
<1>12. CASE StopEnds
  BY <1>12 DEF StopEnds, threadVars, outputs
<1>13. CASE WorkerExits
  BY <1>13 DEF WorkerExits, threadVars, outputs
<1>14. CASE WorkerFindsNothing
  BY <1>14 DEF WorkerFindsNothing, threadVars, outputs
<1>15. CASE WorkerBlocks
  BY <1>15 DEF WorkerBlocks, threadVars, outputs
<1>16. CASE WokenSpuriously
  BY <1>16 DEF WokenSpuriously, threadVars, outputs
<1>17. CASE WorkerTakes
  BY <1>17 DEF WorkerTakes, LeftBehind, threadVars, outputs
<1>18. CASE WorkerWrites
  BY <1>18 DEF WorkerWrites, AfterLine, threadVars, outputs
<1>19. CASE PipeMade
  BY <1>19 DEF PipeMade, threadVars, outputs
<1>20. CASE PipeReturns
  BY <1>20 DEF PipeReturns, threadVars, outputs
<1>21. CASE UNCHANGED vars
  BY <1>21 DEF vars
<1> QED BY <1>1, <1>2, <1>3, <1>4, <1>5, <1>6, <1>7, <1>8, <1>9, <1>10,
            <1>11, <1>12, <1>13, <1>14, <1>15, <1>16, <1>17, <1>18, <1>19, <1>20, <1>21
         DEF Next, LogStep, StopStep, WorkerStep

(* The inductive invariant.                                                *)
LEMMA Invariance == SafetySpec => []IInv
<1>1. Init => IInv
  <2> SUFFICES ASSUME Init
               PROVE  IInv
    OBVIOUS
  <2>1. /\ queue = <<>> /\ batch = <<>> /\ console = <<>> /\ output = <<>> /\ messages = <<>>
        /\ started = FALSE /\ running = FALSE /\ missed = FALSE
        /\ worker = "none" /\ pipe = "none" /\ main = "idle"
    BY DEF Init
  <2>2. caller = [t \in Loggers |-> "idle"] /\ logged = [t \in Loggers |-> 0]
    BY DEF Init
  <2>3. 0 \in 0..MaxLogs
    OBVIOUS
  <2>4. /\ caller \in [Loggers -> {"idle", "queueing", "printing", "notifying"}]
        /\ logged \in [Loggers -> 0..MaxLogs]
    BY <2>2, <2>3
  <2>5. TypeOK
    <3>1. \A S : <<>> \in Seq(S)
      OBVIOUS
    <3>2. /\ queue \in Seq(MessageIds) /\ batch \in Seq(MessageIds) /\ output \in Seq(MessageIds)
          /\ console \in Seq(Loggers \X (1..MaxLogs)) /\ messages \in Seq(Loggers \X (1..MaxLogs))
      BY <2>1, <3>1
    <3> QED BY <2>1, <2>4, <3>2 DEF TypeOK
  <2>6. StopInOrder
    BY <2>1, <2>2 DEF StopInOrder
  <2>7. Logging
    BY <2>2 DEF Logging
  <2> QED BY <2>5, <2>6, <2>7 DEF IInv
<1>2. IInv /\ [Next]_vars => IInv'
  BY TypeStep, LoggingStep, StopOrderStep DEF IInv
<1> QED BY <1>1, <1>2, PTL DEF SafetySpec

(* Every variable of the logger keeps its type.                            *)
THEOREM TypeCorrect == SafetySpec => []TypeOK
<1>1. IInv => TypeOK
  BY DEF IInv
<1> QED BY <1>1, Invariance, PTL

-----------------------------------------------------------------------------
(* The refinement.  What the channel has pending is the worker's batch and *)
(* the queue behind it.                                                    *)

Pending == batch \o queue

(* Appending to the queue appends to what is pending.                      *)
LEMMA AppendKeeps ==
  ASSUME NEW b \in Seq(Nat), NEW q \in Seq(Nat), NEW n \in Nat
  PROVE  b \o Append(q, n) = Append(b \o q, n)
<1>1. b \o Append(q, n) \in Seq(Nat) /\ Append(b \o q, n) \in Seq(Nat)
  OBVIOUS
<1>2. Len(b \o Append(q, n)) = Len(b) + Len(q) + 1 /\ Len(Append(b \o q, n)) = Len(b) + Len(q) + 1
  OBVIOUS
<1>3. ASSUME NEW i \in 1..(Len(b) + Len(q) + 1)
      PROVE  (b \o Append(q, n))[i] = Append(b \o q, n)[i]
  <2>1. Len(b) \in Nat /\ Len(q) \in Nat /\ Append(q, n) \in Seq(Nat) /\ b \o q \in Seq(Nat)
        /\ Len(Append(q, n)) = Len(q) + 1 /\ Len(b \o q) = Len(b) + Len(q)
    OBVIOUS
  <2>2. CASE i <= Len(b)
    BY <2>1, <2>2
  <2>3. CASE i > Len(b) /\ i <= Len(b) + Len(q)
    <3>1. (b \o Append(q, n))[i] = Append(q, n)[i - Len(b)]
      BY <2>1, <2>3
    <3>2. i - Len(b) \in 1..Len(q)
      BY <2>1, <2>3
    <3>3. Append(q, n)[i - Len(b)] = q[i - Len(b)]
      BY <3>2
    <3>4. Append(b \o q, n)[i] = (b \o q)[i] /\ (b \o q)[i] = q[i - Len(b)]
      BY <2>1, <2>3
    <3> QED BY <3>1, <3>3, <3>4
  <2>4. CASE i = Len(b) + Len(q) + 1
    <3>1. (b \o Append(q, n))[i] = Append(q, n)[i - Len(b)]
      BY <2>1, <2>4
    <3>2. i - Len(b) = Len(q) + 1
      BY <2>1, <2>4
    <3> QED BY <3>1, <3>2, <2>1, <2>4
  <2> QED BY <2>1, <2>2, <2>3, <2>4
<1> QED BY <1>1, <1>2, <1>3

(* The first message of the batch is the first one that is pending.        *)
LEMMA HeadAndTail ==
  ASSUME NEW b \in Seq(Nat), NEW q \in Seq(Nat), b # <<>>
  PROVE  /\ b \o q # <<>>
         /\ Head(b \o q) = Head(b)
         /\ Tail(b \o q) = Tail(b) \o q
<1>1. b \o q \in Seq(Nat) /\ Len(b \o q) = Len(b) + Len(q) /\ Len(b) # 0
  OBVIOUS
<1>2. b \o q # <<>> /\ Head(b \o q) = Head(b)
  BY <1>1
<1>3. Tail(b) \in Seq(Nat) /\ Len(Tail(b)) = Len(b) - 1
  OBVIOUS
<1>4. Tail(b \o q) \in Seq(Nat) /\ Len(Tail(b \o q)) = Len(b) + Len(q) - 1
  BY <1>1, <1>2
<1>5. Tail(b) \o q \in Seq(Nat) /\ Len(Tail(b) \o q) = Len(b) + Len(q) - 1
  BY <1>3
<1>6. ASSUME NEW i \in 1..(Len(b) + Len(q) - 1)
      PROVE  Tail(b \o q)[i] = (Tail(b) \o q)[i]
  <2>1. Tail(b \o q)[i] = (b \o q)[i + 1]
    BY <1>1, <1>2
  <2>2. CASE i <= Len(b) - 1
    <3>1. (b \o q)[i + 1] = b[i + 1]
      BY <2>2
    <3>2. (Tail(b) \o q)[i] = Tail(b)[i] /\ Tail(b)[i] = b[i + 1]
      BY <1>3, <2>2
    <3> QED BY <3>1, <3>2, <2>1
  <2>3. CASE i > Len(b) - 1
    <3>1. (b \o q)[i + 1] = q[i + 1 - Len(b)]
      BY <2>3, SMTT(30)
    <3>2. (Tail(b) \o q)[i] = q[i - (Len(b) - 1)]
      BY <1>3, <2>3
    <3>3. i + 1 - Len(b) = i - (Len(b) - 1)
      OBVIOUS
    <3> QED BY <3>1, <3>2, <3>3, <2>1
  <2> QED BY <2>2, <2>3
<1> QED BY <1>2, <1>4, <1>5, <1>6

(* A step of the logger is a step of the channel, or none.                 *)
LEMMA StepRefines == IInv /\ [Next]_vars => [Channel!Next]_(Channel!vars)
<1> SUFFICES ASSUME IInv, [Next]_vars
             PROVE  Channel!Next \/ UNCHANGED Channel!vars
  OBVIOUS
<1> USE DEF Channel!Next, Channel!vars
<1>m. messages \in Seq(Loggers \X (1..MaxLogs)) /\ Len(messages) \in Nat
  <2>1. messages \in Seq(Loggers \X (1..MaxLogs))
    BY DEF IInv, TypeOK
  <2> QED BY <2>1
<1>t. queue \in Seq(Nat) /\ batch \in Seq(Nat)
  <2>1. queue \in Seq(1..Len(messages)) /\ batch \in Seq(1..Len(messages))
    BY DEF IInv, TypeOK, MessageIds
  <2> QED BY <2>1, <1>m
<1>p. <<>> \o queue = queue /\ queue \o <<>> = queue /\ <<>> \o <<>> = <<>>
  BY <1>t
<1>1. ASSUME NEW t \in Loggers, LogQueues(t)
      PROVE  Channel!Put
  <2>1. /\ messages' = Append(messages, <<t, logged[t]>>) /\ queue' = Append(queue, Len(messages'))
        /\ UNCHANGED <<running, batch, output>>
    BY <1>1 DEF LogQueues, outputs
  <2>2. Len(messages') = Len(messages) + 1 /\ Len(messages') \in Nat
    <3>1. <<t, logged[t]>> \in Loggers \X (1..MaxLogs)
      <4>1. logged[t] \in 0..MaxLogs /\ logged[t] # 0
        BY <1>1 DEF IInv, TypeOK, Logging, LogQueues
      <4>2. logged[t] \in 1..MaxLogs
        BY <4>1
      <4> QED BY <4>2
    <3> QED BY <2>1, <3>1, <1>m
  <2>3. batch' \o queue' = Append(batch \o queue, Len(messages'))
    BY <2>1, <2>2, <1>t, AppendKeeps
  <2> QED BY <2>1, <2>2, <2>3 DEF Channel!Put
<1>2. CASE Start
  <2>1. worker = "none" /\ queue' = <<>> /\ running' = TRUE /\ UNCHANGED <<batch, messages, output>>
    BY <1>2 DEF Start, outputs
  <2>2. ~ running /\ queue = <<>> /\ batch = <<>>
    BY <2>1 DEF IInv, StopInOrder
  <2> QED BY <2>1, <2>2 DEF Channel!Open
<1>3. CASE Stop
  <2>1. running /\ running' = FALSE /\ UNCHANGED <<queue, batch, messages, output>>
    BY <1>3 DEF Stop, outputs, IInv, StopInOrder
  <2> QED BY <2>1 DEF Channel!Close
<1>4. CASE WorkerTakes
  <2>1. /\ worker = "loop" /\ batch' = queue /\ queue' = <<>>
        /\ UNCHANGED <<running, messages, output>>
    BY <1>4 DEF WorkerTakes, LeftBehind, outputs
  <2>2. batch = <<>>
    BY <2>1 DEF IInv, StopInOrder
  <2> QED BY <2>1, <2>2, <1>p
<1>5. CASE WorkerWrites
  <2>1. /\ batch # <<>> /\ output' = Append(output, Head(batch)) /\ batch' = Tail(batch)
        /\ UNCHANGED <<running, queue, messages>>
    BY <1>5 DEF WorkerWrites, IInv, TypeOK
  <2>2. /\ batch \o queue # <<>> /\ Head(batch \o queue) = Head(batch)
        /\ batch' \o queue' = Tail(batch \o queue)
    BY <2>1, <1>t, HeadAndTail
  <2> QED BY <2>1, <2>2 DEF Channel!Deliver
<1>6. CASE StopClears
  <2>1. /\ main = "clearing" /\ queue' = <<>> /\ UNCHANGED <<running, batch, messages, output>>
    BY <1>6 DEF StopClears, outputs
  <2>2. ~ running /\ batch = <<>>
    BY <2>1 DEF IInv, StopInOrder
  <2>3. batch \o queue = queue /\ batch' \o queue' = <<>>
    BY <2>1, <2>2, <1>p
  <2>4. CASE queue = <<>>
    BY <2>1, <2>3, <2>4
  <2>5. CASE queue # <<>>
    BY <2>1, <2>2, <2>3, <2>5 DEF Channel!Drop
  <2> QED BY <2>4, <2>5
<1>7. CASE \/ \E t \in Loggers : LogCalled(t) \/ LogPrints(t) \/ LogNotifies(t)
           \/ StopNothing \/ StopNotifies \/ StopJoinsWorker \/ StopJoinsPipe \/ StopEnds
           \/ WorkerExits \/ WorkerFindsNothing \/ WorkerBlocks \/ WokenSpuriously
           \/ PipeMade \/ PipeReturns \/ UNCHANGED vars
  <2>1. UNCHANGED <<running, messages, batch, queue, output>>
    BY <1>7 DEF LogCalled, LogPrints, LogNotifies, StopNothing, StopNotifies, StopJoinsWorker,
                StopJoinsPipe, StopEnds, WorkerExits, WorkerFindsNothing, WorkerBlocks,
                WokenSpuriously, PipeMade, PipeReturns, vars, outputs
  <2> QED BY <2>1
<1> QED BY <1>1, <1>2, <1>3, <1>4, <1>5, <1>6, <1>7 DEF Next, LogStep, StopStep, WorkerStep

(* The queued messages form a channel from log() to the worker's output:   *)
(* every step of the logger is a step of the channel or changes nothing    *)
(* that the channel shows.                                                 *)
THEOREM LoggerIsChannel == SafetySpec => ImplementsChannel
<1>1. Init => Channel!Init
  <2> SUFFICES ASSUME Init
               PROVE  Channel!Init
    OBVIOUS
  <2>1. /\ running = FALSE /\ messages = <<>> /\ batch = <<>> /\ queue = <<>> /\ output = <<>>
    BY DEF Init
  <2> QED BY <2>1 DEF Channel!Init
<1>2. IInv /\ [Next]_vars => [Channel!Next]_(Channel!vars)
  BY StepRefines
<1> QED BY <1>1, <1>2, Invariance, PTL DEF SafetySpec, ImplementsChannel, Channel!Spec

Order == INSTANCE EventChannelProofs WITH
  open <- running, put <- Len(messages), pending <- batch \o queue, received <- output

(* Hence the worker writes the messages in the order in which the threads  *)
(* queued them, and none of them twice.                                    *)
THEOREM WrittenInOrder == SafetySpec => [](Order!InOrder)
<1>1. Order!Spec => [](Order!InOrder)
  BY Order!DeliversInOrder
<1>2. SafetySpec => Order!Spec
  BY LoggerIsChannel DEF ImplementsChannel, Channel!Spec, Channel!Init, Channel!Next, Channel!vars,
     Channel!Open, Channel!Close, Channel!Put, Channel!Deliver, Channel!Drop,
     Order!Spec, Order!Init, Order!Next, Order!vars,
     Order!Open, Order!Close, Order!Put, Order!Deliver, Order!Drop
<1> QED BY <1>1, <1>2, PTL

-----------------------------------------------------------------------------
(* The order of one thread's messages on the console.                      *)

Entry == Loggers \X (1..MaxLogs)
CallerStates == {"idle", "queueing", "printing", "notifying"}
InLog == {"queueing", "printing"}

(* An entry x does not come after what its thread has logged (l counts),   *)
(* and comes before it while the thread is in log().                       *)
EntryBehind(x, l, c) == x[2] <= l[x[1]] /\ (c[x[1]] \in InLog => x[2] < l[x[1]])

Behind(q, l, c) == \A i \in 1..Len(q) : EntryBehind(q[i], l, c)

(* x is newer than the entries of its thread in q.                         *)
NewerThan(x, q) == \A i \in 1..Len(q) : q[i][1] = x[1] => q[i][2] < x[2]

(* Each thread's entries in q are in order.                                *)
Ordered(q) == \A i, j \in 1..Len(q) : i < j /\ q[i][1] = q[j][1] => q[i][2] < q[j][2]

(* The batch is older than the queue, and both are in order.               *)
PendingOrdered ==
  /\ \A i, j \in 1..Len(batch) : i < j => batch[i] < batch[j]
  /\ \A i, j \in 1..Len(queue) : i < j => queue[i] < queue[j]
  /\ \A i \in 1..Len(batch), j \in 1..Len(queue) : batch[i] < queue[j]

(* Message x may still be written: it is newer than what its thread has on *)
(* the console, and the thread is not about to print another one.          *)
MayWrite(x, c, shown) == c[x[1]] # "printing" /\ NewerThan(x, shown)

PendingMayBeWritten ==
  worker # "done" => /\ \A i \in 1..Len(batch) : MayWrite(messages[batch[i]], caller, console)
                     /\ \A i \in 1..Len(queue) : MayWrite(messages[queue[i]], caller, console)

OrderInv ==
  /\ Behind(console, logged, caller) /\ Behind(messages, logged, caller)
  /\ Ordered(console) /\ Ordered(messages)
  /\ PendingOrdered
  /\ PendingMayBeWritten
  /\ ~ started => worker \in {"none", "done"}

(* The elements of a sequence with one more at its end.                    *)
LEMMA AppendElements ==
  ASSUME NEW S, NEW q \in Seq(S), NEW x \in S
  PROVE  /\ Append(q, x) \in Seq(S) /\ Len(q) \in Nat /\ Len(Append(q, x)) = Len(q) + 1
         /\ \A i \in 1..Len(q) : i # Len(q) + 1 /\ Append(q, x)[i] = q[i]
         /\ Append(q, x)[Len(q) + 1] = x
         /\ \A i \in 1..Len(Append(q, x)) : i \in 1..Len(q) \/ i = Len(q) + 1
         /\ \A i, j \in 1..Len(Append(q, x)) : i < j => i \in 1..Len(q)
OBVIOUS

(* The elements of a sequence without its first.                           *)
LEMMA TailElements ==
  ASSUME NEW S, NEW q \in Seq(S), q # <<>>
  PROVE  /\ 1 \in 1..Len(q) /\ Head(q) = q[1]
         /\ \A i \in 1..Len(Tail(q)) :
              i + 1 \in 1..Len(q) /\ 1 < i + 1 /\ Tail(q)[i] = q[i + 1]
         /\ \A i, j \in 1..Len(Tail(q)) : i < j => i + 1 < j + 1
OBVIOUS

(* An entry newer than those of its thread keeps the order.                *)
LEMMA OrderedAppend ==
  ASSUME NEW q \in Seq(Entry), Ordered(q), NEW x \in Entry, NewerThan(x, q)
  PROVE  Ordered(Append(q, x))
<1> DEFINE a == Append(q, x)
<1>1. /\ Len(a) = Len(q) + 1
      /\ \A i \in 1..Len(q) : i # Len(q) + 1 /\ a[i] = q[i]
      /\ a[Len(q) + 1] = x
      /\ \A i \in 1..Len(a) : i \in 1..Len(q) \/ i = Len(q) + 1
      /\ \A i, j \in 1..Len(a) : i < j => i \in 1..Len(q)
  BY AppendElements
<1> HIDE DEF a
<1> SUFFICES ASSUME NEW i \in 1..Len(a), NEW j \in 1..Len(a), i < j, a[i][1] = a[j][1]
             PROVE  a[i][2] < a[j][2]
  BY DEF Ordered, a
<1>2. i \in 1..Len(q) /\ a[i] = q[i]
  BY <1>1
<1>3. CASE j \in 1..Len(q)
  <2>1. a[j] = q[j]
    BY <1>1, <1>3
  <2> QED BY <1>2, <1>3, <2>1 DEF Ordered
<1>4. CASE j = Len(q) + 1
  <2>1. a[j] = x
    BY <1>1, <1>4
  <2> QED BY <1>2, <2>1 DEF NewerThan
<1> QED BY <1>1, <1>3, <1>4

(* An entry that is not ahead of its thread's count may be added.          *)
LEMMA BehindAppend ==
  ASSUME NEW q \in Seq(Entry), NEW x \in Entry, NEW l, NEW c,
         Behind(q, l, c), EntryBehind(x, l, c)
  PROVE  Behind(Append(q, x), l, c)
<1> DEFINE a == Append(q, x)
<1>1. /\ \A i \in 1..Len(q) : a[i] = q[i]
      /\ a[Len(q) + 1] = x
      /\ \A i \in 1..Len(a) : i \in 1..Len(q) \/ i = Len(q) + 1
  BY AppendElements
<1> HIDE DEF a
<1>2. ASSUME NEW i \in 1..Len(a)
      PROVE  EntryBehind(a[i], l, c)
  <2>1. CASE i \in 1..Len(q)
    <3>1. a[i] = q[i]
      BY <1>1, <2>1
    <3>2. EntryBehind(q[i], l, c)
      BY <2>1 DEF Behind
    <3> QED BY <3>1, <3>2
  <2>2. CASE i = Len(q) + 1
    BY <1>1, <2>2
  <2> QED BY <1>1, <2>1, <2>2
<1> QED BY <1>2 DEF Behind, a

(* Counts only grow, and grow when a thread enters log().                  *)
LEMMA BehindLater ==
  ASSUME NEW q \in Seq(Entry), Behind(q, logged, caller), TypeOK,
         \A t \in Loggers : logged[t] <= logged'[t],
         \A t \in Loggers : caller'[t] \in InLog => caller[t] \in InLog \/ logged[t] < logged'[t],
         \A t \in Loggers : logged'[t] \in Nat
  PROVE  Behind(q, logged', caller')
<1>1. ASSUME NEW i \in 1..Len(q)
      PROVE  EntryBehind(q[i], logged', caller')
  <2>1. q[i] \in Entry
    OBVIOUS
  <2>2. q[i][1] \in Loggers /\ q[i][2] \in Nat
    BY <2>1 DEF Entry
  <2>3. EntryBehind(q[i], logged, caller)
    BY DEF Behind
  <2>4. logged[q[i][1]] \in Nat
    <3>1. logged \in [Loggers -> 0..MaxLogs]
      BY DEF TypeOK
    <3> QED BY <3>1, <2>2
  <2> QED BY <2>2, <2>3, <2>4 DEF EntryBehind
<1> QED BY <1>1 DEF Behind

(* Every step keeps the order.                                             *)
LEMMA OrderStep == IInv /\ IInv' /\ OrderInv /\ [Next]_vars => OrderInv'
<1> SUFFICES ASSUME IInv, IInv', OrderInv, [Next]_vars
             PROVE  OrderInv'
  OBVIOUS
<1>t. /\ console \in Seq(Entry) /\ messages \in Seq(Entry) /\ Len(messages) \in Nat
      /\ logged \in [Loggers -> 0..MaxLogs] /\ caller \in [Loggers -> CallerStates]
  <2>1. /\ console \in Seq(Entry) /\ messages \in Seq(Entry)
        /\ logged \in [Loggers -> 0..MaxLogs] /\ caller \in [Loggers -> CallerStates]
    BY DEF IInv, TypeOK, Entry, CallerStates
  <2> QED BY <2>1
<1>p. batch \in Seq(1..Len(messages)) /\ queue \in Seq(1..Len(messages))
  BY DEF IInv, TypeOK, MessageIds
<1>q. /\ \A i \in 1..Len(batch) : batch[i] \in 1..Len(messages)
      /\ \A i \in 1..Len(queue) : queue[i] \in 1..Len(messages)
  BY <1>p
<1>n. \A t \in Loggers : logged[t] \in Nat /\ logged'[t] \in Nat
  <2>1. logged' \in [Loggers -> 0..MaxLogs]
    BY DEF IInv, TypeOK
  <2> QED BY <1>t, <2>1
<1>e. \A n \in 1..Len(messages) : messages[n] \in Entry /\ messages[n][1] \in Loggers
  BY <1>t DEF Entry
<1>i. /\ Behind(console, logged, caller) /\ Behind(messages, logged, caller)
      /\ Ordered(console) /\ Ordered(messages)
  BY DEF OrderInv
<1>b. ASSUME UNCHANGED <<console, messages, logged>>,
             \A t \in Loggers : caller'[t] \in InLog => caller[t] \in InLog
      PROVE  /\ Behind(console, logged, caller)' /\ Behind(messages, logged, caller)'
             /\ Ordered(console)' /\ Ordered(messages)'
  <2>1. \A t \in Loggers : logged[t] <= logged'[t]
    BY <1>b, <1>n
  <2>2. Behind(console, logged', caller') /\ Behind(messages, logged', caller')
    BY <2>1, <1>b, <1>t, <1>n, <1>i, BehindLater DEF IInv
  <2> QED BY <2>2, <1>b, <1>i
<1>1. ASSUME NEW t \in Loggers, LogCalled(t)
      PROVE  OrderInv'
  <2>1. /\ UNCHANGED <<started, queue, batch, worker, console, messages>>
        /\ logged' = [logged EXCEPT ![t] = @ + 1]
        /\ caller' = [caller EXCEPT ![t] = IF started THEN "queueing" ELSE "printing"]
    BY <1>1 DEF LogCalled, Queues, threadVars, outputs
  <2>2. /\ \A u \in Loggers : logged[u] <= logged'[u]
        /\ \A u \in Loggers : caller'[u] \in InLog => caller[u] \in InLog \/ logged[u] < logged'[u]
    BY <2>1, <1>t, <1>n
  <2>3. Behind(console, logged', caller') /\ Behind(messages, logged', caller')
    BY <2>2, <1>t, <1>n, <1>i, BehindLater DEF IInv
  <2>4. PendingMayBeWritten'
    <3>1. CASE started
      <4>1. \A u \in Loggers : caller[u] # "printing" => caller'[u] # "printing"
        BY <3>1, <2>1, <1>t
      <4> QED BY <4>1, <2>1, <1>q, <1>e DEF OrderInv, PendingMayBeWritten, MayWrite, NewerThan
    <3>2. CASE ~ started
      <4>1. worker = "done" \/ (worker = "none" /\ batch = <<>> /\ queue = <<>>)
        <5>1. worker \in {"none", "done"}
          BY <3>2 DEF OrderInv
        <5>2. StopInOrder
          BY DEF IInv
        <5> QED BY <5>1, <5>2 DEF StopInOrder
      <4> QED BY <4>1, <2>1 DEF PendingMayBeWritten
    <3> QED BY <3>1, <3>2
  <2>5. PendingOrdered'
    BY <2>1 DEF OrderInv, PendingOrdered
  <2> QED BY <2>1, <2>3, <2>4, <2>5, <1>i DEF OrderInv
<1>2. ASSUME NEW t \in Loggers, LogPrints(t)
      PROVE  OrderInv'
  <2> DEFINE x == <<t, logged[t]>>
  <2>1. /\ UNCHANGED <<started, queue, batch, worker, logged, messages>>
        /\ caller[t] = "printing" /\ console' = Append(console, x)
        /\ caller' = [caller EXCEPT ![t] = "idle"]
    BY <1>2 DEF LogPrints, threadVars
  <2>2. x \in Entry /\ x[1] = t /\ x[2] = logged[t]
    <3>1. logged[t] \in 0..MaxLogs /\ logged[t] # 0
      BY <2>1, <1>t DEF IInv, Logging
    <3>2. logged[t] \in 1..MaxLogs
      BY <3>1
    <3> QED BY <3>2 DEF Entry
  <2> HIDE DEF x
  <2>3. NewerThan(x, console)
    BY <2>1, <2>2, <1>i DEF NewerThan, Behind, EntryBehind, InLog
  <2>4. Ordered(console)'
    BY <2>1, <2>2, <2>3, <1>t, <1>i, OrderedAppend
  <2>5. Behind(console, logged', caller') /\ Behind(messages, logged', caller')
    <3>1. /\ \A u \in Loggers : logged[u] <= logged'[u]
          /\ \A u \in Loggers : caller'[u] \in InLog => caller[u] \in InLog
      BY <2>1, <1>t, <1>n DEF InLog
    <3> QED BY <3>1, <1>t, <1>n, <1>i, BehindLater DEF IInv
  <2>6. Behind(console', logged', caller')
    <3>1. EntryBehind(x, logged', caller')
      <4>1. x[2] <= logged'[x[1]]
        BY <2>1, <2>2, <1>n
      <4>2. caller'[x[1]] \notin InLog
        BY <2>1, <2>2, <1>t DEF InLog
      <4> QED BY <4>1, <4>2 DEF EntryBehind
    <3>2. Behind(Append(console, x), logged', caller')
      BY <3>1, <2>2, <2>5, <1>t, BehindAppend
    <3> QED BY <3>2, <2>1
  <2>7. PendingMayBeWritten'
    <3>1. ASSUME NEW m \in Entry, MayWrite(m, caller, console)
          PROVE  MayWrite(m, caller', console')
      <4>1. m[1] \in Loggers /\ m[1] # t
        BY <3>1, <2>1 DEF MayWrite, Entry
      <4>2. caller'[m[1]] # "printing"
        BY <3>1, <4>1, <2>1, <1>t DEF MayWrite
      <4>3. ASSUME NEW n \in 1..Len(Append(console, x)), Append(console, x)[n][1] = m[1]
            PROVE  Append(console, x)[n][2] < m[2]
        <5>1. n \in 1..Len(console) \/ n = Len(console) + 1
          BY <1>t, <2>2, AppendElements
        <5>2. CASE n \in 1..Len(console)
          <6>1. Append(console, x)[n] = console[n]
            BY <5>2, <1>t, <2>2, AppendElements
          <6> QED BY <6>1, <5>2, <4>3, <3>1 DEF MayWrite, NewerThan
        <5>3. CASE n = Len(console) + 1
          <6>1. Append(console, x)[n] = x
            BY <5>3, <1>t, <2>2, AppendElements
          <6> QED BY <6>1, <4>3, <4>1, <2>2
        <5> QED BY <5>1, <5>2, <5>3
      <4> QED BY <4>2, <4>3, <2>1 DEF MayWrite, NewerThan
    <3>2. \A n \in 1..Len(messages) : 
            MayWrite(messages[n], caller, console) => MayWrite(messages[n], caller', console')
      BY <3>1, <2>1, <1>e
    <3> HIDE DEF MayWrite
    <3> QED BY <3>2, <2>1, <1>q DEF OrderInv, PendingMayBeWritten
  <2>8. PendingOrdered'
    BY <2>1 DEF OrderInv, PendingOrdered
  <2> QED BY <2>1, <2>4, <2>5, <2>6, <2>7, <2>8, <1>i DEF OrderInv
<1>3. ASSUME NEW t \in Loggers, LogQueues(t)
      PROVE  OrderInv'
  <2> DEFINE x == <<t, logged[t]>>
             new == Len(messages) + 1
  <2>1. /\ UNCHANGED <<started, batch, worker, logged, console>>
        /\ caller[t] = "queueing" /\ messages' = Append(messages, x)
        /\ queue' = Append(queue, Len(messages'))
        /\ caller' = [caller EXCEPT ![t] = "notifying"]
    BY <1>3 DEF LogQueues, threadVars, outputs
  <2>2. x \in Entry /\ x[1] = t /\ x[2] = logged[t]
    <3>1. logged[t] \in 0..MaxLogs /\ logged[t] # 0
      BY <2>1, <1>t DEF IInv, Logging
    <3>2. logged[t] \in 1..MaxLogs
      BY <3>1
    <3> QED BY <3>2 DEF Entry
  <2> HIDE DEF x
  <2>3. NewerThan(x, console) /\ NewerThan(x, messages)
    BY <2>1, <2>2, <1>i DEF NewerThan, Behind, EntryBehind, InLog
  <2>4. Ordered(messages)'
    BY <2>1, <2>2, <2>3, <1>t, <1>i, OrderedAppend
  <2>5. Behind(console, logged', caller') /\ Behind(messages, logged', caller')
    <3>1. /\ \A u \in Loggers : logged[u] <= logged'[u]
          /\ \A u \in Loggers : caller'[u] \in InLog => caller[u] \in InLog
      BY <2>1, <1>t, <1>n DEF InLog
    <3> QED BY <3>1, <1>t, <1>n, <1>i, BehindLater DEF IInv
  <2>6. Behind(messages', logged', caller')
    <3>1. EntryBehind(x, logged', caller')
      <4>1. x[2] <= logged'[x[1]]
        BY <2>1, <2>2, <1>n
      <4>2. caller'[x[1]] \notin InLog
        BY <2>1, <2>2, <1>t DEF InLog
      <4> QED BY <4>1, <4>2 DEF EntryBehind
    <3>2. Behind(Append(messages, x), logged', caller')
      BY <3>1, <2>2, <2>5, <1>t, BehindAppend
    <3> QED BY <3>2, <2>1
  <2>7. /\ \A n \in 1..Len(messages) : messages'[n] = messages[n]
        /\ messages'[new] = x /\ Len(messages') = new
    BY <2>1, <2>2, <1>t, AppendElements
  <2>q. /\ \A n \in 1..Len(queue) : queue'[n] = queue[n]
        /\ queue'[Len(queue) + 1] = new
        /\ \A n \in 1..Len(queue') : n \in 1..Len(queue) \/ n = Len(queue) + 1
        /\ \A i, j \in 1..Len(queue') : i < j => i \in 1..Len(queue)
    <3>1. queue \in Seq(Nat) /\ new \in Nat
      BY <1>p, <1>t
    <3> HIDE DEF new
    <3> QED BY <3>1, <2>1, <2>7, AppendElements
  <2>8. PendingMayBeWritten'
    <3>1. ASSUME NEW m \in Entry, MayWrite(m, caller, console)
          PROVE  MayWrite(m, caller', console')
      <4>1. m[1] \in Loggers
        BY DEF Entry
      <4>2. caller'[m[1]] # "printing"
        BY <3>1, <4>1, <2>1, <1>t DEF MayWrite
      <4> QED BY <4>2, <3>1, <2>1 DEF MayWrite, NewerThan
    <3>2. caller'[x[1]] # "printing" /\ NewerThan(x, console')
      BY <2>1, <2>2, <2>3, <1>t
    <3>3. ASSUME NEW n \in 1..Len(messages), MayWrite(messages[n], caller, console)
          PROVE  caller'[messages'[n][1]] # "printing" /\ NewerThan(messages'[n], console')
      <4>1. messages'[n] = messages[n] /\ messages[n] \in Entry
        BY <2>7, <1>e
      <4>2. caller'[messages[n][1]] # "printing" /\ NewerThan(messages[n], console')
        BY <4>1, <3>1, <3>3 DEF MayWrite
      <4> QED BY <4>1, <4>2
    <3>4. ASSUME worker # "done", NEW i \in 1..Len(batch)
          PROVE  MayWrite(messages'[batch[i]], caller', console')
      <4>1. batch[i] \in 1..Len(messages) /\ MayWrite(messages[batch[i]], caller, console)
        BY <3>4, <1>q DEF OrderInv, PendingMayBeWritten
      <4>2. /\ caller'[messages'[batch[i]][1]] # "printing"
            /\ NewerThan(messages'[batch[i]], console')
        BY <4>1, <3>3
      <4> QED BY <4>2, <2>1 DEF MayWrite
    <3>5. ASSUME worker # "done", NEW i \in 1..Len(queue')
          PROVE  /\ caller'[messages'[queue'[i]][1]] # "printing"
                 /\ NewerThan(messages'[queue'[i]], console')
      <4>1. CASE i \in 1..Len(queue)
        <5>1. /\ queue[i] \in 1..Len(messages) /\ queue'[i] = queue[i]
              /\ MayWrite(messages[queue[i]], caller, console)
          BY <3>5, <4>1, <2>q, <1>q DEF OrderInv, PendingMayBeWritten
        <5> QED BY <5>1, <3>3
      <4>2. CASE i = Len(queue) + 1
        BY <4>2, <2>q, <2>7, <3>2
      <4> QED BY <4>1, <4>2, <2>q
    <3> QED BY <3>4, <3>5, <2>1 DEF PendingMayBeWritten, MayWrite
  <2>9. PendingOrdered'
    <3>1. \A i, j \in 1..Len(queue') : i < j => queue'[i] < queue'[j]
      <4> SUFFICES ASSUME NEW i \in 1..Len(queue'), NEW j \in 1..Len(queue'), i < j
                   PROVE  queue'[i] < queue'[j]
        OBVIOUS
      <4>1. i \in 1..Len(queue) /\ queue'[i] = queue[i] /\ queue[i] \in 1..Len(messages)
        BY <2>q, <1>p
      <4>2. CASE j \in 1..Len(queue)
        BY <4>1, <4>2, <2>q DEF OrderInv, PendingOrdered
      <4>3. CASE j = Len(queue) + 1
        BY <4>1, <4>3, <2>q, <1>t
      <4> QED BY <4>2, <4>3, <2>q
    <3>2. ASSUME NEW i \in 1..Len(batch), NEW j \in 1..Len(queue')
          PROVE  batch[i] < queue'[j]
      <4>1. batch[i] \in 1..Len(messages)
        BY <1>p
      <4>2. CASE j \in 1..Len(queue)
        BY <4>2, <2>q DEF OrderInv, PendingOrdered
      <4>3. CASE j = Len(queue) + 1
        BY <4>1, <4>3, <2>q, <1>t
      <4> QED BY <4>2, <4>3, <2>q
    <3> QED BY <3>1, <3>2, <2>1 DEF OrderInv, PendingOrdered
  <2> QED BY <2>1, <2>4, <2>5, <2>6, <2>8, <2>9, <1>i DEF OrderInv
<1>4. ASSUME NEW t \in Loggers, LogNotifies(t)
      PROVE  OrderInv'
  <2>1. /\ UNCHANGED <<started, queue, batch, logged, messages, console>>
        /\ caller' = [caller EXCEPT ![t] = "idle"]
    BY <1>4 DEF LogNotifies, outputs
  <2>2. \A u \in Loggers : /\ caller'[u] \in InLog => caller[u] \in InLog
                           /\ caller[u] # "printing" => caller'[u] # "printing"
    BY <2>1, <1>t DEF InLog
  <2>3. worker' = worker \/ (worker = "waiting" /\ worker' = "loop")
    BY <1>4 DEF LogNotifies, Wake
  <2>4. PendingMayBeWritten'
    BY <2>1, <2>2, <2>3, <1>q, <1>e DEF OrderInv, PendingMayBeWritten, MayWrite, NewerThan
  <2>5. PendingOrdered' /\ (~ started' => worker' \in {"none", "done"})
    BY <2>1, <2>3 DEF OrderInv, PendingOrdered
  <2> QED BY <2>1, <2>2, <2>4, <2>5, <1>b DEF OrderInv
<1>5. CASE Start \/ StopClears
  <2>1. /\ UNCHANGED <<batch, logged, messages, console, caller>> /\ queue' = <<>>
        /\ Start => worker = "none" /\ started'
        /\ StopClears => main = "clearing" /\ UNCHANGED <<worker, started>>
    BY <1>5 DEF Start, StopClears, outputs
  <2>2. batch = <<>> /\ (StopClears => worker = "done")
    BY <2>1, <1>5 DEF IInv, StopInOrder
  <2>3. PendingMayBeWritten' /\ PendingOrdered'
    BY <2>1, <2>2 DEF PendingMayBeWritten, PendingOrdered
  <2>4. ~ started' => worker' \in {"none", "done"}
    BY <1>5, <2>1 DEF OrderInv
  <2> QED BY <2>1, <2>3, <2>4, <1>b DEF OrderInv
<1>6. CASE WorkerTakes
  <2>1. /\ UNCHANGED <<started, logged, messages, console, caller>>
        /\ batch' = queue /\ queue' = <<>> /\ worker = "loop" /\ worker' = "writing"
    BY <1>6 DEF WorkerTakes, LeftBehind, outputs
  <2>2. PendingMayBeWritten'
    BY <2>1 DEF OrderInv, PendingMayBeWritten, MayWrite, NewerThan
  <2>3. PendingOrdered'
    BY <2>1 DEF OrderInv, PendingOrdered
  <2>4. started'
    BY <2>1 DEF OrderInv, IInv, TypeOK
  <2> QED BY <2>1, <2>2, <2>3, <2>4, <1>b DEF OrderInv
<1>7. CASE WorkerWrites
  <2> DEFINE x == messages[Head(batch)]
  <2>1. /\ UNCHANGED <<started, queue, logged, messages, caller>>
        /\ batch # <<>> /\ batch' = Tail(batch) /\ worker = "writing"
        /\ console' = Append(console, x) /\ worker' \in {"loop", "writing"}
    BY <1>7 DEF WorkerWrites, AfterLine, IInv, TypeOK
  <2>2. /\ 1 \in 1..Len(batch) /\ Head(batch) = batch[1]
        /\ \A i \in 1..Len(batch') :
             i + 1 \in 1..Len(batch) /\ 1 < i + 1 /\ batch'[i] = batch[i + 1]
        /\ \A i, j \in 1..Len(batch') : i < j => i + 1 < j + 1
    BY <2>1, <1>p, TailElements
  <2>3. batch[1] \in 1..Len(messages) /\ x = messages[batch[1]]
    BY <2>2, <1>p
  <2>4. x \in Entry /\ EntryBehind(x, logged, caller) /\ NewerThan(x, console)
    <3>1. EntryBehind(messages[batch[1]], logged, caller)
      BY <2>3, <1>i DEF Behind
    <3>2. MayWrite(messages[batch[1]], caller, console)
      BY <2>1, <2>2 DEF OrderInv, PendingMayBeWritten
    <3> QED BY <3>1, <3>2, <2>3, <1>e DEF MayWrite
  <2> HIDE DEF x
  <2>5. Ordered(console)' /\ Behind(console, logged, caller)'
    <3>1. Ordered(Append(console, x)) /\ Behind(Append(console, x), logged, caller)
      BY <2>4, <1>t, <1>i, OrderedAppend, BehindAppend
    <3> QED BY <3>1, <2>1
  <2>6. ASSUME NEW k \in 1..Len(messages), batch[1] < k, MayWrite(messages[k], caller, console)
        PROVE  MayWrite(messages[k], caller', console')
    <3>1. x[1] = messages[k][1] => x[2] < messages[k][2]
      BY <2>3, <2>6, <1>i DEF Ordered
    <3>2. ASSUME NEW n \in 1..Len(Append(console, x)), Append(console, x)[n][1] = messages[k][1]
          PROVE  Append(console, x)[n][2] < messages[k][2]
      <4>1. n \in 1..Len(console) \/ n = Len(console) + 1
        BY <1>t, <2>4, AppendElements
      <4>2. CASE n \in 1..Len(console)
        <5>1. Append(console, x)[n] = console[n]
          BY <4>2, <1>t, <2>4, AppendElements
        <5> QED BY <5>1, <4>2, <3>2, <2>6 DEF MayWrite, NewerThan
      <4>3. CASE n = Len(console) + 1
        <5>1. Append(console, x)[n] = x
          BY <4>3, <1>t, <2>4, AppendElements
        <5> QED BY <5>1, <3>1, <3>2
      <4> QED BY <4>1, <4>2, <4>3
    <3> QED BY <3>2, <2>1, <2>6 DEF MayWrite, NewerThan
  <2>7. PendingMayBeWritten'
    <3>1. ASSUME NEW i \in 1..Len(batch')
          PROVE  MayWrite(messages[batch[i + 1]], caller', console')
      <4>1. i + 1 \in 1..Len(batch) /\ batch[1] < batch[i + 1]
        BY <2>2 DEF OrderInv, PendingOrdered
      <4>2. batch[i + 1] \in 1..Len(messages) /\ MayWrite(messages[batch[i + 1]], caller, console)
        BY <4>1, <1>p, <2>1 DEF OrderInv, PendingMayBeWritten
      <4>3. PICK k \in 1..Len(messages) : k = batch[i + 1]
        BY <4>2
      <4>4. MayWrite(messages[k], caller', console')
        BY <4>1, <4>2, <4>3, <2>6
      <4> QED BY <4>3, <4>4, <2>2, <2>1 DEF MayWrite
    <3>2. ASSUME NEW i \in 1..Len(queue)
          PROVE  MayWrite(messages[queue[i]], caller', console')
      <4>1. batch[1] < queue[i]
        BY <2>2 DEF OrderInv, PendingOrdered
      <4>2. queue[i] \in 1..Len(messages) /\ MayWrite(messages[queue[i]], caller, console)
        BY <1>p, <2>1 DEF OrderInv, PendingMayBeWritten
      <4>3. PICK k \in 1..Len(messages) : k = queue[i]
        BY <4>2
      <4>4. MayWrite(messages[k], caller', console')
        BY <4>1, <4>2, <4>3, <2>6
      <4> QED BY <4>3, <4>4, <2>1 DEF MayWrite
    <3> QED BY <3>1, <3>2, <2>1, <2>2 DEF PendingMayBeWritten
  <2>8. PendingOrdered'
    BY <2>1, <2>2 DEF OrderInv, PendingOrdered
  <2>9. started' /\ Behind(messages, logged, caller)' /\ Ordered(messages)'
    BY <2>1, <1>i DEF OrderInv, IInv, TypeOK
  <2> QED BY <2>5, <2>7, <2>8, <2>9 DEF OrderInv
<1>8. CASE StopEnds \/ WorkerExits
  <2>1. /\ UNCHANGED <<queue, batch, logged, messages, console, caller>>
        /\ StopEnds => main = "cleared" /\ UNCHANGED worker
        /\ WorkerExits => worker' = "done"
    BY <1>8 DEF StopEnds, WorkerExits, outputs
  <2>2. worker' = "done"
    BY <2>1, <1>8 DEF IInv, StopInOrder
  <2> QED BY <2>1, <2>2, <1>b DEF OrderInv, PendingMayBeWritten, PendingOrdered
<1>9. CASE \/ StopNothing \/ Stop \/ StopNotifies \/ StopJoinsWorker \/ StopJoinsPipe
           \/ WorkerFindsNothing \/ WorkerBlocks \/ WokenSpuriously
           \/ PipeMade \/ PipeReturns \/ UNCHANGED vars
  <2>1. /\ UNCHANGED <<started, queue, batch, logged, messages, console, caller>>
        /\ worker' = worker \/ worker \in {"loop", "blocking", "waiting"}
    BY <1>9 DEF StopNothing, Stop, StopNotifies, Wake, StopJoinsWorker, StopJoinsPipe,
                WorkerFindsNothing, WorkerBlocks, WokenSpuriously, PipeMade, PipeReturns, vars,
                outputs
  <2>2. PendingMayBeWritten'
    BY <2>1 DEF OrderInv, PendingMayBeWritten, MayWrite, NewerThan
  <2>3. PendingOrdered' /\ (~ started' => worker' \in {"none", "done"})
    BY <2>1 DEF OrderInv, PendingOrdered
  <2> QED BY <2>1, <2>2, <2>3, <1>b DEF OrderInv
<1> QED BY <1>1, <1>2, <1>3, <1>4, <1>5, <1>6, <1>7, <1>8, <1>9
        DEF Next, LogStep, StopStep, WorkerStep

(* Although a message may go to the console at once or through the queue,  *)
(* the console shows the messages of one thread in the order in which the  *)
(* thread logged them, also around start() and stop(): log() looks at the  *)
(* flag before it queues, and what the worker has not yet written when     *)
(* stop() has joined it is never written.                                  *)
THEOREM ThreadOrderKept == SafetySpec => []ThreadOrder
<1>1. Init => OrderInv
  <2> SUFFICES ASSUME Init
               PROVE  OrderInv
    OBVIOUS
  <2>1. /\ queue = <<>> /\ batch = <<>> /\ console = <<>> /\ messages = <<>> /\ worker = "none"
    BY DEF Init
  <2> QED BY <2>1 DEF OrderInv, Behind, Ordered, PendingOrdered, PendingMayBeWritten
<1>2. IInv /\ IInv' /\ OrderInv /\ [Next]_vars => OrderInv'
  BY OrderStep
<1>3. IInv /\ OrderInv => ThreadOrder
  <2> SUFFICES ASSUME IInv, OrderInv
               PROVE  ThreadOrder
    OBVIOUS
  <2>1. console \in Seq(Entry)
    BY DEF IInv, TypeOK, Entry
  <2>2. DOMAIN console = 1..Len(console)
    BY <2>1
  <2>3. Ordered(console)
    BY DEF OrderInv
  <2> QED BY <2>2, <2>3 DEF ThreadOrder, Ordered
<1> QED BY <1>1, <1>2, <1>3, Invariance, PTL DEF SafetySpec

-----------------------------------------------------------------------------
(* What stop() flushes.  StopFlushes is liveness; it rests on two          *)
(* invariants.  The worker waits only with an empty queue, unless some     *)
(* thread is between queueing its message and notifying, and it waits      *)
(* while stop() joins it only if it missed the notification.               *)

Asleep == worker \in {"blocking", "waiting"}

Attended ==
  /\ Asleep /\ queue # <<>> => worker = "waiting" /\ \E t \in Loggers : caller[t] = "notifying"
  /\ Asleep => main \in {"idle", "notifying", "joining"}
  /\ Asleep /\ main = "joining" => missed
  /\ main = "idle" /\ ~ started => worker = "none"

(* Every step keeps the worker's sleep in order.                           *)
LEMMA AttendedStep == TypeOK /\ StopInOrder /\ Attended /\ [Next]_vars => Attended'
<1> SUFFICES ASSUME TypeOK /\ StopInOrder /\ Attended, [Next]_vars
             PROVE  Attended'
  OBVIOUS
<1> USE DEF TypeOK, StopInOrder, Attended, Asleep, Exits, MutexFree
<1>1. ASSUME NEW t \in Loggers, LogCalled(t)
      PROVE  Attended'
  BY <1>1 DEF LogCalled, MayLog, threadVars
<1>2. ASSUME NEW t \in Loggers, LogPrints(t)
      PROVE  Attended'
  BY <1>2 DEF LogPrints, threadVars
<1>3. ASSUME NEW t \in Loggers, LogQueues(t)
      PROVE  Attended'
  BY <1>3 DEF LogQueues, threadVars
<1>4. ASSUME NEW t \in Loggers, LogNotifies(t)
      PROVE  Attended'
  BY <1>4 DEF LogNotifies, Wake
<1>5. CASE Start
  BY <1>5 DEF Start
<1>6. CASE StopNothing
  BY <1>6 DEF StopNothing
<1>7. CASE Stop
  BY <1>7 DEF Stop
<1>8. CASE StopNotifies
  BY <1>8 DEF StopNotifies, Wake
<1>9. CASE StopJoinsWorker
  BY <1>9 DEF StopJoinsWorker, Joinable
<1>10. CASE StopJoinsPipe
  BY <1>10 DEF StopJoinsPipe
<1>11. CASE StopClears
  BY <1>11 DEF StopClears
<1>12. CASE StopEnds
  BY <1>12 DEF StopEnds
<1>13. CASE WorkerExits
  BY <1>13 DEF WorkerExits
<1>14. CASE WorkerFindsNothing
  BY <1>14 DEF WorkerFindsNothing
<1>15. CASE WorkerBlocks
  BY <1>15 DEF WorkerBlocks
<1>16. CASE WokenSpuriously
  BY <1>16 DEF WokenSpuriously
<1>17. CASE WorkerTakes
  BY <1>17 DEF WorkerTakes, LeftBehind
<1>18. CASE WorkerWrites
  BY <1>18 DEF WorkerWrites, AfterLine
<1>19. CASE PipeMade
  BY <1>19 DEF PipeMade
<1>20. CASE PipeReturns
  BY <1>20 DEF PipeReturns
<1>21. CASE UNCHANGED vars
  BY <1>21 DEF vars
<1> QED BY <1>1, <1>2, <1>3, <1>4, <1>5, <1>6, <1>7, <1>8, <1>9, <1>10,
            <1>11, <1>12, <1>13, <1>14, <1>15, <1>16, <1>17, <1>18, <1>19, <1>20, <1>21
         DEF Next, LogStep, StopStep, WorkerStep

(* The invariant holds throughout.                                         *)
LEMMA AttendedAlways == SafetySpec => []Attended
<1>1. Init => Attended
  BY DEF Init, Attended, Asleep
<1>2. IInv => TypeOK /\ StopInOrder
  BY DEF IInv
<1> QED BY <1>1, <1>2, AttendedStep, Invariance, PTL DEF SafetySpec

(* No wakeup is lost between log() and the worker: a worker that sleeps on *)
(* a queued message is about to be notified of it by one of the threads    *)
(* that log.                                                               *)
THEOREM NoMessageSleptOn ==
  SafetySpec => [](Asleep /\ queue # <<>> =>
                     worker = "waiting" /\ \E t \in Loggers : caller[t] = "notifying")
<1>1. Attended => (Asleep /\ queue # <<>> =>
                     worker = "waiting" /\ \E t \in Loggers : caller[t] = "notifying")
  BY DEF Attended
<1> QED BY <1>1, AttendedAlways, PTL

(* stop() joins a worker that sleeps only for one reason: its notification *)
(* came between the worker's look at the flag and its wait.                *)
THEOREM OnlyMissedHangs == SafetySpec => [](Asleep /\ main = "joining" => missed)
<1>1. Attended => (Asleep /\ main = "joining" => missed)
  BY DEF Attended
<1> QED BY <1>1, AttendedAlways, PTL

-----------------------------------------------------------------------------
(* Until the worker ends, what was written, what is in its batch and what  *)
(* is queued are the queued messages, each once and in order.              *)

AllMessages == [i \in 1..Len(messages) |-> i]

Accounted == worker # "done" => output \o Pending = AllMessages

(* One more message.                                                       *)
LEMMA NextMessage ==
  ASSUME NEW n \in Nat
  PROVE  /\ [i \in 1..n |-> i] \in Seq(Nat)
         /\ Append([i \in 1..n |-> i], n + 1) = [i \in 1..(n + 1) |-> i]
<1> DEFINE f == [i \in 1..n |-> i]
           g == [i \in 1..(n + 1) |-> i]
<1>1. f \in Seq(Nat) /\ Len(f) = n /\ g \in Seq(Nat) /\ Len(g) = n + 1
  OBVIOUS
<1>2. ASSUME NEW i \in 1..(n + 1)
      PROVE  Append(f, n + 1)[i] = g[i]
  OBVIOUS
<1> QED BY <1>1, <1>2

(* Sequences with the same elements.                                       *)
LEMMA SameElements ==
  ASSUME NEW a \in Seq(Nat), NEW b \in Seq(Nat), NEW n \in Nat, Len(a) = n, Len(b) = n,
         \A i \in 1..n : a[i] = b[i]
  PROVE  a = b
OBVIOUS

(* The first message of the batch is written: the line goes from the front *)
(* of what is pending to the end of the output.                            *)
LEMMA WriteMoves ==
  ASSUME NEW o \in Seq(Nat), NEW p \in Seq(Nat), p # <<>>
  PROVE  Append(o, Head(p)) \o Tail(p) = o \o p
<1>1. Len(p) \in Nat /\ Len(p) # 0 /\ Len(o) \in Nat
  OBVIOUS
<1>2. Tail(p) \in Seq(Nat) /\ Len(Tail(p)) = Len(p) - 1 /\ Head(p) = p[1] /\ Head(p) \in Nat
  BY <1>1
<1>3. Append(o, Head(p)) \in Seq(Nat) /\ Len(Append(o, Head(p))) = Len(o) + 1
  BY <1>2
<1>4. o \o p \in Seq(Nat) /\ Len(o \o p) = Len(o) + Len(p)
  OBVIOUS
<1>5. /\ Append(o, Head(p)) \o Tail(p) \in Seq(Nat)
      /\ Len(Append(o, Head(p)) \o Tail(p)) = Len(o) + Len(p)
  BY <1>1, <1>2, <1>3
<1>6. ASSUME NEW i \in 1..(Len(o) + Len(p))
      PROVE  (Append(o, Head(p)) \o Tail(p))[i] = (o \o p)[i]
  <2>1. CASE i <= Len(o)
    BY <1>1, <1>2, <1>3, <2>1
  <2>2. CASE i = Len(o) + 1
    BY <1>1, <1>2, <1>3, <2>2
  <2>3. CASE i > Len(o) + 1
    <3>1. (Append(o, Head(p)) \o Tail(p))[i] = Tail(p)[i - (Len(o) + 1)]
      BY <1>1, <1>2, <1>3, <2>3
    <3>2. i - (Len(o) + 1) \in 1..(Len(p) - 1)
      BY <1>1, <2>3
    <3>3. Tail(p)[i - (Len(o) + 1)] = p[i - (Len(o) + 1) + 1]
      BY <3>2, <1>1, <1>2
    <3>4. (o \o p)[i] = p[i - Len(o)]
      BY <1>1, <2>3
    <3>5. i - (Len(o) + 1) + 1 = i - Len(o)
      BY <1>1
    <3> QED BY <3>1, <3>3, <3>4, <3>5
  <2> QED BY <1>1, <2>1, <2>2, <2>3
<1>7. Len(o) + Len(p) \in Nat
  BY <1>1
<1> DEFINE a == Append(o, Head(p)) \o Tail(p)
           b == o \o p
<1>8. a \in Seq(Nat) /\ b \in Seq(Nat) /\ Len(a) = Len(o) + Len(p) /\ Len(b) = Len(o) + Len(p)
  BY <1>4, <1>5
<1>9. \A i \in 1..(Len(o) + Len(p)) : a[i] = b[i]
  BY <1>6
<1> HIDE DEF a, b
<1>10. a = b
  BY <1>7, <1>8, <1>9, SameElements
<1> QED BY <1>10 DEF a, b

(* The queues hold numbers.                                                *)
LEMMA TypesOfQueues ==
  ASSUME IInv
  PROVE  output \in Seq(Nat) /\ batch \in Seq(Nat) /\ queue \in Seq(Nat)
<1>1. messages \in Seq(Loggers \X (1..MaxLogs))
  BY DEF IInv, TypeOK
<1>2. Len(messages) \in Nat
  BY <1>1
<1>3. /\ output \in Seq(1..Len(messages)) /\ batch \in Seq(1..Len(messages))
      /\ queue \in Seq(1..Len(messages))
  BY DEF IInv, TypeOK, MessageIds
<1> QED BY <1>2, <1>3

(* Every step keeps the account.                                           *)
LEMMA AccountStep == IInv /\ Accounted /\ [Next]_vars => Accounted'
<1> SUFFICES ASSUME IInv, Accounted, [Next]_vars, worker' # "done"
             PROVE  (output \o Pending)' = AllMessages'
  BY DEF Accounted
<1>m. messages \in Seq(Loggers \X (1..MaxLogs)) /\ Len(messages) \in Nat
  <2>1. messages \in Seq(Loggers \X (1..MaxLogs))
    BY DEF IInv, TypeOK
  <2> QED BY <2>1
<1>t. output \in Seq(Nat) /\ batch \in Seq(Nat) /\ queue \in Seq(Nat)
  BY TypesOfQueues
<1>p. Pending \in Seq(Nat)
  BY <1>t DEF Pending
<1>u. ASSUME UNCHANGED <<output, batch, queue, messages>>, worker # "done"
      PROVE  (output \o Pending)' = AllMessages'
  BY <1>u DEF Accounted, Pending, AllMessages
<1>1. ASSUME NEW t \in Loggers, LogQueues(t), worker # "done"
      PROVE  (output \o Pending)' = AllMessages'
  <2>1. Len(messages') = Len(messages) + 1
    BY <1>1, <1>m DEF LogQueues
  <2>2. /\ queue' = Append(queue, Len(messages) + 1)
        /\ UNCHANGED <<batch, output>>
    BY <1>1, <2>1 DEF LogQueues, outputs
  <2>n. Len(messages) + 1 \in Nat
    BY <1>m
  <2>3. Pending' = Append(Pending, Len(messages) + 1)
    BY <2>2, <2>n, <1>t, AppendKeeps, Zenon DEF Pending
  <2>4. output \o Append(Pending, Len(messages) + 1) = Append(output \o Pending, Len(messages) + 1)
    BY <2>n, <1>t, <1>p, AppendKeeps, Zenon
  <2>5. Append(AllMessages, Len(messages) + 1) = AllMessages'
    BY <2>1, <1>m, NextMessage DEF AllMessages
  <2> QED BY <2>2, <2>3, <2>4, <2>5, <1>1 DEF Accounted
<1>2. CASE WorkerTakes
  <2>1. batch = <<>> /\ batch' = queue /\ queue' = <<>> /\ UNCHANGED <<output, messages>>
        /\ worker # "done"
    BY <1>2 DEF WorkerTakes, LeftBehind, outputs, IInv, StopInOrder
  <2>2. Pending' = Pending
    <3>1. <<>> \o queue = queue /\ queue \o <<>> = queue
      BY <1>t
    <3> QED BY <3>1, <2>1 DEF Pending
  <2> QED BY <2>1, <2>2 DEF Accounted, AllMessages
<1>3. CASE WorkerWrites
  <2>1. /\ output' = Append(output, Head(batch)) /\ batch' = Tail(batch)
        /\ UNCHANGED <<queue, messages>> /\ worker # "done" /\ batch # <<>>
    BY <1>3 DEF WorkerWrites, IInv, TypeOK
  <2>2. Pending # <<>> /\ Head(Pending) = Head(batch) /\ Pending' = Tail(Pending)
    BY <2>1, <1>t, HeadAndTail DEF Pending
  <2>3. Append(output, Head(Pending)) \o Tail(Pending) = output \o Pending
    BY <2>2, <1>t, <1>p, WriteMoves
  <2>4. (output \o Pending)' = output \o Pending
    BY <2>1, <2>2, <2>3
  <2>5. AllMessages' = AllMessages
    BY <2>1 DEF AllMessages
  <2> QED BY <2>1, <2>4, <2>5 DEF Accounted
<1>4. CASE Start
  <2>1. queue = <<>> /\ queue' = <<>> /\ UNCHANGED <<output, batch, messages>> /\ worker # "done"
    BY <1>4 DEF Start, outputs, IInv, StopInOrder
  <2> QED BY <2>1, <1>u
<1>5. CASE worker = "done"
  <2>1. worker' = "done" \/ Start \/ WorkerTakes \/ WorkerWrites \/ WorkerFindsNothing
        \/ WorkerBlocks \/ WokenSpuriously
    BY <1>5 DEF Next, LogStep, StopStep, WorkerStep, LogCalled, LogPrints, LogQueues, LogNotifies,
       Wake, Stop, StopNothing, StopNotifies, StopJoinsWorker, StopJoinsPipe, StopClears, StopEnds,
       WorkerExits, PipeMade, PipeReturns, threadVars, vars
  <2>2. ~ (Start \/ WorkerTakes \/ WorkerWrites \/ WorkerFindsNothing \/ WorkerBlocks
           \/ WokenSpuriously)
    BY <1>5 DEF Start, WorkerTakes, WorkerWrites, WorkerFindsNothing, WorkerBlocks, WokenSpuriously
  <2> QED BY <2>1, <2>2
<1>6. ASSUME NEW t \in Loggers, LogCalled(t) \/ LogPrints(t) \/ LogNotifies(t), worker # "done"
      PROVE  (output \o Pending)' = AllMessages'
  BY <1>6, <1>u DEF LogCalled, LogPrints, LogNotifies, outputs
<1>7. CASE StopClears
  <2>1. worker = "done"
    BY <1>7 DEF StopClears, IInv, StopInOrder
  <2> QED BY <2>1, <1>5
<1>8. CASE /\ worker # "done"
           /\ \/ Stop \/ StopNothing \/ StopNotifies \/ StopJoinsWorker \/ StopJoinsPipe \/ StopEnds
              \/ WorkerExits \/ WorkerFindsNothing \/ WorkerBlocks \/ WokenSpuriously
              \/ PipeMade \/ PipeReturns \/ UNCHANGED vars
  BY <1>8, <1>u DEF Stop, StopNothing, StopNotifies, StopJoinsWorker, StopJoinsPipe, StopEnds,
     WorkerExits, WorkerFindsNothing, WorkerBlocks, WokenSpuriously, PipeMade, PipeReturns, outputs,
     vars
<1> QED BY <1>1, <1>2, <1>3, <1>4, <1>5, <1>6, <1>7, <1>8
         DEF Next, LogStep, StopStep, WorkerStep

(* The account holds until the worker ends.                                *)
LEMMA AccountAlways == SafetySpec => []Accounted
<1>1. Init => Accounted
  BY DEF Init, Accounted, Pending, AllMessages
<1> QED BY <1>1, AccountStep, Invariance, PTL DEF SafetySpec

(* The safety half of StopFlushes: when the worker ends, the output is     *)
(* every message that any thread has queued, each exactly once, in the     *)
(* order of queueing.                                                      *)
THEOREM WorkerEndsComplete == SafetySpec => [][WorkerExits => output = AllMessages]_vars
<1>1. ASSUME IInv, Accounted, WorkerExits
      PROVE  output = AllMessages
  <2>1. queue = <<>> /\ batch = <<>> /\ worker # "done"
    BY <1>1 DEF WorkerExits, Exits, IInv, StopInOrder
  <2>2. output \in Seq(Nat)
    BY <1>1, TypesOfQueues
  <2>3. output \o Pending = output
    BY <2>1, <2>2 DEF Pending
  <2> QED BY <2>1, <2>3, <1>1 DEF Accounted
<1>2. IInv /\ Accounted /\ [Next]_vars => [WorkerExits => output = AllMessages]_vars
  BY <1>1
<1> QED BY <1>2, Invariance, AccountAlways, PTL DEF SafetySpec
=============================================================================
