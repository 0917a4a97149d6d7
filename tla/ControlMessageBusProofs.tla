---------------------- MODULE ControlMessageBusProofs ----------------------
(***************************************************************************)
(* Proofs about the control message bus, for any set of message types and  *)
(* any bounds.                                                             *)
(***************************************************************************)
EXTENDS ControlMessageBus, TLAPS

(* The inductive invariant.  The properties speak of a registered, taken   *)
(* or resumed wait; to carry them through the steps one has to know what   *)
(* the awaiter holds before it is resumed and how much of what was         *)
(* delivered is still in the buffers.                                      *)

Undecided ==
  message = 0 /\ ~ timedOut /\ ~ cancelled

Decided ==
  \/ message # 0 /\ ~ timedOut /\ ~ cancelled
  \/ message = 0 /\ timedOut /\ ~ cancelled
  \/ message = 0 /\ ~ timedOut /\ cancelled

(* What the awaiter holds at each point of a wait.                         *)
Outcomes ==
  /\ pc \in {"suspending", "registering"} => Undecided
  /\ pc = "suspended" /\ resumers = {} => Undecided
  /\ pc = "suspended" /\ resumers # {} => Decided
  /\ pc = "resumed" => Decided

(* There is an awaiter while the coroutine waits, and the timer thread has *)
(* the coroutine only after it set timedOut.                               *)
TimerThread ==
  /\ pc \in {"suspending", "registering", "suspended"} => waitNo > 0
  /\ timer = "running" => waitNo > 0
  /\ "timer" \in resumers => timer = "resuming" /\ timedOut
  /\ host = "timer" => timedOut /\ pc \in {"resumed", "destroying"}
  /\ timer = "resuming" => pc \in {"suspended", "resumed", "destroying"}
  /\ timer = "resuming" /\ pc = "suspended" => resumers # {}

Control == HeldOnce /\ NoLostWakeup /\ AwaiterAlive /\ Outcomes /\ TimerThread

(* The messages of type t that are no longer in the bus are 1..Taken(t).   *)
Taken(t) == delivered[t] - Len(bufferedMessages[t])

InHand(t) ==
  type = t /\ message # 0 /\ pc \in {"suspended", "resumed"}

OrderOf(t) ==
  /\ Len(bufferedMessages[t]) <= delivered[t]
  /\ \A i \in 1..Len(bufferedMessages[t]) : bufferedMessages[t][i] = Taken(t) + i
  /\ runStart[t] <= dropped[t]
  /\ dropped[t] <= Taken(t)
  /\ returned[t] <= Taken(t)
  /\ Taken(t) <= returned[t] \/ Taken(t) <= dropped[t] \/ InHand(t)
  /\ InHand(t) =>
       /\ message > returned[t]
       /\ message > runStart[t]
       /\ message <= Taken(t)
       /\ message - 1 <= returned[t] \/ message - 1 <= dropped[t]
       /\ Taken(t) <= message \/ Taken(t) <= dropped[t]

Order == \A t \in Types : OrderOf(t)

IInv == TypeOK /\ Control /\ Order
-----------------------------------------------------------------------------
(* The assumptions on the constants are used everywhere.                   *)
USE TypesAssumption, BoundsAssumption

(* The empty maps, and queues with a message more or less.                 *)
LEMMA MapTypes ==
  /\ NoWaits \in [Types -> Nat]
  /\ NoMessages \in [Types -> Seq(Nat)]
BY DEF NoWaits, NoMessages

(* Every step of the bus keeps every variable in its type.                 *)
LEMMA TypeStep == TypeOK /\ [Next]_vars => TypeOK'
<1> SUFFICES ASSUME TypeOK, [Next]_vars PROVE TypeOK'
  OBVIOUS
<1> USE DEF TypeOK, busVars, awaiterVars, outcome, runVars, history
<1>1. ASSUME NEW t \in Types, NEW b \in BOOLEAN, WaitTakesBuffered(t, b) PROVE TypeOK'
  <2>1. BusTypes'
    BY <1>1 DEF BusTypes, WaitTakesBuffered, ConstructAwaiter
  <2>2. WaitTypes'
    <3>1. message' \in Nat
      BY <1>1 DEF BusTypes, WaitTakesBuffered, FrontMessage
    <3>2. timed' \in BOOLEAN /\ waitNo' \in Nat
      BY <1>1 DEF WaitTypes, WaitTakesBuffered, ConstructAwaiter
    <3>3. QED
      BY <1>1, <3>1, <3>2
      DEF WaitTypes, PCs, TimerStates, WaitTakesBuffered, ConstructAwaiter
  <2>3. HistoryTypes'
    BY <1>1 DEF WaitTypes, HistoryTypes, WaitTakesBuffered, FrontMessage, ConstructAwaiter
  <2>4. QED
    BY <2>1, <2>2, <2>3
<1>2. ASSUME NEW t \in Types, NEW b \in BOOLEAN, WaitFindsNone(t, b) PROVE TypeOK'
  <2>1. BusTypes'
    BY <1>2 DEF BusTypes, WaitTypes, HistoryTypes, WaitFindsNone, ConstructAwaiter
  <2>2. WaitTypes'
    <3>1. timed' \in BOOLEAN /\ waitNo' \in Nat
      BY <1>2 DEF WaitTypes, WaitFindsNone, ConstructAwaiter
    <3>2. QED
      BY <1>2, <3>1 DEF WaitTypes, PCs, TimerStates, WaitFindsNone, ConstructAwaiter
  <2>3. HistoryTypes'
    BY <1>2 DEF WaitTypes, HistoryTypes, WaitFindsNone, ConstructAwaiter
  <2>4. QED
    BY <2>1, <2>2, <2>3
<1>3. CASE StartTimer
  <2>1. BusTypes'
    BY <1>3 DEF BusTypes, WaitTypes, HistoryTypes, StartTimer
  <2>2. WaitTypes'
    BY <1>3 DEF BusTypes, WaitTypes, HistoryTypes, PCs, TimerStates, Threads, StartTimer
  <2>3. HistoryTypes'
    BY <1>3 DEF WaitTypes, HistoryTypes, StartTimer
  <2>4. QED
    BY <2>1, <2>2, <2>3
<1>4. CASE TakeArrived
  <2>1. BusTypes'
    BY <1>4 DEF BusTypes, WaitTypes, HistoryTypes, TakeArrived, FrontMessage, ArrivedMeanwhile
  <2>2. WaitTypes'
    BY <1>4 DEF BusTypes, WaitTypes, HistoryTypes, PCs, TimerStates, Threads, TakeArrived,
       FrontMessage, ArrivedMeanwhile
  <2>3. HistoryTypes'
    BY <1>4 DEF WaitTypes, HistoryTypes, TakeArrived, FrontMessage, ArrivedMeanwhile
  <2>4. QED
    BY <2>1, <2>2, <2>3
<1>5. CASE RegisterWait
  <2>1. BusTypes'
    BY <1>5 DEF BusTypes, WaitTypes, HistoryTypes, RegisterWait
  <2>2. WaitTypes'
    BY <1>5 DEF BusTypes, WaitTypes, HistoryTypes, PCs, TimerStates, Threads, RegisterWait
  <2>3. HistoryTypes'
    BY <1>5 DEF WaitTypes, HistoryTypes, RegisterWait
  <2>4. QED
    BY <2>1, <2>2, <2>3
<1>6. CASE AwaitResume
  <2>1. BusTypes'
    BY <1>6 DEF BusTypes, WaitTypes, HistoryTypes, AwaitResume
  <2>2. WaitTypes'
    BY <1>6 DEF BusTypes, WaitTypes, HistoryTypes, PCs, TimerStates, Threads, AwaitResume
  <2>3. HistoryTypes'
    BY <1>6 DEF WaitTypes, HistoryTypes, AwaitResume
  <2>4. QED
    BY <2>1, <2>2, <2>3
<1>7. CASE DestroyAwaiter
  <2>1. BusTypes'
    BY <1>7 DEF BusTypes, WaitTypes, HistoryTypes, DestroyAwaiter
  <2>2. WaitTypes'
    BY <1>7 DEF BusTypes, WaitTypes, HistoryTypes, PCs, TimerStates, Threads, DestroyAwaiter
  <2>3. HistoryTypes'
    BY <1>7 DEF WaitTypes, HistoryTypes, DestroyAwaiter
  <2>4. QED
    BY <2>1, <2>2, <2>3
<1>8. CASE SessionCode
  <2>1. BusTypes'
    BY <1>8 DEF BusTypes, WaitTypes, HistoryTypes, SessionCode
  <2>2. WaitTypes'
    BY <1>8 DEF BusTypes, WaitTypes, HistoryTypes, PCs, TimerStates, Threads, SessionCode
  <2>3. HistoryTypes'
    BY <1>8 DEF WaitTypes, HistoryTypes, SessionCode
  <2>4. QED
    BY <2>1, <2>2, <2>3
<1>9. ASSUME NEW t \in Types, BufferMessage(t) PROVE TypeOK'
  <2>1. BusTypes'
    <3>1. delivered[t] + 1 \in Nat
      BY DEF HistoryTypes
    <3>2. QED
      BY <1>9, <3>1 DEF BusTypes, BufferMessage
  <2>2. WaitTypes'
    BY <1>9 DEF BusTypes, WaitTypes, HistoryTypes, PCs, TimerStates, Threads, BufferMessage,
       MessageArrives
  <2>3. HistoryTypes'
    BY <1>9, SMTT(30) DEF WaitTypes, HistoryTypes, BufferMessage, MessageArrives
  <2>4. QED
    BY <2>1, <2>2, <2>3
<1>10. ASSUME NEW t \in Types, HandOver(t) PROVE TypeOK'
  <2>1. BusTypes'
    BY <1>10 DEF BusTypes, WaitTypes, HistoryTypes, HandOver, MessageArrives
  <2>2. WaitTypes'
    <3>1. message' \in Nat
      BY <1>10 DEF HistoryTypes, HandOver
    <3>2. resumers' \in SUBSET Threads
      BY <1>10 DEF WaitTypes, HandOver, Threads
    <3>3. QED
      BY <1>10, <3>1, <3>2 DEF WaitTypes, HandOver, MessageArrives
  <2>3. HistoryTypes'
    BY <1>10 DEF WaitTypes, HistoryTypes, HandOver, MessageArrives
  <2>4. QED
    BY <2>1, <2>2, <2>3
<1>11. CASE TimerTimesOut
  <2>1. BusTypes'
    BY <1>11 DEF BusTypes, WaitTypes, HistoryTypes, TimerTimesOut
  <2>2. WaitTypes'
    BY <1>11 DEF BusTypes, WaitTypes, HistoryTypes, PCs, TimerStates, Threads, TimerTimesOut
  <2>3. HistoryTypes'
    BY <1>11 DEF WaitTypes, HistoryTypes, TimerTimesOut
  <2>4. QED
    BY <2>1, <2>2, <2>3
<1>12. CASE TimerFindsNothing
  <2>1. BusTypes'
    BY <1>12 DEF BusTypes, WaitTypes, HistoryTypes, TimerFindsNothing
  <2>2. WaitTypes'
    BY <1>12 DEF BusTypes, WaitTypes, HistoryTypes, PCs, TimerStates, Threads, TimerFindsNothing
  <2>3. HistoryTypes'
    BY <1>12 DEF WaitTypes, HistoryTypes, TimerFindsNothing
  <2>4. QED
    BY <2>1, <2>2, <2>3
<1>13. CASE TimerCancelled
  <2>1. BusTypes'
    BY <1>13 DEF BusTypes, WaitTypes, HistoryTypes, TimerCancelled
  <2>2. WaitTypes'
    BY <1>13 DEF BusTypes, WaitTypes, HistoryTypes, PCs, TimerStates, Threads, TimerCancelled
  <2>3. HistoryTypes'
    BY <1>13 DEF WaitTypes, HistoryTypes, TimerCancelled
  <2>4. QED
    BY <2>1, <2>2, <2>3
<1>14. CASE CancelRegistered
  <2>1. BusTypes'
    BY <1>14, MapTypes DEF BusTypes, WaitTypes, HistoryTypes, CancelRegistered, EmptyBus,
       DeregisterAll
  <2>2. WaitTypes'
    BY <1>14 DEF BusTypes, WaitTypes, HistoryTypes, PCs, TimerStates, Threads,
       CancelRegistered, EmptyBus, DeregisterAll
  <2>3. HistoryTypes'
    BY <1>14 DEF WaitTypes, HistoryTypes, CancelRegistered, EmptyBus, DeregisterAll
  <2>4. QED
    BY <2>1, <2>2, <2>3
<1>15. CASE CancelNothing
  <2>1. BusTypes'
    BY <1>15, MapTypes DEF BusTypes, WaitTypes, HistoryTypes, CancelNothing, EmptyBus,
       DeregisterAll
  <2>2. WaitTypes'
    BY <1>15 DEF BusTypes, WaitTypes, HistoryTypes, PCs, TimerStates, Threads, CancelNothing,
       EmptyBus, DeregisterAll
  <2>3. HistoryTypes'
    BY <1>15 DEF WaitTypes, HistoryTypes, CancelNothing, EmptyBus, DeregisterAll
  <2>4. QED
    BY <2>1, <2>2, <2>3
<1>16. ASSUME NEW th \in Threads, Resume(th) PROVE TypeOK'
  <2>1. BusTypes'
    BY <1>16 DEF BusTypes, WaitTypes, HistoryTypes, Resume
  <2>2. WaitTypes'
    BY <1>16 DEF BusTypes, WaitTypes, HistoryTypes, PCs, TimerStates, Threads, Resume
  <2>3. HistoryTypes'
    BY <1>16 DEF WaitTypes, HistoryTypes, Resume
  <2>4. QED
    BY <2>1, <2>2, <2>3
<1>17. CASE Clear
  <2>1. BusTypes'
    BY <1>17, MapTypes DEF BusTypes, WaitTypes, HistoryTypes, Clear, ClearedBuffer
  <2>2. WaitTypes'
    BY <1>17 DEF BusTypes, WaitTypes, HistoryTypes, PCs, TimerStates, Threads, Clear,
       ClearedBuffer
  <2>3. HistoryTypes'
    <3>1. runs' \in Nat
      BY <1>17 DEF HistoryTypes, Clear
    <3>2. /\ stopped' \in BOOLEAN
          /\ dropped' \in [Types -> Nat]
          /\ runStart' \in [Types -> Nat]
      BY <1>17 DEF HistoryTypes, Clear
    <3>3. QED
      BY <1>17, <3>1, <3>2 DEF HistoryTypes, Clear
  <2>4. QED
    BY <2>1, <2>2, <2>3
<1>18. CASE StartRun
  <2>1. BusTypes'
    BY <1>18 DEF BusTypes, WaitTypes, HistoryTypes, StartRun
  <2>2. WaitTypes'
    BY <1>18 DEF BusTypes, WaitTypes, HistoryTypes, PCs, TimerStates, Threads, StartRun
  <2>3. HistoryTypes'
    BY <1>18 DEF WaitTypes, HistoryTypes, StartRun
  <2>4. QED
    BY <2>1, <2>2, <2>3
<1>19. CASE UNCHANGED vars
  BY <1>19 DEF vars, BusTypes, WaitTypes, HistoryTypes
<1>20. QED
  BY <1>1, <1>2, <1>3, <1>4, <1>5, <1>6, <1>7, <1>8, <1>9, <1>10, <1>11, <1>12, <1>13, <1>14,
     <1>15, <1>16, <1>17, <1>18, <1>19
     DEF Next, WaitFor, RegisterOrTake, Deliver, TimerExpire, CancelAll

(* The message at the head of a queue is the first one not yet taken.      *)
LEMMA FrontIsNext ==
  ASSUME TypeOK, NEW t \in Types, OrderOf(t), bufferedMessages[t] # <<>>
  PROVE  /\ FrontMessage(t) = Taken(t) + 1
         /\ FrontMessage(t) \in Nat \ {0}
<1>1. Len(bufferedMessages[t]) \in Nat /\ Len(bufferedMessages[t]) >= 1
  BY DEF TypeOK, BusTypes
<1>2. Head(bufferedMessages[t]) = bufferedMessages[t][1]
  BY DEF TypeOK, BusTypes
<1>3. bufferedMessages[t][1] = Taken(t) + 1
  BY <1>1 DEF OrderOf
<1>4. Taken(t) \in Nat
  BY <1>1 DEF OrderOf, Taken, TypeOK, HistoryTypes
<1>5. QED
  BY <1>2, <1>3, <1>4 DEF FrontMessage

(* Every step keeps the control part of the invariant.                     *)
LEMMA ControlStep == IInv /\ [Next]_vars => Control'
<1> SUFFICES ASSUME TypeOK, Control, Order, [Next]_vars PROVE Control'
  BY DEF IInv
<1> USE DEF busVars, awaiterVars, outcome, runVars, history
<1>1. ASSUME NEW t \in Types, NEW b \in BOOLEAN, WaitTakesBuffered(t, b) PROVE Control'
  <2>1. HeldOnce'
    BY <1>1 DEF TypeOK, Control, HeldOnce, AwaiterAlive, TimerThread, Registered, WaitTypes,
       WaitTakesBuffered, ConstructAwaiter
  <2>2. NoLostWakeup'
    BY <1>1 DEF TypeOK, Control, NoLostWakeup, AwaiterAlive, Registered, BusTypes, WaitTypes,
       WaitTakesBuffered, ConstructAwaiter
  <2>3. AwaiterAlive'
    BY <1>1 DEF TypeOK, Control, AwaiterAlive, TimerThread, HeldOnce, Registered, WaitTypes,
       WaitTakesBuffered, ConstructAwaiter
  <2>4. Outcomes'
    BY <1>1, FrontIsNext DEF TypeOK, Control, Outcomes, HeldOnce, AwaiterAlive, Decided,
       Undecided, Registered, WaitTypes, Order, WaitTakesBuffered, ConstructAwaiter
  <2>5. TimerThread'
    BY <1>1 DEF TypeOK, Control, TimerThread, HeldOnce, AwaiterAlive, Registered, WaitTypes,
       WaitTakesBuffered, ConstructAwaiter
  <2>6. QED
    BY <2>1, <2>2, <2>3, <2>4, <2>5 DEF Control
<1>2. ASSUME NEW t \in Types, NEW b \in BOOLEAN, WaitFindsNone(t, b) PROVE Control'
  <2>1. HeldOnce'
    BY <1>2 DEF TypeOK, Control, HeldOnce, AwaiterAlive, TimerThread, Registered, WaitTypes,
       WaitFindsNone, ConstructAwaiter
  <2>2. NoLostWakeup'
    BY <1>2 DEF TypeOK, Control, NoLostWakeup, AwaiterAlive, Registered, BusTypes, WaitTypes,
       WaitFindsNone, ConstructAwaiter
  <2>3. AwaiterAlive'
    BY <1>2 DEF TypeOK, Control, AwaiterAlive, TimerThread, HeldOnce, Registered, WaitTypes,
       WaitFindsNone, ConstructAwaiter
  <2>4. Outcomes'
    BY <1>2 DEF TypeOK, Control, Outcomes, HeldOnce, AwaiterAlive, Decided, Undecided,
       Registered, WaitTypes, WaitFindsNone, ConstructAwaiter
  <2>5. TimerThread'
    BY <1>2 DEF TypeOK, Control, TimerThread, HeldOnce, AwaiterAlive, Registered, WaitTypes,
       WaitFindsNone, ConstructAwaiter
  <2>6. QED
    BY <2>1, <2>2, <2>3, <2>4, <2>5 DEF Control
<1>3. CASE StartTimer
  <2>1. HeldOnce'
    BY <1>3 DEF TypeOK, Control, HeldOnce, AwaiterAlive, TimerThread, Registered, WaitTypes,
       StartTimer
  <2>2. NoLostWakeup'
    BY <1>3 DEF TypeOK, Control, NoLostWakeup, AwaiterAlive, Registered, BusTypes, WaitTypes,
       StartTimer
  <2>3. AwaiterAlive'
    BY <1>3 DEF TypeOK, Control, AwaiterAlive, TimerThread, HeldOnce, Registered, WaitTypes,
       StartTimer
  <2>4. Outcomes'
    BY <1>3 DEF TypeOK, Control, Outcomes, HeldOnce, AwaiterAlive, Decided, Undecided,
       Registered, WaitTypes, StartTimer
  <2>5. TimerThread'
    BY <1>3 DEF TypeOK, Control, TimerThread, HeldOnce, AwaiterAlive, Registered, WaitTypes,
       StartTimer
  <2>6. QED
    BY <2>1, <2>2, <2>3, <2>4, <2>5 DEF Control
<1>4. CASE TakeArrived
  <2>1. HeldOnce'
    BY <1>4 DEF TypeOK, Control, HeldOnce, AwaiterAlive, TimerThread, Registered, WaitTypes,
       TakeArrived, ArrivedMeanwhile
  <2>2. NoLostWakeup'
    BY <1>4 DEF TypeOK, Control, NoLostWakeup, AwaiterAlive, Registered, BusTypes, WaitTypes,
       TakeArrived, ArrivedMeanwhile
  <2>3. AwaiterAlive'
    BY <1>4 DEF TypeOK, Control, AwaiterAlive, TimerThread, HeldOnce, Registered, WaitTypes,
       TakeArrived, ArrivedMeanwhile
  <2>4. Outcomes'
    BY <1>4, FrontIsNext DEF TypeOK, Control, Outcomes, HeldOnce, AwaiterAlive, Decided,
       Undecided, Registered, WaitTypes, Order, TakeArrived, ArrivedMeanwhile
  <2>5. TimerThread'
    BY <1>4 DEF TypeOK, Control, TimerThread, HeldOnce, AwaiterAlive, Registered, WaitTypes,
       TakeArrived, ArrivedMeanwhile
  <2>6. QED
    BY <2>1, <2>2, <2>3, <2>4, <2>5 DEF Control
<1>5. CASE RegisterWait
  <2>1. HeldOnce'
    BY <1>5 DEF TypeOK, Control, HeldOnce, TimerThread, Registered, BusTypes, WaitTypes,
       RegisterWait
  <2>2. NoLostWakeup'
    BY <1>5 DEF TypeOK, Control, NoLostWakeup, AwaiterAlive, Registered, BusTypes, WaitTypes,
       RegisterWait, ArrivedMeanwhile
  <2>3. AwaiterAlive'
    BY <1>5 DEF TypeOK, Control, AwaiterAlive, TimerThread, HeldOnce, Registered, WaitTypes,
       RegisterWait, ArrivedMeanwhile
  <2>4. Outcomes'
    BY <1>5 DEF TypeOK, Control, Outcomes, HeldOnce, AwaiterAlive, Decided, Undecided,
       Registered, WaitTypes, RegisterWait, ArrivedMeanwhile
  <2>5. TimerThread'
    BY <1>5 DEF TypeOK, Control, TimerThread, HeldOnce, AwaiterAlive, Registered, WaitTypes,
       RegisterWait, ArrivedMeanwhile
  <2>6. QED
    BY <2>1, <2>2, <2>3, <2>4, <2>5 DEF Control
<1>6. CASE AwaitResume
  <2>1. HeldOnce'
    BY <1>6 DEF TypeOK, Control, HeldOnce, AwaiterAlive, TimerThread, Registered, WaitTypes,
       AwaitResume
  <2>2. NoLostWakeup'
    BY <1>6 DEF TypeOK, Control, NoLostWakeup, AwaiterAlive, Registered, BusTypes, WaitTypes,
       AwaitResume
  <2>3. AwaiterAlive'
    BY <1>6 DEF TypeOK, Control, AwaiterAlive, TimerThread, HeldOnce, Registered, WaitTypes,
       AwaitResume
  <2>4. Outcomes'
    BY <1>6 DEF TypeOK, Control, Outcomes, HeldOnce, AwaiterAlive, Decided, Undecided,
       Registered, WaitTypes, AwaitResume
  <2>5. TimerThread'
    BY <1>6 DEF TypeOK, Control, TimerThread, HeldOnce, AwaiterAlive, Registered, WaitTypes,
       AwaitResume
  <2>6. QED
    BY <2>1, <2>2, <2>3, <2>4, <2>5 DEF Control
<1>7. CASE DestroyAwaiter
  <2>1. HeldOnce'
    BY <1>7 DEF TypeOK, Control, HeldOnce, AwaiterAlive, TimerThread, Registered, WaitTypes,
       DestroyAwaiter, TimerThreadReleased
  <2>2. NoLostWakeup'
    BY <1>7 DEF TypeOK, Control, NoLostWakeup, AwaiterAlive, Registered, BusTypes, WaitTypes,
       DestroyAwaiter, TimerThreadReleased
  <2>3. AwaiterAlive'
    BY <1>7 DEF TypeOK, Control, AwaiterAlive, TimerThread, HeldOnce, Registered, WaitTypes,
       DestroyAwaiter, TimerThreadReleased
  <2>4. Outcomes'
    BY <1>7 DEF TypeOK, Control, Outcomes, HeldOnce, AwaiterAlive, Decided, Undecided,
       Registered, WaitTypes, DestroyAwaiter, TimerThreadReleased
  <2>5. TimerThread'
    BY <1>7 DEF TypeOK, Control, TimerThread, HeldOnce, AwaiterAlive, Registered, WaitTypes,
       DestroyAwaiter, TimerThreadReleased
  <2>6. QED
    BY <2>1, <2>2, <2>3, <2>4, <2>5 DEF Control
<1>8. CASE SessionCode
  <2>1. HeldOnce'
    BY <1>8 DEF TypeOK, Control, HeldOnce, AwaiterAlive, TimerThread, Registered, WaitTypes,
       SessionCode
  <2>2. NoLostWakeup'
    BY <1>8 DEF TypeOK, Control, NoLostWakeup, AwaiterAlive, Registered, BusTypes, WaitTypes,
       SessionCode
  <2>3. AwaiterAlive'
    BY <1>8 DEF TypeOK, Control, AwaiterAlive, TimerThread, HeldOnce, Registered, WaitTypes,
       SessionCode
  <2>4. Outcomes'
    BY <1>8 DEF TypeOK, Control, Outcomes, HeldOnce, AwaiterAlive, Decided, Undecided,
       Registered, WaitTypes, SessionCode
  <2>5. TimerThread'
    BY <1>8 DEF TypeOK, Control, TimerThread, HeldOnce, AwaiterAlive, Registered, WaitTypes,
       SessionCode
  <2>6. QED
    BY <2>1, <2>2, <2>3, <2>4, <2>5 DEF Control
<1>9. ASSUME NEW t \in Types, BufferMessage(t) PROVE Control'
  <2>1. HeldOnce'
    BY <1>9 DEF TypeOK, Control, HeldOnce, AwaiterAlive, TimerThread, Registered, WaitTypes,
       BufferMessage, MessageArrives
  <2>2. NoLostWakeup'
    BY <1>9 DEF TypeOK, Control, NoLostWakeup, AwaiterAlive, Registered, BusTypes, WaitTypes,
       BufferMessage, MessageArrives
  <2>3. AwaiterAlive'
    BY <1>9 DEF TypeOK, Control, AwaiterAlive, TimerThread, HeldOnce, Registered, WaitTypes,
       BufferMessage, MessageArrives
  <2>4. Outcomes'
    BY <1>9 DEF TypeOK, Control, Outcomes, HeldOnce, AwaiterAlive, Decided, Undecided,
       Registered, WaitTypes, BufferMessage, MessageArrives
  <2>5. TimerThread'
    BY <1>9 DEF TypeOK, Control, TimerThread, HeldOnce, AwaiterAlive, Registered, WaitTypes,
       BufferMessage, MessageArrives
  <2>6. QED
    BY <2>1, <2>2, <2>3, <2>4, <2>5 DEF Control
<1>10. ASSUME NEW t \in Types, HandOver(t) PROVE Control'
  <2> t = type /\ pc = "suspended" /\ resumers = {}
    BY <1>10 DEF Control, HeldOnce, AwaiterAlive, HandOver
  <2>1. HeldOnce'
    BY <1>10 DEF TypeOK, BusTypes, HeldOnce, Registered, HandOver, MessageArrives
  <2>2. NoLostWakeup'
    BY <1>10 DEF TypeOK, Control, NoLostWakeup, AwaiterAlive, Registered, BusTypes, WaitTypes,
       HandOver, MessageArrives
  <2>3. AwaiterAlive'
    BY <1>10 DEF TypeOK, Control, AwaiterAlive, TimerThread, HeldOnce, Registered, WaitTypes,
       HandOver, MessageArrives
  <2>4. Outcomes'
    <3>1. message' # 0
      BY <1>10 DEF TypeOK, HistoryTypes, HandOver
    <3>2. QED
      BY <1>10, <3>1 DEF Control, Outcomes, Decided, Undecided, HandOver, MessageArrives
  <2>5. TimerThread'
    BY <1>10 DEF TypeOK, Control, TimerThread, HeldOnce, AwaiterAlive, Registered, WaitTypes,
       HandOver, MessageArrives
  <2>6. QED
    BY <2>1, <2>2, <2>3, <2>4, <2>5 DEF Control
<1>11. CASE TimerTimesOut
  <2>0. Registered(type)
    BY <1>11 DEF TypeOK, WaitTypes, Control, TimerThread, TimerTimesOut, OwnsRegistration,
       Registered
  <2> pc = "suspended" /\ resumers = {}
    BY <2>0 DEF TypeOK, WaitTypes, Control, HeldOnce, AwaiterAlive
  <2>1. HeldOnce'
    BY <1>11 DEF TypeOK, BusTypes, WaitTypes, HeldOnce, Registered, TimerTimesOut
  <2>2. NoLostWakeup'
    BY <1>11 DEF TypeOK, Control, NoLostWakeup, AwaiterAlive, Registered, BusTypes, WaitTypes,
       TimerTimesOut, OwnsRegistration
  <2>3. AwaiterAlive'
    BY <1>11 DEF TypeOK, Control, AwaiterAlive, TimerThread, HeldOnce, Registered, WaitTypes,
       TimerTimesOut, OwnsRegistration
  <2>4. Outcomes'
    BY <1>11 DEF Control, Outcomes, Decided, Undecided, TimerTimesOut
  <2>5. TimerThread'
    BY <1>11 DEF TypeOK, Control, TimerThread, HeldOnce, AwaiterAlive, Registered, WaitTypes,
       TimerTimesOut, OwnsRegistration
  <2>6. QED
    BY <2>1, <2>2, <2>3, <2>4, <2>5 DEF Control
<1>12. CASE TimerFindsNothing
  <2>1. HeldOnce'
    BY <1>12 DEF TypeOK, Control, HeldOnce, AwaiterAlive, TimerThread, Registered, WaitTypes,
       TimerFindsNothing
  <2>2. NoLostWakeup'
    BY <1>12 DEF TypeOK, Control, NoLostWakeup, AwaiterAlive, Registered, BusTypes, WaitTypes,
       TimerFindsNothing
  <2>3. AwaiterAlive'
    BY <1>12 DEF TypeOK, Control, AwaiterAlive, TimerThread, HeldOnce, Registered, WaitTypes,
       TimerFindsNothing
  <2>4. Outcomes'
    BY <1>12 DEF TypeOK, Control, Outcomes, HeldOnce, AwaiterAlive, Decided, Undecided,
       Registered, WaitTypes, TimerFindsNothing
  <2>5. TimerThread'
    BY <1>12 DEF TypeOK, Control, TimerThread, HeldOnce, AwaiterAlive, Registered, WaitTypes,
       TimerFindsNothing
  <2>6. QED
    BY <2>1, <2>2, <2>3, <2>4, <2>5 DEF Control
<1>13. CASE TimerCancelled
  <2>1. HeldOnce'
    BY <1>13 DEF TypeOK, Control, HeldOnce, AwaiterAlive, TimerThread, Registered, WaitTypes,
       TimerCancelled
  <2>2. NoLostWakeup'
    BY <1>13 DEF TypeOK, Control, NoLostWakeup, AwaiterAlive, Registered, BusTypes, WaitTypes,
       TimerCancelled
  <2>3. AwaiterAlive'
    BY <1>13 DEF TypeOK, Control, AwaiterAlive, TimerThread, HeldOnce, Registered, WaitTypes,
       TimerCancelled
  <2>4. Outcomes'
    BY <1>13 DEF TypeOK, Control, Outcomes, HeldOnce, AwaiterAlive, Decided, Undecided,
       Registered, WaitTypes, TimerCancelled
  <2>5. TimerThread'
    BY <1>13 DEF TypeOK, Control, TimerThread, HeldOnce, AwaiterAlive, Registered, WaitTypes,
       TimerCancelled
  <2>6. QED
    BY <2>1, <2>2, <2>3, <2>4, <2>5 DEF Control
<1>14. CASE CancelRegistered
  <2>1. HeldOnce'
    BY <1>14 DEF TypeOK, Control, HeldOnce, AwaiterAlive, TimerThread, Registered, WaitTypes,
       CancelRegistered, EmptyBus, DeregisterAll, NoWaits, NoMessages
  <2>2. NoLostWakeup'
    BY <1>14 DEF TypeOK, Control, NoLostWakeup, AwaiterAlive, Registered, BusTypes, WaitTypes,
       CancelRegistered, EmptyBus, DeregisterAll, NoWaits, NoMessages
  <2>3. AwaiterAlive'
    BY <1>14 DEF TypeOK, Control, AwaiterAlive, TimerThread, HeldOnce, Registered, WaitTypes,
       CancelRegistered, EmptyBus, DeregisterAll, NoWaits, NoMessages
  <2>4. Outcomes'
    BY <1>14 DEF TypeOK, Control, Outcomes, HeldOnce, AwaiterAlive, Decided, Undecided,
       Registered, WaitTypes, CancelRegistered, EmptyBus, DeregisterAll, NoWaits, NoMessages
  <2>5. TimerThread'
    BY <1>14 DEF TypeOK, Control, TimerThread, HeldOnce, AwaiterAlive, Registered, WaitTypes,
       CancelRegistered, EmptyBus, DeregisterAll, NoWaits, NoMessages
  <2>6. QED
    BY <2>1, <2>2, <2>3, <2>4, <2>5 DEF Control
<1>15. CASE CancelNothing
  <2>1. HeldOnce'
    BY <1>15 DEF TypeOK, Control, HeldOnce, AwaiterAlive, TimerThread, Registered, WaitTypes,
       CancelNothing, EmptyBus, DeregisterAll, NoWaits, NoMessages
  <2>2. NoLostWakeup'
    BY <1>15 DEF TypeOK, Control, NoLostWakeup, AwaiterAlive, Registered, BusTypes, WaitTypes,
       CancelNothing, EmptyBus, DeregisterAll, NoWaits, NoMessages
  <2>3. AwaiterAlive'
    BY <1>15 DEF TypeOK, Control, AwaiterAlive, TimerThread, HeldOnce, Registered, WaitTypes,
       CancelNothing, EmptyBus, DeregisterAll, NoWaits, NoMessages
  <2>4. Outcomes'
    BY <1>15 DEF TypeOK, Control, Outcomes, HeldOnce, AwaiterAlive, Decided, Undecided,
       Registered, WaitTypes, CancelNothing, EmptyBus, DeregisterAll, NoWaits, NoMessages
  <2>5. TimerThread'
    BY <1>15 DEF TypeOK, Control, TimerThread, HeldOnce, AwaiterAlive, Registered, WaitTypes,
       CancelNothing, EmptyBus, DeregisterAll, NoWaits, NoMessages
  <2>6. QED
    BY <2>1, <2>2, <2>3, <2>4, <2>5 DEF Control
<1>16. ASSUME NEW th \in Threads, Resume(th) PROVE Control'
  <2>1. HeldOnce'
    BY <1>16 DEF TypeOK, Control, HeldOnce, AwaiterAlive, TimerThread, Registered, WaitTypes,
       Resume
  <2>2. NoLostWakeup'
    BY <1>16 DEF TypeOK, Control, NoLostWakeup, AwaiterAlive, Registered, BusTypes, WaitTypes,
       Resume
  <2>3. AwaiterAlive'
    BY <1>16 DEF TypeOK, Control, AwaiterAlive, TimerThread, HeldOnce, Registered, WaitTypes,
       Resume
  <2>4. Outcomes'
    BY <1>16 DEF TypeOK, Control, Outcomes, HeldOnce, AwaiterAlive, Decided, Undecided,
       Registered, WaitTypes, Resume
  <2>5. TimerThread'
    BY <1>16 DEF TypeOK, Control, TimerThread, HeldOnce, AwaiterAlive, Registered, WaitTypes,
       Resume
  <2>6. QED
    BY <2>1, <2>2, <2>3, <2>4, <2>5 DEF Control
<1>17. CASE Clear
  <2>1. HeldOnce'
    BY <1>17 DEF TypeOK, Control, HeldOnce, AwaiterAlive, TimerThread, Registered, WaitTypes,
       Clear, ClearedBuffer, NoWaits, NoMessages
  <2>2. NoLostWakeup'
    BY <1>17 DEF TypeOK, Control, NoLostWakeup, AwaiterAlive, Registered, BusTypes, WaitTypes,
       Clear, ClearedBuffer, NoWaits, NoMessages
  <2>3. AwaiterAlive'
    BY <1>17 DEF TypeOK, Control, AwaiterAlive, TimerThread, HeldOnce, Registered, WaitTypes,
       Clear, ClearedBuffer, NoWaits, NoMessages
  <2>4. Outcomes'
    BY <1>17 DEF TypeOK, Control, Outcomes, HeldOnce, AwaiterAlive, Decided, Undecided,
       Registered, WaitTypes, Clear, ClearedBuffer, NoWaits, NoMessages
  <2>5. TimerThread'
    BY <1>17 DEF TypeOK, Control, TimerThread, HeldOnce, AwaiterAlive, Registered, WaitTypes,
       Clear, ClearedBuffer, NoWaits, NoMessages
  <2>6. QED
    BY <2>1, <2>2, <2>3, <2>4, <2>5 DEF Control
<1>18. CASE StartRun
  <2>1. HeldOnce'
    BY <1>18 DEF TypeOK, Control, HeldOnce, AwaiterAlive, TimerThread, Registered, WaitTypes,
       StartRun
  <2>2. NoLostWakeup'
    BY <1>18 DEF TypeOK, Control, NoLostWakeup, AwaiterAlive, Registered, BusTypes, WaitTypes,
       StartRun
  <2>3. AwaiterAlive'
    BY <1>18 DEF TypeOK, Control, AwaiterAlive, TimerThread, HeldOnce, Registered, WaitTypes,
       StartRun
  <2>4. Outcomes'
    BY <1>18 DEF TypeOK, Control, Outcomes, HeldOnce, AwaiterAlive, Decided, Undecided,
       Registered, WaitTypes, StartRun
  <2>5. TimerThread'
    BY <1>18 DEF TypeOK, Control, TimerThread, HeldOnce, AwaiterAlive, Registered, WaitTypes,
       StartRun
  <2>6. QED
    BY <2>1, <2>2, <2>3, <2>4, <2>5 DEF Control
<1>19. CASE UNCHANGED vars
  BY <1>19 DEF vars, Control, HeldOnce, NoLostWakeup, AwaiterAlive, Outcomes,
     Decided, Undecided, TimerThread, Registered
<1>20. QED
  BY <1>1, <1>2, <1>3, <1>4, <1>5, <1>6, <1>7, <1>8, <1>9, <1>10, <1>11, <1>12, <1>13, <1>14,
     <1>15, <1>16, <1>17, <1>18, <1>19
     DEF Next, WaitFor, RegisterOrTake, Deliver, TimerExpire, CancelAll

(* What taking the front of a queue does.                                  *)
LEMMA TailFacts ==
  ASSUME NEW q \in Seq(Nat), q # <<>>
  PROVE  /\ Len(q) \in Nat /\ Len(q) >= 1
         /\ Len(Tail(q)) = Len(q) - 1
         /\ \A i \in 1..Len(Tail(q)) : Tail(q)[i] = q[i + 1]
OBVIOUS

(* What appending to a queue does.                                         *)
LEMMA AppendFacts ==
  ASSUME NEW q \in Seq(Nat), NEW n \in Nat
  PROVE  /\ Len(q) \in Nat
         /\ Len(Append(q, n)) = Len(q) + 1
         /\ Append(q, n)[Len(q) + 1] = n
         /\ \A i \in 1..Len(q) : Append(q, n)[i] = q[i]
OBVIOUS

(* Every step keeps the messages in order.                                 *)
LEMMA OrderStep == IInv /\ [Next]_vars => Order'
<1> SUFFICES ASSUME TypeOK, Control, Order, [Next]_vars,
                    NEW u \in Types
             PROVE  OrderOf(u)'
  BY DEF IInv, Order
<1>0. OrderOf(u) /\ Len(bufferedMessages[u]) \in Nat
  BY DEF Order, TypeOK, BusTypes
<1> USE DEF busVars, awaiterVars, outcome, runVars, history
<1>1. ASSUME NEW t \in Types, NEW b \in BOOLEAN, WaitTakesBuffered(t, b) PROVE OrderOf(u)'
  <2>1. /\ FrontMessage(t) = Taken(t) + 1
        /\ OrderOf(t)
    BY <1>1, FrontIsNext DEF Order, WaitTakesBuffered, ConstructAwaiter
  <2>2. /\ Len(bufferedMessages[t]) >= 1
        /\ Len(Tail(bufferedMessages[t])) = Len(bufferedMessages[t]) - 1
        /\ \A i \in 1..Len(Tail(bufferedMessages[t])) :
             Tail(bufferedMessages[t])[i] = bufferedMessages[t][i + 1]
    BY <1>1, TailFacts DEF TypeOK, BusTypes, WaitTypes, WaitTakesBuffered, ConstructAwaiter
  <2>3. CASE u = t
    <3>1. bufferedMessages'[u] = Tail(bufferedMessages[u])
      BY <1>1, <2>3 DEF TypeOK, BusTypes, WaitTypes, WaitTakesBuffered, ConstructAwaiter
    <3>0. UNCHANGED history /\ UNCHANGED runVars
      BY <1>1 DEF WaitTakesBuffered, ConstructAwaiter
    <3>2. Len(bufferedMessages'[u]) = Len(bufferedMessages[u]) - 1 /\ Taken(u)' = Taken(u) + 1
      BY <1>0, <2>2, <2>3, <3>0, <3>1 DEF Taken, TypeOK, HistoryTypes
    <3>3. \A i \in 1..Len(bufferedMessages'[u]) : bufferedMessages'[u][i] = Taken(u)' + i
      BY <1>0, <2>2, <2>3, <3>1, <3>2 DEF OrderOf, Taken, TypeOK, HistoryTypes
    <3>4. InHand(u)' /\ message' = Taken(u) + 1 /\ ~ InHand(u)
      BY <1>0, <1>1, <2>1, <2>3 DEF InHand, Taken, TypeOK, HistoryTypes, OrderOf,
         WaitTakesBuffered, ConstructAwaiter
    <3>5. QED
      <4>0. delivered[u] \in Nat /\ delivered'[u] = delivered[u]
        BY <3>0 DEF TypeOK, HistoryTypes
      <4>1. Taken(u) \in Nat /\ Len(bufferedMessages'[u]) <= delivered'[u]
        BY <1>0, <3>2, <4>0 DEF OrderOf, Taken
      <4>2. /\ runStart'[u] = runStart[u] /\ runStart[u] \in Nat
            /\ dropped'[u] = dropped[u] /\ dropped[u] \in Nat
            /\ returned'[u] = returned[u] /\ returned[u] \in Nat
        BY <3>0 DEF TypeOK, HistoryTypes
      <4>3. /\ runStart[u] <= dropped[u] /\ dropped[u] <= Taken(u)
            /\ returned[u] <= Taken(u)
            /\ Taken(u) <= returned[u] \/ Taken(u) <= dropped[u]
        BY <1>0, <3>4 DEF OrderOf
      <4>4. /\ dropped[u] <= Taken(u)' /\ returned[u] <= Taken(u)'
            /\ message' > returned[u] /\ message' > runStart[u]
            /\ message' <= Taken(u)' /\ Taken(u)' <= message'
            /\ message' - 1 = Taken(u)
        BY <3>2, <3>4, <4>1, <4>2, <4>3
      <4>5. QED
        BY <3>3, <3>4, <4>1, <4>2, <4>3, <4>4 DEF OrderOf
  <2>4. CASE u # t
    <3>1. bufferedMessages'[u] = bufferedMessages[u] /\ ~ InHand(u)' /\ ~ InHand(u)
      BY <1>1, <2>4 DEF TypeOK, BusTypes, WaitTypes, InHand, WaitTakesBuffered, ConstructAwaiter
    <3>2. QED
      BY <1>0, <1>1, <3>1 DEF OrderOf, Taken, WaitTakesBuffered, ConstructAwaiter
  <2>5. QED
    BY <2>3, <2>4
<1>2. ASSUME NEW t \in Types, NEW b \in BOOLEAN, WaitFindsNone(t, b) PROVE OrderOf(u)'
  BY <1>0, <1>2 DEF OrderOf, Taken, InHand, TypeOK, HistoryTypes, WaitTypes, WaitFindsNone,
     ConstructAwaiter
<1>3. CASE StartTimer
  BY <1>0, <1>3 DEF OrderOf, Taken, InHand, TypeOK, HistoryTypes, WaitTypes, StartTimer
<1>4. CASE TakeArrived
  <2> type \in Types /\ message = 0
    BY <1>4 DEF TypeOK, WaitTypes, Control, Outcomes, Undecided, TakeArrived
  <2>1. /\ FrontMessage(type) = Taken(type) + 1
        /\ OrderOf(type)
    BY <1>4, FrontIsNext DEF Order, TakeArrived, ArrivedMeanwhile
  <2>2. /\ Len(bufferedMessages[type]) >= 1
        /\ Len(Tail(bufferedMessages[type])) = Len(bufferedMessages[type]) - 1
        /\ \A i \in 1..Len(Tail(bufferedMessages[type])) :
             Tail(bufferedMessages[type])[i] = bufferedMessages[type][i + 1]
    BY <1>4, TailFacts DEF TypeOK, BusTypes, WaitTypes, TakeArrived, ArrivedMeanwhile
  <2>3. CASE u = type
    <3>1. bufferedMessages'[u] = Tail(bufferedMessages[u])
      BY <1>4, <2>3 DEF TypeOK, BusTypes, WaitTypes, TakeArrived, ArrivedMeanwhile
    <3>0. UNCHANGED history /\ UNCHANGED runVars
      BY <1>4 DEF TakeArrived
    <3>2. Len(bufferedMessages'[u]) = Len(bufferedMessages[u]) - 1 /\ Taken(u)' = Taken(u) + 1
      BY <1>0, <2>2, <2>3, <3>0, <3>1 DEF Taken, TypeOK, HistoryTypes
    <3>3. \A i \in 1..Len(bufferedMessages'[u]) : bufferedMessages'[u][i] = Taken(u)' + i
      BY <1>0, <2>2, <2>3, <3>1, <3>2 DEF OrderOf, Taken, TypeOK, HistoryTypes
    <3>4. InHand(u)' /\ message' = Taken(u) + 1 /\ ~ InHand(u)
      BY <1>0, <1>4, <2>1, <2>3 DEF InHand, Taken, TypeOK, HistoryTypes, OrderOf, TakeArrived,
         ArrivedMeanwhile
    <3>5. QED
      <4>1. Taken(u) \in Nat /\ Len(bufferedMessages'[u]) <= delivered'[u]
        BY <1>0, <2>2, <2>3, <3>0, <3>2, SMTT(30) DEF OrderOf, Taken, TypeOK, HistoryTypes
      <4>2. /\ runStart'[u] = runStart[u] /\ runStart[u] \in Nat
            /\ dropped'[u] = dropped[u] /\ dropped[u] \in Nat
            /\ returned'[u] = returned[u] /\ returned[u] \in Nat
        BY <3>0 DEF TypeOK, HistoryTypes
      <4>3. /\ runStart[u] <= dropped[u] /\ dropped[u] <= Taken(u)
            /\ returned[u] <= Taken(u)
            /\ Taken(u) <= returned[u] \/ Taken(u) <= dropped[u]
        BY <1>0, <3>4 DEF OrderOf
      <4>4. /\ dropped[u] <= Taken(u)' /\ returned[u] <= Taken(u)'
            /\ message' > returned[u] /\ message' > runStart[u]
            /\ message' <= Taken(u)' /\ Taken(u)' <= message'
            /\ message' - 1 = Taken(u)
        BY <3>2, <3>4, <4>1, <4>2, <4>3
      <4>5. QED
        BY <3>3, <3>4, <4>1, <4>2, <4>3, <4>4 DEF OrderOf
  <2>4. CASE u # type
    <3>1. bufferedMessages'[u] = bufferedMessages[u] /\ ~ InHand(u)' /\ ~ InHand(u)
      BY <1>4, <2>4 DEF TypeOK, BusTypes, WaitTypes, InHand, TakeArrived, ArrivedMeanwhile
    <3>2. QED
      BY <1>0, <1>4, <3>1 DEF OrderOf, Taken, TakeArrived, ArrivedMeanwhile
  <2>5. QED
    BY <2>3, <2>4
<1>5. CASE RegisterWait
  <2>1. message = 0 /\ message' = 0
    BY <1>5 DEF Control, Outcomes, Undecided, RegisterWait
  <2>2. QED
    BY <1>0, <1>5, <2>1 DEF OrderOf, Taken, InHand, RegisterWait
<1>6. CASE AwaitResume
  <2>1. ~ InHand(u)' /\ bufferedMessages' = bufferedMessages
    BY <1>6 DEF InHand, AwaitResume
  <2>2. CASE u = type /\ message # 0
    <3>1. InHand(u) /\ returned'[u] = message
      BY <1>6, <2>2 DEF Control, Outcomes, Decided, InHand, AwaitResume, TypeOK, HistoryTypes
    <3>2. QED
      BY <1>0, <1>6, <2>1, <3>1 DEF OrderOf, Taken, AwaitResume, TypeOK, HistoryTypes, WaitTypes
  <2>3. CASE ~ (u = type /\ message # 0)
    <3>1. ~ InHand(u) /\ returned'[u] = returned[u]
      BY <1>6, <2>3 DEF Control, Outcomes, Decided, InHand, AwaitResume, TypeOK, HistoryTypes
    <3>2. QED
      BY <1>0, <1>6, <2>1, <3>1 DEF OrderOf, Taken, AwaitResume
  <2>4. QED
    BY <2>2, <2>3
<1>7. CASE DestroyAwaiter
  BY <1>0, <1>7 DEF OrderOf, Taken, InHand, TypeOK, HistoryTypes, WaitTypes, DestroyAwaiter
<1>8. CASE SessionCode
  BY <1>0, <1>8 DEF OrderOf, Taken, InHand, TypeOK, HistoryTypes, WaitTypes, SessionCode
<1>9. ASSUME NEW t \in Types, BufferMessage(t) PROVE OrderOf(u)'
  <2>1. InHand(u)' = InHand(u) /\ message' = message
    BY <1>9 DEF InHand, BufferMessage, MessageArrives
  <2>2. CASE u = t
    <3> DEFINE n == delivered[t] + 1
    <3>1. n \in Nat /\ bufferedMessages[u] \in Seq(Nat)
      BY SMTT(30) DEF TypeOK, BusTypes, HistoryTypes
    <3>2. bufferedMessages'[u] = Append(bufferedMessages[u], n) /\ delivered'[u] = n
      BY <1>9, <2>2 DEF TypeOK, BusTypes, HistoryTypes, BufferMessage, MessageArrives
    <3>3. /\ Len(bufferedMessages'[u]) = Len(bufferedMessages[u]) + 1
          /\ bufferedMessages'[u][Len(bufferedMessages[u]) + 1] = n
          /\ \A i \in 1..Len(bufferedMessages[u]) :
               bufferedMessages'[u][i] = bufferedMessages[u][i]
      BY <3>1, <3>2, AppendFacts
    <3>4. Taken(u)' = Taken(u)
      <4>1. delivered[u] \in Nat /\ n = delivered[u] + 1
        BY <2>2 DEF TypeOK, HistoryTypes
      <4> HIDE DEF n
      <4> QED BY <1>0, <3>2, <3>3, <4>1 DEF Taken
    <3>5. \A i \in 1..Len(bufferedMessages'[u]) : bufferedMessages'[u][i] = Taken(u)' + i
      <4>1. n = Taken(u) + Len(bufferedMessages[u]) + 1
        BY <1>0, <2>2 DEF Taken, TypeOK, HistoryTypes
      <4>2. \A i \in 1..Len(bufferedMessages[u]) : bufferedMessages[u][i] = Taken(u) + i
        BY <1>0 DEF OrderOf
      <4>3. Taken(u) \in Int
        BY <1>0 DEF Taken, TypeOK, HistoryTypes
      <4> HIDE DEF n
      <4>4. QED
        BY <1>0, <3>3, <3>4, <4>1, <4>2, <4>3, SMTT(30)
    <3>6. QED
      BY <1>0, <1>9, <2>1, <2>2, <3>2, <3>3, <3>4, <3>5
      DEF OrderOf, BufferMessage, MessageArrives, TypeOK, HistoryTypes
  <2>3. CASE u # t
    <3>1. bufferedMessages'[u] = bufferedMessages[u] /\ delivered'[u] = delivered[u]
      BY <1>9, <2>3 DEF TypeOK, BusTypes, HistoryTypes, BufferMessage, MessageArrives
    <3>2. QED
      BY <1>0, <1>9, <2>1, <3>1 DEF OrderOf, Taken, BufferMessage, MessageArrives
  <2>4. QED
    BY <2>2, <2>3
<1>10. ASSUME NEW t \in Types, HandOver(t) PROVE OrderOf(u)'
  <2>1. /\ t = type
        /\ pc = "suspended"
        /\ message = 0
        /\ bufferedMessages[t] = <<>>
    BY <1>10 DEF Control, HeldOnce, NoLostWakeup, AwaiterAlive, Outcomes, Undecided, HandOver
  <2>2. CASE u = t
    <3>1. Len(bufferedMessages[u]) = 0 /\ bufferedMessages'[u] = bufferedMessages[u]
      BY <1>10, <2>1, <2>2 DEF HandOver
    <3>2. delivered'[u] = delivered[u] + 1 /\ message' = delivered[u] + 1
      BY <1>10, <2>2 DEF TypeOK, HistoryTypes, HandOver, MessageArrives
    <3>3. InHand(u)' /\ ~ InHand(u)
      BY <1>10, <2>1, <2>2, <3>2 DEF InHand, HandOver, MessageArrives, TypeOK, HistoryTypes
    <3>4. QED
      BY <1>0, <1>10, <3>1, <3>2, <3>3, SMTT(30)
      DEF OrderOf, Taken, HandOver, MessageArrives, TypeOK, HistoryTypes
  <2>3. CASE u # t
    <3>1. delivered'[u] = delivered[u] /\ ~ InHand(u)' /\ ~ InHand(u)
      BY <1>10, <2>1, <2>3 DEF TypeOK, HistoryTypes, InHand, HandOver, MessageArrives
    <3>2. QED
      BY <1>0, <1>10, <3>1 DEF OrderOf, Taken, HandOver, MessageArrives
  <2>4. QED
    BY <2>2, <2>3
<1>11. CASE TimerTimesOut
  BY <1>0, <1>11 DEF OrderOf, Taken, InHand, TypeOK, HistoryTypes, WaitTypes, TimerTimesOut
<1>12. CASE TimerFindsNothing
  BY <1>0, <1>12 DEF OrderOf, Taken, InHand, TypeOK, HistoryTypes, WaitTypes, TimerFindsNothing
<1>13. CASE TimerCancelled
  BY <1>0, <1>13 DEF OrderOf, Taken, InHand, TypeOK, HistoryTypes, WaitTypes, TimerCancelled
<1>14. CASE CancelRegistered
  <2>1. InHand(u)' <=> InHand(u)
    BY <1>14 DEF InHand, CancelRegistered, EmptyBus
  <2>2. bufferedMessages'[u] = <<>> /\ dropped'[u] = delivered[u]
    BY <1>14 DEF CancelRegistered, EmptyBus, NoMessages
  <2>3. UNCHANGED <<message, delivered, returned, runStart>>
    BY <1>14 DEF CancelRegistered, EmptyBus
  <2>4. Len(bufferedMessages'[u]) = 0 /\ Taken(u)' = delivered[u] /\ Taken(u) <= delivered[u]
    BY <1>0, <2>2, <2>3 DEF Taken, TypeOK, HistoryTypes
  <2>5. Taken(u) \in Int
    BY <1>0 DEF Taken, TypeOK, HistoryTypes
  <2>6. QED
    BY <1>0, <2>1, <2>2, <2>3, <2>4, <2>5 DEF OrderOf, TypeOK, HistoryTypes, WaitTypes
<1>15. CASE CancelNothing
  BY <1>0, <1>15, SMTT(30) DEF OrderOf, Taken, InHand, TypeOK, HistoryTypes, WaitTypes,
     CancelNothing, EmptyBus, NoMessages
<1>16. ASSUME NEW th \in Threads, Resume(th) PROVE OrderOf(u)'
  BY <1>0, <1>16 DEF OrderOf, Taken, InHand, TypeOK, HistoryTypes, WaitTypes, Resume
<1>17. CASE Clear
  BY <1>0, <1>17, SMTT(30) DEF OrderOf, Taken, InHand, TypeOK, HistoryTypes, WaitTypes, Clear,
     ClearedBuffer, NoMessages
<1>18. CASE StartRun
  BY <1>0, <1>18 DEF OrderOf, Taken, InHand, TypeOK, HistoryTypes, WaitTypes, StartRun
<1>19. CASE UNCHANGED vars
  BY <1>0, <1>19 DEF vars, OrderOf, Taken, InHand
<1>20. QED
  BY <1>1, <1>2, <1>3, <1>4, <1>5, <1>6, <1>7, <1>8, <1>9, <1>10, <1>11, <1>12, <1>13, <1>14,
     <1>15, <1>16, <1>17, <1>18, <1>19
     DEF Next, WaitFor, RegisterOrTake, Deliver, TimerExpire, CancelAll

-----------------------------------------------------------------------------
(* The invariant holds initially, is kept by every step, and therefore     *)
(* always holds; the safety properties of the bus follow.                  *)
LEMMA InitIInv == Init => IInv
<1> SUFFICES ASSUME Init PROVE IInv
  OBVIOUS
<1>1. TypeOK
  BY MapTypes DEF Init, TypeOK, BusTypes, WaitTypes, HistoryTypes, PCs, TimerStates, Threads
<1>2. Control
  BY DEF Init, Control, HeldOnce, NoLostWakeup, AwaiterAlive, Outcomes, TimerThread,
         Registered, NoWaits
<1>3. ASSUME NEW t \in Types PROVE OrderOf(t)
  <2>1. Len(bufferedMessages[t]) = 0
    BY DEF Init, NoMessages
  <2>2. /\ delivered[t] = 0 /\ returned[t] = 0 /\ dropped[t] = 0 /\ runStart[t] = 0
        /\ message = 0
    BY DEF Init
  <2>3. QED
    BY <2>1, <2>2 DEF OrderOf, Taken, InHand
<1>4. QED
  BY <1>1, <1>2, <1>3 DEF IInv, Order

(* The inductive invariant holds in every reachable state of the bus.      *)
THEOREM Invariance == SafetySpec => []IInv
<1>1. IInv /\ [Next]_vars => IInv'
  BY TypeStep, ControlStep, OrderStep DEF IInv
<1>2. QED
  BY <1>1, InitIInv, PTL DEF SafetySpec

(* Type correctness of the bus.                                            *)
THEOREM TypeCorrect == Spec => []TypeOK
<1>1. IInv => TypeOK
  BY DEF IInv
<1>2. QED
  BY <1>1, Invariance, PTL DEF Spec

(* The continuation of a suspended coroutine is in exactly one place, so   *)
(* it is resumed once and by one thread.                                   *)
THEOREM ContinuationHeldOnce == Spec => []HeldOnce
<1>1. IInv => HeldOnce
  BY DEF IInv, Control
<1>2. QED
  BY <1>1, Invariance, PTL DEF Spec

(* A resumed wait has exactly one outcome.                                 *)
THEOREM WaitHasOneOutcome == Spec => []OneOutcome
<1>1. IInv => OneOutcome
  BY DEF IInv, Control, Outcomes, Decided, OneOutcome
<1>2. QED
  BY <1>1, Invariance, PTL DEF Spec

(* A registered wait never misses a message that is already buffered.      *)
THEOREM WakeupNotLost == Spec => []NoLostWakeup
<1>1. IInv => NoLostWakeup
  BY DEF IInv, Control
<1>2. QED
  BY <1>1, Invariance, PTL DEF Spec

(* Neither the map nor a timer thread keeps a pointer to a dead Awaiter.   *)
THEOREM AwaiterOutlivesPointers == Spec => []AwaiterAlive
<1>1. IInv => AwaiterAlive
  BY DEF IInv, Control
<1>2. QED
  BY <1>1, Invariance, PTL DEF Spec

(* No message of an earlier run is returned.                               *)
THEOREM MessagesAreFresh == Spec => []NoStaleMessage
<1>1. IInv => NoStaleMessage
  <2> SUFFICES ASSUME IInv, pc = "resumed", message # 0
               PROVE  message > runStart[type]
    BY DEF NoStaleMessage
  <2>1. type \in Types /\ OrderOf(type) /\ InHand(type)
    BY DEF IInv, TypeOK, WaitTypes, Order, InHand
  <2>2. QED
    BY <2>1 DEF OrderOf
<1>2. QED
  BY <1>1, Invariance, PTL DEF Spec

(* Messages of a type are returned in the order of delivery, each once,    *)
(* and only discarded ones are skipped: the step that returns one is       *)
(* await_resume(), which has it in hand.                                   *)
THEOREM MessagesInOrder == Spec => InOrder
<1> DEFINE A == \A t \in Types : returned'[t] # returned[t] =>
                  /\ returned'[t] > returned[t]
                  /\ returned'[t] - 1 <= returned[t] \/ returned'[t] - 1 <= dropped[t]
<1>1. IInv /\ [Next]_vars => A
  <2> SUFFICES ASSUME IInv, [Next]_vars, NEW t \in Types, returned'[t] # returned[t]
               PROVE  /\ returned'[t] > returned[t]
                      /\ returned'[t] - 1 <= returned[t] \/ returned'[t] - 1 <= dropped[t]
    OBVIOUS
  <2>1. AwaitResume
    BY DEF Next, vars, history, WaitFor, WaitTakesBuffered, WaitFindsNone, ConstructAwaiter,
           StartTimer, RegisterOrTake, TakeArrived, RegisterWait, DestroyAwaiter, SessionCode,
           Deliver, BufferMessage, HandOver, MessageArrives, TimerExpire, TimerTimesOut,
           TimerFindsNothing, TimerCancelled, CancelAll, CancelRegistered, CancelNothing,
           EmptyBus, Resume, Clear, StartRun
  <2>2. t = type /\ message # 0 /\ returned'[t] = message
    BY <2>1 DEF IInv, TypeOK, HistoryTypes, Control, Outcomes, Decided, AwaitResume
  <2>3. InHand(t) /\ OrderOf(t)
    BY <2>1, <2>2 DEF IInv, Order, InHand, AwaitResume
  <2>4. QED
    BY <2>2, <2>3 DEF OrderOf
<1>2. [Next]_vars /\ IInv => [A]_vars
  BY <1>1
<1>3. SafetySpec => [][A]_vars
  BY <1>2, Invariance, PTL DEF SafetySpec
<1>4. QED
  BY <1>3 DEF Spec, InOrder
=============================================================================
