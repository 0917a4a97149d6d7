------------------------- MODULE ControlMessageBus -------------------------
(***************************************************************************)
(* The control message bus of MyIperf (ControlMessageBus.cpp): the place   *)
(* where a session coroutine suspended in `co_await waitFor(type)` meets   *)
(* the receiver thread's deliver(), its own timer thread and the           *)
(* cancelAll() of a stopping thread.                                       *)
(*                                                                         *)
(* One action is one critical section of ControlMessageBus::mutex, or one  *)
(* step outside of it that another thread can observe: a thread that has   *)
(* taken the continuation under the lock resumes it later, outside.        *)
(*                                                                         *)
(* A bus serves one coroutine, so at most one Awaiter is alive.  It is     *)
(* identified by waitNo, the model's stand-in for the pointer `this`.  The *)
(* payload of a message is abstracted to its number among the messages of  *)
(* its type.  DATA_PACKETs, which deliver() ignores, are not in Types.     *)
(***************************************************************************)
EXTENDS Integers, Sequences

CONSTANTS
  Types,       \* the control message types
  MaxMessages, \* bound: messages delivered of each type
  MaxWaits,    \* bound: co_await waitFor(...) evaluated
  MaxRuns      \* bound: restarts of the controller (reset() calls clear())

ASSUME TypesAssumption == Types # {}
ASSUME BoundsAssumption ==
  MaxMessages \in Nat /\ MaxWaits \in Nat /\ MaxRuns \in Nat

VARIABLES
  pendingWaits,     \* type -> the awaiter registered for it, 0 for none
  bufferedMessages, \* type -> queue of the messages nobody waited for
  pc,               \* where the session coroutine is
  host,             \* the thread the coroutine runs on, "none" if suspended
  waitNo,           \* number of the current awaiter
  type,             \* the fields of the current Awaiter: the awaited type,
  timed,            \*   timeoutMs > 0,
  message,          \*   the message, 0 while it is the default constructed one,
  timedOut,         \*   and its flags
  cancelled,
  cancelTimer,
  timer,            \* the Awaiter's timer thread
  resumers,         \* threads that took the continuation and have yet to resume it
  stopped,          \* stopTest() has called cancelAll() in this run
  runs,             \* clear() calls so far
  delivered,        \* history: messages delivered, by type
  returned,         \* history: last message a wait returned, by type
  dropped,          \* history: messages up to this one were discarded, by type
  runStart          \* history: messages delivered before this run, by type

busVars == <<pendingWaits, bufferedMessages>>
outcome == <<message, timedOut, cancelled>>
awaiterVars == <<waitNo, type, timed, outcome, cancelTimer, timer>>
runVars == <<stopped, runs, runStart>>
history == <<delivered, returned, dropped>>
vars == <<busVars, pc, host, awaiterVars, resumers, runVars, history>>

Threads == {"caller", "receiver", "network", "timer", "stopper"}

PCs == {"running",     \* executing session code between two waits
        "suspending",  \* await_ready() returned false
        "registering", \* await_suspend(): timer started, lock not yet taken
        "suspended",   \* registered and suspended
        "resumed",     \* about to run await_resume()
        "destroying",  \* in ~Awaiter()
        "ended",       \* returned, or left by an exception
        "cleared"}     \* reset() has cleared the bus for the next run

TimerStates == {"none",     \* no timer thread
                "running",  \* polling cancelTimer and the elapsed time
                "resuming", \* it took the continuation and runs the coroutine
                "done"}

NoWaits == [t \in Types |-> 0]
NoMessages == [t \in Types |-> <<>>]
Registered(t) == pendingWaits[t] # 0

(* A thread is busy while it is about to resume the coroutine or runs it.  *)
Busy(th) == th \in resumers \/ host = th

Init ==
  /\ pendingWaits = NoWaits
  /\ bufferedMessages = NoMessages
  /\ pc = "running"
  /\ host = "caller"
  /\ waitNo = 0
  /\ type \in Types
  /\ timed = FALSE
  /\ message = 0
  /\ timedOut = FALSE
  /\ cancelled = FALSE
  /\ cancelTimer = FALSE
  /\ timer = "none"
  /\ resumers = {}
  /\ stopped = FALSE
  /\ runs = 0
  /\ delivered = [t \in Types |-> 0]
  /\ returned = [t \in Types |-> 0]
  /\ dropped = [t \in Types |-> 0]
  /\ runStart = [t \in Types |-> 0]

-----------------------------------------------------------------------------
(* The session coroutine.                                                  *)

(* Mutant of FrontMessage: takes the youngest message of the queue.        *)
BackMessage(t) == bufferedMessages[t][Len(bufferedMessages[t])]

FrontMessage(t) == Head(bufferedMessages[t])

(* co_await waitFor(t, timeoutMs) constructs the Awaiter ...               *)
ConstructAwaiter(t, isTimed) ==
  /\ pc = "running"
  /\ waitNo < MaxWaits
  /\ waitNo' = waitNo + 1
  /\ type' = t
  /\ timed' = isTimed
  /\ timedOut' = FALSE
  /\ cancelled' = FALSE
  /\ cancelTimer' = FALSE
  /\ timer' = "none"
  /\ UNCHANGED <<pendingWaits, host, resumers, runVars, history>>

(* ... and await_ready() takes a buffered message, under the lock, ...     *)
WaitTakesBuffered(t, isTimed) ==
  /\ ConstructAwaiter(t, isTimed)
  /\ bufferedMessages[t] # <<>>
  /\ message' = FrontMessage(t)
  /\ bufferedMessages' = [bufferedMessages EXCEPT ![t] = Tail(@)]
  /\ pc' = "resumed"

(* ... or finds none, and await_suspend() will be called.                  *)
WaitFindsNone(t, isTimed) ==
  /\ ConstructAwaiter(t, isTimed)
  /\ bufferedMessages[t] = <<>>
  /\ message' = 0
  /\ pc' = "suspending"
  /\ UNCHANGED bufferedMessages

WaitFor(t, isTimed) == WaitTakesBuffered(t, isTimed) \/ WaitFindsNone(t, isTimed)

(* await_suspend() up to the lock: the timer thread, if there is one, is   *)
(* running before the wait is registered.                                  *)
StartTimer ==
  /\ pc = "suspending"
  /\ pc' = "registering"
  /\ timer' = IF timed THEN "running" ELSE "none"
  /\ UNCHANGED <<busVars, host, waitNo, type, timed, outcome, cancelTimer,
                 resumers, runVars, history>>

(* Mutant of ArrivedMeanwhile: await_suspend() does not look again.        *)
NotLookedAgain == FALSE

(* A message of the awaited type came between await_ready() and the lock.  *)
ArrivedMeanwhile == bufferedMessages[type] # <<>>

(* await_suspend(), locked part: a message that came since await_ready()   *)
(* is taken and the coroutine goes on without suspending ...               *)
TakeArrived ==
  /\ pc = "registering"
  /\ ArrivedMeanwhile
  /\ message' = FrontMessage(type)
  /\ bufferedMessages' = [bufferedMessages EXCEPT ![type] = Tail(@)]
  /\ cancelTimer' = TRUE
  /\ pc' = "resumed"
  /\ UNCHANGED <<pendingWaits, host, waitNo, type, timed, timedOut, cancelled,
                 timer, resumers, runVars, history>>

(* ... otherwise the awaiter is registered and the coroutine suspends.     *)
RegisterWait ==
  /\ pc = "registering"
  /\ ~ ArrivedMeanwhile
  /\ pendingWaits' = [pendingWaits EXCEPT ![type] = waitNo]
  /\ pc' = "suspended"
  /\ host' = "none"
  /\ UNCHANGED <<bufferedMessages, awaiterVars, resumers, runVars, history>>

RegisterOrTake == TakeArrived \/ RegisterWait

(* await_resume() throws if the wait was cancelled or timed out and else   *)
(* returns the message; either way ~Awaiter() begins by setting            *)
(* cancelTimer.                                                            *)
AwaitResume ==
  /\ pc = "resumed"
  /\ pc' = "destroying"
  /\ cancelTimer' = TRUE
  /\ returned' = IF cancelled \/ timedOut
                   THEN returned
                   ELSE [returned EXCEPT ![type] = message]
  /\ UNCHANGED <<busVars, host, waitNo, type, timed, outcome, timer, resumers,
                 runVars, delivered, dropped>>

(* Mutant of TimerThreadReleased: joining without asking on which thread   *)
(* the destructor runs.                                                    *)
JoinOnly == timer \in {"none", "done"}

(* ~Awaiter() has no timer thread to wait for: it was never started, has   *)
(* left its loop (join), or is the thread running the destructor (detach). *)
TimerThreadReleased == timer \in {"none", "done"} \/ host = "timer"

(* ~Awaiter() joins the timer thread, or detaches it when it is the thread *)
(* running the destructor.  An exception then ends the session.            *)
DestroyAwaiter ==
  /\ pc = "destroying"
  /\ TimerThreadReleased
  /\ timer' = "none"
  /\ IF cancelled \/ timedOut
       THEN pc' = "ended" /\ host' = "none"
       ELSE pc' = "running" /\ UNCHANGED host
  /\ UNCHANGED <<busVars, waitNo, type, timed, outcome, cancelTimer, resumers,
                 runVars, history>>

(* The session code between two waits: a co_await of a network send or a   *)
(* delay continues on a network thread; the last statement ends it.        *)
SessionCode ==
  /\ pc = "running"
  /\ \/ host # "network" /\ host' = "network" /\ UNCHANGED pc
     \/ pc' = "ended" /\ host' = "none"
  /\ UNCHANGED <<busVars, awaiterVars, resumers, runVars, history>>

-----------------------------------------------------------------------------
(* The other threads.                                                      *)

(* deliver() up to the resume.  The receive loop delivers one message      *)
(* after the other, so it does not deliver while the coroutine it resumed  *)
(* still runs on its thread.                                               *)
MessageArrives(t) ==
  /\ ~ Busy("receiver")
  /\ delivered[t] < MaxMessages
  /\ delivered' = [delivered EXCEPT ![t] = @ + 1]
  /\ UNCHANGED <<pc, host, waitNo, type, timed, timedOut, cancelled, cancelTimer,
                 timer, runVars, returned, dropped>>

(* takeContinuationForMessage(): nobody waits, and the message is buffered *)
BufferMessage(t) ==
  /\ MessageArrives(t)
  /\ ~ Registered(t)
  /\ bufferedMessages' = [bufferedMessages EXCEPT ![t] = Append(@, delivered[t] + 1)]
  /\ UNCHANGED <<pendingWaits, message, resumers>>

(* or it is handed to the registered awaiter, whose continuation is taken. *)
HandOver(t) ==
  /\ MessageArrives(t)
  /\ Registered(t)
  /\ message' = delivered[t] + 1
  /\ pendingWaits' = [pendingWaits EXCEPT ![t] = 0]
  /\ resumers' = resumers \cup {"receiver"}
  /\ UNCHANGED bufferedMessages

Deliver(t) == BufferMessage(t) \/ HandOver(t)

(* Mutant of OwnsRegistration: the map is not asked who is registered.     *)
OwnershipUnchecked == TRUE

(* pendingWaits still holds this awaiter under its type.                   *)
OwnsRegistration == pendingWaits[type] = waitNo

(* The timer thread finds the timeout elapsed.  It had read cancelTimer    *)
(* before, so a cancelTimer set since does not stop it.  It takes the      *)
(* continuation if the awaiter is registered ...                           *)
TimerTimesOut ==
  /\ timer = "running"
  /\ OwnsRegistration
  /\ timedOut' = TRUE
  /\ pendingWaits' = [pendingWaits EXCEPT ![type] = 0]
  /\ resumers' = resumers \cup {"timer"}
  /\ timer' = "resuming"
  /\ UNCHANGED <<bufferedMessages, pc, host, waitNo, type, timed, message,
                 cancelled, cancelTimer, runVars, history>>

(* ... and, registered or not, leaves its loop: it tries once.             *)
TimerFindsNothing ==
  /\ timer = "running"
  /\ ~ OwnsRegistration
  /\ timer' = "done"
  /\ UNCHANGED <<busVars, pc, host, waitNo, type, timed, outcome, cancelTimer,
                 resumers, runVars, history>>

TimerExpire == TimerTimesOut \/ TimerFindsNothing

(* The timer thread sees cancelTimer and leaves its loop.                  *)
TimerCancelled ==
  /\ timer = "running"
  /\ cancelTimer
  /\ timer' = "done"
  /\ UNCHANGED <<busVars, pc, host, waitNo, type, timed, outcome, cancelTimer,
                 resumers, runVars, history>>

(* Mutants of DeregisterAll: cancelAll() resumes the waits and leaves them *)
(* in the map, or marks them there instead of erasing them.                *)
LeaveRegistered == pendingWaits
MarkCancelled == [t \in Types |-> -1]

DeregisterAll == NoWaits

(* cancelAll(), locked part, called once in a run by stopTest(): empties   *)
(* both maps and takes the continuation of the wait it finds registered.   *)
EmptyBus ==
  /\ ~ stopped
  /\ stopped' = TRUE
  /\ pendingWaits' = DeregisterAll
  /\ bufferedMessages' = NoMessages
  /\ dropped' = delivered
  /\ UNCHANGED <<pc, host, waitNo, type, timed, message, timedOut, cancelTimer,
                 timer, runs, runStart, delivered, returned>>

CancelRegistered ==
  /\ EmptyBus
  /\ \E t \in Types : Registered(t)
  /\ cancelled' = TRUE
  /\ resumers' = resumers \cup {"stopper"}

CancelNothing ==
  /\ EmptyBus
  /\ \A t \in Types : ~ Registered(t)
  /\ UNCHANGED <<cancelled, resumers>>

CancelAll == CancelRegistered \/ CancelNothing

(* continuation.resume() outside the lock: the coroutine goes on on the    *)
(* resuming thread.                                                        *)
Resume(th) ==
  /\ th \in resumers
  /\ resumers' = resumers \ {th}
  /\ pc = "suspended"
  /\ pc' = "resumed"
  /\ host' = th
  /\ UNCHANGED <<busVars, awaiterVars, runVars, history>>

(* Mutant of ClearedBuffer: clear() forgets bufferedMessages.              *)
KeptBuffer == bufferedMessages

ClearedBuffer == NoMessages

(* clear(), called by TestController::reset() when a new test is started   *)
(* on the same controller, whose previous coroutine has ended or is still  *)
(* suspended in a wait nobody is about to resume; startTest() goes on to   *)
(* destroy that coroutine's frame, which sets the Awaiter's cancelTimer.   *)
Clear ==
  /\ pc \in {"ended", "suspended"}
  /\ resumers = {}
  /\ runs < MaxRuns
  /\ runs' = runs + 1
  /\ pc' = "cleared"
  /\ pendingWaits' = NoWaits
  /\ bufferedMessages' = ClearedBuffer
  /\ dropped' = delivered
  /\ runStart' = delivered
  /\ stopped' = FALSE
  /\ cancelTimer' = TRUE
  /\ UNCHANGED <<host, waitNo, type, timed, outcome, timer, resumers, delivered,
                 returned>>

(* The rest of startTest(): the old frame's ~Awaiter() joins its timer     *)
(* thread, and the new coroutine starts on the caller's thread.            *)
StartRun ==
  /\ pc = "cleared"
  /\ timer \in {"none", "done"}
  /\ timer' = "none"
  /\ pc' = "running"
  /\ host' = "caller"
  /\ UNCHANGED <<busVars, waitNo, type, timed, outcome, cancelTimer, resumers,
                 runVars, history>>

Next ==
  \/ \E t \in Types, b \in BOOLEAN : WaitFor(t, b)
  \/ StartTimer
  \/ RegisterOrTake
  \/ AwaitResume
  \/ DestroyAwaiter
  \/ SessionCode
  \/ \E t \in Types : Deliver(t)
  \/ TimerExpire
  \/ TimerCancelled
  \/ CancelAll
  \/ \E th \in Threads : Resume(th)
  \/ Clear
  \/ StartRun

(* A thread that is inside the bus's code keeps running, and a started     *)
(* timer thread reaches its deadline.  Nothing makes a peer send, a user   *)
(* stop the test or a session wait again.                                  *)
Fairness ==
  /\ WF_vars(StartTimer)
  /\ WF_vars(RegisterOrTake)
  /\ WF_vars(AwaitResume)
  /\ WF_vars(DestroyAwaiter)
  /\ WF_vars(TimerExpire)
  /\ WF_vars(StartRun)
  /\ \A th \in Threads : WF_vars(Resume(th))

SafetySpec == Init /\ [][Next]_vars
Spec == SafetySpec /\ Fairness

-----------------------------------------------------------------------------
(* Every variable has its type.                                            *)
BusTypes ==
  /\ pendingWaits \in [Types -> Nat]
  /\ bufferedMessages \in [Types -> Seq(Nat)]

WaitTypes ==
  /\ pc \in PCs
  /\ host \in Threads \cup {"none"}
  /\ waitNo \in Nat
  /\ type \in Types
  /\ timed \in BOOLEAN
  /\ message \in Nat
  /\ timedOut \in BOOLEAN
  /\ cancelled \in BOOLEAN
  /\ cancelTimer \in BOOLEAN
  /\ timer \in TimerStates
  /\ resumers \in SUBSET Threads

HistoryTypes ==
  /\ stopped \in BOOLEAN
  /\ runs \in Nat
  /\ delivered \in [Types -> Nat]
  /\ returned \in [Types -> Nat]
  /\ dropped \in [Types -> Nat]
  /\ runStart \in [Types -> Nat]

TypeOK == BusTypes /\ WaitTypes /\ HistoryTypes

(* The continuation of a suspended coroutine is in exactly one place: in   *)
(* pendingWaits, or in the hands of the one thread that took it there.     *)
(* Were it in two, two threads would resume one coroutine, which is        *)
(* undefined behaviour; were it in none, nobody would ever resume it.      *)
HeldOnce ==
  /\ \A a, b \in resumers : a = b
  /\ resumers # {} => pc = "suspended" /\ ~ Registered(type)
  /\ pc = "suspended" /\ resumers = {} => Registered(type)

(* A resumed wait has exactly one of its three outcomes: deliver()'s       *)
(* message, the timer's timeout or cancelAll()'s cancellation.             *)
OneOutcome ==
  pc = "resumed" =>
    \/ message # 0 /\ ~ timedOut /\ ~ cancelled
    \/ message = 0 /\ timedOut /\ ~ cancelled
    \/ message = 0 /\ ~ timedOut /\ cancelled

(* No lost wakeup: a coroutine is never registered for a type of which a   *)
(* message lies in the buffer, where no deliver() will look again.         *)
NoLostWakeup ==
  \A t \in Types : Registered(t) => bufferedMessages[t] = <<>>

(* No dangling pointers to an Awaiter: pendingWaits holds at most the      *)
(* current, suspended one, under its own type, and a timer thread polls    *)
(* only while the Awaiter it captured is alive; the one that is detached   *)
(* polls no more.                                                          *)
AwaiterAlive ==
  /\ \A t \in Types : Registered(t) =>
       t = type /\ pendingWaits[t] = waitNo /\ pc = "suspended"
  /\ timer = "running" => pc \notin {"running", "suspending", "ended"}
  /\ host = "timer" => timer = "resuming"

(* A wait never returns a message that arrived before this run's clear().  *)
NoStaleMessage ==
  pc = "resumed" => message = 0 \/ message > runStart[type]

(* For each type the messages returned are those delivered, in order, each *)
(* once, and none is skipped that cancelAll() or clear() did not discard.  *)
InOrder ==
  [][\A t \in Types : returned'[t] # returned[t] =>
       /\ returned'[t] > returned[t]
       /\ returned'[t] - 1 <= returned[t] \/ returned'[t] - 1 <= dropped[t]]_vars

WaitOver(w) == waitNo > w \/ pc \in {"running", "ended", "cleared"}

(* A suspended wait whose timer thread still runs ends: by a message, by   *)
(* its timeout or by cancellation, and ~Awaiter() returns.                 *)
ArmedWaitEnds ==
  \A w \in 1..MaxWaits :
    (waitNo = w /\ pc = "suspended" /\ timer = "running") ~> WaitOver(w)

(* Every wait that was given a timeout ends ("Timeout to wait for          *)
(* CONFIG_ACK before aborting").  It does not: see the finding.            *)
TimedWaitEnds ==
  \A w \in 1..MaxWaits :
    (waitNo = w /\ pc = "suspended" /\ timed) ~> WaitOver(w)
=============================================================================
