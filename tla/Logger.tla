------------------------------- MODULE Logger -------------------------------
(***************************************************************************)
(* The logger (Logger.cpp) of a process that starts and stops it once      *)
(* (main.cpp, CLIHandler.cpp): threads queue messages, a worker writes     *)
(* them to the console and the log file, and a second thread keeps the log *)
(* pipe (the FIFO of the Linux build).  Before start() and after stop() a  *)
(* message goes to the console at once.                                    *)
(*                                                                         *)
(* One action is what a thread does while it holds queueMutex, or one      *)
(* access to an atomic flag or the condition variable outside of it.       *)
(* Queued messages are numbered in the order in which they are queued.     *)
(* What only copies the worker's output (saveToFile, pipeConnected) and    *)
(* the rotation of log files are left out.                                 *)
(***************************************************************************)
EXTENDS Integers, Sequences, Functions, FiniteSets

CONSTANTS
  Threads,   \* threads that log besides main() and the pipe's
  MaxLogs    \* bound: messages of a thread

ASSUME LoggerAssumption == MaxLogs \in Nat

VARIABLES
  started,   \* the flag log() looks at
  running,   \* the flag the workers look at
  queue,     \* messageQueue
  batch,     \* the worker's writeQueue
  worker,    \* where the worker thread is
  pipe,      \* where the pipe's thread is
  main,      \* where main() is in start() and stop()
  caller,    \* where a thread is in log()
  console,   \* messages on the console, as <<thread, number>>
  output,    \* what the worker wrote, to console and file
  logged,    \* history: log() calls of each thread
  messages,  \* history: the messages that were queued
  missed     \* history: stop() notified a worker that was about to wait

vars == <<started, running, queue, batch, worker, pipe, main, caller, console,
          output, logged, messages, missed>>

threadVars == <<worker, pipe, main>>
outputs == <<console, output>>

Loggers == Threads \cup {"main", "pipe"}

Init ==
  /\ started = FALSE
  /\ running = FALSE
  /\ queue = <<>>
  /\ batch = <<>>
  /\ worker = "none"
  /\ pipe = "none"
  /\ main = "idle"
  /\ caller = [t \in Loggers |-> "idle"]
  /\ console = <<>>
  /\ output = <<>>
  /\ logged = [t \in Loggers |-> 0]
  /\ messages = <<>>
  /\ missed = FALSE

(* The worker holds the mutex between the predicate of cv.wait and the     *)
(* wait itself.                                                            *)
MutexFree == worker # "blocking"

(* A notification reaches the worker only while it waits.                  *)
Wake == IF worker = "waiting" THEN "loop" ELSE worker

-----------------------------------------------------------------------------
(* log(), in any thread.                                                   *)

MayLog(t) ==
  /\ caller[t] = "idle"
  /\ logged[t] < MaxLogs
  /\ t = "main" => main = "idle"
  /\ t = "pipe" => pipe = "failed" /\ logged[t] = 0

(* Mutant of Queues: the flag of the workers decides.                      *)
QueuesIfRunning == running

(* Whether a message is queued or printed at once.                         *)
Queues == started

LogCalled(t) ==
  /\ MayLog(t)
  /\ logged' = [logged EXCEPT ![t] = @ + 1]
  /\ caller' = [caller EXCEPT ![t] = IF Queues THEN "queueing" ELSE "printing"]
  /\ UNCHANGED <<started, running, queue, batch, threadVars, outputs, messages, missed>>

LogPrints(t) ==
  /\ caller[t] = "printing"
  /\ console' = Append(console, <<t, logged[t]>>)
  /\ caller' = [caller EXCEPT ![t] = "idle"]
  /\ UNCHANGED <<started, running, queue, batch, threadVars, output, logged, messages, missed>>

LogQueues(t) ==
  /\ caller[t] = "queueing"
  /\ MutexFree
  /\ messages' = Append(messages, <<t, logged[t]>>)
  /\ queue' = Append(queue, Len(messages'))
  /\ caller' = [caller EXCEPT ![t] = "notifying"]
  /\ UNCHANGED <<started, running, batch, threadVars, outputs, logged, missed>>

LogNotifies(t) ==
  /\ caller[t] = "notifying"
  /\ worker' = Wake
  /\ caller' = [caller EXCEPT ![t] = "idle"]
  /\ UNCHANGED <<started, running, queue, batch, pipe, main, outputs, logged, messages, missed>>

-----------------------------------------------------------------------------
(* main(): start() and stop().                                             *)

Start ==
  /\ main = "idle" /\ caller["main"] = "idle"
  /\ worker = "none"
  /\ queue' = <<>>
  /\ running' = TRUE
  /\ started' = TRUE
  /\ worker' = "loop"
  /\ pipe' = "starting"
  /\ UNCHANGED <<batch, main, caller, outputs, logged, messages, missed>>

(* stop() of a logger that was not started returns at once; main() ends.   *)
StopNothing ==
  /\ main = "idle" /\ caller["main"] = "idle"
  /\ ~ started
  /\ main' = "ended"
  /\ UNCHANGED <<started, running, queue, batch, worker, pipe, caller, outputs, logged,
                 messages, missed>>

Stop ==
  /\ main = "idle" /\ caller["main"] = "idle"
  /\ started
  /\ running' = FALSE
  /\ main' = "notifying"
  /\ UNCHANGED <<started, queue, batch, worker, pipe, caller, outputs, logged, messages, missed>>

(* notify_all().                                                           *)
StopNotifies ==
  /\ main = "notifying"
  /\ worker' = Wake
  /\ missed' = (worker = "blocking")
  /\ main' = "joining"
  /\ UNCHANGED <<started, running, queue, batch, pipe, caller, outputs, logged, messages>>

Joinable == worker = "done"

StopJoinsWorker ==
  /\ main = "joining"
  /\ Joinable
  /\ main' = "joining pipe"
  /\ UNCHANGED <<started, running, queue, batch, worker, pipe, caller, outputs, logged,
                 messages, missed>>

StopJoinsPipe ==
  /\ main = "joining pipe"
  /\ pipe = "ended"
  /\ main' = "clearing"
  /\ UNCHANGED <<started, running, queue, batch, worker, pipe, caller, outputs, logged,
                 messages, missed>>

StopClears ==
  /\ main = "clearing"
  /\ MutexFree
  /\ queue' = <<>>
  /\ main' = "cleared"
  /\ UNCHANGED <<started, running, batch, worker, pipe, caller, outputs, logged, messages,
                 missed>>

StopEnds ==
  /\ main = "cleared"
  /\ started' = FALSE
  /\ main' = "ended"
  /\ UNCHANGED <<running, queue, batch, worker, pipe, caller, outputs, logged, messages, missed>>

-----------------------------------------------------------------------------
(* logWorker().                                                            *)

(* Mutant of Exits: what is still queued is not looked at.                 *)
ExitsAtOnce == ~ running

Exits == ~ running /\ queue = <<>>

WorkerExits ==
  /\ worker = "loop"
  /\ Exits
  /\ worker' = "done"
  /\ UNCHANGED <<started, running, queue, batch, pipe, main, caller, outputs, logged, messages,
                 missed>>

WorkerFindsNothing ==
  /\ worker = "loop"
  /\ queue = <<>> /\ running
  /\ worker' = "blocking"
  /\ UNCHANGED <<started, running, queue, batch, pipe, main, caller, outputs, logged, messages,
                 missed>>

WorkerBlocks ==
  /\ worker = "blocking"
  /\ worker' = "waiting"
  /\ UNCHANGED <<started, running, queue, batch, pipe, main, caller, outputs, logged, messages,
                 missed>>

(* A condition variable may wake its waiter without a notification.        *)
WokenSpuriously ==
  /\ worker = "waiting"
  /\ worker' = "loop"
  /\ UNCHANGED <<started, running, queue, batch, pipe, main, caller, outputs, logged, messages,
                 missed>>

(* Mutant of LeftBehind: the queue is copied, not swapped.                 *)
StaysQueued == queue

(* What a swap with the empty writeQueue leaves in the queue.              *)
LeftBehind == <<>>

WorkerTakes ==
  /\ worker = "loop"
  /\ ~ Exits
  /\ queue # <<>>
  /\ batch' = queue
  /\ queue' = LeftBehind
  /\ worker' = "writing"
  /\ UNCHANGED <<started, running, pipe, main, caller, outputs, logged, messages, missed>>

(* Mutant of AfterLine: the end of the batch is not seen.                  *)
AnotherLine(rest) == "writing"

AfterLine(rest) == IF rest = <<>> THEN "loop" ELSE "writing"

WorkerWrites ==
  /\ worker = "writing"
  /\ output' = Append(output, Head(batch))
  /\ console' = Append(console, messages[Head(batch)])
  /\ batch' = Tail(batch)
  /\ worker' = AfterLine(Tail(batch))
  /\ UNCHANGED <<started, running, queue, pipe, main, caller, logged, messages, missed>>

-----------------------------------------------------------------------------
(* pipeWorker(): it makes the FIFO and looks at the flag every 500 ms, or  *)
(* logs that it cannot and returns.                                        *)

PipeMade ==
  /\ pipe = "starting"
  /\ pipe' \in {"serving", "failed"}
  /\ UNCHANGED <<started, running, queue, batch, worker, main, caller, outputs, logged, messages,
                 missed>>

PipeReturns ==
  /\ \/ pipe = "serving" /\ ~ running
     \/ pipe = "failed" /\ logged["pipe"] = 1 /\ caller["pipe"] = "idle"
  /\ pipe' = "ended"
  /\ UNCHANGED <<started, running, queue, batch, worker, main, caller, outputs, logged, messages,
                 missed>>

-----------------------------------------------------------------------------
LogStep(t) == LogPrints(t) \/ LogQueues(t) \/ LogNotifies(t)

StopStep == StopNotifies \/ StopJoinsWorker \/ StopJoinsPipe \/ StopClears \/ StopEnds

WorkerStep ==
  WorkerExits \/ WorkerFindsNothing \/ WorkerBlocks \/ WorkerTakes \/ WorkerWrites

PipeStep == PipeMade \/ PipeReturns \/ LogCalled("pipe")

Next ==
  \/ \E t \in Loggers : LogCalled(t) \/ LogStep(t)
  \/ Start \/ Stop \/ StopNothing \/ StopStep
  \/ WorkerStep \/ WokenSpuriously \/ PipeMade \/ PipeReturns

(* Every thread goes on with what it has begun.                            *)
Fairness ==
  /\ \A t \in Loggers : WF_vars(LogStep(t))
  /\ WF_vars(StopStep) /\ WF_vars(WorkerStep) /\ WF_vars(PipeStep)

SafetySpec == Init /\ [][Next]_vars
Spec == SafetySpec /\ Fairness

-----------------------------------------------------------------------------
MessageIds == 1..Len(messages)

(* Every variable has its type.                                            *)
TypeOK ==
  /\ started \in BOOLEAN
  /\ running \in BOOLEAN
  /\ queue \in Seq(MessageIds)
  /\ batch \in Seq(MessageIds)
  /\ worker \in {"none", "loop", "blocking", "waiting", "writing", "done"}
  /\ worker = "writing" => batch # <<>>
  /\ pipe \in {"none", "starting", "serving", "failed", "ended"}
  /\ main \in {"idle", "notifying", "joining", "joining pipe", "clearing", "cleared", "ended"}
  /\ caller \in [Loggers -> {"idle", "queueing", "printing", "notifying"}]
  /\ console \in Seq(Loggers \X (1..MaxLogs))
  /\ output \in Seq(MessageIds)
  /\ logged \in [Loggers -> 0..MaxLogs]
  /\ messages \in Seq(Loggers \X (1..MaxLogs))
  /\ missed \in BOOLEAN

Channel == INSTANCE EventChannel WITH
  open <- running, put <- Len(messages), pending <- batch \o queue, received <- output

(* The queued messages form a channel from log() to the worker's output:   *)
(* they are written in the order in which the threads queued them, none    *)
(* twice, and none is lost unless stop() was called before.                *)
ImplementsChannel == Channel!Spec

(* Although a message may go to the console at once or through the queue,  *)
(* the console shows the messages of one thread in the order in which the  *)
(* thread logged them, also around start() and stop().                     *)
ThreadOrder ==
  \A i, j \in DOMAIN console :
    i < j /\ console[i][1] = console[j][1] => console[i][2] < console[j][2]

(* stop() flushes: when it has joined the worker, every message that was   *)
(* queued before it was called has been written.  stop() joins the worker, *)
(* unless its notification came between the worker's look at the flag and  *)
(* its wait, when only another message or a spurious wakeup helps.         *)
StopFlushes ==
  /\ \A n \in 1..(MaxLogs * Cardinality(Loggers)) :
       (running /\ n \in Range(queue)) ~> (n \in Range(output))
  /\ (main = "notifying") ~> (main = "ended" \/ missed)
=============================================================================
