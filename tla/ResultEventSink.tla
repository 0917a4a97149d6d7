-------------------------- MODULE ResultEventSink --------------------------
(***************************************************************************)
(* The result event sink (ResultEventSink.cpp): the controller publishes   *)
(* result events into a queue, a worker thread writes them to the result   *)
(* pipe, and stop() ends and joins the worker.                             *)
(*                                                                         *)
(* The controller's calls come one after the other: run_started, the phase *)
(* results and final_result are published by the thread that runs the test *)
(* coroutine, and finalizeResultOnce() stops the sink after the last.  One *)
(* action is what a thread does while it holds the sink's mutex, or one    *)
(* access to the atomic flag or the condition variable outside of it.      *)
(* Events are numbered in the order in which they are published.           *)
(***************************************************************************)
EXTENDS Integers, Sequences, Functions

CONSTANTS
  MaxEvents,  \* bound: events published
  MaxRuns     \* bound: start() calls with a pipe name

ASSUME BoundsAssumption == MaxEvents \in Nat /\ MaxRuns \in Nat

VARIABLES
  running,   \* the atomic flag
  queue,     \* events to be written
  call,      \* where the controller's thread is in a call of the sink
  worker,    \* where the worker thread is
  line,      \* the event in the worker's hands, 0 for none
  pipe,      \* whole lines the reader got, in order
  runs,      \* start() calls
  published, \* history: events published
  first,     \* history: the first event of this run
  tried      \* history: events the worker has tried to write

vars == <<running, queue, call, worker, line, pipe, runs, published, first, tried>>

Calls == {"none",      \* not in the sink
          "pushed",    \* publish(): queued, not yet notified
          "stopping",  \* stop(): the flag is cleared, not yet notified
          "joining",   \* stop(): in worker.join()
          "joined"}    \* stop(): about to clear the queue

Workers == {"none",     \* no thread
            "loop",     \* about to lock the mutex and evaluate the predicate
            "blocking", \* found it false, still holds the mutex
            "waiting",  \* blocked in cv.wait, the mutex released
            "writing",  \* in writeLine()
            "failed",   \* the write failed
            "retrying", \* found the sink running, is about to requeue
            "done"}     \* left workerLoop()

MutexFree == worker # "blocking"

Init ==
  /\ running = FALSE
  /\ queue = <<>>
  /\ call = "none"
  /\ worker = "none"
  /\ line = 0
  /\ pipe = <<>>
  /\ runs = 0
  /\ published = 0
  /\ first = 1
  /\ tried = {}

-----------------------------------------------------------------------------
(* The controller's thread.                                                *)

(* start(name) of a sink that does not run.                                *)
Start ==
  /\ call = "none"
  /\ ~ running
  /\ runs < MaxRuns
  /\ runs' = runs + 1
  /\ running' = TRUE
  /\ worker' = "loop"
  /\ first' = published + 1
  /\ UNCHANGED <<queue, call, line, pipe, published, tried>>

(* publish() of a running sink: the event is queued under the mutex ...    *)
Publish ==
  /\ call = "none"
  /\ running
  /\ published < MaxEvents
  /\ MutexFree
  /\ published' = published + 1
  /\ queue' = Append(queue, published + 1)
  /\ call' = "pushed"
  /\ UNCHANGED <<running, worker, line, pipe, runs, first, tried>>

(* Mutant of Wake: nobody is notified.                                     *)
NoWake == worker

(* A notification reaches the worker only while it waits.                  *)
Wake == IF worker = "waiting" THEN "loop" ELSE worker

(* ... and then the worker is notified.                                    *)
PublishNotifies ==
  /\ call = "pushed"
  /\ worker' = Wake
  /\ call' = "none"
  /\ UNCHANGED <<running, queue, line, pipe, runs, published, first, tried>>

(* stop() clears the flag, without the mutex; of a sink that does not run  *)
(* it returns at once.                                                     *)
Stop ==
  /\ call = "none"
  /\ running
  /\ running' = FALSE
  /\ call' = "stopping"
  /\ UNCHANGED <<queue, worker, line, pipe, runs, published, first, tried>>

StopNotifies ==
  /\ call = "stopping"
  /\ worker' = Wake
  /\ call' = "joining"
  /\ UNCHANGED <<running, queue, line, pipe, runs, published, first, tried>>

StopJoins ==
  /\ call = "joining"
  /\ worker = "done"
  /\ worker' = "none"
  /\ call' = "joined"
  /\ UNCHANGED <<running, queue, line, pipe, runs, published, first, tried>>

StopClears ==
  /\ call = "joined"
  /\ queue' = <<>>
  /\ call' = "none"
  /\ UNCHANGED <<running, worker, line, pipe, runs, published, first, tried>>

-----------------------------------------------------------------------------
(* The worker thread.                                                      *)

(* Mutant of Exits: the flag is looked at before the queue.                *)
ExitsAtOnce == ~ running

(* workerLoop() ends when there is nothing left to write.                  *)
Exits == queue = <<>> /\ ~ running

WorkerExits ==
  /\ worker = "loop"
  /\ Exits
  /\ worker' = "done"
  /\ UNCHANGED <<running, queue, call, line, pipe, runs, published, first, tried>>

WorkerTakes ==
  /\ worker = "loop"
  /\ ~ Exits
  /\ queue # <<>>
  /\ line' = Head(queue)
  /\ queue' = Tail(queue)
  /\ worker' = "writing"
  /\ UNCHANGED <<running, call, pipe, runs, published, first, tried>>

(* The predicate of cv.wait is false.  Only blocking releases the mutex,   *)
(* so no event can be queued before that.                                  *)
WorkerFindsNothing ==
  /\ worker = "loop"
  /\ queue = <<>>
  /\ running
  /\ worker' = "blocking"
  /\ UNCHANGED <<running, queue, call, line, pipe, runs, published, first, tried>>

WorkerBlocks ==
  /\ worker = "blocking"
  /\ worker' = "waiting"
  /\ UNCHANGED <<running, queue, call, line, pipe, runs, published, first, tried>>

(* A condition variable may wake its waiter without a notification.        *)
WokenSpuriously ==
  /\ worker = "waiting"
  /\ worker' = "loop"
  /\ UNCHANGED <<running, queue, call, line, pipe, runs, published, first, tried>>

(* writeLine() succeeds ...                                                *)
WriteSucceeds ==
  /\ worker = "writing"
  /\ pipe' = Append(pipe, line)
  /\ tried' = tried \cup {line}
  /\ line' = 0
  /\ worker' = "loop"
  /\ UNCHANGED <<running, queue, call, runs, published, first>>

(* ... or not: there is no reader, or no room in the pipe.  A line is      *)
(* shorter than PIPE_BUF, so that the FIFO takes all of it or nothing.     *)
WriteFails ==
  /\ worker = "writing"
  /\ tried' = tried \cup {line}
  /\ worker' = "failed"
  /\ UNCHANGED <<running, queue, call, line, pipe, runs, published, first>>

(* A line that could not be written is kept while the sink runs.           *)
KeepsTrying == running

WorkerChecksRunning ==
  /\ worker = "failed"
  /\ IF KeepsTrying
       THEN worker' = "retrying" /\ UNCHANGED line
       ELSE worker' = "loop" /\ line' = 0
  /\ UNCHANGED <<running, queue, call, pipe, runs, published, first, tried>>

(* Mutants of Requeued: the event goes to the end of the queue, and what   *)
(* is queued is the moved-from line.                                       *)
RequeuedLast == Append(queue, line)
RequeuedEmpty == <<0>> \o queue

Requeued == <<line>> \o queue

(* queue.push_front under the mutex, and 100 ms of sleep.                  *)
WorkerRequeues ==
  /\ worker = "retrying"
  /\ queue' = Requeued
  /\ line' = 0
  /\ worker' = "loop"
  /\ UNCHANGED <<running, call, pipe, runs, published, first, tried>>

WorkerStep ==
  \/ WorkerExits \/ WorkerTakes \/ WorkerFindsNothing \/ WorkerBlocks
  \/ WriteSucceeds \/ WriteFails \/ WorkerChecksRunning \/ WorkerRequeues

CallStep == PublishNotifies \/ StopNotifies \/ StopJoins \/ StopClears

Next == Start \/ Publish \/ Stop \/ CallStep \/ WorkerStep \/ WokenSpuriously

(* Both threads run: a call that was begun goes on, and the worker does    *)
(* unless it waits for the condition variable.  No spurious wakeup, no     *)
(* reader of the pipe and no further call can be counted on.               *)
Fairness == WF_vars(WorkerStep) /\ WF_vars(CallStep)

SafetySpec == Init /\ [][Next]_vars
Spec == SafetySpec /\ Fairness

-----------------------------------------------------------------------------
(* Every variable has its type.                                            *)
TypeOK ==
  /\ running \in BOOLEAN
  /\ queue \in Seq(1..MaxEvents)
  /\ call \in Calls
  /\ worker \in Workers
  /\ line \in 0..MaxEvents
  /\ pipe \in Seq(1..MaxEvents)
  /\ runs \in 0..MaxRuns
  /\ published \in 0..MaxEvents
  /\ first \in 1..(MaxEvents + 1)
  /\ tried \subseteq 1..MaxEvents

(* The event in the worker's hands comes before the queued ones.           *)
Hand == IF line = 0 THEN <<>> ELSE <<line>>

Channel == INSTANCE EventChannel WITH
  open <- running, put <- published, pending <- Hand \o queue, received <- pipe

(* The sink is a channel from publish() to the reader of the pipe: however *)
(* often a write fails and is retried, the reader gets whole lines in the  *)
(* order of publication and none twice, and no event is lost unless stop() *)
(* was called before.                                                      *)
ImplementsChannel == Channel!Spec

(* stop() gives every event a chance: when the worker has ended, each      *)
(* event of the run was tried at least once.                               *)
TriedBeforeStop ==
  call = "joined" => \A e \in first..published : e \in tried

(* No wakeup is lost between publish() and the worker: a queued event is   *)
(* eventually taken, also when stop() is called meanwhile.                 *)
EventsAreTaken == (queue # <<>>) ~> (line # 0)

(* stop() returns, so that the test completes with or without a reader of  *)
(* the pipe.  It may not: see the finding.                                 *)
StopReturns == (call = "stopping") ~> (call = "none")
=============================================================================
