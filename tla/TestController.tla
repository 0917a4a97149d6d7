-------------------------- MODULE TestController ---------------------------
(***************************************************************************)
(* How TestController ends a run (TestController.cpp): the test coroutine  *)
(* and stopTest() both come to finalizeResultOnce(), which builds, exports *)
(* and stores the one result and signals completion to whoever waits.      *)
(*                                                                         *)
(* The session is reduced to what decides on which thread its code runs:   *)
(* it is suspended in a network operation, in a wait of the message bus or *)
(* in a delay, and is continued by the thread that resumes it.  One run of *)
(* one controller is modelled.  Threads: "net" is the network backend's    *)
(* worker, joined by close(); "timer" the timer thread of a wait or the    *)
(* sleeper of a delay, joined by nobody; "main" waits for completion and   *)
(* then stops the controller, as main() does; "user" is another thread of  *)
(* the program that may call stopTest() at any time.                       *)
(* The sink's stop() is a step of its own that may never happen: module    *)
(* ResultEventSink shows that it can lose its wakeup.                      *)
(***************************************************************************)
EXTENDS Integers

VARIABLES
  state,         \* currentState: "ACTIVE" stands for the states of a running test
  at,            \* where the coroutine is
  host,          \* the thread it runs on
  failed,        \* failureReason is set: it was left by an exception
  statsValid,    \* validateReceiverStats() accepts both phases
  finalizing,    \* thread -> where it is in finalizeResultOnce()
  built,         \* thread -> the result it has built
  finalized,     \* m_resultFinalized
  lastResult,    \* m_lastResult, "none" after reset()
  exported,      \* the result files are written
  completed,     \* testCompletionPromise is set, m_cliBlockFlag raised
  stopped,       \* m_stopped
  open,          \* the network interface is running
  stopping,      \* thread -> where it is in stopTest()
  exitCode,      \* what main() returns, "none" before
  stoppedEarly   \* history: stopTest() took effect before completion

sessionVars == <<state, at, host, failed, statsValid>>
resultVars == <<finalizing, built, finalized, lastResult, exported, completed>>
stopVars == <<stopped, open, stopping, exitCode, stoppedEarly>>
vars == <<sessionVars, resultVars, stopVars>>

Threads == {"net", "timer", "main", "user"}
Callers == {"main", "user"}

(* A result is a success, or a failure for the reason it names: statistics *)
(* that were rejected, or a final state other than FINISHED.               *)
Results == {"success", "rejected", "ERRORED", "ACTIVE"}

Places == {"running", "network", "waiting", "delayed", "ended"}
FinalizePCs == {"no", "enter", "build", "export", "store", "stopSink", "signal"}
StopPCs == {"no", "cancelAll", "cancelled", "close", "finalize", "returned"}

Init ==
  /\ state = "ACTIVE"
  /\ at = "running"
  /\ host = "main"
  /\ failed = FALSE
  /\ statsValid \in BOOLEAN
  /\ finalizing = [t \in Threads |-> "no"]
  /\ built = [t \in Threads |-> "none"]
  /\ finalized = FALSE
  /\ lastResult = "none"
  /\ exported = FALSE
  /\ completed = FALSE
  /\ stopped = FALSE
  /\ open = TRUE
  /\ stopping = [t \in Callers |-> "no"]
  /\ exitCode = "none"
  /\ stoppedEarly = FALSE

-----------------------------------------------------------------------------
(* The session coroutine.                                                  *)

Runs(t) == at = "running" /\ host = t

(* It suspends.  A network operation suspends it while the interface is    *)
(* open; on a closed one the callback is called at once with a failure,    *)
(* which a send ignores and goes on.                                       *)
Suspend(place) ==
  /\ at = "running"
  /\ finalizing[host] = "no"
  /\ place = "network" => open
  /\ at' = place
  /\ host' = "none"
  /\ UNCHANGED <<state, failed, statsValid, resultVars, stopVars>>

(* A completed operation or a received message resumes it on the network   *)
(* thread ...                                                              *)
NetworkResumes ==
  /\ at \in {"network", "waiting"}
  /\ open
  /\ at' = "running"
  /\ host' = "net"
  /\ UNCHANGED <<state, failed, statsValid, resultVars, stopVars>>

(* ... the sleeper of a delay on its own thread, closed or not ...         *)
DelayResumes ==
  /\ at = "delayed"
  /\ at' = "running"
  /\ host' = "timer"
  /\ UNCHANGED <<state, failed, statsValid, resultVars, stopVars>>


(* An exception reaches runTestCoroutine(): ERRORED, then                  *)
(* finalizeResultOnce() on the thread t the coroutine runs on.             *)
Throws(t) ==
  /\ at' = "running"
  /\ host' = t
  /\ failed' = TRUE
  /\ state' = "ERRORED"
  /\ finalizing' = [finalizing EXCEPT ![t] = "enter"]
  /\ UNCHANGED statsValid

(* The timer of a wait resumes it with a timeout.                          *)
WaitTimesOut ==
  /\ at = "waiting"
  /\ Throws("timer")
  /\ UNCHANGED <<built, finalized, lastResult, exported, completed, stopVars>>

(* The session fails: a connect, an accept, a payload that does not parse. *)
SessionFails ==
  /\ Runs(host)
  /\ finalizing[host] = "no"
  /\ Throws(host)
  /\ UNCHANGED <<built, finalized, lastResult, exported, completed, stopVars>>

(* The session finishes: its last await is always resumed by the network.  *)
SessionFinishes ==
  /\ Runs("net")
  /\ finalizing["net"] = "no"
  /\ state' = "FINISHED"
  /\ finalizing' = [finalizing EXCEPT !["net"] = "enter"]
  /\ UNCHANGED <<at, host, failed, statsValid, built, finalized, lastResult,
                 exported, completed, stopVars>>

-----------------------------------------------------------------------------
(* finalizeResultOnce(), on a thread t.                                    *)

UnchangedByFinalize == <<state, failed, statsValid, stopped, open, exitCode, stoppedEarly>>

(* Mutant of FirstToFinalize: the flag is not looked at.                   *)
AlwaysFinalizes == TRUE

FirstToFinalize == ~ finalized

(* m_resultFinalized.exchange(true): the winner goes on to build a result, *)
(* the loser signals completion.                                           *)
EnterFinalize(t) ==
  /\ finalizing[t] = "enter"
  /\ finalized' = TRUE
  /\ finalizing' = [finalizing EXCEPT ![t] = IF FirstToFinalize THEN "build" ELSE "signal"]
  /\ UNCHANGED <<UnchangedByFinalize, at, host, stopping, built, lastResult,
                 exported, completed>>

(* Mutants of Verdict: the statistics are not looked at, and the final     *)
(* state is taken for the verdict.                                         *)
VerdictOfState == IF state = "FINISHED" THEN "success" ELSE state
RawState == state

Verdict ==
  IF state # "FINISHED" THEN state
  ELSE IF statsValid THEN "success" ELSE "rejected"

(* buildCurrentResult()                                                    *)
Build(t) ==
  /\ finalizing[t] = "build"
  /\ built' = [built EXCEPT ![t] = Verdict]
  /\ finalizing' = [finalizing EXCEPT ![t] = "export"]
  /\ UNCHANGED <<UnchangedByFinalize, at, host, stopping, finalized, lastResult,
                 exported, completed>>

(* Mutant of AfterExport: completion is signalled before the result is     *)
(* stored.                                                                 *)
AfterExportSignal == "signal"

AfterExport == "store"

(* exportResult(): a file that cannot be written is a warning only.        *)
Export(t) ==
  /\ finalizing[t] = "export"
  /\ exported' = TRUE
  /\ finalizing' = [finalizing EXCEPT ![t] = AfterExport]
  /\ UNCHANGED <<UnchangedByFinalize, at, host, stopping, built, finalized,
                 lastResult, completed>>

(* m_lastResult is set under its mutex.                                    *)
Store(t) ==
  /\ finalizing[t] = "store"
  /\ lastResult' = built[t]
  /\ finalizing' = [finalizing EXCEPT ![t] = "stopSink"]
  /\ UNCHANGED <<UnchangedByFinalize, at, host, stopping, built, finalized,
                 exported, completed>>

(* The final event is queued, and resultEventSink->stop() returns, or      *)
(* there is no sink.                                                       *)
StopSink(t) ==
  /\ finalizing[t] = "stopSink"
  /\ finalizing' = [finalizing EXCEPT ![t] = "signal"]
  /\ UNCHANGED <<UnchangedByFinalize, at, host, stopping, built, finalized,
                 lastResult, exported, completed>>

(* signalCompletion(), and the thread returns to what it was doing: the    *)
(* coroutine ends, or stopTest() returns.                                  *)
Signal(t) ==
  /\ finalizing[t] = "signal"
  /\ completed' = TRUE
  /\ finalizing' = [finalizing EXCEPT ![t] = "no"]
  /\ IF host = t
       THEN at' = "ended" /\ host' = "none" /\ UNCHANGED stopping
       ELSE stopping' = [stopping EXCEPT ![t] = "returned"] /\ UNCHANGED <<at, host>>
  /\ UNCHANGED <<UnchangedByFinalize, built, finalized, lastResult, exported>>

Finalize(t) ==
  EnterFinalize(t) \/ Build(t) \/ Export(t) \/ Store(t) \/ Signal(t)

-----------------------------------------------------------------------------
(* stopTest() and main().                                                  *)

StopGoesOn(t, to) == stopping' = [stopping EXCEPT ![t] = to]

(* main() waits for completion before it calls stopTest(); another user    *)
(* does not.  Only the first call does anything.                           *)
CallStop(t) ==
  /\ stopping[t] = "no"
  /\ t = "main" => completed
  /\ host # t
  /\ stopped' = TRUE
  /\ StopGoesOn(t, IF stopped THEN "returned" ELSE "cancelAll")
  /\ stoppedEarly' = (stoppedEarly \/ (~ stopped /\ ~ completed))
  /\ UNCHANGED <<sessionVars, resultVars, open, exitCode>>

(* cancelAll() resumes a waiting coroutine on this thread; it throws.      *)
CancelWaiting(t) ==
  /\ stopping[t] = "cancelAll"
  /\ at = "waiting"
  /\ Throws(t)
  /\ StopGoesOn(t, "cancelled")
  /\ UNCHANGED <<built, finalized, lastResult, exported, completed, stopped, open,
                 exitCode, stoppedEarly>>

CancelNone(t) ==
  /\ stopping[t] = "cancelAll"
  /\ at # "waiting"
  /\ StopGoesOn(t, "cancelled")
  /\ UNCHANGED <<sessionVars, resultVars, stopped, open, exitCode, stoppedEarly>>

(* The coroutine has returned to cancelAll(); generator and receiver are   *)
(* stopped, and close() begins.                                            *)
BeginClose(t) ==
  /\ stopping[t] = "cancelled"
  /\ host # t
  /\ open' = FALSE
  /\ StopGoesOn(t, "close")
  /\ UNCHANGED <<sessionVars, resultVars, stopped, exitCode, stoppedEarly>>

(* close() joins the network thread: it returns when that thread runs the  *)
(* coroutine no more.  Then finalizeResultOnce().                          *)
JoinNetwork(t) ==
  /\ stopping[t] = "close"
  /\ host # "net"
  /\ StopGoesOn(t, "finalize")
  /\ finalizing' = [finalizing EXCEPT ![t] = "enter"]
  /\ UNCHANGED <<sessionVars, built, finalized, lastResult, exported, completed,
                 stopped, open, exitCode, stoppedEarly>>

(* Mutant of CompletedSuccessfully: the stored result is not asked.        *)
FinishedSuffices == state = "FINISHED"

CompletedSuccessfully ==
  state = "FINISHED" /\ (finalized => lastResult = "success")

(* main() returns after its stopTest().                                    *)
Exit ==
  /\ stopping["main"] = "returned"
  /\ exitCode = "none"
  /\ exitCode' = IF CompletedSuccessfully THEN "0" ELSE "1"
  /\ UNCHANGED <<sessionVars, resultVars, stopped, open, stopping, stoppedEarly>>

StopStep(t) ==
  CancelWaiting(t) \/ CancelNone(t) \/ BeginClose(t) \/ JoinNetwork(t)

SessionCode ==
  \/ \E place \in {"network", "waiting", "delayed"} : Suspend(place)
  \/ SessionFails \/ SessionFinishes

Next ==
  \/ SessionCode \/ NetworkResumes \/ DelayResumes \/ WaitTimesOut
  \/ \E t \in Threads : Finalize(t) \/ StopSink(t)
  \/ \E t \in Callers : CallStop(t) \/ StopStep(t)
  \/ Exit

(* Threads go on: in finalizeResultOnce(), in stopTest() and, as long as a *)
(* session does not wait or end, with its code.  A user need not stop, nor *)
(* need StopSink happen.                                                   *)
Fairness ==
  /\ \A t \in Threads : WF_vars(Finalize(t))
  /\ \A t \in Callers : WF_vars(StopStep(t))
  /\ WF_vars(CallStop("main"))
  /\ WF_vars(Exit)
  /\ WF_vars(SessionCode)
  /\ WF_vars(WaitTimesOut)
  /\ WF_vars(DelayResumes)

SafetySpec == Init /\ [][Next]_vars
Spec == SafetySpec /\ Fairness

-----------------------------------------------------------------------------
(* Every variable has its type.                                            *)
TypeOK ==
  /\ state \in {"ACTIVE", "FINISHED", "ERRORED"}
  /\ at \in Places
  /\ host \in Threads \cup {"none"}
  /\ failed \in BOOLEAN
  /\ statsValid \in BOOLEAN
  /\ finalizing \in [Threads -> FinalizePCs]
  /\ built \in [Threads -> Results \cup {"none"}]
  /\ finalized \in BOOLEAN
  /\ lastResult \in Results \cup {"none"}
  /\ exported \in BOOLEAN
  /\ completed \in BOOLEAN
  /\ stopped \in BOOLEAN
  /\ open \in BOOLEAN
  /\ stopping \in [Callers -> StopPCs]
  /\ exitCode \in {"none", "0", "1"}
  /\ stoppedEarly \in BOOLEAN

(* A result that was stored is never replaced, although the coroutine and  *)
(* a stopping thread both finalize.                                        *)
ResultIsFinal == [][lastResult # "none" => lastResult' = lastResult]_vars

(* A result that says success is that of a session that finished, on which *)
(* no exception, timeout or stop had any part, and it stays so.            *)
SuccessIsEarned ==
  lastResult = "success" => state = "FINISHED" /\ ~ failed /\ statsValid

(* Unless another thread stopped the test first, whoever sees completion   *)
(* finds the result stored and the files written.                          *)
CompletionHasResult ==
  completed /\ ~ stoppedEarly => lastResult # "none" /\ exported

(* main()'s exit code agrees with the result it stored.                    *)
ExitCodeRight == exitCode = "0" <=> exitCode # "none" /\ lastResult = "success"


(* A program that waited for completion and goes on, as main() does to     *)
(* compute its exit code, finds the result stored and the files written,   *)
(* also when another thread has stopped the test.  It may not: see the     *)
(* finding.                                                                *)
WaiterFindsResult == exitCode # "none" => lastResult # "none" /\ exported
=============================================================================
