------------------------ MODULE TestControllerProofs ------------------------
(***************************************************************************)
(* Proofs about the end of a run: how the coroutine and a stopping thread  *)
(* share finalizeResultOnce(), and that completion is not forgotten.       *)
(***************************************************************************)
EXTENDS TestController, TLAPS

(* The inductive invariant, in parts.                                      *)

Winning == {"build", "export", "store"}

(* Where the coroutine is.  It leaves ACTIVE only on its way through       *)
(* finalizeResultOnce() to its end.                                        *)
Coroutine ==
  /\ at = "running" <=> host # "none"
  /\ state # "ACTIVE" => at = "ended" \/ (host # "none" /\ finalizing[host] # "no")
  /\ at = "ended" => state # "ACTIVE"
  /\ failed <=> state = "ERRORED"

(* Who may be in finalizeResultOnce(): the coroutine, and a thread that    *)
(* has closed the network, which the network thread has then left.         *)
Finalizers ==
  /\ \A t \in Threads : finalizing[t] # "no" =>
       \/ host = t /\ state # "ACTIVE"
       \/ t \in Callers /\ stopping[t] = "finalize"
  /\ \A t \in Callers :
       /\ stopping[t] # "no" => stopped
       /\ stopping[t] \in {"close", "finalize"} => ~ open /\ host # t
       /\ stopping[t] = "finalize" => host # "net"
  /\ ~ open => stopped

(* One thread wins, and the result is none until it stores it.             *)
Winner ==
  /\ \A t \in Threads :
       /\ finalizing[t] \in Winning => finalized /\ lastResult = "none"
       /\ finalizing[t] \in {"stopSink", "signal"} => finalized
       /\ finalizing[t] = "stopSink" => lastResult # "none"
       /\ finalizing[t] = "store" => exported
       /\ finalizing[t] \in {"export", "store"} =>
            /\ built[t] # "none"
            /\ built[t] = "success" => state = "FINISHED" /\ statsValid
  /\ \A t, u \in Threads :
       finalizing[t] \in Winning /\ finalizing[u] \in Winning => t = u
  /\ lastResult # "none" => finalized /\ exported
  /\ completed => finalized

(* While the network is open only the coroutine finalizes, and it wins.    *)
OpenWins ==
  open =>
    /\ state = "ACTIVE" => ~ finalized
    /\ \A t \in Threads :
         /\ finalizing[t] = "enter" => ~ finalized
         /\ finalizing[t] = "signal" => lastResult # "none"

(* On the network thread it wins as well, since close() waits for it.      *)
NetworkWins ==
  /\ host = "net" =>
       /\ finalizing["net"] \in {"no", "enter"} => ~ finalized
       /\ finalizing["net"] \in Winning => ~ completed
       /\ finalizing["net"] = "signal" => lastResult # "none"
  /\ state = "FINISHED" =>
       host = "net" \/ (at = "ended" /\ lastResult # "none")

(* What completion, a stop and the exit of main() tell.                    *)
Completion ==
  /\ stopped /\ ~ stoppedEarly => completed
  /\ stopping["main"] # "no" => completed
  /\ exitCode # "none" => completed

IInv ==
  /\ TypeOK /\ Coroutine /\ Finalizers /\ Winner /\ OpenWins /\ NetworkWins
  /\ Completion /\ SuccessIsEarned /\ CompletionHasResult /\ ExitCodeRight
-----------------------------------------------------------------------------
USE DEF Threads, Callers, sessionVars, resultVars, stopVars

(* Every step keeps every variable in its type.                            *)
LEMMA TypeStep == IInv /\ [Next]_vars => TypeOK'
<1> SUFFICES ASSUME TypeOK, [Next]_vars PROVE TypeOK'
  BY DEF IInv
<1> USE DEF TypeOK, Places, FinalizePCs, StopPCs, Results
<1>1. ASSUME NEW place \in {"network", "waiting", "delayed"}, Suspend(place) PROVE TypeOK'
  BY <1>1 DEF Suspend
<1>2. CASE SessionFails
  <2>1. finalizing' \in [Threads -> FinalizePCs] /\ host' \in Threads \cup {"none"}
    BY <1>2 DEF SessionFails, Throws
  <2>2. failed' \in BOOLEAN
    BY <1>2 DEF SessionFails, Throws
  <2>3. QED
    BY <1>2, <2>1, <2>2 DEF SessionFails, Throws
<1>3. CASE SessionFinishes
  BY <1>3 DEF SessionFinishes, Runs
<1>4. CASE NetworkResumes
  BY <1>4 DEF NetworkResumes
<1>5. CASE DelayResumes
  BY <1>5 DEF DelayResumes
<1>6. CASE WaitTimesOut
  BY <1>6 DEF WaitTimesOut, Throws
<1>7. ASSUME NEW t \in Threads, EnterFinalize(t) PROVE TypeOK'
  BY <1>7 DEF EnterFinalize, UnchangedByFinalize, FirstToFinalize
<1>8. ASSUME NEW t \in Threads, Build(t) PROVE TypeOK'
  BY <1>8 DEF Build, UnchangedByFinalize, Verdict
<1>9. ASSUME NEW t \in Threads, Export(t) PROVE TypeOK'
  BY <1>9 DEF Export, UnchangedByFinalize, AfterExport
<1>10. ASSUME NEW t \in Threads, Store(t) PROVE TypeOK'
  BY <1>10 DEF Store, UnchangedByFinalize
<1>10a. ASSUME NEW t \in Threads, StopSink(t) PROVE TypeOK'
  BY <1>10a DEF StopSink, UnchangedByFinalize
<1>11. ASSUME NEW t \in Threads, Signal(t) PROVE TypeOK'
  BY <1>11 DEF Signal, UnchangedByFinalize
<1>12. ASSUME NEW t \in Callers, CallStop(t) PROVE TypeOK'
  BY <1>12 DEF CallStop, StopGoesOn
<1>13. ASSUME NEW t \in Callers, CancelWaiting(t) PROVE TypeOK'
  BY <1>13 DEF CancelWaiting, StopGoesOn, Throws
<1>14. ASSUME NEW t \in Callers, CancelNone(t) PROVE TypeOK'
  BY <1>14 DEF CancelNone, StopGoesOn
<1>15. ASSUME NEW t \in Callers, BeginClose(t) PROVE TypeOK'
  <2>1. stopping' \in [Callers -> StopPCs]
    BY <1>15 DEF BeginClose, StopGoesOn
  <2>2. open' \in BOOLEAN
    BY <1>15 DEF BeginClose
  <2>3. QED
    BY <1>15, <2>1, <2>2 DEF BeginClose
<1>16. ASSUME NEW t \in Callers, JoinNetwork(t) PROVE TypeOK'
  BY <1>16 DEF JoinNetwork, StopGoesOn
<1>17. CASE Exit
  BY <1>17 DEF Exit, CompletedSuccessfully
<1>18. CASE UNCHANGED vars
  BY <1>18 DEF vars
<1>19. QED
  BY <1>1, <1>2, <1>3, <1>4, <1>5, <1>6, <1>7, <1>8, <1>9, <1>10, <1>10a,
     <1>11, <1>12, <1>13, <1>14, <1>15, <1>16, <1>17, <1>18
  DEF Next, SessionCode, Finalize, StopStep

(* Every step keeps what is known of the coroutine: the steps that leave   *)
(* ACTIVE enter finalizeResultOnce() on the same thread, and no step takes *)
(* the coroutine away from there but Signal, which ends it.                *)
LEMMA CoroutineStep == IInv /\ [Next]_vars => Coroutine'
<1> SUFFICES ASSUME TypeOK, Coroutine, Finalizers, [Next]_vars PROVE Coroutine'
  BY DEF IInv
<1> USE DEF TypeOK, Coroutine, Finalizers
<1>1. ASSUME NEW place \in {"network", "waiting", "delayed"}, Suspend(place) PROVE Coroutine'
  BY <1>1 DEF Suspend
<1>2. CASE SessionFails
  BY <1>2 DEF SessionFails, Throws, Runs
<1>3. CASE SessionFinishes
  BY <1>3 DEF SessionFinishes, Runs
<1>4. CASE NetworkResumes
  BY <1>4 DEF NetworkResumes
<1>5. CASE DelayResumes
  BY <1>5 DEF DelayResumes
<1>6. CASE WaitTimesOut
  BY <1>6 DEF WaitTimesOut, Throws
<1>7. ASSUME NEW t \in Threads, EnterFinalize(t) PROVE Coroutine'
  BY <1>7 DEF EnterFinalize, UnchangedByFinalize, FirstToFinalize
<1>8. ASSUME NEW t \in Threads, Build(t) PROVE Coroutine'
  BY <1>8 DEF Build, UnchangedByFinalize, Verdict
<1>9. ASSUME NEW t \in Threads, Export(t) PROVE Coroutine'
  BY <1>9 DEF Export, UnchangedByFinalize, AfterExport
<1>10. ASSUME NEW t \in Threads, Store(t) PROVE Coroutine'
  BY <1>10 DEF Store, UnchangedByFinalize
<1>10a. ASSUME NEW t \in Threads, StopSink(t) PROVE Coroutine'
  BY <1>10a DEF StopSink, UnchangedByFinalize
<1>11. ASSUME NEW t \in Threads, Signal(t) PROVE Coroutine'
  <2>1. UNCHANGED <<state, failed>> /\ finalizing' = [finalizing EXCEPT ![t] = "no"]
    BY <1>11 DEF Signal, UnchangedByFinalize
  <2>2. CASE host = t
    <3>1. at' = "ended" /\ host' = "none" /\ state # "ACTIVE"
      BY <1>11, <2>2 DEF Signal
    <3>2. QED
      BY <2>1, <3>1
  <2>3. CASE host # t
    <3>1. UNCHANGED <<at, host>>
      BY <1>11, <2>3 DEF Signal
    <3>2. host # "none" => finalizing'[host] = finalizing[host]
      BY <2>1, <2>3
    <3>3. QED
      BY <2>1, <3>1, <3>2
  <2>4. QED
    BY <2>2, <2>3
<1>12. ASSUME NEW t \in Callers, CallStop(t) PROVE Coroutine'
  BY <1>12 DEF CallStop, StopGoesOn
<1>13. ASSUME NEW t \in Callers, CancelWaiting(t) PROVE Coroutine'
  BY <1>13 DEF CancelWaiting, StopGoesOn, Throws
<1>14. ASSUME NEW t \in Callers, CancelNone(t) PROVE Coroutine'
  BY <1>14 DEF CancelNone, StopGoesOn
<1>15. ASSUME NEW t \in Callers, BeginClose(t) PROVE Coroutine'
  BY <1>15 DEF BeginClose, StopGoesOn
<1>16. ASSUME NEW t \in Callers, JoinNetwork(t) PROVE Coroutine'
  BY <1>16 DEF JoinNetwork, StopGoesOn
<1>17. CASE Exit
  BY <1>17 DEF Exit, CompletedSuccessfully
<1>18. CASE UNCHANGED vars
  BY <1>18 DEF vars
<1>19. QED
  BY <1>1, <1>2, <1>3, <1>4, <1>5, <1>6, <1>7, <1>8, <1>9, <1>10, <1>10a,
     <1>11, <1>12, <1>13, <1>14, <1>15, <1>16, <1>17, <1>18
  DEF Next, SessionCode, Finalize, StopStep

(* Every step keeps the bounds on who finalizes: a stopping thread comes   *)
(* there by JoinNetwork only, and nothing resumes the coroutine on the     *)
(* network thread after it.                                                *)
LEMMA FinalizersStep == IInv /\ [Next]_vars => Finalizers'
<1> SUFFICES ASSUME TypeOK, Coroutine, Finalizers, [Next]_vars PROVE Finalizers'
  BY DEF IInv
<1> USE DEF TypeOK, Coroutine, Finalizers
<1>1. ASSUME NEW place \in {"network", "waiting", "delayed"}, Suspend(place) PROVE Finalizers'
  BY <1>1 DEF Suspend
<1>2. CASE SessionFails
  BY <1>2 DEF SessionFails, Throws, Runs
<1>3. CASE SessionFinishes
  BY <1>3 DEF SessionFinishes, Runs
<1>4. CASE NetworkResumes
  BY <1>4 DEF NetworkResumes
<1>5. CASE DelayResumes
  BY <1>5 DEF DelayResumes
<1>6. CASE WaitTimesOut
  BY <1>6 DEF WaitTimesOut, Throws
<1>7. ASSUME NEW t \in Threads, EnterFinalize(t) PROVE Finalizers'
  BY <1>7 DEF EnterFinalize, UnchangedByFinalize, FirstToFinalize
<1>8. ASSUME NEW t \in Threads, Build(t) PROVE Finalizers'
  BY <1>8 DEF Build, UnchangedByFinalize, Verdict
<1>9. ASSUME NEW t \in Threads, Export(t) PROVE Finalizers'
  BY <1>9 DEF Export, UnchangedByFinalize, AfterExport
<1>10. ASSUME NEW t \in Threads, Store(t) PROVE Finalizers'
  BY <1>10 DEF Store, UnchangedByFinalize
<1>10a. ASSUME NEW t \in Threads, StopSink(t) PROVE Finalizers'
  BY <1>10a DEF StopSink, UnchangedByFinalize
<1>11. ASSUME NEW t \in Threads, Signal(t) PROVE Finalizers'
  BY <1>11 DEF Signal, UnchangedByFinalize
<1>12. ASSUME NEW t \in Callers, CallStop(t) PROVE Finalizers'
  BY <1>12 DEF CallStop, StopGoesOn
<1>13. ASSUME NEW t \in Callers, CancelWaiting(t) PROVE Finalizers'
  BY <1>13 DEF CancelWaiting, StopGoesOn, Throws
<1>14. ASSUME NEW t \in Callers, CancelNone(t) PROVE Finalizers'
  BY <1>14 DEF CancelNone, StopGoesOn
<1>15. ASSUME NEW t \in Callers, BeginClose(t) PROVE Finalizers'
  BY <1>15 DEF BeginClose, StopGoesOn
<1>16. ASSUME NEW t \in Callers, JoinNetwork(t) PROVE Finalizers'
  BY <1>16 DEF JoinNetwork, StopGoesOn
<1>17. CASE Exit
  BY <1>17 DEF Exit, CompletedSuccessfully
<1>18. CASE UNCHANGED vars
  BY <1>18 DEF vars
<1>19. QED
  BY <1>1, <1>2, <1>3, <1>4, <1>5, <1>6, <1>7, <1>8, <1>9, <1>10, <1>10a,
     <1>11, <1>12, <1>13, <1>14, <1>15, <1>16, <1>17, <1>18
  DEF Next, SessionCode, Finalize, StopStep

(* Every step keeps the single winner: the flag is raised with the step    *)
(* that makes one.                                                         *)
LEMMA WinnerStep == IInv /\ [Next]_vars => Winner'
<1> SUFFICES ASSUME TypeOK, Coroutine, Finalizers, Winner, [Next]_vars
             PROVE  Winner'
  BY DEF IInv
<1> USE DEF TypeOK, Coroutine, Finalizers, Winner, Winning
<1>1. ASSUME NEW place \in {"network", "waiting", "delayed"}, Suspend(place) PROVE Winner'
  BY <1>1 DEF Suspend
<1>2. CASE SessionFails
  BY <1>2 DEF SessionFails, Throws, Runs
<1>3. CASE SessionFinishes
  BY <1>3 DEF SessionFinishes, Runs
<1>4. CASE NetworkResumes
  BY <1>4 DEF NetworkResumes
<1>5. CASE DelayResumes
  BY <1>5 DEF DelayResumes
<1>6. CASE WaitTimesOut
  BY <1>6 DEF WaitTimesOut, Throws
<1>7. ASSUME NEW t \in Threads, EnterFinalize(t) PROVE Winner'
  BY <1>7 DEF EnterFinalize, UnchangedByFinalize, FirstToFinalize
<1>8. ASSUME NEW t \in Threads, Build(t) PROVE Winner'
  BY <1>8 DEF Build, UnchangedByFinalize, Verdict
<1>9. ASSUME NEW t \in Threads, Export(t) PROVE Winner'
  BY <1>9 DEF Export, UnchangedByFinalize, AfterExport
<1>10. ASSUME NEW t \in Threads, Store(t) PROVE Winner'
  BY <1>10 DEF Store, UnchangedByFinalize
<1>10a. ASSUME NEW t \in Threads, StopSink(t) PROVE Winner'
  BY <1>10a DEF StopSink, UnchangedByFinalize
<1>11. ASSUME NEW t \in Threads, Signal(t) PROVE Winner'
  BY <1>11 DEF Signal, UnchangedByFinalize
<1>12. ASSUME NEW t \in Callers, CallStop(t) PROVE Winner'
  BY <1>12 DEF CallStop, StopGoesOn
<1>13. ASSUME NEW t \in Callers, CancelWaiting(t) PROVE Winner'
  BY <1>13 DEF CancelWaiting, StopGoesOn, Throws
<1>14. ASSUME NEW t \in Callers, CancelNone(t) PROVE Winner'
  BY <1>14 DEF CancelNone, StopGoesOn
<1>15. ASSUME NEW t \in Callers, BeginClose(t) PROVE Winner'
  BY <1>15 DEF BeginClose, StopGoesOn
<1>16. ASSUME NEW t \in Callers, JoinNetwork(t) PROVE Winner'
  BY <1>16 DEF JoinNetwork, StopGoesOn
<1>17. CASE Exit
  BY <1>17 DEF Exit, CompletedSuccessfully
<1>18. CASE UNCHANGED vars
  BY <1>18 DEF vars
<1>19. QED
  BY <1>1, <1>2, <1>3, <1>4, <1>5, <1>6, <1>7, <1>8, <1>9, <1>10, <1>10a,
     <1>11, <1>12, <1>13, <1>14, <1>15, <1>16, <1>17, <1>18
  DEF Next, SessionCode, Finalize, StopStep

(* Every step keeps that the coroutine wins while the network is open.     *)
LEMMA OpenWinsStep == IInv /\ [Next]_vars => OpenWins'
<1> SUFFICES ASSUME TypeOK, Coroutine, Finalizers, Winner, OpenWins,
                    [Next]_vars
             PROVE  OpenWins'
  BY DEF IInv
<1> USE DEF TypeOK, Coroutine, Finalizers, Winner, OpenWins, Winning
<1>1. ASSUME NEW place \in {"network", "waiting", "delayed"}, Suspend(place) PROVE OpenWins'
  BY <1>1 DEF Suspend
<1>2. CASE SessionFails
  BY <1>2 DEF SessionFails, Throws, Runs
<1>3. CASE SessionFinishes
  BY <1>3 DEF SessionFinishes, Runs
<1>4. CASE NetworkResumes
  BY <1>4 DEF NetworkResumes
<1>5. CASE DelayResumes
  BY <1>5 DEF DelayResumes
<1>6. CASE WaitTimesOut
  BY <1>6 DEF WaitTimesOut, Throws
<1>7. ASSUME NEW t \in Threads, EnterFinalize(t) PROVE OpenWins'
  BY <1>7 DEF EnterFinalize, UnchangedByFinalize, FirstToFinalize
<1>8. ASSUME NEW t \in Threads, Build(t) PROVE OpenWins'
  BY <1>8 DEF Build, UnchangedByFinalize, Verdict
<1>9. ASSUME NEW t \in Threads, Export(t) PROVE OpenWins'
  BY <1>9 DEF Export, UnchangedByFinalize, AfterExport
<1>10. ASSUME NEW t \in Threads, Store(t) PROVE OpenWins'
  BY <1>10 DEF Store, UnchangedByFinalize
<1>10a. ASSUME NEW t \in Threads, StopSink(t) PROVE OpenWins'
  BY <1>10a DEF StopSink, UnchangedByFinalize
<1>11. ASSUME NEW t \in Threads, Signal(t) PROVE OpenWins'
  BY <1>11 DEF Signal, UnchangedByFinalize
<1>12. ASSUME NEW t \in Callers, CallStop(t) PROVE OpenWins'
  BY <1>12 DEF CallStop, StopGoesOn
<1>13. ASSUME NEW t \in Callers, CancelWaiting(t) PROVE OpenWins'
  BY <1>13 DEF CancelWaiting, StopGoesOn, Throws
<1>14. ASSUME NEW t \in Callers, CancelNone(t) PROVE OpenWins'
  BY <1>14 DEF CancelNone, StopGoesOn
<1>15. ASSUME NEW t \in Callers, BeginClose(t) PROVE OpenWins'
  BY <1>15 DEF BeginClose, StopGoesOn
<1>16. ASSUME NEW t \in Callers, JoinNetwork(t) PROVE OpenWins'
  BY <1>16 DEF JoinNetwork, StopGoesOn
<1>17. CASE Exit
  BY <1>17 DEF Exit, CompletedSuccessfully
<1>18. CASE UNCHANGED vars
  BY <1>18 DEF vars
<1>19. QED
  BY <1>1, <1>2, <1>3, <1>4, <1>5, <1>6, <1>7, <1>8, <1>9, <1>10, <1>10a,
     <1>11, <1>12, <1>13, <1>14, <1>15, <1>16, <1>17, <1>18
  DEF Next, SessionCode, Finalize, StopStep

(* Every step keeps that the coroutine wins on the network thread.         *)
LEMMA NetworkWinsStep == IInv /\ [Next]_vars => NetworkWins'
<1> SUFFICES ASSUME TypeOK, Coroutine, Finalizers, Winner, OpenWins,
                    NetworkWins, [Next]_vars
             PROVE  NetworkWins'
  BY DEF IInv
<1> USE DEF TypeOK, Coroutine, Finalizers, Winner, OpenWins, NetworkWins, Winning
<1>1. ASSUME NEW place \in {"network", "waiting", "delayed"}, Suspend(place) PROVE NetworkWins'
  BY <1>1 DEF Suspend
<1>2. CASE SessionFails
  BY <1>2 DEF SessionFails, Throws, Runs
<1>3. CASE SessionFinishes
  BY <1>3 DEF SessionFinishes, Runs
<1>4. CASE NetworkResumes
  BY <1>4 DEF NetworkResumes
<1>5. CASE DelayResumes
  BY <1>5 DEF DelayResumes
<1>6. CASE WaitTimesOut
  BY <1>6 DEF WaitTimesOut, Throws
<1>7. ASSUME NEW t \in Threads, EnterFinalize(t) PROVE NetworkWins'
  BY <1>7 DEF EnterFinalize, UnchangedByFinalize, FirstToFinalize
<1>8. ASSUME NEW t \in Threads, Build(t) PROVE NetworkWins'
  BY <1>8 DEF Build, UnchangedByFinalize, Verdict
<1>9. ASSUME NEW t \in Threads, Export(t) PROVE NetworkWins'
  BY <1>9 DEF Export, UnchangedByFinalize, AfterExport
<1>10. ASSUME NEW t \in Threads, Store(t) PROVE NetworkWins'
  BY <1>10 DEF Store, UnchangedByFinalize
<1>10a. ASSUME NEW t \in Threads, StopSink(t) PROVE NetworkWins'
  BY <1>10a DEF StopSink, UnchangedByFinalize
<1>11. ASSUME NEW t \in Threads, Signal(t) PROVE NetworkWins'
  BY <1>11 DEF Signal, UnchangedByFinalize
<1>12. ASSUME NEW t \in Callers, CallStop(t) PROVE NetworkWins'
  BY <1>12 DEF CallStop, StopGoesOn
<1>13. ASSUME NEW t \in Callers, CancelWaiting(t) PROVE NetworkWins'
  BY <1>13 DEF CancelWaiting, StopGoesOn, Throws
<1>14. ASSUME NEW t \in Callers, CancelNone(t) PROVE NetworkWins'
  BY <1>14 DEF CancelNone, StopGoesOn
<1>15. ASSUME NEW t \in Callers, BeginClose(t) PROVE NetworkWins'
  BY <1>15 DEF BeginClose, StopGoesOn
<1>16. ASSUME NEW t \in Callers, JoinNetwork(t) PROVE NetworkWins'
  BY <1>16 DEF JoinNetwork, StopGoesOn
<1>17. CASE Exit
  BY <1>17 DEF Exit, CompletedSuccessfully
<1>18. CASE UNCHANGED vars
  BY <1>18 DEF vars
<1>19. QED
  BY <1>1, <1>2, <1>3, <1>4, <1>5, <1>6, <1>7, <1>8, <1>9, <1>10, <1>10a,
     <1>11, <1>12, <1>13, <1>14, <1>15, <1>16, <1>17, <1>18
  DEF Next, SessionCode, Finalize, StopStep

(* Every step keeps what a stop and the exit of main() tell of completion. *)
LEMMA CompletionStep == IInv /\ [Next]_vars => Completion'
<1> SUFFICES ASSUME TypeOK, Winner, Completion, [Next]_vars PROVE Completion'
  BY DEF IInv
<1> USE DEF TypeOK, Winner, Completion
<1>1. ASSUME NEW place \in {"network", "waiting", "delayed"}, Suspend(place) PROVE Completion'
  BY <1>1 DEF Suspend
<1>2. CASE SessionFails
  BY <1>2 DEF SessionFails, Throws, Runs
<1>3. CASE SessionFinishes
  BY <1>3 DEF SessionFinishes, Runs
<1>4. CASE NetworkResumes
  BY <1>4 DEF NetworkResumes
<1>5. CASE DelayResumes
  BY <1>5 DEF DelayResumes
<1>6. CASE WaitTimesOut
  BY <1>6 DEF WaitTimesOut, Throws
<1>7. ASSUME NEW t \in Threads, EnterFinalize(t) PROVE Completion'
  BY <1>7 DEF EnterFinalize, UnchangedByFinalize, FirstToFinalize
<1>8. ASSUME NEW t \in Threads, Build(t) PROVE Completion'
  BY <1>8 DEF Build, UnchangedByFinalize, Verdict
<1>9. ASSUME NEW t \in Threads, Export(t) PROVE Completion'
  BY <1>9 DEF Export, UnchangedByFinalize, AfterExport
<1>10. ASSUME NEW t \in Threads, Store(t) PROVE Completion'
  BY <1>10 DEF Store, UnchangedByFinalize
<1>10a. ASSUME NEW t \in Threads, StopSink(t) PROVE Completion'
  BY <1>10a DEF StopSink, UnchangedByFinalize
<1>11. ASSUME NEW t \in Threads, Signal(t) PROVE Completion'
  BY <1>11 DEF Signal, UnchangedByFinalize
<1>12. ASSUME NEW t \in Callers, CallStop(t) PROVE Completion'
  BY <1>12 DEF CallStop, StopGoesOn
<1>13. ASSUME NEW t \in Callers, CancelWaiting(t) PROVE Completion'
  BY <1>13 DEF CancelWaiting, StopGoesOn, Throws
<1>14. ASSUME NEW t \in Callers, CancelNone(t) PROVE Completion'
  BY <1>14 DEF CancelNone, StopGoesOn
<1>15. ASSUME NEW t \in Callers, BeginClose(t) PROVE Completion'
  BY <1>15 DEF BeginClose, StopGoesOn
<1>16. ASSUME NEW t \in Callers, JoinNetwork(t) PROVE Completion'
  BY <1>16 DEF JoinNetwork, StopGoesOn
<1>17. CASE Exit
  BY <1>17 DEF Exit, CompletedSuccessfully
<1>18. CASE UNCHANGED vars
  BY <1>18 DEF vars
<1>19. QED
  BY <1>1, <1>2, <1>3, <1>4, <1>5, <1>6, <1>7, <1>8, <1>9, <1>10, <1>10a,
     <1>11, <1>12, <1>13, <1>14, <1>15, <1>16, <1>17, <1>18
  DEF Next, SessionCode, Finalize, StopStep

(* Every step keeps a stored success true: the result was built in state   *)
(* FINISHED, which the coroutine does not leave any more.                  *)
LEMMA SuccessStep == IInv /\ [Next]_vars => SuccessIsEarned'
<1> SUFFICES ASSUME TypeOK, Coroutine, Finalizers, Winner, NetworkWins,
                    SuccessIsEarned, [Next]_vars
             PROVE  SuccessIsEarned'
  BY DEF IInv
<1> USE DEF TypeOK, Coroutine, Finalizers, Winner, NetworkWins, SuccessIsEarned, Winning
<1>1. ASSUME NEW place \in {"network", "waiting", "delayed"}, Suspend(place) PROVE SuccessIsEarned'
  BY <1>1 DEF Suspend
<1>2. CASE SessionFails
  BY <1>2 DEF SessionFails, Throws, Runs
<1>3. CASE SessionFinishes
  BY <1>3 DEF SessionFinishes, Runs
<1>4. CASE NetworkResumes
  BY <1>4 DEF NetworkResumes
<1>5. CASE DelayResumes
  BY <1>5 DEF DelayResumes
<1>6. CASE WaitTimesOut
  BY <1>6 DEF WaitTimesOut, Throws
<1>7. ASSUME NEW t \in Threads, EnterFinalize(t) PROVE SuccessIsEarned'
  BY <1>7 DEF EnterFinalize, UnchangedByFinalize, FirstToFinalize
<1>8. ASSUME NEW t \in Threads, Build(t) PROVE SuccessIsEarned'
  BY <1>8 DEF Build, UnchangedByFinalize, Verdict
<1>9. ASSUME NEW t \in Threads, Export(t) PROVE SuccessIsEarned'
  BY <1>9 DEF Export, UnchangedByFinalize, AfterExport
<1>10. ASSUME NEW t \in Threads, Store(t) PROVE SuccessIsEarned'
  BY <1>10 DEF Store, UnchangedByFinalize
<1>10a. ASSUME NEW t \in Threads, StopSink(t) PROVE SuccessIsEarned'
  BY <1>10a DEF StopSink, UnchangedByFinalize
<1>11. ASSUME NEW t \in Threads, Signal(t) PROVE SuccessIsEarned'
  BY <1>11 DEF Signal, UnchangedByFinalize
<1>12. ASSUME NEW t \in Callers, CallStop(t) PROVE SuccessIsEarned'
  BY <1>12 DEF CallStop, StopGoesOn
<1>13. ASSUME NEW t \in Callers, CancelWaiting(t) PROVE SuccessIsEarned'
  BY <1>13 DEF CancelWaiting, StopGoesOn, Throws
<1>14. ASSUME NEW t \in Callers, CancelNone(t) PROVE SuccessIsEarned'
  BY <1>14 DEF CancelNone, StopGoesOn
<1>15. ASSUME NEW t \in Callers, BeginClose(t) PROVE SuccessIsEarned'
  BY <1>15 DEF BeginClose, StopGoesOn
<1>16. ASSUME NEW t \in Callers, JoinNetwork(t) PROVE SuccessIsEarned'
  BY <1>16 DEF JoinNetwork, StopGoesOn
<1>17. CASE Exit
  BY <1>17 DEF Exit, CompletedSuccessfully
<1>18. CASE UNCHANGED vars
  BY <1>18 DEF vars
<1>19. QED
  BY <1>1, <1>2, <1>3, <1>4, <1>5, <1>6, <1>7, <1>8, <1>9, <1>10, <1>10a,
     <1>11, <1>12, <1>13, <1>14, <1>15, <1>16, <1>17, <1>18
  DEF Next, SessionCode, Finalize, StopStep

(* Every step keeps the result behind a completion nobody stopped: the     *)
(* step that completes first is then that of the winner.                   *)
LEMMA CompletionHasResultStep == IInv /\ [Next]_vars => CompletionHasResult'
<1> SUFFICES ASSUME TypeOK, Finalizers, Winner, OpenWins, Completion,
                    CompletionHasResult, [Next]_vars
             PROVE  CompletionHasResult'
  BY DEF IInv
<1> USE DEF TypeOK, Finalizers, Winner, OpenWins, Completion,
            CompletionHasResult, Winning
<1>1. ASSUME NEW place \in {"network", "waiting", "delayed"}, Suspend(place) PROVE CompletionHasResult'
  BY <1>1 DEF Suspend
<1>2. CASE SessionFails
  BY <1>2 DEF SessionFails, Throws, Runs
<1>3. CASE SessionFinishes
  BY <1>3 DEF SessionFinishes, Runs
<1>4. CASE NetworkResumes
  BY <1>4 DEF NetworkResumes
<1>5. CASE DelayResumes
  BY <1>5 DEF DelayResumes
<1>6. CASE WaitTimesOut
  BY <1>6 DEF WaitTimesOut, Throws
<1>7. ASSUME NEW t \in Threads, EnterFinalize(t) PROVE CompletionHasResult'
  BY <1>7 DEF EnterFinalize, UnchangedByFinalize, FirstToFinalize
<1>8. ASSUME NEW t \in Threads, Build(t) PROVE CompletionHasResult'
  BY <1>8 DEF Build, UnchangedByFinalize, Verdict
<1>9. ASSUME NEW t \in Threads, Export(t) PROVE CompletionHasResult'
  BY <1>9 DEF Export, UnchangedByFinalize, AfterExport
<1>10. ASSUME NEW t \in Threads, Store(t) PROVE CompletionHasResult'
  BY <1>10 DEF Store, UnchangedByFinalize
<1>10a. ASSUME NEW t \in Threads, StopSink(t) PROVE CompletionHasResult'
  BY <1>10a DEF StopSink, UnchangedByFinalize
<1>11. ASSUME NEW t \in Threads, Signal(t) PROVE CompletionHasResult'
  BY <1>11 DEF Signal, UnchangedByFinalize
<1>12. ASSUME NEW t \in Callers, CallStop(t) PROVE CompletionHasResult'
  BY <1>12 DEF CallStop, StopGoesOn
<1>13. ASSUME NEW t \in Callers, CancelWaiting(t) PROVE CompletionHasResult'
  BY <1>13 DEF CancelWaiting, StopGoesOn, Throws
<1>14. ASSUME NEW t \in Callers, CancelNone(t) PROVE CompletionHasResult'
  BY <1>14 DEF CancelNone, StopGoesOn
<1>15. ASSUME NEW t \in Callers, BeginClose(t) PROVE CompletionHasResult'
  BY <1>15 DEF BeginClose, StopGoesOn
<1>16. ASSUME NEW t \in Callers, JoinNetwork(t) PROVE CompletionHasResult'
  BY <1>16 DEF JoinNetwork, StopGoesOn
<1>17. CASE Exit
  BY <1>17 DEF Exit, CompletedSuccessfully
<1>18. CASE UNCHANGED vars
  BY <1>18 DEF vars
<1>19. QED
  BY <1>1, <1>2, <1>3, <1>4, <1>5, <1>6, <1>7, <1>8, <1>9, <1>10, <1>10a,
     <1>11, <1>12, <1>13, <1>14, <1>15, <1>16, <1>17, <1>18
  DEF Next, SessionCode, Finalize, StopStep

(* Every step keeps the exit code in agreement with the result: a success  *)
(* is stored before completion, which main() waits for.                    *)
LEMMA ExitCodeStep == IInv /\ [Next]_vars => ExitCodeRight'
<1> SUFFICES ASSUME TypeOK, Coroutine, Finalizers, Winner, NetworkWins,
                    Completion, SuccessIsEarned, ExitCodeRight,
                    [Next]_vars
             PROVE  ExitCodeRight'
  BY DEF IInv
<1> USE DEF TypeOK, Coroutine, Finalizers, Winner, NetworkWins, Completion,
            SuccessIsEarned, ExitCodeRight, Winning
<1>1. ASSUME NEW place \in {"network", "waiting", "delayed"}, Suspend(place) PROVE ExitCodeRight'
  BY <1>1 DEF Suspend
<1>2. CASE SessionFails
  BY <1>2 DEF SessionFails, Throws, Runs
<1>3. CASE SessionFinishes
  BY <1>3 DEF SessionFinishes, Runs
<1>4. CASE NetworkResumes
  BY <1>4 DEF NetworkResumes
<1>5. CASE DelayResumes
  BY <1>5 DEF DelayResumes
<1>6. CASE WaitTimesOut
  BY <1>6 DEF WaitTimesOut, Throws
<1>7. ASSUME NEW t \in Threads, EnterFinalize(t) PROVE ExitCodeRight'
  BY <1>7 DEF EnterFinalize, UnchangedByFinalize, FirstToFinalize
<1>8. ASSUME NEW t \in Threads, Build(t) PROVE ExitCodeRight'
  BY <1>8 DEF Build, UnchangedByFinalize, Verdict
<1>9. ASSUME NEW t \in Threads, Export(t) PROVE ExitCodeRight'
  BY <1>9 DEF Export, UnchangedByFinalize, AfterExport
<1>10. ASSUME NEW t \in Threads, Store(t) PROVE ExitCodeRight'
  BY <1>10 DEF Store, UnchangedByFinalize
<1>10a. ASSUME NEW t \in Threads, StopSink(t) PROVE ExitCodeRight'
  BY <1>10a DEF StopSink, UnchangedByFinalize
<1>11. ASSUME NEW t \in Threads, Signal(t) PROVE ExitCodeRight'
  BY <1>11 DEF Signal, UnchangedByFinalize
<1>12. ASSUME NEW t \in Callers, CallStop(t) PROVE ExitCodeRight'
  BY <1>12 DEF CallStop, StopGoesOn
<1>13. ASSUME NEW t \in Callers, CancelWaiting(t) PROVE ExitCodeRight'
  BY <1>13 DEF CancelWaiting, StopGoesOn, Throws
<1>14. ASSUME NEW t \in Callers, CancelNone(t) PROVE ExitCodeRight'
  BY <1>14 DEF CancelNone, StopGoesOn
<1>15. ASSUME NEW t \in Callers, BeginClose(t) PROVE ExitCodeRight'
  BY <1>15 DEF BeginClose, StopGoesOn
<1>16. ASSUME NEW t \in Callers, JoinNetwork(t) PROVE ExitCodeRight'
  BY <1>16 DEF JoinNetwork, StopGoesOn
<1>17. CASE Exit
  BY <1>17 DEF Exit, CompletedSuccessfully
<1>18. CASE UNCHANGED vars
  BY <1>18 DEF vars
<1>19. QED
  BY <1>1, <1>2, <1>3, <1>4, <1>5, <1>6, <1>7, <1>8, <1>9, <1>10, <1>10a,
     <1>11, <1>12, <1>13, <1>14, <1>15, <1>16, <1>17, <1>18
  DEF Next, SessionCode, Finalize, StopStep

(* The initial states satisfy the invariant.                               *)
LEMMA Initially == Init => IInv
BY DEF Init, IInv, TypeOK, Coroutine, Finalizers, Winner, OpenWins, NetworkWins, Completion,
       SuccessIsEarned, CompletionHasResult, ExitCodeRight, Winning, Places, FinalizePCs,
       StopPCs, Results

(* The invariant holds in every reachable state.                           *)
THEOREM Invariance == SafetySpec => []IInv
<1>1. IInv /\ [Next]_vars => IInv'
  BY TypeStep, CoroutineStep, FinalizersStep, WinnerStep, OpenWinsStep, NetworkWinsStep,
     CompletionStep, SuccessStep, CompletionHasResultStep, ExitCodeStep DEF IInv
<1>2. QED
  BY Initially, <1>1, PTL DEF SafetySpec

(* Every variable has its type, in every reachable state.                  *)
THEOREM TypeCorrect == Spec => []TypeOK
<1>1. IInv => TypeOK
  BY DEF IInv
<1>2. QED
  BY <1>1, Invariance, PTL DEF Spec

(* A result that says success is that of a session that finished with      *)
(* valid statistics and without an exception, whoever finalized it.        *)
THEOREM SuccessEarned == Spec => []SuccessIsEarned
<1>1. IInv => SuccessIsEarned
  BY DEF IInv
<1>2. QED
  BY <1>1, Invariance, PTL DEF Spec

(* Completion of a test nobody stopped finds the result stored and the     *)
(* files written.                                                          *)
THEOREM CompletedWithResult == Spec => []CompletionHasResult
<1>1. IInv => CompletionHasResult
  BY DEF IInv
<1>2. QED
  BY <1>1, Invariance, PTL DEF Spec

(* main() returns 0 exactly when the stored result is a success.           *)
THEOREM ExitCodeAgrees == Spec => []ExitCodeRight
<1>1. IInv => ExitCodeRight
  BY DEF IInv
<1>2. QED
  BY <1>1, Invariance, PTL DEF Spec

(* finalizeResultOnce() stores one result: only the winner stores, and it  *)
(* finds none there.                                                       *)
THEOREM ResultStoredOnce == Spec => ResultIsFinal
<1> DEFINE A == lastResult # "none" => lastResult' = lastResult
<1>1. IInv /\ [Next]_vars => A
  <2> SUFFICES ASSUME IInv, [Next]_vars, lastResult # "none", lastResult' # lastResult
               PROVE  FALSE
    OBVIOUS
  <2>1. PICK t \in Threads : Store(t)
    BY DEF Next, vars, SessionCode, Suspend, SessionFails, SessionFinishes, NetworkResumes,
           DelayResumes, WaitTimesOut, Finalize, EnterFinalize, Build, Export, StopSink,
           Signal, CallStop, StopStep, CancelWaiting, CancelNone, BeginClose, JoinNetwork, Exit
  <2>2. QED
    BY <2>1 DEF IInv, Winner, Winning, Store
<1>2. IInv /\ [Next]_vars => [A]_vars
  BY <1>1
<1>3. SafetySpec => [][A]_vars
  BY <1>2, Invariance, PTL DEF SafetySpec
<1>4. QED
  BY <1>3 DEF Spec, ResultIsFinal

-----------------------------------------------------------------------------
(* Who brings completion about.  CompletionComes is liveness; it rests on  *)
(* two invariants: somebody is at work on completion, and that somebody    *)
(* does not wait for itself.                                               *)

AtWork ==
  \/ \E t \in Threads : finalizing[t] # "no"
  \/ \E t \in Callers : stopping[t] \in {"cancelAll", "cancelled", "close"}

(* Once the test is being stopped or the session has come to its end,      *)
(* completion is there or somebody is at work on it.                       *)
CompletionInHand == stopped \/ state # "ACTIVE" => completed \/ AtWork

(* A thread in stopTest() runs the coroutine only when cancelAll() has     *)
(* resumed it, and then the coroutine is on its way to its end; a thread   *)
(* that stopTest() has brought to finalizeResultOnce() is inside it.       *)
StopsForward ==
  \A t \in Callers :
    /\ stopping[t] = "finalize" => finalizing[t] # "no"
    /\ stopping[t] # "no" /\ host = t => stopping[t] = "cancelled" /\ finalizing[t] # "no"

(* Every step that takes one from the work has brought completion, or      *)
(* leaves another.                                                         *)
LEMMA InHandStep == IInv /\ CompletionInHand /\ [Next]_vars => CompletionInHand'
<1> SUFFICES ASSUME TypeOK, Coroutine, CompletionInHand, [Next]_vars PROVE CompletionInHand'
  BY DEF IInv
<1> USE DEF TypeOK, CompletionInHand, AtWork
<1>1. ASSUME NEW place \in {"network", "waiting", "delayed"}, Suspend(place) PROVE CompletionInHand'
  BY <1>1 DEF Suspend
<1>2. CASE SessionFails
  <2>1. host \in Threads /\ finalizing'[host] = "enter"
    BY <1>2 DEF SessionFails, Throws, Runs, Coroutine
  <2>2. QED
    BY <2>1
<1>3. CASE SessionFinishes
  BY <1>3 DEF SessionFinishes, Runs
<1>4. CASE NetworkResumes
  BY <1>4 DEF NetworkResumes
<1>5. CASE DelayResumes
  BY <1>5 DEF DelayResumes
<1>6. CASE WaitTimesOut
  BY <1>6 DEF WaitTimesOut, Throws
<1>7. ASSUME NEW t \in Threads, EnterFinalize(t) PROVE CompletionInHand'
  BY <1>7 DEF EnterFinalize, UnchangedByFinalize, FirstToFinalize
<1>8. ASSUME NEW t \in Threads, Build(t) PROVE CompletionInHand'
  BY <1>8 DEF Build, UnchangedByFinalize
<1>9. ASSUME NEW t \in Threads, Export(t) PROVE CompletionInHand'
  BY <1>9 DEF Export, UnchangedByFinalize, AfterExport
<1>10. ASSUME NEW t \in Threads, Store(t) PROVE CompletionInHand'
  BY <1>10 DEF Store, UnchangedByFinalize
<1>10a. ASSUME NEW t \in Threads, StopSink(t) PROVE CompletionInHand'
  BY <1>10a DEF StopSink, UnchangedByFinalize
<1>11. ASSUME NEW t \in Threads, Signal(t) PROVE CompletionInHand'
  BY <1>11 DEF Signal, UnchangedByFinalize
<1>12. ASSUME NEW t \in Callers, CallStop(t) PROVE CompletionInHand'
  BY <1>12 DEF CallStop, StopGoesOn
<1>13. ASSUME NEW t \in Callers, CancelWaiting(t) PROVE CompletionInHand'
  BY <1>13 DEF CancelWaiting, StopGoesOn, Throws
<1>14. ASSUME NEW t \in Callers, CancelNone(t) PROVE CompletionInHand'
  BY <1>14 DEF CancelNone, StopGoesOn
<1>15. ASSUME NEW t \in Callers, BeginClose(t) PROVE CompletionInHand'
  BY <1>15 DEF BeginClose, StopGoesOn
<1>16. ASSUME NEW t \in Callers, JoinNetwork(t) PROVE CompletionInHand'
  BY <1>16 DEF JoinNetwork, StopGoesOn
<1>17. CASE Exit
  BY <1>17 DEF Exit
<1>18. CASE UNCHANGED vars
  BY <1>18 DEF vars
<1>19. QED
  BY <1>1, <1>2, <1>3, <1>4, <1>5, <1>6, <1>7, <1>8, <1>9, <1>10, <1>10a,
     <1>11, <1>12, <1>13, <1>14, <1>15, <1>16, <1>17, <1>18
  DEF Next, SessionCode, Finalize, StopStep

(* Every step keeps a stopping thread from waiting for itself.             *)
LEMMA ForwardStep == IInv /\ StopsForward /\ [Next]_vars => StopsForward'
<1> SUFFICES ASSUME TypeOK, StopsForward, [Next]_vars PROVE StopsForward'
  BY DEF IInv
<1> USE DEF TypeOK, StopsForward
<1>1. ASSUME NEW place \in {"network", "waiting", "delayed"}, Suspend(place) PROVE StopsForward'
  BY <1>1 DEF Suspend
<1>2. CASE SessionFails
  BY <1>2 DEF SessionFails, Throws, Runs
<1>3. CASE SessionFinishes
  BY <1>3 DEF SessionFinishes, Runs
<1>4. CASE NetworkResumes
  BY <1>4 DEF NetworkResumes
<1>5. CASE DelayResumes
  BY <1>5 DEF DelayResumes
<1>6. CASE WaitTimesOut
  BY <1>6 DEF WaitTimesOut, Throws
<1>7. ASSUME NEW t \in Threads, EnterFinalize(t) PROVE StopsForward'
  BY <1>7 DEF EnterFinalize, UnchangedByFinalize, FirstToFinalize
<1>8. ASSUME NEW t \in Threads, Build(t) PROVE StopsForward'
  BY <1>8 DEF Build, UnchangedByFinalize
<1>9. ASSUME NEW t \in Threads, Export(t) PROVE StopsForward'
  BY <1>9 DEF Export, UnchangedByFinalize, AfterExport
<1>10. ASSUME NEW t \in Threads, Store(t) PROVE StopsForward'
  BY <1>10 DEF Store, UnchangedByFinalize
<1>10a. ASSUME NEW t \in Threads, StopSink(t) PROVE StopsForward'
  BY <1>10a DEF StopSink, UnchangedByFinalize
<1>11. ASSUME NEW t \in Threads, Signal(t) PROVE StopsForward'
  BY <1>11 DEF Signal, UnchangedByFinalize
<1>12. ASSUME NEW t \in Callers, CallStop(t) PROVE StopsForward'
  BY <1>12 DEF CallStop, StopGoesOn
<1>13. ASSUME NEW t \in Callers, CancelWaiting(t) PROVE StopsForward'
  BY <1>13 DEF CancelWaiting, StopGoesOn, Throws
<1>14. ASSUME NEW t \in Callers, CancelNone(t) PROVE StopsForward'
  BY <1>14 DEF CancelNone, StopGoesOn
<1>15. ASSUME NEW t \in Callers, BeginClose(t) PROVE StopsForward'
  BY <1>15 DEF BeginClose, StopGoesOn
<1>16. ASSUME NEW t \in Callers, JoinNetwork(t) PROVE StopsForward'
  BY <1>16 DEF JoinNetwork, StopGoesOn
<1>17. CASE Exit
  BY <1>17 DEF Exit
<1>18. CASE UNCHANGED vars
  BY <1>18 DEF vars
<1>19. QED
  BY <1>1, <1>2, <1>3, <1>4, <1>5, <1>6, <1>7, <1>8, <1>9, <1>10, <1>10a,
     <1>11, <1>12, <1>13, <1>14, <1>15, <1>16, <1>17, <1>18
  DEF Next, SessionCode, Finalize, StopStep

(* The safety half of CompletionComes: nobody who waits for completion is  *)
(* forgotten, in whatever order the coroutine and the stopping threads     *)
(* pass through stopTest() and finalizeResultOnce().                       *)
THEOREM CompletionNotForgotten == Spec => []CompletionInHand
<1>1. Init => CompletionInHand
  BY DEF Init, CompletionInHand
<1>2. QED
  BY <1>1, InHandStep, Invariance, PTL DEF Spec, SafetySpec

(* stopTest() never waits for its own thread, although cancelAll() may run *)
(* the coroutine on it and close() joins the thread the coroutine runs on. *)
THEOREM StopNeverJoinsItself == Spec => []StopsForward
<1>1. Init => StopsForward
  BY DEF Init, StopsForward
<1>2. QED
  BY <1>1, ForwardStep, Invariance, PTL DEF Spec, SafetySpec
=============================================================================
