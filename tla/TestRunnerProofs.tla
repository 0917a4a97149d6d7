-------------------------- MODULE TestRunnerProofs --------------------------
(***************************************************************************)
(* What the TestRunner's exit code, its processes and the summary of its   *)
(* server mean, and what its client and its server wait for, for any ports *)
(* and any number of runs.                                                 *)
(***************************************************************************)
EXTENDS TestRunner, TLAPS

USE RunnerAssumption

(* Where the client is with a test.                                        *)
Stage(t) ==
  IF t[1] < run THEN "done" ELSE IF t[1] > run THEN "start" ELSE thread[t[2]]

(* The IPEFTC client of a test lives between its launch and the request    *)
(* for the results.                                                        *)
ClientByStage ==
  \A t \in Tests :
    /\ Stage(t) \in {"start", "ready?"} => process["client"][t] = "none"
    /\ Stage(t) = "results?" => process["client"][t] = "exited"
    /\ Stage(t) = "done" => process["client"][t] \in {"none", "exited"}

(* The client exits after its last run, with 0 only if every test passed.  *)
ExitInOrder ==
  /\ exitCode # -1 => run = Runs /\ RunCompleted
  /\ exitCode = 0 => \A t \in Tests : verdict[t] = "pass"

(* A living IPEFTC server has a handler that will end it; the server's     *)
(* main thread ends after all handlers.                                    *)
ServerOwned ==
  /\ \A t \in Tests : Alive(t) => owns[t] /\ handler[t] \in {"reading", "readiness", "exit?"}
  /\ acceptor = "ended" => AllJoined

(* The handler has answered the request for the results.                   *)
Answered(t) == handler[t] = "answered" \/ t \in history

(* The IPEFTC server of a test ended by itself, with a result that passes. *)
ServerPassed(t) == process["server"][t] = "exited" /\ Passed("server", t)

(* A RESULTS_PASS, and a verdict that rests on it, come from an answered   *)
(* request and a server that passed.                                       *)
PassIsFounded ==
  \A t \in Tests :
    /\ t \in history => handler[t] = "done"
    /\ toClient[t] = "RESULTS_PASS" => Answered(t) /\ ServerPassed(t)
    /\ verdict[t] = "pass" =>
         /\ Answered(t) /\ ServerPassed(t)
         /\ Stage(t) = "done"
         /\ process["client"][t] = "exited" /\ Passed("client", t)

(* With result files a result is never better than its test.               *)
ReportsEarned == exports => \A r \in Roles, t \in Tests : report[r][t] # "unearned"

IInv ==
  TypeOK /\ ClientByStage /\ ExitInOrder /\ ServerOwned /\ PassIsFounded /\ ReportsEarned

-----------------------------------------------------------------------------
(* The test a thread of the client works on.                               *)
LEMMA CurrentIsTest ==
  ASSUME TypeOK, NEW p \in Ports
  PROVE  Current(p) \in Tests /\ Current(p) \in Conns
<1>1. run \in 1..Runs
  BY DEF TypeOK
<1> QED BY <1>1 DEF Current, Tests, Conns

(* The connection for SERVER_SHUTDOWN belongs to no test.                  *)
LEMMA ShutdownIsNoTest == ShutdownConn \in Conns /\ ShutdownConn \notin Tests
BY DEF ShutdownConn, Conns, Tests

(* What is read out of an ended process.                                   *)
LEMMA ReadingTypes ==
  ASSUME NEW success \in BOOLEAN, NEW x \in Reading(success), exports \in BOOLEAN
  PROVE  x \in {"pass", "unearned", "fail"} /\ (exports => x # "unearned")
<1>1. x \in {"pass", "unearned", "fail"}
  BY DEF Reading
<1>2. ASSUME exports PROVE x # "unearned"
  <2>1. Files(success) = {IF success THEN "pass" ELSE "fail"}
    BY <1>2 DEF Files
  <2> QED BY <2>1 DEF Reading, Judged
<1> QED BY <1>1, <1>2

(* The stages, when one thread of the client moves on.                     *)
LEMMA ThreadStage ==
  ASSUME TypeOK, NEW p \in Ports, NEW at, thread' = [thread EXCEPT ![p] = at], UNCHANGED run
  PROVE  /\ Stage(Current(p)) = thread[p] /\ Stage(Current(p))' = at
         /\ \A u \in Tests : u # Current(p) => Stage(u)' = Stage(u)
<1>1. thread \in [Ports -> {"start", "ready?", "exit?", "results?", "done"}] /\ run \in 1..Runs
  BY DEF TypeOK
<1>2. Stage(Current(p)) = thread[p] /\ Stage(Current(p))' = at
  BY <1>1 DEF Stage, Current
<1>3. ASSUME NEW u \in Tests, u # Current(p)
      PROVE  Stage(u)' = Stage(u)
  <2>1. u[1] \in 1..Runs /\ u[2] \in Ports /\ u = <<u[1], u[2]>>
    BY DEF Tests
  <2>2. u[1] = run => u[2] # p
    BY <2>1, <1>3 DEF Current
  <2> QED BY <2>1, <2>2, <1>1 DEF Stage
<1> QED BY <1>2, <1>3

(* The next run begins where the last one has ended.                       *)
LEMMA NextRunStage ==
  ASSUME TypeOK, NextRun, NEW u \in Tests
  PROVE  Stage(u)' = Stage(u)
<1>1. /\ run \in 1..Runs /\ run' = run + 1
      /\ thread' = [p \in Ports |-> "start"] /\ \A p \in Ports : thread[p] = "done"
  BY DEF TypeOK, NextRun, RunCompleted
<1>2. u[1] \in 1..Runs /\ u[2] \in Ports
  BY DEF Tests
<1>3. CASE u[1] <= run
  <2>1. thread[u[2]] = "done" /\ (u[1] < run \/ u[1] = run)
    <3>1. thread[u[2]] = "done"
      BY <1>1, <1>2
    <3>2. u[1] < run \/ u[1] = run
      <4>1. u[1] \in Int /\ run \in Int
        BY <1>1, <1>2
      <4> QED BY <4>1, <1>3
    <3> QED BY <3>1, <3>2
  <2>3. Stage(u) = "done"
    <3>1. CASE u[1] < run
      BY <3>1 DEF Stage
    <3>2. CASE u[1] = run /\ thread[u[2]] = "done"
      BY <3>2, <1>1 DEF Stage
    <3> QED BY <2>1, <3>1, <3>2
  <2>2. u[1] < run'
    BY <1>1, <1>2, <1>3
  <2> QED BY <2>3, <2>2 DEF Stage
<1>4. CASE u[1] > run
  <2>1. Stage(u) = "start"
    BY <1>1, <1>2, <1>4 DEF Stage
  <2>2. u[1] >= run'
    BY <1>1, <1>2, <1>4
  <2>3. Stage(u)' = "start"
    BY <2>2, <1>1, <1>2 DEF Stage
  <2> QED BY <2>1, <2>3
<1> QED BY <1>1, <1>2, <1>3, <1>4

(* A process ends and is read.                                             *)
LEMMA ExitsTypes ==
  ASSUME TypeOK, NEW r \in Roles, NEW t \in Tests, NEW success \in BOOLEAN, Exits(r, t, success)
  PROVE  TypeOK'
<1>1. PICK x \in Reading(success) : report' = [report EXCEPT ![r][t] = x]
  BY DEF Exits
<1>2. x \in {"pass", "unearned", "fail"}
  BY ReadingTypes DEF TypeOK
<1> QED BY <1>1, <1>2 DEF TypeOK, Exits, clientVars, serverVars, environment

(* Every step keeps the types.                                             *)
LEMMA TypeStep == TypeOK /\ [Next]_vars => TypeOK'
<1> SUFFICES ASSUME TypeOK, [Next]_vars
             PROVE  TypeOK'
  OBVIOUS
<1> USE DEF TypeOK, Requests, Replies, Roles, clientVars, serverVars, processVars, environment
<1>1. ASSUME NEW p \in Ports, SendConfig(p)
      PROVE  TypeOK'
  <2>1. Current(p) \in Tests /\ Current(p) \in Conns
    BY CurrentIsTest
  <2> QED BY <2>1, <1>1 DEF SendConfig
<1>2. ASSUME NEW p \in Ports, ConnectFails(p)
      PROVE  TypeOK'
  <2>1. Current(p) \in Tests /\ Current(p) \in Conns
    BY CurrentIsTest
  <2> QED BY <2>1, <1>2 DEF ConnectFails, Finish
<1>3. ASSUME NEW p \in Ports, LaunchClient(p)
      PROVE  TypeOK'
  <2>1. Current(p) \in Tests /\ Current(p) \in Conns
    BY CurrentIsTest
  <2> QED BY <2>1, <1>3 DEF LaunchClient, ClientLaunched
<1>4. ASSUME NEW p \in Ports, TestFailsToStart(p)
      PROVE  TypeOK'
  <2>1. Current(p) \in Tests /\ Current(p) \in Conns
    BY CurrentIsTest
  <2> QED BY <2>1, <1>4 DEF TestFailsToStart, Finish
<1>5. ASSUME NEW p \in Ports, RequestResults(p)
      PROVE  TypeOK'
  <2>1. Current(p) \in Tests /\ Current(p) \in Conns
    BY CurrentIsTest
  <2> QED BY <2>1, <1>5 DEF RequestResults
<1>6. ASSUME NEW p \in Ports, RequestFails(p)
      PROVE  TypeOK'
  <2>1. Current(p) \in Tests /\ Current(p) \in Conns
    BY CurrentIsTest
  <2> QED BY <2>1, <1>6 DEF RequestFails, Finish
<1>7. ASSUME NEW p \in Ports, ReceiveResults(p)
      PROVE  TypeOK'
  <2>1. Current(p) \in Tests /\ Current(p) \in Conns
    BY CurrentIsTest
  <2> QED BY <2>1, <1>7 DEF ReceiveResults, Finish, Verdict
<1>8. ASSUME NEW p \in Ports, ConnectionLost(p)
      PROVE  TypeOK'
  <2>1. Current(p) \in Tests /\ Current(p) \in Conns
    BY CurrentIsTest
  <2> QED BY <2>1, <1>8 DEF ConnectionLost, Finish
<1>9. ASSUME NEW t \in Tests, LaunchServer(t)
      PROVE  TypeOK'
  BY <1>9 DEF LaunchServer, Takes, ServerLaunched, Conns
<1>10. ASSUME NEW t \in Tests, LaunchServerFails(t)
      PROVE  TypeOK'
  BY <1>10 DEF LaunchServerFails, Takes, ReportError, Reply, Conns
<1>11. ASSUME NEW t \in Tests, ServerReady(t)
      PROVE  TypeOK'
  BY <1>11 DEF ServerReady, Reply, Conns
<1>12. ASSUME NEW t \in Tests, ServerNotReady(t)
      PROVE  TypeOK'
  BY <1>12 DEF ServerNotReady, ReportError, Reply, Terminated, Conns
<1>13. ASSUME NEW t \in Tests, HandleResultsRequest(t)
      PROVE  TypeOK'
  BY <1>13 DEF HandleResultsRequest, Takes, Reply, Conns
<1>14. ASSUME NEW t \in Tests, SendResults(t)
      PROVE  TypeOK'
  BY <1>14 DEF SendResults, Reply, Conns
<1>15. ASSUME NEW t \in Tests, StoreHistory(t)
      PROVE  TypeOK'
  BY <1>15 DEF StoreHistory, Conns
<1>16. ASSUME NEW t \in Tests, ClientGone(t)
      PROVE  TypeOK'
  BY <1>16 DEF ClientGone, Cleanup, Terminated, Conns
<1>17. ASSUME NEW t \in Tests, ServerListens(t)
      PROVE  TypeOK'
  BY <1>17 DEF ServerListens, Conns
<1>18. ASSUME NEW t \in Tests, ServerStartFails(t)
      PROVE  TypeOK'
  BY <1>18 DEF ServerStartFails, Conns
<1>19. ASSUME NEW t \in Tests, TestStarts(t)
      PROVE  TypeOK'
  BY <1>19 DEF TestStarts, Conns
<1>20. ASSUME NEW t \in Tests, ClientGivesUp(t)
      PROVE  TypeOK'
  BY <1>20, ExitsTypes DEF ClientGivesUp
<1>21. ASSUME NEW t \in Tests, Break(t)
      PROVE  TypeOK'
  BY <1>21 DEF Break, Conns
<1>22. ASSUME NEW t \in Tests, NEW r \in Roles, TestEnds(r, t)
      PROVE  TypeOK'
  BY <1>22, ExitsTypes DEF TestEnds
<1>23. CASE CheckRunning
  BY <1>23 DEF CheckRunning
<1>24. CASE CallAccept
  BY <1>24 DEF CallAccept
<1>25. CASE AcceptInterrupted
  BY <1>25 DEF AcceptInterrupted
<1>26. CASE JoinClientThreads
  BY <1>26 DEF JoinClientThreads
<1>27. CASE NextRun
  BY <1>27 DEF NextRun
<1>28. CASE SendShutdown
  BY <1>28, ShutdownIsNoTest DEF SendShutdown, ExitCode
<1>29. CASE HandleShutdown
  BY <1>29, ShutdownIsNoTest DEF HandleShutdown, Takes
<1>30. ASSUME NEW c \in Conns, Accept(c)
      PROVE  TypeOK'
  BY <1>30 DEF Accept
<1>31. CASE UNCHANGED vars
  BY <1>31 DEF vars
<1> QED BY <1>1, <1>2, <1>3, <1>4, <1>5, <1>6, <1>7, <1>8, <1>9, <1>10, <1>11, <1>12, <1>13,
           <1>14, <1>15, <1>16, <1>17, <1>18, <1>19, <1>20, <1>21, <1>22, <1>23, <1>24, <1>25,
           <1>26, <1>27, <1>28, <1>29, <1>30, <1>31
         DEF Next, ThreadStep, AcceptorStep, HandlerStep, ProcessStep

(* A thread that goes on to a stage that fits its IPEFTC client keeps the  *)
(* agreement.                                                              *)
LEMMA StageMoves ==
  ASSUME TypeOK, ClientByStage, NEW p \in Ports, NEW at,
         thread' = [thread EXCEPT ![p] = at], UNCHANGED <<run, process>>,
         at = "ready?" => process["client"][Current(p)] = "none",
         at = "results?" => process["client"][Current(p)] = "exited",
         at = "done" => process["client"][Current(p)] \in {"none", "exited"},
         at # "start"
  PROVE  ClientByStage'
<1>1. /\ Stage(Current(p))' = at
      /\ \A u \in Tests : u # Current(p) => Stage(u)' = Stage(u)
  BY ThreadStage
<1>2. process' = process
  OBVIOUS
<1>3. ASSUME NEW u \in Tests
      PROVE  /\ Stage(u)' \in {"start", "ready?"} => process'["client"][u] = "none"
             /\ Stage(u)' = "results?" => process'["client"][u] = "exited"
             /\ Stage(u)' = "done" => process'["client"][u] \in {"none", "exited"}
  <2>1. CASE u = Current(p)
    <3>1. Stage(u)' = at
      BY <1>1, <2>1 DEF Current
    <3> QED BY <3>1, <1>2, <2>1
  <2>2. CASE u # Current(p)
    <3>1. Stage(u)' = Stage(u)
      BY <1>1, <2>2
    <3> QED BY <3>1, <1>2 DEF ClientByStage
  <2> QED BY <2>1, <2>2
<1> QED BY <1>3 DEF ClientByStage

(* Every step keeps the IPEFTC clients in agreement with the stages.       *)
LEMMA StageStep == TypeOK /\ ClientByStage /\ [Next]_vars => ClientByStage'
<1> SUFFICES ASSUME TypeOK, ClientByStage, [Next]_vars
             PROVE  ClientByStage'
  OBVIOUS
<1>p. ASSUME NEW p \in Ports
      PROVE  /\ thread[p] \in {"start", "ready?"} => process["client"][Current(p)] = "none"
             /\ thread[p] = "results?" => process["client"][Current(p)] = "exited"
  <2>1. Current(p) \in Tests
    BY CurrentIsTest
  <2>2. Stage(Current(p)) = thread[p]
    BY DEF Stage, Current, TypeOK
  <2> QED BY <2>1, <2>2 DEF ClientByStage
<1>1. ASSUME NEW p \in Ports, SendConfig(p)
      PROVE  ClientByStage'
  <2>1. /\ thread' = [thread EXCEPT ![p] = "ready?"] /\ UNCHANGED <<run, process>>
        /\ process["client"][Current(p)] = "none"
    BY <1>1, <1>p DEF SendConfig, processVars
  <2> QED BY <2>1, StageMoves
<1>2. ASSUME NEW p \in Ports, ConnectFails(p)
      PROVE  ClientByStage'
  <2>1. /\ thread' = [thread EXCEPT ![p] = "done"] /\ UNCHANGED <<run, process>>
        /\ process["client"][Current(p)] \in {"none", "exited"}
    BY <1>2, <1>p DEF ConnectFails, Finish, processVars
  <2> QED BY <2>1, StageMoves
<1>3. ASSUME NEW p \in Ports, LaunchClient(p)
      PROVE  ClientByStage'
  <2>1. /\ thread' = [thread EXCEPT ![p] = "exit?"] /\ UNCHANGED run
        /\ process' = [process EXCEPT !["client"][Current(p)] = "running"]
    BY <1>3 DEF LaunchClient, ClientLaunched
  <2>2. /\ Stage(Current(p))' = "exit?"
        /\ \A u \in Tests : u # Current(p) => Stage(u)' = Stage(u)
    BY <2>1, ThreadStage
  <2>3. \A u \in Tests : u # Current(p) => process'["client"][u] = process["client"][u]
    BY <2>1 DEF TypeOK, Roles
  <2>4. ASSUME NEW u \in Tests
        PROVE  /\ Stage(u)' \in {"start", "ready?"} => process'["client"][u] = "none"
               /\ Stage(u)' = "results?" => process'["client"][u] = "exited"
               /\ Stage(u)' = "done" => process'["client"][u] \in {"none", "exited"}
    <3>1. CASE u = Current(p)
      <4>1. Stage(u)' = "exit?"
        BY <2>1, <2>2, <3>1 DEF Current
      <4> QED BY <4>1
    <3>2. CASE u # Current(p)
      BY <3>2, <2>2, <2>3 DEF ClientByStage
    <3> QED BY <3>1, <3>2
  <2> QED BY <2>4 DEF ClientByStage
<1>4. ASSUME NEW p \in Ports, TestFailsToStart(p)
      PROVE  ClientByStage'
  <2>1. /\ thread' = [thread EXCEPT ![p] = "done"] /\ UNCHANGED <<run, process>>
        /\ process["client"][Current(p)] \in {"none", "exited"}
    BY <1>4, <1>p DEF TestFailsToStart, Finish, processVars
  <2> QED BY <2>1, StageMoves
<1>5. ASSUME NEW p \in Ports, RequestResults(p)
      PROVE  ClientByStage'
  <2>1. /\ thread' = [thread EXCEPT ![p] = "results?"] /\ UNCHANGED <<run, process>>
        /\ process["client"][Current(p)] = "exited"
    BY <1>5, <1>p DEF RequestResults, processVars
  <2> QED BY <2>1, StageMoves
<1>6. ASSUME NEW p \in Ports, RequestFails(p)
      PROVE  ClientByStage'
  <2>1. /\ thread' = [thread EXCEPT ![p] = "done"] /\ UNCHANGED <<run, process>>
        /\ process["client"][Current(p)] \in {"none", "exited"}
    BY <1>6, <1>p DEF RequestFails, Finish, processVars
  <2> QED BY <2>1, StageMoves
<1>7. ASSUME NEW p \in Ports, ReceiveResults(p)
      PROVE  ClientByStage'
  <2>1. /\ thread' = [thread EXCEPT ![p] = "done"] /\ UNCHANGED <<run, process>>
        /\ process["client"][Current(p)] \in {"none", "exited"}
    BY <1>7, <1>p DEF ReceiveResults, Finish, processVars
  <2> QED BY <2>1, StageMoves
<1>8. ASSUME NEW p \in Ports, ConnectionLost(p)
      PROVE  ClientByStage'
  <2>1. /\ thread' = [thread EXCEPT ![p] = "done"] /\ UNCHANGED <<run, process>>
        /\ process["client"][Current(p)] \in {"none", "exited"}
    BY <1>8, <1>p DEF ConnectionLost, Finish, processVars
  <2> QED BY <2>1, StageMoves
<1> USE DEF TypeOK, ClientByStage, Stage, Current, Roles, Tests, clientVars, serverVars,
            processVars, environment
<1>9. ASSUME NEW t \in Tests, LaunchServer(t)
      PROVE  ClientByStage'
  BY <1>9 DEF LaunchServer, Takes, ServerLaunched, Conns
<1>10. ASSUME NEW t \in Tests, ServerNotReady(t)
      PROVE  ClientByStage'
  BY <1>10 DEF ServerNotReady, ReportError, Reply, Terminated, Conns
<1>11. ASSUME NEW t \in Tests, ClientGone(t)
      PROVE  ClientByStage'
  BY <1>11 DEF ClientGone, Cleanup, Terminated, Conns
<1>12. ASSUME NEW t \in Tests, ServerListens(t)
      PROVE  ClientByStage'
  BY <1>12 DEF ServerListens, Conns
<1>13. ASSUME NEW t \in Tests, ServerStartFails(t)
      PROVE  ClientByStage'
  BY <1>13 DEF ServerStartFails, Conns
<1>14. ASSUME NEW t \in Tests, TestStarts(t)
      PROVE  ClientByStage'
  BY <1>14 DEF TestStarts, Conns
<1>15. ASSUME NEW t \in Tests, ClientGivesUp(t)
      PROVE  ClientByStage'
  BY <1>15 DEF ClientGivesUp, Exits, Conns
<1>16. ASSUME NEW t \in Tests, NEW r \in Roles, TestEnds(r, t)
      PROVE  ClientByStage'
  BY <1>16 DEF TestEnds, Exits
<1>17. CASE NextRun
  <2>1. \A u \in Tests : Stage(u)' = Stage(u)
    BY <1>17, NextRunStage
  <2>2. UNCHANGED process
    BY <1>17 DEF NextRun, processVars
  <2> HIDE DEF Stage, Current, Tests
  <2> QED BY <2>1, <2>2
<1>18. CASE \/ \E t \in Tests : LaunchServerFails(t) \/ ServerReady(t)
                                  \/ HandleResultsRequest(t) \/ SendResults(t) \/ StoreHistory(t)
                                  \/ Break(t)
            \/ \E c \in Conns : Accept(c)
            \/ CheckRunning \/ CallAccept \/ AcceptInterrupted \/ JoinClientThreads \/ SendShutdown
            \/ HandleShutdown \/ UNCHANGED vars
  <2>1. UNCHANGED <<run, thread, process>>
    BY <1>18 DEF LaunchServerFails, Takes, ReportError, Reply, ServerReady,
       HandleResultsRequest,
              SendResults, StoreHistory, Break, CheckRunning, CallAccept, AcceptInterrupted,
              JoinClientThreads, SendShutdown, HandleShutdown, Accept, vars
  <2> QED BY <2>1
<1> HIDE DEF TypeOK, ClientByStage, Stage, Current, Roles, Tests, clientVars, serverVars,
             processVars, environment
<1> QED BY <1>1, <1>2, <1>3, <1>4, <1>5, <1>6, <1>7, <1>8, <1>9, <1>10, <1>11, <1>12, <1>13,
           <1>14, <1>15, <1>16, <1>17, <1>18
         DEF Next, ThreadStep, AcceptorStep, HandlerStep, ProcessStep

(* Every step keeps the exit code in agreement with the verdicts.          *)
LEMMA ExitStep == TypeOK /\ PassIsFounded /\ ExitInOrder /\ [Next]_vars => ExitInOrder'
<1> SUFFICES ASSUME TypeOK, PassIsFounded, ExitInOrder, [Next]_vars
             PROVE  ExitInOrder'
  OBVIOUS
<1> USE DEF TypeOK, ExitInOrder, RunCompleted, Roles, clientVars, serverVars, processVars,
            environment
<1>1. ASSUME NEW p \in Ports, SendConfig(p)
      PROVE  ExitInOrder'
  <2>1. Current(p) \in Tests /\ Current(p) \in Conns
    BY CurrentIsTest
  <2> QED BY <2>1, <1>1 DEF SendConfig
<1>2. ASSUME NEW p \in Ports, ConnectFails(p)
      PROVE  ExitInOrder'
  <2>1. Current(p) \in Tests /\ Current(p) \in Conns
    BY CurrentIsTest
  <2> QED BY <2>1, <1>2 DEF ConnectFails, Finish
<1>3. ASSUME NEW p \in Ports, LaunchClient(p)
      PROVE  ExitInOrder'
  <2>1. Current(p) \in Tests /\ Current(p) \in Conns
    BY CurrentIsTest
  <2> QED BY <2>1, <1>3 DEF LaunchClient, ClientLaunched
<1>4. ASSUME NEW p \in Ports, TestFailsToStart(p)
      PROVE  ExitInOrder'
  <2>1. Current(p) \in Tests /\ Current(p) \in Conns
    BY CurrentIsTest
  <2> QED BY <2>1, <1>4 DEF TestFailsToStart, Finish
<1>5. ASSUME NEW p \in Ports, RequestResults(p)
      PROVE  ExitInOrder'
  <2>1. Current(p) \in Tests /\ Current(p) \in Conns
    BY CurrentIsTest
  <2> QED BY <2>1, <1>5 DEF RequestResults
<1>6. ASSUME NEW p \in Ports, RequestFails(p)
      PROVE  ExitInOrder'
  <2>1. Current(p) \in Tests /\ Current(p) \in Conns
    BY CurrentIsTest
  <2> QED BY <2>1, <1>6 DEF RequestFails, Finish
<1>7. ASSUME NEW p \in Ports, ReceiveResults(p)
      PROVE  ExitInOrder'
  <2>1. Current(p) \in Tests /\ Current(p) \in Conns
    BY CurrentIsTest
  <2> QED BY <2>1, <1>7 DEF ReceiveResults, Finish, Verdict
<1>8. ASSUME NEW p \in Ports, ConnectionLost(p)
      PROVE  ExitInOrder'
  <2>1. Current(p) \in Tests /\ Current(p) \in Conns
    BY CurrentIsTest
  <2> QED BY <2>1, <1>8 DEF ConnectionLost, Finish
<1>9. CASE NextRun
  BY <1>9 DEF NextRun
<1>10. CASE SendShutdown
  BY <1>10, ShutdownIsNoTest DEF SendShutdown, ExitCode
<1>11. CASE \/ \E t \in Tests : LaunchServer(t) \/ LaunchServerFails(t) \/ ServerReady(t)
                                  \/ ServerNotReady(t) \/ HandleResultsRequest(t)
                                  \/ SendResults(t) \/ StoreHistory(t) \/ ClientGone(t)
                                  \/ ServerListens(t) \/ ServerStartFails(t) \/ TestStarts(t)
                                  \/ ClientGivesUp(t) \/ Break(t)
            \/ \E t \in Tests, r \in Roles : TestEnds(r, t)
            \/ \E c \in Conns : Accept(c)
            \/ CheckRunning \/ CallAccept \/ AcceptInterrupted \/ JoinClientThreads
            \/ HandleShutdown \/ UNCHANGED vars
  <2>1. UNCHANGED <<run, thread, verdict, exitCode>>
    BY <1>11 DEF LaunchServer, Takes, ServerLaunched, LaunchServerFails, ReportError, Reply,
              ServerReady, ServerNotReady, Terminated, HandleResultsRequest, SendResults,
              StoreHistory, ClientGone, Cleanup, ServerListens, ServerStartFails, TestStarts,
              ClientGivesUp, Exits, Break, CheckRunning, CallAccept, AcceptInterrupted,
              JoinClientThreads, HandleShutdown, TestEnds, Accept, vars
  <2> QED BY <2>1
<1> HIDE DEF TypeOK, ExitInOrder, RunCompleted, Roles, clientVars, serverVars, processVars,
             environment
<1> QED BY <1>1, <1>2, <1>3, <1>4, <1>5, <1>6, <1>7, <1>8, <1>9, <1>10, <1>11
         DEF Next, ThreadStep, AcceptorStep, HandlerStep, ProcessStep

(* Every step keeps a handler for each IPEFTC server.                      *)
LEMMA OwnerStep == TypeOK /\ ServerOwned /\ [Next]_vars => ServerOwned'
<1> SUFFICES ASSUME TypeOK, ServerOwned, [Next]_vars
             PROVE  ServerOwned'
  OBVIOUS
<1> USE DEF TypeOK, ServerOwned, Alive, AllJoined, Roles, clientVars, serverVars, processVars,
            environment
<1>1. ASSUME NEW p \in Ports, LaunchClient(p)
      PROVE  ServerOwned'
  <2>1. Current(p) \in Tests /\ Current(p) \in Conns
    BY CurrentIsTest
  <2> QED BY <2>1, <1>1 DEF LaunchClient, ClientLaunched
<1>2. ASSUME NEW t \in Tests, LaunchServer(t)
      PROVE  ServerOwned'
  BY <1>2 DEF LaunchServer, Takes, ServerLaunched, Conns
<1>3. ASSUME NEW t \in Tests, ServerReady(t)
      PROVE  ServerOwned'
  BY <1>3 DEF ServerReady, Reply, Conns
<1>4. ASSUME NEW t \in Tests, ServerNotReady(t)
      PROVE  ServerOwned'
  BY <1>4 DEF ServerNotReady, ReportError, Reply, Terminated, Conns
<1>5. ASSUME NEW t \in Tests, HandleResultsRequest(t)
      PROVE  ServerOwned'
  BY <1>5 DEF HandleResultsRequest, Takes, Reply, Conns
<1>6. ASSUME NEW t \in Tests, SendResults(t)
      PROVE  ServerOwned'
  BY <1>6 DEF SendResults, Reply, Conns
<1>7. ASSUME NEW t \in Tests, StoreHistory(t)
      PROVE  ServerOwned'
  BY <1>7 DEF StoreHistory, Conns
<1>8. ASSUME NEW t \in Tests, ClientGone(t)
      PROVE  ServerOwned'
  BY <1>8 DEF ClientGone, Cleanup, Terminated, Conns
<1>9. ASSUME NEW t \in Tests, ServerListens(t)
      PROVE  ServerOwned'
  BY <1>9 DEF ServerListens, Conns
<1>10. ASSUME NEW t \in Tests, ServerStartFails(t)
      PROVE  ServerOwned'
  BY <1>10 DEF ServerStartFails, Conns
<1>11. ASSUME NEW t \in Tests, TestStarts(t)
      PROVE  ServerOwned'
  BY <1>11 DEF TestStarts, Conns
<1>12. ASSUME NEW t \in Tests, ClientGivesUp(t)
      PROVE  ServerOwned'
  BY <1>12 DEF ClientGivesUp, Exits, Conns
<1>13. ASSUME NEW t \in Tests, NEW r \in Roles, TestEnds(r, t)
      PROVE  ServerOwned'
  BY <1>13 DEF TestEnds, Exits
<1>14. CASE CheckRunning
  BY <1>14 DEF CheckRunning
<1>15. CASE CallAccept
  BY <1>15 DEF CallAccept
<1>16. CASE AcceptInterrupted
  BY <1>16 DEF AcceptInterrupted
<1>17. CASE JoinClientThreads
  BY <1>17 DEF JoinClientThreads
<1>18. CASE HandleShutdown
  BY <1>18, ShutdownIsNoTest DEF HandleShutdown, Takes
<1>19. ASSUME NEW c \in Conns, Accept(c)
      PROVE  ServerOwned'
  BY <1>19 DEF Accept
<1>20. CASE \/ \E p \in Ports : SendConfig(p) \/ ConnectFails(p) \/ TestFailsToStart(p)
                                  \/ RequestResults(p) \/ RequestFails(p) \/ ReceiveResults(p)
                                  \/ ConnectionLost(p)
            \/ \E t \in Tests : LaunchServerFails(t) \/ Break(t)
            \/ NextRun \/ SendShutdown \/ UNCHANGED vars
  <2>1. UNCHANGED <<acceptor, handler, owns, process>>
    BY <1>20 DEF SendConfig, ConnectFails, Finish, TestFailsToStart, RequestResults,
       RequestFails,
              ReceiveResults, ConnectionLost, LaunchServerFails, Takes, ReportError, Reply,
              Break, NextRun, SendShutdown, vars
  <2> QED BY <2>1
<1> HIDE DEF TypeOK, ServerOwned, Alive, AllJoined, Roles, clientVars, serverVars, processVars,
             environment
<1> QED BY <1>1, <1>2, <1>3, <1>4, <1>5, <1>6, <1>7, <1>8, <1>9, <1>10, <1>11, <1>12, <1>13,
           <1>14, <1>15, <1>16, <1>17, <1>18, <1>19, <1>20
         DEF Next, ThreadStep, AcceptorStep, HandlerStep, ProcessStep

(* Every step keeps the passes founded.                                    *)
LEMMA PassStep == TypeOK /\ ClientByStage /\ PassIsFounded /\ [Next]_vars => PassIsFounded'
<1> SUFFICES ASSUME TypeOK, ClientByStage, PassIsFounded, [Next]_vars
             PROVE  PassIsFounded'
  OBVIOUS
<1> USE DEF TypeOK, PassIsFounded, Answered, ServerPassed, Passed, Stage, Current, Tests, Roles,
            Replies, clientVars, serverVars, processVars, environment
<1>1. ASSUME NEW p \in Ports, SendConfig(p)
      PROVE  PassIsFounded'
  <2>1. Current(p) \in Tests /\ Current(p) \in Conns
    BY CurrentIsTest
  <2> QED BY <2>1, <1>1 DEF SendConfig
<1>2. ASSUME NEW p \in Ports, ConnectFails(p)
      PROVE  PassIsFounded'
  <2>1. Current(p) \in Tests /\ Current(p) \in Conns
    BY CurrentIsTest
  <2> QED BY <2>1, <1>2 DEF ConnectFails, Finish
<1>3. ASSUME NEW p \in Ports, LaunchClient(p)
      PROVE  PassIsFounded'
  <2>1. Current(p) \in Tests /\ Current(p) \in Conns
    BY CurrentIsTest
  <2> QED BY <2>1, <1>3 DEF LaunchClient, ClientLaunched
<1>4. ASSUME NEW p \in Ports, TestFailsToStart(p)
      PROVE  PassIsFounded'
  <2>1. Current(p) \in Tests /\ Current(p) \in Conns
    BY CurrentIsTest
  <2> QED BY <2>1, <1>4 DEF TestFailsToStart, Finish
<1>5. ASSUME NEW p \in Ports, RequestResults(p)
      PROVE  PassIsFounded'
  <2>1. Current(p) \in Tests /\ Current(p) \in Conns
    BY CurrentIsTest
  <2> QED BY <2>1, <1>5 DEF RequestResults
<1>6. ASSUME NEW p \in Ports, RequestFails(p)
      PROVE  PassIsFounded'
  <2>1. Current(p) \in Tests /\ Current(p) \in Conns
    BY CurrentIsTest
  <2> QED BY <2>1, <1>6 DEF RequestFails, Finish
<1>7. ASSUME NEW p \in Ports, ReceiveResults(p)
      PROVE  PassIsFounded'
  <2>1. Current(p) \in Tests /\ Current(p) \in Conns
    BY CurrentIsTest
  <2>2. /\ thread[p] = "results?" /\ thread' = [thread EXCEPT ![p] = "done"]
        /\ toClient' = [toClient EXCEPT ![Current(p)] = "none"]
        /\ UNCHANGED <<run, process, report, handler, history>>
    BY <1>7 DEF ReceiveResults, Finish, processVars, serverVars
  <2>3. process["client"][Current(p)] = "exited"
    BY <2>1, <2>2 DEF ClientByStage
  <2>4. /\ \A t \in Tests : t # Current(p) => verdict'[t] = verdict[t]
        /\ verdict'[Current(p)] = "pass" =>
             toClient[Current(p)] = "RESULTS_PASS" /\ Passed("client", Current(p))
    BY <1>7, <2>1 DEF ReceiveResults, Finish, Verdict
  <2>5. Stage(Current(p))' = "done"
    BY <2>2, ThreadStage
  <2>6. ASSUME NEW t \in Tests, t # Current(p)
        PROVE  Stage(t)' = Stage(t)
    BY <2>6, <2>2, ThreadStage
  <2> HIDE DEF Stage, Current, Tests
  <2>7. ASSUME NEW t \in Tests
        PROVE  /\ Answered(t)' = Answered(t)
               /\ ServerPassed(t)' = ServerPassed(t)
               /\ Passed("client", t)' = Passed("client", t)
               /\ t # Current(p) => toClient'[t] = toClient[t]
    BY <2>1, <2>2 DEF Conns
  <2>8. toClient'[Current(p)] # "RESULTS_PASS"
    BY <2>1, <2>2
  <2>9. \A t \in Tests : t \in history' => handler'[t] = "done"
    BY <2>2
  <2> HIDE DEF TypeOK, Answered, ServerPassed, Passed
  <2>10. ASSUME NEW t \in Tests, toClient'[t] = "RESULTS_PASS"
         PROVE  Answered(t)' /\ ServerPassed(t)'
    BY <2>7, <2>8, <2>10
  <2>11. ASSUME NEW t \in Tests, verdict'[t] = "pass"
         PROVE  /\ Answered(t)' /\ ServerPassed(t)'
                /\ Stage(t)' = "done"
                /\ process'["client"][t] = "exited" /\ Passed("client", t)'
    <3>1. CASE t = Current(p)
      <4>1. toClient[t] = "RESULTS_PASS" /\ Passed("client", t)
        BY <3>1, <2>11, <2>4
      <4>2. Answered(t) /\ ServerPassed(t)
        BY <4>1
      <4>3. Answered(t)' /\ ServerPassed(t)' /\ Passed("client", t)'
        BY <4>1, <4>2, <2>7
      <4>4. process'["client"][t] = "exited"
        BY <3>1, <2>2, <2>3
      <4>5. Stage(t)' = "done"
        BY <3>1, <2>2, <2>5 DEF Current
      <4> QED BY <4>3, <4>4, <4>5
    <3>2. CASE t # Current(p)
      BY <3>2, <2>11, <2>2, <2>4, <2>6, <2>7
    <3> QED BY <3>1, <3>2
  <2> QED BY <2>9, <2>10, <2>11
<1>8. ASSUME NEW p \in Ports, ConnectionLost(p)
      PROVE  PassIsFounded'
  <2>1. Current(p) \in Tests /\ Current(p) \in Conns
    BY CurrentIsTest
  <2> QED BY <2>1, <1>8 DEF ConnectionLost, Finish
<1>9. ASSUME NEW t \in Tests, LaunchServer(t)
      PROVE  PassIsFounded'
  BY <1>9 DEF LaunchServer, Takes, ServerLaunched, Conns
<1>10. ASSUME NEW t \in Tests, LaunchServerFails(t)
      PROVE  PassIsFounded'
  BY <1>10 DEF LaunchServerFails, Takes, ReportError, Reply, Conns
<1>11. ASSUME NEW t \in Tests, ServerReady(t)
      PROVE  PassIsFounded'
  BY <1>11 DEF ServerReady, Reply, Conns
<1>12. ASSUME NEW t \in Tests, ServerNotReady(t)
      PROVE  PassIsFounded'
  BY <1>12 DEF ServerNotReady, ReportError, Reply, Terminated, Conns
<1>13. ASSUME NEW t \in Tests, HandleResultsRequest(t)
      PROVE  PassIsFounded'
  BY <1>13 DEF HandleResultsRequest, Takes, Reply, Conns
<1>14. ASSUME NEW t \in Tests, SendResults(t)
      PROVE  PassIsFounded'
  BY <1>14, SMTT(30) DEF SendResults, Reply, Conns
<1>15. ASSUME NEW t \in Tests, StoreHistory(t)
      PROVE  PassIsFounded'
  BY <1>15 DEF StoreHistory, Conns
<1>16. ASSUME NEW t \in Tests, ClientGone(t)
      PROVE  PassIsFounded'
  BY <1>16 DEF ClientGone, Cleanup, Terminated, Conns
<1>17. ASSUME NEW t \in Tests, ServerListens(t)
      PROVE  PassIsFounded'
  BY <1>17 DEF ServerListens, Conns
<1>18. ASSUME NEW t \in Tests, ServerStartFails(t)
      PROVE  PassIsFounded'
  BY <1>18 DEF ServerStartFails, Conns
<1>19. ASSUME NEW t \in Tests, TestStarts(t)
      PROVE  PassIsFounded'
  BY <1>19 DEF TestStarts, Conns
<1>20. ASSUME NEW t \in Tests, ClientGivesUp(t)
      PROVE  PassIsFounded'
  BY <1>20 DEF ClientGivesUp, Exits, Conns
<1>21. ASSUME NEW t \in Tests, Break(t)
      PROVE  PassIsFounded'
  BY <1>21 DEF Break, Conns
<1>22. ASSUME NEW t \in Tests, NEW r \in Roles, TestEnds(r, t)
      PROVE  PassIsFounded'
  BY <1>22 DEF TestEnds, Exits
<1>23. CASE NextRun
  BY <1>23 DEF NextRun
<1>24. CASE HandleShutdown
  BY <1>24, ShutdownIsNoTest DEF HandleShutdown, Takes
<1>25. ASSUME NEW c \in Conns, Accept(c)
      PROVE  PassIsFounded'
  BY <1>25 DEF Accept
<1>26. CASE \/ CheckRunning \/ CallAccept \/ AcceptInterrupted \/ JoinClientThreads \/ SendShutdown
            \/ UNCHANGED vars
  <2>1. UNCHANGED <<run, thread, verdict, toClient, handler, history, process, report>>
    BY <1>26 DEF CheckRunning, CallAccept, AcceptInterrupted, JoinClientThreads, SendShutdown,
       vars
  <2> QED BY <2>1
<1> HIDE DEF TypeOK, PassIsFounded, Answered, ServerPassed, Passed, Stage, Current, Tests,
             Roles, Replies, clientVars, serverVars, processVars, environment
<1> QED BY <1>1, <1>2, <1>3, <1>4, <1>5, <1>6, <1>7, <1>8, <1>9, <1>10, <1>11, <1>12, <1>13,
           <1>14, <1>15, <1>16, <1>17, <1>18, <1>19, <1>20, <1>21, <1>22, <1>23, <1>24, <1>25,
           <1>26
         DEF Next, ThreadStep, AcceptorStep, HandlerStep, ProcessStep

(* Every step keeps the reports earned.                                    *)
LEMMA ReportStep == TypeOK /\ ReportsEarned /\ [Next]_vars => ReportsEarned'
<1> SUFFICES ASSUME TypeOK, ReportsEarned, [Next]_vars
             PROVE  ReportsEarned'
  OBVIOUS
<1> USE DEF TypeOK, ReportsEarned, Roles, clientVars, serverVars, processVars, environment
<1>1. ASSUME NEW t \in Tests, ServerStartFails(t)
      PROVE  ReportsEarned'
  BY <1>1 DEF ServerStartFails, Conns
<1>2. ASSUME NEW t \in Tests, ClientGivesUp(t)
      PROVE  ReportsEarned'
  <2>1. PICK x \in Reading(FALSE) : report' = [report EXCEPT !["client"][t] = x]
    BY <1>2 DEF ClientGivesUp, Exits
  <2>2. exports => x # "unearned"
    BY <2>1, ReadingTypes
  <2>3. UNCHANGED exports
    BY <1>2 DEF ClientGivesUp, Exits, environment
  <2> QED BY <2>1, <2>2, <2>3
<1>3. ASSUME NEW t \in Tests, NEW r \in Roles, TestEnds(r, t)
      PROVE  ReportsEarned'
  BY <1>3, ReadingTypes DEF TestEnds, Exits
<1>4. CASE \/ \E p \in Ports : SendConfig(p) \/ ConnectFails(p) \/ LaunchClient(p)
                                 \/ TestFailsToStart(p) \/ RequestResults(p) \/ RequestFails(p)
                                 \/ ReceiveResults(p) \/ ConnectionLost(p)
           \/ \E t \in Tests : LaunchServer(t) \/ LaunchServerFails(t) \/ ServerReady(t)
                                 \/ ServerNotReady(t) \/ HandleResultsRequest(t)
                                 \/ SendResults(t) \/ StoreHistory(t) \/ ClientGone(t)
                                 \/ ServerListens(t) \/ TestStarts(t) \/ Break(t)
           \/ \E c \in Conns : Accept(c)
           \/ CheckRunning \/ CallAccept \/ AcceptInterrupted \/ JoinClientThreads \/ NextRun
           \/ SendShutdown \/ HandleShutdown \/ UNCHANGED vars
  <2>1. UNCHANGED <<exports, report>>
    BY <1>4 DEF SendConfig, ConnectFails, Finish, LaunchClient, TestFailsToStart,
       RequestResults,
              RequestFails, ReceiveResults, ConnectionLost, LaunchServer, Takes, ServerLaunched,
              LaunchServerFails, ReportError, Reply, ServerReady, ServerNotReady, Terminated,
              HandleResultsRequest, SendResults, StoreHistory, ClientGone, Cleanup,
              ServerListens, TestStarts, Break, CheckRunning, CallAccept, AcceptInterrupted,
              JoinClientThreads, NextRun, SendShutdown, HandleShutdown, Accept, vars
  <2> QED BY <2>1
<1> HIDE DEF TypeOK, ReportsEarned, Roles, clientVars, serverVars, processVars, environment
<1> QED BY <1>1, <1>2, <1>3, <1>4
         DEF Next, ThreadStep, AcceptorStep, HandlerStep, ProcessStep

(* The inductive invariant.                                                *)
LEMMA Invariance == SafetySpec => []IInv
<1>1. Init => IInv
  <2> SUFFICES ASSUME Init
               PROVE  IInv
    OBVIOUS
  <2>1. TypeOK
    BY DEF Init, TypeOK, Roles, Requests, Replies
  <2>2. \A t \in Tests : process["client"][t] = "none" /\ process["server"][t] = "none"
    BY DEF Init, Roles
  <2>3. ClientByStage
    <3>1. ASSUME NEW t \in Tests
          PROVE  Stage(t) = "start"
      <4>1. t[1] \in 1..Runs /\ t[2] \in Ports
        BY DEF Tests
      <4> QED BY <4>1 DEF Init, Stage
    <3> QED BY <3>1, <2>2 DEF ClientByStage
  <2>4. ExitInOrder
    BY DEF Init, ExitInOrder
  <2>5. ServerOwned
    BY <2>2 DEF Init, ServerOwned, Alive
  <2>6. PassIsFounded
    BY DEF Init, PassIsFounded, Conns
  <2>7. ReportsEarned
    BY DEF Init, ReportsEarned
  <2> QED BY <2>1, <2>3, <2>4, <2>5, <2>6, <2>7 DEF IInv
<1>2. IInv /\ [Next]_vars => IInv'
  BY TypeStep, StageStep, ExitStep, OwnerStep, PassStep, ReportStep DEF IInv
<1> QED BY <1>1, <1>2, PTL DEF SafetySpec

(* Every variable of the TestRunner keeps its type.                        *)
THEOREM TypeCorrect == SafetySpec => []TypeOK
<1>1. IInv => TypeOK
  BY DEF IInv
<1> QED BY <1>1, Invariance, PTL

(* When the last run is over, the client is done with every test.          *)
LEMMA AllStagesDone ==
  ASSUME TypeOK, run = Runs, RunCompleted, NEW t \in Tests
  PROVE  Stage(t) = "done"
<1>1. t[1] \in 1..Runs /\ t[2] \in Ports
  BY DEF Tests
<1>2. thread[t[2]] = "done"
  BY <1>1 DEF RunCompleted
<1>3. ~ (t[1] > run)
  BY <1>1
<1> QED BY <1>2, <1>3 DEF Stage

(* main() returns 0 only when both IPEFTC processes of every test ended by *)
(* themselves and, as long as result files can be written, succeeded.      *)
THEOREM ExitCodeEarned == SafetySpec => []ZeroIsEarned
<1>1. IInv => ZeroIsEarned
  <2> SUFFICES ASSUME IInv, exitCode = 0, NEW t \in Tests, NEW r \in Roles
               PROVE  process[r][t] = "exited" /\ (exports => report[r][t] = "pass")
    BY DEF ZeroIsEarned
  <2>1. verdict[t] = "pass"
    BY DEF IInv, ExitInOrder
  <2>2. /\ process["server"][t] = "exited" /\ process["client"][t] = "exited"
        /\ Passed("server", t) /\ Passed("client", t)
    BY <2>1 DEF IInv, PassIsFounded, ServerPassed
  <2>3. exports => report[r][t] # "unearned"
    BY DEF IInv, ReportsEarned
  <2> QED BY <2>2, <2>3 DEF Passed, Roles
<1> QED BY <1>1, Invariance, PTL

(* Neither the control server nor the client leaves a process behind.      *)
THEOREM NoProcessLeft == SafetySpec => []NoOrphans
<1>1. IInv => NoOrphans
  <2> SUFFICES ASSUME IInv
               PROVE  NoOrphans
    OBVIOUS
  <2>1. ASSUME acceptor = "ended", NEW t \in Tests
        PROVE  ~ Alive(t)
    <3>1. handler[t] \in {"none", "done"}
      BY <2>1 DEF IInv, ServerOwned, AllJoined, Conns
    <3> QED BY <3>1 DEF IInv, ServerOwned
  <2>2. ASSUME exitCode # -1, NEW t \in Tests
        PROVE  process["client"][t] \in {"none", "exited"}
    <3>1. Stage(t) = "done"
      BY <2>2, AllStagesDone DEF IInv, ExitInOrder
    <3> QED BY <3>1 DEF IInv, ClientByStage
  <2> QED BY <2>1, <2>2 DEF NoOrphans
<1> QED BY <1>1, Invariance, PTL

(* The server's final summary holds every test the client counts as passed. *)
THEOREM PassesInSummary == SafetySpec => []SummaryComplete
<1>1. IInv => SummaryComplete
  <2> SUFFICES ASSUME IInv, acceptor = "ended", NEW t \in Tests, verdict[t] = "pass"
               PROVE  t \in history
    BY DEF SummaryComplete
  <2>1. handler[t] \in {"none", "done"}
    BY DEF IInv, ServerOwned, AllJoined, Conns
  <2>2. Answered(t)
    BY DEF IInv, PassIsFounded
  <2> QED BY <2>1, <2>2 DEF Answered
<1> QED BY <1>1, Invariance, PTL

-----------------------------------------------------------------------------
(* What the client waits for.  ClientExits is liveness; it rests on the    *)
(* protocol between a thread of the client and the handler of its test:    *)
(* whatever the client waits for is on its way, is in the hands of the     *)
(* handler, or the connection is cut and the client finds out.             *)

(* The handler has an IPEFTC server that was ready and was not killed.     *)
Serving(t) == owns[t] /\ process["server"][t] \in {"ready", "testing", "exited"}

(* The client has asked for a server: the request, the handler at work on  *)
(* it, or the answer.                                                      *)
Starting(request, reply, h, serving) ==
  \/ request = "CONFIG_REQUEST" /\ reply = "none" /\ h \in {"none", "reading"}
  \/ request = "none" /\ reply = "none" /\ h = "readiness"
  \/ request = "none" /\ reply = "ERROR" /\ h = "reading"
  \/ request = "none" /\ reply = "SERVER_READY" /\ h = "reading" /\ serving

(* It has asked for the results.                                           *)
Ending(request, reply, h, serving) ==
  \/ request = "RESULTS_REQUEST" /\ reply = "none" /\ h = "reading" /\ serving
  \/ request = "none" /\ reply = "none" /\ h = "exit?" /\ serving
  \/ request = "none" /\ reply \in {"RESULTS_PASS", "RESULTS_FAIL"} /\ h = "answered"

(* The client's stage, the connection, what is on it and the handler fit.  *)
Fits(stage, l, request, reply, h, serving) ==
  /\ l = "none" => request = "none" /\ reply = "none" /\ h = "none"
  /\ stage = "start" => l = "none"
  /\ stage = "done" => l # "open"
  /\ stage \in {"ready?", "exit?", "results?"} => l # "none"
  /\ l = "open" =>
       /\ stage = "ready?" => Starting(request, reply, h, serving)
       /\ stage = "exit?" => request = "none" /\ reply = "none" /\ h = "reading" /\ serving
       /\ stage = "results?" => Ending(request, reply, h, serving)
  /\ l = "cut" =>
       /\ stage \in {"ready?", "exit?"} => reply = "none"
       /\ stage = "results?" => reply \in {"none", "RESULTS_PASS", "RESULTS_FAIL"}

TestFits(t) == Fits(Stage(t), link[t], toServer[t], toClient[t], handler[t], Serving(t))

Protocol == \A t \in Tests : TestFits(t)

(* The control server accepts connections until the client is through.     *)
ServerUp ==
  /\ exitCode = -1 => running /\ toServer[ShutdownConn] = "none"
  /\ running => acceptor \in {"loop", "calling", "accepting"}

(* Nothing of a test changes.                                              *)
Untouched(u) ==
  /\ Stage(u)' = Stage(u) /\ link'[u] = link[u] /\ toServer'[u] = toServer[u]
  /\ toClient'[u] = toClient[u] /\ handler'[u] = handler[u] /\ Serving(u)' = Serving(u)

(* A step that touches one test keeps the others as they fit.              *)
LEMMA OneTest ==
  ASSUME Protocol, NEW t \in Tests, \A u \in Tests : u # t => Untouched(u),
         Fits(Stage(t)', link'[t], toServer'[t], toClient'[t], handler'[t], Serving(t)')
  PROVE  Protocol'
<1>1. ASSUME NEW u \in Tests
      PROVE  Fits(Stage(u)', link'[u], toServer'[u], toClient'[u], handler'[u], Serving(u)')
  <2>1. CASE u = t
    BY <2>1
  <2>2. CASE u # t
    <3>1. Untouched(u)
      BY <2>2
    <3>2. Fits(Stage(u), link[u], toServer[u], toClient[u], handler[u], Serving(u))
      BY DEF Protocol, TestFits
    <3> QED BY <3>1, <3>2, Zenon DEF Untouched
  <2> QED BY <2>1, <2>2
<1> QED BY <1>1 DEF Protocol, TestFits

(* A step of a thread of the client touches its own test.                  *)
LEMMA ThreadsTest ==
  ASSUME TypeOK, Protocol, NEW p \in Ports, NEW at, NEW l, NEW m, NEW n,
         thread' = [thread EXCEPT ![p] = at],
         link' = [link EXCEPT ![Current(p)] = l],
         toServer' = [toServer EXCEPT ![Current(p)] = m],
         toClient' = [toClient EXCEPT ![Current(p)] = n],
         UNCHANGED <<run, handler, owns>>, process'["server"] = process["server"],
         Fits(at, l, m, n, handler[Current(p)], Serving(Current(p)))
  PROVE  Protocol'
<1> DEFINE t == Current(p)
<1>1. t \in Tests /\ t \in Conns
  BY CurrentIsTest
<1>2. Stage(t)' = at /\ \A u \in Tests : u # t => Stage(u)' = Stage(u)
  BY ThreadStage
<1>t. t' = t
  BY DEF Current
<1>3. /\ link'[t] = l /\ toServer'[t] = m /\ toClient'[t] = n
      /\ \A u \in Tests : u # t => link'[u] = link[u] /\ toServer'[u] = toServer[u]
                                   /\ toClient'[u] = toClient[u]
  BY <1>1 DEF TypeOK, Conns
<1>4. \A u \in Tests : Serving(u)' = Serving(u)
  BY DEF Serving
<1>5. \A u \in Tests : u # t => Untouched(u)
  BY <1>2, <1>3, <1>4 DEF Untouched
<1> HIDE DEF t
<1>6. Fits(at, l, m, n, handler'[t], Serving(t))
  BY DEF t
<1>7. PICK v \in Tests : v = t
  BY <1>1
<1>8. /\ Stage(v)' = at /\ link'[v] = l /\ toServer'[v] = m /\ toClient'[v] = n
      /\ Serving(v)' = Serving(v)
  BY <1>2, <1>3, <1>4, <1>7, <1>t
<1>9. Fits(Stage(v)', link'[v], toServer'[v], toClient'[v], handler'[v], Serving(v)')
  BY <1>6, <1>7, <1>8
<1>10. \A u \in Tests : u # v => Untouched(u)
  BY <1>5, <1>7
<1> QED BY <1>9, <1>10, OneTest

(* A step of the handler or of a process touches its own test.             *)
LEMMA HandlersTest ==
  ASSUME TypeOK, Protocol, NEW t \in Tests, UNCHANGED <<run, thread>>,
         \A u \in Tests : u # t =>
           /\ link'[u] = link[u] /\ toServer'[u] = toServer[u] /\ toClient'[u] = toClient[u]
           /\ handler'[u] = handler[u] /\ owns'[u] = owns[u]
           /\ process'["server"][u] = process["server"][u],
         Fits(Stage(t), link'[t], toServer'[t], toClient'[t], handler'[t], Serving(t)')
  PROVE  Protocol'
<1>1. \A u \in Tests : Stage(u)' = Stage(u)
  BY DEF Stage
<1>2. \A u \in Tests : u # t => Untouched(u)
  BY <1>1 DEF Untouched, Serving
<1>3. Fits(Stage(t)', link'[t], toServer'[t], toClient'[t], handler'[t], Serving(t)')
  BY <1>1
<1> QED BY <1>2, <1>3, OneTest

(* A step that touches no test.                                            *)
LEMMA NoTest ==
  ASSUME Protocol, \A u \in Tests : Untouched(u)
  PROVE  Protocol'
<1>1. ASSUME NEW u \in Tests
      PROVE  Fits(Stage(u)', link'[u], toServer'[u], toClient'[u], handler'[u], Serving(u)')
  <2>1. Untouched(u)
    OBVIOUS
  <2>2. Fits(Stage(u), link[u], toServer[u], toClient[u], handler[u], Serving(u))
    BY DEF Protocol, TestFits
  <2> QED BY <2>1, <2>2, Zenon DEF Untouched
<1> QED BY <1>1 DEF Protocol, TestFits

(* Every step keeps the protocol.                                          *)
LEMMA ProtocolStep == IInv /\ Protocol /\ [Next]_vars => Protocol'
<1> SUFFICES ASSUME IInv, Protocol, [Next]_vars
             PROVE  Protocol'
  OBVIOUS
<1>t. TypeOK /\ ServerOwned
  BY DEF IInv
<1>p. ASSUME NEW p \in Ports
      PROVE  /\ Current(p) \in Tests /\ Current(p) \in Conns
             /\ Fits(thread[p], link[Current(p)], toServer[Current(p)], toClient[Current(p)],
                     handler[Current(p)], Serving(Current(p)))
  <2>1. Current(p) \in Tests /\ Current(p) \in Conns
    BY <1>t, CurrentIsTest
  <2>2. Stage(Current(p)) = thread[p]
    BY <1>t DEF Stage, Current, TypeOK
  <2> QED BY <2>1, <2>2 DEF Protocol, TestFits
<1>h. ASSUME NEW t \in Tests
      PROVE  /\ t \in Conns
             /\ Fits(Stage(t), link[t], toServer[t], toClient[t], handler[t], Serving(t))
  BY DEF Protocol, TestFits, Conns
<1>f. /\ thread \in [Ports -> {"start", "ready?", "exit?", "results?", "done"}]
      /\ link \in [Conns -> {"none", "open", "cut"}]
      /\ toServer \in [Conns -> Requests \cup {"none"}]
      /\ toClient \in [Conns -> Replies \cup {"none"}]
      /\ handler \in [Conns -> {"none", "reading", "readiness", "exit?", "answered", "done"}]
      /\ owns \in [Tests -> BOOLEAN]
      /\ process \in [Roles -> [Tests ->
           {"none", "starting", "ready", "running", "testing", "exited", "killed"}]]
  BY <1>t DEF TypeOK
<1>1. ASSUME NEW p \in Ports, SendConfig(p)
      PROVE  Protocol'
  <2> DEFINE t == Current(p)
  <2>1. t \in Conns /\ Fits(thread[p], link[t], toServer[t], toClient[t], handler[t], Serving(t))
    BY <1>p
  <2>2. /\ thread' = [thread EXCEPT ![p] = "ready?"]
        /\ UNCHANGED <<run, handler, owns>> /\ process'["server"] = process["server"]
        /\ thread[p] = "start"
    BY <1>1, <1>f DEF SendConfig, serverVars, processVars, Roles
  <2>3. /\ link' = [link EXCEPT ![t] = "open"]
        /\ toServer' = [toServer EXCEPT ![t] = "CONFIG_REQUEST"]
        /\ toClient' = [toClient EXCEPT ![t] = toClient[t]]
    BY <1>1, <1>f, <2>1 DEF SendConfig, serverVars, processVars
  <2>4. Fits("ready?", "open", "CONFIG_REQUEST", toClient[t], handler[t], Serving(t))
    <3> HIDE DEF t
    <3> QED BY <2>1, <2>2, <1>f DEF Fits, Starting, Ending
  <2> QED BY <2>2, <2>3, <2>4, <1>t, ThreadsTest
<1>2. ASSUME NEW p \in Ports, ConnectFails(p)
      PROVE  Protocol'
  <2> DEFINE t == Current(p)
  <2>1. t \in Conns /\ Fits(thread[p], link[t], toServer[t], toClient[t], handler[t], Serving(t))
    BY <1>p
  <2>2. /\ thread' = [thread EXCEPT ![p] = "done"]
        /\ UNCHANGED <<run, handler, owns>> /\ process'["server"] = process["server"]
        /\ thread[p] = "start"
    BY <1>2, <1>f DEF ConnectFails, Finish, serverVars, processVars, Roles
  <2>3. /\ link' = [link EXCEPT ![t] = IF link[t] = "none" THEN link[t] ELSE "cut"]
        /\ toServer' = [toServer EXCEPT ![t] = toServer[t]]
        /\ toClient' = [toClient EXCEPT ![t] = toClient[t]]
    BY <1>2, <1>f, <2>1 DEF ConnectFails, Finish, serverVars, processVars
  <2>4. Fits("done", IF link[t] = "none" THEN link[t] ELSE "cut", toServer[t], toClient[t],
             handler[t], Serving(t))
    <3> HIDE DEF t
    <3> QED BY <2>1, <2>2, <1>f DEF Fits, Starting, Ending
  <2> QED BY <2>2, <2>3, <2>4, <1>t, ThreadsTest
<1>3. ASSUME NEW p \in Ports, LaunchClient(p)
      PROVE  Protocol'
  <2> DEFINE t == Current(p)
  <2>1. t \in Conns /\ Fits(thread[p], link[t], toServer[t], toClient[t], handler[t], Serving(t))
    BY <1>p
  <2>2. /\ thread' = [thread EXCEPT ![p] = "exit?"]
        /\ UNCHANGED <<run, handler, owns>> /\ process'["server"] = process["server"]
        /\ thread[p] = "ready?" /\ toClient[t] = "SERVER_READY"
    BY <1>3, <1>f DEF LaunchClient, ClientLaunched, serverVars, processVars, Roles
  <2>3. /\ link' = [link EXCEPT ![t] = link[t]]
        /\ toServer' = [toServer EXCEPT ![t] = toServer[t]]
        /\ toClient' = [toClient EXCEPT ![t] = "none"]
    BY <1>3, <1>f, <2>1 DEF LaunchClient, ClientLaunched, serverVars, processVars
  <2>4. Fits("exit?", link[t], toServer[t], "none", handler[t], Serving(t))
    <3> HIDE DEF t
    <3> QED BY <2>1, <2>2, <1>f DEF Fits, Starting, Ending
  <2> QED BY <2>2, <2>3, <2>4, <1>t, ThreadsTest
<1>4. ASSUME NEW p \in Ports, TestFailsToStart(p)
      PROVE  Protocol'
  <2> DEFINE t == Current(p)
  <2>1. t \in Conns /\ Fits(thread[p], link[t], toServer[t], toClient[t], handler[t], Serving(t))
    BY <1>p
  <2>2. /\ thread' = [thread EXCEPT ![p] = "done"]
        /\ UNCHANGED <<run, handler, owns>> /\ process'["server"] = process["server"]
        /\ thread[p] = "ready?"
    BY <1>4, <1>f DEF TestFailsToStart, Finish, serverVars, processVars, Roles
  <2>3. /\ link' = [link EXCEPT ![t] = IF link[t] = "none" THEN link[t] ELSE "cut"]
        /\ toServer' = [toServer EXCEPT ![t] = toServer[t]]
        /\ toClient' = [toClient EXCEPT ![t] = "none"]
    BY <1>4, <1>f, <2>1 DEF TestFailsToStart, Finish, serverVars, processVars
  <2>4. Fits("done", IF link[t] = "none" THEN link[t] ELSE "cut", toServer[t], "none",
             handler[t], Serving(t))
    <3> HIDE DEF t
    <3> QED BY <2>1, <2>2, <1>f DEF Fits, Starting, Ending
  <2> QED BY <2>2, <2>3, <2>4, <1>t, ThreadsTest
<1>5. ASSUME NEW p \in Ports, RequestResults(p)
      PROVE  Protocol'
  <2> DEFINE t == Current(p)
  <2>1. t \in Conns /\ Fits(thread[p], link[t], toServer[t], toClient[t], handler[t], Serving(t))
    BY <1>p
  <2>2. /\ thread' = [thread EXCEPT ![p] = "results?"]
        /\ UNCHANGED <<run, handler, owns>> /\ process'["server"] = process["server"]
        /\ thread[p] = "exit?" /\ link[t] = "open"
    BY <1>5, <1>f DEF RequestResults, serverVars, processVars, Roles
  <2>3. /\ link' = [link EXCEPT ![t] = link[t]]
        /\ toServer' = [toServer EXCEPT ![t] = "RESULTS_REQUEST"]
        /\ toClient' = [toClient EXCEPT ![t] = toClient[t]]
    BY <1>5, <1>f, <2>1 DEF RequestResults, serverVars, processVars
  <2>4. Fits("results?", link[t], "RESULTS_REQUEST", toClient[t], handler[t], Serving(t))
    <3> HIDE DEF t
    <3> QED BY <2>1, <2>2, <1>f DEF Fits, Starting, Ending
  <2> QED BY <2>2, <2>3, <2>4, <1>t, ThreadsTest
<1>6. ASSUME NEW p \in Ports, RequestFails(p)
      PROVE  Protocol'
  <2> DEFINE t == Current(p)
  <2>1. t \in Conns /\ Fits(thread[p], link[t], toServer[t], toClient[t], handler[t], Serving(t))
    BY <1>p
  <2>2. /\ thread' = [thread EXCEPT ![p] = "done"]
        /\ UNCHANGED <<run, handler, owns>> /\ process'["server"] = process["server"]
        /\ thread[p] = "exit?"
    BY <1>6, <1>f DEF RequestFails, Finish, serverVars, processVars, Roles
  <2>3. /\ link' = [link EXCEPT ![t] = IF link[t] = "none" THEN link[t] ELSE "cut"]
        /\ toServer' = [toServer EXCEPT ![t] = toServer[t]]
        /\ toClient' = [toClient EXCEPT ![t] = toClient[t]]
    BY <1>6, <1>f, <2>1 DEF RequestFails, Finish, serverVars, processVars
  <2>4. Fits("done", IF link[t] = "none" THEN link[t] ELSE "cut", toServer[t], toClient[t],
             handler[t], Serving(t))
    <3> HIDE DEF t
    <3> QED BY <2>1, <2>2, <1>f DEF Fits, Starting, Ending
  <2> QED BY <2>2, <2>3, <2>4, <1>t, ThreadsTest
<1>7. ASSUME NEW p \in Ports, ReceiveResults(p)
      PROVE  Protocol'
  <2> DEFINE t == Current(p)
  <2>1. t \in Conns /\ Fits(thread[p], link[t], toServer[t], toClient[t], handler[t], Serving(t))
    BY <1>p
  <2>2. /\ thread' = [thread EXCEPT ![p] = "done"]
        /\ UNCHANGED <<run, handler, owns>> /\ process'["server"] = process["server"]
        /\ thread[p] = "results?"
    BY <1>7, <1>f DEF ReceiveResults, Finish, serverVars, processVars, Roles
  <2>3. /\ link' = [link EXCEPT ![t] = IF link[t] = "none" THEN link[t] ELSE "cut"]
        /\ toServer' = [toServer EXCEPT ![t] = toServer[t]]
        /\ toClient' = [toClient EXCEPT ![t] = "none"]
    BY <1>7, <1>f, <2>1 DEF ReceiveResults, Finish, serverVars, processVars
  <2>4. Fits("done", IF link[t] = "none" THEN link[t] ELSE "cut", toServer[t], "none",
             handler[t], Serving(t))
    <3> HIDE DEF t
    <3> QED BY <2>1, <2>2, <1>f DEF Fits, Starting, Ending
  <2> QED BY <2>2, <2>3, <2>4, <1>t, ThreadsTest
<1>8. ASSUME NEW p \in Ports, ConnectionLost(p)
      PROVE  Protocol'
  <2> DEFINE t == Current(p)
  <2>1. t \in Conns /\ Fits(thread[p], link[t], toServer[t], toClient[t], handler[t], Serving(t))
    BY <1>p
  <2>2. /\ thread' = [thread EXCEPT ![p] = "done"]
        /\ UNCHANGED <<run, handler, owns>> /\ process'["server"] = process["server"]
        /\ thread[p] \in {"ready?", "results?"}
    BY <1>8, <1>f DEF ConnectionLost, Finish, serverVars, processVars, Roles
  <2>3. /\ link' = [link EXCEPT ![t] = IF link[t] = "none" THEN link[t] ELSE "cut"]
        /\ toServer' = [toServer EXCEPT ![t] = toServer[t]]
        /\ toClient' = [toClient EXCEPT ![t] = toClient[t]]
    BY <1>8, <1>f, <2>1 DEF ConnectionLost, Finish, serverVars, processVars
  <2>4. Fits("done", IF link[t] = "none" THEN link[t] ELSE "cut", toServer[t], toClient[t],
             handler[t], Serving(t))
    <3> HIDE DEF t
    <3> QED BY <2>1, <2>2, <1>f DEF Fits, Starting, Ending
  <2> QED BY <2>2, <2>3, <2>4, <1>t, ThreadsTest
<1>9. ASSUME NEW t \in Tests, LaunchServer(t)
      PROVE  Protocol'
  <2>1. t \in Conns /\ Fits(Stage(t), link[t], toServer[t], toClient[t], handler[t], Serving(t))
    BY <1>h
  <2>2. /\ UNCHANGED <<run, thread>>
        /\ \A u \in Tests : u # t =>
             /\ link'[u] = link[u] /\ toServer'[u] = toServer[u] /\ toClient'[u] = toClient[u]
             /\ handler'[u] = handler[u] /\ owns'[u] = owns[u]
             /\ process'["server"][u] = process["server"][u]
    BY <1>9, <1>f, <2>1 DEF LaunchServer, Takes, ServerLaunched, clientVars, serverVars,
       processVars, Roles, Conns
  <2>3. /\ handler[t] = "reading" /\ toServer[t] = "CONFIG_REQUEST"
        /\ handler'[t] = "readiness" /\ toServer'[t] = "none"
        /\ link'[t] = link[t] /\ toClient'[t] = toClient[t]
    BY <1>9, <1>f, <1>t, <2>1 DEF LaunchServer, Takes, ServerLaunched, clientVars, serverVars,
       processVars, Roles, Serving
  <2>4. Fits(Stage(t), link'[t], toServer'[t], toClient'[t], handler'[t], Serving(t)')
    BY <2>1, <2>3 DEF Fits, Starting, Ending
  <2> QED BY <2>2, <2>4, <1>t, HandlersTest
<1>10. ASSUME NEW t \in Tests, LaunchServerFails(t)
      PROVE  Protocol'
  <2>1. t \in Conns /\ Fits(Stage(t), link[t], toServer[t], toClient[t], handler[t], Serving(t))
    BY <1>h
  <2>2. /\ UNCHANGED <<run, thread>>
        /\ \A u \in Tests : u # t =>
             /\ link'[u] = link[u] /\ toServer'[u] = toServer[u] /\ toClient'[u] = toClient[u]
             /\ handler'[u] = handler[u] /\ owns'[u] = owns[u]
             /\ process'["server"][u] = process["server"][u]
    BY <1>10, <1>f, <2>1 DEF LaunchServerFails, Takes, ReportError, Reply, clientVars,
       serverVars, processVars, Roles, Conns
  <2>3. /\ handler[t] = "reading" /\ toServer[t] = "CONFIG_REQUEST"
        /\ handler'[t] = handler[t] /\ toServer'[t] = "none" /\ link'[t] = link[t]
        /\ toClient'[t] = IF link[t] = "open" THEN "ERROR" ELSE toClient[t]
    BY <1>10, <1>f, <1>t, <2>1 DEF LaunchServerFails, Takes, ReportError, Reply, clientVars,
       serverVars, processVars, Roles, Serving
  <2>4. Fits(Stage(t), link'[t], toServer'[t], toClient'[t], handler'[t], Serving(t)')
    BY <2>1, <2>3 DEF Fits, Starting, Ending
  <2> QED BY <2>2, <2>4, <1>t, HandlersTest
<1>11. ASSUME NEW t \in Tests, ServerReady(t)
      PROVE  Protocol'
  <2>1. t \in Conns /\ Fits(Stage(t), link[t], toServer[t], toClient[t], handler[t], Serving(t))
    BY <1>h
  <2>2. /\ UNCHANGED <<run, thread>>
        /\ \A u \in Tests : u # t =>
             /\ link'[u] = link[u] /\ toServer'[u] = toServer[u] /\ toClient'[u] = toClient[u]
             /\ handler'[u] = handler[u] /\ owns'[u] = owns[u]
             /\ process'["server"][u] = process["server"][u]
    BY <1>11, <1>f, <2>1 DEF ServerReady, Reply, clientVars, serverVars, processVars, Roles,
       Conns
  <2>3. /\ handler[t] = "readiness" /\ handler'[t] = "reading"
        /\ toServer'[t] = toServer[t] /\ link'[t] = link[t]
        /\ toClient'[t] = IF link[t] = "open" THEN "SERVER_READY" ELSE toClient[t]
        /\ Serving(t)'
    BY <1>11, <1>f, <1>t, <2>1 DEF ServerReady, Reply, clientVars, serverVars, processVars,
       Roles, Serving, ServerOwned, Alive
  <2>4. Fits(Stage(t), link'[t], toServer'[t], toClient'[t], handler'[t], Serving(t)')
    BY <2>1, <2>3 DEF Fits, Starting, Ending
  <2> QED BY <2>2, <2>4, <1>t, HandlersTest
<1>12. ASSUME NEW t \in Tests, ServerNotReady(t)
      PROVE  Protocol'
  <2>1. t \in Conns /\ Fits(Stage(t), link[t], toServer[t], toClient[t], handler[t], Serving(t))
    BY <1>h
  <2>2. /\ UNCHANGED <<run, thread>>
        /\ \A u \in Tests : u # t =>
             /\ link'[u] = link[u] /\ toServer'[u] = toServer[u] /\ toClient'[u] = toClient[u]
             /\ handler'[u] = handler[u] /\ owns'[u] = owns[u]
             /\ process'["server"][u] = process["server"][u]
    BY <1>12, <1>f, <2>1 DEF ServerNotReady, ReportError, Reply, Terminated, clientVars,
       serverVars, processVars, Roles, Conns
  <2>3. /\ handler[t] = "readiness" /\ handler'[t] = "reading"
        /\ toServer'[t] = toServer[t] /\ link'[t] = link[t]
        /\ toClient'[t] = IF link[t] = "open" THEN "ERROR" ELSE toClient[t]
    BY <1>12, <1>f, <1>t, <2>1 DEF ServerNotReady, ReportError, Reply, Terminated, clientVars,
       serverVars, processVars, Roles, Serving
  <2>4. Fits(Stage(t), link'[t], toServer'[t], toClient'[t], handler'[t], Serving(t)')
    BY <2>1, <2>3 DEF Fits, Starting, Ending
  <2> QED BY <2>2, <2>4, <1>t, HandlersTest
<1>13. ASSUME NEW t \in Tests, HandleResultsRequest(t)
      PROVE  Protocol'
  <2>1. t \in Conns /\ Fits(Stage(t), link[t], toServer[t], toClient[t], handler[t], Serving(t))
    BY <1>h
  <2>2. /\ UNCHANGED <<run, thread>>
        /\ \A u \in Tests : u # t =>
             /\ link'[u] = link[u] /\ toServer'[u] = toServer[u] /\ toClient'[u] = toClient[u]
             /\ handler'[u] = handler[u] /\ owns'[u] = owns[u]
             /\ process'["server"][u] = process["server"][u]
    BY <1>13, <1>f, <2>1 DEF HandleResultsRequest, Takes, Reply, clientVars, serverVars,
       processVars, Roles, Conns
  <2>3. /\ handler[t] = "reading" /\ toServer[t] = "RESULTS_REQUEST"
        /\ toServer'[t] = "none" /\ link'[t] = link[t] /\ Serving(t)' = Serving(t)
        /\ Serving(t) => handler'[t] = "exit?" /\ toClient'[t] = toClient[t]
        /\ ~ Serving(t) => link[t] = "open" \/ toClient'[t] = toClient[t]
        /\ handler'[t] # "none"
    BY <1>13, <1>f, <1>t, <2>1 DEF HandleResultsRequest, Takes, Reply, clientVars, serverVars,
       processVars, Roles, Serving
  <2>4. Fits(Stage(t), link'[t], toServer'[t], toClient'[t], handler'[t], Serving(t)')
    BY <2>1, <2>3 DEF Fits, Starting, Ending
  <2> QED BY <2>2, <2>4, <1>t, HandlersTest
<1>14. ASSUME NEW t \in Tests, SendResults(t)
      PROVE  Protocol'
  <2>1. t \in Conns /\ Fits(Stage(t), link[t], toServer[t], toClient[t], handler[t], Serving(t))
    BY <1>h
  <2>2. /\ UNCHANGED <<run, thread>>
        /\ \A u \in Tests : u # t =>
             /\ link'[u] = link[u] /\ toServer'[u] = toServer[u] /\ toClient'[u] = toClient[u]
             /\ handler'[u] = handler[u] /\ owns'[u] = owns[u]
             /\ process'["server"][u] = process["server"][u]
    BY <1>14, <1>f, <2>1 DEF SendResults, Reply, clientVars, serverVars, processVars, Roles,
       Conns
  <2>3. /\ handler[t] = "exit?" /\ handler'[t] = "answered"
        /\ toServer'[t] = toServer[t] /\ link'[t] = link[t]
        /\ link[t] = "open" => toClient'[t] \in {"RESULTS_PASS", "RESULTS_FAIL"}
        /\ link[t] # "open" => toClient'[t] = toClient[t]
    BY <1>14, <1>f, <1>t, <2>1 DEF SendResults, Reply, clientVars, serverVars, processVars,
       Roles, Serving
  <2>4. Fits(Stage(t), link'[t], toServer'[t], toClient'[t], handler'[t], Serving(t)')
    BY <2>1, <2>3 DEF Fits, Starting, Ending
  <2> QED BY <2>2, <2>4, <1>t, HandlersTest
<1>15. ASSUME NEW t \in Tests, StoreHistory(t)
      PROVE  Protocol'
  <2>1. t \in Conns /\ Fits(Stage(t), link[t], toServer[t], toClient[t], handler[t], Serving(t))
    BY <1>h
  <2>2. /\ UNCHANGED <<run, thread>>
        /\ \A u \in Tests : u # t =>
             /\ link'[u] = link[u] /\ toServer'[u] = toServer[u] /\ toClient'[u] = toClient[u]
             /\ handler'[u] = handler[u] /\ owns'[u] = owns[u]
             /\ process'["server"][u] = process["server"][u]
    BY <1>15, <1>f, <2>1 DEF StoreHistory, clientVars, serverVars, processVars, Roles, Conns
  <2>3. /\ link[t] \in {"none", "open", "cut"}
        /\ handler[t] = "answered" /\ handler'[t] = "done" /\ link'[t] = "cut"
        /\ toServer'[t] = toServer[t] /\ toClient'[t] = toClient[t]
    BY <1>15, <1>f, <1>t, <2>1 DEF StoreHistory, clientVars, serverVars, processVars, Roles,
       Serving
  <2>4. Fits(Stage(t), link'[t], toServer'[t], toClient'[t], handler'[t], Serving(t)')
    BY <2>1, <2>3 DEF Fits, Starting, Ending
  <2> QED BY <2>2, <2>4, <1>t, HandlersTest
<1>16. ASSUME NEW t \in Tests, ClientGone(t)
      PROVE  Protocol'
  <2>1. t \in Conns /\ Fits(Stage(t), link[t], toServer[t], toClient[t], handler[t], Serving(t))
    BY <1>h
  <2>2. /\ UNCHANGED <<run, thread>>
        /\ \A u \in Tests : u # t =>
             /\ link'[u] = link[u] /\ toServer'[u] = toServer[u] /\ toClient'[u] = toClient[u]
             /\ handler'[u] = handler[u] /\ owns'[u] = owns[u]
             /\ process'["server"][u] = process["server"][u]
    BY <1>16, <1>f, <2>1 DEF ClientGone, Cleanup, Terminated, clientVars, serverVars,
       processVars, Roles, Conns
  <2>3. /\ link[t] = "cut" /\ link'[t] = "cut" /\ toClient'[t] = toClient[t]
    BY <1>16, <1>f, <1>t, <2>1 DEF ClientGone, Cleanup, Terminated, clientVars, serverVars,
       processVars, Roles, Serving
  <2>4. Fits(Stage(t), link'[t], toServer'[t], toClient'[t], handler'[t], Serving(t)')
    BY <2>1, <2>3 DEF Fits, Starting, Ending
  <2> QED BY <2>2, <2>4, <1>t, HandlersTest
<1>17. ASSUME NEW t \in Tests, ServerListens(t)
      PROVE  Protocol'
  <2>1. t \in Conns /\ Fits(Stage(t), link[t], toServer[t], toClient[t], handler[t], Serving(t))
    BY <1>h
  <2>2. /\ UNCHANGED <<run, thread>>
        /\ \A u \in Tests : u # t =>
             /\ link'[u] = link[u] /\ toServer'[u] = toServer[u] /\ toClient'[u] = toClient[u]
             /\ handler'[u] = handler[u] /\ owns'[u] = owns[u]
             /\ process'["server"][u] = process["server"][u]
    BY <1>17, <1>f, <2>1 DEF ServerListens, clientVars, serverVars, processVars, Roles, Conns
  <2>3. /\ link'[t] = link[t] /\ toServer'[t] = toServer[t] /\ toClient'[t] = toClient[t]
        /\ handler'[t] = handler[t] /\ ~ Serving(t)
    BY <1>17, <1>f, <1>t, <2>1 DEF ServerListens, clientVars, serverVars, processVars, Roles,
       Serving
  <2>4. Fits(Stage(t), link'[t], toServer'[t], toClient'[t], handler'[t], Serving(t)')
    BY <2>1, <2>3 DEF Fits, Starting, Ending
  <2> QED BY <2>2, <2>4, <1>t, HandlersTest
<1>18. ASSUME NEW t \in Tests, ServerStartFails(t)
      PROVE  Protocol'
  <2>1. t \in Conns /\ Fits(Stage(t), link[t], toServer[t], toClient[t], handler[t], Serving(t))
    BY <1>h
  <2>2. /\ UNCHANGED <<run, thread>>
        /\ \A u \in Tests : u # t =>
             /\ link'[u] = link[u] /\ toServer'[u] = toServer[u] /\ toClient'[u] = toClient[u]
             /\ handler'[u] = handler[u] /\ owns'[u] = owns[u]
             /\ process'["server"][u] = process["server"][u]
    BY <1>18, <1>f, <2>1 DEF ServerStartFails, clientVars, serverVars, processVars, Roles, Conns
  <2>3. /\ link'[t] = link[t] /\ toServer'[t] = toServer[t] /\ toClient'[t] = toClient[t]
        /\ handler'[t] = handler[t] /\ ~ Serving(t)
    BY <1>18, <1>f, <1>t, <2>1 DEF ServerStartFails, clientVars, serverVars, processVars,
       Roles, Serving
  <2>4. Fits(Stage(t), link'[t], toServer'[t], toClient'[t], handler'[t], Serving(t)')
    BY <2>1, <2>3 DEF Fits, Starting, Ending
  <2> QED BY <2>2, <2>4, <1>t, HandlersTest
<1>19. ASSUME NEW t \in Tests, Break(t)
      PROVE  Protocol'
  <2>1. t \in Conns /\ Fits(Stage(t), link[t], toServer[t], toClient[t], handler[t], Serving(t))
    BY <1>h
  <2>2. /\ UNCHANGED <<run, thread>>
        /\ \A u \in Tests : u # t =>
             /\ link'[u] = link[u] /\ toServer'[u] = toServer[u] /\ toClient'[u] = toClient[u]
             /\ handler'[u] = handler[u] /\ owns'[u] = owns[u]
             /\ process'["server"][u] = process["server"][u]
    BY <1>19, <1>f, <2>1 DEF Break, clientVars, serverVars, processVars, Roles, Conns
  <2>3. /\ link[t] = "open" /\ link'[t] = "cut" /\ toServer'[t] = "none" /\ toClient'[t] = "none"
    BY <1>19, <1>f, <1>t, <2>1 DEF Break, clientVars, serverVars, processVars, Roles, Serving
  <2>4. Fits(Stage(t), link'[t], toServer'[t], toClient'[t], handler'[t], Serving(t)')
    BY <2>1, <2>3 DEF Fits, Starting, Ending
  <2> QED BY <2>2, <2>4, <1>t, HandlersTest
<1>20. ASSUME NEW c \in Conns, Accept(c)
      PROVE  Protocol'
  <2>1. /\ handler[c] = "none" /\ link[c] # "none" /\ handler' = [handler EXCEPT ![c] = "reading"]
        /\ UNCHANGED <<run, thread, link, toServer, toClient, owns, process>>
    BY <1>20 DEF Accept, clientVars, processVars
  <2>2. CASE c \in Tests
    <3>1. Fits(Stage(c), link[c], toServer[c], toClient[c], handler[c], Serving(c))
      BY <2>2, <1>h
    <3>2. /\ link'[c] = link[c] /\ toServer'[c] = toServer[c] /\ toClient'[c] = toClient[c]
          /\ handler'[c] = "reading" /\ Serving(c)' = Serving(c)
      BY <2>1, <1>f DEF Serving
    <3>3. Fits(Stage(c), link'[c], toServer'[c], toClient'[c], handler'[c], Serving(c)')
      BY <3>1, <3>2, <2>1 DEF Fits, Starting, Ending
    <3>4. \A u \in Tests : u # c =>
            /\ link'[u] = link[u] /\ toServer'[u] = toServer[u] /\ toClient'[u] = toClient[u]
            /\ handler'[u] = handler[u] /\ owns'[u] = owns[u]
            /\ process'["server"][u] = process["server"][u]
      BY <2>1, <1>f DEF Conns
    <3> QED BY <3>3, <3>4, <2>1, <2>2, <1>t, HandlersTest
  <2>3. CASE c \notin Tests
    <3>1. \A u \in Tests : handler'[u] = handler[u]
      BY <2>1, <2>3, <1>f DEF Conns
    <3>2. \A u \in Tests : Untouched(u)
      BY <3>1, <2>1 DEF Untouched, Stage, Serving
    <3> QED BY <3>2, NoTest
  <2> QED BY <2>2, <2>3
<1>21. ASSUME NEW t \in Tests, TestStarts(t)
      PROVE  Protocol'
  <2>1. PICK v \in Tests :
          /\ process["server"][v] = "ready"
          /\ process' = [process EXCEPT !["client"][t] = "testing", !["server"][v] = "testing"]
    BY <1>21 DEF TestStarts
  <2>2. UNCHANGED <<run, thread, link, toServer, toClient, handler, owns>>
    BY <1>21 DEF TestStarts, clientVars, serverVars
  <2>3. /\ process'["server"][v] = "testing"
        /\ \A u \in Tests : u # v => process'["server"][u] = process["server"][u]
    BY <2>1, <1>f DEF Roles
  <2>4. \A u \in Tests : Serving(u)' = Serving(u)
    BY <2>1, <2>2, <2>3 DEF Serving
  <2>5. \A u \in Tests : Untouched(u)
    BY <2>2, <2>4 DEF Untouched, Stage
  <2> QED BY <2>5, NoTest
<1>22. ASSUME NEW t \in Tests,
             ClientGivesUp(t) \/ \E r \in Roles : TestEnds(r, t)
      PROVE  Protocol'
  <2>1. PICK q \in Roles : /\ process[q][t] = "testing" \/ q = "client"
                           /\ process' = [process EXCEPT ![q][t] = "exited"]
    BY <1>22 DEF ClientGivesUp, TestEnds, Exits, Roles
  <2>2. UNCHANGED <<run, thread, link, toServer, toClient, handler, owns>>
    BY <1>22 DEF ClientGivesUp, TestEnds, Exits, clientVars, serverVars
  <2>3. ASSUME NEW u \in Tests
        PROVE  Serving(u)' = Serving(u)
    <3>1. \/ process'["server"][u] = process["server"][u]
          \/ process["server"][u] = "testing" /\ process'["server"][u] = "exited"
      BY <2>1, <1>f DEF Roles
    <3> QED BY <3>1, <2>2 DEF Serving
  <2>4. \A u \in Tests : Untouched(u)
    BY <2>2, <2>3 DEF Untouched, Stage
  <2> QED BY <2>4, NoTest
<1>23. CASE NextRun
  <2>1. \A u \in Tests : Stage(u)' = Stage(u)
    BY <1>23, <1>t, NextRunStage
  <2>2. UNCHANGED <<link, toServer, toClient, handler, owns, process>>
    BY <1>23 DEF NextRun, serverVars, processVars
  <2>3. \A u \in Tests : Untouched(u)
    BY <2>1, <2>2 DEF Untouched, Serving
  <2> QED BY <2>3, NoTest
<1>24. CASE SendShutdown \/ HandleShutdown
  <2>1. /\ UNCHANGED <<run, thread, toClient, owns, process>>
        /\ link' = link \/ link' = [link EXCEPT ![ShutdownConn] = "cut"]
        /\ \/ toServer' = toServer
           \/ \E m : toServer' = [toServer EXCEPT ![ShutdownConn] = m]
        /\ handler' = handler \/ handler' = [handler EXCEPT ![ShutdownConn] = "done"]
    BY <1>24 DEF SendShutdown, HandleShutdown, Takes, clientVars, serverVars, processVars
  <2>2. \A u \in Tests : u # ShutdownConn /\ u \in Conns
    BY ShutdownIsNoTest DEF Conns
  <2>3. \A u \in Tests : /\ link'[u] = link[u] /\ toServer'[u] = toServer[u]
                         /\ handler'[u] = handler[u]
    BY <2>1, <2>2, <1>f
  <2>4. \A u \in Tests : Untouched(u)
    BY <2>1, <2>3 DEF Untouched, Stage, Serving
  <2> QED BY <2>4, NoTest
<1>25. CASE \/ CheckRunning \/ CallAccept \/ AcceptInterrupted \/ JoinClientThreads
           \/ UNCHANGED vars
  <2>1. UNCHANGED <<run, thread, link, toServer, toClient, handler, owns, process>>
    BY <1>25 DEF CheckRunning, CallAccept, AcceptInterrupted, JoinClientThreads, clientVars,
       processVars, vars
  <2>2. \A u \in Tests : Untouched(u)
    BY <2>1 DEF Untouched, Stage, Serving
  <2> QED BY <2>2, NoTest
<1> QED
  BY <1>1, <1>2, <1>3, <1>4, <1>5, <1>6, <1>7, <1>8, <1>9, <1>10, <1>11, <1>12, <1>13,
     <1>14, <1>15, <1>16, <1>17, <1>18, <1>19, <1>20, <1>21, <1>22, <1>23, <1>24, <1>25
     DEF Next, ThreadStep, AcceptorStep, HandlerStep, ProcessStep

(* Every step keeps the control server up while the client needs it.       *)
LEMMA ServerUpStep == TypeOK /\ ServerUp /\ [Next]_vars => ServerUp'
<1> SUFFICES ASSUME TypeOK, ServerUp, [Next]_vars
             PROVE  ServerUp'
  OBVIOUS
<1>f. toServer \in [Conns -> Requests \cup {"none"}] /\ ShutdownConn \in Conns
  BY ShutdownIsNoTest DEF TypeOK
<1>s. ASSUME UNCHANGED <<exitCode, running, acceptor>>,
             toServer'[ShutdownConn] = toServer[ShutdownConn]
      PROVE  ServerUp'
  BY <1>s, Zenon DEF ServerUp, ShutdownConn
<1>1. ASSUME NEW p \in Ports, ThreadStep(p)
      PROVE  ServerUp'
  <2>1. UNCHANGED <<exitCode, running, acceptor>>
    BY <1>1 DEF ThreadStep, SendConfig, ConnectFails, LaunchClient, TestFailsToStart,
       RequestResults, RequestFails, ReceiveResults, ConnectionLost, Finish, serverVars
  <2>2. toServer' = toServer \/ \E m : toServer' = [toServer EXCEPT ![Current(p)] = m]
    BY <1>1 DEF ThreadStep, SendConfig, ConnectFails, LaunchClient, TestFailsToStart,
       RequestResults, RequestFails, ReceiveResults, ConnectionLost
  <2>3. Current(p) # ShutdownConn
    BY CurrentIsTest, ShutdownIsNoTest
  <2>4. toServer'[ShutdownConn] = toServer[ShutdownConn]
    BY <2>2, <2>3, <1>f
  <2> QED BY <2>1, <2>4, <1>s
<1>2. ASSUME NEW t \in Tests, HandlerStep(t) \/ ProcessStep(t) \/ Break(t)
      PROVE  ServerUp'
  <2>1. UNCHANGED <<exitCode, running, acceptor>>
    BY <1>2 DEF HandlerStep, ProcessStep, Break, LaunchServer, LaunchServerFails, ServerReady,
       ServerNotReady, HandleResultsRequest, SendResults, StoreHistory, ClientGone, ServerListens,
       ServerStartFails, TestStarts, ClientGivesUp, TestEnds, Exits, clientVars, serverVars
  <2>2. toServer' = toServer \/ \E m : toServer' = [toServer EXCEPT ![t] = m]
    BY <1>2 DEF HandlerStep, ProcessStep, Break, LaunchServer, LaunchServerFails, ServerReady,
       ServerNotReady, HandleResultsRequest, SendResults, StoreHistory, ClientGone, ServerListens,
       ServerStartFails, TestStarts, ClientGivesUp, TestEnds, Exits, Takes
  <2>3. t # ShutdownConn
    BY ShutdownIsNoTest
  <2>4. toServer'[ShutdownConn] = toServer[ShutdownConn]
    BY <2>2, <2>3, <1>f
  <2> QED BY <2>1, <2>4, <1>s
<1>3. CASE NextRun \/ UNCHANGED vars
  <2>1. UNCHANGED <<exitCode, running, acceptor, toServer>>
    BY <1>3 DEF NextRun, serverVars, vars
  <2> QED BY <2>1, <1>s
<1>4. CASE SendShutdown
  <2>1. exitCode' # -1 /\ UNCHANGED <<running, acceptor>>
    BY <1>4 DEF SendShutdown, ExitCode, serverVars
  <2> QED BY <2>1 DEF ServerUp
<1>5. CASE HandleShutdown
  <2>1. running' = FALSE /\ toServer[ShutdownConn] # "none" /\ UNCHANGED exitCode
    BY <1>5 DEF HandleShutdown, Takes, clientVars
  <2> QED BY <2>1 DEF ServerUp
<1>6. CASE AcceptorStep
  <2>1. /\ UNCHANGED <<exitCode, running, toServer>>
        /\ acceptor' \in {"loop", "calling", "accepting"} \/ ~ running \/ acceptor = "joining"
    BY <1>6 DEF AcceptorStep, CheckRunning, CallAccept, Accept, AcceptInterrupted,
       JoinClientThreads, clientVars
  <2> QED BY <2>1 DEF ServerUp, ShutdownConn
<1> QED BY <1>1, <1>2, <1>3, <1>4, <1>5, <1>6 DEF Next

(* The protocol is kept, and the control server stays up, throughout.      *)
LEMMA ProtocolAlways == SafetySpec => [](Protocol /\ ServerUp)
<1>1. Init => Protocol /\ ServerUp
  <2> SUFFICES ASSUME Init PROVE Protocol /\ ServerUp
    OBVIOUS
  <2>1. ASSUME NEW t \in Tests
        PROVE  TestFits(t)
    <3>1. t \in Conns /\ t[1] \in 1..Runs /\ t[2] \in Ports
      BY DEF Conns, Tests
    <3>2. Stage(t) = "start"
      BY <3>1 DEF Init, Stage
    <3>3. link[t] = "none" /\ toServer[t] = "none" /\ toClient[t] = "none" /\ handler[t] = "none"
      BY <3>1 DEF Init
    <3> QED BY <3>2, <3>3 DEF TestFits, Fits
  <2>2. ServerUp
    BY ShutdownIsNoTest DEF Init, ServerUp
  <2> QED BY <2>1, <2>2 DEF Protocol
<1>2. IInv => TypeOK
  BY DEF IInv
<1> QED BY <1>1, <1>2, ProtocolStep, ServerUpStep, Invariance, PTL DEF SafetySpec

(* A thread that waits for SERVER_READY has its answer, finds the          *)
(* connection cut, or its request is waiting for the handler, for a server *)
(* that accepts, or is being dealt with under a timeout.                   *)
ReadyComes(t) ==
  \/ toClient[t] \in {"SERVER_READY", "ERROR"}
  \/ toClient[t] = "none" /\ link[t] = "cut"
  \/ toServer[t] = "CONFIG_REQUEST" /\ handler[t] = "reading"
  \/ /\ toServer[t] = "CONFIG_REQUEST" /\ handler[t] = "none"
     /\ running /\ acceptor \in {"loop", "calling", "accepting"}
  \/ handler[t] = "readiness"

(* A handler that waits for the end of an IPEFTC server which no client    *)
(* will reach any more.                                                    *)
Stranded(t) ==
  /\ handler[t] = "exit?"
  /\ process["server"][t] = "ready"
  /\ process["client"][t] = "exited"

(* One that waits for the results has them, finds the connection cut, or   *)
(* its request is with a handler whose IPEFTC server has ended or is in a  *)
(* test, unless the handler is stranded.                                   *)
ResultsCome(t) ==
  \/ toClient[t] \in {"RESULTS_PASS", "RESULTS_FAIL"}
  \/ toClient[t] = "none" /\ link[t] = "cut"
  \/ toServer[t] = "RESULTS_REQUEST" /\ handler[t] = "reading"
  \/ handler[t] = "exit?" /\ process["server"][t] \in {"testing", "exited"}
  \/ Stranded(t)

(* The safety half of ClientExits: although no receive of the control      *)
(* protocol has a timeout, whatever breaks, fails to start or is refused,  *)
(* the client waits only for what a running server, a timed wait or the    *)
(* end of an IPEFTC server in a test will bring, or for a stranded handler.*)
(* Whether that test ends is not the control protocol's to say.            *)
THEOREM EveryReceiveAnswered ==
  SafetySpec => [](\A p \in Ports : /\ thread[p] = "ready?" => ReadyComes(Current(p))
                                    /\ thread[p] = "results?" => ResultsCome(Current(p)))
<1>1. ASSUME IInv, Protocol, ServerUp, NEW p \in Ports
      PROVE  /\ thread[p] = "ready?" => ReadyComes(Current(p))
             /\ thread[p] = "results?" => ResultsCome(Current(p))
  <2> DEFINE t == Current(p)
  <2>t. TypeOK
    BY <1>1 DEF IInv
  <2>1. t \in Tests /\ t \in Conns
    BY <1>1, <2>t, CurrentIsTest
  <2>2. Stage(t) = thread[p]
    BY <2>t DEF Stage, Current, TypeOK
  <2>3. Fits(thread[p], link[t], toServer[t], toClient[t], handler[t], Serving(t))
    BY <2>1, <2>2, <1>1 DEF Protocol, TestFits
  <2>4. link[t] \in {"none", "open", "cut"}
    BY <2>1, <2>t DEF TypeOK
  <2>5. thread[p] # "done" => running /\ acceptor \in {"loop", "calling", "accepting"}
    BY <1>1 DEF IInv, ExitInOrder, RunCompleted, ServerUp
  <2>6. thread[p] = "results?" => process["client"][t] = "exited"
    BY <2>1, <2>2, <1>1 DEF IInv, ClientByStage
  <2> HIDE DEF t
  <2>7. CASE thread[p] = "ready?"
    <3>1. ReadyComes(t)
      BY <2>3, <2>4, <2>5, <2>7 DEF Fits, Starting, ReadyComes
    <3> QED BY <3>1, <2>7 DEF t
  <2>8. CASE thread[p] = "results?"
    <3>1. ResultsCome(t)
      BY <2>3, <2>4, <2>6, <2>8 DEF Fits, Ending, Serving, ResultsCome, Stranded
    <3> QED BY <3>1, <2>8 DEF t
  <2> QED BY <2>7, <2>8
<1>2. IInv /\ Protocol /\ ServerUp =>
        \A p \in Ports : /\ thread[p] = "ready?" => ReadyComes(Current(p))
                         /\ thread[p] = "results?" => ResultsCome(Current(p))
  BY <1>1
<1> QED BY <1>2, Invariance, ProtocolAlways, PTL

-----------------------------------------------------------------------------
(* What the control server waits for when it shuts down.  HandlersReturn   *)
(* is liveness; it rests on what holds of every handler.                   *)

(* A handler has no process before it reads, the one it has was ready when *)
(* it goes on, and it waits for the end of one only after the client has   *)
(* seen the end of its own.                                                *)
HandlersInv ==
  \A t \in Tests :
    /\ owns[t] /\ handler[t] \in {"reading", "exit?"} =>
         process["server"][t] \in {"ready", "testing", "exited"}
    /\ handler[t] = "exit?" => owns[t]
    /\ handler[t] = "none" => ~ owns[t]
    /\ toServer[t] = "RESULTS_REQUEST" \/ handler[t] = "exit?" =>
         process["client"][t] = "exited" /\ Stage(t) \in {"results?", "done"}

(* Every step keeps it.                                                    *)
LEMMA HandlersStep == IInv /\ HandlersInv /\ [Next]_vars => HandlersInv'
<1> SUFFICES ASSUME TypeOK, ServerOwned, HandlersInv, [Next]_vars
             PROVE  HandlersInv'
  BY DEF IInv
<1> USE DEF TypeOK, HandlersInv, Stage, Current, Roles, clientVars, serverVars, processVars,
            environment
<1>1. ASSUME NEW p \in Ports, SendConfig(p)
      PROVE  HandlersInv'
  <2>1. Current(p) \in Tests /\ Current(p) \in Conns
    BY CurrentIsTest
  <2> QED BY <2>1, <1>1 DEF SendConfig, Tests, Conns
<1>2. ASSUME NEW p \in Ports, ConnectFails(p)
      PROVE  HandlersInv'
  <2>1. Current(p) \in Tests /\ Current(p) \in Conns
    BY CurrentIsTest
  <2> QED BY <2>1, <1>2 DEF ConnectFails, Finish, Tests, Conns
<1>3. ASSUME NEW p \in Ports, LaunchClient(p)
      PROVE  HandlersInv'
  <2>1. Current(p) \in Tests /\ Current(p) \in Conns
    BY CurrentIsTest
  <2> QED BY <2>1, <1>3 DEF LaunchClient, ClientLaunched, Tests, Conns
<1>4. ASSUME NEW p \in Ports, TestFailsToStart(p)
      PROVE  HandlersInv'
  <2>1. Current(p) \in Tests /\ Current(p) \in Conns
    BY CurrentIsTest
  <2> QED BY <2>1, <1>4 DEF TestFailsToStart, Finish, Tests, Conns
<1>5. ASSUME NEW p \in Ports, RequestResults(p)
      PROVE  HandlersInv'
  <2>1. Current(p) \in Tests /\ Current(p) \in Conns
    BY CurrentIsTest
  <2>2. /\ thread' = [thread EXCEPT ![p] = "results?"] /\ UNCHANGED run
        /\ process["client"][Current(p)] = "exited"
    BY <1>5 DEF RequestResults
  <2>3. UNCHANGED <<handler, owns, process>>
    BY <1>5 DEF RequestResults
  <2>4. \A u \in Tests : u # Current(p) => toServer'[u] = toServer[u]
    BY <1>5 DEF RequestResults, Conns
  <2>5. Current(p)' = Current(p)
    BY <2>2
  <2> HIDE DEF TypeOK, HandlersInv, Stage, Current
  <2>6. Stage(Current(p))' = "results?" /\ \A u \in Tests : u # Current(p) => Stage(u)' = Stage(u)
    BY <2>2, ThreadStage
  <2>7. ASSUME NEW u \in Tests
        PROVE  /\ toServer'[u] = "RESULTS_REQUEST" \/ handler[u] = "exit?" =>
                    process["client"][u] = "exited" /\ Stage(u)' \in {"results?", "done"}
    <3>1. CASE u = Current(p)
      <4>1. Stage(u)' = "results?"
        BY <2>5, <2>6, <3>1
      <4> QED BY <4>1, <3>1, <2>2
    <3>2. CASE u # Current(p)
      BY <3>2, <2>4, <2>6 DEF HandlersInv
    <3> QED BY <3>1, <3>2
  <2> QED BY <2>3, <2>7 DEF HandlersInv
<1>6. ASSUME NEW p \in Ports, RequestFails(p)
      PROVE  HandlersInv'
  <2>1. Current(p) \in Tests /\ Current(p) \in Conns
    BY CurrentIsTest
  <2> QED BY <2>1, <1>6 DEF RequestFails, Finish, Tests, Conns
<1>7. ASSUME NEW p \in Ports, ReceiveResults(p)
      PROVE  HandlersInv'
  <2>1. Current(p) \in Tests /\ Current(p) \in Conns
    BY CurrentIsTest
  <2> QED BY <2>1, <1>7 DEF ReceiveResults, Finish, Tests, Conns
<1>8. ASSUME NEW p \in Ports, ConnectionLost(p)
      PROVE  HandlersInv'
  <2>1. Current(p) \in Tests /\ Current(p) \in Conns
    BY CurrentIsTest
  <2> QED BY <2>1, <1>8 DEF ConnectionLost, Finish, Tests, Conns
<1>9. ASSUME NEW t \in Tests, LaunchServer(t)
      PROVE  HandlersInv'
  BY <1>9 DEF LaunchServer, Takes, ServerLaunched, Conns
<1>10. ASSUME NEW t \in Tests, LaunchServerFails(t)
      PROVE  HandlersInv'
  BY <1>10 DEF LaunchServerFails, Takes, Conns
<1>11. ASSUME NEW t \in Tests, ServerReady(t)
      PROVE  HandlersInv'
  BY <1>11 DEF ServerReady, Conns
<1>12. ASSUME NEW t \in Tests, ServerNotReady(t)
      PROVE  HandlersInv'
  BY <1>12 DEF ServerNotReady, Terminated, Conns
<1>13. ASSUME NEW t \in Tests, HandleResultsRequest(t)
      PROVE  HandlersInv'
  BY <1>13 DEF HandleResultsRequest, Takes, Conns
<1>14. ASSUME NEW t \in Tests, SendResults(t)
      PROVE  HandlersInv'
  BY <1>14 DEF SendResults, Conns
<1>15. ASSUME NEW t \in Tests, StoreHistory(t)
      PROVE  HandlersInv'
  BY <1>15 DEF StoreHistory, Conns
<1>16. ASSUME NEW t \in Tests, ClientGone(t)
      PROVE  HandlersInv'
  BY <1>16 DEF ClientGone, Cleanup, Terminated, Conns
<1>17. ASSUME NEW t \in Tests, ServerListens(t)
      PROVE  HandlersInv'
  BY <1>17 DEF ServerListens, Conns
<1>18. ASSUME NEW t \in Tests, ServerStartFails(t)
      PROVE  HandlersInv'
  BY <1>18 DEF ServerStartFails, Conns
<1>19. ASSUME NEW t \in Tests, TestStarts(t)
      PROVE  HandlersInv'
  BY <1>19 DEF TestStarts, Conns
<1>20. ASSUME NEW t \in Tests, ClientGivesUp(t)
      PROVE  HandlersInv'
  BY <1>20 DEF ClientGivesUp, Exits, Conns
<1>21. ASSUME NEW t \in Tests, Break(t)
      PROVE  HandlersInv'
  BY <1>21 DEF Break, Conns
<1>22. ASSUME NEW t \in Tests, NEW r \in Roles, TestEnds(r, t)
      PROVE  HandlersInv'
  BY <1>22 DEF TestEnds, Exits
<1>23. ASSUME NEW c \in Conns, Accept(c)
      PROVE  HandlersInv'
  BY <1>23 DEF Accept, Conns
<1>24. CASE NextRun
  <2>1. \A u \in Tests : Stage(u)' = Stage(u)
    BY <1>24, NextRunStage
  <2>2. UNCHANGED <<toServer, handler, owns, process>>
    BY <1>24 DEF NextRun
  <2> HIDE DEF TypeOK, Stage, Current
  <2> QED BY <2>1, <2>2
<1>25. CASE SendShutdown \/ HandleShutdown
  <2>1. \A u \in Tests : u # ShutdownConn /\ u \in Conns
    BY ShutdownIsNoTest DEF Conns
  <2> QED BY <2>1, <1>25 DEF SendShutdown, HandleShutdown, Takes
<1>26. CASE \/ CheckRunning \/ CallAccept \/ AcceptInterrupted \/ JoinClientThreads
           \/ UNCHANGED vars
  BY <1>26 DEF CheckRunning, CallAccept, AcceptInterrupted, JoinClientThreads, vars
<1> HIDE DEF TypeOK, HandlersInv, Stage, Current, Roles, clientVars, serverVars, processVars,
             environment
<1> QED
  BY <1>1, <1>2, <1>3, <1>4, <1>5, <1>6, <1>7, <1>8, <1>9, <1>10, <1>11, <1>12, <1>13,
     <1>14, <1>15, <1>16, <1>17, <1>18, <1>19, <1>20, <1>21, <1>22, <1>23, <1>24, <1>25,
     <1>26
     DEF Next, ThreadStep, AcceptorStep, HandlerStep, ProcessStep

(* The safety half of HandlersReturn: once SERVER_SHUTDOWN has been        *)
(* handled, no handler waits for a client any more, since every connection *)
(* is cut, and one waits for a process only if that is in a test, has      *)
(* ended, or never got a client; never for one that was killed.            *)
HandlersEnd ==
  ~ running => \A t \in Tests :
    /\ handler[t] = "reading" => link[t] = "cut"
    /\ handler[t] = "exit?" => process["server"][t] \in {"testing", "exited"} \/ Stranded(t)

(* HandlersEnd holds throughout: no thread that JoinClientThreads() waits  *)
(* for depends on a client.                                                *)
THEOREM NoHandlerWaitsForClient == SafetySpec => []HandlersEnd
<1>1. Init => HandlersInv
  <2> SUFFICES ASSUME Init PROVE HandlersInv
    OBVIOUS
  <2>1. ASSUME NEW t \in Tests
        PROVE  ~ owns[t] /\ handler[t] = "none" /\ toServer[t] = "none"
    BY DEF Init, Conns
  <2> QED BY <2>1 DEF HandlersInv
<1>2. SafetySpec => []HandlersInv
  BY <1>1, HandlersStep, Invariance, PTL DEF SafetySpec
<1>3. IInv /\ Protocol /\ ServerUp /\ HandlersInv => HandlersEnd
  <2> SUFFICES ASSUME IInv, Protocol, ServerUp, HandlersInv, ~ running, NEW t \in Tests
               PROVE  /\ handler[t] = "reading" => link[t] = "cut"
                      /\ handler[t] = "exit?" =>
                           process["server"][t] \in {"testing", "exited"} \/ Stranded(t)
    BY DEF HandlersEnd
  <2>1. exitCode # -1
    BY DEF ServerUp
  <2>2. Stage(t) = "done"
    <3>1. TypeOK /\ run = Runs /\ RunCompleted
      BY <2>1 DEF IInv, ExitInOrder
    <3> QED BY <3>1, AllStagesDone
  <2>3. link[t] \in {"none", "open", "cut"}
    BY DEF IInv, TypeOK, Conns
  <2>4. Fits(Stage(t), link[t], toServer[t], toClient[t], handler[t], Serving(t))
    BY DEF Protocol, TestFits
  <2>5. handler[t] = "reading" => link[t] = "cut"
    BY <2>2, <2>3, <2>4 DEF Fits
  <2>6. handler[t] = "exit?" => process["server"][t] \in {"testing", "exited"} \/ Stranded(t)
    BY DEF HandlersInv, Stranded
  <2> QED BY <2>5, <2>6
<1> QED BY <1>2, <1>3, Invariance, ProtocolAlways, PTL
=============================================================================
