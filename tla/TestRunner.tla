----------------------------- MODULE TestRunner -----------------------------
(***************************************************************************)
(* The TestRunner: its client (main.cpp, ControlClient.cpp) runs one test  *)
(* per run and port, its server (ControlServer.cpp) starts the IPEFTC      *)
(* servers, and both collect the results of the processes they started     *)
(* (ProcessManager.cpp).                                                   *)
(*                                                                         *)
(* A test is a pair <<run, port>>.  It has a control connection of its     *)
(* own, a handler thread in the server, and two IPEFTC processes, which    *)
(* are the system TestSession models and end here with any result.  One    *)
(* action is what a thread does between two blocking calls.                *)
(***************************************************************************)
EXTENDS Integers, FiniteSets

CONSTANTS
  Ports,  \* the test ports
  Runs    \* --total-runs

ASSUME RunnerAssumption == Ports \subseteq Nat \ {0} /\ Runs \in Nat \ {0}

Tests == (1..Runs) \X Ports
ShutdownConn == <<0, 0>>  \* the connection that carries SERVER_SHUTDOWN
Conns == Tests \cup {ShutdownConn}
Roles == {"client", "server"}
Port(t) == t[2]

VARIABLES
  platform,  \* decides what closing a socket does to a blocked accept()
  exports,   \* every IPEFTC process can write its result file
  run,       \* main(): the current run
  thread,    \* the threads of the current run
  verdict,   \* what the client recorded for a test
  exitCode,  \* of the client, -1 while it runs
  link,      \* the control connections
  toServer,  \* the message on its way to a handler
  toClient,  \* the message on its way to the client
  running,   \* ControlServer::running; the listening socket is open as long
  acceptor,  \* the server's main thread
  handler,   \* HandleClient()
  owns,      \* ipeftcRunning of a handler
  history,   \* sessionHistory
  process,   \* the IPEFTC processes of a test
  report     \* what TestRunner reads out of an ended process

vars == <<platform, exports, run, thread, verdict, exitCode, link, toServer,
          toClient, running, acceptor, handler, owns, history, process, report>>

clientVars == <<run, thread, verdict, exitCode>>
serverVars == <<running, acceptor, handler, owns, history>>
processVars == <<process, report>>
environment == <<platform, exports>>

Requests == {"CONFIG_REQUEST", "RESULTS_REQUEST", "SERVER_SHUTDOWN"}
Replies == {"SERVER_READY", "ERROR", "RESULTS_PASS", "RESULTS_FAIL"}

Init ==
  /\ platform \in {"windows", "linux"}
  /\ exports \in BOOLEAN
  /\ run = 1
  /\ thread = [p \in Ports |-> "start"]
  /\ verdict = [t \in Tests |-> "none"]
  /\ exitCode = -1
  /\ link = [c \in Conns |-> "none"]
  /\ toServer = [c \in Conns |-> "none"]
  /\ toClient = [c \in Conns |-> "none"]
  /\ running = TRUE
  /\ acceptor = "loop"
  /\ handler = [c \in Conns |-> "none"]
  /\ owns = [t \in Tests |-> FALSE]
  /\ history = {}
  /\ process = [r \in Roles |-> [t \in Tests |-> "none"]]
  /\ report = [r \in Roles |-> [t \in Tests |-> "none"]]

-----------------------------------------------------------------------------
(* The client.  portRunMutex lets one thread of a run work at a time.      *)

Current(p) == <<run, p>>

MutexFree == \A p \in Ports : thread[p] \in {"start", "done"}

(* RunTest() returned: the thread records the verdict, and the destructor  *)
(* of ControlClient closes the connection.                                 *)
Finish(p, v) ==
  /\ thread' = [thread EXCEPT ![p] = "done"]
  /\ verdict' = [verdict EXCEPT ![Current(p)] = v]
  /\ link' = [link EXCEPT ![Current(p)] = IF @ = "none" THEN @ ELSE "cut"]
  /\ UNCHANGED <<run, exitCode>>

(* Connect() and the CONFIG_REQUEST.                                       *)
SendConfig(p) ==
  /\ thread[p] = "start"
  /\ MutexFree
  /\ running
  /\ link' = [link EXCEPT ![Current(p)] = "open"]
  /\ toServer' = [toServer EXCEPT ![Current(p)] = "CONFIG_REQUEST"]
  /\ thread' = [thread EXCEPT ![p] = "ready?"]
  /\ UNCHANGED <<run, verdict, exitCode, toClient, serverVars, processVars, environment>>

ConnectFails(p) ==
  /\ thread[p] = "start"
  /\ MutexFree
  /\ Finish(p, "fail")
  /\ UNCHANGED <<toServer, toClient, serverVars, processVars, environment>>

ClientLaunched(t) == [process EXCEPT !["client"][t] = "running"]

(* SERVER_READY: the local IPEFTC client is started ...                    *)
LaunchClient(p) ==
  /\ thread[p] = "ready?"
  /\ toClient[Current(p)] = "SERVER_READY"
  /\ toClient' = [toClient EXCEPT ![Current(p)] = "none"]
  /\ process' = ClientLaunched(Current(p))
  /\ thread' = [thread EXCEPT ![p] = "exit?"]
  /\ UNCHANGED <<run, verdict, exitCode, link, toServer, serverVars, report, environment>>

(* ... if that is possible.  An ERROR of the server ends the test as well. *)
TestFailsToStart(p) ==
  /\ thread[p] = "ready?"
  /\ toClient[Current(p)] \in {"SERVER_READY", "ERROR"}
  /\ toClient' = [toClient EXCEPT ![Current(p)] = "none"]
  /\ Finish(p, "fail")
  /\ UNCHANGED <<toServer, serverVars, processVars, environment>>

(* WaitForProcessAndCaptureOutput() returned: the server is asked for its  *)
(* result, unless the connection is gone.                                  *)
RequestResults(p) ==
  /\ thread[p] = "exit?"
  /\ process["client"][Current(p)] = "exited"
  /\ link[Current(p)] = "open"
  /\ toServer' = [toServer EXCEPT ![Current(p)] = "RESULTS_REQUEST"]
  /\ thread' = [thread EXCEPT ![p] = "results?"]
  /\ UNCHANGED <<run, verdict, exitCode, link, toClient, serverVars, processVars, environment>>

RequestFails(p) ==
  /\ thread[p] = "exit?"
  /\ process["client"][Current(p)] = "exited"
  /\ link[Current(p)] = "cut"
  /\ Finish(p, "fail")
  /\ UNCHANGED <<toServer, toClient, serverVars, processVars, environment>>

Passed(r, t) == report[r][t] \in {"pass", "unearned"}

(* A test passed when the results of both sides did.                       *)
Verdict(t, reply) ==
  IF reply = "RESULTS_PASS" /\ Passed("client", t) THEN "pass" ELSE "fail"

ReceiveResults(p) ==
  /\ thread[p] = "results?"
  /\ toClient[Current(p)] \in {"RESULTS_PASS", "RESULTS_FAIL"}
  /\ toClient' = [toClient EXCEPT ![Current(p)] = "none"]
  /\ Finish(p, Verdict(Current(p), toClient[Current(p)]))
  /\ UNCHANGED <<toServer, serverVars, processVars, environment>>

(* ReceiveMessage() fails; it has no timeout.                              *)
ConnectionLost(p) ==
  /\ thread[p] \in {"ready?", "results?"}
  /\ toClient[Current(p)] = "none"
  /\ link[Current(p)] = "cut"
  /\ Finish(p, "fail")
  /\ UNCHANGED <<toServer, toClient, serverVars, processVars, environment>>

RunCompleted == \A p \in Ports : thread[p] = "done"

NextRun ==
  /\ RunCompleted
  /\ run < Runs
  /\ run' = run + 1
  /\ thread' = [p \in Ports |-> "start"]
  /\ UNCHANGED <<verdict, exitCode, link, toServer, toClient, serverVars, processVars, environment>>

(* Mutant of ExitCode: the failed tests are counted.                       *)
ExitCodeCounts == Cardinality({t \in Tests : verdict[t] # "pass"})

ExitCode == IF \A t \in Tests : verdict[t] = "pass" THEN 0 ELSE 1

(* After the last run the server is told to stop, if it can be reached,    *)
(* and the client exits, which closes the connection behind the message.   *)
SendShutdown ==
  /\ RunCompleted
  /\ run = Runs
  /\ exitCode = -1
  /\ exitCode' = ExitCode
  /\ \/ /\ link' = [link EXCEPT ![ShutdownConn] = "cut"]
        /\ toServer' = [toServer EXCEPT ![ShutdownConn] = "SERVER_SHUTDOWN"]
     \/ UNCHANGED <<link, toServer>>
  /\ UNCHANGED <<run, thread, verdict, toClient, serverVars, processVars, environment>>

-----------------------------------------------------------------------------
(* The server's main thread, in Start().                                   *)

CheckRunning ==
  /\ acceptor = "loop"
  /\ acceptor' = IF running THEN "calling" ELSE "joining"
  /\ UNCHANGED <<clientVars, link, toServer, toClient, running, handler, owns, history, processVars, environment>>

(* accept() of the closed socket fails at once.                            *)
CallAccept ==
  /\ acceptor = "calling"
  /\ acceptor' = IF running THEN "accepting" ELSE "loop"
  /\ UNCHANGED <<clientVars, link, toServer, toClient, running, handler, owns, history, processVars, environment>>

Accept(c) ==
  /\ acceptor = "accepting"
  /\ link[c] # "none"
  /\ handler[c] = "none"
  /\ handler' = [handler EXCEPT ![c] = "reading"]
  /\ acceptor' = "loop"
  /\ UNCHANGED <<clientVars, link, toServer, toClient, running, owns, history, processVars, environment>>

(* Only Windows wakes a thread that is blocked in accept() when another    *)
(* thread closes the socket.                                               *)
AcceptInterrupted ==
  /\ acceptor = "accepting"
  /\ ~ running
  /\ platform = "windows"
  /\ acceptor' = "loop"
  /\ UNCHANGED <<clientVars, link, toServer, toClient, running, handler, owns, history, processVars, environment>>

(* Mutant of AllJoined: the summary is printed without joining.            *)
NoneJoined == TRUE

AllJoined == \A c \in Conns : handler[c] \in {"none", "done"}

JoinClientThreads ==
  /\ acceptor = "joining"
  /\ AllJoined
  /\ acceptor' = "ended"
  /\ UNCHANGED <<clientVars, link, toServer, toClient, running, handler, owns, history, processVars, environment>>

-----------------------------------------------------------------------------
(* HandleClient().  What is sent to a client that has gone is lost.        *)

Reply(c, m) == toClient' = IF link[c] = "open" THEN [toClient EXCEPT ![c] = m] ELSE toClient

(* Mutant of ReportError: a failure is not reported.                       *)
KeepQuiet(t) == UNCHANGED toClient

ReportError(t) == Reply(t, "ERROR")

Takes(c, m) ==
  /\ handler[c] = "reading"
  /\ toServer[c] = m
  /\ toServer' = [toServer EXCEPT ![c] = "none"]

ServerLaunched(t) == [process EXCEPT !["server"][t] = "starting"]

LaunchServer(t) ==
  /\ Takes(t, "CONFIG_REQUEST")
  /\ process' = ServerLaunched(t)
  /\ owns' = [owns EXCEPT ![t] = TRUE]
  /\ handler' = [handler EXCEPT ![t] = "readiness"]
  /\ UNCHANGED <<clientVars, link, toClient, running, acceptor, history, report, environment>>

LaunchServerFails(t) ==
  /\ Takes(t, "CONFIG_REQUEST")
  /\ ReportError(t)
  /\ UNCHANGED <<clientVars, link, serverVars, processVars, environment>>

(* WaitForServerReady() has read the marker of a listening IPEFTC server.  *)
ServerReady(t) ==
  /\ handler[t] = "readiness"
  /\ process["server"][t] = "ready"
  /\ Reply(t, "SERVER_READY")
  /\ handler' = [handler EXCEPT ![t] = "reading"]
  /\ UNCHANGED <<clientVars, link, toServer, running, acceptor, owns, history, processVars, environment>>

(* TerminateProcess() kills and waits; the ended process has no effect.    *)
Terminated(t) ==
  [process EXCEPT !["server"][t] = IF @ = "exited" THEN @ ELSE "killed"]

(* The process exited early or the timeout passed before the marker was    *)
(* read; the connection stays open.                                        *)
ServerNotReady(t) ==
  /\ handler[t] = "readiness"
  /\ ReportError(t)
  /\ process' = Terminated(t)
  /\ owns' = [owns EXCEPT ![t] = FALSE]
  /\ handler' = [handler EXCEPT ![t] = "reading"]
  /\ UNCHANGED <<clientVars, link, toServer, running, acceptor, history, report, environment>>

HandleResultsRequest(t) ==
  /\ Takes(t, "RESULTS_REQUEST")
  /\ IF owns[t]
       THEN handler' = [handler EXCEPT ![t] = "exit?"] /\ UNCHANGED toClient
       ELSE handler' = [handler EXCEPT ![t] = "answered"] /\ Reply(t, "RESULTS_FAIL")
  /\ UNCHANGED <<clientVars, link, running, acceptor, owns, history, processVars, environment>>

(* WaitForProcessAndCaptureOutput() reads until the process has ended.     *)
SendResults(t) ==
  /\ handler[t] = "exit?"
  /\ process["server"][t] = "exited"
  /\ owns' = [owns EXCEPT ![t] = FALSE]
  /\ Reply(t, IF Passed("server", t) THEN "RESULTS_PASS" ELSE "RESULTS_FAIL")
  /\ handler' = [handler EXCEPT ![t] = "answered"]
  /\ UNCHANGED <<clientVars, link, toServer, running, acceptor, history, processVars, environment>>

(* The record is stored after the reply, and the connection is closed.     *)
StoreHistory(t) ==
  /\ handler[t] = "answered"
  /\ history' = history \cup {t}
  /\ link' = [link EXCEPT ![t] = "cut"]
  /\ handler' = [handler EXCEPT ![t] = "done"]
  /\ UNCHANGED <<clientVars, toServer, toClient, running, acceptor, owns, processVars, environment>>

(* Mutant of Cleanup: the process survives its connection.                 *)
CleanupLeaves(t) == process

Cleanup(t) == IF owns[t] THEN Terminated(t) ELSE process

(* Mutant of ClientGone: recv() of 0 bytes is taken for no message yet.    *)
IgnoreClientGone(t) == FALSE

(* The client has gone: the handler terminates its process and ends.       *)
ClientGone(t) ==
  /\ handler[t] = "reading"
  /\ toServer[t] = "none"
  /\ link[t] = "cut"
  /\ process' = Cleanup(t)
  /\ owns' = [owns EXCEPT ![t] = FALSE]
  /\ handler' = [handler EXCEPT ![t] = "done"]
  /\ UNCHANGED <<clientVars, link, toServer, toClient, running, acceptor, history, report, environment>>

(* SERVER_SHUTDOWN: Stop() closes the listening socket.                    *)
HandleShutdown ==
  /\ Takes(ShutdownConn, "SERVER_SHUTDOWN")
  /\ running' = FALSE
  /\ handler' = [handler EXCEPT ![ShutdownConn] = "done"]
  /\ UNCHANGED <<clientVars, link, toClient, acceptor, owns, history, processVars, environment>>

-----------------------------------------------------------------------------
(* The IPEFTC processes, and the network between the two machines.         *)

Bound(t) == process["server"][t] \in {"ready", "testing"}

(* The server listens, unless another process has the port ...             *)
ServerListens(t) ==
  /\ process["server"][t] = "starting"
  /\ \A u \in Tests : Port(u) = Port(t) => ~ Bound(u)
  /\ process' = [process EXCEPT !["server"][t] = "ready"]
  /\ UNCHANGED <<clientVars, link, toServer, toClient, serverVars, report, environment>>

(* ... or it gives up.                                                     *)
ServerStartFails(t) ==
  /\ process["server"][t] = "starting"
  /\ process' = [process EXCEPT !["server"][t] = "exited"]
  /\ report' = [report EXCEPT !["server"][t] = "fail"]
  /\ UNCHANGED <<clientVars, link, toServer, toClient, serverVars, environment>>

(* The client reaches the server that listens on its port.                 *)
TestStarts(t) ==
  /\ process["client"][t] = "running"
  /\ \E u \in Tests :
       /\ Port(u) = Port(t)
       /\ process["server"][u] = "ready"
       /\ process' = [process EXCEPT !["client"][t] = "testing", !["server"][u] = "testing"]
  /\ UNCHANGED <<clientVars, link, toServer, toClient, serverVars, report, environment>>

(* Mutant of Judged: the output goes before the file.                      *)
JudgedByOutput(file, output) == IF output # "none" THEN output ELSE file

(* ParseResultFile(), and ParseOutput() when there is no usable file.      *)
Judged(file, output) == IF file # "none" THEN file ELSE output

(* What ParseResultFile() finds after a process that succeeded or not.     *)
(* Without the file of its own there is none, or one that an earlier       *)
(* invocation left under the same run id.                                  *)
Files(success) ==
  LET own == IF success THEN "pass" ELSE "fail"
  IN IF exports THEN {own} ELSE {own, "none", "pass"}

(* What ParseOutput() makes of its output: that of a failed test may hold  *)
(* the full counts of the phase that went well.                            *)
Outputs(success) == IF success THEN {"pass"} ELSE {"none", "pass"}

Reading(success) ==
  LET Seen(f, o) == IF Judged(f, o) # "pass" THEN "fail"
                    ELSE IF success THEN "pass" ELSE "unearned"
  IN {Seen(f, o) : f \in Files(success), o \in Outputs(success)}

Exits(r, t, success) ==
  /\ process' = [process EXCEPT ![r][t] = "exited"]
  /\ \E x \in Reading(success) : report' = [report EXCEPT ![r][t] = x]
  /\ UNCHANGED <<clientVars, link, toServer, toClient, serverVars, environment>>

(* A client that finds no server fails; a server waits for ever.           *)
ClientGivesUp(t) == process["client"][t] = "running" /\ Exits("client", t, FALSE)

TestEnds(r, t) ==
  /\ process[r][t] = "testing"
  /\ \E success \in BOOLEAN : Exits(r, t, success)

(* The control connection breaks, with what is on its way.                 *)
Break(c) ==
  /\ link[c] = "open"
  /\ link' = [link EXCEPT ![c] = "cut"]
  /\ toServer' = [toServer EXCEPT ![c] = "none"]
  /\ toClient' = [toClient EXCEPT ![c] = "none"]
  /\ UNCHANGED <<clientVars, serverVars, processVars, environment>>

-----------------------------------------------------------------------------
ThreadStep(p) ==
  \/ SendConfig(p) \/ ConnectFails(p) \/ LaunchClient(p) \/ TestFailsToStart(p)
  \/ RequestResults(p) \/ RequestFails(p) \/ ReceiveResults(p) \/ ConnectionLost(p)

AcceptorStep ==
  \/ CheckRunning \/ CallAccept \/ (\E c \in Conns : Accept(c))
  \/ AcceptInterrupted \/ JoinClientThreads

HandlerStep(t) ==
  \/ LaunchServer(t) \/ LaunchServerFails(t) \/ ServerReady(t) \/ ServerNotReady(t)
  \/ HandleResultsRequest(t) \/ SendResults(t) \/ StoreHistory(t) \/ ClientGone(t)

ProcessStep(t) ==
  \/ ServerListens(t) \/ ServerStartFails(t) \/ TestStarts(t) \/ ClientGivesUp(t)
  \/ \E r \in Roles : TestEnds(r, t)

Next ==
  \/ \E p \in Ports : ThreadStep(p)
  \/ NextRun \/ SendShutdown \/ AcceptorStep \/ HandleShutdown
  \/ \E t \in Tests : HandlerStep(t) \/ ProcessStep(t) \/ Break(t)

(* Every thread of the TestRunner runs, and the wait for readiness is      *)
(* timed.  Nothing is assumed of an IPEFTC process, which may never end:   *)
(* see BlockedInSend and Unaware of TestSession, and the runs sink_stop    *)
(* and network_stuck.                                                      *)
Fairness ==
  /\ \A p \in Ports : WF_vars(ThreadStep(p))
  /\ WF_vars(NextRun) /\ WF_vars(SendShutdown)
  /\ WF_vars(AcceptorStep) /\ WF_vars(HandleShutdown)
  /\ \A t \in Tests : WF_vars(HandlerStep(t))

SafetySpec == Init /\ [][Next]_vars
Spec == SafetySpec /\ Fairness

-----------------------------------------------------------------------------
(* Every variable has its type.                                            *)
TypeOK ==
  /\ platform \in {"windows", "linux"}
  /\ exports \in BOOLEAN
  /\ run \in 1..Runs
  /\ thread \in [Ports -> {"start", "ready?", "exit?", "results?", "done"}]
  /\ verdict \in [Tests -> {"none", "pass", "fail"}]
  /\ exitCode \in {-1, 0, 1}
  /\ link \in [Conns -> {"none", "open", "cut"}]
  /\ toServer \in [Conns -> Requests \cup {"none"}]
  /\ toClient \in [Conns -> Replies \cup {"none"}]
  /\ running \in BOOLEAN
  /\ acceptor \in {"loop", "calling", "accepting", "joining", "ended"}
  /\ handler \in [Conns -> {"none", "reading", "readiness", "exit?", "answered", "done"}]
  /\ owns \in [Tests -> BOOLEAN]
  /\ history \subseteq Tests
  /\ process \in [Roles -> [Tests ->
       {"none", "starting", "ready", "running", "testing", "exited", "killed"}]]
  /\ report \in [Roles -> [Tests -> {"none", "pass", "unearned", "fail"}]]

(* The exit code is 0 only when every test of every run was carried out:   *)
(* both processes ended by themselves, neither was killed, and, as long as *)
(* every process writes its result file, both succeeded.                   *)
ZeroIsEarned ==
  exitCode = 0 => \A t \in Tests, r \in Roles :
    /\ process[r][t] = "exited"
    /\ exports => report[r][t] = "pass"

Alive(t) == process["server"][t] \in {"starting", "ready", "testing"}

(* The control server leaves no IPEFTC server behind when it ends, nor     *)
(* the client an IPEFTC client, whatever failed on the way.                *)
NoOrphans ==
  /\ acceptor = "ended" => \A t \in Tests : ~ Alive(t)
  /\ exitCode # -1 => \A t \in Tests : process["client"][t] \in {"none", "exited"}

(* The final summary of the server holds every test whose result reached   *)
(* the client as a pass, although it is stored only after the reply.       *)
SummaryComplete ==
  acceptor = "ended" => {t \in Tests : verdict[t] = "pass"} \subseteq history

(* The waits for the end of an IPEFTC process, on both sides, which have   *)
(* no timeout: the process tests, or it is a server no client has reached. *)
ClientHeld(t) ==
  /\ t[1] = run /\ thread[Port(t)] = "exit?"
  /\ process["client"][t] \in {"running", "testing"}

HandlerHeld(t) ==
  /\ handler[t] = "exit?"
  /\ process["server"][t] \in {"ready", "testing"}

(* The client gets through all its runs, although no receive of the        *)
(* control protocol has a timeout: whatever breaks or fails to start, only *)
(* an IPEFTC process that never ends can hold it up, its own or the one    *)
(* its handler waits for.                                                  *)
ClientExits ==
  \/ <>(exitCode # -1)
  \/ \E t \in Tests : <>[] ClientHeld(t) \/ <>[] HandlerHeld(t)

(* After SERVER_SHUTDOWN the handlers that JoinClientThreads() waits for   *)
(* come to their ends, whatever became of their clients, but for one that  *)
(* waits for an IPEFTC server that never ends.  That the main thread gets  *)
(* as far as to join them is not said: on Linux it may sleep in accept().  *)
HandlersReturn ==
  \A t \in Tests :
    \/ (~ running /\ handler[t] # "none") ~> handler[t] = "done"
    \/ <>[] HandlerHeld(t)
=============================================================================
