------------------------------- MODULE Worker -------------------------------
(***************************************************************************)
(* The worker as a whole (cli.py run and _shutdown, health.py): the        *)
(* gateway client and the crawl service it calls, the health server that   *)
(* answers for both, and the main task that starts them, waits for a       *)
(* signal and shuts them down.                                             *)
(*                                                                         *)
(* The gateway client is GatewayClient, whose actions are taken as they    *)
(* are; a job that reaches navigate_and_extract is at the same step        *)
(* submitted to CrawlService, which BrowserManager implements, and its end *)
(* there is its return here.  asyncio.Lock serves its waiters in their     *)
(* order.  Of the browser itself only is_ready() is left, which may be     *)
(* TRUE between the first launch and close().                              *)
(***************************************************************************)
EXTENDS GatewayClient

CONSTANT ProfileResetJobs

ASSUME WorkerAssumption == ProfileResetJobs \in Nat /\ MAX_PENDING_JOBS > 0

VARIABLES
  main,     \* run: "launching", "serving", "stopping" (the sockets), "closing"
            \* (the browser), "exited"; "signalled": a launch, after a signal
  queue,    \* the jobs that wait for the browser's lock, in their order
  waited,   \* history: waited[j], crawls that ended while j was in the queue
  phase, jar, crawls   \* the crawl service

crawlVars == <<queue, waited, phase, jar, crawls>>
workerVars == <<vars, main, crawlVars>>

Crawl == INSTANCE CrawlService WITH served <- crawls

(* The client and the jobs' tasks run until the process is gone.           *)
Running == main # "exited"

WorkerInit ==
  /\ Init /\ Crawl!Init
  /\ main = "launching"
  /\ queue = <<>> /\ waited = [j \in Jobs |-> 0]

-----------------------------------------------------------------------------
(* The main task.                                                          *)

(* The browser is up: the gateway client is started, unless the transport  *)
(* check refuses its URL.                                                  *)
Launched ==
  /\ main = "launching"
  /\ main' = "serving"
  /\ Start \/ UNCHANGED vars
  /\ UNCHANGED crawlVars

(* Without a browser the client is never started.                          *)
LaunchFails ==
  /\ main \in {"launching", "signalled"}
  /\ main' = "exited"
  /\ UNCHANGED <<vars, crawlVars>>

(* SIGINT or SIGTERM during the first launch, which nothing cuts short.    *)
Signal ==
  /\ main = "launching"
  /\ main' = "signalled"
  /\ UNCHANGED <<vars, crawlVars>>

(* Mutant of Shutdown: the crawls are left to the browser's close.         *)
ShutdownLeavesCrawls ==
  /\ main \in {"serving", "signalled"}
  /\ main' = "stopping"
  /\ Stop
  /\ UNCHANGED crawlVars

(* A signal while serving, or the end of a launch that one came in during: *)
(* _shutdown up to the close of the socket.  With its job tasks the client *)
(* cancels the crawls.                                                     *)
Shutdown ==
  /\ main \in {"serving", "signalled"}
  /\ main' = "stopping"
  /\ Stop /\ Crawl!Cancel
  /\ queue' = <<>>
  /\ UNCHANGED waited

(* The socket is closed, if there was one, and the health server has       *)
(* finished with the probes it was still answering.                        *)
ServersClosed ==
  /\ main = "stopping"
  /\ main' = "closing"
  /\ UNCHANGED <<vars, crawlVars>>

BrowserClosed ==
  /\ main = "closing"
  /\ main' = "exited"
  /\ UNCHANGED <<vars, crawlVars>>

(* wait_for cancels the shutdown after SHUTDOWN_TIMEOUT_SEC and returns    *)
(* once what it cancelled has ended, which is this step: until then the    *)
(* main task is where it was.                                              *)
ShutdownTimesOut ==
  /\ main \in {"stopping", "closing"}
  /\ main' = "exited"
  /\ UNCHANGED <<vars, crawlVars>>

-----------------------------------------------------------------------------
(* The gateway client and the crawls.                                      *)

(* The steps of the reconnect loop that no one else has a part in.         *)
LoopStep ==
  /\ Running
  /\ ConnectStep \/ Disconnected \/ Slept
  /\ UNCHANGED <<main, crawlVars>>

(* The network and the gateway.                                            *)
GatewayStep ==
  /\ Running
  /\ \/ Drop \/ Registered \/ AuthFailed
     \/ \E j \in Jobs : FetchArrives(j)
  /\ UNCHANGED <<main, crawlVars>>

TaskStep(j) ==
  /\ Running
  /\ Begin(j) \/ Sent(j)
  /\ UNCHANGED <<main, crawlVars>>

(* resolves_to_private is over: refused, or in line for the browser.       *)
Enqueue(j) ==
  /\ Running
  /\ Resolved(j)
  /\ IF job'[j] = "crawling"
     THEN Crawl!Submit(j) /\ queue' = Append(queue, j) /\ UNCHANGED waited
     ELSE UNCHANGED crawlVars
  /\ UNCHANGED main

(* Mutant of Takes: the last in line is served first.                      *)
TakesLast(j) == queue # <<>> /\ j = queue[Len(queue)]
                /\ queue' = SubSeq(queue, 1, Len(queue) - 1)

(* The lock goes to the first in line.                                     *)
Takes(j) == queue # <<>> /\ j = Head(queue) /\ queue' = Tail(queue)

Serve(j) ==
  /\ Running
  /\ Takes(j) /\ Crawl!Start(j)
  /\ UNCHANGED <<vars, main, waited>>

Queued == {queue[k] : k \in 1..Len(queue)}

(* Mutant of Return: a crawl that raises keeps the lock.                   *)
ReturnKeepsLock(j) ==
  /\ Running
  /\ Crawled(j)
  /\ IF job'[j] = "replying" THEN Crawl!Finish(j)
     ELSE phase[j] = "active" /\ UNCHANGED <<phase, jar, crawls>>
  /\ waited' = [i \in Jobs |-> IF i \in Queued THEN waited[i] + 1 ELSE waited[i]]
  /\ UNCHANGED <<main, queue>>

(* The crawl ends, and navigate_and_extract returns or raises.             *)
Return(j) ==
  /\ Running
  /\ Crawled(j) /\ Crawl!Finish(j)
  /\ waited' = [i \in Jobs |-> IF i \in Queued THEN waited[i] + 1 ELSE waited[i]]
  /\ UNCHANGED <<main, queue>>

-----------------------------------------------------------------------------
Exited == main = "exited" /\ UNCHANGED workerVars

ShutdownStep == Shutdown \/ ServersClosed \/ BrowserClosed

JobTask(j) == TaskStep(j) \/ Enqueue(j) \/ Serve(j) \/ Return(j)

WorkerNext ==
  \/ Launched \/ LaunchFails \/ Signal \/ ShutdownStep \/ ShutdownTimesOut
  \/ LoopStep \/ GatewayStep
  \/ \E j \in Jobs : JobTask(j)
  \/ Exited

WorkerSpec == WorkerInit /\ [][WorkerNext]_workerVars

(* The loop runs what can run, and its timers fire; a crawl ends           *)
(* (BrowserManager) and so does a send.  Nothing is asked of a launch, of  *)
(* the gateway's part of a close, of a probe's client, or of the browser's *)
(* close, which may go on after the timeout has cancelled it.              *)
WorkerFairness ==
  /\ WF_workerVars(LoopStep)
  /\ \A j \in Jobs : WF_workerVars(JobTask(j))

FairWorker == WorkerSpec /\ WorkerFairness

-----------------------------------------------------------------------------
(* Safety.                                                                 *)

(* is_ready() may be TRUE: a browser was launched and close() has not run. *)
MayBeReady == main \in {"serving", "stopping"}

(* HealthServer may answer GET /readyz with 200.                           *)
Readyz == MayBeReady /\ registered /\ socket # NoSocket

(* "(healthy)" means the worker "is actually serving, not merely alive"    *)
(* (README.md:72): a 200 from /readyz is about the connection the gateway  *)
(* acknowledged, with the client on it.  Once stop() has run, _registered  *)
(* and _socket are left as they were (gateway.py:115) and a probe may      *)
(* still be told 200 until close() begins.                                 *)
ReadyzHonest ==
  Readyz => \/ run = "open" /\ acked = conns
            \/ main = "stopping"

(* A job's budget starts with its crawl (browser.py:415); before that it   *)
(* waits for at most MAX_PENDING_JOBS - 1 other crawls, since the lock is  *)
(* fair and the pending count covers every waiting task.                   *)
WaitIsBounded == \A j \in Jobs : waited[j] < MAX_PENDING_JOBS

(* The shutdown leaves no job behind: once it began, no task of a job is   *)
(* alive, in the client or in the line for the browser.                    *)
NothingLeftRunning ==
  main \in {"stopping", "closing", "exited"} =>
    \A j \in Jobs : job[j] \notin Live /\ phase[j] \notin {"queued", "active"}

-----------------------------------------------------------------------------
(* The inductive invariant.                                                *)

(* A job's two halves agree.                                               *)
HalvesAgree ==
  /\ \A j \in Jobs : job[j] = "crawling" <=> phase[j] \in {"queued", "active"}
  /\ \A j \in Jobs : phase[j] = "queued" <=> j \in Queued
  /\ \A i, j \in Jobs : phase[i] = "active" /\ phase[j] = "active" => i = j
  /\ \A j \in Jobs : job[j] \in {"new", "scheduled", "resolving"} => phase[j] = "new"

(* Each place in the line is one job's.                                    *)
LineIsOrdered == \A k, l \in 1..Len(queue) : queue[k] = queue[l] => k = l

Busy == IF \E j \in Jobs : phase[j] = "active" THEN 1 ELSE 0

(* The k-th in line has been through, or has before it, fewer crawls than  *)
(* the client admits jobs.                                                 *)
LineIsShort == \A k \in 1..Len(queue) :
                 waited[queue[k]] + k + Busy <= MAX_PENDING_JOBS

(* A job starts to wait when it joins the line.                            *)
FreshWaits == \A j \in Jobs : phase[j] = "new" => waited[j] = 0

CrawlTypes ==
  /\ main \in {"launching", "signalled", "serving", "stopping", "closing", "exited"}
  /\ queue \in Seq(Jobs) /\ waited \in [Jobs -> Nat]
  /\ phase \in [Jobs -> Crawl!Phases]

(* The client is started by the main task, and stopped by it first of all. *)
MainLeads ==
  /\ main \in {"launching", "signalled"} => run = "off"
  /\ main \in {"stopping", "closing"} => stopped
  /\ main \in {"launching", "signalled", "serving"} => ~stopped
  /\ run = "off" => \A j \in Jobs : job[j] = "new"

WorkerInv == /\ Inv /\ CrawlTypes /\ HalvesAgree /\ LineIsOrdered /\ LineIsShort
             /\ FreshWaits /\ MainLeads /\ WaitIsBounded /\ NothingLeftRunning

-----------------------------------------------------------------------------
(* Liveness and refinement.                                                *)

(* The frames of the current connection that have no answer yet, neither a *)
(* result nor a refusal.                                                   *)
Unanswered == {j \in Jobs : /\ job[j] # "new" /\ results[j] = <<>>
                            /\ alive /\ origin[j] = conns /\ main = "serving"}

(* Each well-formed fetch frame is answered, through the client, the line  *)
(* for the browser and the crawl, unless its connection is lost or the     *)
(* worker ends.                                                            *)
FramesAnswered == Unanswered # {} ~> Unanswered = {}

(* The worker's client is the GatewayClient, and its crawls are those of   *)
(* CrawlService.                                                           *)
ClientAndCrawls == Init /\ [][Next]_vars /\ Crawl!Init /\ [][Crawl!Next]_(Crawl!vars)
=============================================================================
