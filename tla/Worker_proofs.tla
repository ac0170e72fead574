---------------------------- MODULE Worker_proofs ----------------------------
(***************************************************************************)
(* Theorems about the worker as a whole, for every set of fetch frames,    *)
(* every limit of admitted jobs and any number of lost connections.  What  *)
(* GatewayClient_proofs shows of the client is used, not repeated: every   *)
(* step of the worker is one of the client's or leaves it alone.           *)
(***************************************************************************)
EXTENDS Worker, GatewayClient_proofs

(* The steps of the worker in which the client takes part.                 *)
LEMMA ClientMoves ==
  ASSUME WorkerNext
  PROVE  [Next]_vars
<1> USE DEF Next, ConnectStep, JobStep
<1>1. CASE Launched
  BY <1>1 DEF Launched
<1>2. CASE LaunchFails \/ Signal \/ ServersClosed \/ BrowserClosed \/ ShutdownTimesOut
  BY <1>2 DEF LaunchFails, Signal, ServersClosed, BrowserClosed, ShutdownTimesOut
<1>3. CASE Shutdown
  BY <1>3 DEF Shutdown
<1>4. CASE LoopStep
  BY <1>4 DEF LoopStep
<1>5. CASE GatewayStep
  BY <1>5 DEF GatewayStep
<1>6. ASSUME NEW j \in Jobs, JobTask(j)
      PROVE  [Next]_vars
  BY <1>6 DEF JobTask, TaskStep, Enqueue, Serve, Return
<1>7. CASE Exited
  BY <1>7 DEF Exited, workerVars
<1> QED BY <1>1, <1>2, <1>3, <1>4, <1>5, <1>6, <1>7 DEF WorkerNext, ShutdownStep

(* The client's part of the worker is the GatewayClient.                   *)
LEMMA IsClient == WorkerSpec => Spec
<1>1. WorkerInit => Init
  BY DEF WorkerInit
<1>2. [WorkerNext]_workerVars => [Next]_vars
  BY ClientMoves DEF workerVars
<1> QED BY <1>1, <1>2, PTL DEF WorkerSpec, Spec

-----------------------------------------------------------------------------
(* The line for the browser.                                               *)

(* As many jobs wait as there are places in the line.                      *)
LEMMA LineCount ==
  ASSUME CrawlTypes, LineIsOrdered
  PROVE  IsFiniteSet(Queued) /\ Cardinality(Queued) = Len(queue)
<1> DEFINE n == Len(queue)
           place == [k \in 1..n |-> queue[k]]
<1>1. queue \in Seq(Jobs) /\ n \in Nat
  BY DEF CrawlTypes
<1>2. place \in Bijection(1..n, Queued)
  BY <1>1 DEF Bijection, Injection, Surjection, IsInjective, Queued, LineIsOrdered
<1>3. ExistsBijection(1..n, Queued)
  BY <1>2 DEF ExistsBijection
<1> QED BY <1>1, <1>3, FS_CountingElements, FS_NatBijection

(* The line and the crawl are no longer than the number of admitted jobs.  *)
LEMMA LineFits ==
  ASSUME CrawlTypes, HalvesAgree, LineIsOrdered, TypeOK,
         NEW j \in Jobs, job[j] \in Admitted, job[j] # "crawling"
  PROVE  Len(queue) + Busy + 1 <= Cardinality(AdmittedJobs)
<1>1. Queued \subseteq Jobs
  BY DEF Queued, CrawlTypes
<1>2. IsFiniteSet(Queued) /\ Cardinality(Queued) = Len(queue) /\ Len(queue) \in Nat
  BY LineCount
<1>3. j \notin Queued /\ phase[j] # "active"
  BY DEF HalvesAgree
<1>4. IsFiniteSet(Queued \cup {j}) /\ Cardinality(Queued \cup {j}) = Len(queue) + 1
  BY <1>2, <1>3, FS_AddElement
<1>5. \A i \in Jobs : phase[i] \in {"queued", "active"} => i \in AdmittedJobs
  BY DEF HalvesAgree, AdmittedJobs, Admitted
<1>6. Queued \cup {j} \subseteq AdmittedJobs
  BY <1>1, <1>5 DEF HalvesAgree, AdmittedJobs
<1>7. CASE \A i \in Jobs : phase[i] # "active"
  <2>1. Busy = 0
    BY <1>7 DEF Busy
  <2>2. Len(queue) + 1 <= Cardinality(AdmittedJobs)
    BY <1>4, <1>6, AdmittedFinite, FS_Subset
  <2> QED BY <1>2, <2>1, <2>2
<1>8. ASSUME NEW i \in Jobs, phase[i] = "active"
      PROVE  Len(queue) + Busy + 1 <= Cardinality(AdmittedJobs)
  <2>1. i \notin Queued \cup {j}
    BY <1>3, <1>8 DEF HalvesAgree
  <2>2. Cardinality(Queued \cup {j} \cup {i}) = Cardinality(Queued \cup {j}) + 1
    BY <1>4, <2>1, FS_AddElement
  <2>3. Queued \cup {j} \cup {i} \subseteq AdmittedJobs
    BY <1>5, <1>6, <1>8
  <2>4. Len(queue) + 2 <= Cardinality(AdmittedJobs)
    BY <1>2, <1>4, <2>2, <2>3, AdmittedFinite, FS_Subset
  <2>5. Busy = 1
    BY <1>8 DEF Busy
  <2> QED BY <1>2, <2>4, <2>5
<1> QED BY <1>7, <1>8

(* A step that leaves the line alone, and the jobs in it, leaves alone all *)
(* that is said of it.                                                     *)
LEMMA SameLine ==
  ASSUME WorkerInv, UNCHANGED crawlVars,
         \A j \in Jobs : job'[j] = "crawling" <=> job[j] = "crawling",
         \A j \in Jobs : job'[j] \in {"new", "scheduled", "resolving"} =>
                         job[j] \in {"new", "scheduled", "resolving"}
  PROVE  HalvesAgree' /\ LineIsOrdered' /\ LineIsShort' /\ FreshWaits' /\ WaitIsBounded'
<1> USE DEF WorkerInv, crawlVars
<1>1. HalvesAgree'
  BY DEF HalvesAgree, Queued
<1>2. LineIsOrdered' /\ FreshWaits' /\ WaitIsBounded'
  BY DEF LineIsOrdered, FreshWaits, WaitIsBounded
<1>3. LineIsShort'
  BY DEF LineIsShort, Busy
<1> QED BY <1>1, <1>2, <1>3

(* The client and the jobs' tasks move only while the main task serves.    *)
LEMMA OnlyWhileServing ==
  ASSUME WorkerInv,
         LoopStep \/ GatewayStep \/ \E j \in Jobs : JobTask(j)
  PROVE  main = "serving" /\ main' = main /\ run # "off" /\ run' # "off"
         /\ ~stopped /\ stopped' = stopped
<1> USE DEF WorkerInv, CrawlTypes, MainLeads, Inv, StoppedIsOver
<1>1. CASE LoopStep
  BY <1>1 DEF LoopStep, Running, ConnectStep, Connect, ConnectFails, Disconnected, Slept,
              AttemptEnds, flagVars
<1>2. CASE GatewayStep
  BY <1>2 DEF GatewayStep, Running, Drop, Registered, AuthFailed, FetchArrives, flagVars,
              connVars
<1>3. ASSUME NEW j \in Jobs, JobTask(j)
      PROVE  /\ main = "serving" /\ main' = main /\ run # "off" /\ run' # "off"
             /\ ~stopped /\ stopped' = stopped
  <2>1. job[j] \in Live
    BY <1>3 DEF JobTask, TaskStep, Enqueue, Serve, Return, Begin, Sent, Resolved, Crawled,
                Crawl!Start, HalvesAgree, Live, Admitted
  <2>2. main # "exited" /\ main' = main /\ run' = run /\ stopped' = stopped
    BY <1>3 DEF JobTask, TaskStep, Enqueue, Serve, Return, Begin, Sent, Resolved, Crawled,
                Running, connVars, flagVars, vars
  <2>3. run # "off"
    BY <2>1 DEF Live, Admitted
  <2> QED BY <2>1, <2>2, <2>3 DEF NothingLeftRunning
<1> QED BY <1>1, <1>2, <1>3

-----------------------------------------------------------------------------
LEMMA WorkerInitInv == WorkerInit => WorkerInv
<1> SUFFICES ASSUME WorkerInit PROVE WorkerInv
  OBVIOUS
<1> USE GatewayAssumption, WorkerAssumption DEF WorkerInit, Init, Crawl!Init
<1>1. Inv
  BY InitInv
<1>2. CrawlTypes
  BY DEF CrawlTypes, Crawl!Phases
<1>3. HalvesAgree /\ LineIsOrdered /\ LineIsShort /\ FreshWaits /\ WaitIsBounded
  BY DEF HalvesAgree, Queued, LineIsOrdered, LineIsShort, FreshWaits, WaitIsBounded
<1>4. MainLeads /\ NothingLeftRunning
  BY DEF MainLeads, NothingLeftRunning
<1> QED BY <1>1, <1>2, <1>3, <1>4 DEF WorkerInv

(* The main task's own steps, but for Shutdown.                            *)
LEMMA MainInv ==
  ASSUME WorkerInv, Inv',
         \/ Launched \/ LaunchFails \/ Signal
         \/ ServersClosed \/ BrowserClosed \/ ShutdownTimesOut
  PROVE  WorkerInv'
<1> USE DEF Launched, LaunchFails, Signal, ServersClosed, BrowserClosed, ShutdownTimesOut
<1>1. job' = job /\ stopped' = stopped /\ UNCHANGED crawlVars
  BY DEF Start, vars, jobVars, flagVars
<1>2. HalvesAgree' /\ LineIsOrdered' /\ LineIsShort' /\ FreshWaits' /\ WaitIsBounded'
  BY <1>1, SameLine
<1>3. CrawlTypes'
  BY <1>1 DEF WorkerInv, CrawlTypes, crawlVars
<1>4. MainLeads'
  BY <1>1 DEF WorkerInv, MainLeads, vars, connVars
<1>5. NothingLeftRunning'
  <2>1. CASE Launched \/ Signal
    BY <2>1 DEF NothingLeftRunning
  <2>2. CASE LaunchFails
    BY <1>1, <2>2 DEF WorkerInv, MainLeads, HalvesAgree, NothingLeftRunning, Live, Admitted,
                      crawlVars
  <2>3. CASE ServersClosed \/ BrowserClosed \/ ShutdownTimesOut
    BY <1>1, <2>3 DEF WorkerInv, NothingLeftRunning, crawlVars
  <2> QED BY <2>1, <2>2, <2>3
<1> QED BY <1>2, <1>3, <1>4, <1>5 DEF WorkerInv

LEMMA ShutdownInv ==
  ASSUME WorkerInv, Inv', Shutdown
  PROVE  WorkerInv'
<1> USE DEF WorkerInv, Shutdown, Stop, Crawl!Cancel
<1>1. \A j \in Jobs : job'[j] \notin Live /\ phase'[j] \notin {"queued", "active"}
  BY DEF Live, Admitted
<1>2. queue' = <<>> /\ waited' = waited
  OBVIOUS
<1>3. CrawlTypes'
  BY DEF CrawlTypes, Crawl!Phases
<1>4. HalvesAgree'
  <2>1. \A j \in Jobs : job'[j] \in {"new", "scheduled", "resolving"} => phase'[j] = "new"
    BY DEF HalvesAgree
  <2>2. \A j \in Jobs : job'[j] # "crawling"
    BY <1>1 DEF Live, Admitted
  <2>3. Queued' = {}
    BY <1>2 DEF Queued
  <2> QED BY <1>1, <2>1, <2>2, <2>3 DEF HalvesAgree
<1>5. LineIsOrdered' /\ LineIsShort'
  BY <1>2 DEF LineIsOrdered, LineIsShort
<1>6. FreshWaits' /\ WaitIsBounded'
  BY <1>2 DEF FreshWaits, WaitIsBounded
<1>7. MainLeads'
  BY DEF MainLeads, Live, Admitted
<1>8. NothingLeftRunning'
  BY <1>1 DEF NothingLeftRunning
<1> QED BY <1>3, <1>4, <1>5, <1>6, <1>7, <1>8

(* The steps of the client and of the tasks outside of the line.           *)
LEMMA ClientInv ==
  ASSUME WorkerInv, Inv',
         LoopStep \/ GatewayStep \/ \E j \in Jobs : TaskStep(j)
  PROVE  WorkerInv'
<1>1. UNCHANGED crawlVars
  BY DEF LoopStep, GatewayStep, TaskStep
<1>2. job \in [Jobs -> JobStates]
  BY DEF WorkerInv, Inv, TypeOK, JobTypes
<1>3. /\ \A j \in Jobs : job'[j] = "crawling" <=> job[j] = "crawling"
      /\ \A j \in Jobs : job'[j] \in {"new", "scheduled", "resolving"} =>
                           job[j] \in {"new", "scheduled", "resolving"}
  <2>1. CASE LoopStep
    BY <2>1 DEF LoopStep, ConnectStep, Connect, ConnectFails, Disconnected, Slept, jobVars
  <2>2. CASE GatewayStep
    BY <1>2, <2>2 DEF GatewayStep, Drop, Registered, AuthFailed, FetchArrives, jobVars
  <2>3. ASSUME NEW i \in Jobs, TaskStep(i)
        PROVE  /\ \A j \in Jobs : job'[j] = "crawling" <=> job[j] = "crawling"
               /\ \A j \in Jobs : job'[j] \in {"new", "scheduled", "resolving"} =>
                                    job[j] \in {"new", "scheduled", "resolving"}
    BY <1>2, <2>3 DEF TaskStep, Begin, Sent, Send
  <2> QED BY <2>1, <2>2, <2>3
<1>4. HalvesAgree' /\ LineIsOrdered' /\ LineIsShort' /\ FreshWaits' /\ WaitIsBounded'
  BY <1>1, <1>3, SameLine
<1>5. main = "serving" /\ main' = main /\ run' # "off" /\ ~stopped /\ stopped' = stopped
  BY OnlyWhileServing DEF JobTask
<1>6. MainLeads' /\ NothingLeftRunning' /\ CrawlTypes'
  BY <1>1, <1>5 DEF MainLeads, NothingLeftRunning, WorkerInv, CrawlTypes, crawlVars
<1> QED BY <1>4, <1>6 DEF WorkerInv

LEMMA EnqueueInv ==
  ASSUME WorkerInv, Inv', NEW j \in Jobs, Enqueue(j)
  PROVE  WorkerInv'
<1> USE DEF WorkerInv
<1>0. job \in [Jobs -> JobStates] /\ job[j] = "resolving" /\ main' = main
  BY DEF Inv, TypeOK, JobTypes, Enqueue, Resolved
<1>1. main = "serving" /\ run' # "off" /\ ~stopped /\ stopped' = stopped
  BY OnlyWhileServing DEF JobTask
<1>2. MainLeads' /\ NothingLeftRunning'
  BY <1>0, <1>1 DEF MainLeads, NothingLeftRunning
<1>3. CASE job'[j] # "crawling"
  <2>1. UNCHANGED crawlVars
    BY <1>3 DEF Enqueue
  <2>2. /\ \A i \in Jobs : job'[i] = "crawling" <=> job[i] = "crawling"
        /\ \A i \in Jobs : job'[i] \in {"new", "scheduled", "resolving"} =>
                             job[i] \in {"new", "scheduled", "resolving"}
    BY <1>0, <1>3 DEF Enqueue, Resolved, Send
  <2>3. CrawlTypes'
    BY <1>0, <2>1 DEF CrawlTypes, crawlVars
  <2> QED BY <1>2, <2>1, <2>2, <2>3, SameLine
<1>4. CASE job'[j] = "crawling"
  <2>1. /\ job' = [job EXCEPT ![j] = "crawling"]
        /\ phase[j] = "new" /\ phase' = [phase EXCEPT ![j] = "queued"]
        /\ queue' = Append(queue, j) /\ waited' = waited
    BY <1>0, <1>4 DEF Enqueue, Resolved, Send, Crawl!Submit
  <2>2. queue \in Seq(Jobs) /\ waited \in [Jobs -> Nat] /\ phase \in [Jobs -> Crawl!Phases]
    BY DEF CrawlTypes
  <2>3. CrawlTypes'
    BY <1>0, <2>1, <2>2 DEF CrawlTypes, Crawl!Phases
  <2>4. Queued' = Queued \cup {j} /\ j \notin Queued
    <3>1. j \notin Queued
      BY <2>1 DEF HalvesAgree
    <3>2. /\ Len(queue') = Len(queue) + 1 /\ queue'[Len(queue) + 1] = j
          /\ \A k \in 1..Len(queue) : queue'[k] = queue[k]
      BY <2>1, <2>2
    <3>3. Len(queue) \in Nat
      BY <2>2
    <3>4. \A i \in Queued' : i \in Queued \cup {j}
      <4> SUFFICES ASSUME NEW k \in 1..Len(queue')
                   PROVE  queue'[k] \in Queued \cup {j}
        BY DEF Queued
      <4>1. CASE k \in 1..Len(queue)
        BY <3>2, <4>1 DEF Queued
      <4>2. CASE k = Len(queue) + 1
        BY <3>2, <4>2
      <4> QED BY <3>2, <3>3, <4>1, <4>2
    <3>5. \A k \in 1..Len(queue) : k \in 1..Len(queue')
      BY <3>2, <3>3
    <3>6. Queued \subseteq Queued'
      BY <3>2, <3>5 DEF Queued
    <3>7. j \in Queued'
      BY <3>2, <3>3 DEF Queued
    <3> QED BY <3>1, <3>4, <3>6, <3>7
  <2>5. HalvesAgree'
    BY <1>0, <2>1, <2>2, <2>4 DEF HalvesAgree
  <2>6. LineIsOrdered'
    BY <2>1, <2>2, <2>4 DEF LineIsOrdered, Queued
  <2>7. LineIsShort'
    <3>1. Busy' = Busy /\ Busy \in {0, 1}
      BY <2>1, <2>2 DEF Busy
    <3>2. Len(queue) + Busy + 1 <= Cardinality(AdmittedJobs)
      BY <1>0, LineFits DEF Inv, Admitted
    <3>3. Cardinality(AdmittedJobs) <= MAX_PENDING_JOBS
      BY DEF Inv, PendingExact
    <3>4. Cardinality(AdmittedJobs) \in Nat
      BY CountIsNat
    <3>5. waited[j] = 0
      BY <2>1 DEF FreshWaits
    <3>6. \A k \in 1..Len(queue) : queue'[k] = queue[k] /\ queue[k] \in Jobs
      BY <2>1, <2>2
    <3>7. Len(queue') = Len(queue) + 1 /\ queue'[Len(queue) + 1] = j /\ Len(queue) \in Nat
      BY <2>1, <2>2
    <3>8. ASSUME NEW k \in 1..Len(queue')
          PROVE  waited'[queue'[k]] + k + Busy' <= MAX_PENDING_JOBS
      <4>1. CASE k \in 1..Len(queue)
        BY <2>1, <3>1, <3>6, <4>1 DEF LineIsShort
      <4>2. CASE k = Len(queue) + 1
        BY <2>1, <3>1, <3>2, <3>3, <3>4, <3>5, <3>7, <4>2, GatewayAssumption
      <4> QED BY <3>7, <3>8, <4>1, <4>2
    <3> QED BY <3>8 DEF LineIsShort
  <2>8. FreshWaits' /\ WaitIsBounded'
    BY <2>1, <2>2 DEF FreshWaits, WaitIsBounded
  <2> QED BY <1>2, <2>3, <2>5, <2>6, <2>7, <2>8
<1> QED BY <1>3, <1>4

LEMMA ServeInv ==
  ASSUME WorkerInv, Inv', NEW j \in Jobs, Serve(j)
  PROVE  WorkerInv'
<1> USE DEF WorkerInv
<1>1. main = "serving" /\ main' = main /\ run' # "off" /\ ~stopped /\ stopped' = stopped
  BY OnlyWhileServing DEF JobTask
<1>2. MainLeads' /\ NothingLeftRunning'
  BY <1>1 DEF MainLeads, NothingLeftRunning
<1>3. /\ queue # <<>> /\ j = Head(queue) /\ queue' = Tail(queue)
      /\ phase[j] = "queued" /\ phase' = [phase EXCEPT ![j] = "active"]
      /\ \A i \in Jobs : phase[i] # "active"
      /\ waited' = waited /\ job' = job
  BY DEF Serve, Takes, Crawl!Start, vars, jobVars
<1>4. queue \in Seq(Jobs) /\ waited \in [Jobs -> Nat] /\ phase \in [Jobs -> Crawl!Phases]
  BY DEF CrawlTypes
<1>5. /\ Len(queue) \in Nat /\ Len(queue') = Len(queue) - 1 /\ queue[1] = j
      /\ Len(queue) >= 1
      /\ \A k \in 1..Len(queue') : queue'[k] = queue[k + 1] /\ k + 1 \in 1..Len(queue)
  BY <1>3, <1>4
<1>6. CrawlTypes'
  BY <1>1, <1>3, <1>4 DEF CrawlTypes, Crawl!Phases
<1>7. Queued' = Queued \ {j}
  <2>1. \A i \in Queued' : i \in Queued /\ i # j
    BY <1>5 DEF Queued, LineIsOrdered
  <2>2. \A i \in Queued : i = j \/ i \in Queued'
    <3> SUFFICES ASSUME NEW k \in 1..Len(queue), queue[k] # j
                 PROVE  queue[k] \in Queued'
      BY DEF Queued
    <3>1. k - 1 \in 1..Len(queue') /\ queue'[k - 1] = queue[k]
      BY <1>5
    <3> QED BY <3>1 DEF Queued
  <2> QED BY <2>1, <2>2
<1>8. HalvesAgree'
  BY <1>3, <1>4, <1>7 DEF HalvesAgree
<1>9. LineIsOrdered'
  <2> SUFFICES ASSUME NEW k \in 1..Len(queue'), NEW l \in 1..Len(queue'),
                      queue'[k] = queue'[l]
               PROVE  k = l
    BY DEF LineIsOrdered
  <2>1. k + 1 = l + 1
    BY <1>5 DEF LineIsOrdered
  <2> QED BY <2>1
<1>10. Busy = 0 /\ Busy' = 1
  BY <1>3, <1>4 DEF Busy
<1>11. LineIsShort'
  <2> SUFFICES ASSUME NEW k \in 1..Len(queue')
               PROVE  waited'[queue'[k]] + k + Busy' <= MAX_PENDING_JOBS
    BY DEF LineIsShort
  <2>1. waited[queue[k + 1]] + (k + 1) + 0 <= MAX_PENDING_JOBS
    BY <1>5, <1>10 DEF LineIsShort
  <2>2. waited[queue[k + 1]] \in Nat
    BY <1>4, <1>5
  <2> QED BY <1>3, <1>5, <1>10, <2>1, <2>2, GatewayAssumption
<1>12. FreshWaits' /\ WaitIsBounded'
  BY <1>3, <1>4 DEF FreshWaits, WaitIsBounded
<1> QED BY <1>2, <1>6, <1>8, <1>9, <1>11, <1>12

LEMMA ReturnInv ==
  ASSUME WorkerInv, Inv', NEW j \in Jobs, Return(j)
  PROVE  WorkerInv'
<1> USE DEF WorkerInv
<1>1. main = "serving" /\ main' = main /\ run' # "off" /\ ~stopped /\ stopped' = stopped
  BY OnlyWhileServing DEF JobTask
<1>2. MainLeads' /\ NothingLeftRunning'
  BY <1>1 DEF MainLeads, NothingLeftRunning
<1>3. /\ phase[j] = "active" /\ phase' = [phase EXCEPT ![j] = "ended"]
      /\ queue' = queue /\ Queued' = Queued
      /\ \A i \in Jobs : waited'[i] = IF i \in Queued THEN waited[i] + 1 ELSE waited[i]
      /\ waited' \in [Jobs -> Nat]
  BY DEF Return, Crawl!Finish, Queued, CrawlTypes
<1>4. queue \in Seq(Jobs) /\ waited \in [Jobs -> Nat] /\ phase \in [Jobs -> Crawl!Phases]
  BY DEF CrawlTypes
<1>5. /\ job \in [Jobs -> JobStates] /\ job[j] = "crawling"
      /\ \/ job' = [job EXCEPT ![j] = "replying"]
         \/ job' = [job EXCEPT ![j] = "refusing"]
  BY DEF Return, Crawled, Send, Inv, TypeOK, JobTypes
<1>6. CrawlTypes'
  BY <1>1, <1>3, <1>4 DEF CrawlTypes, Crawl!Phases
<1>7. j \notin Queued
  BY <1>3 DEF HalvesAgree
<1>8. HalvesAgree' /\ LineIsOrdered'
  BY <1>3, <1>4, <1>5, <1>7 DEF HalvesAgree, LineIsOrdered
<1>9. Busy = 1 /\ Busy' = 0
  <2>1. \A i \in Jobs : phase'[i] # "active"
    BY <1>3, <1>4 DEF HalvesAgree
  <2> QED BY <1>3, <2>1 DEF Busy
<1>10. ASSUME NEW k \in 1..Len(queue)
       PROVE  /\ queue[k] \in Jobs /\ waited'[queue[k]] = waited[queue[k]] + 1
              /\ waited[queue[k]] + k + 1 <= MAX_PENDING_JOBS
  BY <1>3, <1>4, <1>9 DEF Queued, LineIsShort
<1>11. LineIsShort'
  <2> SUFFICES ASSUME NEW k \in 1..Len(queue)
               PROVE  waited'[queue[k]] + k + 0 <= MAX_PENDING_JOBS
    BY <1>3, <1>9 DEF LineIsShort
  <2> QED BY <1>4, <1>10, GatewayAssumption
<1>12. FreshWaits'
  BY <1>3, <1>4 DEF FreshWaits, HalvesAgree
<1>13. WaitIsBounded'
  <2> SUFFICES ASSUME NEW i \in Jobs
               PROVE  waited'[i] < MAX_PENDING_JOBS
    BY DEF WaitIsBounded
  <2>1. CASE i \in Queued
    <3>1. PICK k \in 1..Len(queue) : i = queue[k]
      BY <2>1 DEF Queued
    <3> QED BY <1>4, <1>10, <3>1, GatewayAssumption
  <2>2. CASE i \notin Queued
    BY <1>3, <2>2 DEF WaitIsBounded
  <2> QED BY <2>1, <2>2
<1> QED BY <1>2, <1>6, <1>8, <1>11, <1>12, <1>13

-----------------------------------------------------------------------------
LEMMA WorkerNextInv == WorkerInv /\ [WorkerNext]_workerVars => WorkerInv'
<1> SUFFICES ASSUME WorkerInv, [WorkerNext]_workerVars PROVE WorkerInv'
  OBVIOUS
<1>1. Inv'
  BY ClientMoves, NextInv DEF WorkerInv, workerVars
<1>2. CASE UNCHANGED workerVars
  <2>1. UNCHANGED <<vars, main, crawlVars>>
    BY <1>2 DEF workerVars
  <2>2. HalvesAgree' /\ LineIsOrdered' /\ LineIsShort' /\ FreshWaits' /\ WaitIsBounded'
    BY <2>1, SameLine DEF vars, jobVars
  <2>3. MainLeads' /\ NothingLeftRunning' /\ CrawlTypes'
    BY <2>1 DEF WorkerInv, MainLeads, NothingLeftRunning, CrawlTypes, crawlVars, vars,
                connVars, flagVars, jobVars
  <2> QED BY <1>1, <2>2, <2>3 DEF WorkerInv
<1>3. CASE \/ Launched \/ LaunchFails \/ Signal
           \/ ServersClosed \/ BrowserClosed \/ ShutdownTimesOut
  BY <1>1, <1>3, MainInv
<1>4. CASE Shutdown
  BY <1>1, <1>4, ShutdownInv
<1>5. CASE LoopStep \/ GatewayStep
  BY <1>1, <1>5, ClientInv
<1>6. ASSUME NEW j \in Jobs, JobTask(j)
      PROVE  WorkerInv'
  BY <1>1, <1>6, ClientInv, EnqueueInv, ServeInv, ReturnInv DEF JobTask
<1> QED BY <1>2, <1>3, <1>4, <1>5, <1>6 DEF WorkerNext, ShutdownStep, Exited

(* The invariant that carries the results below holds in every state.      *)
THEOREM WorkerInvariance == WorkerSpec => []WorkerInv
<1>1. WorkerInit => WorkerInv
  BY WorkerInitInv
<1>2. WorkerInv /\ [WorkerNext]_workerVars => WorkerInv'
  BY WorkerNextInv
<1> QED BY <1>1, <1>2, PTL DEF WorkerSpec

(* No job is passed over by MAX_PENDING_JOBS crawls: the lock is fair and  *)
(* the client admits no more jobs than that.                               *)
THEOREM WaitBounded == WorkerSpec => []WaitIsBounded
<1>1. WorkerInv => WaitIsBounded
  BY DEF WorkerInv
<1> QED BY <1>1, WorkerInvariance, PTL

(* From the beginning of the shutdown no job's task is alive, neither in   *)
(* the client nor in the line for the browser.                             *)
THEOREM ShutdownLeavesNothing == WorkerSpec => []NothingLeftRunning
<1>1. WorkerInv => NothingLeftRunning
  BY DEF WorkerInv
<1> QED BY <1>1, WorkerInvariance, PTL

(* Until a shutdown begins, /readyz answers 200 only over the connection   *)
(* the gateway acknowledged.                                               *)
THEOREM ReadyzIsHonest == WorkerSpec => []ReadyzHonest
<1>1. WorkerInv => ReadyzHonest
  BY DEF WorkerInv, Inv, ReadyIsAcked, SocketIsCurrent, ReadyzHonest, Readyz, MayBeReady,
         MainLeads
<1> QED BY <1>1, WorkerInvariance, PTL

(* In the worker as in the client alone, the pending count is exact and    *)
(* within its limit.                                                       *)
THEOREM WorkerPendingIsExact == WorkerSpec => []PendingExact
BY IsClient, PendingIsExact, PTL

(* The worker implements both of its specifications: its client is the     *)
(* GatewayClient, and to that client the browser is the CrawlService.      *)
THEOREM Composes == WorkerSpec => ClientAndCrawls
<1>1. WorkerInit => Init /\ Crawl!Init
  BY DEF WorkerInit
<1>2. [WorkerNext]_workerVars => [Next]_vars
  BY ClientMoves DEF workerVars
<1>3. [WorkerNext]_workerVars => [Crawl!Next]_(Crawl!vars)
  <2> SUFFICES ASSUME [WorkerNext]_workerVars
               PROVE  [Crawl!Next]_(Crawl!vars)
    OBVIOUS
  <2> USE DEF crawlVars, Crawl!vars, Crawl!Next
  <2>1. CASE UNCHANGED crawlVars
    BY <2>1
  <2>2. CASE Shutdown
    BY <2>2 DEF Shutdown
  <2>3. ASSUME NEW j \in Jobs, JobTask(j)
        PROVE  [Crawl!Next]_(Crawl!vars)
    BY <2>3 DEF JobTask, TaskStep, Enqueue, Serve, Return
  <2> QED BY <2>1, <2>2, <2>3
     DEF WorkerNext, ShutdownStep, Launched, LaunchFails, Signal, ServersClosed,
         BrowserClosed, ShutdownTimesOut, LoopStep, GatewayStep, Exited, workerVars
<1> QED BY <1>1, <1>2, <1>3, PTL DEF WorkerSpec, ClientAndCrawls
=============================================================================
