--------------------------- MODULE BrowserManager ---------------------------
(***************************************************************************)
(* The persistent browser of meerkly-headless (browser.py), the crawls     *)
(* that share it, its crash recovery, and the start-up and shutdown in     *)
(* cli.py that drive it.                                                   *)
(*                                                                         *)
(* Everything runs on one asyncio loop, so an action is the code between   *)
(* two suspension points: it starts where a task resumes and ends at its   *)
(* next await.  The tasks are the main task, one task per job, one task    *)
(* per page crash (_recover) and the launch task that ensure_browser       *)
(* shares between them.  A task created by another one runs its first part *)
(* with its creator's action: nothing that runs between the two tells the  *)
(* difference.                                                             *)
(*                                                                         *)
(* An engine is one launch of Firefox: its context, and the page the code  *)
(* opens in it.  The engine itself (entering it, new_page, aclose, the     *)
(* crash and close events) is external and modelled from how browser.py    *)
(* uses it; aclose() is assumed to bring the engine down in the end, and   *)
(* a context to close with its last page, as browser.py:318 says.          *)
(***************************************************************************)
EXTENDS Integers, FiniteSets

CONSTANTS Jobs,               \* navigate_and_extract calls
          Engines,            \* launches of the browser engine
          NoJob, NoEngine,    \* None
          ProfileResetJobs,   \* cfg.profile_reset_jobs; 0 disables the reset
          MaxFaults           \* bound on engine faults in a behaviour

ASSUME BrowserAssumption ==
  /\ NoJob \notin Jobs
  /\ NoEngine \notin Engines
  /\ ProfileResetJobs \in Nat
  /\ MaxFaults \in Nat

VARIABLES
  main,           \* cli.run: "boot", "launching", "serving", "stopping", "closing", "exited"
  mainOn,         \* the engine whose aclose() the main task awaits in close()
  closed,         \* _closed
  stack,          \* _stack, as the engine it unwinds
  context,        \* _context
  page,           \* _page, as the engine it belongs to
  launching,      \* _launching, as the engine it brings up
  lock,           \* _lock, as the job that holds it
  jobsSinceReset, \* _jobs_since_reset
  generation,     \* profile generation: the jar on disk and _proxy_sid
  job,            \* job[j]: where the task of job j is
  jobOn,          \* jobOn[j]: the engine it awaits (reset) or crawls in
  recovery,       \* recovery[e]: where the _recover task of e's crash is
  recoveryOn,     \* recoveryOn[e]: the engine whose aclose() that task awaits
  launch,         \* launch[e]: where the launch task of e is
  browser,        \* browser[e]: the Firefox process of e
  tab,            \* tab[e]: the page opened in e
  exit,           \* exit[e]: the AsyncExitStack of e
  engineGen,      \* engineGen[e]: the generation whose session id e was given
  faults          \* engine faults so far

mainVars    == <<main, mainOn, closed>>
ownVars     == <<stack, context, page>>
jobVars     == <<job, jobOn, lock>>
profileVars == <<jobsSinceReset, generation>>
recVars     == <<recovery, recoveryOn>>
launchVars  == <<launching, launch, engineGen>>
engineVars  == <<browser, tab, exit>>
vars == <<mainVars, ownVars, jobVars, profileVars, recVars, launchVars,
          engineVars, faults>>

JobStates == {"idle", "waiting", "resetting", "launching", "launched",
              "refused", "crawling", "ok", "failed", "cancelled"}
LaunchStates == {"none", "enter", "newpage", "stale", "cancelling", "ok", "failed"}

TypeOK ==
  /\ main \in {"boot", "launching", "serving", "stopping", "closing", "exited"}
  /\ mainOn \in Engines \cup {NoEngine}
  /\ closed \in BOOLEAN
  /\ stack \in Engines \cup {NoEngine}
  /\ context \in Engines \cup {NoEngine}
  /\ page \in Engines \cup {NoEngine}
  /\ launching \in Engines \cup {NoEngine}
  /\ lock \in Jobs \cup {NoJob}
  /\ jobsSinceReset \in Nat
  /\ generation \in Nat
  /\ job \in [Jobs -> JobStates]
  /\ jobOn \in [Jobs -> Engines \cup {NoEngine}]
  /\ recovery \in [Engines -> {"none", "unwinding", "sleeping", "launching", "done"}]
  /\ recoveryOn \in [Engines -> Engines \cup {NoEngine}]
  /\ launch \in [Engines -> LaunchStates]
  /\ browser \in [Engines -> {"none", "up", "gone"}]
  /\ tab \in [Engines -> {"none", "open", "missed", "crashed"}]
  /\ exit \in [Engines -> {"open", "closing", "closed"}]
  /\ engineGen \in [Engines -> Nat]
  /\ faults \in 0..MaxFaults
  /\ \A j \in Jobs : job[j] \in {"crawling", "resetting"} => jobOn[j] \in Engines

Init ==
  /\ main = "boot" /\ mainOn = NoEngine /\ closed = FALSE
  /\ stack = NoEngine /\ context = NoEngine /\ page = NoEngine
  /\ launching = NoEngine /\ lock = NoJob
  /\ jobsSinceReset = 0 /\ generation = 0
  /\ job = [j \in Jobs |-> "idle"] /\ jobOn = [j \in Jobs |-> NoEngine]
  /\ recovery = [e \in Engines |-> "none"]
  /\ recoveryOn = [e \in Engines |-> NoEngine]
  /\ launch = [e \in Engines |-> "none"]
  /\ browser = [e \in Engines |-> "none"]
  /\ tab = [e \in Engines |-> "none"]
  /\ exit = [e \in Engines |-> "open"]
  /\ engineGen = [e \in Engines |-> 0]
  /\ faults = 0

-----------------------------------------------------------------------------
(* What the operations share.                                              *)

(* The process is still there; every action but the last stutter needs it. *)
Running == main # "exited"

(* An engine fault spends one unit of the bound.                           *)
Fault == faults < MaxFaults /\ faults' = faults + 1

IsReady == /\ ~closed
           /\ context # NoEngine
           /\ page # NoEngine
           /\ browser[page] = "up"         \* not page.is_closed()

(* The launch task exists and is not done().                               *)
InFlight(e) == launch[e] \in {"enter", "newpage", "stale", "cancelling"}
LaunchLive == launching # NoEngine /\ InFlight(launching)

Fresh == {e \in Engines : launch[e] = "none"}
NextEngine == CHOOSE e \in Fresh : TRUE

(* Mutant of StartLaunch: the session id is drawn once and never rotated.  *)
StartLaunchFirstSid(gen) ==
  /\ Fresh # {}
  /\ launching' = NextEngine
  /\ launch' = [launch EXCEPT ![NextEngine] = "enter"]
  /\ engineGen' = [engineGen EXCEPT ![NextEngine] = 0]

(* create_task(self._launch()) up to the engine's __aenter__: the options, *)
(* and with them the session id, are fixed here.                           *)
StartLaunch(gen) ==
  /\ Fresh # {}
  /\ launching' = NextEngine
  /\ launch' = [launch EXCEPT ![NextEngine] = "enter"]
  /\ engineGen' = [engineGen EXCEPT ![NextEngine] = gen]

(* Mutant of EnsureLaunch: nobody looks whether a launch is in flight.     *)
AlwaysLaunch(gen) == StartLaunch(gen)

(* ensure_browser once _closed and is_ready() have been answered: join the *)
(* launch in flight or start one.  The caller then awaits it.              *)
EnsureLaunch(gen) == IF LaunchLive THEN UNCHANGED launchVars
                                   ELSE StartLaunch(gen)

(* Mutant of Wake: a failed launch wakes nobody.                           *)
WakeOnSuccess(success) ==
  IF success
  THEN /\ main' = IF main = "launching" THEN "serving" ELSE main
       /\ job' = [j \in Jobs |-> IF job[j] = "launching" THEN "launched" ELSE job[j]]
       /\ recovery' = [e \in Engines |-> IF recovery[e] = "launching" THEN "done"
                                         ELSE recovery[e]]
  ELSE UNCHANGED <<main, job, recovery>>

(* The tasks awaiting the launch that ends now wake up.  The main task and *)
(* the recoveries have nothing left to do to this state; the job that      *)
(* holds the lock resumes in Resume.                                       *)
Wake(success) ==
  /\ main' = IF main = "launching" THEN IF success THEN "serving" ELSE "exited"
             ELSE main
  /\ job' = [j \in Jobs |-> IF job[j] = "launching"
                            THEN IF success THEN "launched" ELSE "refused"
                            ELSE job[j]]
  /\ recovery' = [e \in Engines |-> IF recovery[e] = "launching" THEN "done"
                                    ELSE recovery[e]]

(* Mutant of Teardown: the stack is dropped only after its aclose().       *)
TeardownKeepsStack ==
  /\ stack' = stack /\ context' = NoEngine /\ page' = NoEngine
  /\ exit' = IF stack = NoEngine THEN exit ELSE [exit EXCEPT ![stack] = "closing"]

(* _teardown up to its await: the fields are swapped out first, then the   *)
(* caller awaits the old stack's aclose(), if there was one.               *)
Teardown ==
  /\ stack' = NoEngine /\ context' = NoEngine /\ page' = NoEngine
  /\ exit' = IF stack = NoEngine THEN exit ELSE [exit EXCEPT ![stack] = "closing"]

(* Mutant of OnContextClosed: the page of the closed context is kept.      *)
PageOutlivesContext == context' = NoEngine /\ UNCHANGED page

(* _on_context_closed: whichever context it was that closed.               *)
OnContextClosed == context' = NoEngine /\ page' = NoEngine

(* _fetch up to its first await.  ready and gen are is_ready() and the     *)
(* session id as the job sees them.                                        *)
Fetch(j, ready, gen) ==
  IF closed \/ ready
  THEN /\ job' = [job EXCEPT ![j] = IF closed THEN "refused" ELSE "crawling"]
       /\ jobOn' = [jobOn EXCEPT ![j] = page]
       /\ UNCHANGED launchVars
  ELSE /\ job' = [job EXCEPT ![j] = "launching"]
       /\ jobOn' = [jobOn EXCEPT ![j] = NoEngine]
       /\ EnsureLaunch(gen)

(* Mutant of Leave: only a crawl that succeeded is counted.                *)
LeaveCountsSuccess(j, outcome) ==
  /\ job' = [job EXCEPT ![j] = outcome]
  /\ jobOn' = [jobOn EXCEPT ![j] = NoEngine]
  /\ jobsSinceReset' = IF outcome = "ok" THEN jobsSinceReset + 1 ELSE jobsSinceReset
  /\ lock' = NoJob

(* The end of navigate_and_extract: its finally clause, then the lock.     *)
Leave(j, outcome) ==
  /\ job' = [job EXCEPT ![j] = outcome]
  /\ jobOn' = [jobOn EXCEPT ![j] = NoEngine]
  /\ jobsSinceReset' = jobsSinceReset + 1
  /\ lock' = NoJob

(* async with self._lock, and its mutant that shares the lock with a crawl. *)
SharedLock == \A j \in Jobs : lock = j => job[j] = "crawling"
LockFree == lock = NoJob

(* Mutant of ResetDue: one crawl too late.                                 *)
ResetOneLate == ProfileResetJobs > 0 /\ jobsSinceReset > ProfileResetJobs
ResetDue == ProfileResetJobs > 0 /\ jobsSinceReset >= ProfileResetJobs

(* clear_profile_state, the counter and the new session id: one step, the  *)
(* code between _teardown and ensure_browser does not suspend.             *)
NewGeneration == jobsSinceReset' = 0 /\ generation' = generation + 1

-----------------------------------------------------------------------------
(* The main task.                                                          *)

(* run: the first ensure_browser.                                          *)
Boot ==
  /\ main = "boot"
  /\ main' = "launching"
  /\ EnsureLaunch(generation)
  /\ UNCHANGED <<mainOn, closed, ownVars, jobVars, profileVars, recVars,
                 engineVars, faults>>

(* A signal, then gateway.stop: every job task is cancelled.  Inside the   *)
(* try of navigate_and_extract its finally clause still counts the job; a  *)
(* task that awaits the shared launch cancels that too.  An aclose() cut   *)
(* off by the cancel goes on in the engine, with nobody waiting for it.    *)
Stop ==
  /\ main = "serving"
  /\ main' = "stopping"
  /\ job' = [j \in Jobs |-> IF job[j] \in {"idle", "ok", "failed"}
                            THEN job[j] ELSE "cancelled"]
  /\ jobOn' = [j \in Jobs |-> NoEngine]
  /\ lock' = NoJob
  /\ jobsSinceReset' = IF lock # NoJob /\ job[lock] # "resetting"
                       THEN jobsSinceReset + 1 ELSE jobsSinceReset
  /\ launch' = IF \E j \in Jobs : job[j] = "launching"
               THEN [launch EXCEPT ![launching] = "cancelling"] ELSE launch
  /\ UNCHANGED <<mainOn, closed, ownVars, generation, recVars, launching,
                 engineGen, engineVars, faults>>

(* Mutant of CloseBrowser: _closed is set once the teardown is over.       *)
CloseBeforeFlag ==
  /\ main = "stopping"
  /\ main' = "closing" /\ mainOn' = stack
  /\ closed' = FALSE
  /\ Teardown
  /\ UNCHANGED <<jobVars, profileVars, recVars, launchVars, browser, tab, faults>>

(* close: the flag first, then the teardown.                               *)
CloseBrowser ==
  /\ main = "stopping"
  /\ main' = "closing" /\ mainOn' = stack
  /\ closed' = TRUE
  /\ Teardown
  /\ UNCHANGED <<jobVars, profileVars, recVars, launchVars, browser, tab, faults>>

Exit ==
  /\ main = "closing"
  /\ mainOn # NoEngine => exit[mainOn] = "closed"
  /\ main' = "exited"
  /\ UNCHANGED <<mainOn, closed, ownVars, jobVars, profileVars, recVars,
                 launchVars, engineVars, faults>>

(* asyncio.wait_for cancels the shutdown after SHUTDOWN_TIMEOUT_SEC and    *)
(* returns once what it cancelled has ended, which is this step: until     *)
(* then the close of the socket, or the aclose() of the engine, is still   *)
(* awaited, and may take its time.                                         *)
ShutdownTimesOut ==
  /\ main \in {"stopping", "closing"}
  /\ main' = "exited"
  /\ UNCHANGED <<mainOn, closed, ownVars, jobVars, profileVars, recVars,
                 launchVars, engineVars, faults>>

-----------------------------------------------------------------------------
(* The launch task of engine e.                                            *)

(* The engine is entered: the fields are overwritten whatever they hold.   *)
Enter(e) ==
  /\ Running /\ launch[e] = "enter"
  /\ launch' = [launch EXCEPT ![e] = "newpage"]
  /\ browser' = [browser EXCEPT ![e] = "up"]
  /\ stack' = e /\ context' = e
  /\ UNCHANGED <<mainVars, page, jobVars, profileVars, recVars, launching,
                 engineGen, tab, exit, faults>>

LaunchEnds(e, success) ==
  /\ launch' = [launch EXCEPT ![e] = IF success THEN "ok" ELSE "failed"]
  /\ Wake(success)
  /\ UNCHANGED <<mainOn, closed, ownVars, jobOn, lock, profileVars, recoveryOn,
                 launching, engineGen>>

EnterFails(e) ==
  /\ Running /\ launch[e] = "enter" /\ Fault
  /\ LaunchEnds(e, FALSE)
  /\ UNCHANGED engineVars

NewPage(e) ==
  /\ Running /\ launch[e] = "newpage" /\ browser[e] = "up"
  /\ launch' = [launch EXCEPT ![e] = "stale"]
  /\ tab' = [tab EXCEPT ![e] = "open"]
  /\ page' = e
  /\ UNCHANGED <<mainVars, stack, context, jobVars, profileVars, recVars,
                 launching, engineGen, browser, exit, faults>>

(* new_page raises: the stack and the context stay as they are.            *)
NewPageFails(e) ==
  /\ Running /\ launch[e] = "newpage"
  /\ IF browser[e] = "up" /\ exit[e] = "open" THEN Fault ELSE UNCHANGED faults
  /\ LaunchEnds(e, FALSE)
  /\ UNCHANGED engineVars

(* The stale pages are closed; _page.on("crash") raises when _page was     *)
(* cleared in the meantime.                                                *)
Subscribe(e) ==
  /\ Running /\ launch[e] = "stale"
  /\ LaunchEnds(e, page # NoEngine)
  /\ UNCHANGED <<engineVars, faults>>

(* The launch task of a cancelled job unwinds.                             *)
Cancelled(e) ==
  /\ Running /\ launch[e] = "cancelling"
  /\ browser' = [browser EXCEPT ![e] = IF @ = "none" THEN "gone" ELSE @]
  /\ LaunchEnds(e, FALSE)
  /\ UNCHANGED <<tab, exit, faults>>

-----------------------------------------------------------------------------
(* A job: navigate_and_extract.                                            *)

Submit(j) ==
  /\ main = "serving" /\ job[j] = "idle"
  /\ job' = [job EXCEPT ![j] = "waiting"]
  /\ UNCHANGED <<mainVars, ownVars, jobOn, lock, profileVars, recVars,
                 launchVars, engineVars, faults>>

(* The lock, then _reset_profile_if_due: nothing due, or a teardown to     *)
(* await, or no stack to unwind.  asyncio.Lock is fair; here any waiter    *)
(* may be next.                                                            *)
Acquire(j) ==
  /\ Running /\ job[j] = "waiting" /\ LockFree
  /\ lock' = j
  /\ \/ /\ ~ResetDue
        /\ Fetch(j, IsReady, generation)
        /\ UNCHANGED <<ownVars, profileVars, exit>>
     \/ /\ ResetDue /\ stack # NoEngine
        /\ Teardown
        /\ job' = [job EXCEPT ![j] = "resetting"]
        /\ jobOn' = [jobOn EXCEPT ![j] = stack]
        /\ UNCHANGED <<profileVars, launchVars>>
     \/ /\ ResetDue /\ stack = NoEngine
        /\ Teardown
        /\ NewGeneration
        /\ Fetch(j, FALSE, generation')
  /\ UNCHANGED <<mainVars, recVars, browser, tab, faults>>

(* Mutant of ResetDone: the teardown is not awaited.                       *)
ResetAtOnce(j) ==
  /\ Running /\ job[j] = "resetting"
  /\ NewGeneration
  /\ Fetch(j, IsReady, generation')
  /\ UNCHANGED <<mainVars, ownVars, lock, recVars, engineVars, faults>>

(* The reset's teardown is done: clear the files, then go on to _fetch,    *)
(* with whatever browser there is by now.                                  *)
ResetDone(j) ==
  /\ Running /\ job[j] = "resetting" /\ exit[jobOn[j]] = "closed"
  /\ NewGeneration
  /\ Fetch(j, IsReady, generation')
  /\ UNCHANGED <<mainVars, ownVars, lock, recVars, engineVars, faults>>

(* The launch the job awaited is over: it reads _page only now.            *)
Resume(j) ==
  /\ Running /\ job[j] \in {"launched", "refused"}
  /\ IF job[j] = "launched" /\ page # NoEngine
     THEN /\ job' = [job EXCEPT ![j] = "crawling"]
          /\ jobOn' = [jobOn EXCEPT ![j] = page]
          /\ UNCHANGED <<jobsSinceReset, lock>>
     ELSE Leave(j, "failed")
  /\ UNCHANGED <<mainVars, ownVars, generation, recVars, launchVars,
                 engineVars, faults>>

(* The rest of _fetch: a page is returned only if the tab lived that long. *)
CrawlEnds(j, outcome) ==
  /\ Running /\ job[j] = "crawling"
  /\ outcome = "ok" => browser[jobOn[j]] = "up" /\ tab[jobOn[j]] = "open"
  /\ Leave(j, outcome)
  /\ UNCHANGED <<mainVars, ownVars, generation, recVars, launchVars,
                 engineVars, faults>>

-----------------------------------------------------------------------------
(* The engine and the handlers of its events.                              *)

(* The page of e crashes.  If _launch got as far as subscribing to it,     *)
(* _on_crash drops the page that is current (line 356) and _recover starts *)
(* with its teardown, which drops it again; otherwise nobody is told.      *)
Crash(e) ==
  /\ Running /\ browser[e] = "up" /\ tab[e] = "open" /\ Fault
  /\ tab' = [tab EXCEPT ![e] = IF launch[e] = "ok" THEN "crashed" ELSE "missed"]
  /\ IF launch[e] = "ok"
     THEN /\ Teardown
          /\ recovery' = [recovery EXCEPT ![e] =
                            IF stack = NoEngine THEN "sleeping" ELSE "unwinding"]
          /\ recoveryOn' = [recoveryOn EXCEPT ![e] = stack]
     ELSE UNCHANGED <<ownVars, exit, recVars>>
  /\ UNCHANGED <<mainVars, jobVars, profileVars, launchVars, browser>>

(* The context of e closes by itself; _stack is kept.                      *)
ContextCloses(e) ==
  /\ Running /\ browser[e] = "up" /\ Fault
  /\ browser' = [browser EXCEPT ![e] = "gone"]
  /\ OnContextClosed
  /\ UNCHANGED <<mainVars, stack, jobVars, profileVars, recVars, launchVars, tab,
                 exit>>

(* The stack of e is unwound; if its context was still there its close     *)
(* event fires on the way.                                                 *)
AcloseDone(e) ==
  /\ Running /\ exit[e] = "closing"
  /\ exit' = [exit EXCEPT ![e] = "closed"]
  /\ browser' = [browser EXCEPT ![e] = "gone"]
  /\ IF browser[e] = "up" THEN OnContextClosed ELSE UNCHANGED <<context, page>>
  /\ UNCHANGED <<mainVars, stack, jobVars, profileVars, recVars, launchVars, tab,
                 faults>>

-----------------------------------------------------------------------------
(* The recovery task of e's crash.                                         *)

RecoverUnwound(e) ==
  /\ Running /\ recovery[e] = "unwinding" /\ exit[recoveryOn[e]] = "closed"
  /\ recovery' = [recovery EXCEPT ![e] = "sleeping"]
  /\ recoveryOn' = [recoveryOn EXCEPT ![e] = NoEngine]
  /\ UNCHANGED <<mainVars, ownVars, jobVars, profileVars, launchVars,
                 engineVars, faults>>

(* Mutant of RecoverWakes: the relaunch is left to the next job, as after  *)
(* a context that closed.                                                  *)
RecoverLeavesLaunch(e) ==
  /\ Running /\ recovery[e] = "sleeping"
  /\ recovery' = [recovery EXCEPT ![e] = "done"]
  /\ UNCHANGED <<mainVars, ownVars, jobVars, profileVars, recoveryOn, launchVars,
                 engineVars, faults>>

(* CRASH_RELAUNCH_DELAY_SEC is over.                                       *)
RecoverWakes(e) ==
  /\ Running /\ recovery[e] = "sleeping"
  /\ IF closed \/ IsReady
     THEN /\ recovery' = [recovery EXCEPT ![e] = "done"]
          /\ UNCHANGED launchVars
     ELSE /\ recovery' = [recovery EXCEPT ![e] = "launching"]
          /\ EnsureLaunch(generation)
  /\ UNCHANGED <<mainVars, ownVars, jobVars, profileVars, recoveryOn,
                 engineVars, faults>>

-----------------------------------------------------------------------------
Terminated == main = "exited" /\ UNCHANGED vars

MainStep == Boot \/ Stop \/ CloseBrowser \/ Exit \/ ShutdownTimesOut

LaunchStep(e) == \/ Enter(e) \/ EnterFails(e) \/ NewPage(e) \/ NewPageFails(e)
                 \/ Subscribe(e) \/ Cancelled(e)

JobStep(j) == \/ Acquire(j) \/ ResetDone(j) \/ Resume(j)
              \/ \E outcome \in {"ok", "failed"} : CrawlEnds(j, outcome)

RecoverStep(e) == RecoverUnwound(e) \/ RecoverWakes(e)

EngineFault(e) == Crash(e) \/ ContextCloses(e)

Next == \/ MainStep
        \/ \E j \in Jobs : Submit(j) \/ JobStep(j)
        \/ \E e \in Engines : \/ LaunchStep(e) \/ RecoverStep(e)
                              \/ EngineFault(e) \/ AcloseDone(e)
        \/ Terminated

Spec == Init /\ [][Next]_vars

(* The event loop runs every task that can go on, the engine answers every *)
(* call, and a shutdown goes on once a signal came.  Jobs, signals and     *)
(* faults are under no obligation.                                         *)
Fairness ==
  /\ WF_vars(Boot) /\ WF_vars(CloseBrowser) /\ WF_vars(Exit)
  /\ \A j \in Jobs : WF_vars(JobStep(j))
  /\ \A e \in Engines : /\ WF_vars(LaunchStep(e)) /\ WF_vars(RecoverStep(e))
                        /\ WF_vars(AcloseDone(e))

FairSpec == Spec /\ Fairness

-----------------------------------------------------------------------------
(* Safety.                                                                 *)

(* Jobs, recoveries and the main task share one launch: at no time are two *)
(* launch tasks in flight, and the one there is is the one _launching      *)
(* names (ensure_browser, browser.py:266).                                 *)
OneLaunch == \A e \in Engines : InFlight(e) => e = launching

(* Nobody awaits a launch that is already over: a job, a recovery or the   *)
(* main task inside ensure_browser has a live launch to wake it.           *)
NoLostWaiter ==
  (\/ main = "launching"
   \/ \E j \in Jobs : job[j] = "launching"
   \/ \E e \in Engines : recovery[e] = "launching") => LaunchLive

(* The lock is held exactly by the job between its first and last step.    *)
Inside == {"resetting", "launching", "launched", "refused", "crawling"}
LockIsHeld == \A j \in Jobs : job[j] \in Inside <=> lock = j

(* An engine is unwound once: what _stack holds has no aclose() under way, *)
(* although _recover, the reset and close() tear down without excluding    *)
(* each other (the swap in _teardown, browser.py:371).                     *)
NoDoubleUnwind == stack # NoEngine => exit[stack] = "open"

(* The manager never serves from a context it could not close: _context,   *)
(* when set, is the one _stack unwinds.                                    *)
StackOwnsContext == context # NoEngine => context = stack

StackOwnership == NoDoubleUnwind /\ StackOwnsContext

(* A page the manager would hand out belongs to an engine that is up: each *)
(* way a context can go away passes through its close event.               *)
PageIsUp == page # NoEngine => browser[page] = "up"

(* No more than MEERKLY_PROFILE_RESET_JOBS crawls share a cookie jar,      *)
(* failed and cancelled ones included.                                     *)
JarLimit == ProfileResetJobs > 0 => jobsSinceReset <= ProfileResetJobs

(* A crawl starts on the page of an engine that is up, although _page is   *)
(* read only after the awaits of ensure_browser and of the reset           *)
(* (browser.py:430-436).                                                   *)
CrawlStartsUp ==
  [][\A j \in Jobs : job[j] # "crawling" /\ job'[j] = "crawling"
       => jobOn'[j] \in Engines /\ browser'[jobOn'[j]] = "up"]_vars

(* "each fresh cookie jar pairs with a fresh exit IP" (README.md:167-169): *)
(* a launch keeps the session id it was given, so a page may carry the id  *)
(* of the jar before: the launch was under way at one reset.  Where the    *)
(* crash of another page has its engine unwound already and _launch opens  *)
(* the page all the same, a second reset may have come between.  Never is  *)
(* it an older one, nor is a crawl run with one.                           *)
Behind(e) == generation - engineGen[e]
NearJar(e) == Behind(e) \in IF exit[e] = "open" THEN 0..1 ELSE 0..2
SidNearJar == /\ page # NoEngine => NearJar(page)
              /\ \A j \in Jobs : job[j] = "crawling" => NearJar(jobOn[j])

(* close() cannot call back a launch in flight (browser.py:380), but no    *)
(* other one follows it: neither a recovery that wakes during the shutdown *)
(* nor a job brings an engine up that nobody would unwind.                 *)
NoLaunchAfterClose ==
  [][\A e \in Engines : main \in {"closing", "exited"} /\ launch[e] = "none"
                           => launch'[e] = "none"]_vars

-----------------------------------------------------------------------------
(* The inductive invariant behind them.                                    *)

(* close() has set its flag before it suspends.                            *)
ClosedIsSet == main = "closing" => closed

(* Before it is entered an engine is nowhere: not up, not on a stack, with *)
(* nothing to unwind.                                                      *)
NotEntered == \A e \in Engines : launch[e] \in {"none", "enter"} =>
                 browser[e] = "none" /\ exit[e] = "open" /\ stack # e

(* A job that will be counted still fits the jar.                          *)
RoomInJar == ProfileResetJobs > 0 =>
               \A j \in Jobs : job[j] \in Inside \ {"resetting"} =>
                                 jobsSinceReset < ProfileResetJobs

(* A reset under way is still due.                                         *)
ResetStillDue == \A j \in Jobs : job[j] = "resetting" => ResetDue

Inv == /\ TypeOK /\ OneLaunch /\ NoLostWaiter /\ LockIsHeld
       /\ NoDoubleUnwind /\ StackOwnsContext /\ PageIsUp /\ JarLimit
       /\ ClosedIsSet
       /\ NotEntered /\ RoomInJar /\ ResetStillDue

(* What SidNearJar needs besides.  The first launch finds nothing there.   *)
BootIsFirst == main = "boot" => /\ page = NoEngine
                                /\ \A e \in Engines : /\ launch[e] = "none"
                                                      /\ recovery[e] = "none"

(* No job is under way before the start-up is over, and none is left once  *)
(* the shutdown has begun.                                                 *)
JobsWhileServing ==
  main # "serving" => \A j \in Jobs : job[j] \notin Inside \cup {"waiting"}

(* The flag is up from close() on.                                         *)
ClosedAtTheEnd == closed => main \in {"closing", "exited"}

(* An engine is entered while there is no browser to serve from.           *)
EnterUnready == \A e \in Engines : launch[e] = "enter" =>
                                     context = NoEngine \/ page = NoEngine

(* What a launch has entered is on the stack until it is torn down.        *)
NewPageOnStack == \A e \in Engines : launch[e] = "newpage" /\ exit[e] = "open"
                                       => stack = e

(* An engine that is up is not unwound yet.                                *)
UpIsNotClosed == \A e \in Engines : browser[e] = "up" => exit[e] # "closed"

(* A launch that may yet set _page, and the job that waits for it: while   *)
(* it does there is no reset.                                              *)
MaySetPage(e) == launch[e] = "enter" \/ (launch[e] = "newpage" /\ browser[e] = "up")
Resetting == \E j \in Jobs : job[j] = "resetting"
Joined == main # "serving" \/ \E j \in Jobs : job[j] = "launching"

(* Each reset such a launch has lived through: the first one ended with a  *)
(* job that waits for it or with another page to crawl on, the second one  *)
(* only if its engine was being unwound, and with a job that waits.        *)
Near(e) == \/ Behind(e) = 0
           \/ Behind(e) = 1 /\ Joined
           \/ /\ Behind(e) = 1 /\ launch[e] = "newpage"
              /\ Resetting => page = NoEngine /\ exit[e] # "open"
           \/ Behind(e) = 2 /\ Joined /\ exit[e] # "open"
LaunchNear == \A e \in Engines : MaySetPage(e) => Near(e)

(* A page that was set while a reset is under way will be one id behind.   *)
PageNear ==
  page # NoEngine =>
    \/ Behind(page) = 0
    \/ Behind(page) = 1 /\ (Resetting => exit[page] # "open")
    \/ Behind(page) = 2 /\ ~Resetting /\ exit[page] # "open"

SidInv == /\ BootIsFirst /\ JobsWhileServing /\ ClosedAtTheEnd
          /\ EnterUnready /\ NewPageOnStack /\ UpIsNotClosed
          /\ LaunchNear /\ PageNear /\ SidNearJar

-----------------------------------------------------------------------------
(* Liveness and refinement.                                                *)

(* Crashes are dealt with: the _recover tasks come to their end, whatever  *)
(* launch they join and however that one ends.                             *)
Recovering == {e \in Engines : recovery[e] \in {"unwinding", "sleeping", "launching"}}
RecoveryEnds == Recovering # {} ~> Recovering = {} \/ main = "exited"

(* A crash is made good without a job: when a _recover has slept, with no  *)
(* launch to join, no engine on its way down and no further fault, the     *)
(* browser serves again, unless a reset comes in between.  Short of these  *)
(* it need not (browser.py:355-368): the launch that is joined may fail,   *)
(* and the close event of the old engine drops the new one's page (349);   *)
(* it is then for the next job to launch.                                  *)
Unjoined == ~LaunchLive /\ \A e \in Engines : exit[e] # "closing"
RecoveryServes ==
  (\E e \in Engines : recovery[e] = "sleeping") /\ Unjoined /\ faults = MaxFaults
    ~> IsReady \/ Resetting \/ main # "serving"

(* The caller's view: one job at a time, a bounded jar, and every job that *)
(* was submitted ends (CrawlService).                                      *)
Phase(state) == CASE state = "idle" -> "new"
                  [] state \in {"waiting", "resetting"} -> "queued"
                  [] state \in Inside \ {"resetting"} -> "active"
                  [] OTHER -> "ended"

Service == INSTANCE CrawlService WITH
             phase <- [j \in Jobs |-> Phase(job[j])],
             jar <- generation, served <- jobsSinceReset

ServesJobs == Service!Spec

-----------------------------------------------------------------------------
(* What the documentation says and the code does not keep.                 *)

(* Firefox is on the profile directory from the launch to the end of its   *)
(* context.                                                                *)
OnProfile(e) == launch[e] = "enter" \/ browser[e] = "up"

(* "The browser must be down to touch these files" (browser.py:398).       *)
ResetWhenDown ==
  [][generation' # generation => \A e \in Engines : ~OnProfile(e)]_vars

(* "One persistent Firefox context serves one job at a time"               *)
(* (docs/superpowers/plans/2026-08-04-meerkly-headless.md:7): a Firefox    *)
(* that is up is the one the manager holds, or one on its way down.        *)
EngineOwned ==
  \A e \in Engines : browser[e] = "up" => stack = e \/ exit[e] = "closing"

-----------------------------------------------------------------------------
(* And that it keeps both until an engine fails.                           *)

(* Crashes, closes and failed launches apart, resets and the shutdown      *)
(* never put a second Firefox on the profile (the await in _teardown,      *)
(* browser.py:376, and the launch that ensure_browser shares), and the one *)
(* there is can be unwound.                                                *)
OneFirefox ==
  faults = 0 => /\ EngineOwned
                /\ \A e, f \in Engines : OnProfile(e) /\ OnProfile(f) => e = f

(* The reset is "done between jobs rather than mid-crawl", and "the        *)
(* browser must be down" for it (browser.py:397-398): the jar never        *)
(* changes under a crawl, nor, until the first fault, under a Firefox,     *)
(* though every other task may run while the teardown is awaited (406).    *)
CleanReset ==
  [][generation' # generation =>
       /\ \A j \in Jobs : job[j] # "crawling"
       /\ faults' = 0 => \A e \in Engines : ~OnProfile(e)]_vars

(* The invariant behind both, on top of Inv and SidInv.                    *)
Ending == main \in {"stopping", "closing", "exited"}

(* A launch in flight is awaited by the start-up or by the job inside, or  *)
(* the shutdown has cancelled it.                                          *)
LaunchAwaited ==
  \A e \in Engines : /\ launch[e] = "cancelling" => Ending
                     /\ launch[e] \in {"enter", "newpage", "stale"} =>
                          main = "launching" \/ \E j \in Jobs : job[j] = "launching"

(* An engine on its way down is that of the reset under way, which holds   *)
(* no other, until the shutdown.                                           *)
DownForReset ==
  /\ \A e \in Engines : exit[e] = "closing" =>
       Ending \/ \E j \in Jobs : job[j] = "resetting" /\ jobOn[j] = e
  /\ Resetting => stack = NoEngine

(* An engine is entered when none is up, and then the only one.            *)
EnterAlone ==
  /\ \A e, f \in Engines : browser[e] = "up" /\ browser[f] = "up" => e = f
  /\ \A e, f \in Engines : launch[e] = "enter" => browser[f] # "up"

(* The launch publishes its engine, and what is published is served from.  *)
Published ==
  /\ \A e \in Engines : launch[e] \in {"newpage", "stale"} =>
       /\ browser[e] = "up" /\ exit[e] = "open" /\ stack = e /\ context = e
       /\ launch[e] = "stale" => page = e
  /\ \A e \in Engines : main = "serving" /\ stack = e /\ ~InFlight(e) =>
       page = e /\ context = e

(* Nothing has crashed, so nothing recovers.                               *)
NoRecovery == \A e \in Engines : recovery[e] = "none"

NoFaultYet == /\ NoRecovery
              /\ LaunchAwaited /\ DownForReset /\ EnterAlone /\ Published
              /\ EngineOwned

FaultFreeInv == faults = 0 => NoFaultYet

-----------------------------------------------------------------------------
(* Nobody waits for what nobody does.                                      *)

(* An aclose() that a task awaits has begun.                               *)
UnwindingAwaited ==
  /\ \A j \in Jobs : job[j] = "resetting" => exit[jobOn[j]] # "open"
  /\ \A e \in Engines : recovery[e] = "unwinding" =>
       recoveryOn[e] \in Engines /\ exit[recoveryOn[e]] # "open"
  /\ main = "closing" /\ mainOn # NoEngine => exit[mainOn] # "open"

(* A job waits for the lock only while the job that holds it is under way. *)
LockAwaited == \A j \in Jobs : job[j] = "waiting" /\ ~LockFree =>
                 lock \in Jobs /\ job[lock] \in Inside

(* The job with the lock, the main task and the recoveries wait for one    *)
(* another's launch and for engines on their way down, neither of which    *)
(* waits for a task: nowhere do they wait in a circle or for what is over, *)
(* whichever of them began it (browser.py:268, 360, 376, 406).             *)
AwaitedIsUnderWay == UnwindingAwaited /\ LockAwaited /\ NoLostWaiter

IndInv == Inv /\ SidInv /\ FaultFreeInv /\ AwaitedIsUnderWay
=============================================================================
