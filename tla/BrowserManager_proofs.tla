----------------------- MODULE BrowserManager_proofs -----------------------
(***************************************************************************)
(* Theorems about BrowserManager, for every set of jobs, every number of   *)
(* launches and faults and every value of MEERKLY_PROFILE_RESET_JOBS.      *)
(***************************************************************************)
EXTENDS BrowserManager, TLAPS

(* What StartLaunch picks is an engine that was never launched.            *)
LEMMA NextEngineIsFresh ==
  ASSUME Fresh # {}
  PROVE  NextEngine \in Engines /\ launch[NextEngine] = "none"
BY DEF Fresh, NextEngine

LEMMA InitInv == Init => Inv
<1> SUFFICES ASSUME Init PROVE Inv
  OBVIOUS
<1> USE BrowserAssumption DEF Init
<1>1. TypeOK
  <2>1. job \in [Jobs -> JobStates] /\ launch \in [Engines -> LaunchStates]
    BY DEF JobStates, LaunchStates
  <2>2. \A j \in Jobs : job[j] = "idle"
    OBVIOUS
  <2>3. /\ jobOn \in [Jobs -> Engines \cup {NoEngine}]
        /\ recoveryOn \in [Engines -> Engines \cup {NoEngine}]
        /\ engineGen \in [Engines -> Nat]
        /\ faults \in 0..MaxFaults
    OBVIOUS
  <2>4. /\ recovery \in [Engines -> {"none", "unwinding", "sleeping", "launching", "done"}]
        /\ browser \in [Engines -> {"none", "up", "gone"}]
    OBVIOUS
  <2>5. /\ tab \in [Engines -> {"none", "open", "missed", "crashed"}]
        /\ exit \in [Engines -> {"open", "closing", "closed"}]
    OBVIOUS
  <2> QED BY <2>1, <2>2, <2>3, <2>4, <2>5 DEF TypeOK
<1>2. OneLaunch
  BY DEF OneLaunch, InFlight
<1>3. NoLostWaiter
  BY DEF NoLostWaiter
<1>4. LockIsHeld
  BY DEF LockIsHeld, Inside
<1>5. NoDoubleUnwind /\ StackOwnsContext /\ PageIsUp
  BY DEF NoDoubleUnwind, StackOwnsContext, PageIsUp
<1>6. JarLimit /\ RoomInJar /\ ResetStillDue
  BY DEF JarLimit, RoomInJar, ResetStillDue
<1>7. NotEntered
  BY DEF NotEntered
<1>8. ClosedIsSet
  BY DEF ClosedIsSet
<1> QED BY <1>1, <1>2, <1>3, <1>4, <1>5, <1>6, <1>7, <1>8 DEF Inv

LEMMA BootInv ==
  ASSUME Inv, Boot
  PROVE  Inv'
<1> USE BrowserAssumption, NextEngineIsFresh
    DEF Boot, EnsureLaunch, StartLaunch, mainVars, ownVars, jobVars,
        profileVars, recVars, launchVars, engineVars
<1>1. TypeOK'
  BY DEF Inv, TypeOK, LaunchStates
<1>2. OneLaunch' /\ NoLostWaiter'
  BY DEF Inv, TypeOK, OneLaunch, NoLostWaiter, LaunchLive, InFlight
<1>3. LockIsHeld'
  BY DEF Inv, LockIsHeld
<1>4. NoDoubleUnwind' /\ StackOwnsContext' /\ PageIsUp' /\ NotEntered'
  BY DEF Inv, TypeOK, NoDoubleUnwind, StackOwnsContext, PageIsUp, NotEntered
<1>5. JarLimit' /\ RoomInJar' /\ ResetStillDue'
  BY DEF Inv, JarLimit, RoomInJar, ResetStillDue, ResetDue
<1>6. ClosedIsSet'
  BY DEF Inv, ClosedIsSet
<1> QED BY <1>1, <1>2, <1>3, <1>4, <1>5, <1>6 DEF Inv

LEMMA StopInv ==
  ASSUME Inv, Stop
  PROVE  Inv'
<1> USE BrowserAssumption
    DEF Stop, mainVars, ownVars, jobVars, profileVars, recVars, launchVars,
        engineVars
<1>1. TypeOK'
  <2>1. job' \in [Jobs -> JobStates] /\ jobOn' \in [Jobs -> Engines \cup {NoEngine}]
    BY DEF JobStates
  <2>2. launch' \in [Engines -> LaunchStates]
    BY DEF Inv, TypeOK, LaunchStates
  <2>3. jobsSinceReset' \in Nat
    BY DEF Inv, TypeOK
  <2>4. \A j \in Jobs : job'[j] \notin {"crawling", "resetting"}
    BY DEF JobStates
  <2> QED BY <2>1, <2>2, <2>3, <2>4 DEF Inv, TypeOK
<1>2. OneLaunch' /\ NoLostWaiter'
  BY DEF Inv, OneLaunch, NoLostWaiter, LaunchLive, InFlight
<1>3. LockIsHeld'
  BY DEF LockIsHeld, Inside
<1>4. NoDoubleUnwind' /\ StackOwnsContext' /\ PageIsUp' /\ NotEntered'
  BY DEF Inv, NoDoubleUnwind, StackOwnsContext, PageIsUp, NotEntered
<1>5. JarLimit' /\ RoomInJar' /\ ResetStillDue'
  BY DEF Inv, TypeOK, LockIsHeld, JarLimit, RoomInJar, ResetStillDue, Inside
<1>6. ClosedIsSet'
  BY DEF Inv, ClosedIsSet
<1> QED BY <1>1, <1>2, <1>3, <1>4, <1>5, <1>6 DEF Inv

LEMMA CloseBrowserInv ==
  ASSUME Inv, CloseBrowser
  PROVE  Inv'
<1> USE BrowserAssumption
    DEF CloseBrowser, Teardown, mainVars, ownVars, jobVars, profileVars,
        recVars, launchVars, engineVars
<1>1. TypeOK'
  BY DEF Inv, TypeOK
<1>2. OneLaunch' /\ NoLostWaiter'
  BY DEF Inv, OneLaunch, NoLostWaiter, LaunchLive, InFlight
<1>3. LockIsHeld'
  BY DEF Inv, LockIsHeld
<1>4. NoDoubleUnwind' /\ StackOwnsContext' /\ PageIsUp' /\ NotEntered'
  BY DEF Inv, NoDoubleUnwind, StackOwnsContext, PageIsUp, NotEntered
<1>5. JarLimit' /\ RoomInJar' /\ ResetStillDue'
  BY DEF Inv, JarLimit, RoomInJar, ResetStillDue, ResetDue
<1>6. ClosedIsSet'
  BY DEF ClosedIsSet
<1> QED BY <1>1, <1>2, <1>3, <1>4, <1>5, <1>6 DEF Inv

LEMMA ExitInv ==
  ASSUME Inv, Exit
  PROVE  Inv'
<1> USE BrowserAssumption
    DEF Exit, mainVars, ownVars, jobVars, profileVars, recVars, launchVars,
        engineVars
<1>1. TypeOK'
  BY DEF Inv, TypeOK
<1>2. OneLaunch' /\ NoLostWaiter'
  BY DEF Inv, OneLaunch, NoLostWaiter, LaunchLive, InFlight
<1>3. LockIsHeld'
  BY DEF Inv, LockIsHeld
<1>4. NoDoubleUnwind' /\ StackOwnsContext' /\ PageIsUp' /\ NotEntered'
  BY DEF Inv, NoDoubleUnwind, StackOwnsContext, PageIsUp, NotEntered
<1>5. JarLimit' /\ RoomInJar' /\ ResetStillDue'
  BY DEF Inv, JarLimit, RoomInJar, ResetStillDue, ResetDue
<1>6. ClosedIsSet'
  BY DEF Inv, ClosedIsSet
<1> QED BY <1>1, <1>2, <1>3, <1>4, <1>5, <1>6 DEF Inv

LEMMA ShutdownTimesOutInv ==
  ASSUME Inv, ShutdownTimesOut
  PROVE  Inv'
<1> USE BrowserAssumption
    DEF ShutdownTimesOut, mainVars, ownVars, jobVars, profileVars, recVars,
        launchVars, engineVars
<1>1. TypeOK'
  BY DEF Inv, TypeOK
<1>2. OneLaunch' /\ NoLostWaiter'
  BY DEF Inv, OneLaunch, NoLostWaiter, LaunchLive, InFlight
<1>3. LockIsHeld'
  BY DEF Inv, LockIsHeld
<1>4. NoDoubleUnwind' /\ StackOwnsContext' /\ PageIsUp' /\ NotEntered'
  BY DEF Inv, NoDoubleUnwind, StackOwnsContext, PageIsUp, NotEntered
<1>5. JarLimit' /\ RoomInJar' /\ ResetStillDue'
  BY DEF Inv, JarLimit, RoomInJar, ResetStillDue, ResetDue
<1>6. ClosedIsSet'
  BY DEF Inv, ClosedIsSet
<1> QED BY <1>1, <1>2, <1>3, <1>4, <1>5, <1>6 DEF Inv

LEMMA EnterInv ==
  ASSUME Inv, NEW e \in Engines, Enter(e)
  PROVE  Inv'
<1> USE BrowserAssumption
    DEF Enter, mainVars, ownVars, jobVars, profileVars, recVars, launchVars,
        engineVars
<1>1. TypeOK'
  BY DEF Inv, TypeOK, LaunchStates
<1>2. OneLaunch' /\ NoLostWaiter'
  BY DEF Inv, OneLaunch, NoLostWaiter, LaunchLive, InFlight
<1>3. LockIsHeld'
  BY DEF Inv, LockIsHeld
<1>4. NoDoubleUnwind' /\ StackOwnsContext' /\ PageIsUp' /\ NotEntered'
  BY DEF Inv, TypeOK, NoDoubleUnwind, StackOwnsContext, PageIsUp, NotEntered
<1>5. JarLimit' /\ RoomInJar' /\ ResetStillDue'
  BY DEF Inv, JarLimit, RoomInJar, ResetStillDue, ResetDue
<1>6. ClosedIsSet'
  BY DEF Inv, ClosedIsSet
<1> QED BY <1>1, <1>2, <1>3, <1>4, <1>5, <1>6 DEF Inv

LEMMA EnterFailsInv ==
  ASSUME Inv, NEW e \in Engines, EnterFails(e)
  PROVE  Inv'
<1> USE BrowserAssumption
    DEF EnterFails, Fault, LaunchEnds, Wake, mainVars, ownVars, jobVars,
        profileVars, recVars, launchVars, engineVars
<1>1. TypeOK'
  BY DEF Inv, TypeOK, JobStates, LaunchStates
<1>2. OneLaunch' /\ NoLostWaiter'
  BY DEF Inv, OneLaunch, NoLostWaiter, InFlight
<1>3. LockIsHeld'
  BY DEF Inv, LockIsHeld, Inside
<1>4. NoDoubleUnwind' /\ StackOwnsContext' /\ PageIsUp' /\ NotEntered'
  BY DEF Inv, NoDoubleUnwind, StackOwnsContext, PageIsUp, NotEntered
<1>5. JarLimit' /\ RoomInJar' /\ ResetStillDue'
  BY DEF Inv, JarLimit, RoomInJar, ResetStillDue, Inside, ResetDue
<1>6. ClosedIsSet'
  BY DEF Inv, ClosedIsSet
<1> QED BY <1>1, <1>2, <1>3, <1>4, <1>5, <1>6 DEF Inv

LEMMA NewPageInv ==
  ASSUME Inv, NEW e \in Engines, NewPage(e)
  PROVE  Inv'
<1> USE BrowserAssumption
    DEF NewPage, mainVars, ownVars, jobVars, profileVars, recVars, launchVars,
        engineVars
<1>1. TypeOK'
  BY DEF Inv, TypeOK, LaunchStates
<1>2. OneLaunch' /\ NoLostWaiter'
  BY DEF Inv, OneLaunch, NoLostWaiter, LaunchLive, InFlight
<1>3. LockIsHeld'
  BY DEF Inv, LockIsHeld
<1>4. NoDoubleUnwind' /\ StackOwnsContext' /\ PageIsUp' /\ NotEntered'
  BY DEF Inv, NoDoubleUnwind, StackOwnsContext, PageIsUp, NotEntered
<1>5. JarLimit' /\ RoomInJar' /\ ResetStillDue'
  BY DEF Inv, JarLimit, RoomInJar, ResetStillDue, ResetDue
<1>6. ClosedIsSet'
  BY DEF Inv, TypeOK, ClosedIsSet
<1> QED BY <1>1, <1>2, <1>3, <1>4, <1>5, <1>6 DEF Inv

LEMMA NewPageFailsInv ==
  ASSUME Inv, NEW e \in Engines, NewPageFails(e)
  PROVE  Inv'
<1> USE BrowserAssumption
    DEF NewPageFails, Fault, LaunchEnds, Wake, mainVars, ownVars, jobVars,
        profileVars, recVars, launchVars, engineVars
<1>1. TypeOK'
  BY DEF Inv, TypeOK, JobStates, LaunchStates
<1>2. OneLaunch' /\ NoLostWaiter'
  BY DEF Inv, OneLaunch, NoLostWaiter, InFlight
<1>3. LockIsHeld'
  BY DEF Inv, LockIsHeld, Inside
<1>4. NoDoubleUnwind' /\ StackOwnsContext' /\ PageIsUp' /\ NotEntered'
  BY DEF Inv, NoDoubleUnwind, StackOwnsContext, PageIsUp, NotEntered
<1>5. JarLimit' /\ RoomInJar' /\ ResetStillDue'
  BY DEF Inv, JarLimit, RoomInJar, ResetStillDue, Inside, ResetDue
<1>6. ClosedIsSet'
  BY DEF Inv, ClosedIsSet
<1> QED BY <1>1, <1>2, <1>3, <1>4, <1>5, <1>6 DEF Inv

LEMMA SubscribeInv ==
  ASSUME Inv, NEW e \in Engines, Subscribe(e)
  PROVE  Inv'
<1> USE BrowserAssumption
    DEF Subscribe, LaunchEnds, Wake, mainVars, ownVars, jobVars, profileVars,
        recVars, launchVars, engineVars
<1>1. TypeOK'
  BY DEF Inv, TypeOK, JobStates, LaunchStates
<1>2. OneLaunch' /\ NoLostWaiter'
  BY DEF Inv, OneLaunch, NoLostWaiter, InFlight
<1>3. LockIsHeld'
  BY DEF Inv, LockIsHeld, Inside
<1>4. NoDoubleUnwind' /\ StackOwnsContext' /\ PageIsUp' /\ NotEntered'
  BY DEF Inv, NoDoubleUnwind, StackOwnsContext, PageIsUp, NotEntered
<1>5. JarLimit' /\ RoomInJar' /\ ResetStillDue'
  BY DEF Inv, JarLimit, RoomInJar, ResetStillDue, Inside, ResetDue
<1>6. ClosedIsSet'
  BY DEF Inv, ClosedIsSet
<1> QED BY <1>1, <1>2, <1>3, <1>4, <1>5, <1>6 DEF Inv

LEMMA CancelledInv ==
  ASSUME Inv, NEW e \in Engines, Cancelled(e)
  PROVE  Inv'
<1> USE BrowserAssumption
    DEF Cancelled, LaunchEnds, Wake, mainVars, ownVars, jobVars, profileVars,
        recVars, launchVars, engineVars
<1>1. TypeOK'
  BY DEF Inv, TypeOK, JobStates, LaunchStates
<1>2. OneLaunch' /\ NoLostWaiter'
  BY DEF Inv, OneLaunch, NoLostWaiter, InFlight
<1>3. LockIsHeld'
  BY DEF Inv, LockIsHeld, Inside
<1>4. NoDoubleUnwind' /\ StackOwnsContext' /\ PageIsUp' /\ NotEntered'
  BY DEF Inv, NoDoubleUnwind, StackOwnsContext, PageIsUp, NotEntered
<1>5. JarLimit' /\ RoomInJar' /\ ResetStillDue'
  BY DEF Inv, JarLimit, RoomInJar, ResetStillDue, Inside, ResetDue
<1>6. ClosedIsSet'
  BY DEF Inv, ClosedIsSet
<1> QED BY <1>1, <1>2, <1>3, <1>4, <1>5, <1>6 DEF Inv

LEMMA SubmitInv ==
  ASSUME Inv, NEW j \in Jobs, Submit(j)
  PROVE  Inv'
<1> USE BrowserAssumption
    DEF Submit, mainVars, ownVars, jobVars, profileVars, recVars, launchVars,
        engineVars
<1>1. TypeOK'
  BY DEF Inv, TypeOK, JobStates
<1>2. OneLaunch' /\ NoLostWaiter'
  BY DEF Inv, OneLaunch, NoLostWaiter, LaunchLive, InFlight
<1>3. LockIsHeld'
  BY DEF Inv, LockIsHeld, Inside
<1>4. NoDoubleUnwind' /\ StackOwnsContext' /\ PageIsUp' /\ NotEntered'
  BY DEF Inv, NoDoubleUnwind, StackOwnsContext, PageIsUp, NotEntered
<1>5. JarLimit' /\ RoomInJar' /\ ResetStillDue'
  BY DEF Inv, JarLimit, RoomInJar, ResetStillDue, Inside, ResetDue
<1>6. ClosedIsSet'
  BY DEF Inv, ClosedIsSet
<1> QED BY <1>1, <1>2, <1>3, <1>4, <1>5, <1>6 DEF Inv

LEMMA AcquireInv ==
  ASSUME Inv, NEW j \in Jobs, Acquire(j)
  PROVE  Inv'
<1> USE BrowserAssumption, NextEngineIsFresh
    DEF Acquire, LockFree, Teardown, NewGeneration, Fetch, EnsureLaunch,
        StartLaunch, mainVars, ownVars, jobVars, profileVars, recVars,
        launchVars, engineVars
<1>1. TypeOK'
  <2>1. CASE ~ResetDue
    <3>1. job' \in [Jobs -> JobStates] /\ jobOn' \in [Jobs -> Engines \cup {NoEngine}]
      BY <2>1 DEF Inv, TypeOK, JobStates
    <3>2. /\ launch' \in [Engines -> LaunchStates] /\ engineGen' \in [Engines -> Nat]
          /\ launching' \in Engines \cup {NoEngine}
      BY <2>1 DEF Inv, TypeOK, LaunchStates
    <3>3. \A i \in Jobs : job'[i] \in {"crawling", "resetting"} => jobOn'[i] \in Engines
      BY <2>1 DEF Inv, TypeOK, IsReady
    <3> QED BY <2>1, <3>1, <3>2, <3>3 DEF Inv, TypeOK
  <2>2. CASE ResetDue /\ stack # NoEngine
    BY <2>2 DEF Inv, TypeOK, JobStates
  <2>3. CASE ResetDue /\ stack = NoEngine
    BY <2>3 DEF Inv, TypeOK, JobStates, LaunchStates
  <2> QED BY <2>1, <2>2, <2>3
<1>2. OneLaunch' /\ NoLostWaiter'
  BY DEF Inv, TypeOK, OneLaunch, NoLostWaiter, LaunchLive, InFlight
<1>3. LockIsHeld'
  BY DEF Inv, TypeOK, LockIsHeld, Inside
<1>4. NoDoubleUnwind' /\ StackOwnsContext' /\ PageIsUp' /\ NotEntered'
  BY DEF Inv, TypeOK, NoDoubleUnwind, StackOwnsContext, PageIsUp, NotEntered
<1>5. JarLimit' /\ RoomInJar' /\ ResetStillDue'
  BY DEF Inv, TypeOK, LockIsHeld, JarLimit, RoomInJar, ResetStillDue, Inside,
         ResetDue
<1>6. ClosedIsSet'
  BY DEF Inv, ClosedIsSet
<1> QED BY <1>1, <1>2, <1>3, <1>4, <1>5, <1>6 DEF Inv

LEMMA ResetDoneInv ==
  ASSUME Inv, NEW j \in Jobs, ResetDone(j)
  PROVE  Inv'
<1> USE BrowserAssumption, NextEngineIsFresh
    DEF ResetDone, NewGeneration, Fetch, EnsureLaunch, StartLaunch, mainVars,
        ownVars, jobVars, profileVars, recVars, launchVars, engineVars
<1>1. TypeOK'
  <2>1. job' \in [Jobs -> JobStates] /\ jobOn' \in [Jobs -> Engines \cup {NoEngine}]
    BY DEF Inv, TypeOK, JobStates
  <2>2. /\ launch' \in [Engines -> LaunchStates] /\ engineGen' \in [Engines -> Nat]
        /\ launching' \in Engines \cup {NoEngine}
    BY DEF Inv, TypeOK, LaunchStates
  <2>3. \A i \in Jobs : job'[i] \in {"crawling", "resetting"} => jobOn'[i] \in Engines
    BY DEF Inv, TypeOK, IsReady
  <2> QED BY <2>1, <2>2, <2>3 DEF Inv, TypeOK
<1>2. OneLaunch' /\ NoLostWaiter'
  BY DEF Inv, TypeOK, OneLaunch, NoLostWaiter, LaunchLive, InFlight
<1>3. LockIsHeld'
  BY DEF Inv, TypeOK, LockIsHeld, Inside
<1>4. NoDoubleUnwind' /\ StackOwnsContext' /\ PageIsUp' /\ NotEntered'
  BY DEF Inv, TypeOK, NoDoubleUnwind, StackOwnsContext, PageIsUp, NotEntered
<1>5. JarLimit' /\ RoomInJar' /\ ResetStillDue'
  BY DEF Inv, TypeOK, LockIsHeld, JarLimit, RoomInJar, ResetStillDue, Inside
<1>6. ClosedIsSet'
  BY DEF Inv, ClosedIsSet
<1> QED BY <1>1, <1>2, <1>3, <1>4, <1>5, <1>6 DEF Inv

LEMMA ResumeInv ==
  ASSUME Inv, NEW j \in Jobs, Resume(j)
  PROVE  Inv'
<1> USE BrowserAssumption
    DEF Resume, Leave, mainVars, ownVars, jobVars, profileVars, recVars,
        launchVars, engineVars
<1>1. TypeOK'
  BY DEF Inv, TypeOK, JobStates
<1>2. OneLaunch' /\ NoLostWaiter'
  BY DEF Inv, TypeOK, OneLaunch, NoLostWaiter, LaunchLive, InFlight
<1>3. LockIsHeld'
  BY DEF Inv, TypeOK, LockIsHeld, Inside
<1>4. NoDoubleUnwind' /\ StackOwnsContext' /\ PageIsUp' /\ NotEntered'
  BY DEF Inv, NoDoubleUnwind, StackOwnsContext, PageIsUp, NotEntered
<1>5. JarLimit' /\ RoomInJar' /\ ResetStillDue'
  BY DEF Inv, TypeOK, LockIsHeld, JarLimit, RoomInJar, ResetStillDue, Inside
<1>6. ClosedIsSet'
  BY DEF Inv, ClosedIsSet
<1> QED BY <1>1, <1>2, <1>3, <1>4, <1>5, <1>6 DEF Inv

LEMMA CrawlEndsInv ==
  ASSUME Inv, NEW j \in Jobs, NEW outcome \in {"ok", "failed"}, CrawlEnds(j, outcome)
  PROVE  Inv'
<1> USE BrowserAssumption
    DEF CrawlEnds, Leave, mainVars, ownVars, jobVars, profileVars, recVars,
        launchVars, engineVars
<1>1. TypeOK'
  BY DEF Inv, TypeOK, JobStates
<1>2. OneLaunch' /\ NoLostWaiter'
  BY DEF Inv, OneLaunch, NoLostWaiter, LaunchLive, InFlight
<1>3. LockIsHeld'
  BY DEF Inv, TypeOK, LockIsHeld, Inside
<1>4. NoDoubleUnwind' /\ StackOwnsContext' /\ PageIsUp' /\ NotEntered'
  BY DEF Inv, NoDoubleUnwind, StackOwnsContext, PageIsUp, NotEntered
<1>5. JarLimit' /\ RoomInJar' /\ ResetStillDue'
  BY DEF Inv, TypeOK, LockIsHeld, JarLimit, RoomInJar, ResetStillDue, Inside
<1>6. ClosedIsSet'
  BY DEF Inv, ClosedIsSet
<1> QED BY <1>1, <1>2, <1>3, <1>4, <1>5, <1>6 DEF Inv

LEMMA CrashInv ==
  ASSUME Inv, NEW e \in Engines, Crash(e)
  PROVE  Inv'
<1> USE BrowserAssumption
    DEF Crash, Fault, Teardown, mainVars, ownVars, jobVars, profileVars,
        recVars, launchVars, engineVars
<1>1. TypeOK'
  BY DEF Inv, TypeOK
<1>2. OneLaunch' /\ NoLostWaiter'
  BY DEF Inv, TypeOK, OneLaunch, NoLostWaiter, LaunchLive, InFlight
<1>3. LockIsHeld'
  BY DEF Inv, LockIsHeld
<1>4. NoDoubleUnwind' /\ StackOwnsContext' /\ PageIsUp' /\ NotEntered'
  BY DEF Inv, TypeOK, NoDoubleUnwind, StackOwnsContext, PageIsUp, NotEntered
<1>5. JarLimit' /\ RoomInJar' /\ ResetStillDue'
  BY DEF Inv, JarLimit, RoomInJar, ResetStillDue, ResetDue
<1>6. ClosedIsSet'
  BY DEF Inv, ClosedIsSet
<1> QED BY <1>1, <1>2, <1>3, <1>4, <1>5, <1>6 DEF Inv

LEMMA ContextClosesInv ==
  ASSUME Inv, NEW e \in Engines, ContextCloses(e)
  PROVE  Inv'
<1> USE BrowserAssumption
    DEF ContextCloses, Fault, OnContextClosed, mainVars, ownVars, jobVars,
        profileVars, recVars, launchVars, engineVars
<1>1. TypeOK'
  BY DEF Inv, TypeOK
<1>2. OneLaunch' /\ NoLostWaiter'
  BY DEF Inv, OneLaunch, NoLostWaiter, LaunchLive, InFlight
<1>3. LockIsHeld'
  BY DEF Inv, LockIsHeld
<1>4. NoDoubleUnwind' /\ StackOwnsContext' /\ PageIsUp' /\ NotEntered'
  BY DEF Inv, NoDoubleUnwind, StackOwnsContext, PageIsUp, NotEntered
<1>5. JarLimit' /\ RoomInJar' /\ ResetStillDue'
  BY DEF Inv, JarLimit, RoomInJar, ResetStillDue, ResetDue
<1>6. ClosedIsSet'
  BY DEF Inv, ClosedIsSet
<1> QED BY <1>1, <1>2, <1>3, <1>4, <1>5, <1>6 DEF Inv

LEMMA AcloseDoneInv ==
  ASSUME Inv, NEW e \in Engines, AcloseDone(e)
  PROVE  Inv'
<1> USE BrowserAssumption
    DEF AcloseDone, OnContextClosed, mainVars, ownVars, jobVars, profileVars,
        recVars, launchVars, engineVars
<1>1. TypeOK'
  BY DEF Inv, TypeOK
<1>2. OneLaunch' /\ NoLostWaiter'
  BY DEF Inv, OneLaunch, NoLostWaiter, LaunchLive, InFlight
<1>3. LockIsHeld'
  BY DEF Inv, LockIsHeld
<1>4. NoDoubleUnwind' /\ StackOwnsContext' /\ PageIsUp' /\ NotEntered'
  BY DEF Inv, NoDoubleUnwind, StackOwnsContext, PageIsUp, NotEntered
<1>5. JarLimit' /\ RoomInJar' /\ ResetStillDue'
  BY DEF Inv, JarLimit, RoomInJar, ResetStillDue, ResetDue
<1>6. ClosedIsSet'
  BY DEF Inv, ClosedIsSet
<1> QED BY <1>1, <1>2, <1>3, <1>4, <1>5, <1>6 DEF Inv

LEMMA RecoverUnwoundInv ==
  ASSUME Inv, NEW e \in Engines, RecoverUnwound(e)
  PROVE  Inv'
<1> USE BrowserAssumption
    DEF RecoverUnwound, mainVars, ownVars, jobVars, profileVars, recVars,
        launchVars, engineVars
<1>1. TypeOK'
  BY DEF Inv, TypeOK
<1>2. OneLaunch' /\ NoLostWaiter'
  BY DEF Inv, OneLaunch, NoLostWaiter, LaunchLive, InFlight
<1>3. LockIsHeld'
  BY DEF Inv, LockIsHeld
<1>4. NoDoubleUnwind' /\ StackOwnsContext' /\ PageIsUp' /\ NotEntered'
  BY DEF Inv, NoDoubleUnwind, StackOwnsContext, PageIsUp, NotEntered
<1>5. JarLimit' /\ RoomInJar' /\ ResetStillDue'
  BY DEF Inv, JarLimit, RoomInJar, ResetStillDue, ResetDue
<1>6. ClosedIsSet'
  BY DEF Inv, ClosedIsSet
<1> QED BY <1>1, <1>2, <1>3, <1>4, <1>5, <1>6 DEF Inv

LEMMA RecoverWakesInv ==
  ASSUME Inv, NEW e \in Engines, RecoverWakes(e)
  PROVE  Inv'
<1> USE BrowserAssumption, NextEngineIsFresh
    DEF RecoverWakes, EnsureLaunch, StartLaunch, mainVars, ownVars, jobVars,
        profileVars, recVars, launchVars, engineVars
<1>1. TypeOK'
  BY DEF Inv, TypeOK, LaunchStates
<1>2. OneLaunch' /\ NoLostWaiter'
  BY DEF Inv, TypeOK, OneLaunch, NoLostWaiter, LaunchLive, InFlight
<1>3. LockIsHeld'
  BY DEF Inv, LockIsHeld
<1>4. NoDoubleUnwind' /\ StackOwnsContext' /\ PageIsUp' /\ NotEntered'
  BY DEF Inv, TypeOK, NoDoubleUnwind, StackOwnsContext, PageIsUp, NotEntered
<1>5. JarLimit' /\ RoomInJar' /\ ResetStillDue'
  BY DEF Inv, JarLimit, RoomInJar, ResetStillDue, ResetDue
<1>6. ClosedIsSet'
  BY DEF Inv, ClosedIsSet
<1> QED BY <1>1, <1>2, <1>3, <1>4, <1>5, <1>6 DEF Inv

(* Every step keeps the inductive invariant.                               *)
LEMMA NextInv == Inv /\ [Next]_vars => Inv'
<1> SUFFICES ASSUME Inv, [Next]_vars PROVE Inv'
  OBVIOUS
<1>1. CASE MainStep
  BY <1>1, BootInv, StopInv, CloseBrowserInv, ExitInv, ShutdownTimesOutInv
  DEF MainStep
<1>2. ASSUME NEW j \in Jobs, Submit(j) \/ JobStep(j)
      PROVE  Inv'
  BY <1>2, SubmitInv, AcquireInv, ResetDoneInv, ResumeInv, CrawlEndsInv
  DEF JobStep
<1>3. ASSUME NEW e \in Engines, LaunchStep(e)
      PROVE  Inv'
  BY <1>3, EnterInv, EnterFailsInv, NewPageInv, NewPageFailsInv, SubscribeInv,
     CancelledInv DEF LaunchStep
<1>4. ASSUME NEW e \in Engines, RecoverStep(e) \/ EngineFault(e) \/ AcloseDone(e)
      PROVE  Inv'
  BY <1>4, RecoverUnwoundInv, RecoverWakesInv, CrashInv, ContextClosesInv,
     AcloseDoneInv DEF RecoverStep, EngineFault
<1>5. CASE UNCHANGED vars
  BY <1>5
  DEF vars, mainVars, ownVars, jobVars, profileVars, recVars, launchVars,
     engineVars, Inv, TypeOK, OneLaunch, NoLostWaiter, LockIsHeld, NoDoubleUnwind,
     StackOwnsContext, PageIsUp, JarLimit, NotEntered, RoomInJar, ResetStillDue,
     ResetDue, LaunchLive, InFlight, ClosedIsSet
<1> QED BY <1>1, <1>2, <1>3, <1>4, <1>5 DEF Next, Terminated

-----------------------------------------------------------------------------
(* The invariant that carries the results below holds in every state.      *)
THEOREM Invariance == Spec => []Inv
<1>1. Init => Inv
  BY InitInv
<1>2. Inv /\ [Next]_vars => Inv'
  BY NextInv
<1> QED BY <1>1, <1>2, PTL DEF Spec

(* Type correctness; a job that crawls has a page to crawl in.             *)
THEOREM TypeCorrect == Spec => []TypeOK
<1>1. Inv => TypeOK
  BY DEF Inv
<1> QED BY <1>1, Invariance, PTL

(* Whatever mix of jobs and crash recoveries calls ensure_browser, one     *)
(* launch is in flight.                                                    *)
THEOREM LaunchIsShared == Spec => []OneLaunch
<1>1. Inv => OneLaunch
  BY DEF Inv
<1> QED BY <1>1, Invariance, PTL

(* The manager can close the context it serves from, and _recover, the     *)
(* reset and close() unwind no engine twice.                               *)
THEOREM StackIsOwned == Spec => []StackOwnership
<1>1. Inv => StackOwnership
  BY DEF Inv, StackOwnership
<1> QED BY <1>1, Invariance, PTL

(* A jar serves at most MEERKLY_PROFILE_RESET_JOBS crawls.                 *)
THEOREM JarIsBounded == Spec => []JarLimit
<1>1. Inv => JarLimit
  BY DEF Inv
<1> QED BY <1>1, Invariance, PTL

(* Once close() runs, no task brings another engine up.                    *)
THEOREM NothingAfterClose == Spec => NoLaunchAfterClose
<1> DEFINE Down == main \in {"closing", "exited"}
           Kept == \A e \in Engines : Down /\ launch[e] = "none"
                                          => launch'[e] = "none"
<1>1. Inv /\ [Next]_vars => Kept
  <2> SUFFICES ASSUME Inv, [Next]_vars, Down, NEW e \in Engines,
                      launch[e] = "none"
               PROVE  launch'[e] = "none"
    OBVIOUS
  <2> USE
      DEF mainVars, ownVars, jobVars, profileVars, recVars, launchVars,
          engineVars
  <2>1. CASE MainStep
    BY <2>1 DEF MainStep, Boot, Stop, CloseBrowser, Exit, ShutdownTimesOut
  <2>2. ASSUME NEW f \in Engines, LaunchStep(f)
        PROVE  launch'[e] = "none"
    BY <2>2 DEF LaunchStep, Enter, EnterFails, NewPage, NewPageFails, Subscribe,
                Cancelled, LaunchEnds, Inv, TypeOK
  <2>3. ASSUME NEW f \in Engines, RecoverStep(f) \/ EngineFault(f) \/ AcloseDone(f)
        PROVE  launch'[e] = "none"
    BY <2>3 DEF RecoverStep, RecoverUnwound, RecoverWakes, EngineFault, Crash,
                ContextCloses, AcloseDone, Running, Inv, ClosedIsSet
  <2>4. ASSUME NEW j \in Jobs, Submit(j) \/ JobStep(j)
        PROVE  launch'[e] = "none"
    BY <2>4 DEF Submit, JobStep, Acquire, ResetDone, Resume, CrawlEnds, Fetch,
                Running, Inv, ClosedIsSet
  <2>5. CASE UNCHANGED vars
    BY <2>5 DEF vars
  <2> QED BY <2>1, <2>2, <2>3, <2>4, <2>5 DEF Next, Terminated
<1>2. Inv /\ [Next]_vars => [Kept]_vars
  BY <1>1
<1> QED BY <1>2, Invariance, PTL DEF Spec, NoLaunchAfterClose

-----------------------------------------------------------------------------
(* The steps outside navigate_and_extract that leave the profile alone.    *)
LEMMA ProfileStep ==
  ASSUME [Next]_vars, generation' # generation
  PROVE  \E j \in Jobs : Acquire(j) \/ ResetDone(j)
<1> USE
    DEF mainVars, ownVars, jobVars, profileVars, recVars, launchVars,
        engineVars
<1>1. CASE MainStep
  BY <1>1 DEF MainStep, Boot, Stop, CloseBrowser, Exit, ShutdownTimesOut
<1>2. ASSUME NEW e \in Engines, LaunchStep(e)
      PROVE  FALSE
  BY <1>2 DEF LaunchStep, Enter, EnterFails, NewPage, NewPageFails, Subscribe,
              Cancelled, LaunchEnds
<1>3. ASSUME NEW e \in Engines, RecoverStep(e) \/ EngineFault(e) \/ AcloseDone(e)
      PROVE  FALSE
  BY <1>3 DEF RecoverStep, RecoverUnwound, RecoverWakes, EngineFault, Crash,
              ContextCloses, AcloseDone
<1>4. ASSUME NEW j \in Jobs, Submit(j) \/ JobStep(j)
      PROVE  Acquire(j) \/ ResetDone(j)
  BY <1>4 DEF Submit, JobStep, Resume, CrawlEnds
<1>5. CASE UNCHANGED vars
  BY <1>5 DEF vars
<1> QED BY <1>1, <1>2, <1>3, <1>4, <1>5 DEF Next, Terminated

(* The reset happens between crawls, never under one.                      *)
LEMMA ResetBetweenCrawls ==
  ASSUME Inv, [Next]_vars, generation' # generation
  PROVE  \A j \in Jobs : job[j] # "crawling"
<1>1. PICK j \in Jobs : Acquire(j) \/ ResetDone(j)
  BY ProfileStep
<1>2. CASE Acquire(j)
  BY <1>2, BrowserAssumption DEF Acquire, LockFree, Inv, LockIsHeld, Inside
<1>3. CASE ResetDone(j)
  BY <1>3 DEF ResetDone, Inv, LockIsHeld, Inside
<1> QED BY <1>1, <1>2, <1>3

(* A crawl starts on a page whose engine is up, although _page is read     *)
(* only after the awaits of the reset and of the launch.                   *)
THEOREM CrawlStartsOnLivePage == Spec => CrawlStartsUp
<1> DEFINE StartsUp(j) == job[j] # "crawling" /\ job'[j] = "crawling"
                            => jobOn'[j] \in Engines /\ browser'[jobOn'[j]] = "up"
<1>1. ASSUME Inv, [Next]_vars, NEW j \in Jobs
      PROVE  StartsUp(j)
  <2> USE <1>1
    DEF mainVars, ownVars, jobVars, profileVars, recVars, launchVars,
        engineVars
  <2>1. CASE MainStep
    BY <2>1 DEF MainStep, Boot, Stop, CloseBrowser, Exit, ShutdownTimesOut
  <2>2. ASSUME NEW e \in Engines, LaunchStep(e)
        PROVE  StartsUp(j)
    BY <2>2
    DEF LaunchStep, Enter, EnterFails, NewPage, NewPageFails, Subscribe,
        Cancelled, LaunchEnds, Wake
  <2>3. ASSUME NEW e \in Engines, RecoverStep(e) \/ EngineFault(e) \/ AcloseDone(e)
        PROVE  StartsUp(j)
    BY <2>3 DEF RecoverStep, RecoverUnwound, RecoverWakes, EngineFault, Crash,
                ContextCloses, AcloseDone
  <2>4. ASSUME NEW i \in Jobs, Acquire(i) \/ ResetDone(i)
        PROVE  StartsUp(j)
    BY <2>4 DEF Acquire, ResetDone, Fetch, IsReady, Inv, TypeOK
  <2>5. ASSUME NEW i \in Jobs, Resume(i)
        PROVE  StartsUp(j)
    BY <2>5 DEF Resume, Leave, Inv, TypeOK, PageIsUp
  <2>6. ASSUME NEW i \in Jobs, NEW outcome \in {"ok", "failed"},
               Submit(i) \/ CrawlEnds(i, outcome)
        PROVE  StartsUp(j)
    BY <2>6 DEF Submit, CrawlEnds, Leave, Inv, TypeOK
  <2>7. CASE UNCHANGED vars
    BY <2>7 DEF vars
  <2> QED BY <2>1, <2>2, <2>3, <2>4, <2>5, <2>6, <2>7 DEF Next, Terminated, JobStep
<1>2. Inv /\ [Next]_vars => [\A j \in Jobs : StartsUp(j)]_vars
  BY <1>1
<1> QED BY <1>2, Invariance, PTL DEF Spec, CrawlStartsUp

-----------------------------------------------------------------------------
(* How far a session id may lag behind the jar (SidInv).                   *)

LEMMA InitSid == Init => SidInv
BY BrowserAssumption
DEF Init, SidInv, BootIsFirst, JobsWhileServing, ClosedAtTheEnd, EnterUnready,
    NewPageOnStack, UpIsNotClosed, LaunchNear, MaySetPage, PageNear, SidNearJar,
    Inside

(* Start-up and shutdown: what main leaves behind it has no job under way. *)
LEMMA MainSid ==
  ASSUME Inv, SidInv, MainStep
  PROVE  SidInv'
<1> USE BrowserAssumption, NextEngineIsFresh
    DEF MainStep, Boot, Stop, CloseBrowser, Exit, ShutdownTimesOut, Teardown,
        EnsureLaunch, StartLaunch, mainVars, ownVars, jobVars, profileVars,
        recVars, launchVars, engineVars
<1>1. BootIsFirst' /\ JobsWhileServing' /\ ClosedAtTheEnd'
  BY DEF Inside, SidInv, BootIsFirst, JobsWhileServing, ClosedAtTheEnd
<1>2. EnterUnready'
  BY DEF Inv, TypeOK, SidInv, BootIsFirst, EnterUnready
<1>3. NewPageOnStack' /\ UpIsNotClosed'
  BY DEF Inv, TypeOK, SidInv, NewPageOnStack, UpIsNotClosed
<1>4. LaunchNear'
  BY DEF Inv, TypeOK, SidInv, LaunchNear, Near, MaySetPage, Behind, Joined
<1>5. PageNear'
  BY DEF Inv, TypeOK, SidInv, PageNear, Behind, Resetting
<1>6. SidNearJar'
  BY <1>5 DEF Inv, TypeOK, SidInv, SidNearJar, NearJar, Behind
<1> QED BY <1>1, <1>2, <1>3, <1>4, <1>5, <1>6 DEF SidInv

(* The engine that is entered is the one launch in flight.                 *)
LEMMA EnterSid ==
  ASSUME Inv, SidInv, NEW e \in Engines, Enter(e)
  PROVE  SidInv'
<1> USE BrowserAssumption
    DEF Enter, mainVars, ownVars, jobVars, profileVars, recVars, launchVars,
        engineVars
<1>1. BootIsFirst' /\ JobsWhileServing' /\ ClosedAtTheEnd'
  BY DEF SidInv, BootIsFirst, JobsWhileServing, ClosedAtTheEnd
<1>2. EnterUnready'
  BY DEF Inv, TypeOK, OneLaunch, InFlight, EnterUnready
<1>3. NewPageOnStack' /\ UpIsNotClosed'
  BY DEF Inv, OneLaunch, NotEntered, InFlight, SidInv, NewPageOnStack,
         UpIsNotClosed
<1>4. LaunchNear'
  BY DEF SidInv, LaunchNear, Near, MaySetPage, Behind, Joined, Resetting
<1>5. PageNear'
  BY DEF SidInv, PageNear, Behind, Resetting
<1>6. SidNearJar'
  BY <1>5 DEF SidInv, SidNearJar, NearJar, Behind
<1> QED BY <1>1, <1>2, <1>3, <1>4, <1>5, <1>6 DEF SidInv

(* The page that is set is as near as its launch was.                      *)
LEMMA NewPageSid ==
  ASSUME Inv, SidInv, NEW e \in Engines, NewPage(e)
  PROVE  SidInv'
<1> USE BrowserAssumption
    DEF NewPage, mainVars, ownVars, jobVars, profileVars, recVars, launchVars,
        engineVars
<1>1. BootIsFirst' /\ JobsWhileServing' /\ ClosedAtTheEnd'
  BY DEF SidInv, BootIsFirst, JobsWhileServing, ClosedAtTheEnd
<1>2. EnterUnready'
  BY DEF Inv, OneLaunch, InFlight, EnterUnready
<1>3. NewPageOnStack' /\ UpIsNotClosed'
  BY DEF SidInv, NewPageOnStack, UpIsNotClosed
<1>4. LaunchNear'
  BY DEF Inv, TypeOK, OneLaunch, InFlight, LaunchNear, MaySetPage
<1>5. PageNear'
  BY DEF Inv, LockIsHeld, Inside, SidInv, JobsWhileServing, LaunchNear, Near,
         MaySetPage, PageNear, Behind, Joined, Resetting
<1>6. SidNearJar'
  BY <1>5 DEF SidInv, PageNear, SidNearJar, NearJar, Behind
<1> QED BY <1>1, <1>2, <1>3, <1>4, <1>5, <1>6 DEF SidInv

(* A launch that ends sets no page any more; its job is done waiting.      *)
LEMMA LaunchEndsSid ==
  ASSUME Inv, SidInv, NEW e \in Engines,
         EnterFails(e) \/ NewPageFails(e) \/ Subscribe(e) \/ Cancelled(e)
  PROVE  SidInv'
<1> USE BrowserAssumption
    DEF EnterFails, NewPageFails, Subscribe, Cancelled, Fault, LaunchEnds,
        Wake, mainVars, ownVars, jobVars, profileVars, recVars, launchVars,
        engineVars
<1>1. BootIsFirst' /\ JobsWhileServing' /\ ClosedAtTheEnd'
  BY DEF Inside, SidInv, BootIsFirst, JobsWhileServing, ClosedAtTheEnd
<1>2. EnterUnready'
  BY DEF Inv, TypeOK, SidInv, EnterUnready
<1>3. NewPageOnStack' /\ UpIsNotClosed'
  BY DEF Inv, TypeOK, SidInv, NewPageOnStack, UpIsNotClosed
<1>4. LaunchNear'
  BY DEF Inv, TypeOK, OneLaunch, InFlight, LaunchNear, MaySetPage
<1>5. PageNear'
  BY DEF SidInv, PageNear, Behind, Resetting
<1>6. SidNearJar'
  BY <1>5 DEF SidInv, SidNearJar, NearJar, Behind
<1> QED BY <1>1, <1>2, <1>3, <1>4, <1>5, <1>6 DEF SidInv

(* A job that comes, resumes or leaves moves no session id and no jar.     *)
LEMMA JobSid ==
  ASSUME Inv, SidInv, NEW j \in Jobs, NEW outcome \in {"ok", "failed"},
         Submit(j) \/ Resume(j) \/ CrawlEnds(j, outcome)
  PROVE  SidInv'
<1> USE BrowserAssumption
    DEF Submit, Resume, CrawlEnds, Leave, mainVars, ownVars, jobVars,
        profileVars, recVars, launchVars, engineVars
<1>1. BootIsFirst' /\ JobsWhileServing' /\ ClosedAtTheEnd'
  BY DEF Inside, SidInv, BootIsFirst, JobsWhileServing, ClosedAtTheEnd
<1>2. EnterUnready'
  BY DEF SidInv, EnterUnready
<1>3. NewPageOnStack' /\ UpIsNotClosed'
  BY DEF SidInv, NewPageOnStack, UpIsNotClosed
<1>4. LaunchNear'
  BY DEF Inv, TypeOK, SidInv, LaunchNear, Near, MaySetPage, Behind, Joined,
         Resetting
<1>5. PageNear'
  BY DEF Inv, TypeOK, SidInv, PageNear, Behind, Resetting
<1>6. SidNearJar'
  BY <1>5 DEF Inv, TypeOK, SidInv, SidNearJar, NearJar, Behind
<1> QED BY <1>1, <1>2, <1>3, <1>4, <1>5, <1>6 DEF SidInv

(* A job that takes the lock: it crawls, starts to tear down, or, with     *)
(* nothing to tear down, resets at once.                                   *)
LEMMA AcquireSid ==
  ASSUME Inv, SidInv, NEW j \in Jobs, Acquire(j)
  PROVE  SidInv'
<1> USE BrowserAssumption, NextEngineIsFresh
   
        DEF Acquire, LockFree, Teardown, NewGeneration, Fetch, EnsureLaunch,
            StartLaunch, mainVars, ownVars, jobVars, profileVars, recVars,
            launchVars, engineVars
<1>1. BootIsFirst' /\ JobsWhileServing' /\ ClosedAtTheEnd'
  BY DEF SidInv, BootIsFirst, JobsWhileServing, ClosedAtTheEnd
<1>2. EnterUnready'
  BY DEF Inv, SidInv, EnterUnready, IsReady, PageIsUp
<1>3. NewPageOnStack' /\ UpIsNotClosed'
  BY DEF Inv, TypeOK, SidInv, NewPageOnStack, UpIsNotClosed
<1>4. LaunchNear'
  <2> SUFFICES ASSUME NEW e \in Engines, MaySetPage(e)'
               PROVE  Near(e)'
    BY DEF LaunchNear
  <2> USE DEF Near
  <2>1. ~Joined /\ ~Resetting /\ main = "serving" /\ ~closed
    BY DEF Inv, LockIsHeld, SidInv, JobsWhileServing, ClosedAtTheEnd, Joined,
           Resetting, Inside
  <2>2. CASE launch[e] = "none"
    BY <2>2 DEF Inv, TypeOK, MaySetPage, Behind
  <2>3. CASE launch[e] # "none"
    <3>1. launch'[e] = launch[e] /\ engineGen'[e] = engineGen[e]
      BY <2>3 DEF Inv, TypeOK
    <3>2. Behind(e) = 0 \/ (Behind(e) = 1 /\ launch[e] = "newpage")
      BY <2>1, <3>1 DEF SidInv, LaunchNear, MaySetPage
    <3>3. CASE ~ResetDue
      <4>1. ~Resetting' /\ Behind(e)' = Behind(e)
        BY <2>1, <3>1, <3>3 DEF Inv, TypeOK, Resetting, Behind
      <4> QED BY <3>1, <3>2, <4>1
    <3>4. CASE ResetDue /\ stack # NoEngine
      <4>1. Behind(e)' = Behind(e) /\ page' = NoEngine
        BY <3>1, <3>4 DEF Behind
      <4>2. launch[e] = "newpage" => exit'[e] # "open"
        BY <3>4 DEF Inv, TypeOK, SidInv, NewPageOnStack
      <4> QED BY <3>1, <3>2, <4>1, <4>2
    <3>5. CASE ResetDue /\ stack = NoEngine
      <4>1. Behind(e)' = Behind(e) + 1 /\ Joined'
        BY <2>1, <3>1, <3>5 DEF Inv, TypeOK, Behind, Joined
      <4>2. launch[e] = "newpage" => exit'[e] # "open"
        BY <3>5 DEF SidInv, NewPageOnStack
      <4> QED BY <3>1, <3>2, <4>1, <4>2
    <3> QED BY <3>3, <3>4, <3>5
  <2> QED BY <2>2, <2>3
<1>5. PageNear'
  BY <1>1, <1>2, <1>3 DEF Inv, TypeOK, SidInv, PageNear, Behind, Resetting
<1>6. SidNearJar'
  <2>1. \A i \in Jobs : job'[i] = "crawling" => jobOn'[i] = page' /\ page' # NoEngine
    BY DEF Inv, TypeOK, LockIsHeld, Inside, IsReady
  <2>2. (page # NoEngine => NearJar(page))'
    BY <1>5 DEF PageNear, NearJar
  <2> QED BY <2>1, <2>2 DEF SidNearJar
<1> QED BY <1>1, <1>2, <1>3, <1>4, <1>5, <1>6 DEF SidInv

(* The reset: every page and every launch is one more jar behind.          *)
LEMMA ResetDoneSid ==
  ASSUME Inv, SidInv, NEW j \in Jobs, ResetDone(j)
  PROVE  SidInv'
<1> USE BrowserAssumption, NextEngineIsFresh
   
        DEF ResetDone, NewGeneration, Fetch, EnsureLaunch, StartLaunch,
            mainVars, ownVars, jobVars, profileVars, recVars, launchVars,
            engineVars
<1>1. BootIsFirst' /\ JobsWhileServing' /\ ClosedAtTheEnd'
  BY DEF SidInv, BootIsFirst, JobsWhileServing, ClosedAtTheEnd, Inside
<1>2. EnterUnready'
  BY DEF Inv, SidInv, EnterUnready, IsReady, PageIsUp
<1>3. NewPageOnStack' /\ UpIsNotClosed'
  BY DEF Inv, TypeOK, SidInv, NewPageOnStack, UpIsNotClosed
<1>4. LaunchNear'
  <2> SUFFICES ASSUME NEW e \in Engines, MaySetPage(e)'
               PROVE  Near(e)'
    BY DEF LaunchNear
  <2> USE DEF Near
  <2>1. ~Joined /\ Resetting /\ main = "serving" /\ ~closed
    BY DEF Inv, LockIsHeld, SidInv, JobsWhileServing, ClosedAtTheEnd, Joined,
           Resetting, Inside
  <2>2. CASE launch[e] = "none"
    BY <2>2 DEF Inv, TypeOK, MaySetPage, Behind
  <2>3. CASE launch[e] # "none"
    <3>1. /\ launch'[e] = launch[e] /\ Behind(e)' = Behind(e) + 1
          /\ MaySetPage(e)
      BY <2>3 DEF Inv, TypeOK, Behind, MaySetPage
    <3>2. \/ Behind(e) = 0
          \/ /\ Behind(e) = 1 /\ launch[e] = "newpage"
             /\ page = NoEngine /\ exit[e] # "open"
      BY <2>1, <3>1 DEF SidInv, LaunchNear
    <3>3. CASE IsReady
      <4>1. ~Resetting'
        BY <2>1, <3>3 DEF Inv, TypeOK, LockIsHeld, Inside, Resetting
      <4>2. launch[e] = "newpage"
        BY <3>1, <3>3 DEF SidInv, EnterUnready, IsReady, MaySetPage
      <4> QED BY <3>1, <3>2, <3>3, <4>1, <4>2 DEF IsReady
    <3>4. CASE ~IsReady
      <4>1. Joined'
        BY <2>1, <3>4 DEF Inv, TypeOK, Joined
      <4> QED BY <3>1, <3>2, <4>1
    <3> QED BY <3>3, <3>4
  <2> QED BY <2>2, <2>3
<1>5. PageNear'
  BY <1>1, <1>2, <1>3
  DEF Inv, TypeOK, SidInv, PageNear, Behind, Resetting, LaunchLive, Inside,
      LockIsHeld, NoDoubleUnwind
<1>6. SidNearJar'
  <2>1. \A i \in Jobs : job'[i] = "crawling" => jobOn'[i] = page' /\ page' # NoEngine
    BY DEF Inv, TypeOK, LockIsHeld, Inside, IsReady
  <2>2. (page # NoEngine => NearJar(page))'
    BY <1>5 DEF PageNear, NearJar
  <2> QED BY <2>1, <2>2 DEF SidNearJar
<1> QED BY <1>1, <1>2, <1>3, <1>4, <1>5, <1>6 DEF SidInv

(* What happens to an engine only takes pages away.                        *)
LEMMA EngineSid ==
  ASSUME Inv, SidInv, NEW e \in Engines, EngineFault(e) \/ AcloseDone(e)
  PROVE  SidInv'
<1> USE BrowserAssumption
    DEF EngineFault, Crash, ContextCloses, AcloseDone, Fault, Teardown,
        OnContextClosed, mainVars, ownVars, jobVars, profileVars, recVars,
        launchVars, engineVars
<1>1. BootIsFirst' /\ JobsWhileServing' /\ ClosedAtTheEnd'
  BY DEF SidInv, BootIsFirst, JobsWhileServing, ClosedAtTheEnd
<1>2. EnterUnready'
  BY DEF SidInv, EnterUnready
<1>3. NewPageOnStack' /\ UpIsNotClosed'
  BY DEF Inv, TypeOK, SidInv, NewPageOnStack, UpIsNotClosed
<1>4. LaunchNear'
  BY DEF Inv, TypeOK, SidInv, LaunchNear, Near, MaySetPage, Behind, Joined,
         Resetting
<1>5. PageNear'
  BY DEF Inv, TypeOK, SidInv, PageNear, Behind, Resetting
<1>6. SidNearJar'
  BY <1>5 DEF Inv, TypeOK, SidInv, SidNearJar, NearJar, Behind
<1> QED BY <1>1, <1>2, <1>3, <1>4, <1>5, <1>6 DEF SidInv

(* A recovery launches with the session id of the day.                     *)
LEMMA RecoverSid ==
  ASSUME Inv, SidInv, NEW e \in Engines, RecoverStep(e)
  PROVE  SidInv'
<1> USE BrowserAssumption, NextEngineIsFresh
    DEF RecoverStep, RecoverUnwound, RecoverWakes, EnsureLaunch, StartLaunch,
        mainVars, ownVars, jobVars, profileVars, recVars, launchVars,
        engineVars
<1>1. BootIsFirst' /\ JobsWhileServing' /\ ClosedAtTheEnd'
  BY DEF SidInv, BootIsFirst, JobsWhileServing, ClosedAtTheEnd
<1>2. EnterUnready'
  BY DEF Inv, PageIsUp, IsReady, SidInv, EnterUnready
<1>3. NewPageOnStack' /\ UpIsNotClosed'
  BY DEF Inv, TypeOK, SidInv, NewPageOnStack, UpIsNotClosed
<1>4. LaunchNear'
  BY DEF Inv, TypeOK, SidInv, LaunchNear, Near, MaySetPage, Behind, Joined,
         Resetting
<1>5. PageNear'
  BY DEF Inv, TypeOK, SidInv, PageNear, Behind, Resetting
<1>6. SidNearJar'
  BY <1>5 DEF Inv, TypeOK, SidInv, SidNearJar, NearJar, Behind
<1> QED BY <1>1, <1>2, <1>3, <1>4, <1>5, <1>6 DEF SidInv

LEMMA NextSid == Inv /\ SidInv /\ [Next]_vars => SidInv'
<1> SUFFICES ASSUME Inv, SidInv, [Next]_vars PROVE SidInv'
  OBVIOUS
<1>1. CASE MainStep
  BY <1>1, MainSid
<1>2. ASSUME NEW e \in Engines, LaunchStep(e)
      PROVE  SidInv'
  BY <1>2, EnterSid, NewPageSid, LaunchEndsSid DEF LaunchStep
<1>3. ASSUME NEW e \in Engines, RecoverStep(e) \/ EngineFault(e) \/ AcloseDone(e)
      PROVE  SidInv'
  BY <1>3, RecoverSid, EngineSid
<1>4. ASSUME NEW j \in Jobs, Submit(j) \/ JobStep(j)
      PROVE  SidInv'
  BY <1>4, JobSid, AcquireSid, ResetDoneSid DEF JobStep
<1>5. CASE UNCHANGED vars
  BY <1>5
  DEF vars, mainVars, ownVars, jobVars, profileVars, recVars, launchVars,
      engineVars, SidInv, BootIsFirst, JobsWhileServing, ClosedAtTheEnd,
      EnterUnready, NewPageOnStack, UpIsNotClosed, LaunchNear, Near, MaySetPage,
      PageNear, SidNearJar, NearJar, Behind, Joined, Resetting
<1> QED BY <1>1, <1>2, <1>3, <1>4, <1>5 DEF Next, Terminated

(* What follows a session id from the launch that fixed it to the page and *)
(* the crawls that use it, over every reset in between.                    *)
THEOREM SidInvariance == Spec => []SidInv
<1>1. Init => SidInv
  BY InitSid
<1>2. Inv /\ SidInv /\ [Next]_vars => SidInv'
  BY NextSid
<1> QED BY <1>1, <1>2, Invariance, PTL DEF Spec

(* The session id a page or a crawl runs with belongs to the jar in use or *)
(* to the one before; only an engine that was being unwound when it opened *)
(* its page may be two behind, and nothing is ever older.                  *)
THEOREM SessionNearJar == Spec => []SidNearJar
<1>1. SidInv => SidNearJar
  BY DEF SidInv
<1> QED BY <1>1, SidInvariance, PTL

-----------------------------------------------------------------------------
(* What tasks wait for.                                                    *)

LEMMA InitAwaited == Init => AwaitedIsUnderWay
BY InitInv DEF Init, Inv, AwaitedIsUnderWay, UnwindingAwaited, LockAwaited

(* What is being unwound does not go back.                                 *)
LEMMA ExitForward ==
  ASSUME Inv, [Next]_vars, NEW e \in Engines, exit[e] # "open"
  PROVE  exit'[e] # "open"
<1> USE
    DEF mainVars, ownVars, jobVars, profileVars, recVars, launchVars,
        engineVars
<1>1. CASE MainStep
  BY <1>1 DEF MainStep, Boot, Stop, CloseBrowser, Exit, ShutdownTimesOut,
              Teardown, Inv, TypeOK
<1>2. ASSUME NEW f \in Engines, LaunchStep(f)
      PROVE  exit'[e] # "open"
  BY <1>2 DEF LaunchStep, Enter, EnterFails, NewPage, NewPageFails, Subscribe,
              Cancelled
<1>3. ASSUME NEW f \in Engines, RecoverStep(f) \/ EngineFault(f) \/ AcloseDone(f)
      PROVE  exit'[e] # "open"
  BY <1>3 DEF RecoverStep, RecoverUnwound, RecoverWakes, EngineFault, Crash,
              ContextCloses, AcloseDone, Teardown, Inv, TypeOK
<1>4. ASSUME NEW j \in Jobs, Submit(j) \/ JobStep(j)
      PROVE  exit'[e] # "open"
  BY <1>4 DEF Submit, JobStep, Acquire, ResetDone, Resume, CrawlEnds, Teardown,
              Inv, TypeOK
<1>5. CASE UNCHANGED vars
  BY <1>5 DEF vars
<1> QED BY <1>1, <1>2, <1>3, <1>4, <1>5 DEF Next, Terminated

(* Whoever begins to await an aclose() has torn the engine down just then. *)
LEMMA NextAwaited ==
  ASSUME Inv, UnwindingAwaited, [Next]_vars
  PROVE  UnwindingAwaited'
<1> USE BrowserAssumption
    DEF mainVars, ownVars, jobVars, profileVars, recVars, launchVars,
        engineVars
<1>1. ASSUME NEW j \in Jobs, job'[j] = "resetting"
      PROVE  exit'[jobOn'[j]] # "open"
  <2>1. \/ job[j] = "resetting" /\ jobOn'[j] = jobOn[j]
        \/ jobOn'[j] \in Engines /\ exit'[jobOn'[j]] = "closing"
    <3>1. CASE MainStep
      BY <1>1, <3>1 DEF MainStep, Boot, Stop, CloseBrowser, Exit,
                        ShutdownTimesOut, Inv, TypeOK
    <3>2. ASSUME NEW f \in Engines, LaunchStep(f)
          PROVE  job[j] = "resetting" /\ jobOn'[j] = jobOn[j]
      BY <1>1, <3>2 DEF LaunchStep, Enter, EnterFails, NewPage, NewPageFails,
                        Subscribe, Cancelled, LaunchEnds, Wake, Inv, TypeOK
    <3>3. ASSUME NEW f \in Engines,
                 RecoverStep(f) \/ EngineFault(f) \/ AcloseDone(f)
          PROVE  job[j] = "resetting" /\ jobOn'[j] = jobOn[j]
      BY <1>1, <3>3 DEF RecoverStep, RecoverUnwound, RecoverWakes, EngineFault,
                        Crash, ContextCloses, AcloseDone
    <3>4. ASSUME NEW i \in Jobs, Acquire(i)
          PROVE  \/ job[j] = "resetting" /\ jobOn'[j] = jobOn[j]
                 \/ jobOn'[j] \in Engines /\ exit'[jobOn'[j]] = "closing"
      BY <1>1, <3>4 DEF Acquire, Teardown, Fetch, Inv, TypeOK
    <3>5. ASSUME NEW i \in Jobs, NEW outcome \in {"ok", "failed"},
                 Submit(i) \/ ResetDone(i) \/ Resume(i) \/ CrawlEnds(i, outcome)
          PROVE  job[j] = "resetting" /\ jobOn'[j] = jobOn[j]
      BY <1>1, <3>5 DEF Submit, ResetDone, Fetch, Resume, CrawlEnds, Leave, Inv,
                        TypeOK
    <3>6. CASE UNCHANGED vars
      BY <1>1, <3>6 DEF vars
    <3> QED BY <3>1, <3>2, <3>3, <3>4, <3>5, <3>6 DEF Next, Terminated, JobStep
  <2>2. job[j] = "resetting" => jobOn[j] \in Engines /\ exit[jobOn[j]] # "open"
    BY DEF Inv, TypeOK, UnwindingAwaited
  <2> QED BY <2>1, <2>2, ExitForward
<1>2. ASSUME NEW e \in Engines, recovery'[e] = "unwinding"
      PROVE  recoveryOn'[e] \in Engines /\ exit'[recoveryOn'[e]] # "open"
  <2>1. \/ recovery[e] = "unwinding" /\ recoveryOn'[e] = recoveryOn[e]
        \/ recoveryOn'[e] \in Engines /\ exit'[recoveryOn'[e]] = "closing"
    <3>1. CASE MainStep
      BY <1>2, <3>1 DEF MainStep, Boot, Stop, CloseBrowser, Exit,
                        ShutdownTimesOut
    <3>2. ASSUME NEW f \in Engines, LaunchStep(f)
          PROVE  recovery[e] = "unwinding" /\ recoveryOn'[e] = recoveryOn[e]
      BY <1>2, <3>2 DEF LaunchStep, Enter, EnterFails, NewPage, NewPageFails,
                        Subscribe, Cancelled, LaunchEnds, Wake, Inv, TypeOK
    <3>3. ASSUME NEW f \in Engines, Crash(f)
          PROVE  \/ recovery[e] = "unwinding" /\ recoveryOn'[e] = recoveryOn[e]
                 \/ recoveryOn'[e] \in Engines /\ exit'[recoveryOn'[e]] = "closing"
      BY <1>2, <3>3 DEF Crash, Teardown, Inv, TypeOK
    <3>4. ASSUME NEW f \in Engines,
                 RecoverStep(f) \/ ContextCloses(f) \/ AcloseDone(f)
          PROVE  recovery[e] = "unwinding" /\ recoveryOn'[e] = recoveryOn[e]
      BY <1>2, <3>4 DEF RecoverStep, RecoverUnwound, RecoverWakes,
                        ContextCloses, AcloseDone, Inv, TypeOK
    <3>5. ASSUME NEW i \in Jobs, Submit(i) \/ JobStep(i)
          PROVE  recovery[e] = "unwinding" /\ recoveryOn'[e] = recoveryOn[e]
      BY <1>2, <3>5 DEF Submit, JobStep, Acquire, ResetDone, Resume, CrawlEnds
    <3>6. CASE UNCHANGED vars
      BY <1>2, <3>6 DEF vars
    <3> QED BY <3>1, <3>2, <3>3, <3>4, <3>5, <3>6 DEF Next, Terminated,
                                                     EngineFault
  <2>2. recovery[e] = "unwinding" =>
          recoveryOn[e] \in Engines /\ exit[recoveryOn[e]] # "open"
    BY DEF UnwindingAwaited
  <2> QED BY <2>1, <2>2, ExitForward
<1>3. ASSUME main' = "closing", mainOn' # NoEngine
      PROVE  exit'[mainOn'] # "open"
  <2>1. \/ main = "closing" /\ mainOn' = mainOn
        \/ exit'[mainOn'] = "closing"
    <3>1. CASE MainStep
      BY <1>3, <3>1 DEF MainStep, Boot, Stop, CloseBrowser, Exit,
                        ShutdownTimesOut, Teardown, Inv, TypeOK
    <3>2. ASSUME NEW f \in Engines, LaunchStep(f)
          PROVE  main = "closing" /\ mainOn' = mainOn
      BY <1>3, <3>2 DEF LaunchStep, Enter, EnterFails, NewPage, NewPageFails,
                        Subscribe, Cancelled, LaunchEnds, Wake
    <3>3. ASSUME NEW f \in Engines,
                 RecoverStep(f) \/ EngineFault(f) \/ AcloseDone(f)
          PROVE  main = "closing" /\ mainOn' = mainOn
      BY <1>3, <3>3 DEF RecoverStep, RecoverUnwound, RecoverWakes, EngineFault,
                        Crash, ContextCloses, AcloseDone
    <3>4. ASSUME NEW i \in Jobs, Submit(i) \/ JobStep(i)
          PROVE  main = "closing" /\ mainOn' = mainOn
      BY <1>3, <3>4 DEF Submit, JobStep, Acquire, ResetDone, Resume, CrawlEnds
    <3>5. CASE UNCHANGED vars
      BY <1>3, <3>5 DEF vars
    <3> QED BY <3>1, <3>2, <3>3, <3>4, <3>5 DEF Next, Terminated
  <2>2. mainOn \in Engines \cup {NoEngine}
    BY DEF Inv, TypeOK
  <2> QED BY <1>3, <2>1, <2>2, ExitForward DEF UnwindingAwaited
<1> QED BY <1>1, <1>2, <1>3 DEF UnwindingAwaited

(* The start-up, a job, a recovery or the shutdown that awaits a launch or *)
(* an aclose() awaits one that is under way, and who waits for the lock    *)
(* has somebody inside to wait for: no task is stuck behind another.       *)
THEOREM NothingIsAwaitedInVain == Spec => []AwaitedIsUnderWay
<1>1. Init => AwaitedIsUnderWay
  BY InitAwaited
<1>2. Inv /\ Inv' /\ AwaitedIsUnderWay /\ [Next]_vars => AwaitedIsUnderWay'
  <2> SUFFICES ASSUME Inv, Inv', AwaitedIsUnderWay, [Next]_vars
               PROVE  AwaitedIsUnderWay'
    OBVIOUS
  <2>1. UnwindingAwaited'
    BY NextAwaited DEF AwaitedIsUnderWay
  <2>2. LockAwaited' /\ NoLostWaiter'
    BY DEF Inv, TypeOK, LockIsHeld, LockFree, LockAwaited
  <2> QED BY <2>1, <2>2 DEF AwaitedIsUnderWay
<1> QED BY <1>1, <1>2, Invariance, PTL DEF Spec

-----------------------------------------------------------------------------
(* Until the first fault of the engine.                                    *)

(* Start-up and shutdown: the first launch finds nothing there, and what   *)
(* the shutdown tears down it does not replace.                            *)
LEMMA MainAlone ==
  ASSUME Inv, SidInv, NoFaultYet, UNCHANGED faults, MainStep
  PROVE  NoFaultYet'
<1> USE BrowserAssumption, NextEngineIsFresh
    DEF MainStep, Boot, Stop, CloseBrowser, Exit, ShutdownTimesOut,
        Teardown, EnsureLaunch, StartLaunch, mainVars, ownVars, jobVars,
        profileVars, recVars, launchVars, engineVars
<1>1. NoRecovery'
  BY DEF NoFaultYet, NoRecovery
<1>2. LaunchAwaited'
  BY DEF Inv, TypeOK, NoFaultYet, OneLaunch, InFlight, LaunchAwaited, Ending
<1>3. DownForReset'
  BY DEF NoFaultYet, DownForReset, Resetting, Ending
<1>4. EnterAlone'
  BY DEF Inv, TypeOK, SidInv, NoFaultYet, NotEntered, BootIsFirst, EnterAlone
<1>5. Published'
  BY DEF Inv, TypeOK, SidInv, NoFaultYet, Inside, JobsWhileServing,
         LaunchAwaited, Published
<1>6. EngineOwned'
  BY DEF Inv, TypeOK, NoFaultYet, EngineOwned
<1> QED BY <1>1, <1>2, <1>3, <1>4, <1>5, <1>6 DEF NoFaultYet

(* The engine that is entered is the only one.                             *)
LEMMA EnterIsAlone ==
  ASSUME Inv, SidInv, NoFaultYet, UNCHANGED faults, NEW e \in Engines,
         Enter(e)
  PROVE  NoFaultYet'
<1> USE BrowserAssumption
    DEF Enter, mainVars, ownVars, jobVars, profileVars, recVars, launchVars,
        engineVars
<1>1. NoRecovery'
  BY DEF NoFaultYet, NoRecovery
<1>2. LaunchAwaited'
  BY DEF NoFaultYet, LaunchAwaited, Ending
<1>3. DownForReset'
  BY DEF Inv, SidInv, NoFaultYet, LockIsHeld, Inside, JobsWhileServing,
         LaunchAwaited, DownForReset, Resetting, Ending
<1>4. EnterAlone'
  BY DEF Inv, TypeOK, NoFaultYet, OneLaunch, InFlight, EnterAlone
<1>5. Published'
  BY DEF Inv, TypeOK, OneLaunch, NotEntered, InFlight, Published
<1>6. EngineOwned'
  BY DEF NoFaultYet, EnterAlone, EngineOwned
<1> QED BY <1>1, <1>2, <1>3, <1>4, <1>5, <1>6 DEF NoFaultYet

(* The page is opened in the engine that is held.                          *)
LEMMA NewPageAlone ==
  ASSUME Inv, SidInv, NoFaultYet, UNCHANGED faults, NEW e \in Engines,
         NewPage(e)
  PROVE  NoFaultYet'
<1> USE BrowserAssumption
    DEF NewPage, mainVars, ownVars, jobVars, profileVars, recVars,
        launchVars, engineVars
<1>1. NoRecovery'
  BY DEF NoFaultYet, NoRecovery
<1>2. LaunchAwaited'
  BY DEF NoFaultYet, LaunchAwaited, Ending
<1>3. DownForReset'
  BY DEF NoFaultYet, DownForReset, Resetting, Ending
<1>4. EnterAlone'
  BY DEF NoFaultYet, EnterAlone
<1>5. Published'
  BY DEF NoFaultYet, Published
<1>6. EngineOwned'
  BY DEF NoFaultYet, EngineOwned
<1> QED BY <1>1, <1>2, <1>3, <1>4, <1>5, <1>6 DEF NoFaultYet

(* A launch that ends leaves what it published, or is cancelled.           *)
LEMMA LaunchEndsAlone ==
  ASSUME Inv, SidInv, NoFaultYet, UNCHANGED faults, NEW e \in Engines,
         EnterFails(e) \/ NewPageFails(e) \/ Subscribe(e) \/ Cancelled(e)
  PROVE  NoFaultYet'
<1> USE BrowserAssumption
    DEF EnterFails, NewPageFails, Subscribe, Cancelled, Fault, LaunchEnds,
        Wake, mainVars, ownVars, jobVars, profileVars, recVars, launchVars,
        engineVars
<1>1. NoRecovery'
  BY DEF NoFaultYet, NoRecovery
<1>2. LaunchAwaited'
  BY DEF Inv, TypeOK, OneLaunch, InFlight, LaunchAwaited
<1>3. DownForReset'
  BY DEF NoFaultYet, DownForReset, Resetting, Ending
<1>4. EnterAlone'
  BY DEF Inv, TypeOK, NoFaultYet, EnterAlone
<1>5. Published'
  BY DEF Inv, TypeOK, NoFaultYet, LaunchAwaited, Published, Ending
<1>6. EngineOwned'
  BY DEF Inv, TypeOK, NoFaultYet, EngineOwned
<1> QED BY <1>1, <1>2, <1>3, <1>4, <1>5, <1>6 DEF NoFaultYet

(* A job that comes, resumes or leaves moves no engine.                    *)
LEMMA JobAlone ==
  ASSUME Inv, SidInv, NoFaultYet, UNCHANGED faults, NEW j \in Jobs, NEW
         outcome \in {"ok", "failed"}, Submit(j) \/ Resume(j) \/
         CrawlEnds(j, outcome)
  PROVE  NoFaultYet'
<1> USE BrowserAssumption
    DEF Submit, Resume, CrawlEnds, Leave, mainVars, ownVars, jobVars,
        profileVars, recVars, launchVars, engineVars
<1>1. NoRecovery'
  BY DEF NoFaultYet, NoRecovery
<1>2. LaunchAwaited'
  BY DEF Inv, TypeOK, NoFaultYet, LaunchAwaited, Ending
<1>3. DownForReset'
  BY DEF Inv, TypeOK, NoFaultYet, DownForReset, Resetting, Ending
<1>4. EnterAlone'
  BY DEF NoFaultYet, EnterAlone
<1>5. Published'
  BY DEF NoFaultYet, InFlight, Published
<1>6. EngineOwned'
  BY DEF NoFaultYet, EngineOwned
<1> QED BY <1>1, <1>2, <1>3, <1>4, <1>5, <1>6 DEF NoFaultYet

(* A job that takes the lock launches only where nothing is up.            *)
LEMMA AcquireAlone ==
  ASSUME Inv, SidInv, NoFaultYet, UNCHANGED faults, NEW j \in Jobs,
         Acquire(j)
  PROVE  NoFaultYet'
<1> USE BrowserAssumption, NextEngineIsFresh
    DEF Acquire, LockFree, Teardown, NewGeneration, Fetch, EnsureLaunch,
        StartLaunch, mainVars, ownVars, jobVars, profileVars, recVars,
        launchVars, engineVars
<1>1. NoRecovery'
  BY DEF NoFaultYet, NoRecovery
<1>2. LaunchAwaited'
  BY DEF Inv, TypeOK, NoFaultYet, LaunchAwaited, Ending
<1>3. DownForReset'
  BY DEF Inv, TypeOK, NoFaultYet, DownForReset, Resetting, Ending
<1>4. EnterAlone'
  BY DEF Inv, SidInv, NoFaultYet, OneLaunch, LockIsHeld, Inside, LaunchLive,
         IsReady, JobsWhileServing, DownForReset, EnterAlone, Published,
         EngineOwned, Ending
<1>5. Published'
  BY DEF Inv, TypeOK, SidInv, NoFaultYet, LockIsHeld, Inside, InFlight,
         JobsWhileServing, LaunchAwaited, Published
<1>6. EngineOwned'
  BY DEF Inv, TypeOK, NoFaultYet, EngineOwned
<1> QED BY <1>1, <1>2, <1>3, <1>4, <1>5, <1>6 DEF NoFaultYet

(* The reset goes on when its engine is down, and no other came meanwhile. *)
LEMMA ResetDoneAlone ==
  ASSUME Inv, SidInv, NoFaultYet, UNCHANGED faults, NEW j \in Jobs,
         ResetDone(j)
  PROVE  NoFaultYet'
<1> USE BrowserAssumption, NextEngineIsFresh
    DEF ResetDone, NewGeneration, Fetch, EnsureLaunch, StartLaunch,
        mainVars, ownVars, jobVars, profileVars, recVars, launchVars,
        engineVars
<1>1. NoRecovery'
  BY DEF NoFaultYet, NoRecovery
<1>2. LaunchAwaited'
  BY DEF Inv, TypeOK, NoFaultYet, LaunchAwaited, Ending
<1>3. DownForReset'
  BY DEF Inv, NoFaultYet, LockIsHeld, Inside, DownForReset, Resetting, Ending
<1>4. EnterAlone'
  BY DEF Inv, SidInv, NoFaultYet, LockIsHeld, Inside, JobsWhileServing,
         DownForReset, EnterAlone, EngineOwned, Resetting, Ending
<1>5. Published'
  BY DEF Inv, TypeOK, NoFaultYet, DownForReset, Published, Resetting
<1>6. EngineOwned'
  BY DEF NoFaultYet, EngineOwned
<1> QED BY <1>1, <1>2, <1>3, <1>4, <1>5, <1>6 DEF NoFaultYet

(* An engine that is down was the reset's, or the shutdown's.              *)
LEMMA AcloseAlone ==
  ASSUME Inv, SidInv, NoFaultYet, UNCHANGED faults, NEW e \in Engines,
         AcloseDone(e)
  PROVE  NoFaultYet'
<1> USE BrowserAssumption
    DEF AcloseDone, OnContextClosed, mainVars, ownVars, jobVars,
        profileVars, recVars, launchVars, engineVars
<1>1. NoRecovery'
  BY DEF NoFaultYet, NoRecovery
<1>2. LaunchAwaited'
  BY DEF NoFaultYet, LaunchAwaited, Ending
<1>3. DownForReset'
  BY DEF NoFaultYet, DownForReset, Resetting, Ending
<1>4. EnterAlone'
  BY DEF NoFaultYet, EnterAlone
<1>5. Published'
  BY DEF NoFaultYet, DownForReset, EnterAlone, Published, Resetting, Ending
<1>6. EngineOwned'
  BY DEF Inv, TypeOK, NoFaultYet, EngineOwned
<1> QED BY <1>1, <1>2, <1>3, <1>4, <1>5, <1>6 DEF NoFaultYet

(* A step that is no fault of the engine.                                  *)
LEMMA NextAlone ==
  ASSUME Inv, SidInv, NoFaultYet, UNCHANGED faults, [Next]_vars
  PROVE  NoFaultYet'
<1>1. CASE MainStep
  BY <1>1, MainAlone
<1>2. ASSUME NEW e \in Engines, LaunchStep(e)
      PROVE  NoFaultYet'
  BY <1>2, EnterIsAlone, NewPageAlone, LaunchEndsAlone DEF LaunchStep
<1>3. ASSUME NEW e \in Engines, AcloseDone(e)
      PROVE  NoFaultYet'
  BY <1>3, AcloseAlone
<1>4. ASSUME NEW j \in Jobs, Submit(j) \/ JobStep(j)
      PROVE  NoFaultYet'
  BY <1>4, JobAlone, AcquireAlone, ResetDoneAlone DEF JobStep
<1>5. ASSUME NEW e \in Engines
      PROVE  ~RecoverStep(e) /\ ~EngineFault(e)
  BY <1>5
  DEF NoFaultYet, NoRecovery, RecoverStep, RecoverUnwound, RecoverWakes, EngineFault, Crash,
      ContextCloses, Fault, Inv, TypeOK
<1>6. CASE UNCHANGED vars
  BY <1>6
  DEF vars, mainVars, ownVars, jobVars, recVars, launchVars, engineVars,
      NoFaultYet, NoRecovery, LaunchAwaited, DownForReset, EnterAlone,
      Published, EngineOwned, Ending, Resetting, InFlight
<1> QED BY <1>1, <1>2, <1>3, <1>4, <1>5, <1>6 DEF Next, Terminated

(* Faults are only ever counted up.                                        *)
LEMMA FaultsGrow ==
  ASSUME Inv, [Next]_vars, faults' = 0
  PROVE  faults = 0
<1>1. faults' = faults \/ faults' = faults + 1
  BY DEF Next, Terminated, vars, MainStep, Boot, Stop, CloseBrowser, Exit,
         ShutdownTimesOut, Submit, JobStep, Acquire, ResetDone, Resume,
         CrawlEnds, LaunchStep, Enter, EnterFails, NewPage, NewPageFails,
         Subscribe, Cancelled, RecoverStep, RecoverUnwound, RecoverWakes,
         EngineFault, Crash, ContextCloses, AcloseDone, Fault
<1> QED BY <1>1, BrowserAssumption DEF Inv, TypeOK

(* The invariant of the worker as long as no engine has failed: who has    *)
(* launched, who unwinds, and what is published.                           *)
THEOREM FaultFreeInvariance == Spec => []FaultFreeInv
<1>1. Init => FaultFreeInv
  BY DEF Init, FaultFreeInv, NoFaultYet, NoRecovery, LaunchAwaited,
         DownForReset, EnterAlone, Published, EngineOwned
<1>2. Inv /\ SidInv /\ FaultFreeInv /\ [Next]_vars => FaultFreeInv'
  BY NextAlone, FaultsGrow DEF FaultFreeInv
<1> QED BY <1>1, <1>2, Invariance, SidInvariance, PTL DEF Spec

(* Until an engine fails no second Firefox is ever on the profile, nor one *)
(* that nobody will unwind: both need a fault.                             *)
THEOREM FirefoxIsAlone == Spec => []OneFirefox
<1>1. Inv /\ FaultFreeInv => OneFirefox
  BY DEF Inv, OneLaunch, InFlight, FaultFreeInv, NoFaultYet, EnterAlone,
         OneFirefox, OnProfile
<1> QED BY <1>1, Invariance, FaultFreeInvariance, PTL

(* All that holds in every state, as one invariant.                        *)
THEOREM FullInvariance == Spec => []IndInv
BY Invariance, SidInvariance, FaultFreeInvariance, NothingIsAwaitedInVain, PTL
DEF IndInv

(* The reset clears the jar under no crawl and, until an engine fails, the *)
(* files of a browser that is down, although the lock keeps nobody else    *)
(* from launching.                                                         *)
THEOREM ResetIsClean == Spec => CleanReset
<1>1. ASSUME IndInv, [Next]_vars,
             faults' = 0, generation' # generation, NEW e \in Engines
      PROVE  ~OnProfile(e)
  <2> USE DEF IndInv
  <2>1. faults = 0 /\ NoFaultYet
    BY <1>1, FaultsGrow DEF FaultFreeInv
  <2>2. PICK j \in Jobs : Acquire(j) \/ ResetDone(j)
    BY <1>1, ProfileStep
  <2>3. main = "serving" /\ stack = NoEngine
    BY <1>1, <2>1, <2>2
    DEF Acquire, ResetDone, SidInv, JobsWhileServing, Inside, NoFaultYet,
        DownForReset, Resetting, profileVars
  <2>4. \A i \in Jobs : job[i] # "launching"
    BY <1>1, <2>2, BrowserAssumption
    DEF Acquire, ResetDone, LockFree, Inv, LockIsHeld, Inside
  <2>5. launch[e] # "enter"
    BY <2>1, <2>3, <2>4 DEF NoFaultYet, LaunchAwaited
  <2>6. browser[e] # "up"
    <3> SUFFICES ASSUME browser[e] = "up" PROVE FALSE
      OBVIOUS
    <3>1. PICK i \in Jobs : job[i] = "resetting" /\ jobOn[i] = e
      BY <1>1, <2>1, <2>3, BrowserAssumption
      DEF NoFaultYet, EngineOwned, DownForReset, Ending
    <3>2. exit[e] = "closed"
      <4>1. lock = i /\ lock # NoJob
        BY <1>1, <3>1, BrowserAssumption DEF Inv, LockIsHeld, Inside
      <4>2. ~Acquire(j)
        BY <4>1 DEF Acquire, LockFree
      <4>3. lock = j
        BY <1>1, <2>2, <4>2 DEF ResetDone, Inv, LockIsHeld, Inside
      <4> QED BY <2>2, <3>1, <4>1, <4>2, <4>3 DEF ResetDone
    <3> QED BY <1>1, <3>2 DEF SidInv, UpIsNotClosed
  <2> QED BY <2>5, <2>6 DEF OnProfile
<1>2. IndInv /\ [Next]_vars =>
        [generation' # generation =>
           /\ \A j \in Jobs : job[j] # "crawling"
           /\ faults' = 0 => \A e \in Engines : ~OnProfile(e)]_vars
  BY <1>1, ResetBetweenCrawls DEF IndInv
<1> QED BY <1>2, FullInvariance, PTL DEF Spec, CleanReset

-----------------------------------------------------------------------------
(* BrowserManager implements the safety part of CrawlService.              *)

(* The phases of the states a job is in.                                   *)
LEMMA PhaseOf ==
  /\ Phase("idle") = "new"
  /\ Phase("waiting") = "queued" /\ Phase("resetting") = "queued"
  /\ \A state \in Inside \ {"resetting"} : Phase(state) = "active"
  /\ \A state \in {"ok", "failed", "cancelled"} : Phase(state) = "ended"
  /\ \A state \in JobStates : Phase(state) = "active" => state \in Inside \ {"resetting"}
BY DEF Phase, Inside, JobStates

LEMMA InitRefines == Init => Service!Init
<1> SUFFICES ASSUME Init PROVE Service!Init
  OBVIOUS
<1>1. Phase("idle") = "new"
  BY PhaseOf
<1>2. [j \in Jobs |-> Phase(job[j])] = [j \in Jobs |-> "new"]
  BY <1>1 DEF Init
<1> QED BY <1>2 DEF Init, Service!Init

(* A step that moves no job between phases is a stutter of the service.    *)
LEMMA SamePhases ==
  ASSUME UNCHANGED profileVars,
         \A j \in Jobs : Phase(job'[j]) = Phase(job[j])
  PROVE  UNCHANGED Service!vars
BY DEF profileVars, Service!vars

(* A job that takes the lock, or finishes the reset, starts its crawl.     *)
LEMMA StartRefines ==
  ASSUME Inv, NEW j \in Jobs, job[j] \in {"waiting", "resetting"},
         \A i \in Jobs \ {j} : job[i] \notin Inside,
         NEW state \in {"launching", "refused", "crawling"},
         job' = [job EXCEPT ![j] = state],
         IF ResetDue THEN NewGeneration ELSE UNCHANGED profileVars
  PROVE  Service!Next
<1>1. \A i \in Jobs : Phase(job[i]) # "active"
  BY PhaseOf DEF Inv, TypeOK, Inside
<1>2. [i \in Jobs |-> Phase(job[i])]' =
        [[i \in Jobs |-> Phase(job[i])] EXCEPT ![j] = "active"]
  BY PhaseOf DEF Inv, TypeOK, Inside
<1>3. Phase(job[j]) = "queued"
  BY PhaseOf
<1>4. Service!Start(j)
  BY <1>1, <1>2, <1>3
  DEF Service!Start, Service!JarUsedUp, ResetDue, NewGeneration,
                          profileVars
<1> QED BY <1>4 DEF Service!Next

(* A job that leaves the lock finishes its crawl.                          *)
LEMMA FinishRefines ==
  ASSUME Inv, NEW j \in Jobs, job[j] \in Inside \ {"resetting"},
         NEW outcome \in {"ok", "failed"}, Leave(j, outcome), UNCHANGED generation
  PROVE  Service!Next
<1>1. Phase(job[j]) = "active" /\ Phase(outcome) = "ended"
  BY PhaseOf
<1>2. [i \in Jobs |-> Phase(job[i])]' =
        [[i \in Jobs |-> Phase(job[i])] EXCEPT ![j] = "ended"]
  BY <1>1 DEF Leave, Inv, TypeOK
<1>3. Service!Finish(j)
  BY <1>1, <1>2 DEF Service!Finish, Leave
<1> QED BY <1>3 DEF Service!Next

(* Shutdown cuts every job off that has not ended.                         *)
LEMMA StopRefines ==
  ASSUME Inv, Stop
  PROVE  Service!Next
<1>1. [j \in Jobs |-> Phase(job[j])]' =
        [j \in Jobs |-> IF Phase(job[j]) \in {"queued", "active"}
                        THEN "ended" ELSE Phase(job[j])]
  <2>1. ASSUME NEW j \in Jobs
        PROVE  Phase(job'[j]) = IF Phase(job[j]) \in {"queued", "active"}
                                THEN "ended" ELSE Phase(job[j])
    BY <2>1, PhaseOf DEF Stop, Inv, TypeOK, JobStates, Inside
  <2> QED BY <2>1
<1>2. (lock # NoJob /\ job[lock] # "resetting")
        <=> \E j \in Jobs : Phase(job[j]) = "active"
  BY PhaseOf, BrowserAssumption DEF Inv, TypeOK, LockIsHeld, Inside
<1>3. Service!Cancel
  BY <1>1, <1>2 DEF Service!Cancel, Stop
<1> QED BY <1>3 DEF Service!Next

(* Every other step of a job, of the launch or of the engine is a step of  *)
(* the service or none at all.                                             *)
LEMMA StepRefines == Inv /\ [Next]_vars => [Service!Next]_(Service!vars)
<1> SUFFICES ASSUME Inv, [Next]_vars PROVE Service!Next \/ UNCHANGED Service!vars
  OBVIOUS
<1> USE
    DEF mainVars, ownVars, jobVars, profileVars, recVars, launchVars,
        engineVars
<1>1. CASE MainStep
  <2>1. CASE Boot \/ CloseBrowser \/ Exit \/ ShutdownTimesOut
    BY <2>1, SamePhases DEF Boot, CloseBrowser, Exit, ShutdownTimesOut
  <2> QED BY <1>1, <2>1, StopRefines DEF MainStep
<1>2. ASSUME NEW e \in Engines, LaunchStep(e)
      PROVE  UNCHANGED Service!vars
  <2>1. CASE Enter(e) \/ NewPage(e)
    BY <2>1, SamePhases DEF Enter, NewPage
  <2>2. ASSUME NEW success \in BOOLEAN, LaunchEnds(e, success)
        PROVE  UNCHANGED Service!vars
    <3>1. ASSUME NEW j \in Jobs
          PROVE  Phase(job'[j]) = Phase(job[j])
      BY <2>2, PhaseOf DEF LaunchEnds, Wake, Inside
    <3> QED BY <2>2, <3>1, SamePhases DEF LaunchEnds
  <2> QED BY <1>2, <2>1, <2>2 DEF LaunchStep, EnterFails, NewPageFails, Subscribe,
                                  Cancelled
<1>3. ASSUME NEW e \in Engines, RecoverStep(e) \/ EngineFault(e) \/ AcloseDone(e)
      PROVE  UNCHANGED Service!vars
  BY <1>3, SamePhases
  DEF RecoverStep, RecoverUnwound, RecoverWakes, EngineFault,
                          Crash, ContextCloses, AcloseDone
<1>4. ASSUME NEW j \in Jobs, Submit(j)
      PROVE  Service!Next
  <2>1. [i \in Jobs |-> Phase(job[i])]' =
          [[i \in Jobs |-> Phase(job[i])] EXCEPT ![j] = "queued"]
    BY <1>4, PhaseOf DEF Submit, Inv, TypeOK
  <2>2. Service!Submit(j)
    BY <1>4, <2>1, PhaseOf DEF Submit, Service!Submit
  <2> QED BY <2>2 DEF Service!Next
<1>5. ASSUME NEW j \in Jobs, Acquire(j)
      PROVE  Service!Next \/ UNCHANGED Service!vars
  <2>1. \A i \in Jobs : job[i] \notin Inside
    BY <1>5, BrowserAssumption DEF Acquire, LockFree, Inv, LockIsHeld
  <2>2. CASE ResetDue /\ stack # NoEngine
    <3>1. \A i \in Jobs : Phase(job'[i]) = Phase(job[i])
      BY <1>5, <2>2, PhaseOf DEF Acquire, Inv, TypeOK
    <3> QED BY <1>5, <2>2, <3>1, SamePhases DEF Acquire
  <2>3. CASE ~ResetDue
    <3>1. PICK state \in {"launching", "refused", "crawling"} :
            job' = [job EXCEPT ![j] = state]
      BY <1>5, <2>3 DEF Acquire, Fetch
    <3> QED BY <1>5, <2>1, <2>3, <3>1, StartRefines DEF Acquire
  <2>4. CASE ResetDue /\ stack = NoEngine
    <3>1. PICK state \in {"launching", "refused", "crawling"} :
            job' = [job EXCEPT ![j] = state]
      BY <1>5, <2>4 DEF Acquire, Fetch
    <3> QED BY <1>5, <2>1, <2>4, <3>1, StartRefines DEF Acquire
  <2> QED BY <2>2, <2>3, <2>4
<1>6. ASSUME NEW j \in Jobs, ResetDone(j)
      PROVE  Service!Next
  <2>1. \A i \in Jobs \ {j} : job[i] \notin Inside
    BY <1>6 DEF ResetDone, Inv, LockIsHeld, Inside
  <2>2. ResetDue /\ job[j] = "resetting"
    BY <1>6 DEF ResetDone, Inv, ResetStillDue
  <2>3. PICK state \in {"launching", "refused", "crawling"} :
          job' = [job EXCEPT ![j] = state]
    BY <1>6 DEF ResetDone, Fetch
  <2> QED BY <1>6, <2>1, <2>2, <2>3, StartRefines DEF ResetDone
<1>7. ASSUME NEW j \in Jobs, Resume(j)
      PROVE  Service!Next \/ UNCHANGED Service!vars
  <2>1. CASE job[j] = "launched" /\ page # NoEngine
    <3>1. \A i \in Jobs : Phase(job'[i]) = Phase(job[i])
      BY <1>7, <2>1, PhaseOf DEF Resume, Inv, TypeOK, Inside
    <3> QED BY <1>7, <2>1, <3>1, SamePhases DEF Resume
  <2>2. CASE ~(job[j] = "launched" /\ page # NoEngine)
    BY <1>7, <2>2, FinishRefines DEF Resume, Inside
  <2> QED BY <2>1, <2>2
<1>8. ASSUME NEW j \in Jobs, NEW outcome \in {"ok", "failed"}, CrawlEnds(j, outcome)
      PROVE  Service!Next
  BY <1>8, FinishRefines DEF CrawlEnds, Inside
<1>9. CASE UNCHANGED vars
  BY <1>9, SamePhases DEF vars
<1> QED BY <1>1, <1>2, <1>3, <1>4, <1>5, <1>6, <1>7, <1>8, <1>9
        DEF Next, Terminated, JobStep

(* What the callers of navigate_and_extract are promised: one crawl at a   *)
(* time, in a jar that is replaced between crawls and in time.  That every *)
(* submitted job ends is the liveness part, checked by TLC.                *)
THEOREM ServesSafely == Spec => Service!Init /\ [][Service!Next]_(Service!vars)
<1>1. Init => Service!Init
  BY InitRefines
<1>2. Inv /\ [Next]_vars => [Service!Next]_(Service!vars)
  BY StepRefines
<1> QED BY <1>1, <1>2, Invariance, PTL DEF Spec
=============================================================================
