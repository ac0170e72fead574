---------------------------- MODULE CrawlService ----------------------------
(***************************************************************************)
(* What BrowserManager.navigate_and_extract promises its caller, with      *)
(* nothing said about engines, launches or crashes: crawls are served one  *)
(* at a time ("one page, one job at a time, behind a lock"), a jar of      *)
(* cookies serves at most ProfileResetJobs crawls before it is replaced,   *)
(* it is replaced only between crawls, and every submitted job ends.       *)
(* BrowserManager implements this specification.                           *)
(***************************************************************************)
EXTENDS Integers

CONSTANTS Jobs,               \* the jobs the gateway hands over
          ProfileResetJobs    \* crawls one jar serves; 0: the jar is never replaced

VARIABLES phase,              \* phase[j]: where job j is
          jar,                \* the number of the current jar
          served              \* crawls that have ended in the current jar

vars == <<phase, jar, served>>

Phases == {"new", "queued", "active", "ended"}

Init == /\ phase = [j \in Jobs |-> "new"]
        /\ jar = 0
        /\ served = 0

JarUsedUp == ProfileResetJobs > 0 /\ served >= ProfileResetJobs

Submit(j) == /\ phase[j] = "new"
             /\ phase' = [phase EXCEPT ![j] = "queued"]
             /\ UNCHANGED <<jar, served>>

(* The service takes a queued job once no other is active, in a new jar    *)
(* when the current one is used up.                                        *)
Start(j) == /\ phase[j] = "queued"
            /\ \A i \in Jobs : phase[i] # "active"
            /\ phase' = [phase EXCEPT ![j] = "active"]
            /\ IF JarUsedUp
               THEN jar' = jar + 1 /\ served' = 0
               ELSE UNCHANGED <<jar, served>>

Finish(j) == /\ phase[j] = "active"
             /\ phase' = [phase EXCEPT ![j] = "ended"]
             /\ served' = served + 1
             /\ UNCHANGED jar

(* Shutdown: every job not yet ended is cut off, an active one counts.     *)
Cancel == /\ phase' = [j \in Jobs |-> IF phase[j] \in {"queued", "active"}
                                      THEN "ended" ELSE phase[j]]
          /\ served' = IF \E j \in Jobs : phase[j] = "active"
                       THEN served + 1 ELSE served
          /\ UNCHANGED jar

Next == \/ Cancel
        \/ \E j \in Jobs : Submit(j) \/ Start(j) \/ Finish(j)

Serve(j) == Start(j) \/ Finish(j)

Spec == Init /\ [][Next]_vars /\ \A j \in Jobs : WF_vars(Serve(j))
=============================================================================
