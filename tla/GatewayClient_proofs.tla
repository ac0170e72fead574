------------------------ MODULE GatewayClient_proofs ------------------------
(***************************************************************************)
(* Theorems about GatewayClient, for every set of fetch frames, every      *)
(* MAX_PENDING_JOBS and any number of lost connections.                    *)
(***************************************************************************)
EXTENDS GatewayClient, FiniteSetTheorems, TLAPS

-----------------------------------------------------------------------------
(* Counting the admitted jobs.                                             *)

LEMMA AdmittedFinite == IsFiniteSet(AdmittedJobs)
<1>1. AdmittedJobs \subseteq Jobs
  BY DEF AdmittedJobs
<1> QED BY <1>1, GatewayAssumption, FS_Subset

(* A job that is admitted adds one.                                        *)
LEMMA AdmitOne ==
  ASSUME NEW j \in Jobs, job \in [Jobs -> JobStates], job[j] \notin Admitted,
         NEW state \in Admitted, job' = [job EXCEPT ![j] = state]
  PROVE  Cardinality(AdmittedJobs') = Cardinality(AdmittedJobs) + 1
<1>1. AdmittedJobs' = AdmittedJobs \cup {j} /\ j \notin AdmittedJobs
  BY DEF AdmittedJobs
<1> QED BY <1>1, AdmittedFinite, FS_AddElement

(* A job that leaves takes one away.                                       *)
LEMMA LeaveOne ==
  ASSUME NEW j \in Jobs, job \in [Jobs -> JobStates], job[j] \in Admitted,
         NEW state, state \notin Admitted, job' = [job EXCEPT ![j] = state]
  PROVE  Cardinality(AdmittedJobs') = Cardinality(AdmittedJobs) - 1
<1>1. AdmittedJobs' = AdmittedJobs \ {j} /\ j \in AdmittedJobs
  BY DEF AdmittedJobs
<1> QED BY <1>1, AdmittedFinite, FS_RemoveElement

(* Any other change of state leaves the count alone.                       *)
LEMMA SameAdmitted ==
  ASSUME \A j \in Jobs : job'[j] \in Admitted <=> job[j] \in Admitted
  PROVE  AdmittedJobs' = AdmittedJobs
BY DEF AdmittedJobs

LEMMA CountIsNat == Cardinality(AdmittedJobs) \in Nat
BY AdmittedFinite, FS_CardinalityType

-----------------------------------------------------------------------------
LEMMA InitInv == Init => Inv
<1> SUFFICES ASSUME Init PROVE Inv
  OBVIOUS
<1> USE GatewayAssumption DEF Init
<1>1. TypeOK
  <2>1. ConnTypes
    BY DEF ConnTypes, NoSocket, INITIAL_BACKOFF_MS, MAX_BACKOFF_MS
  <2>2. job \in [Jobs -> JobStates]
    BY DEF JobStates
  <2>3. sendOn \in [Jobs -> Nat] /\ origin \in [Jobs -> Nat]
    BY DEF NoSocket
  <2>4. results \in [Jobs -> Seq(Nat)]
    OBVIOUS
  <2>5. faults \in 0..MaxFaults
    OBVIOUS
  <2>6. FlagTypes
    BY DEF FlagTypes
  <2>7. JobTypes
    BY <2>2, <2>3, <2>4 DEF JobTypes
  <2> QED BY <2>1, <2>5, <2>6, <2>7 DEF TypeOK
<1>2. PendingExact
  <2>1. AdmittedJobs = {}
    BY DEF AdmittedJobs, Admitted
  <2> QED BY <2>1, FS_EmptySet DEF PendingExact
<1>3. AnsweredOnce
  BY DEF AnsweredOnce
<1>4. ReadyIsAcked /\ SocketIsCurrent /\ PausedIsLast /\ StoppedIsOver /\ NothingBeforeStart
  BY DEF ReadyIsAcked, SocketIsCurrent, PausedIsLast, StoppedIsOver,
         NothingBeforeStart
<1> QED BY <1>1, <1>2, <1>3, <1>4 DEF Inv

LEMMA StartInv ==
  ASSUME Inv, Start
  PROVE  Inv'
<1> USE GatewayAssumption DEF Start, connVars, flagVars, countVars, jobVars
<1>1. TypeOK'
  <2>1. ConnTypes'
    BY DEF Inv, TypeOK, ConnTypes
  <2>2. JobTypes'
    BY DEF Inv, TypeOK, JobTypes
  <2>3. FlagTypes'
    BY DEF Inv, TypeOK, FlagTypes
  <2> QED BY <2>1, <2>2, <2>3 DEF Inv, TypeOK
<1>2. PendingExact'
  BY SameAdmitted DEF Inv, PendingExact
<1>3. AnsweredOnce'
  BY DEF Inv, AnsweredOnce
<1>4. ReadyIsAcked' /\ SocketIsCurrent' /\ PausedIsLast' /\ StoppedIsOver' /\ NothingBeforeStart'
  BY DEF Inv, ReadyIsAcked, SocketIsCurrent, PausedIsLast, StoppedIsOver,
         NothingBeforeStart
<1> QED BY <1>1, <1>2, <1>3, <1>4 DEF Inv

LEMMA ConnectInv ==
  ASSUME Inv, Connect
  PROVE  Inv'
<1> USE GatewayAssumption DEF Connect, connVars, flagVars, countVars, jobVars
<1>1. TypeOK'
  <2>1. ConnTypes'
    BY DEF Inv, TypeOK, ConnTypes
  <2>2. JobTypes'
    BY DEF Inv, TypeOK, JobTypes
  <2>3. FlagTypes'
    BY DEF Inv, TypeOK, FlagTypes
  <2> QED BY <2>1, <2>2, <2>3 DEF Inv, TypeOK
<1>2. PendingExact'
  BY SameAdmitted DEF Inv, PendingExact
<1>3. AnsweredOnce'
  BY DEF Inv, AnsweredOnce
<1>4. ReadyIsAcked' /\ SocketIsCurrent' /\ PausedIsLast' /\ StoppedIsOver' /\ NothingBeforeStart'
  BY DEF Inv, TypeOK, ConnTypes, ReadyIsAcked, SocketIsCurrent, PausedIsLast,
         StoppedIsOver, NothingBeforeStart, NoSocket
<1> QED BY <1>1, <1>2, <1>3, <1>4 DEF Inv

LEMMA ConnectFailsInv ==
  ASSUME Inv, ConnectFails
  PROVE  Inv'
<1> USE GatewayAssumption
    DEF ConnectFails, Fault, AttemptEnds, BackoffAfter, connVars, flagVars,
        countVars, jobVars
<1>1. TypeOK'
  <2>1. ConnTypes'
    <3>1. PICK d \in Durations : took' = d /\ AttemptEnds(d)
      OBVIOUS
    <3>2. /\ run' \in {"ended", "sleeping"} /\ backoff' \in {backoff, INITIAL_BACKOFF_MS}
          /\ socket' = NoSocket /\ shorts' \in {0, shorts + 1}
      BY <3>1
    <3> QED BY <3>1, <3>2 DEF Inv, TypeOK, ConnTypes, NoSocket, INITIAL_BACKOFF_MS,
                              MAX_BACKOFF_MS
  <2>2. JobTypes'
    BY DEF Inv, TypeOK, JobTypes
  <2>3. FlagTypes'
    BY DEF Inv, TypeOK, FlagTypes
  <2> QED BY <2>1, <2>2, <2>3 DEF Inv, TypeOK
<1>2. PendingExact'
  BY SameAdmitted DEF Inv, PendingExact
<1>3. AnsweredOnce'
  BY DEF Inv, AnsweredOnce
<1>4. ReadyIsAcked' /\ SocketIsCurrent' /\ PausedIsLast' /\ StoppedIsOver' /\ NothingBeforeStart'
  BY DEF ReadyIsAcked, SocketIsCurrent, PausedIsLast, StoppedIsOver,
         NothingBeforeStart
<1> QED BY <1>1, <1>2, <1>3, <1>4 DEF Inv

LEMMA DropInv ==
  ASSUME Inv, Drop
  PROVE  Inv'
<1> USE GatewayAssumption
    DEF Drop, Fault, connVars, flagVars, countVars, jobVars
<1>1. TypeOK'
  <2>1. ConnTypes'
    BY DEF Inv, TypeOK, ConnTypes
  <2>2. JobTypes'
    BY DEF Inv, TypeOK, JobTypes
  <2>3. FlagTypes'
    BY DEF Inv, TypeOK, FlagTypes
  <2> QED BY <2>1, <2>2, <2>3 DEF Inv, TypeOK
<1>2. PendingExact'
  BY SameAdmitted DEF Inv, PendingExact
<1>3. AnsweredOnce'
  BY DEF Inv, AnsweredOnce
<1>4. ReadyIsAcked' /\ SocketIsCurrent' /\ PausedIsLast' /\ StoppedIsOver' /\ NothingBeforeStart'
  BY DEF Inv, ReadyIsAcked, SocketIsCurrent, PausedIsLast, StoppedIsOver,
         NothingBeforeStart
<1> QED BY <1>1, <1>2, <1>3, <1>4 DEF Inv

LEMMA DisconnectedInv ==
  ASSUME Inv, Disconnected
  PROVE  Inv'
<1> USE GatewayAssumption
    DEF Disconnected, AttemptEnds, BackoffAfter, connVars, flagVars,
        countVars, jobVars
<1>1. TypeOK'
  <2>1. ConnTypes'
    <3>1. PICK d \in Durations : AttemptEnds(took + d)
      OBVIOUS
    <3>2. /\ run' \in {"ended", "sleeping"} /\ backoff' \in {backoff, INITIAL_BACKOFF_MS}
          /\ socket' = NoSocket /\ shorts' \in {0, shorts + 1}
      BY <3>1
    <3> QED BY <3>1, <3>2 DEF Inv, TypeOK, ConnTypes, NoSocket, INITIAL_BACKOFF_MS,
                              MAX_BACKOFF_MS
  <2>2. JobTypes'
    BY DEF Inv, TypeOK, JobTypes
  <2>3. FlagTypes'
    BY DEF Inv, TypeOK, FlagTypes
  <2> QED BY <2>1, <2>2, <2>3 DEF Inv, TypeOK
<1>2. PendingExact'
  BY SameAdmitted DEF Inv, PendingExact
<1>3. AnsweredOnce'
  BY DEF Inv, AnsweredOnce
<1>4. ReadyIsAcked' /\ SocketIsCurrent' /\ PausedIsLast' /\ StoppedIsOver' /\ NothingBeforeStart'
  BY DEF ReadyIsAcked, SocketIsCurrent, PausedIsLast, StoppedIsOver,
         NothingBeforeStart
<1> QED BY <1>1, <1>2, <1>3, <1>4 DEF Inv

LEMMA SleptInv ==
  ASSUME Inv, Slept
  PROVE  Inv'
<1> USE GatewayAssumption
    DEF Slept, next_backoff_ms, connVars, flagVars, countVars, jobVars
<1>1. TypeOK'
  <2>1. ConnTypes'
    BY DEF Inv, TypeOK, ConnTypes, INITIAL_BACKOFF_MS, MAX_BACKOFF_MS
  <2>2. JobTypes'
    BY DEF Inv, TypeOK, JobTypes
  <2>3. FlagTypes'
    BY DEF Inv, TypeOK, FlagTypes
  <2> QED BY <2>1, <2>2, <2>3 DEF Inv, TypeOK
<1>2. PendingExact'
  BY SameAdmitted DEF Inv, PendingExact
<1>3. AnsweredOnce'
  BY DEF Inv, AnsweredOnce
<1>4. ReadyIsAcked' /\ SocketIsCurrent' /\ PausedIsLast' /\ StoppedIsOver' /\ NothingBeforeStart'
  BY DEF Inv, ReadyIsAcked, SocketIsCurrent, PausedIsLast, StoppedIsOver,
         NothingBeforeStart
<1> QED BY <1>1, <1>2, <1>3, <1>4 DEF Inv

LEMMA RegisteredInv ==
  ASSUME Inv, Registered
  PROVE  Inv'
<1> USE GatewayAssumption DEF Registered, connVars, flagVars, countVars, jobVars
<1>1. TypeOK'
  <2>1. ConnTypes'
    BY DEF Inv, TypeOK, ConnTypes
  <2>2. JobTypes'
    BY DEF Inv, TypeOK, JobTypes
  <2>3. FlagTypes'
    BY DEF Inv, TypeOK, FlagTypes
  <2> QED BY <2>1, <2>2, <2>3 DEF Inv, TypeOK
<1>2. PendingExact'
  BY SameAdmitted DEF Inv, PendingExact
<1>3. AnsweredOnce'
  BY DEF Inv, AnsweredOnce
<1>4. ReadyIsAcked' /\ SocketIsCurrent' /\ PausedIsLast' /\ StoppedIsOver' /\ NothingBeforeStart'
  BY DEF Inv, ReadyIsAcked, SocketIsCurrent, PausedIsLast, StoppedIsOver,
         NothingBeforeStart
<1> QED BY <1>1, <1>2, <1>3, <1>4 DEF Inv

LEMMA AuthFailedInv ==
  ASSUME Inv, AuthFailed
  PROVE  Inv'
<1> USE GatewayAssumption DEF AuthFailed, connVars, flagVars, countVars, jobVars
<1>1. TypeOK'
  <2>1. ConnTypes'
    BY DEF Inv, TypeOK, ConnTypes
  <2>2. JobTypes'
    BY DEF Inv, TypeOK, JobTypes
  <2>3. FlagTypes'
    BY DEF Inv, TypeOK, FlagTypes
  <2> QED BY <2>1, <2>2, <2>3 DEF Inv, TypeOK
<1>2. PendingExact'
  BY SameAdmitted DEF Inv, PendingExact
<1>3. AnsweredOnce'
  BY DEF Inv, AnsweredOnce
<1>4. ReadyIsAcked' /\ SocketIsCurrent' /\ PausedIsLast' /\ StoppedIsOver' /\ NothingBeforeStart'
  BY DEF Inv, ReadyIsAcked, SocketIsCurrent, PausedIsLast, StoppedIsOver,
         NothingBeforeStart
<1> QED BY <1>1, <1>2, <1>3, <1>4 DEF Inv

LEMMA FetchArrivesInv ==
  ASSUME Inv, NEW j \in Jobs, FetchArrives(j)
  PROVE  Inv'
<1> USE GatewayAssumption
    DEF FetchArrives, connVars, flagVars, countVars, jobVars
<1>1. TypeOK'
  <2>1. ConnTypes'
    BY DEF Inv, TypeOK, ConnTypes
  <2>2. JobTypes'
    BY DEF Inv, TypeOK, ConnTypes, JobTypes, JobStates
  <2>3. FlagTypes'
    BY DEF Inv, TypeOK, FlagTypes
  <2> QED BY <2>1, <2>2, <2>3 DEF Inv, TypeOK
<1>2. PendingExact'
  <2>1. \A i \in Jobs : job'[i] \in Admitted <=> job[i] \in Admitted
    BY DEF Admitted
  <2> QED BY <2>1, SameAdmitted DEF Inv, PendingExact
<1>3. AnsweredOnce'
  BY DEF Inv, AnsweredOnce
<1>4. ReadyIsAcked' /\ SocketIsCurrent' /\ PausedIsLast' /\ StoppedIsOver' /\ NothingBeforeStart'
  BY DEF Inv, ReadyIsAcked, SocketIsCurrent, PausedIsLast, StoppedIsOver,
         NothingBeforeStart
<1> QED BY <1>1, <1>2, <1>3, <1>4 DEF Inv

LEMMA BeginInv ==
  ASSUME Inv, NEW j \in Jobs, Begin(j)
  PROVE  Inv'
<1> USE GatewayAssumption
    DEF Begin, Send, connVars, flagVars, countVars, jobVars
<1>1. TypeOK'
  <2>1. ConnTypes'
    BY DEF Inv, TypeOK, ConnTypes
  <2>2. JobTypes'
    BY DEF Inv, TypeOK, ConnTypes, JobTypes, JobStates
  <2>3. FlagTypes'
    BY DEF Inv, TypeOK, FlagTypes
  <2> QED BY <2>1, <2>2, <2>3 DEF Inv, TypeOK
<1>2. PendingExact'
  <2>1. job \in [Jobs -> JobStates] /\ job[j] \notin Admitted
    BY DEF Inv, TypeOK, JobTypes, Admitted
  <2>2. CASE pending >= MAX_PENDING_JOBS
    <3>1. \A i \in Jobs : job'[i] \in Admitted <=> job[i] \in Admitted
      BY <2>1, <2>2 DEF Admitted
    <3> QED BY <2>2, <3>1, SameAdmitted DEF Inv, PendingExact
  <2>3. CASE pending < MAX_PENDING_JOBS
    <3>1. PICK state \in Admitted : job' = [job EXCEPT ![j] = state]
      BY <2>3 DEF Inv, TypeOK, Admitted
    <3>2. Cardinality(AdmittedJobs') = Cardinality(AdmittedJobs) + 1
      BY <2>1, <3>1, AdmitOne
    <3> QED BY <2>3, <3>2, CountIsNat DEF Inv, PendingExact
  <2> QED BY <2>2, <2>3 DEF Inv, TypeOK
<1>3. AnsweredOnce'
  BY DEF Inv, TypeOK, JobTypes, AnsweredOnce
<1>4. ReadyIsAcked' /\ SocketIsCurrent' /\ PausedIsLast' /\ StoppedIsOver' /\ NothingBeforeStart'
  BY DEF Inv, ReadyIsAcked, SocketIsCurrent, PausedIsLast, StoppedIsOver,
         NothingBeforeStart
<1> QED BY <1>1, <1>2, <1>3, <1>4 DEF Inv

LEMMA ResolvedInv ==
  ASSUME Inv, NEW j \in Jobs, Resolved(j)
  PROVE  Inv'
<1> USE GatewayAssumption
    DEF Resolved, Send, connVars, flagVars, countVars, jobVars
<1>1. TypeOK'
  <2>1. ConnTypes'
    BY DEF Inv, TypeOK, ConnTypes
  <2>2. JobTypes'
    BY DEF Inv, TypeOK, ConnTypes, JobTypes, JobStates
  <2>3. FlagTypes'
    BY DEF Inv, TypeOK, FlagTypes
  <2> QED BY <2>1, <2>2, <2>3 DEF Inv, TypeOK
<1>2. PendingExact'
  <2>1. \A i \in Jobs : job'[i] \in Admitted <=> job[i] \in Admitted
    BY DEF Inv, TypeOK, JobTypes, Admitted
  <2> QED BY <2>1, SameAdmitted DEF Inv, PendingExact
<1>3. AnsweredOnce'
  BY DEF Inv, TypeOK, JobTypes, AnsweredOnce
<1>4. ReadyIsAcked' /\ SocketIsCurrent' /\ PausedIsLast' /\ StoppedIsOver' /\ NothingBeforeStart'
  BY DEF Inv, ReadyIsAcked, SocketIsCurrent, PausedIsLast, StoppedIsOver,
         NothingBeforeStart
<1> QED BY <1>1, <1>2, <1>3, <1>4 DEF Inv

LEMMA CrawledInv ==
  ASSUME Inv, NEW j \in Jobs, Crawled(j)
  PROVE  Inv'
<1> USE GatewayAssumption
    DEF Crawled, Send, connVars, flagVars, countVars, jobVars
<1>1. TypeOK'
  <2>1. ConnTypes'
    BY DEF Inv, TypeOK, ConnTypes
  <2>2. JobTypes'
    BY DEF Inv, TypeOK, ConnTypes, JobTypes, JobStates
  <2>3. FlagTypes'
    BY DEF Inv, TypeOK, FlagTypes
  <2> QED BY <2>1, <2>2, <2>3 DEF Inv, TypeOK
<1>2. PendingExact'
  <2>1. \A i \in Jobs : job'[i] \in Admitted <=> job[i] \in Admitted
    BY DEF Inv, TypeOK, JobTypes, Admitted
  <2> QED BY <2>1, SameAdmitted DEF Inv, PendingExact
<1>3. AnsweredOnce'
  BY DEF Inv, TypeOK, JobTypes, AnsweredOnce
<1>4. ReadyIsAcked' /\ SocketIsCurrent' /\ PausedIsLast' /\ StoppedIsOver' /\ NothingBeforeStart'
  BY DEF Inv, ReadyIsAcked, SocketIsCurrent, PausedIsLast, StoppedIsOver,
         NothingBeforeStart
<1> QED BY <1>1, <1>2, <1>3, <1>4 DEF Inv

LEMMA SentInv ==
  ASSUME Inv, NEW j \in Jobs, Sent(j)
  PROVE  Inv'
<1> USE GatewayAssumption
    DEF Sent, Writable, connVars, flagVars, countVars, jobVars
<1>1. TypeOK'
  <2>1. ConnTypes'
    BY DEF Inv, TypeOK, ConnTypes
  <2>2. JobTypes'
    BY DEF Inv, TypeOK, JobTypes, JobStates
  <2>3. FlagTypes'
    BY DEF Inv, TypeOK, FlagTypes
  <2> QED BY <2>1, <2>2, <2>3 DEF Inv, TypeOK
<1>2. PendingExact'
  <2>1. job \in [Jobs -> JobStates]
    BY DEF Inv, TypeOK, JobTypes
  <2>2. CASE job[j] = "busy"
    <3>1. \A i \in Jobs : job'[i] \in Admitted <=> job[i] \in Admitted
      BY <2>1, <2>2 DEF Admitted
    <3> QED BY <2>2, <3>1, SameAdmitted DEF Inv, PendingExact
  <2>3. CASE job[j] # "busy"
    <3>1. job[j] \in Admitted /\ "done" \notin Admitted
      BY <2>3 DEF Admitted
    <3>2. Cardinality(AdmittedJobs') = Cardinality(AdmittedJobs) - 1
      BY <2>1, <3>1, LeaveOne
    <3> QED BY <2>3, <3>2, CountIsNat DEF Inv, PendingExact
  <2> QED BY <2>2, <2>3
<1>3. AnsweredOnce'
  BY DEF Inv, TypeOK, JobTypes, AnsweredOnce
<1>4. ReadyIsAcked' /\ SocketIsCurrent' /\ PausedIsLast' /\ StoppedIsOver' /\ NothingBeforeStart'
  BY DEF Inv, ReadyIsAcked, SocketIsCurrent, PausedIsLast, StoppedIsOver,
         NothingBeforeStart
<1> QED BY <1>1, <1>2, <1>3, <1>4 DEF Inv

LEMMA StopInv ==
  ASSUME Inv, Stop
  PROVE  Inv'
<1> USE GatewayAssumption DEF Stop, connVars, flagVars, countVars, jobVars
<1>1. TypeOK'
  <2>1. ConnTypes'
    BY DEF Inv, TypeOK, ConnTypes
  <2>2. JobTypes'
    BY DEF Inv, TypeOK, JobTypes, JobStates
  <2>3. FlagTypes'
    BY DEF Inv, TypeOK, FlagTypes
  <2> QED BY <2>1, <2>2, <2>3 DEF Inv, TypeOK
<1>2. PendingExact'
  <2>1. AdmittedJobs' = {}
    BY DEF AdmittedJobs, Admitted, Live
  <2>2. pending' = 0
    BY CountIsNat DEF Inv, PendingExact, AdmittedJobs
  <2> QED BY <2>1, <2>2, FS_EmptySet DEF PendingExact
<1>3. AnsweredOnce'
  BY DEF Inv, AnsweredOnce, Live, Admitted
<1>4. ReadyIsAcked' /\ SocketIsCurrent' /\ PausedIsLast' /\ StoppedIsOver' /\ NothingBeforeStart'
  BY DEF Inv, ReadyIsAcked, SocketIsCurrent, PausedIsLast, StoppedIsOver,
         NothingBeforeStart
<1> QED BY <1>1, <1>2, <1>3, <1>4 DEF Inv

-----------------------------------------------------------------------------
(* Every step keeps the inductive invariant.                               *)
LEMMA NextInv == Inv /\ [Next]_vars => Inv'
<1> SUFFICES ASSUME Inv, [Next]_vars PROVE Inv'
  OBVIOUS
<1>1. CASE Start \/ ConnectStep \/ Drop \/ Disconnected \/ Slept
  BY <1>1, StartInv, ConnectInv, ConnectFailsInv, DropInv, DisconnectedInv,
         SleptInv
     DEF ConnectStep
<1>2. CASE Registered \/ AuthFailed \/ Stop
  BY <1>2, RegisteredInv, AuthFailedInv, StopInv
<1>3. ASSUME NEW j \in Jobs, FetchArrives(j) \/ JobStep(j)
      PROVE  Inv'
  BY <1>3, FetchArrivesInv, BeginInv, ResolvedInv, CrawledInv, SentInv
  DEF JobStep
<1>4. CASE UNCHANGED vars
  BY <1>4
  DEF vars, connVars, flagVars, countVars, jobVars, Inv, TypeOK, ConnTypes,
     FlagTypes, JobTypes, PendingExact, AdmittedJobs, AnsweredOnce, ReadyIsAcked,
     SocketIsCurrent, PausedIsLast, StoppedIsOver, NothingBeforeStart
<1> QED BY <1>1, <1>2, <1>3, <1>4 DEF Next, Terminated

(* The invariant that carries the results below holds in every state.      *)
THEOREM Invariance == Spec => []Inv
<1>1. Init => Inv
  BY InitInv
<1>2. Inv /\ [Next]_vars => Inv'
  BY NextInv
<1> QED BY <1>1, <1>2, PTL DEF Spec

(* Type correctness.                                                       *)
THEOREM TypeCorrect == Spec => []TypeOK
<1>1. Inv => TypeOK
  BY DEF Inv
<1> QED BY <1>1, Invariance, PTL

(* _pending counts the admitted jobs and stays within MAX_PENDING_JOBS,    *)
(* however many frames arrive and whatever way jobs end.                   *)
THEOREM PendingIsExact == Spec => []PendingExact
<1>1. Inv => PendingExact
  BY DEF Inv
<1> QED BY <1>1, Invariance, PTL

(* No fetch frame is answered twice, across any number of reconnects.      *)
THEOREM AnsweredAtMostOnce == Spec => []AnsweredOnce
<1>1. Inv => AnsweredOnce
  BY DEF Inv
<1> QED BY <1>1, Invariance, PTL

(* is_registered() never speaks of a connection that is gone.              *)
THEOREM RegistrationIsCurrent == Spec => []ReadyIsAcked
<1>1. Inv => ReadyIsAcked
  BY DEF Inv
<1> QED BY <1>1, Invariance, PTL

(* The delay between attempts, from one action to the next.                *)
LEMMA DelayGrows ==
  ASSUME Inv, BackoffGrows, [Next]_vars
  PROVE  BackoffGrows'
<1> USE DEF BackoffGrows, NoHammer, LeastDelay, INITIAL_BACKOFF_MS, MAX_BACKOFF_MS
<1>0. ConnTypes
  BY DEF Inv, TypeOK
<1>1. ASSUME NEW e \in Nat, AttemptEnds(e), run \in {"connecting", "open"}
      PROVE  BackoffGrows'
  <2>1. run' \in {"ended", "sleeping"}
    BY <1>1 DEF AttemptEnds
  <2>2. CASE e >= BACKOFF_RESET_AFTER_MS
    BY <1>1, <2>1, <2>2, <1>0 DEF AttemptEnds, BackoffAfter
  <2>3. CASE ~(e >= BACKOFF_RESET_AFTER_MS)
    <3>1. shorts' = shorts + 1 /\ backoff' = backoff
      BY <1>1, <2>3 DEF AttemptEnds, BackoffAfter
    <3> QED BY <1>1, <2>1, <3>1, <1>0
  <2> QED BY <2>2, <2>3
<1>2. CASE ConnectFails
  <2>1. PICK d \in Durations : AttemptEnds(d)
    BY <1>2 DEF ConnectFails
  <2> QED BY <1>1, <1>2, <2>1, GatewayAssumption DEF ConnectFails
<1>3. CASE Disconnected
  <2>1. PICK d \in Durations : AttemptEnds(took + d)
    BY <1>3 DEF Disconnected
  <2>2. took + d \in Nat
    BY <1>0, GatewayAssumption DEF ConnTypes
  <2> QED BY <1>1, <1>3, <2>1, <2>2 DEF Disconnected
<1>4. CASE Slept
  BY <1>4, <1>0 DEF Slept, next_backoff_ms, ConnTypes
<1>5. CASE Start
  BY <1>5, <1>0 DEF Start, ConnTypes
<1>6. CASE Connect
  BY <1>6, <1>0 DEF Connect
<1>7. CASE Stop
  BY <1>7, <1>0 DEF Stop
<1>8. CASE UNCHANGED <<run, backoff, shorts>>
  BY <1>8
<1>9. ASSUME \/ Drop \/ Registered \/ AuthFailed \/ Terminated \/ UNCHANGED vars
             \/ \E j \in Jobs : FetchArrives(j) \/ JobStep(j)
      PROVE  UNCHANGED <<run, backoff, shorts>>
  BY <1>9 DEF Drop, Registered, AuthFailed, Terminated, FetchArrives, JobStep, Begin,
     Resolved, Crawled, Sent, vars, connVars
<1> QED BY <1>2, <1>3, <1>4, <1>5, <1>6, <1>7, <1>8, <1>9 DEF Next, ConnectStep

(* However long and however often the connection fails, the loop never     *)
(* waits less than the number of short attempts in a row asks for.         *)
THEOREM NeverHammers == Spec => []NoHammer
<1>1. Init => BackoffGrows
  BY DEF Init, BackoffGrows, NoHammer
<1>2. Inv /\ BackoffGrows /\ [Next]_vars => BackoffGrows'
  BY DelayGrows
<1>3. BackoffGrows => NoHammer
  BY DEF BackoffGrows
<1> QED BY <1>1, <1>2, <1>3, Invariance, PTL DEF Spec

(* After device_auth_failed no connection is opened again.                 *)
THEOREM AuthFailureIsFinal == Spec => PausedStaysDown
<1>1. Inv /\ [Next]_vars => [paused => conns' = conns]_vars
  <2> SUFFICES ASSUME Inv, [Next]_vars, paused, conns' # conns
               PROVE  FALSE
    OBVIOUS
  <2>1. Connect
    BY DEF Next, ConnectStep, JobStep, Start, ConnectFails, Drop, Disconnected,
           Slept, Registered, AuthFailed, FetchArrives, Begin, Resolved, Crawled,
           Sent, Stop, Terminated, vars, connVars
  <2> QED BY <2>1 DEF Connect, Inv, PausedIsLast
<1> QED BY <1>1, Invariance, PTL DEF Spec, PausedStaysDown
=============================================================================
