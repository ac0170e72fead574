---------------------------- MODULE GatewayClient ----------------------------
(***************************************************************************)
(* The worker's connection to the gateway (gateway.py): the reconnect loop *)
(* with its backoff, the dispatch of incoming frames, one task per fetch   *)
(* frame from its arrival to its result frame, and stop().                 *)
(*                                                                         *)
(* An action is the code between two suspension points of one task on the  *)
(* asyncio loop.  The gateway, the network and the browser are external:   *)
(* the gateway acknowledges a registration before it sends a fetch frame   *)
(* and neither acknowledges nor sends one after device_auth_failed,        *)
(* a connection may drop at any time, and a crawl returns a result or      *)
(* raises (BrowserManager is its own module).  Frames that change nothing  *)
(* here (malformed ones, unknown types, errors that are not terminal) are  *)
(* stuttering steps.                                                       *)
(***************************************************************************)
EXTENDS Integers, Sequences, FiniteSets

CONSTANTS Jobs,              \* fetch frames the gateway may send
          MAX_PENDING_JOBS,
          Durations,         \* how long, in ms, a connect or an open socket may last
          MaxFaults          \* bound on failed connects and dropped connections

ASSUME GatewayAssumption ==
  /\ IsFiniteSet(Jobs)
  /\ MAX_PENDING_JOBS \in Nat
  /\ Durations \subseteq Nat /\ Durations # {}
  /\ MaxFaults \in Nat

INITIAL_BACKOFF_MS == 1000
MAX_BACKOFF_MS == 30000
BACKOFF_RESET_AFTER_MS == 10000

NoSocket == 0

VARIABLES
  run,        \* _run_forever: "off", "connecting", "open", "sleeping", "ended"
  stopped,    \* _stopped
  paused,     \* _paused
  conns,      \* connections opened so far; the last one is the current one
  alive,      \* the current connection still carries frames
  socket,     \* _socket, as the number of its connection
  registered, \* _registered
  backoff,    \* _backoff_ms
  took,       \* ms the current attempt took to connect
  pending,    \* _pending
  served,     \* jobs_served
  job,        \* job[j]: where the task of frame j is
  sendOn,     \* sendOn[j]: the socket _send captured
  faults,     \* failed connects and drops so far
  acked,      \* history: the last connection the gateway acknowledged
  origin,     \* history: the connection frame j came in on
  results,    \* history: the connections j's result frames were written to
  shorts      \* history: attempts in a row that ended before the reset time

connVars == <<run, conns, alive, socket, registered, backoff, took, acked, shorts>>
flagVars == <<stopped, paused>>
countVars == <<pending, served>>
jobVars  == <<job, sendOn, origin, results>>
vars == <<connVars, flagVars, countVars, jobVars, faults>>

JobStates == {"new", "scheduled", "resolving", "crawling", "busy", "refusing",
              "replying", "done", "cancelled"}

(* Admitted: the job is inside the try of _handle_fetch.                   *)
Admitted == {"resolving", "crawling", "refusing", "replying"}
Live == Admitted \cup {"scheduled", "busy"}

Init ==
  /\ run = "off" /\ stopped = FALSE /\ paused = FALSE
  /\ conns = 0 /\ alive = FALSE /\ socket = NoSocket /\ registered = FALSE
  /\ backoff = INITIAL_BACKOFF_MS /\ took = 0
  /\ pending = 0 /\ served = 0
  /\ job = [j \in Jobs |-> "new"]
  /\ sendOn = [j \in Jobs |-> NoSocket]
  /\ faults = 0
  /\ acked = NoSocket
  /\ origin = [j \in Jobs |-> NoSocket]
  /\ results = [j \in Jobs |-> <<>>]
  /\ shorts = 0

-----------------------------------------------------------------------------
(* The connection.                                                         *)

Fault == faults < MaxFaults /\ faults' = faults + 1

next_backoff_ms(current) == IF current * 2 < MAX_BACKOFF_MS
                            THEN current * 2 ELSE MAX_BACKOFF_MS

(* Mutant of BackoffAfter: any attempt that got a socket resets the delay. *)
ResetOnOpen(elapsed) == IF run = "open" THEN INITIAL_BACKOFF_MS ELSE backoff

(* The delay after an attempt of that many ms, the connect included.       *)
BackoffAfter(elapsed) == IF elapsed >= BACKOFF_RESET_AFTER_MS
                         THEN INITIAL_BACKOFF_MS ELSE backoff

(* start() over a transport it accepts; over plain ws:// to a remote host  *)
(* it returns and nothing ever happens.                                    *)
Start ==
  /\ run = "off" /\ ~stopped
  /\ run' = "connecting"
  /\ UNCHANGED <<conns, alive, socket, registered, backoff, took, acked, shorts,
                 flagVars, countVars, jobVars, faults>>

(* The handshake is done: the socket is published, the token read (which   *)
(* does not suspend) and the register frame written.                       *)
Connect ==
  /\ run = "connecting"
  /\ run' = "open"
  /\ conns' = conns + 1
  /\ alive' = TRUE
  /\ socket' = conns'
  /\ \E d \in Durations : took' = d
  /\ UNCHANGED <<registered, backoff, acked, shorts, flagVars, countVars,
                 jobVars, faults>>

(* Mutant of AttemptEnds: the flag survives the connection.                *)
KeepsRegistered(elapsed) ==
  /\ registered' = registered
  /\ socket' = NoSocket
  /\ shorts' = IF elapsed >= BACKOFF_RESET_AFTER_MS THEN 0 ELSE shorts + 1
  /\ IF stopped \/ paused
     THEN run' = "ended" /\ backoff' = backoff
     ELSE run' = "sleeping" /\ backoff' = BackoffAfter(elapsed)

(* Mutant of AttemptEnds: the loop is left unless the worker was registered. *)
GivesUp(elapsed) ==
  /\ registered' = FALSE
  /\ socket' = NoSocket
  /\ shorts' = IF elapsed >= BACKOFF_RESET_AFTER_MS THEN 0 ELSE shorts + 1
  /\ IF stopped \/ paused \/ ~registered
     THEN run' = "ended" /\ backoff' = backoff
     ELSE run' = "sleeping" /\ backoff' = BackoffAfter(elapsed)

(* Mutant of AttemptEnds: a terminal error is retried.                     *)
RetriesPaused(elapsed) ==
  /\ registered' = FALSE
  /\ socket' = NoSocket
  /\ shorts' = IF elapsed >= BACKOFF_RESET_AFTER_MS THEN 0 ELSE shorts + 1
  /\ run' = "sleeping" /\ backoff' = BackoffAfter(elapsed)

(* _run_forever after _connect_once, up to its sleep.                      *)
AttemptEnds(elapsed) ==
  /\ registered' = FALSE
  /\ socket' = NoSocket
  /\ shorts' = IF elapsed >= BACKOFF_RESET_AFTER_MS THEN 0 ELSE shorts + 1
  /\ IF stopped \/ paused
     THEN run' = "ended" /\ backoff' = backoff
     ELSE run' = "sleeping" /\ backoff' = BackoffAfter(elapsed)

(* The connect is refused or times out.                                    *)
ConnectFails ==
  /\ run = "connecting" /\ Fault
  /\ \E d \in Durations : took' = d /\ AttemptEnds(d)
  /\ UNCHANGED <<conns, alive, acked, flagVars, countVars, jobVars>>

(* The gateway or the network closes the connection; the client has not    *)
(* noticed yet.                                                            *)
Drop ==
  /\ run = "open" /\ alive /\ Fault
  /\ alive' = FALSE
  /\ UNCHANGED <<run, conns, socket, registered, backoff, took, acked, shorts,
                 flagVars, countVars, jobVars>>

(* The receive loop ends.                                                  *)
Disconnected ==
  /\ run = "open" /\ ~alive
  /\ \E d \in Durations : AttemptEnds(took + d)
  /\ UNCHANGED <<conns, alive, took, acked, flagVars, countVars, jobVars, faults>>

(* The sleep is over; the delay doubles for the next time.                 *)
Slept ==
  /\ run = "sleeping"
  /\ run' = "connecting"
  /\ backoff' = next_backoff_ms(backoff)
  /\ UNCHANGED <<conns, alive, socket, registered, took, acked, shorts, flagVars,
                 countVars, jobVars, faults>>

-----------------------------------------------------------------------------
(* Dispatch of the frames that change something.  Frames received before a *)
(* drop are still dispatched after it.                                     *)

Registered ==
  /\ run = "open" /\ ~paused
  /\ registered' = TRUE
  /\ acked' = conns
  /\ UNCHANGED <<run, conns, alive, socket, backoff, took, shorts, flagVars,
                 countVars, jobVars, faults>>

(* device_auth_failed.                                                     *)
AuthFailed ==
  /\ run = "open" /\ ~paused
  /\ paused' = TRUE
  /\ UNCHANGED <<connVars, stopped, countVars, jobVars, faults>>

(* A well-formed fetch frame: its task is created, not started.            *)
FetchArrives(j) ==
  /\ run = "open" /\ acked = conns /\ ~paused /\ job[j] = "new"
  /\ job' = [job EXCEPT ![j] = "scheduled"]
  /\ origin' = [origin EXCEPT ![j] = conns]
  /\ UNCHANGED <<connVars, flagVars, countVars, sendOn, results, faults>>

-----------------------------------------------------------------------------
(* The task of a fetch frame.                                              *)

(* _send up to its await, with the socket captured.  A send that need not  *)
(* wait, or has no socket to wait for, ends in Sent all the same.          *)
Send(j, state) ==
  /\ job' = [job EXCEPT ![j] = state]
  /\ sendOn' = [sendOn EXCEPT ![j] = socket]
  /\ UNCHANGED <<origin, results>>

(* Mutant of Begin: the limit is checked after the increment.              *)
BeginCountsFirst(j) ==
  /\ job[j] = "scheduled"
  /\ pending' = pending + 1
  /\ IF pending >= MAX_PENDING_JOBS
     THEN Send(j, "busy")
     ELSE \/ Send(j, "refusing")
          \/ job' = [job EXCEPT ![j] = "resolving"] /\ UNCHANGED <<sendOn, origin, results>>
  /\ UNCHANGED <<connVars, flagVars, served, faults>>

(* The limit, then check_url: refused, or on to the name lookup.           *)
Begin(j) ==
  /\ job[j] = "scheduled"
  /\ IF pending >= MAX_PENDING_JOBS
     THEN /\ Send(j, "busy")
          /\ UNCHANGED pending
     ELSE /\ pending' = pending + 1
          /\ \/ Send(j, "refusing")
             \/ /\ job' = [job EXCEPT ![j] = "resolving"]
                /\ UNCHANGED <<sendOn, origin, results>>
  /\ UNCHANGED <<connVars, flagVars, served, faults>>

(* Mutant of Resolved: no return after the private-host refusal.           *)
ResolvedFallsThrough(j) ==
  /\ job[j] = "resolving"
  /\ job' = [job EXCEPT ![j] = "crawling"]
  /\ \/ UNCHANGED results
     \/ results' = [results EXCEPT ![j] = Append(@, socket)]
  /\ UNCHANGED <<sendOn, origin, connVars, flagVars, countVars, faults>>

(* resolves_to_private answers or raises: refused, or on to the crawl.     *)
Resolved(j) ==
  /\ job[j] = "resolving"
  /\ \/ Send(j, "refusing")
     \/ /\ job' = [job EXCEPT ![j] = "crawling"]
        /\ UNCHANGED <<sendOn, origin, results>>
  /\ UNCHANGED <<connVars, flagVars, countVars, faults>>

(* navigate_and_extract returns, or raises and is answered as an error.    *)
Crawled(j) ==
  /\ job[j] = "crawling"
  /\ Send(j, "replying") \/ Send(j, "refusing")
  /\ UNCHANGED <<connVars, flagVars, countVars, faults>>

(* A captured socket takes the frame only while its connection is the      *)
(* current one and alive; otherwise send raises, which _send swallows.     *)
Writable(s) == s # NoSocket /\ s = conns /\ alive

(* The send is over, and with it the task: the served count for a crawl    *)
(* that returned, the finally clause for an admitted job.                  *)
Sent(j) ==
  /\ job[j] \in {"busy", "refusing", "replying"}
  /\ job' = [job EXCEPT ![j] = "done"]
  /\ results' = IF Writable(sendOn[j])
                THEN [results EXCEPT ![j] = Append(@, sendOn[j])] ELSE results
  /\ pending' = IF job[j] = "busy" THEN pending ELSE pending - 1
  /\ served' = IF job[j] = "replying" THEN served + 1 ELSE served
  /\ UNCHANGED <<sendOn, origin, connVars, flagVars, faults>>

-----------------------------------------------------------------------------
(* Mutant of Stop: the loop's own task is left out.                        *)
StopKeepsLoop ==
  /\ ~stopped
  /\ stopped' = TRUE
  /\ alive' = FALSE
  /\ job' = [j \in Jobs |-> IF job[j] \in Live THEN "cancelled" ELSE job[j]]
  /\ pending' = pending - Cardinality({j \in Jobs : job[j] \in Admitted})
  /\ UNCHANGED <<run, paused, conns, socket, registered, backoff, took, acked, shorts,
                 served, sendOn, origin, results, faults>>

(* stop(): the loop and every job task are cancelled, the socket is closed *)
(* and not forgotten.                                                      *)
Stop ==
  /\ ~stopped
  /\ stopped' = TRUE
  /\ run' = IF run = "off" THEN run ELSE "ended"
  /\ alive' = FALSE
  /\ job' = [j \in Jobs |-> IF job[j] \in Live THEN "cancelled" ELSE job[j]]
  /\ pending' = pending - Cardinality({j \in Jobs : job[j] \in Admitted})
  /\ UNCHANGED <<paused, conns, socket, registered, backoff, took, acked, shorts,
                 served, sendOn, origin, results, faults>>

Terminated == stopped /\ UNCHANGED vars

ConnectStep == Connect \/ ConnectFails

JobStep(j) == Begin(j) \/ Resolved(j) \/ Crawled(j) \/ Sent(j)

Next == \/ Start \/ ConnectStep \/ Drop \/ Disconnected \/ Slept
        \/ Registered \/ AuthFailed
        \/ \E j \in Jobs : FetchArrives(j) \/ JobStep(j)
        \/ Stop \/ Terminated

Spec == Init /\ [][Next]_vars

(* The loop's tasks run, timers fire, a dead connection is noticed (the    *)
(* websocket library's keepalive), a crawl ends.  Nothing obliges the      *)
(* gateway to acknowledge or to send, or anyone to stop the worker.        *)
Fairness ==
  /\ WF_vars(ConnectStep) /\ WF_vars(Disconnected) /\ WF_vars(Slept)
  /\ \A j \in Jobs : WF_vars(JobStep(j))

FairSpec == Spec /\ Fairness

-----------------------------------------------------------------------------
(* Safety.                                                                 *)

ConnTypes ==
  /\ run \in {"off", "connecting", "open", "sleeping", "ended"}
  /\ conns \in Nat /\ socket \in Nat /\ acked \in Nat
  /\ backoff \in Nat
  /\ INITIAL_BACKOFF_MS <= backoff /\ backoff <= MAX_BACKOFF_MS
  /\ took \in Nat /\ shorts \in Nat

FlagTypes ==
  /\ stopped \in BOOLEAN /\ paused \in BOOLEAN
  /\ alive \in BOOLEAN /\ registered \in BOOLEAN

JobTypes ==
  /\ job \in [Jobs -> JobStates]
  /\ sendOn \in [Jobs -> Nat]
  /\ origin \in [Jobs -> Nat]
  /\ results \in [Jobs -> Seq(Nat)]

TypeOK ==
  /\ ConnTypes /\ FlagTypes /\ JobTypes
  /\ pending \in Int /\ served \in Nat
  /\ faults \in 0..MaxFaults

(* _pending is exactly the number of jobs inside the try of _handle_fetch, *)
(* whatever way they leave it (refusal, result, exception, cancel), and a  *)
(* flood of frames never takes it past MAX_PENDING_JOBS.                   *)
AdmittedJobs == {j \in Jobs : job[j] \in Admitted}
PendingExact == pending = Cardinality(AdmittedJobs) /\ pending <= MAX_PENDING_JOBS

(* A fetch frame is answered at most once, when its task ends, over all    *)
(* the early returns and error paths and across reconnects.                *)
AnsweredOnce ==
  \A j \in Jobs : /\ Len(results[j]) <= 1
                  /\ job[j] # "done" => results[j] = <<>>

(* is_registered(), half of /readyz, is about the connection there is: the *)
(* gateway acknowledged that one, not one before a reconnect.              *)
ReadyIsAcked == registered => /\ socket # NoSocket
                              /\ acked = conns /\ socket = conns

(* _socket is set exactly while the loop is inside a connection, until     *)
(* stop() leaves it behind.                                                *)
SocketIsCurrent ==
  /\ ~stopped => (socket # NoSocket <=> run = "open")
  /\ run = "open" => socket = conns

(* device_auth_failed is terminal: "reconnecting with the same rejected    *)
(* token is pointless" (gateway.py:194), so no connection is opened again. *)
PausedStaysDown == [][paused => conns' = conns]_vars

(* What the delay is at least, after that many short attempts in a row.    *)
LeastDelay(k) == IF k <= 1 THEN INITIAL_BACKOFF_MS
                 ELSE IF k = 2 THEN 2 * INITIAL_BACKOFF_MS
                 ELSE IF k = 3 THEN 4 * INITIAL_BACKOFF_MS
                 ELSE IF k = 4 THEN 8 * INITIAL_BACKOFF_MS
                 ELSE IF k = 5 THEN 16 * INITIAL_BACKOFF_MS
                 ELSE MAX_BACKOFF_MS

(* After k attempts in a row that ended within BACKOFF_RESET_AFTER_MS the  *)
(* loop waits at least INITIAL_BACKOFF_MS * 2^(k-1), up to the maximum: an *)
(* "accept-then-reject loop does not become a 1s hammer" (gateway.py:141). *)
NoHammer == run = "sleeping" => backoff >= LeastDelay(shorts)

-----------------------------------------------------------------------------
(* The inductive invariant.                                                *)

(* A terminal error leaves the loop in its last connection or ended.       *)
PausedIsLast == paused => run \in {"open", "ended"}

(* The loop has ended once stop() was called, or never started.            *)
StoppedIsOver == stopped => run \in {"off", "ended"}

(* Frames come in only over a connection.                                  *)
NothingBeforeStart == run = "off" => ~paused /\ ~registered /\ socket = NoSocket

Inv == /\ TypeOK /\ PendingExact /\ AnsweredOnce /\ ReadyIsAcked
       /\ SocketIsCurrent /\ PausedIsLast /\ StoppedIsOver /\ NothingBeforeStart

(* NoHammer and what it needs: an attempt begins with the delay that would *)
(* be due if it were one more short one.                                   *)
BackoffGrows ==
  /\ NoHammer
  /\ run = "off" => shorts = 0
  /\ run \in {"connecting", "open"} => backoff >= LeastDelay(shorts + 1)

-----------------------------------------------------------------------------
(* Liveness.                                                               *)

(* A lost connection is replaced, unless the worker stops or its token was *)
(* rejected.                                                               *)
Reconnects ==
  (run \in {"connecting", "sleeping"} \/ (run = "open" /\ ~alive))
    ~> (run = "open" /\ alive) \/ stopped \/ paused
=============================================================================
