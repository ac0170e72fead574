------------------------------ MODULE PageWaits ------------------------------
(***************************************************************************)
(* The two waits of a crawl that watch the page themselves (browser.py):   *)
(* _settle, by the SETTLE_STABLE snippet (snippets.py) or, where a CSP     *)
(* forbids it, by _settle_by_polling; and _probe_rules, which looks at the *)
(* guard selectors one by one.  FetchBudget takes the time they need for   *)
(* granted; here time passes tick by tick while the page goes on changing. *)
(*                                                                         *)
(* The page is external.  It starts the snippet, runs its timers and       *)
(* answers a query when it likes, late or never; a timeout or a sleep of   *)
(* the worker ends in time.  A change is one the wait is meant to see: of  *)
(* the tree or a text for the snippet, of anything for the polling.        *)
(***************************************************************************)
EXTENDS Integers

CONSTANTS
  QUIET,      \* STABLE_QUIET_MS and the snippet's QUIET: 500 ms
  POLL,       \* STABLE_POLL_MS: 250 ms
  PAUSE,      \* between two rounds of probes: 50 ms
  READ,       \* content budget of one poll: 5 s
  GRACE,      \* exec_js and _page_content: 1 s on top of the budget
  Caps,       \* settle caps (effective_settle_cap)
  Budgets,    \* probe times (effective_detect_probe)
  Selectors,  \* number of guard selectors
  Contents    \* contents the page may have

ASSUME WaitsAssumption ==
  /\ QUIET \in Nat /\ POLL \in 1..QUIET /\ PAUSE \in Nat \ {0}
  /\ READ \in Nat /\ GRACE \in Nat \ {0}
  /\ Caps \subseteq Nat /\ Budgets \subseteq Nat
  /\ Selectors \in Nat \ {0} /\ Contents \in Nat

VARIABLES
  pc,        \* "idle"; "script", "poll", "read", "sleep"; "query", "check",
             \* "pause"; "done"
  left,      \* time to the deadline of the wait
  timer,     \* time to the end of the await or the sleep under way
  cap,       \* the settle cap
  script,    \* the snippet: "off", "running", "finished"
  quiet, capTimer,  \* time left on its timers
  copy,      \* what page.content() found, not returned yet; or None
  previous,  \* the content read before, or None
  change,    \* time since last_change
  index,     \* the selector looked at
  result,    \* the index found, 0 for -1
  doc, newest,      \* the page's content, and the newest there was
  shown,     \* the selectors that match something visible
  calm,      \* history: time since the page changed, up to QUIET
  back,      \* history: it changed to a content it had before
  still,     \* history: the same of the content the wait has seen, at that time
  lag,       \* history: how long that content was on its way, up to QUIET
  steady,    \* history: selectors shown ever since the round began
  why        \* history: what ended the settle wait

codeVars == <<pc, left, timer, cap, previous, change, index, result>>
scriptVars == <<script, quiet, capTimer>>
pageVars == <<doc, newest, shown, calm, back>>
seenVars == <<copy, still, lag, steady, why>>
vars == <<codeVars, scriptVars, pageVars, seenVars>>

None == -1
Guards == 1..Selectors

Settling == pc \in {"script", "poll", "read", "sleep"}
Probing == pc \in {"query", "check", "pause"}

Init ==
  /\ pc = "idle" /\ left = 0 /\ timer = 0 /\ cap = 0
  /\ script = "off" /\ quiet = 0 /\ capTimer = 0
  /\ copy = None /\ previous = None /\ change = 0
  /\ index = 1 /\ result = 0
  /\ doc = 0 /\ newest = 0 /\ shown \in SUBSET Guards
  /\ calm = 0 /\ back = FALSE /\ still = 0 /\ lag = 0
  /\ steady = {} /\ why = "none"

-----------------------------------------------------------------------------
(* The settle snippet, inside exec_js.                                     *)

Settle ==
  /\ pc = "idle"
  /\ pc' = "script"
  /\ cap' \in Caps
  /\ timer' = cap' + GRACE
  /\ UNCHANGED <<left, previous, change, index, result, scriptVars, pageVars, seenVars>>

Evaluate ==
  /\ pc = "script" /\ script = "off"
  /\ script' = "running"
  /\ quiet' = QUIET /\ capTimer' = cap
  /\ UNCHANGED <<codeVars, pageVars, seenVars>>

(* finish(), by either of the timers.                                      *)
Fire ==
  /\ script = "running" /\ pc = "script"
  /\ quiet = 0 \/ capTimer = 0
  /\ script' = "finished"
  /\ why' = IF capTimer = 0 THEN "cap" ELSE "quiet"
  /\ still' = calm
  /\ UNCHANGED <<codeVars, quiet, capTimer, pageVars, copy, lag, steady>>

Evaluated ==
  /\ pc = "script" /\ script = "finished"
  /\ pc' = "done"
  /\ UNCHANGED <<left, timer, cap, previous, change, index, result, scriptVars,
                 pageVars, seenVars>>

(* The page went away; or it did not answer in time.                       *)
GivesUp == /\ pc' = "done" /\ why' = "given up"
           /\ UNCHANGED <<left, timer, cap, previous, change, index, result, scriptVars,
                          pageVars, copy, still, lag, steady>>

EvaluateFails == pc = "script" /\ GivesUp

(* Mutant of EvaluateTimesOut: no deadline around page.evaluate.           *)
NoOuterDeadline == pc = "script" /\ timer = 0 /\ script = "finished" /\ GivesUp

EvaluateTimesOut == pc = "script" /\ timer = 0 /\ GivesUp

(* The CSP forbids eval: the DOM is polled, with all of the cap again.     *)
Blocked ==
  /\ pc = "script" /\ script = "off"
  /\ pc' = "poll"
  /\ left' = cap
  /\ previous' = None /\ change' = 0
  /\ UNCHANGED <<timer, cap, index, result, scriptVars, pageVars, seenVars>>

-----------------------------------------------------------------------------
(* _settle_by_polling                                                      *)

(* Mutant of Poll: each round takes the deadline anew.                     *)
PollAnew ==
  /\ pc = "poll"
  /\ \/ left > 0 /\ pc' = "read" /\ timer' = READ + GRACE /\ left' = cap /\ UNCHANGED why
     \/ left = 0 /\ pc' = "done" /\ why' = "cap" /\ UNCHANGED <<left, timer>>
  /\ copy' = None /\ still' = 0 /\ lag' = 0
  /\ UNCHANGED <<cap, previous, change, index, result, scriptVars, pageVars, steady>>

Poll ==
  /\ pc = "poll"
  /\ \/ left > 0 /\ pc' = "read" /\ timer' = READ + GRACE /\ UNCHANGED why
     \/ left = 0 /\ pc' = "done" /\ why' = "cap" /\ UNCHANGED timer
  /\ copy' = None /\ still' = 0 /\ lag' = 0
  /\ UNCHANGED <<left, cap, previous, change, index, result, scriptVars, pageVars, steady>>

(* The page serializes its content.                                        *)
Serialize ==
  /\ pc = "read" /\ copy = None
  /\ copy' = doc /\ still' = calm /\ lag' = 0
  /\ UNCHANGED <<codeVars, scriptVars, pageVars, steady, why>>

Read ==
  /\ pc = "read" /\ copy # None
  /\ \/ /\ copy # previous
        /\ previous' = copy /\ change' = 0
        /\ pc' = "sleep" /\ timer' = POLL /\ UNCHANGED why
     \/ /\ copy = previous /\ change >= QUIET
        /\ pc' = "done" /\ why' = "quiet" /\ UNCHANGED <<previous, change, timer>>
     \/ /\ copy = previous /\ change < QUIET
        /\ pc' = "sleep" /\ timer' = POLL /\ UNCHANGED <<previous, change, why>>
  /\ UNCHANGED <<left, cap, index, result, scriptVars, pageVars, copy, still, lag, steady>>

ReadFails == pc = "read" /\ GivesUp
ReadTimesOut == pc = "read" /\ timer = 0 /\ GivesUp

Wake ==
  /\ pc = "sleep" /\ timer = 0
  /\ pc' = "poll"
  /\ UNCHANGED <<left, timer, cap, previous, change, index, result, scriptVars,
                 pageVars, seenVars>>

-----------------------------------------------------------------------------
(* _probe_rules                                                            *)

Round == pc' = "query" /\ index' = 1 /\ steady' = shown

Probe ==
  /\ pc = "idle"
  /\ left' \in Budgets
  /\ Round
  /\ UNCHANGED <<timer, cap, previous, change, result, scriptVars, pageVars,
                 copy, still, lag, why>>

(* Mutant of NextSelector: the deadline is looked at after each selector.  *)
CutShort ==
  \/ left = 0 /\ pc' = "done" /\ UNCHANGED <<index, timer>>
  \/ left > 0 /\ index < Selectors /\ pc' = "query" /\ index' = index + 1 /\ UNCHANGED timer
  \/ left > 0 /\ index = Selectors /\ pc' = "pause" /\ timer' = PAUSE /\ UNCHANGED index

NextSelector ==
  \/ index < Selectors /\ pc' = "query" /\ index' = index + 1 /\ UNCHANGED timer
  \/ index = Selectors /\ left = 0 /\ pc' = "done" /\ UNCHANGED <<index, timer>>
  \/ index = Selectors /\ left > 0 /\ pc' = "pause" /\ timer' = PAUSE /\ UNCHANGED index

(* What has been shown all the time is found and visible.  Anything else   *)
(* may be there and hidden, be replaced between the two queries, or raise. *)
Found ==
  /\ pc = "query"
  /\ pc' = "check"
  /\ UNCHANGED <<left, timer, cap, previous, change, index, result, scriptVars,
                 pageVars, seenVars>>

Visible ==
  /\ pc = "check" /\ index \in shown
  /\ result' = index
  /\ pc' = "done"
  /\ UNCHANGED <<left, timer, cap, previous, change, index, scriptVars, pageVars, seenVars>>

Missed ==
  /\ pc \in {"query", "check"} /\ index \notin steady
  /\ NextSelector
  /\ UNCHANGED <<left, cap, previous, change, result, scriptVars, pageVars, seenVars>>

Resume ==
  /\ pc = "pause" /\ timer = 0
  /\ Round
  /\ UNCHANGED <<left, timer, cap, previous, change, result, scriptVars, pageVars,
                 copy, still, lag, why>>

-----------------------------------------------------------------------------
(* The page.                                                               *)

(* Mutant of Observed: the observer starts the timer once more only after  *)
(* it ran out.                                                             *)
Unobserved == quiet' = IF script = "running" /\ quiet = 0 THEN QUIET ELSE quiet

(* The MutationObserver runs before any timer of the page.                 *)
Observed == quiet' = IF script = "running" THEN QUIET ELSE quiet

Change ==
  /\ Settling
  /\ doc' \in 0..Contents \ {doc} /\ doc' <= newest + 1
  /\ newest' = IF doc' > newest THEN doc' ELSE newest
  /\ back' = (back \/ doc' <= newest)
  /\ calm' = 0
  /\ Observed
  /\ UNCHANGED <<codeVars, script, capTimer, shown, seenVars>>

Show ==
  /\ Probing
  /\ shown' \in SUBSET Guards \ {shown}
  /\ steady' = steady \cap shown'
  /\ UNCHANGED <<codeVars, scriptVars, doc, newest, calm, back, copy, still, lag,
                 why>>

-----------------------------------------------------------------------------
Down(t) == IF t > 0 THEN t - 1 ELSE 0
Up(t) == IF t < QUIET THEN t + 1 ELSE QUIET

Due == timer = 0 /\ pc \in {"script", "read", "sleep", "pause"}

Tick ==
  /\ Settling \/ Probing
  /\ pc # "poll" /\ ~Due
  /\ left' = Down(left) /\ timer' = Down(timer)
  /\ quiet' = Down(quiet) /\ capTimer' = Down(capTimer)
  /\ change' = Up(change) /\ calm' = Up(calm)
  /\ lag' = IF pc = "read" /\ copy # None THEN Up(lag) ELSE lag
  /\ UNCHANGED <<pc, cap, script, previous, index, result, doc, newest, shown,
                 back, copy, still, steady, why>>

Terminated == pc = "done" /\ UNCHANGED vars

(* What the worker does by itself, when a timer runs out.                  *)
Code == EvaluateTimesOut \/ Poll \/ ReadTimesOut \/ Wake \/ Resume

Next == \/ Settle \/ Evaluate \/ Fire \/ Evaluated \/ EvaluateFails \/ Blocked
        \/ Serialize \/ Read \/ ReadFails
        \/ Probe \/ Found \/ Visible \/ Missed
        \/ Code \/ Change \/ Show \/ Tick \/ Terminated

Spec == Init /\ [][Next]_vars

(* Time passes and the worker's timers end; the page is trusted with       *)
(* nothing, it may never answer.                                           *)
FairSpec == Spec /\ WF_vars(Tick) /\ WF_vars(Code)

-----------------------------------------------------------------------------
ControlTypes ==
  /\ pc \in {"idle", "script", "poll", "read", "sleep", "query", "check", "pause", "done"}
  /\ script \in {"off", "running", "finished"} /\ back \in BOOLEAN
  /\ why \in {"none", "cap", "quiet", "given up"}

TimeTypes ==
  /\ left \in Nat /\ timer \in Nat /\ cap \in Nat /\ quiet \in Nat /\ capTimer \in Nat
  /\ change \in Nat /\ change <= QUIET /\ calm \in Nat /\ calm <= QUIET
  /\ still \in Nat /\ lag \in Nat

ContentTypes ==
  /\ newest \in Nat /\ doc \in Nat /\ doc <= newest
  /\ copy \in Int /\ copy <= newest /\ previous \in Int /\ previous <= newest

SelectorTypes ==
  index \in Guards /\ result \in Nat /\ shown \subseteq Guards /\ steady \subseteq shown

TypeOK == ControlTypes /\ TimeTypes /\ ContentTypes /\ SelectorTypes

(* Only one wait is under way, and what the others left is not looked at.  *)
OneWait ==
  /\ pc \in {"poll", "read", "sleep"} => script = "off"
  /\ pc = "idle" \/ Probing => script = "off" /\ why = "none"
  /\ ~Probing /\ pc # "done" => steady = {}
  /\ script # "finished" /\ pc # "done" => why = "none"

(* The timer of the snippet and the calm of the page make up QUIET.        *)
TimerIsCalm ==
  /\ script = "running" => calm + quiet >= QUIET
  /\ script = "finished" /\ why = "quiet" => still >= QUIET

(* A content read twice has been there since the first time, if the page   *)
(* never goes back, and two reads are a sleep apart.  How long it has been *)
(* there is known from the time of the page's answer, change is counted to *)
(* the time the answer arrives.                                            *)
SampleIsCalm ==
  ~back =>
    /\ doc = newest
    /\ previous = doc =>
         /\ calm >= change
         /\ pc = "sleep" => calm + timer >= POLL
         /\ pc = "poll" \/ (pc = "read" /\ copy = None) => calm >= POLL
    /\ pc = "read" /\ copy # None /\ copy = previous =>
         still >= POLL /\ still + lag >= change

(* The selectors looked at in this round have not stayed visible.          *)
RoundIsKept == /\ pc \in {"query", "check"} => \A g \in steady : index <= g
               /\ pc = "pause" => steady = {}

(* What a settle wait knows of a page it calls quiet, however the changes  *)
(* fall between timers, reads and sleeps.  The snippet: that the page had  *)
(* not changed for QUIET when it finished.  The polling: that the content  *)
(* had been there for QUIET less the time the last answer was on its way,  *)
(* and for a POLL at least, unless the page went back to one it had.  Both *)
(* the sleep and last_change count: now is taken after the read            *)
(* (browser.py:751), so a slow answer passes for quiet, and a page that    *)
(* changes behind it is still captured.                                    *)
SettleKept ==
  pc = "done" /\ why = "quiet" =>
    /\ script # "off" => still >= QUIET
    /\ script = "off" /\ ~back => still >= POLL /\ still + lag >= QUIET

(* A selector that stayed visible since the last round of a probe began is *)
(* reported, or one before it in the list: a probe that runs out of time   *)
(* misses none, and a later one never wins ("by list order").              *)
ProbeKept == pc = "done" => \A g \in steady : result # 0 /\ result <= g

(* The inductive invariant.                                                *)
Inv == /\ TypeOK /\ OneWait /\ TimerIsCalm /\ SampleIsCalm /\ RoundIsKept
       /\ SettleKept /\ ProbeKept

(* "Always resolves" (snippets.py:89), "what keeps a hostile page from     *)
(* stalling a job" (snippets.py:9): the settle wait ends although the page *)
(* answers nothing.                                                        *)
SettleEnds == pc = "script" ~> pc = "done"

(* How long the settle wait may still take: to the deadline of exec_js,    *)
(* and then, for as long as the cap lasts, in rounds of a read and a       *)
(* sleep, the last of which may begin just before it is over.              *)
Polling(t) == IF t = 0 THEN 0 ELSE t - 1 + READ + GRACE + POLL
Rest == CASE pc = "script" -> timer + Polling(cap)
          [] pc = "poll"   -> Polling(left)
          [] pc = "read"   -> IF left > POLL THEN Polling(left) ELSE timer + POLL
          [] pc = "sleep"  -> IF left > timer THEN Polling(left) ELSE timer
          [] OTHER         -> 0

(* It never takes longer than the cap and its grace, and under a CSP the   *)
(* cap once more and one round on top,                                     *)
SettleBound == /\ pc = "read" => timer <= READ + GRACE
               /\ Settling => Rest \in 0..(cap + GRACE + Polling(cap))

(* and this time runs out: each tick takes from it, and nothing the page   *)
(* or the code does gives any back (exec_js, _settle_by_polling).          *)
SettleRunsOut == [][Settling => Rest' <= Rest /\ (Tick => Rest' < Rest)]_vars
=============================================================================
