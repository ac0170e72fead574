----------------------------- MODULE FetchBudget -----------------------------
(***************************************************************************)
(* Where the time of one crawl goes: _fetch (browser.py) under its single  *)
(* NAVIGATION_TIMEOUT_MS deadline, from the launch to the page's title.    *)
(*                                                                         *)
(* A step is one await of the code.  One that has a timeout lets any time  *)
(* pass that the timeout allows; one that has none (the launch, the body   *)
(* of a response, the queries of the JSON viewer and of the rules, the     *)
(* title, and a Playwright wait given timeout 0, which means none) lets    *)
(* any time of UntimedTimes pass.  Time is counted in units a              *)
(* configuration chooses, the constants are the code's in these units.     *)
(* What the job asks for and what the page does is chosen where the code   *)
(* first looks at it.                                                      *)
(***************************************************************************)
EXTENDS Integers

CONSTANTS
  NAVIGATION_TIMEOUT,   \* the whole crawl: 30 s
  SETTLE_DEFAULT, SETTLE_MAX, DETECT_DEFAULT, DETECT_MAX,
  GRACE,                \* exec_js and _page_content: 1 s on top of the budget
  RETRY_GOTO,           \* least time left to repeat an interrupted goto: 1 s
  RETRY_EXTRACT,        \* least time left to repeat an extraction: 0.5 s
  RESETTLE,             \* settle before that: 2 s
  DRAIN,                \* _drain_error_page: 0.5 s
  PROBE_PAUSE,          \* pause between two rounds of the probe: 0.05 s
  POLL_BUDGET,          \* content budget of one settle poll: 5 s
  POLL_SLEEP,           \* pause between two settle polls: 0.25 s
  JSON_TIMEOUT,         \* Playwright's own default, for the JSON request: 30 s
  SettleTimes,          \* settleMs of a job; 0: not given
  DetectTimes,          \* detectMs of a job; 0: not given
  UntimedTimes          \* how long an await without a timeout is followed

ASSUME BudgetAssumption ==
  /\ NAVIGATION_TIMEOUT \in Nat
  /\ SETTLE_DEFAULT \in Nat \ {0} /\ SETTLE_MAX \in Nat
  /\ DETECT_DEFAULT \in Nat \ {0} /\ DETECT_MAX \in Nat
  /\ GRACE \in Nat
  /\ RETRY_GOTO \in Nat \ {0} /\ RETRY_EXTRACT \in Nat \ {0}
  /\ RESETTLE \in Nat /\ PROBE_PAUSE \in Nat
  /\ DRAIN \in Nat /\ DRAIN <= 2 * GRACE
  /\ POLL_BUDGET \in Nat /\ POLL_SLEEP \in Nat /\ JSON_TIMEOUT \in Nat
  /\ SettleTimes \subseteq Nat /\ DetectTimes \subseteq Nat /\ UntimedTimes \subseteq Nat

VARIABLES
  pc,         \* the await the crawl is at
  elapsed,    \* time since `started`
  until,      \* deadline of the probe or of the settle poll under way
  json,       \* the document: "no" JSON, "lost" or "kept" when it is
  outcome,    \* "none" until the page is read, then "ok" or "failed"
  late,       \* history: time past the deadline spent in awaits without timeout
  polled,     \* history: a CSP made the settle poll
  refetched   \* history: the JSON was requested a second time

vars == <<pc, elapsed, until, json, outcome, late, polled, refetched>>

Stages == {"launch", "goto", "regoto", "drain", "json", "refetch", "body", "rules",
           "probe", "pause", "mode", "idle", "selector", "settle", "poll", "extract",
           "resettle", "repoll", "reextract", "title", "done"}

Init == /\ pc = "launch"
        /\ elapsed = 0 /\ late = 0 /\ until = 0
        /\ json = "no"
        /\ outcome = "none"
        /\ polled = FALSE /\ refetched = FALSE

-----------------------------------------------------------------------------
Least(a, b) == IF a < b THEN a ELSE b
Greatest(a, b) == IF a < b THEN b ELSE a

(* remaining_ms                                                            *)
Remaining == IF elapsed < NAVIGATION_TIMEOUT THEN NAVIGATION_TIMEOUT - elapsed ELSE 0

(* Mutant of effective_settle_cap: the remaining budget is left out.       *)
SettleUnbudgeted(settle, budget) ==
  Least(IF settle > 0 THEN settle ELSE SETTLE_DEFAULT, SETTLE_MAX)

effective_settle_cap(settle, budget) ==
  Least(Least(IF settle > 0 THEN settle ELSE SETTLE_DEFAULT, budget), SETTLE_MAX)

effective_detect_probe(detect, budget) ==
  Least(Least(IF detect > 0 THEN detect ELSE DETECT_DEFAULT, budget), DETECT_MAX)

(* An await that ends within that time.                                    *)
Within(time) == /\ \E d \in 0..time : elapsed' = elapsed + d
                /\ UNCHANGED late

(* An await without a timeout; what of it lies past the deadline is noted. *)
Past(t) == IF t > NAVIGATION_TIMEOUT THEN t - NAVIGATION_TIMEOUT ELSE 0

Untimed == \E u \in UntimedTimes : /\ elapsed' = elapsed + u
                                   /\ late' = late + Past(elapsed + u) - Past(elapsed)

(* A Playwright wait: timeout 0 means none.                                *)
PlaywrightWait(timeout) == IF timeout > 0 THEN Within(timeout) ELSE Untimed

NoTime == UNCHANGED <<elapsed, late>>

(* The crawl goes on to the reading, or has the JSON it kept, which fails  *)
(* it all the same if it is blank.                                         *)
Capture == IF json = "kept" THEN pc' = "title" /\ outcome' \in {"ok", "failed"}
                            ELSE pc' = "extract" /\ UNCHANGED outcome

GoOn(stage) == pc' = stage /\ UNCHANGED outcome

Fail == pc' = "done" /\ outcome' = "failed"

-----------------------------------------------------------------------------
(* ensure_browser is inside the budget but not bounded by it.              *)
Launch ==
  /\ pc = "launch"
  /\ Untimed
  /\ GoOn("goto") \/ Fail
  /\ UNCHANGED <<until, json, polled, refetched>>

(* _goto: an interrupted navigation is repeated if enough time is left; a  *)
(* failed one drains the error page.                                       *)
Goto ==
  /\ pc = "goto"
  /\ PlaywrightWait(Remaining)
  /\ \/ GoOn("json") \/ GoOn("drain")
     \/ GoOn("regoto") /\ Remaining' >= RETRY_GOTO
  /\ UNCHANGED <<until, json, polled, refetched>>

Regoto ==
  /\ pc = "regoto"
  /\ PlaywrightWait(Remaining)
  /\ GoOn("json") \/ GoOn("drain")
  /\ UNCHANGED <<until, json, polled, refetched>>

Drain ==
  /\ pc = "drain"
  /\ Within(DRAIN)
  /\ Fail
  /\ UNCHANGED <<until, json, polled, refetched>>

(* _raw_body_if_json: the body of the response and the two places of the   *)
(* viewer, none with a timeout, before a second request, which has         *)
(* Playwright's own.                                                       *)
RawJson ==
  /\ pc = "json"
  /\ \/ NoTime /\ GoOn("rules") /\ UNCHANGED json
     \/ Untimed /\ GoOn("rules") /\ json' = "kept"
     \/ Untimed /\ GoOn("refetch") /\ UNCHANGED json
  /\ UNCHANGED <<until, polled, refetched>>

Refetch ==
  /\ pc = "refetch"
  /\ Within(JSON_TIMEOUT)
  /\ refetched' = TRUE
  /\ \/ GoOn("body") /\ UNCHANGED json
     \/ GoOn("rules") /\ json' = "lost"
  /\ UNCHANGED <<until, polled>>

RefetchedBody ==
  /\ pc = "body"
  /\ Untimed
  /\ GoOn("rules")
  /\ json' \in {"lost", "kept"}
  /\ UNCHANGED <<until, polled, refetched>>

(* _probe_rules, when the job has rules: round by round, the queries of a  *)
(* round without a timeout, until a guard matches or the time is over.     *)
Rules ==
  /\ pc = "rules"
  /\ NoTime
  /\ \/ GoOn("mode") /\ UNCHANGED until
     \/ \E detect \in DetectTimes :
          /\ until' = elapsed + effective_detect_probe(detect, Remaining)
          /\ GoOn("probe")
  /\ UNCHANGED <<json, polled, refetched>>

Probe ==
  /\ pc = "probe"
  /\ Untimed
  /\ \/ GoOn("mode") /\ until' = 0
     \/ elapsed' < until /\ GoOn("pause") /\ UNCHANGED until
  /\ UNCHANGED <<json, polled, refetched>>

Pause ==
  /\ pc = "pause"
  /\ elapsed' = elapsed + PROBE_PAUSE /\ UNCHANGED late
  /\ GoOn("probe")
  /\ UNCHANGED <<until, json, polled, refetched>>

(* wait_branch: capture at once, settle, or a Playwright wait for the      *)
(* network or for a selector, which then settles unless it timed out.      *)
Mode ==
  /\ pc = "mode"
  /\ NoTime
  /\ Capture \/ GoOn("settle") \/ GoOn("idle") \/ GoOn("selector")
  /\ UNCHANGED <<until, json, polled, refetched>>

NetworkIdle ==
  /\ pc = "idle"
  /\ PlaywrightWait(Remaining)
  /\ Capture
  /\ UNCHANGED <<until, json, polled, refetched>>

WaitSelector ==
  /\ pc = "selector"
  /\ PlaywrightWait(Remaining)
  /\ Capture \/ GoOn("settle")
  /\ UNCHANGED <<until, json, polled, refetched>>

(* _settle: the snippet ends by its cap, exec_js a grace later; a CSP that *)
(* forbids eval fails at once and the DOM is polled up to the cap instead. *)
SettleThen(cap, after, poll) ==
  \/ Within(cap + GRACE) /\ after /\ UNCHANGED <<until, polled>>
  \/ /\ NoTime
     /\ GoOn(poll)
     /\ until' = elapsed + cap
     /\ polled' = TRUE

Settle ==
  /\ pc = "settle"
  /\ \E settle \in SettleTimes :
       SettleThen(effective_settle_cap(settle, Remaining), Capture, "poll")
  /\ UNCHANGED <<json, refetched>>

(* One round of _settle_by_polling, or the end of its loop.                *)
PollThen(after) ==
  \/ elapsed < until /\ Within(POLL_BUDGET + GRACE) /\ after /\ until' = 0
  \/ /\ elapsed < until
     /\ \E d \in 0..(POLL_BUDGET + GRACE) : elapsed' = elapsed + d + POLL_SLEEP
     /\ GoOn(pc)
     /\ UNCHANGED <<until, late>>
  \/ elapsed >= until /\ NoTime /\ after /\ until' = 0

Poll ==
  /\ pc = "poll"
  /\ PollThen(Capture)
  /\ UNCHANGED <<json, polled, refetched>>

(* _extract_html: the first reading, and if a navigation destroyed its     *)
(* context a short settle and a second one.                                *)
Extract ==
  /\ pc = "extract"
  /\ Within(Remaining + GRACE)
  /\ \/ pc' = "title" /\ outcome' \in {"ok", "failed"}
     \/ GoOn("resettle") /\ Remaining' >= RETRY_EXTRACT
  /\ UNCHANGED <<until, json, polled, refetched>>

Resettle ==
  /\ pc = "resettle"
  /\ SettleThen(effective_settle_cap(0, Least(Remaining, RESETTLE)),
                GoOn("reextract"), "repoll")
  /\ UNCHANGED <<json, refetched>>

Repoll ==
  /\ pc = "repoll"
  /\ PollThen(GoOn("reextract"))
  /\ UNCHANGED <<json, polled, refetched>>

Reextract ==
  /\ pc = "reextract"
  /\ Within(Remaining + GRACE)
  /\ pc' = "title" /\ outcome' \in {"ok", "failed"}
  /\ UNCHANGED <<until, json, polled, refetched>>

(* _safe_title, for a page that was read and for one that was not.         *)
Title ==
  /\ pc = "title"
  /\ Untimed
  /\ GoOn("done")
  /\ UNCHANGED <<until, json, polled, refetched>>

-----------------------------------------------------------------------------
Terminated == pc = "done" /\ UNCHANGED vars

Crawl == \/ Launch \/ Goto \/ Regoto \/ Drain \/ RawJson \/ Refetch \/ RefetchedBody
         \/ Rules \/ Probe \/ Pause \/ Mode \/ NetworkIdle \/ WaitSelector
         \/ Settle \/ Poll \/ Extract \/ Resettle \/ Repoll \/ Reextract \/ Title

Next == Crawl \/ Terminated

Spec == Init /\ [][Next]_vars

(* Every await ends but a Playwright wait that was given no timeout.       *)
NoTimeout == pc \in {"goto", "regoto", "idle", "selector"} /\ Remaining = 0

FairSpec == Spec /\ WF_vars(Crawl /\ ~NoTimeout)

-----------------------------------------------------------------------------
TypeOK ==
  /\ pc \in Stages
  /\ elapsed \in Nat /\ late \in Nat /\ until \in Nat
  /\ json \in {"no", "lost", "kept"}
  /\ outcome \in {"none", "ok", "failed"}
  /\ polled \in BOOLEAN /\ refetched \in BOOLEAN

(* A crawl ends within two graces of its budget, whatever the job asks for *)
(* and however its waits share the time, but for three overruns, of which  *)
(* only the longest counts: a pause of the probe, a round of the settle's  *)
(* polling, the second request for a JSON document.  The awaits to which   *)
(* the code gives no timeout are beyond any such bound: what of them lies  *)
(* past the deadline is counted apart.                                     *)
Overrun == Greatest(PROBE_PAUSE,
                    Greatest(IF polled THEN POLL_BUDGET + POLL_SLEEP ELSE 0,
                             IF refetched THEN JSON_TIMEOUT ELSE 0))

BudgetKept == pc = "done" => elapsed <= late + NAVIGATION_TIMEOUT + Overrun + 2 * GRACE

(* The inductive invariant: how late each stage may begin.                 *)
StageBound ==
  /\ pc \in {"launch", "goto", "regoto", "drain", "json", "refetch", "resettle"}
       => elapsed <= late + NAVIGATION_TIMEOUT
  /\ pc \in {"body", "rules", "probe", "mode", "idle", "selector", "settle"}
       => elapsed <= late + NAVIGATION_TIMEOUT + Overrun
  /\ pc = "pause"
       => elapsed <= NAVIGATION_TIMEOUT
  /\ pc \in {"poll", "repoll", "extract", "reextract"}
       => elapsed <= late + NAVIGATION_TIMEOUT + Overrun + GRACE
  /\ pc \in {"title", "done"}
       => elapsed <= late + NAVIGATION_TIMEOUT + Overrun + 2 * GRACE

(* A loop under way has a deadline within the budget, or one that passed.  *)
LoopBound ==
  /\ pc \in {"probe", "pause", "poll", "repoll"}
       => until <= NAVIGATION_TIMEOUT \/ until <= elapsed
  /\ pc \in {"poll", "repoll"} => polled

Inv == TypeOK /\ StageBound /\ LoopBound

-----------------------------------------------------------------------------
(* "A selector that never matches ... times out" (browser.py:656): the     *)
(* wait for a selector ends.                                               *)
SelectorTimesOut == pc = "selector" ~> pc # "selector"
=============================================================================
