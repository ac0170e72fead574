-------------------------- MODULE FetchBudget_proofs --------------------------
(***************************************************************************)
(* A crawl keeps its budget, for every value of the timeouts and however   *)
(* long the awaits without a timeout take.  The induction follows the      *)
(* crawl stage by stage: Inv bounds how late each stage may begin, leaving *)
(* out what the awaits without a timeout spent past the deadline; an await *)
(* with a timeout adds at most its grace once the deadline passed.         *)
(***************************************************************************)
EXTENDS FetchBudget, TLAPS

USE BudgetAssumption DEF Stages

(* The step ends at most `over` after the deadline, late time left out.    *)
Ends(over) == \E e, l \in Nat : /\ elapsed' = e /\ late' = l
                                /\ e <= l + NAVIGATION_TIMEOUT + over

(* The remaining budget is what is left to the deadline, never negative.   *)
LEMMA RemainingBound ==
  ASSUME elapsed \in Nat
  PROVE  /\ Remaining \in Nat
         /\ elapsed <= NAVIGATION_TIMEOUT => elapsed + Remaining = NAVIGATION_TIMEOUT
         /\ elapsed > NAVIGATION_TIMEOUT => Remaining = 0
BY DEF Remaining

(* A settle cap is within the budget it is given, whatever the job asked.  *)
LEMMA SettleCapBound ==
  ASSUME NEW settle \in Nat, NEW budget \in Nat
  PROVE  /\ effective_settle_cap(settle, budget) \in Nat
         /\ effective_settle_cap(settle, budget) <= budget
BY DEF effective_settle_cap, Least

(* And so is the time for the rules.                                       *)
LEMMA DetectProbeBound ==
  ASSUME NEW detect \in Nat, NEW budget \in Nat
  PROVE  /\ effective_detect_probe(detect, budget) \in Nat
         /\ effective_detect_probe(detect, budget) <= budget
BY DEF effective_detect_probe, Least

(* An await given the remaining budget and a grace keeps every bound from  *)
(* the deadline on but for the grace.                                      *)
LEMMA WithinBound ==
  ASSUME elapsed \in Nat, late \in Nat, NEW grace \in Nat, NEW time \in Nat,
         time <= Remaining + grace, Within(time),
         NEW over \in Nat, elapsed <= late + NAVIGATION_TIMEOUT + over
  PROVE  Ends(over + grace)
<1>1. PICK d \in 0..time : elapsed' = elapsed + d
  BY DEF Within
<1>2. late' = late /\ elapsed + d \in Nat
  BY DEF Within
<1>3. elapsed + d <= late + NAVIGATION_TIMEOUT + (over + grace)
  <2>1. CASE elapsed <= NAVIGATION_TIMEOUT
    BY <1>1, <2>1, RemainingBound
  <2>2. CASE elapsed > NAVIGATION_TIMEOUT
    BY <1>1, <2>2, RemainingBound
  <2>3. QED
    BY <2>1, <2>2
<1>4. QED
  BY <1>1, <1>2, <1>3 DEF Ends

(* An await without a timeout keeps every bound from the deadline on.      *)
LEMMA UntimedBound ==
  ASSUME elapsed \in Nat, late \in Nat, Untimed,
         NEW over \in Nat, elapsed <= late + NAVIGATION_TIMEOUT + over
  PROVE  Ends(over)
<1>1. PICK u \in UntimedTimes : /\ elapsed' = elapsed + u
                                /\ late' = late + Past(elapsed + u) - Past(elapsed)
  BY DEF Untimed
<1>2. u \in Nat
  OBVIOUS
<1>3. /\ late + Past(elapsed + u) - Past(elapsed) \in Nat
      /\ elapsed + u <= (late + Past(elapsed + u) - Past(elapsed))
                          + NAVIGATION_TIMEOUT + over
  BY <1>2 DEF Past
<1>4. elapsed + u \in Nat
  BY <1>2
<1>5. QED
  BY <1>1, <1>3, <1>4, Zenon DEF Ends

(* A Playwright wait given the remaining budget is one or the other.       *)
LEMMA PlaywrightBound ==
  ASSUME elapsed \in Nat, late \in Nat, PlaywrightWait(Remaining),
         NEW over \in Nat, elapsed <= late + NAVIGATION_TIMEOUT + over
  PROVE  Ends(over)
<1>1. Remaining \in Nat /\ Remaining <= Remaining + 0
  BY RemainingBound
<1>2. CASE Remaining > 0
  <2>1. Within(Remaining) /\ 0 \in Nat
    BY <1>2, Zenon DEF PlaywrightWait
  <2>2. Ends(over + 0)
    BY <1>1, <2>1, WithinBound
  <2>3. over + 0 = over
    OBVIOUS
  <2>4. QED
    BY <2>2, <2>3, Zenon
<1>3. CASE ~(Remaining > 0)
  BY <1>3, UntimedBound, Zenon DEF PlaywrightWait
<1>4. QED
  BY <1>2, <1>3

(* An overrun is at least each of its parts.                               *)
LEMMA OverrunBound ==
  /\ Overrun \in Nat
  /\ PROBE_PAUSE <= Overrun
  /\ polled => POLL_BUDGET + POLL_SLEEP <= Overrun
BY DEF Overrun, Greatest

(* What a step makes of it.                                                *)
LEMMA OverrunStep ==
  \E o \in Nat : /\ Overrun' = o
                 /\ refetched' => JSON_TIMEOUT <= o
                 /\ UNCHANGED <<polled, refetched>> => o = Overrun
                 /\ (polled => polled') /\ (refetched => refetched') => Overrun <= o
BY DEF Overrun, Greatest

(* Where the stage a step goes on to may begin.                            *)
LEMMA StageNext ==
  ASSUME NEW over \in Nat, Ends(over), NEW o \in Nat, Overrun' = o,
         over <= o + 2 * GRACE,
         pc' \in {"goto", "regoto", "drain", "json", "refetch", "resettle"} => over = 0,
         pc' \in {"body", "rules", "probe", "mode", "idle", "selector", "settle"}
           => over <= o,
         pc' \in {"poll", "repoll", "extract", "reextract"} => over <= o + GRACE,
         pc' \notin {"launch", "pause"}
  PROVE  StageBound'
<1>1. PICK e, l \in Nat : /\ elapsed' = e /\ late' = l
                          /\ e <= l + NAVIGATION_TIMEOUT + over
  BY DEF Ends
<1>2. QED
  BY <1>1 DEF StageBound

(* Every step leaves the times natural numbers.                            *)
LEMMA EndsType ==
  ASSUME NEW over \in Nat, Ends(over)
  PROVE  elapsed' \in Nat /\ late' \in Nat
BY DEF Ends

LEMMA InitInv == Init => Inv
<1> SUFFICES ASSUME Init PROVE Inv
  OBVIOUS
<1>1. TypeOK
  BY DEF Init, TypeOK
<1>2. StageBound /\ LoopBound
  BY DEF Init, StageBound, LoopBound
<1>3. QED
  BY <1>1, <1>2 DEF Inv

-----------------------------------------------------------------------------
LEMMA LaunchInv == Inv /\ Launch => Inv'
<1> SUFFICES ASSUME Inv, Launch PROVE Inv'
  OBVIOUS
<1>1. elapsed \in Nat /\ late \in Nat /\ elapsed <= late + NAVIGATION_TIMEOUT + 0
  BY DEF Inv, TypeOK, StageBound, Launch
<1>2. Ends(0)
  BY <1>1, UntimedBound DEF Launch
<1>3. pc' \in {"goto", "done"}
  BY DEF Launch, GoOn, Fail
<1>4. TypeOK'
  BY <1>2, EndsType DEF Inv, TypeOK, Launch, GoOn, Fail
<1>5. StageBound'
  <2>1. PICK o \in Nat : Overrun' = o
    BY OverrunStep
  <2>2. 0 \in Nat /\ 0 <= o + 2 * GRACE
    OBVIOUS
  <2>3. QED
    BY <1>2, <1>3, <2>1, <2>2, StageNext
<1>6. LoopBound'
  BY <1>3 DEF LoopBound
<1>7. QED
  BY <1>4, <1>5, <1>6 DEF Inv

(* The two navigations, which give Playwright all the remaining budget.    *)
LEMMA GotoInv == Inv /\ (Goto \/ Regoto) => Inv'
<1> SUFFICES ASSUME Inv, Goto \/ Regoto PROVE Inv'
  OBVIOUS
<1>1. elapsed \in Nat /\ late \in Nat /\ elapsed <= late + NAVIGATION_TIMEOUT + 0
  BY DEF Inv, TypeOK, StageBound, Goto, Regoto
<1>2. Ends(0)
  BY <1>1, PlaywrightBound DEF Goto, Regoto
<1>3. pc' \in {"json", "drain", "regoto"}
  BY DEF Goto, Regoto, GoOn
<1>4. TypeOK'
  BY <1>2, EndsType DEF Inv, TypeOK, Goto, Regoto, GoOn
<1>5. StageBound'
  <2>1. PICK o \in Nat : Overrun' = o
    BY OverrunStep
  <2>2. 0 \in Nat /\ 0 <= o + 2 * GRACE
    OBVIOUS
  <2>3. QED
    BY <1>2, <1>3, <2>1, <2>2, StageNext
<1>6. LoopBound'
  BY <1>3 DEF LoopBound
<1>7. QED
  BY <1>4, <1>5, <1>6 DEF Inv

(* The error page is awaited for less than the two graces.                 *)
LEMMA DrainInv == Inv /\ Drain => Inv'
<1> SUFFICES ASSUME Inv, Drain PROVE Inv'
  OBVIOUS
<1>1. elapsed \in Nat /\ late \in Nat /\ elapsed <= late + NAVIGATION_TIMEOUT
  BY DEF Inv, TypeOK, StageBound, Drain
<1>2. Ends(2 * GRACE)
  <2>1. PICK d \in 0..DRAIN : elapsed' = elapsed + d /\ late' = late
    BY DEF Drain, Within
  <2>2. elapsed + d \in Nat /\ elapsed + d <= late + NAVIGATION_TIMEOUT + 2 * GRACE
    BY <1>1
  <2>3. QED
    BY <1>1, <2>1, <2>2 DEF Ends
<1>3. TypeOK'
  BY <1>2, EndsType DEF Inv, TypeOK, Drain, Fail
<1>4. StageBound'
  <2>1. PICK o \in Nat : Overrun' = o
    BY OverrunStep
  <2>2. pc' = "done" /\ 2 * GRACE \in Nat /\ 2 * GRACE <= o + 2 * GRACE
    BY DEF Drain, Fail
  <2>3. QED
    BY <1>2, <2>1, <2>2, StageNext
<1>5. LoopBound'
  BY DEF Drain, Fail, LoopBound
<1>6. QED
  BY <1>3, <1>4, <1>5 DEF Inv

(* The document of a JSON response, read where it is.                      *)
LEMMA RawJsonInv == Inv /\ RawJson => Inv'
<1> SUFFICES ASSUME Inv, RawJson PROVE Inv'
  OBVIOUS
<1>1. elapsed \in Nat /\ late \in Nat /\ elapsed <= late + NAVIGATION_TIMEOUT + 0
  BY DEF Inv, TypeOK, StageBound, RawJson
<1>2. Ends(0)
  <2>1. CASE NoTime
    BY <1>1, <2>1 DEF NoTime, Ends
  <2>2. CASE Untimed
    BY <1>1, <2>2, UntimedBound
  <2>3. QED
    BY <2>1, <2>2 DEF RawJson
<1>3. pc' \in {"rules", "refetch"}
  BY DEF RawJson, GoOn
<1>4. TypeOK'
  BY <1>2, EndsType DEF Inv, TypeOK, RawJson, GoOn
<1>5. StageBound'
  <2>1. PICK o \in Nat : Overrun' = o
    BY OverrunStep
  <2>2. 0 \in Nat /\ 0 <= o + 2 * GRACE /\ 0 <= o
    OBVIOUS
  <2>3. QED
    BY <1>2, <1>3, <2>1, <2>2, StageNext
<1>6. LoopBound'
  <2>1. pc' \notin {"probe", "pause", "poll", "repoll"}
    BY <1>3
  <2>2. QED
    BY <2>1 DEF LoopBound
<1>7. QED
  BY <1>4, <1>5, <1>6 DEF Inv

(* The second request, with a timeout of its own.                          *)
LEMMA RefetchInv == Inv /\ Refetch => Inv'
<1> SUFFICES ASSUME Inv, Refetch PROVE Inv'
  OBVIOUS
<1>1. elapsed \in Nat /\ late \in Nat /\ elapsed <= late + NAVIGATION_TIMEOUT
  BY DEF Inv, TypeOK, StageBound, Refetch
<1>2. Ends(JSON_TIMEOUT)
  <2>1. PICK d \in 0..JSON_TIMEOUT : elapsed' = elapsed + d /\ late' = late
    BY DEF Refetch, Within
  <2>2. elapsed + d \in Nat /\ elapsed + d <= late + NAVIGATION_TIMEOUT + JSON_TIMEOUT
    BY <1>1
  <2>3. QED
    BY <1>1, <2>1, <2>2 DEF Ends
<1>3. pc' \in {"body", "rules"}
  BY DEF Refetch, GoOn
<1>4. TypeOK'
  BY <1>2, EndsType DEF Inv, TypeOK, Refetch, GoOn
<1>5. StageBound'
  <2>1. PICK o \in Nat : Overrun' = o /\ (refetched' => JSON_TIMEOUT <= o)
    BY OverrunStep
  <2>2. JSON_TIMEOUT <= o /\ JSON_TIMEOUT <= o + 2 * GRACE
    <3>1. refetched'
      BY DEF Refetch
    <3>2. JSON_TIMEOUT <= o
      BY <2>1, <3>1, Zenon
    <3>3. QED
      BY <3>2
  <2>3. QED
    BY <1>2, <1>3, <2>1, <2>2, StageNext
<1>6. LoopBound'
  <2>1. pc' \notin {"probe", "pause", "poll", "repoll"}
    BY <1>3
  <2>2. QED
    BY <2>1 DEF LoopBound
<1>7. QED
  BY <1>4, <1>5, <1>6 DEF Inv

(* The awaits without a timeout after it, the probe's apart.               *)
LEMMA UntimedInv == Inv /\ (RefetchedBody \/ Title) => Inv'
<1> SUFFICES ASSUME Inv, RefetchedBody \/ Title PROVE Inv'
  OBVIOUS
<1>1. elapsed \in Nat /\ late \in Nat /\ Untimed
  BY DEF Inv, TypeOK, RefetchedBody, Title
<1>2. UNCHANGED <<until, polled, refetched>>
      /\ json' \in {json, "lost", "kept"} /\ outcome' = outcome
  BY DEF RefetchedBody, Title, GoOn
<1>3. PICK o \in Nat : Overrun' = o /\ Overrun = o
  BY <1>2, OverrunStep
<1>4. CASE RefetchedBody
  <2>1. elapsed <= late + NAVIGATION_TIMEOUT + o /\ pc' = "rules"
    BY <1>3, <1>4 DEF Inv, StageBound, RefetchedBody, GoOn
  <2>2. Ends(o)
    BY <1>1, <2>1, UntimedBound
  <2>3. TypeOK'
    BY <1>2, <2>1, <2>2, EndsType DEF Inv, TypeOK
  <2>4. o <= o + 2 * GRACE /\ o <= o
    OBVIOUS
  <2>5. StageBound'
    BY <1>3, <2>1, <2>2, <2>4, StageNext
  <2>6. QED
    BY <2>1, <2>3, <2>5 DEF Inv, LoopBound
<1>5. CASE Title
  <2>1. elapsed <= late + NAVIGATION_TIMEOUT + (o + 2 * GRACE) /\ pc' = "done"
        /\ o + 2 * GRACE \in Nat /\ o + 2 * GRACE <= o + 2 * GRACE
    <3>1. pc = "title" /\ pc' = "done"
      BY <1>5 DEF Title, GoOn
    <3>2. elapsed <= late + NAVIGATION_TIMEOUT + o + 2 * GRACE
      BY <1>3, <3>1 DEF Inv, StageBound
    <3>3. QED
      BY <1>1, <3>1, <3>2
  <2>2. Ends(o + 2 * GRACE)
    BY <1>1, <2>1, UntimedBound
  <2>3. TypeOK'
    BY <1>2, <2>1, <2>2, EndsType DEF Inv, TypeOK
  <2>4. StageBound'
    BY <1>3, <2>1, <2>2, StageNext
  <2>5. QED
    BY <2>1, <2>3, <2>4 DEF Inv, LoopBound
<1>6. QED
  BY <1>4, <1>5

(* The probe begins, with a deadline within the remaining budget.          *)
LEMMA RulesInv == Inv /\ Rules => Inv'
<1> SUFFICES ASSUME Inv, Rules PROVE Inv'
  OBVIOUS
<1>1. /\ elapsed \in Nat /\ late \in Nat
      /\ elapsed' = elapsed /\ late' = late
      /\ UNCHANGED <<json, outcome, polled, refetched>>
      /\ pc = "rules" /\ pc' \in {"probe", "mode"}
  BY DEF Inv, TypeOK, Rules, NoTime, GoOn
<1>2. /\ until' \in Nat
      /\ pc' = "probe" => until' <= NAVIGATION_TIMEOUT \/ until' <= elapsed
  <2>1. CASE pc' = "mode"
    BY <2>1 DEF Inv, TypeOK, Rules, GoOn
  <2>2. ASSUME NEW detect \in DetectTimes,
               until' = elapsed + effective_detect_probe(detect, Remaining)
        PROVE  /\ until' \in Nat
               /\ until' <= NAVIGATION_TIMEOUT \/ until' <= elapsed
    <3>1. detect \in Nat /\ Remaining \in Nat
      BY <1>1, RemainingBound
    <3>2. /\ effective_detect_probe(detect, Remaining) \in Nat
          /\ effective_detect_probe(detect, Remaining) <= Remaining
      BY <3>1, DetectProbeBound
    <3>3. QED
      BY <1>1, <2>2, <3>1, <3>2, RemainingBound
  <2>3. QED
    BY <2>1, <2>2 DEF Rules, GoOn
<1>3. TypeOK'
  BY <1>1, <1>2 DEF Inv, TypeOK
<1>4. StageBound'
  <2>1. PICK o \in Nat : Overrun' = o /\ Overrun = o
    BY <1>1, OverrunStep
  <2>2. elapsed <= late + NAVIGATION_TIMEOUT + o /\ o <= o + 2 * GRACE /\ o <= o
    BY <1>1, <2>1 DEF Inv, StageBound
  <2>3. Ends(o)
    BY <1>1, <2>2 DEF Ends
  <2>4. QED
    BY <1>1, <2>1, <2>2, <2>3, StageNext
<1>5. LoopBound'
  BY <1>1, <1>2 DEF LoopBound
<1>6. QED
  BY <1>3, <1>4, <1>5 DEF Inv

(* A round of the probe: it goes on to a pause before its deadline only.   *)
LEMMA ProbeInv == Inv /\ Probe => Inv'
<1> SUFFICES ASSUME Inv, Probe PROVE Inv'
  OBVIOUS
<1>1. /\ elapsed \in Nat /\ late \in Nat /\ until \in Nat /\ Untimed
      /\ until <= NAVIGATION_TIMEOUT \/ until <= elapsed
      /\ UNCHANGED <<json, outcome, polled, refetched>>
      /\ \/ pc' = "mode" /\ until' = 0
         \/ pc' = "pause" /\ until' = until /\ elapsed' < until
  BY DEF Inv, TypeOK, LoopBound, Probe, GoOn
<1>2. PICK o \in Nat : Overrun' = o /\ Overrun = o
  BY <1>1, OverrunStep
<1>3. elapsed <= late + NAVIGATION_TIMEOUT + o
  BY <1>2 DEF Inv, StageBound, Probe
<1>4. Ends(o)
  BY <1>1, <1>3, UntimedBound
<1>5. TypeOK'
  BY <1>1, <1>4, EndsType DEF Inv, TypeOK
<1>6. CASE pc' = "mode"
  <2>1. o <= o + 2 * GRACE /\ o <= o
    OBVIOUS
  <2>2. StageBound'
    BY <1>2, <1>4, <1>6, <2>1, StageNext
  <2>3. QED
    BY <1>5, <1>6, <2>2 DEF Inv, LoopBound
<1>7. CASE pc' = "pause"
  <2>1. PICK u \in UntimedTimes : elapsed' = elapsed + u
    BY <1>1 DEF Untimed
  <2>2. u \in Nat /\ elapsed + u < until /\ until' = until
    BY <1>1, <1>7, <2>1
  <2>3. elapsed + u <= NAVIGATION_TIMEOUT /\ until <= NAVIGATION_TIMEOUT
    BY <1>1, <2>2
  <2>4. StageBound' /\ LoopBound'
    BY <1>7, <2>1, <2>2, <2>3 DEF StageBound, LoopBound
  <2>5. QED
    BY <1>5, <2>4 DEF Inv
<1>8. QED
  BY <1>1, <1>6, <1>7

LEMMA PauseInv == Inv /\ Pause => Inv'
<1> SUFFICES ASSUME Inv, Pause PROVE Inv'
  OBVIOUS
<1>1. /\ elapsed \in Nat /\ late \in Nat /\ until \in Nat
      /\ elapsed <= NAVIGATION_TIMEOUT
      /\ until <= NAVIGATION_TIMEOUT \/ until <= elapsed
      /\ elapsed' = elapsed + PROBE_PAUSE /\ late' = late
      /\ UNCHANGED <<until, json, outcome, polled, refetched>>
      /\ pc' = "probe"
  BY DEF Inv, TypeOK, StageBound, LoopBound, Pause, GoOn
<1>2. PICK o \in Nat : Overrun' = o /\ Overrun = o
  BY <1>1, OverrunStep
<1>3. PROBE_PAUSE <= o /\ o <= o + 2 * GRACE /\ o <= o
  BY <1>2, OverrunBound
<1>4. Ends(o)
  <2>1. elapsed + PROBE_PAUSE \in Nat /\ elapsed + PROBE_PAUSE <= late + NAVIGATION_TIMEOUT + o
    BY <1>1, <1>3
  <2>2. QED
    BY <1>1, <2>1 DEF Ends
<1>5. TypeOK'
  BY <1>1 DEF Inv, TypeOK
<1>6. StageBound'
  BY <1>1, <1>2, <1>3, <1>4, StageNext
<1>7. LoopBound'
  BY <1>1 DEF LoopBound
<1>8. QED
  BY <1>5, <1>6, <1>7 DEF Inv

(* The wait mode, and the Playwright waits of two of the modes.            *)
LEMMA ModeInv == Inv /\ (Mode \/ NetworkIdle \/ WaitSelector) => Inv'
<1> SUFFICES ASSUME Inv, Mode \/ NetworkIdle \/ WaitSelector PROVE Inv'
  OBVIOUS
<1>1. /\ elapsed \in Nat /\ late \in Nat
      /\ pc \in {"mode", "idle", "selector"}
      /\ pc' \in {"title", "extract", "settle", "idle", "selector"}
      /\ outcome' \in {outcome, "ok", "failed"}
      /\ UNCHANGED <<until, json, polled, refetched>>
  BY DEF Inv, TypeOK, Mode, NetworkIdle, WaitSelector, Capture, GoOn
<1>2. PICK o \in Nat : Overrun' = o /\ Overrun = o
  BY <1>1, OverrunStep
<1>3. elapsed <= late + NAVIGATION_TIMEOUT + o
      /\ o <= o + 2 * GRACE /\ o <= o + GRACE /\ o <= o
  BY <1>1, <1>2 DEF Inv, StageBound
<1>4. Ends(o)
  <2>1. CASE Mode
    BY <1>1, <1>3, <2>1 DEF Mode, NoTime, Ends
  <2>2. CASE NetworkIdle \/ WaitSelector
    BY <1>1, <1>3, <2>2, PlaywrightBound DEF NetworkIdle, WaitSelector
  <2>3. QED
    BY <2>1, <2>2
<1>5. TypeOK'
  BY <1>1, <1>4, EndsType DEF Inv, TypeOK
<1>6. StageBound'
  BY <1>1, <1>2, <1>3, <1>4, StageNext
<1>7. LoopBound'
  BY <1>1 DEF LoopBound
<1>8. QED
  BY <1>5, <1>6, <1>7 DEF Inv

(* Either settle: the one before the capture and the one before the second *)
(* reading.                                                                *)
LEMMA SettleInv == Inv /\ (Settle \/ Resettle) => Inv'
<1> SUFFICES ASSUME Inv, Settle \/ Resettle PROVE Inv'
  OBVIOUS
<1>1. Remaining \in Nat /\ elapsed \in Nat /\ late \in Nat /\ pc \in {"settle", "resettle"}
  BY RemainingBound DEF Inv, TypeOK, Settle, Resettle
<1>2. PICK cap \in Nat :
        /\ cap <= Remaining
        /\ \/ Settle /\ SettleThen(cap, Capture, "poll")
           \/ Resettle /\ SettleThen(cap, GoOn("reextract"), "repoll")
  <2>1. CASE Settle
    <3>1. PICK settle \in SettleTimes :
            SettleThen(effective_settle_cap(settle, Remaining), Capture, "poll")
      BY <2>1 DEF Settle
    <3>2. QED
      BY <1>1, <2>1, <3>1, SettleCapBound
  <2>2. CASE Resettle
    <3>1. Least(Remaining, RESETTLE) \in Nat /\ Least(Remaining, RESETTLE) <= Remaining
      BY <1>1 DEF Least
    <3>2. effective_settle_cap(0, Least(Remaining, RESETTLE)) \in Nat
          /\ effective_settle_cap(0, Least(Remaining, RESETTLE)) <= Remaining
      BY <1>1, <3>1, SettleCapBound
    <3>3. QED
      BY <2>2, <3>2 DEF Resettle
  <2>3. QED
    BY <2>1, <2>2
<1>3. \/ /\ Within(cap + GRACE)
         /\ pc' \in {"title", "extract", "reextract"}
         /\ UNCHANGED <<until, polled>>
      \/ /\ NoTime /\ pc' \in {"poll", "repoll"}
         /\ until' = elapsed + cap /\ polled' = TRUE
  BY <1>2 DEF SettleThen, Capture, GoOn
<1>4. /\ outcome' \in {outcome, "ok", "failed"}
      /\ UNCHANGED <<json, refetched>>
  BY <1>2 DEF SettleThen, Capture, GoOn, Settle, Resettle
<1>5. PICK o \in Nat : Overrun' = o /\ Overrun <= o /\ Overrun \in Nat
  <2>1. (polled => polled') /\ (refetched => refetched')
    BY <1>3, <1>4
  <2>2. QED
    BY <2>1, OverrunBound, OverrunStep
<1>6. elapsed <= late + NAVIGATION_TIMEOUT + o
  BY <1>1, <1>5 DEF Inv, StageBound
<1>7. Ends(o + GRACE) /\ o + GRACE \in Nat /\ o + GRACE <= o + 2 * GRACE
      /\ o + GRACE <= o + GRACE
  <2>1. CASE Within(cap + GRACE)
    <3>1. cap + GRACE \in Nat /\ cap + GRACE <= Remaining + GRACE
      BY <1>1, <1>2
    <3>2. QED
      BY <1>1, <1>6, <2>1, <3>1, WithinBound
  <2>2. CASE NoTime
    <3>1. elapsed <= late + NAVIGATION_TIMEOUT + (o + GRACE)
      BY <1>1, <1>6
    <3>2. QED
      BY <1>1, <2>2, <3>1 DEF NoTime, Ends
  <2>3. QED
    BY <1>3, <2>1, <2>2
<1>8. pc' \in {"title", "extract", "reextract", "poll", "repoll"}
  BY <1>3
<1>9. StageBound'
  BY <1>5, <1>7, <1>8, StageNext
<1>10. CASE pc' \in {"title", "extract", "reextract"} /\ UNCHANGED <<until, polled>>
  BY <1>4, <1>7, <1>9, <1>10, EndsType DEF Inv, TypeOK, LoopBound
<1>11. CASE NoTime /\ pc' \in {"poll", "repoll"} /\ until' = elapsed + cap /\ polled' = TRUE
  <2>1. elapsed' = elapsed /\ elapsed + cap \in Nat
        /\ (elapsed + cap <= NAVIGATION_TIMEOUT \/ elapsed + cap <= elapsed)
    BY <1>1, <1>2, <1>11, RemainingBound DEF NoTime
  <2>2. TypeOK'
    BY <1>4, <1>7, <1>11, <2>1, EndsType DEF Inv, TypeOK
  <2>3. LoopBound'
    BY <1>11, <2>1 DEF LoopBound
  <2>4. QED
    BY <1>9, <2>2, <2>3 DEF Inv
<1>12. QED
  BY <1>3, <1>10, <1>11

(* A round of polling begins before its deadline.                          *)
LEMMA PollInv == Inv /\ (Poll \/ Repoll) => Inv'
<1> SUFFICES ASSUME Inv, Poll \/ Repoll PROVE Inv'
  OBVIOUS
<1>1. /\ pc \in {"poll", "repoll"}
      /\ pc' \in {"poll", "repoll", "extract", "reextract", "title"}
      /\ outcome' \in {outcome, "ok", "failed"}
      /\ until' \in {until, 0} /\ (pc' \in {"poll", "repoll"} => until' = until)
      /\ UNCHANGED <<late, json, polled, refetched>>
  BY DEF Poll, Repoll, PollThen, Capture, GoOn, Within, NoTime
<1>2. /\ elapsed \in Nat /\ late \in Nat /\ until \in Nat
      /\ until <= NAVIGATION_TIMEOUT \/ until <= elapsed
  BY <1>1 DEF Inv, TypeOK, LoopBound
<1>3. polled
  BY <1>1 DEF Inv, LoopBound
<1>4. PICK o \in Nat : Overrun' = o /\ Overrun = o
  BY <1>1, OverrunStep
<1>5. POLL_BUDGET + POLL_SLEEP <= o
  BY <1>3, <1>4, OverrunBound
<1>6. elapsed <= late + NAVIGATION_TIMEOUT + o + GRACE
  BY <1>1, <1>4 DEF Inv, StageBound
<1>7. PICK d \in Nat : /\ elapsed' = elapsed + d
                       /\ d <= POLL_BUDGET + POLL_SLEEP + GRACE
                       /\ d = 0 \/ elapsed < until
  <2>1. \/ elapsed < until /\ \E e \in 0..(POLL_BUDGET + GRACE) : elapsed' = elapsed + e
        \/ elapsed < until /\ \E e \in 0..(POLL_BUDGET + GRACE) :
                                elapsed' = elapsed + e + POLL_SLEEP
        \/ elapsed' = elapsed
    BY DEF Poll, Repoll, PollThen, Within, NoTime
  <2>2. CASE elapsed < until /\ \E e \in 0..(POLL_BUDGET + GRACE) : elapsed' = elapsed + e
    BY <2>2
  <2>3. CASE elapsed < until /\ \E e \in 0..(POLL_BUDGET + GRACE) :
                                elapsed' = elapsed + e + POLL_SLEEP
    <3>1. PICK e \in 0..(POLL_BUDGET + GRACE) : elapsed' = elapsed + e + POLL_SLEEP
      BY <2>3
    <3>2. e + POLL_SLEEP \in Nat /\ e + POLL_SLEEP <= POLL_BUDGET + POLL_SLEEP + GRACE
          /\ elapsed' = elapsed + (e + POLL_SLEEP)
      BY <1>2, <3>1
    <3>3. QED
      BY <2>3, <3>2
  <2>4. CASE elapsed' = elapsed
    BY <1>2, <2>4
  <2>5. QED
    BY <2>1, <2>2, <2>3, <2>4
<1>8. Ends(o + GRACE)
  <2>1. elapsed + d \in Nat /\ elapsed + d <= late + NAVIGATION_TIMEOUT + (o + GRACE)
    BY <1>2, <1>5, <1>6, <1>7
  <2>2. QED
    BY <1>1, <1>2, <1>7, <2>1 DEF Ends
<1>9. TypeOK'
  BY <1>1, <1>2, <1>8, EndsType DEF Inv, TypeOK
<1>10. StageBound'
  <2>1. o + GRACE \in Nat /\ o + GRACE <= o + 2 * GRACE /\ o + GRACE <= o + GRACE
    OBVIOUS
  <2>2. QED
    BY <1>1, <1>4, <1>8, <2>1, StageNext
<1>11. LoopBound'
  <2>1. until <= NAVIGATION_TIMEOUT \/ until <= elapsed + d
    BY <1>2
  <2>2. polled' /\ (pc' \in {"poll", "repoll"} => until' = until)
        /\ pc' \notin {"probe", "pause"}
    BY <1>1, <1>3
  <2>3. QED
    BY <1>7, <2>1, <2>2 DEF LoopBound
<1>12. QED
  BY <1>9, <1>10, <1>11 DEF Inv

(* Either reading of the page.                                             *)
LEMMA ExtractInv == Inv /\ (Extract \/ Reextract) => Inv'
<1> SUFFICES ASSUME Inv, Extract \/ Reextract PROVE Inv'
  OBVIOUS
<1>1. /\ elapsed \in Nat /\ late \in Nat /\ Remaining \in Nat /\ Remaining + GRACE \in Nat
      /\ Remaining + GRACE <= Remaining + GRACE
      /\ Within(Remaining + GRACE)
      /\ pc \in {"extract", "reextract"}
      /\ pc' \in {"title", "resettle"} /\ outcome' \in {outcome, "ok", "failed"}
      /\ UNCHANGED <<until, json, polled, refetched>>
  BY RemainingBound DEF Inv, TypeOK, Extract, Reextract, GoOn
<1>2. PICK o \in Nat : Overrun' = o /\ Overrun = o
  BY <1>1, OverrunStep
<1>3. elapsed <= late + NAVIGATION_TIMEOUT + (o + GRACE) /\ o + GRACE \in Nat
  <2>1. elapsed <= late + NAVIGATION_TIMEOUT + o + GRACE
    BY <1>1, <1>2 DEF Inv, StageBound
  <2>2. QED
    BY <1>1, <2>1
<1>4. Ends((o + GRACE) + GRACE)
  BY <1>1, <1>3, WithinBound
<1>5. PICK e, l \in Nat : /\ elapsed' = e /\ late' = l
                          /\ e <= l + NAVIGATION_TIMEOUT + ((o + GRACE) + GRACE)
  BY <1>4 DEF Ends
<1>6. pc' = "resettle" => e <= NAVIGATION_TIMEOUT
  <2>1. pc' = "resettle" => Remaining' >= RETRY_EXTRACT
    BY DEF Extract, Reextract, GoOn
  <2>2. Remaining' = IF e < NAVIGATION_TIMEOUT THEN NAVIGATION_TIMEOUT - e ELSE 0
    BY <1>5 DEF Remaining
  <2>3. QED
    BY <2>1, <2>2
<1>7. TypeOK'
  BY <1>1, <1>5 DEF Inv, TypeOK
<1>8. StageBound'
  BY <1>1, <1>2, <1>5, <1>6 DEF StageBound
<1>9. LoopBound'
  BY <1>1 DEF LoopBound
<1>10. QED
  BY <1>7, <1>8, <1>9 DEF Inv

LEMMA StutterInv == Inv /\ UNCHANGED vars => Inv'
BY DEF vars, Inv, TypeOK, StageBound, LoopBound, Overrun

LEMMA NextInv == Inv /\ [Next]_vars => Inv'
BY LaunchInv, GotoInv, DrainInv, RawJsonInv, RefetchInv, UntimedInv, RulesInv, ProbeInv,
   PauseInv, ModeInv, SettleInv, PollInv, ExtractInv, StutterInv
DEF Next, Crawl, Terminated

(* How late each stage of a crawl may begin, not counting what the awaits  *)
(* without a timeout spent past the deadline.                              *)
THEOREM Invariance == Spec => []Inv
BY InitInv, NextInv, PTL DEF Spec

(* A crawl ends within two graces and the longest of three overruns of     *)
(* NAVIGATION_TIMEOUT, but for what its awaits without a timeout spent     *)
(* past the deadline, whatever settleMs and detectMs the job carries and   *)
(* however the page behaves.                                               *)
THEOREM BudgetIsKept == Spec => []BudgetKept
<1>1. Inv => BudgetKept
  BY DEF Inv, StageBound, BudgetKept
<1>2. QED
  BY <1>1, Invariance, PTL
=============================================================================
