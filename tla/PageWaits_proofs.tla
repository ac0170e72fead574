--------------------------- MODULE PageWaits_proofs ---------------------------
(***************************************************************************)
(* Theorems about PageWaits: whatever the caps, the probe times, the       *)
(* number of selectors and the contents are, and whenever the page changes *)
(* and answers, a settle wait keeps its word and a probe its order.        *)
(***************************************************************************)
EXTENDS PageWaits, TLAPS

(* What the leaves below need of the assumption and of the types.          *)
LEMMA Constants ==
  /\ QUIET \in Nat /\ 0 <= QUIET /\ POLL \in Nat /\ POLL <= QUIET /\ PAUSE \in Nat
  /\ GRACE \in Nat /\ READ + GRACE \in Nat /\ None \in Int /\ None < 0
  /\ Selectors \in Nat /\ 1 \in Guards
BY WaitsAssumption DEF Guards, None

LEMMA Times ==
  ASSUME Inv
  PROVE  /\ left \in Nat /\ timer \in Nat /\ cap \in Nat /\ quiet \in Nat /\ capTimer \in Nat
         /\ change \in Nat /\ calm \in Nat /\ calm <= QUIET /\ still \in Nat
         /\ change <= QUIET /\ lag \in Nat
BY DEF Inv, TypeOK, TimeTypes

LEMMA Readings ==
  ASSUME Inv
  PROVE  /\ newest \in Nat /\ doc \in Nat /\ doc <= newest
         /\ copy \in Int /\ copy <= newest /\ previous \in Int /\ previous <= newest
         /\ None <= newest
<1>1. /\ newest \in Nat /\ doc \in Nat /\ doc <= newest
      /\ copy \in Int /\ copy <= newest /\ previous \in Int /\ previous <= newest
  BY DEF Inv, TypeOK, ContentTypes
<1> QED BY <1>1, Constants

LEMMA Indices ==
  ASSUME Inv
  PROVE  /\ index \in Nat /\ 1 <= index /\ index <= Selectors
         /\ index < Selectors => index + 1 \in Guards
         /\ \A g \in Guards : g \in Nat /\ 1 <= g /\ g <= Selectors
         /\ steady \subseteq Guards /\ shown \subseteq Guards
<1>1. index \in Guards /\ shown \subseteq Guards /\ steady \subseteq shown
  BY DEF Inv, TypeOK, SelectorTypes
<1> QED BY <1>1, Constants DEF Guards

LEMMA InitInv == ASSUME Init PROVE Inv
<1> USE DEF Init
<1>1. ControlTypes /\ TimeTypes /\ OneWait
  BY Constants DEF ControlTypes, TimeTypes, OneWait
<1>2. None <= 0
  BY Constants
<1>3. ContentTypes
  BY Constants, <1>2 DEF ContentTypes
<1>4. SelectorTypes /\ RoundIsKept
  BY Constants DEF SelectorTypes, RoundIsKept
<1>5. previous # doc
  BY Constants
<1>6. TimerIsCalm /\ SampleIsCalm /\ SettleKept /\ ProbeKept
  BY <1>5 DEF TimerIsCalm, SampleIsCalm, SettleKept, ProbeKept
<1> QED BY <1>1, <1>3, <1>4, <1>6 DEF Inv, TypeOK

LEMMA SettleInv == ASSUME Inv, Settle PROVE Inv'
<1> USE DEF Settle, codeVars, scriptVars, pageVars, seenVars
<1>1. ControlTypes'
  BY DEF Inv, TypeOK, ControlTypes
<1>2. TimeTypes'
  <2>1. PICK c \in Nat : cap' = c /\ timer' = c + GRACE
    BY WaitsAssumption
  <2>2. GRACE \in Nat
    BY Constants
  <2>3. c + GRACE \in Nat
    BY <2>2
  <2> QED BY <2>1, <2>2, <2>3 DEF Inv, TypeOK, TimeTypes
<1>3. ContentTypes'
  BY DEF Inv, TypeOK, ContentTypes
<1>4. SelectorTypes'
  BY DEF Inv, TypeOK, SelectorTypes
<1>5. OneWait'
  BY DEF Inv, OneWait, Probing
<1>6. TimerIsCalm'
  BY DEF Inv, TimerIsCalm
<1>7. SampleIsCalm'
  BY DEF Inv, SampleIsCalm
<1>8. RoundIsKept'
  BY DEF RoundIsKept
<1>9. SettleKept'
  BY DEF SettleKept
<1>10. ProbeKept'
  BY DEF ProbeKept
<1> QED BY <1>1, <1>2, <1>3, <1>4, <1>5, <1>6, <1>7, <1>8, <1>9, <1>10 DEF Inv, TypeOK

LEMMA EvaluateInv == ASSUME Inv, Evaluate PROVE Inv'
<1> USE DEF Evaluate, codeVars, scriptVars, pageVars, seenVars
<1>1. ControlTypes'
  BY DEF Inv, TypeOK, ControlTypes
<1>2. TimeTypes'
  <2>1. QUIET \in Nat
    BY Constants
  <2> QED BY <2>1 DEF Inv, TypeOK, TimeTypes
<1>3. ContentTypes'
  BY DEF Inv, TypeOK, ContentTypes
<1>4. SelectorTypes'
  BY DEF Inv, TypeOK, SelectorTypes
<1>5. OneWait'
  BY DEF Inv, OneWait, Probing
<1>6. TimerIsCalm'
  <2>1. calm + QUIET >= QUIET
    BY Constants, Times
  <2> QED BY <2>1 DEF TimerIsCalm
<1>7. SampleIsCalm'
  BY DEF Inv, SampleIsCalm
<1>8. RoundIsKept'
  BY DEF RoundIsKept
<1>9. SettleKept'
  BY DEF SettleKept
<1>10. ProbeKept'
  BY DEF ProbeKept
<1> QED BY <1>1, <1>2, <1>3, <1>4, <1>5, <1>6, <1>7, <1>8, <1>9, <1>10 DEF Inv, TypeOK

LEMMA FireInv == ASSUME Inv, Fire PROVE Inv'
<1> USE DEF Fire, codeVars, scriptVars, pageVars, seenVars
<1>1. ControlTypes'
  BY DEF Inv, TypeOK, ControlTypes
<1>2. TimeTypes'
  BY DEF Inv, TypeOK, TimeTypes
<1>3. ContentTypes'
  BY DEF Inv, TypeOK, ContentTypes
<1>4. SelectorTypes'
  BY DEF Inv, TypeOK, SelectorTypes
<1>5. OneWait'
  BY DEF Inv, OneWait, Probing
<1>6. TimerIsCalm'
  <2>1. quiet = 0 /\ calm + quiet >= QUIET => calm >= QUIET
    BY Constants, Times
  <2> QED BY <2>1 DEF Inv, TimerIsCalm
<1>7. SampleIsCalm'
  BY DEF Inv, SampleIsCalm
<1>8. RoundIsKept'
  BY DEF RoundIsKept
<1>9. SettleKept'
  BY DEF SettleKept
<1>10. ProbeKept'
  BY DEF ProbeKept
<1> QED BY <1>1, <1>2, <1>3, <1>4, <1>5, <1>6, <1>7, <1>8, <1>9, <1>10 DEF Inv, TypeOK

LEMMA EvaluatedInv == ASSUME Inv, Evaluated PROVE Inv'
<1> USE DEF Evaluated, codeVars, scriptVars, pageVars, seenVars
<1>1. ControlTypes'
  BY DEF Inv, TypeOK, ControlTypes
<1>2. TimeTypes'
  BY DEF Inv, TypeOK, TimeTypes
<1>3. ContentTypes'
  BY DEF Inv, TypeOK, ContentTypes
<1>4. SelectorTypes'
  BY DEF Inv, TypeOK, SelectorTypes
<1>5. OneWait'
  BY DEF OneWait, Probing
<1>6. TimerIsCalm'
  BY DEF Inv, TimerIsCalm
<1>7. SampleIsCalm'
  BY DEF Inv, SampleIsCalm
<1>8. RoundIsKept'
  BY DEF RoundIsKept
<1>9. SettleKept'
  BY DEF Inv, TimerIsCalm, SettleKept
<1>10. ProbeKept'
  BY DEF Inv, OneWait, ProbeKept
<1> QED BY <1>1, <1>2, <1>3, <1>4, <1>5, <1>6, <1>7, <1>8, <1>9, <1>10 DEF Inv, TypeOK

LEMMA GivesUpInv == ASSUME Inv, pc \in {"script", "read"}, GivesUp PROVE Inv'
<1> USE DEF GivesUp, codeVars, scriptVars, pageVars, seenVars
<1>1. ControlTypes'
  BY DEF Inv, TypeOK, ControlTypes
<1>2. TimeTypes'
  BY DEF Inv, TypeOK, TimeTypes
<1>3. ContentTypes'
  BY DEF Inv, TypeOK, ContentTypes
<1>4. SelectorTypes'
  BY DEF Inv, TypeOK, SelectorTypes
<1>5. OneWait'
  BY DEF OneWait, Probing
<1>6. TimerIsCalm'
  BY DEF Inv, TimerIsCalm
<1>7. SampleIsCalm'
  BY DEF Inv, SampleIsCalm
<1>8. RoundIsKept'
  BY DEF RoundIsKept
<1>9. SettleKept'
  BY DEF SettleKept
<1>10. ProbeKept'
  BY DEF Inv, OneWait, ProbeKept, Probing
<1> QED BY <1>1, <1>2, <1>3, <1>4, <1>5, <1>6, <1>7, <1>8, <1>9, <1>10 DEF Inv, TypeOK

LEMMA BlockedInv == ASSUME Inv, Blocked PROVE Inv'
<1> USE DEF Blocked, codeVars, scriptVars, pageVars, seenVars
<1>1. ControlTypes'
  BY DEF Inv, TypeOK, ControlTypes
<1>2. TimeTypes'
  <2>1. QUIET \in Nat /\ 0 <= QUIET
    BY Constants
  <2> QED BY <2>1 DEF Inv, TypeOK, TimeTypes
<1>3. ContentTypes'
  <2>1. None \in Int /\ None <= newest
    BY Constants, Readings
  <2> QED BY <2>1 DEF Inv, TypeOK, ContentTypes
<1>4. SelectorTypes'
  BY DEF Inv, TypeOK, SelectorTypes
<1>5. OneWait'
  BY DEF Inv, OneWait, Probing
<1>6. TimerIsCalm'
  BY DEF TimerIsCalm
<1>7. SampleIsCalm'
  <2>1. None # doc
    BY Constants, Readings
  <2>2. previous' = None /\ doc' = doc
    OBVIOUS
  <2> QED BY <2>1, <2>2 DEF Inv, SampleIsCalm
<1>8. RoundIsKept'
  BY DEF RoundIsKept
<1>9. SettleKept'
  BY DEF SettleKept
<1>10. ProbeKept'
  BY DEF ProbeKept
<1> QED BY <1>1, <1>2, <1>3, <1>4, <1>5, <1>6, <1>7, <1>8, <1>9, <1>10 DEF Inv, TypeOK

LEMMA PollInv == ASSUME Inv, Poll PROVE Inv'
<1> USE DEF Poll, codeVars, scriptVars, pageVars, seenVars
<1>1. ControlTypes'
  BY DEF Inv, TypeOK, ControlTypes
<1>2. TimeTypes'
  <2>1. READ + GRACE \in Nat
    BY Constants
  <2> QED BY <2>1 DEF Inv, TypeOK, TimeTypes
<1>3. ContentTypes'
  <2>1. None \in Int /\ None <= newest
    BY Constants, Readings
  <2> QED BY <2>1 DEF Inv, TypeOK, ContentTypes
<1>4. SelectorTypes'
  BY DEF Inv, TypeOK, SelectorTypes
<1>5. OneWait'
  BY DEF Inv, OneWait, Probing
<1>6. TimerIsCalm'
  BY DEF Inv, OneWait, TimerIsCalm
<1>7. SampleIsCalm'
  BY DEF Inv, SampleIsCalm
<1>8. RoundIsKept'
  BY DEF RoundIsKept
<1>9. SettleKept'
  BY DEF SettleKept
<1>10. ProbeKept'
  BY DEF Inv, OneWait, ProbeKept, Probing
<1> QED BY <1>1, <1>2, <1>3, <1>4, <1>5, <1>6, <1>7, <1>8, <1>9, <1>10 DEF Inv, TypeOK

LEMMA SerializeInv == ASSUME Inv, Serialize PROVE Inv'
<1> USE DEF Serialize, codeVars, scriptVars, pageVars, seenVars
<1>1. ControlTypes'
  BY DEF Inv, TypeOK, ControlTypes
<1>2. TimeTypes'
  BY DEF Inv, TypeOK, TimeTypes
<1>3. ContentTypes'
  <2>1. doc \in Int
    BY Readings
  <2> QED BY <2>1 DEF Inv, TypeOK, ContentTypes
<1>4. SelectorTypes'
  BY DEF Inv, TypeOK, SelectorTypes
<1>5. OneWait'
  BY DEF Inv, OneWait, Probing
<1>6. TimerIsCalm'
  BY DEF Inv, OneWait, TimerIsCalm
<1>7. SampleIsCalm'
  <2>1. PICK t \in Nat : calm = t
    BY Times
  <2>2. t + 0 >= change <=> t >= change
    BY <2>1, Times
  <2>3. copy' # None
    BY Constants, Readings
  <2> QED BY <2>1, <2>2, <2>3 DEF Inv, SampleIsCalm
<1>8. RoundIsKept'
  BY DEF RoundIsKept
<1>9. SettleKept'
  BY DEF SettleKept
<1>10. ProbeKept'
  BY DEF ProbeKept
<1> QED BY <1>1, <1>2, <1>3, <1>4, <1>5, <1>6, <1>7, <1>8, <1>9, <1>10 DEF Inv, TypeOK

LEMMA ReadInv == ASSUME Inv, Read PROVE Inv'
<1> USE DEF Read, codeVars, scriptVars, pageVars, seenVars
<1>1. ControlTypes'
  BY DEF Inv, TypeOK, ControlTypes
<1>2. TimeTypes'
  <2>1. POLL \in Nat /\ QUIET \in Nat /\ 0 <= QUIET
    BY Constants
  <2> QED BY <2>1 DEF Inv, TypeOK, TimeTypes
<1>3. ContentTypes'
  <2>1. previous' \in {copy, previous}
    OBVIOUS
  <2> QED BY <2>1 DEF Inv, TypeOK, ContentTypes
<1>4. SelectorTypes'
  BY DEF Inv, TypeOK, SelectorTypes
<1>5. OneWait'
  BY DEF Inv, OneWait, Probing
<1>6. TimerIsCalm'
  BY DEF Inv, OneWait, TimerIsCalm
<1>7. SampleIsCalm'
  <2>1. calm >= 0 /\ (timer' = POLL => calm + timer' >= POLL)
    BY Constants, Times
  <2> QED BY <2>1 DEF Inv, SampleIsCalm
<1>8. RoundIsKept'
  BY DEF RoundIsKept
<1>9. SettleKept'
  <2>1. script' = "off"
    BY DEF Inv, OneWait
  <2>2. ~back /\ pc' = "done" => still >= POLL /\ still + lag >= change /\ change >= QUIET
    BY DEF Inv, SampleIsCalm
  <2>3. still + lag >= change /\ change >= QUIET => still + lag >= QUIET
    BY Constants, Times
  <2> QED BY <2>1, <2>2, <2>3 DEF SettleKept
<1>10. ProbeKept'
  BY DEF Inv, OneWait, ProbeKept, Probing
<1> QED BY <1>1, <1>2, <1>3, <1>4, <1>5, <1>6, <1>7, <1>8, <1>9, <1>10 DEF Inv, TypeOK

LEMMA WakeInv == ASSUME Inv, Wake PROVE Inv'
<1> USE DEF Wake, codeVars, scriptVars, pageVars, seenVars
<1>1. ControlTypes'
  BY DEF Inv, TypeOK, ControlTypes
<1>2. TimeTypes'
  BY DEF Inv, TypeOK, TimeTypes
<1>3. ContentTypes'
  BY DEF Inv, TypeOK, ContentTypes
<1>4. SelectorTypes'
  BY DEF Inv, TypeOK, SelectorTypes
<1>5. OneWait'
  BY DEF Inv, OneWait, Probing
<1>6. TimerIsCalm'
  BY DEF Inv, TimerIsCalm
<1>7. SampleIsCalm'
  <2>1. timer = 0 /\ calm + timer >= POLL => calm >= POLL
    BY Constants, Times
  <2> QED BY <2>1 DEF Inv, SampleIsCalm
<1>8. RoundIsKept'
  BY DEF RoundIsKept
<1>9. SettleKept'
  BY DEF SettleKept
<1>10. ProbeKept'
  BY DEF ProbeKept
<1> QED BY <1>1, <1>2, <1>3, <1>4, <1>5, <1>6, <1>7, <1>8, <1>9, <1>10 DEF Inv, TypeOK

LEMMA ProbeInv == ASSUME Inv, Probe PROVE Inv'
<1> USE DEF Probe, Round, codeVars, scriptVars, pageVars, seenVars
<1>1. ControlTypes'
  BY DEF Inv, TypeOK, ControlTypes
<1>2. TimeTypes'
  <2>1. left' \in Nat
    BY WaitsAssumption
  <2> QED BY <2>1 DEF Inv, TypeOK, TimeTypes
<1>3. ContentTypes'
  BY DEF Inv, TypeOK, ContentTypes
<1>4. SelectorTypes'
  <2>1. 1 \in Guards
    BY Constants
  <2> QED BY <2>1 DEF Inv, TypeOK, SelectorTypes
<1>5. OneWait'
  BY DEF Inv, OneWait, Probing
<1>6. TimerIsCalm'
  BY DEF Inv, TimerIsCalm
<1>7. SampleIsCalm'
  BY DEF Inv, SampleIsCalm
<1>8. RoundIsKept'
  <2>1. \A g \in steady' : 1 <= g
    BY Indices
  <2> QED BY <2>1 DEF RoundIsKept
<1>9. SettleKept'
  BY DEF SettleKept
<1>10. ProbeKept'
  BY DEF ProbeKept
<1> QED BY <1>1, <1>2, <1>3, <1>4, <1>5, <1>6, <1>7, <1>8, <1>9, <1>10 DEF Inv, TypeOK

LEMMA FoundInv == ASSUME Inv, Found PROVE Inv'
<1> USE DEF Found, codeVars, scriptVars, pageVars, seenVars
<1>1. ControlTypes'
  BY DEF Inv, TypeOK, ControlTypes
<1>2. TimeTypes'
  BY DEF Inv, TypeOK, TimeTypes
<1>3. ContentTypes'
  BY DEF Inv, TypeOK, ContentTypes
<1>4. SelectorTypes'
  BY DEF Inv, TypeOK, SelectorTypes
<1>5. OneWait'
  BY DEF Inv, OneWait, Probing
<1>6. TimerIsCalm'
  BY DEF Inv, TimerIsCalm
<1>7. SampleIsCalm'
  BY DEF Inv, SampleIsCalm
<1>8. RoundIsKept'
  BY DEF Inv, RoundIsKept
<1>9. SettleKept'
  BY DEF SettleKept
<1>10. ProbeKept'
  BY DEF ProbeKept
<1> QED BY <1>1, <1>2, <1>3, <1>4, <1>5, <1>6, <1>7, <1>8, <1>9, <1>10 DEF Inv, TypeOK

LEMMA VisibleInv == ASSUME Inv, Visible PROVE Inv'
<1> USE DEF Visible, codeVars, scriptVars, pageVars, seenVars
<1>1. ControlTypes'
  BY DEF Inv, TypeOK, ControlTypes
<1>2. TimeTypes'
  BY DEF Inv, TypeOK, TimeTypes
<1>3. ContentTypes'
  BY DEF Inv, TypeOK, ContentTypes
<1>4. SelectorTypes'
  <2>1. index \in Nat
    BY Indices
  <2> QED BY <2>1 DEF Inv, TypeOK, SelectorTypes
<1>5. OneWait'
  BY DEF OneWait, Probing
<1>6. TimerIsCalm'
  BY DEF Inv, TimerIsCalm
<1>7. SampleIsCalm'
  BY DEF Inv, SampleIsCalm
<1>8. RoundIsKept'
  BY DEF RoundIsKept
<1>9. SettleKept'
  BY DEF Inv, OneWait, SettleKept, Probing
<1>10. ProbeKept'
  <2>1. index # 0
    BY Indices
  <2> QED BY <2>1 DEF Inv, RoundIsKept, ProbeKept
<1> QED BY <1>1, <1>2, <1>3, <1>4, <1>5, <1>6, <1>7, <1>8, <1>9, <1>10 DEF Inv, TypeOK

LEMMA MissedInv == ASSUME Inv, Missed PROVE Inv'
<1> USE DEF Missed, NextSelector, codeVars, scriptVars, pageVars, seenVars
<1>1. ControlTypes'
  BY DEF Inv, TypeOK, ControlTypes
<1>2. TimeTypes'
  <2>1. PAUSE \in Nat
    BY Constants
  <2> QED BY <2>1 DEF Inv, TypeOK, TimeTypes
<1>3. ContentTypes'
  BY DEF Inv, TypeOK, ContentTypes
<1>4. SelectorTypes'
  <2>1. index' = index \/ (index < Selectors /\ index' = index + 1)
    OBVIOUS
  <2>2. index < Selectors => index + 1 \in Guards
    BY Indices
  <2> QED BY <2>1, <2>2 DEF Inv, TypeOK, SelectorTypes
<1>5. OneWait'
  BY DEF Inv, OneWait, Probing
<1>6. TimerIsCalm'
  BY DEF Inv, TimerIsCalm
<1>7. SampleIsCalm'
  BY DEF Inv, SampleIsCalm
<1>8. RoundIsKept'
  <2>1. \A g \in steady : index <= g /\ g # index
    BY DEF Inv, RoundIsKept
  <2>2. \A g \in steady : index + 1 <= g /\ g <= Selectors
    BY <2>1, Indices
  <2>3. index = Selectors => steady = {}
    BY <2>2, Indices
  <2> QED BY <2>1, <2>2, <2>3 DEF RoundIsKept
<1>9. SettleKept'
  BY DEF Inv, OneWait, SettleKept, Probing
<1>10. ProbeKept'
  <2>1. \A g \in steady : index <= g /\ g # index
    BY DEF Inv, RoundIsKept
  <2>2. index = Selectors => steady = {}
    BY <2>1, Constants, Indices
  <2> QED BY <2>1, <2>2 DEF ProbeKept
<1> QED BY <1>1, <1>2, <1>3, <1>4, <1>5, <1>6, <1>7, <1>8, <1>9, <1>10 DEF Inv, TypeOK

LEMMA ResumeInv == ASSUME Inv, Resume PROVE Inv'
<1> USE DEF Resume, Round, codeVars, scriptVars, pageVars, seenVars
<1>1. ControlTypes'
  BY DEF Inv, TypeOK, ControlTypes
<1>2. TimeTypes'
  BY DEF Inv, TypeOK, TimeTypes
<1>3. ContentTypes'
  BY DEF Inv, TypeOK, ContentTypes
<1>4. SelectorTypes'
  <2>1. 1 \in Guards
    BY Constants
  <2> QED BY <2>1 DEF Inv, TypeOK, SelectorTypes
<1>5. OneWait'
  BY DEF Inv, OneWait, Probing
<1>6. TimerIsCalm'
  BY DEF Inv, TimerIsCalm
<1>7. SampleIsCalm'
  BY DEF Inv, SampleIsCalm
<1>8. RoundIsKept'
  <2>1. \A g \in steady' : 1 <= g
    BY Indices
  <2> QED BY <2>1 DEF RoundIsKept
<1>9. SettleKept'
  BY DEF SettleKept
<1>10. ProbeKept'
  BY DEF ProbeKept
<1> QED BY <1>1, <1>2, <1>3, <1>4, <1>5, <1>6, <1>7, <1>8, <1>9, <1>10 DEF Inv, TypeOK

LEMMA ChangeInv == ASSUME Inv, Change PROVE Inv'
<1> USE DEF Change, Settling, Observed, codeVars, scriptVars, pageVars, seenVars
<1>1. ControlTypes'
  BY DEF Inv, TypeOK, ControlTypes
<1>2. TimeTypes'
  <2>1. quiet' \in {QUIET, quiet} /\ QUIET \in Nat /\ 0 <= QUIET
    BY Constants
  <2> QED BY <2>1 DEF Inv, TypeOK, TimeTypes
<1>3. ContentTypes'
  <2>1. PICK d \in Nat : doc' = d /\ newest' = IF d > newest THEN d ELSE newest
    OBVIOUS
  <2>2. PICK n \in Nat : newest' = n /\ newest <= n /\ d <= n
    BY <2>1, Readings
  <2>3. copy <= n /\ previous <= n
    BY <2>2, Readings
  <2> QED BY <2>1, <2>2, <2>3 DEF Inv, TypeOK, ContentTypes
<1>4. SelectorTypes'
  BY DEF Inv, TypeOK, SelectorTypes
<1>5. OneWait'
  BY DEF Inv, OneWait, Probing
<1>6. TimerIsCalm'
  <2>1. calm' = 0 /\ (script = "running" => quiet' = QUIET)
    OBVIOUS
  <2>2. 0 + QUIET >= QUIET
    BY Constants
  <2> QED BY <2>1, <2>2 DEF Inv, TimerIsCalm
<1>7. SampleIsCalm'
  <2>1. PICK d \in Nat : doc' = d /\ newest' = IF d > newest THEN d ELSE newest
    OBVIOUS
  <2>2. back' = (back \/ d <= newest)
    BY <2>1
  <2>3. ~back' => ~back /\ ~(d <= newest)
    BY <2>2, Zenon
  <2>4. ~(d <= newest) => previous # d /\ newest' = d
    BY <2>1, Readings
  <2> QED BY <2>1, <2>2, <2>3, <2>4 DEF Inv, SampleIsCalm
<1>8. RoundIsKept'
  BY DEF RoundIsKept
<1>9. SettleKept'
  BY DEF SettleKept
<1>10. ProbeKept'
  BY DEF ProbeKept
<1> QED BY <1>1, <1>2, <1>3, <1>4, <1>5, <1>6, <1>7, <1>8, <1>9, <1>10 DEF Inv, TypeOK

LEMMA ShowInv == ASSUME Inv, Show PROVE Inv'
<1> USE DEF Show, Probing, codeVars, scriptVars, pageVars, seenVars
<1>1. ControlTypes'
  BY DEF Inv, TypeOK, ControlTypes
<1>2. TimeTypes'
  BY DEF Inv, TypeOK, TimeTypes
<1>3. ContentTypes'
  BY DEF Inv, TypeOK, ContentTypes
<1>4. SelectorTypes'
  BY DEF Inv, TypeOK, SelectorTypes
<1>5. OneWait'
  BY DEF Inv, OneWait
<1>6. TimerIsCalm'
  BY DEF Inv, TimerIsCalm
<1>7. SampleIsCalm'
  BY DEF Inv, SampleIsCalm
<1>8. RoundIsKept'
  BY DEF Inv, RoundIsKept
<1>9. SettleKept'
  BY DEF SettleKept
<1>10. ProbeKept'
  BY DEF ProbeKept
<1> QED BY <1>1, <1>2, <1>3, <1>4, <1>5, <1>6, <1>7, <1>8, <1>9, <1>10 DEF Inv, TypeOK

LEMMA TickInv == ASSUME Inv, Tick PROVE Inv'
<1> USE DEF Tick, Settling, Probing, Due, codeVars, scriptVars, pageVars, seenVars
<1>1. ControlTypes'
  BY DEF Inv, TypeOK, ControlTypes
<1>2. TimeTypes'
  <2>1. \A t \in Nat : Down(t) \in Nat /\ Up(t) \in Nat /\ Up(t) <= QUIET
    BY Constants DEF Down, Up
  <2>2. lag' \in {lag, Up(lag)}
    OBVIOUS
  <2>3. /\ Up(change) \in Nat /\ Up(change) <= QUIET /\ Up(calm) \in Nat
      /\ Up(calm) <= QUIET /\ Up(lag) \in Nat
    BY <2>1, Times
  <2>4. /\ Down(left) \in Nat /\ Down(timer) \in Nat
      /\ Down(quiet) \in Nat /\ Down(capTimer) \in Nat
    BY <2>1, Times
  <2> QED BY <2>1, <2>2, <2>3, <2>4 DEF Inv, TypeOK, TimeTypes
<1>3. ContentTypes'
  BY DEF Inv, TypeOK, ContentTypes
<1>4. SelectorTypes'
  BY DEF Inv, TypeOK, SelectorTypes
<1>5. OneWait'
  BY DEF Inv, OneWait
<1>6. TimerIsCalm'
  <2>1. calm + quiet >= QUIET => Up(calm) + Down(quiet) >= QUIET
    BY Constants, Times DEF Up, Down
  <2>2. pc = "read" => script = "off"
    BY DEF Inv, OneWait
  <2> QED BY <2>1, <2>2 DEF Inv, TimerIsCalm
<1>7. SampleIsCalm'
  <2>1. calm >= change => Up(calm) >= Up(change)
    BY Constants, Times DEF Up
  <2>2. still + lag >= change => still + Up(lag) >= Up(change)
    BY Constants, Times DEF Up
  <2>3. calm >= POLL => Up(calm) >= POLL
    BY Constants, Times DEF Up
  <2>4. timer > 0 /\ calm + timer >= POLL => Up(calm) + Down(timer) >= POLL
    BY Constants, Times DEF Up, Down
  <2>5. pc = "sleep" => timer > 0
    BY Times
  <2>6. pc # "poll"
    OBVIOUS
  <2> QED BY <2>1, <2>2, <2>3, <2>4, <2>5, <2>6 DEF Inv, SampleIsCalm
<1>8. RoundIsKept'
  BY DEF Inv, RoundIsKept
<1>9. SettleKept'
  BY DEF SettleKept
<1>10. ProbeKept'
  BY DEF ProbeKept
<1> QED BY <1>1, <1>2, <1>3, <1>4, <1>5, <1>6, <1>7, <1>8, <1>9, <1>10 DEF Inv, TypeOK

(* The inductive invariant of PageWaits.                                   *)
THEOREM Invariance == Spec => []Inv
<1>1. ASSUME Inv, UNCHANGED vars
      PROVE  Inv'
  <2> USE DEF vars, codeVars, scriptVars, pageVars, seenVars
  <2>1. TypeOK'
    BY <1>1 DEF Inv, TypeOK, ControlTypes, TimeTypes, ContentTypes, SelectorTypes
  <2>2. OneWait' /\ TimerIsCalm' /\ SampleIsCalm' /\ RoundIsKept'
    BY <1>1 DEF Inv, OneWait, TimerIsCalm, SampleIsCalm, RoundIsKept, Probing
  <2>3. SettleKept' /\ ProbeKept'
    BY <1>1 DEF Inv, SettleKept, ProbeKept
  <2> QED BY <2>1, <2>2, <2>3 DEF Inv
<1>2. ASSUME Inv, EvaluateFails \/ EvaluateTimesOut \/ ReadFails \/ ReadTimesOut
      PROVE  Inv'
  BY <1>2, GivesUpInv DEF EvaluateFails, EvaluateTimesOut, ReadFails, ReadTimesOut
<1>3. ASSUME Inv, [Next]_vars
      PROVE  Inv'
  BY <1>1, <1>2, <1>3, SettleInv, EvaluateInv, FireInv, EvaluatedInv, GivesUpInv, BlockedInv, PollInv,
     SerializeInv, ReadInv, WakeInv, ProbeInv, FoundInv, VisibleInv, MissedInv,
     ResumeInv, ChangeInv, ShowInv, TickInv DEF Next, Code, Terminated
<1> QED BY <1>3, InitInv, PTL DEF Spec

(* What a settle wait knows of a page it calls quiet: the snippet, that    *)
(* nothing changed for QUIET; the polling, the same less the time its last *)
(* answer took, and a POLL in any case.                                    *)
THEOREM SettledPageWasQuiet == Spec => []SettleKept
<1>1. Inv => SettleKept
  BY DEF Inv
<1> QED BY <1>1, Invariance, PTL

(* No probe passes over a selector that stayed visible for its last round. *)
THEOREM ProbeKeepsListOrder == Spec => []ProbeKept
<1>1. Inv => ProbeKept
  BY DEF Inv
<1> QED BY <1>1, Invariance, PTL

-----------------------------------------------------------------------------
(* How long a settle wait takes.                                           *)

LEMMA Periods ==
  /\ POLL \in Nat /\ 1 <= POLL /\ READ \in Nat /\ GRACE \in Nat
BY WaitsAssumption

LEMMA PollingTime ==
  ASSUME NEW t \in Nat
  PROVE  Polling(t) \in Nat
<1>1. CASE t = 0
  BY <1>1 DEF Polling
<1>2. CASE t # 0
  <2>1. t - 1 \in Nat
    BY <1>2
  <2>2. t - 1 + READ + GRACE + POLL \in Nat
    BY <2>1, Periods
  <2> QED BY <1>2, <2>2 DEF Polling
<1> QED BY <1>1, <1>2

(* What begins has the longest time before it.                             *)
LEMMA SettleRests ==
  ASSUME Inv, SettleBound, Settle
  PROVE  SettleBound'
<1> USE Times, Periods DEF Settle
<1>1. cap' \in Nat
  BY WaitsAssumption
<1>2. pc' = "script" /\ timer' = cap' + GRACE
  OBVIOUS
<1>3. Rest' = timer' + Polling(cap')
  BY <1>2 DEF Rest
<1>4. Polling(cap') \in Nat
  BY <1>1, PollingTime
<1>5. timer' + Polling(cap') \in 0..(cap' + GRACE + Polling(cap'))
  BY <1>1, <1>2, <1>4
<1> QED BY <1>2, <1>3, <1>5 DEF SettleBound

(* One step of the wait: the rest shrinks with time and never grows.       *)
LEMMA SettlingStep ==
  ASSUME Inv, SettleBound, Settling, [Next]_vars
  PROVE  /\ Rest' \in Nat /\ Rest' <= Rest /\ (Tick => Rest' < Rest)
         /\ pc' = "read" => timer' <= READ + GRACE
         /\ cap' = cap
<1> USE Times, Periods DEF Settling
<1>1. CASE UNCHANGED vars \/ Change \/ Serialize \/ Evaluate \/ Fire
  <2>1. UNCHANGED <<pc, left, timer, cap>>
    BY <1>1
    DEF vars, Change, Serialize, Evaluate, Fire, codeVars, scriptVars,
        pageVars, seenVars
  <2>2. ~Tick
    <3>1. Tick => timer # 0 /\ timer' = Down(timer)
      BY DEF Tick, Due
    <3> QED BY <2>1, <3>1 DEF Down
  <2>3. Rest' = Rest
    BY <2>1 DEF Rest, Polling
  <2>4. Rest \in Nat
    <3>1. left \in Nat /\ timer \in Nat /\ cap \in Nat
      OBVIOUS
    <3>2. Polling(left) \in Nat /\ Polling(cap) \in Nat
      BY <3>1, PollingTime
    <3> QED BY <3>1, <3>2 DEF Rest
  <2> QED BY <2>1, <2>2, <2>3, <2>4 DEF SettleBound
<1>2. CASE Evaluated \/ EvaluateFails \/ EvaluateTimesOut \/ ReadFails \/ ReadTimesOut
  <2>1. pc' = "done" /\ cap' = cap /\ Rest' = 0 /\ ~Tick
    BY <1>2
    DEF Evaluated, EvaluateFails, EvaluateTimesOut, ReadFails, ReadTimesOut,
        GivesUp, Rest, Tick
  <2> QED BY <2>1 DEF SettleBound
<1>3. CASE Blocked
  <2>1. ~Tick
    BY <1>3 DEF Blocked, Tick
  <2> QED BY <1>3, <2>1 DEF Blocked, Rest, Polling
<1>4. CASE Poll
  <2>1. ~Tick
    BY <1>4 DEF Poll, Tick
  <2> QED BY <1>4, <2>1 DEF Poll, Rest, Polling
<1>5. CASE Read
  <2>1. pc = "read" /\ timer <= READ + GRACE /\ UNCHANGED <<left, cap>> /\ ~Tick
    BY <1>5 DEF Read, SettleBound, Tick
  <2>2. pc' = "done" \/ (pc' = "sleep" /\ timer' = POLL)
    BY <1>5 DEF Read
  <2> QED BY <2>1, <2>2 DEF Rest, Polling
<1>6. CASE Wake
  <2>1. ~Tick
    BY <1>6 DEF Wake, Tick
  <2> QED BY <1>6, <2>1 DEF Wake, Rest, Polling
<1>7. CASE Tick
  <2>1. /\ pc \in {"script", "read", "sleep"} /\ timer > 0
        /\ timer' = timer - 1 /\ left' = Down(left) /\ UNCHANGED <<pc, cap>>
    BY <1>7 DEF Tick, Due, Down, Probing
  <2>2. CASE pc = "script"
    BY <2>1, <2>2 DEF Rest, Polling
  <2>3. CASE pc = "read"
    BY <2>1, <2>3 DEF SettleBound, Rest, Polling, Down
  <2>4. CASE pc = "sleep"
    BY <2>1, <2>4 DEF Rest, Polling, Down
  <2> QED BY <2>1, <2>2, <2>3, <2>4
<1>8. ~(Settle \/ Probe \/ Found \/ Visible \/ Missed \/ Resume \/ Show \/ Terminated)
  BY DEF Settle, Probe, Found, Visible, Missed, Resume, Show, Probing, Terminated
<1> QED BY <1>1, <1>2, <1>3, <1>4, <1>5, <1>6, <1>7, <1>8 DEF Next, Code

(* No page holds a settle wait longer than the cap with its grace and,     *)
(* under a CSP, the cap and a round of polling besides.                    *)
THEOREM SettleIsBounded == Spec => []SettleBound
<1>1. Init => SettleBound
  BY DEF Init, SettleBound, Settling
<1>2. ASSUME Inv, SettleBound, [Next]_vars
      PROVE  SettleBound'
  <2>1. CASE Settling
    BY <1>2, <2>1, SettlingStep, Times, Periods DEF SettleBound, Polling
  <2>2. CASE ~Settling
    <3>1. Settle \/ ~Settling'
      BY <1>2, <2>2
      DEF Settling, Next, Code, vars, codeVars, scriptVars, pageVars, seenVars,
          Evaluate, Fire, Evaluated, EvaluateFails, EvaluateTimesOut, GivesUp,
          Blocked, Serialize, Read, ReadFails, ReadTimesOut, Poll, Wake, Probe,
          Found, Visible, Missed, NextSelector, Resume, Round, Change, Show,
          Tick, Terminated
    <3>2. ~Settling' => SettleBound'
      BY DEF Settling, SettleBound
    <3> QED BY <1>2, <3>1, <3>2, SettleRests
  <2> QED BY <2>1, <2>2
<1> QED BY <1>1, <1>2, Invariance, PTL DEF Spec

(* And each tick of the clock takes from that time, whatever the page does *)
(* meanwhile: what is left to SettleEnds is that time passes.              *)
THEOREM SettleTimeRunsOut == Spec => SettleRunsOut
<1>1. Inv /\ SettleBound /\ [Next]_vars =>
        [Settling => Rest' <= Rest /\ (Tick => Rest' < Rest)]_vars
  BY SettlingStep
<1> QED BY <1>1, Invariance, SettleIsBounded, PTL DEF Spec, SettleRunsOut
=============================================================================
