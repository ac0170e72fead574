-------------------------- MODULE PageCrawl_proofs --------------------------
(***************************************************************************)
(* Theorems of PageCrawl: what a crawl reports is its own, for any number  *)
(* of crawls and crashes.  The invariant Inv says which navigations the    *)
(* page can hold at each stage of a goto, and with them which one the      *)
(* status, the document and the JSON body belong to.                       *)
(***************************************************************************)
EXTENDS PageCrawl, TLAPS

(* A navigation is its three parts.                                        *)
LEMMA NavParts ==
  ASSUME NEW n \in Navs
  PROVE  n.crawl \in Crawls /\ n.try \in {1, 2} /\ n.kind \in Kinds
BY DEF Navs

LEMMA NavIs ==
  ASSUME NEW n \in Crawls, NEW try \in {1, 2}, NEW kind \in Kinds
  PROVE  /\ Nav(n, try, kind) \in Navs
         /\ Nav(n, try, kind).crawl = n
         /\ Nav(n, try, kind).try = try
         /\ Nav(n, try, kind).kind = kind
BY DEF Nav, Navs

LEMMA TargetIs ==
  ASSUME crawl \in Crawls
  PROVE  /\ Target \in Navs /\ Target.crawl = crawl /\ Target.kind = "goto"
         /\ Target.try = IF pc = "regoto" THEN 2 ELSE 1
BY DEF Target, Nav, Navs, Kinds

(* Nothing that was under way before the goto is newer than it.            *)
LEMMA BeforeIsOlder ==
  ASSUME crawl \in Crawls, NEW n \in Navs, Before(n)
  PROVE  ~Older(Target, n)
BY TargetIs, NavParts DEF Before, Older, Crawls

(* What is newer than a document of the crawl is newer in kind.            *)
LEMMA NewerCovered ==
  ASSUME NEW m \in Navs, NEW n \in Navs, m.crawl = n.crawl, m.try = n.try,
         Older(m, n)
  PROVE  n.kind # "goto" /\ (n.kind = "page" => m.kind = "goto")
BY NavParts DEF Older, Age, Crawls

LEMMA NoResultIs == NoResult \in Results
BY PageAssumption DEF NoResult, Results, Ends

LEMMA InitInv == Init => Inv
<1> SUFFICES ASSUME Init PROVE Inv
  OBVIOUS
<1>1. TypeOK
  <2>1. result \in Results
    BY NoResultIs DEF Init
  <2>2. late \in BOOLEAN
    BY Zenon DEF Init
  <2>3. crawl \in 0..MaxCrawls /\ lastError \in 0..MaxCrawls /\ crashes \in 0..MaxCrashes
    BY PageAssumption DEF Init
  <2> QED BY <2>1, <2>2, <2>3 DEF Init, TypeOK
<1>2. NothingAhead /\ AnswerIsOwn /\ AllOwn /\ Reported /\ Interruptions
  BY DEF Init, NothingAhead, AnswerIsOwn, AllOwn, Past, Reported,
         Interruptions, Reading, Evaluating, Content
<1>3. BodyIsOwn /\ StatusIsOwn /\ ReasonIsOwn /\ LeftoverAbsorbed
  BY DEF Init, NoResult, BodyIsOwn, StatusIsOwn, ReasonIsOwn, LeftoverAbsorbed
<1> QED BY <1>1, <1>2, <1>3 DEF Init, Inv

-----------------------------------------------------------------------------
(* The browser's steps.                                                    *)

LEMMA GotoStartsInv == Inv /\ GotoStarts => Inv'
<1> SUFFICES ASSUME Inv, GotoStarts PROVE Inv'
  OBVIOUS
<1> USE DEF GotoStarts, Loading
<1>1. crawl \in Crawls /\ Target' = Target /\ pc' = pc /\ crawl' = crawl
  BY DEF Inv, TypeOK, Target
<1>2. PICK kept \in SUBSET {m \in flight : m \in answered \/ m.kind = "error"} :
        /\ flight' = kept \cup {Target}
        /\ answered' = (answered \cap kept) \ {Target}
  BY DEF Starts
<1>3. TypeOK'
  BY <1>1, <1>2, TargetIs DEF Inv, TypeOK, responseVars
<1>4. NothingAhead'
  <2>1. \A n \in flight : Before(n) /\ Before(n)'
    BY <1>1 DEF Inv, NothingAhead, OnWay, Before
  <2>2. doc # NoNav => Before(doc) /\ Before(doc)'
    BY <1>1 DEF Inv, NothingAhead, OnWay, Before
  <2>3. \A n \in flight' : n.crawl <= crawl /\ (pc = "goto" /\ n.crawl = crawl => n.try = 1)
    BY <1>1, <1>2, TargetIs, <2>1 DEF Inv, NothingAhead, Crawls
  <2> QED BY <1>1, <1>2, <2>1, <2>2, <2>3 DEF Inv, NothingAhead
<1>5. AnswerIsOwn'
  BY <1>1, <1>2 DEF AnswerIsOwn
<1>6. AllOwn' /\ Reported' /\ Interruptions' /\ (main = status)'
  BY DEF Inv, AllOwn, Past, Reported, Interruptions, Reading, Evaluating, Content,
         responseVars
<1>7. BodyIsOwn' /\ StatusIsOwn' /\ ReasonIsOwn' /\ LeftoverAbsorbed'
  BY DEF Inv, BodyIsOwn, StatusIsOwn, ReasonIsOwn, LeftoverAbsorbed
<1> QED BY <1>3, <1>4, <1>5, <1>6, <1>7 DEF Inv

LEMMA PageNavigatesInv == Inv /\ PageNavigates => Inv'
<1> SUFFICES ASSUME Inv, PageNavigates PROVE Inv'
  OBVIOUS
<1> USE DEF PageNavigates, Loading, responseVars
<1> DEFINE n == Nav(doc.crawl, doc.try, "page")
<1>1. /\ doc \in Navs /\ n \in Navs
      /\ n.crawl = doc.crawl /\ n.try = doc.try /\ n.kind = "page"
  BY NavParts, NavIs DEF Inv, TypeOK, Kinds
<1>2. PICK kept \in SUBSET {m \in flight : m \in answered \/ m.kind = "error"} :
        /\ flight' = kept \cup {n}
        /\ answered' = (answered \cap kept) \ {n}
  BY DEF Starts
<1> HIDE DEF n
<1>3. /\ \/ pc \in Loading /\ reply = "waiting" /\ reply' = "interrupted" /\ stale' = stale + 1
         \/ reply' = reply /\ stale' = stale /\ ~(pc \in Loading /\ reply = "waiting")
      /\ Target' = Target /\ pc' = pc /\ crawl' = crawl /\ doc' = doc /\ late' = late
      /\ raw' = raw /\ result' = result /\ status' = status /\ main' = main
  BY DEF Target
<1>4. TypeOK'
  <2>1. flight' \subseteq Navs /\ answered' \subseteq flight'
    BY <1>1, <1>2 DEF Inv, TypeOK
  <2>2. stale' \in Nat /\ reply' \in {"sent", "waiting", "committed", "interrupted",
                                      "failed", "timeout", "destroyed"}
    BY <1>3 DEF Inv, TypeOK
  <2> QED BY <1>3, <2>1, <2>2 DEF Inv, TypeOK
<1>5. \A m : (Before(m)' <=> Before(m)) /\ (Covered(m)' <=> Covered(m))
  BY <1>3 DEF Before, Covered
<1>6. NothingAhead'
  BY <1>1, <1>2, <1>3, <1>5 DEF Inv, NothingAhead, OnWay, Before
<1>7. AnswerIsOwn' /\ Interruptions' /\ (main = status)'
  BY <1>3 DEF Inv, TypeOK, AnswerIsOwn, Interruptions
<1>8. AllOwn' /\ Reported'
  <2>1. AllOwn'
    BY <1>1, <1>2, <1>3, <1>5 DEF Inv, AllOwn, Past, Covered
  <2>2. Reported'
    BY <1>3, <1>5 DEF Inv, Reported
  <2> QED BY <2>1, <2>2
<1>9. BodyIsOwn' /\ StatusIsOwn' /\ ReasonIsOwn'
  BY <1>3 DEF Inv, BodyIsOwn, StatusIsOwn, ReasonIsOwn
<1>10. LeftoverAbsorbed'
  BY <1>3 DEF Inv, TypeOK, LeftoverAbsorbed
<1> QED BY <1>4, <1>6, <1>7, <1>8, <1>9, <1>10 DEF Inv

LEMMA RespondInv == ASSUME Inv, NEW n \in flight, Respond(n) PROVE Inv'
<1> USE DEF Respond, Loading, crawlVars
<1>1. n \in Navs /\ Target' = Target /\ pc' = pc /\ crawl' = crawl /\ reply' = reply
  BY DEF Inv, TypeOK, Target
<1>2. TypeOK' /\ (main = status)'
  BY <1>1 DEF Inv, TypeOK, OnResponse, responseVars
<1>3. NothingAhead' /\ Interruptions'
  BY <1>1 DEF Inv, NothingAhead, OnWay, Before, Interruptions
<1>4. AnswerIsOwn'
  BY <1>1 DEF Inv, AnswerIsOwn, OnResponse
<1>5. ASSUME Past PROVE AllOwn' /\ (\A m : Covered(m) => Covered(m)')
  <2>1. status' = n /\ n.kind = "page" /\ n.crawl = crawl /\ n.try = status.try
    BY <1>1, <1>5, NavParts DEF Inv, AllOwn, OnResponse, Past, Reading, Evaluating,
                                 Content, Kinds
  <2>2. \A m : Covered(m) => Covered(m)'
    BY <2>1, <1>1 DEF Covered
  <2>3. Past' /\ n # NoNav /\ Covered(n)'
    BY <1>1, <1>5, <2>1, PageAssumption DEF Past, Covered
  <2> QED BY <1>1, <1>5, <2>1, <2>2, <2>3 DEF Inv, AllOwn
<1>6. AllOwn'
  <2>1. CASE Past
    BY <1>5, <2>1
  <2>2. CASE ~Past
    BY <2>2, <1>1 DEF AllOwn, Past
  <2> QED BY <2>1, <2>2
<1>7. Reported'
  BY <1>5, <1>1 DEF Inv, Reported, Past
<1>8. BodyIsOwn' /\ StatusIsOwn' /\ ReasonIsOwn' /\ LeftoverAbsorbed'
  BY DEF Inv, BodyIsOwn, StatusIsOwn, ReasonIsOwn, LeftoverAbsorbed
<1> QED BY <1>2, <1>3, <1>4, <1>6, <1>7, <1>8 DEF Inv

(* The commit of the goto the crawl awaits leaves nothing else under way.  *)
LEMMA CommitInv == ASSUME Inv, NEW n \in flight, Commit(n) PROVE Inv'
<1> USE DEF Commit, Loading, Reading, Evaluating, Content, responseVars
<1>1. n \in Navs /\ Target' = Target /\ pc' = pc /\ crawl' = crawl
  BY DEF Inv, TypeOK, Target
<1>2. /\ flight' = {m \in flight : Older(n, m)}
      /\ flight' \subseteq flight /\ answered' = answered \cap flight' /\ doc' = n
  OBVIOUS
<1>3. /\ reply' \in {reply, "committed", "interrupted", "destroyed"}
      /\ reply' # reply => \/ /\ reply' \in {"committed", "interrupted"}
                              /\ pc \in Loading /\ reply = "waiting"
                           \/ reply' = "destroyed" /\ pc \in Reading
      /\ pc \in Loading /\ reply = "waiting" =>
            reply' = IF n = Target THEN "committed" ELSE "interrupted"
  OBVIOUS
<1>4. TypeOK'
  <2>1. stale' \in Nat /\ reply' \in {"sent", "waiting", "committed", "interrupted", "failed",
                                      "timeout", "destroyed"}
    BY <1>3 DEF Inv, TypeOK
  <2>2. answered' \subseteq flight' /\ flight' \subseteq Navs
    BY <1>2 DEF Inv, TypeOK
  <2> QED BY <1>1, <2>1, <2>2 DEF Inv, TypeOK
<1>5. NothingAhead'
  BY <1>1, <1>2, <1>3 DEF Inv, NothingAhead, OnWay, Before
<1>6. AnswerIsOwn' /\ (main = status)'
  BY <1>1, <1>3 DEF Inv, AnswerIsOwn
<1>7. ASSUME pc \in Loading, reply = "waiting", n = Target
      PROVE  AllOwn'
  <2>1. crawl \in Crawls
    BY <1>7 DEF Inv, TypeOK
  <2>2. Target \in answered /\ Target.kind = "goto"
    BY <1>7, <2>1, TargetIs
  <2>3. status = Target
    BY <1>7, <2>2 DEF Inv, AnswerIsOwn
  <2>4. \A m \in flight : ~Older(Target, m)
    <3> SUFFICES ASSUME NEW m \in flight PROVE ~Older(Target, m)
      OBVIOUS
    <3>1. CASE m = Target
      BY <2>1, <3>1, TargetIs DEF Older, Age, Crawls
    <3>2. CASE Before(m)
      BY <2>1, <3>2, BeforeIsOlder DEF Inv, TypeOK
    <3> QED BY <1>7, <3>1, <3>2 DEF Inv, NothingAhead, OnWay
  <2>5. flight' = {}
    BY <1>2, <1>7, <2>4
  <2>6. Covered(doc)'
    BY <1>1, <1>2, <1>7, <2>1, <2>3, TargetIs, PageAssumption DEF Covered
  <2> QED BY <1>1, <1>2, <1>3, <1>7, <2>1, <2>2, <2>3, <2>5, <2>6, TargetIs, PageAssumption DEF AllOwn
<1>8. ASSUME Past PROVE AllOwn'
  <2>1. Covered(n)
    BY <1>1, <1>8, PageAssumption DEF Inv, AllOwn, Covered
  <2>2. \A m : Covered(m)' <=> Covered(m)
    BY <1>1 DEF Covered
  <2> QED BY <1>1, <1>2, <1>8, <2>1, <2>2 DEF Inv, AllOwn
<1>9. AllOwn'
  BY <1>1, <1>3, <1>7, <1>8 DEF AllOwn, Past
<1>10. Reported'
  BY <1>1 DEF Inv, Reported, Covered
<1>11. Interruptions'
  BY <1>1, <1>3 DEF Inv, TypeOK, Interruptions
<1>12. BodyIsOwn' /\ StatusIsOwn' /\ ReasonIsOwn'
  BY DEF Inv, BodyIsOwn, StatusIsOwn, ReasonIsOwn
<1>13. LeftoverAbsorbed'
  BY DEF Inv, TypeOK, LeftoverAbsorbed
<1> QED BY <1>4, <1>5, <1>6, <1>9, <1>10, <1>11, <1>12, <1>13 DEF Inv

LEMMA LoadFailsInv == ASSUME Inv, NEW n \in flight, LoadFails(n) PROVE Inv'
<1> USE DEF LoadFails, Loading, Reading, Evaluating, Content, responseVars
<1> DEFINE e == Nav(n.crawl, n.try, "error")
<1>1. /\ n \in Navs /\ e \in Navs /\ e.crawl = n.crawl /\ e.try = n.try /\ e.kind = "error"
      /\ Target' = Target /\ pc' = pc /\ crawl' = crawl
  BY NavParts, NavIs DEF Inv, TypeOK, Target, Kinds
<1>2. flight' \subseteq flight \cup {e} /\ answered' = answered \ {n}
  OBVIOUS
<1>3. answered' \subseteq flight' /\ n \notin flight'
  BY <1>1 DEF Inv, TypeOK
<1> HIDE DEF e
<1>4. TypeOK'
  BY <1>1, <1>2, <1>3 DEF Inv, TypeOK
<1>5. NothingAhead'
  <2>1. CASE OnWay'
    BY <1>1, <1>2, <2>1, TargetIs DEF Inv, NothingAhead, OnWay, Before
  <2>2. CASE ~OnWay'
    BY <1>1, <1>2, <2>2 DEF Inv, NothingAhead
  <2> QED BY <2>1, <2>2
<1>6. AnswerIsOwn' /\ (main = status)'
  BY <1>1, <1>2, <1>3 DEF Inv, AnswerIsOwn
<1>7. AllOwn'
  BY <1>1, <1>2 DEF Inv, AllOwn, Past, Covered
<1>8. Reported' /\ Interruptions'
  BY <1>1 DEF Inv, Reported, Covered, Interruptions
<1>9. BodyIsOwn' /\ StatusIsOwn' /\ ReasonIsOwn' /\ LeftoverAbsorbed'
  BY DEF Inv, BodyIsOwn, StatusIsOwn, ReasonIsOwn, LeftoverAbsorbed
<1> QED BY <1>4, <1>5, <1>6, <1>7, <1>8, <1>9 DEF Inv

(* The timeout of a goto and a crash end calls, and start nothing.         *)
LEMMA CutShortInv == Inv /\ (GotoTimesOut \/ Crash) => Inv'
<1> SUFFICES ASSUME Inv, GotoTimesOut \/ Crash PROVE Inv'
  OBVIOUS
<1> USE DEF GotoTimesOut, Crash, browserVars, responseVars, Loading, Reading,
            Evaluating, Content
<1>1. /\ flight' \subseteq flight /\ answered' \subseteq answered
      /\ pc' = pc /\ crawl' = crawl /\ Target' = Target /\ doc' = doc
      /\ status' = status /\ raw' = raw /\ main' = main /\ result' = result
      /\ stale' = stale /\ late' = late
      /\ reply' = reply \/ (pc \in Loading /\ reply' \in {"timeout", "failed"})
  BY DEF Target
<1>2. TypeOK'
  BY <1>1, PageAssumption DEF Inv, TypeOK
<1>3. \A m : (Before(m)' <=> Before(m)) /\ (Covered(m)' <=> Covered(m))
  BY <1>1 DEF Before, Covered
<1>4. NothingAhead'
  BY <1>1, <1>3 DEF Inv, NothingAhead, OnWay
<1>5. AnswerIsOwn'
  BY <1>1 DEF AnswerIsOwn
<1>6. AllOwn' /\ Reported' /\ Interruptions'
  BY <1>1, <1>3 DEF Inv, AllOwn, Past, Reported, Interruptions
<1>7. BodyIsOwn' /\ StatusIsOwn' /\ ReasonIsOwn' /\ LeftoverAbsorbed' /\ (main = status)'
  BY <1>1 DEF Inv, BodyIsOwn, StatusIsOwn, ReasonIsOwn, LeftoverAbsorbed
<1> QED BY <1>2, <1>4, <1>5, <1>6, <1>7 DEF Inv

-----------------------------------------------------------------------------
(* The crawl's steps.                                                      *)

LEMMA BeginInv == Inv /\ Begin => Inv'
<1> SUFFICES ASSUME Inv, Begin PROVE Inv'
  OBVIOUS
<1> USE DEF Begin, browserVars, Loading, Reading, Evaluating, Content
<1>1. /\ crawl' = crawl + 1 /\ crawl' \in Crawls /\ crawl \in Nat /\ pc' = "goto"
      /\ Target'.crawl = crawl' /\ Target'.try = 1
  BY PageAssumption DEF Inv, TypeOK, Crawls, Target, Nav
<1>2. TypeOK'
  <2>1. result' \in Results
    BY NoResultIs
  <2>2. late' \in BOOLEAN
    BY Zenon
  <2> QED BY <1>1, <2>1, <2>2, PageAssumption DEF Inv, TypeOK
<1>3. NothingAhead'
  <2>1. \A n \in flight' : n.crawl \in Nat /\ n.crawl < crawl'
    BY <1>1, NavParts DEF Inv, TypeOK, NothingAhead, Crawls
  <2>2. doc' # NoNav => doc'.crawl \in Nat /\ doc'.crawl < crawl'
    BY <1>1, NavParts DEF Inv, TypeOK, NothingAhead, Crawls
  <2> QED BY <1>1, <2>1, <2>2 DEF NothingAhead, Before
<1>4. AnswerIsOwn' /\ AllOwn' /\ Reported' /\ Interruptions' /\ (main = status)'
  BY DEF AnswerIsOwn, AllOwn, Past, Reported, Interruptions, NoResult
<1>5. BodyIsOwn' /\ StatusIsOwn' /\ ReasonIsOwn' /\ LeftoverAbsorbed'
  BY DEF NoResult, BodyIsOwn, StatusIsOwn, ReasonIsOwn, LeftoverAbsorbed
<1> QED BY <1>2, <1>3, <1>4, <1>5 DEF Inv

LEMMA GotoReturnsInv == Inv /\ GotoReturns => Inv'
<1> SUFFICES ASSUME Inv, GotoReturns PROVE Inv'
  OBVIOUS
<1> USE DEF GotoReturns, browserVars, responseVars, Loading, Reading, Evaluating,
            Content, Loaded, Reload
<1>1. /\ flight' = flight /\ answered' = answered /\ doc' = doc /\ crawl' = crawl
      /\ status' = status /\ main' = main /\ result' = result /\ stale' = stale
      /\ result.end = "none" /\ crawl \in Crawls
  BY DEF Inv, TypeOK, Reported
<1>2. TypeOK'
  BY DEF Inv, TypeOK
<1>3. NothingAhead'
  <2>1. CASE pc' = "regoto"
    <3>1. pc = "goto" /\ Target'.try = 2 /\ Target'.crawl = crawl
      BY <2>1, <1>1 DEF Target, Nav
    <3>2. \A n \in flight : Before(n)'
      BY <3>1, <1>1, NavParts DEF Inv, TypeOK, NothingAhead, Before, Crawls
    <3>3. doc # NoNav => Before(doc)'
      BY <3>1, <1>1, NavParts DEF Inv, TypeOK, NothingAhead, Before, Crawls
    <3> QED BY <1>1, <2>1, <3>2, <3>3 DEF Inv, NothingAhead
  <2>2. CASE pc' # "regoto"
    BY <1>1, <2>2 DEF Inv, NothingAhead, OnWay
  <2> QED BY <2>1, <2>2
<1>4. AnswerIsOwn' /\ (main = status)'
  BY DEF Inv, AnswerIsOwn
<1>5. AllOwn'
  BY <1>1 DEF Inv, AllOwn, Past, Covered
<1>6. Reported' /\ Interruptions'
  BY <1>1 DEF Inv, Reported, Interruptions
<1>7. BodyIsOwn' /\ StatusIsOwn' /\ ReasonIsOwn' /\ LeftoverAbsorbed'
  BY <1>1 DEF BodyIsOwn, StatusIsOwn, ReasonIsOwn, LeftoverAbsorbed
<1> QED BY <1>2, <1>3, <1>4, <1>5, <1>6, <1>7 DEF Inv

LEMMA DrainedInv == Inv /\ Drained => Inv'
<1> SUFFICES ASSUME Inv, Drained PROVE Inv'
  OBVIOUS
<1> USE DEF Drained, Report, browserVars, responseVars, Loading, Reading,
            Evaluating, Content
<1>1. TypeOK'
  BY PageAssumption DEF Inv, TypeOK, Results, Ends
<1>2. NothingAhead' /\ AnswerIsOwn' /\ AllOwn' /\ Reported' /\ Interruptions' /\ (main = status)'
  BY DEF Inv, NothingAhead, OnWay, AnswerIsOwn, AllOwn, Past, Reported, Interruptions
<1>3. BodyIsOwn' /\ StatusIsOwn' /\ ReasonIsOwn' /\ LeftoverAbsorbed'
  BY DEF Inv, Interruptions, BodyIsOwn, StatusIsOwn, ReasonIsOwn, LeftoverAbsorbed
<1> QED BY <1>1, <1>2, <1>3 DEF Inv

LEMMA JsonReadInv == Inv /\ JsonRead => Inv'
<1> SUFFICES ASSUME Inv, JsonRead PROVE Inv'
  OBVIOUS
<1> USE DEF JsonRead, browserVars, responseVars, Loading, Reading, Evaluating, Content
<1>1. TypeOK'
  BY DEF Inv, TypeOK
<1>2. NothingAhead' /\ AnswerIsOwn' /\ Reported' /\ Interruptions' /\ (main = status)'
  BY DEF Inv, NothingAhead, OnWay, AnswerIsOwn, Reported, Interruptions
<1>3. AllOwn'
  BY DEF Inv, AllOwn, Past, Covered
<1>4. BodyIsOwn' /\ StatusIsOwn' /\ ReasonIsOwn' /\ LeftoverAbsorbed'
  BY DEF Inv, BodyIsOwn, StatusIsOwn, ReasonIsOwn, LeftoverAbsorbed
<1> QED BY <1>1, <1>2, <1>3, <1>4 DEF Inv

-----------------------------------------------------------------------------
(* The waits and readings between the load and the report.                 *)

LoadedVars == <<browserVars, responseVars, crawl, raw, stale, late>>
BeforeReport == Reading \cup {"wait"}

(* A reading that goes on to another reading keeps the invariant.          *)
LEMMA ReadsOnInv ==
  ASSUME Inv, UNCHANGED LoadedVars, UNCHANGED result,
         pc \in BeforeReport, pc' \in Reading, reply' = "waiting",
         lastError' \in {0, crawl, lastError}
  PROVE  Inv'
<1> USE DEF LoadedVars, BeforeReport, browserVars, responseVars, Loading, Reading,
            Evaluating, Content
<1>1. TypeOK'
  BY PageAssumption DEF Inv, TypeOK
<1>2. NothingAhead' /\ AnswerIsOwn' /\ Reported' /\ Interruptions' /\ (main = status)'
  BY DEF Inv, NothingAhead, OnWay, AnswerIsOwn, Reported, Interruptions
<1>3. AllOwn'
  BY DEF Inv, AllOwn, Past, Covered
<1>4. BodyIsOwn' /\ StatusIsOwn' /\ ReasonIsOwn' /\ LeftoverAbsorbed'
  BY DEF Inv, BodyIsOwn, StatusIsOwn, ReasonIsOwn, LeftoverAbsorbed
<1> QED BY <1>1, <1>2, <1>3, <1>4 DEF Inv

(* A report of the crawl's own document, or of none with a reason that is  *)
(* the crawl's own, keeps the invariant.                                   *)
LEMMA CaptureInv ==
  ASSUME Inv, UNCHANGED LoadedVars, pc \in BeforeReport,
         NEW body \in {doc, raw, NoNav}, NEW error \in 0..MaxCrawls,
         Capture(body, error), raw # NoNav \/ error \in {0, crawl}
  PROVE  Inv'
<1> USE DEF LoadedVars, BeforeReport, browserVars, responseVars, Loading, Reading,
            Evaluating, Content, Capture, Report
<1>1. /\ crawl \in Crawls
      /\ status \in Navs /\ status.crawl = crawl /\ status.kind # "error"
      /\ doc \in Navs /\ Covered(doc)
      /\ body # NoNav => body \in Navs /\ Covered(body)
  BY PageAssumption DEF Inv, TypeOK, AllOwn, Past, Covered
<1>2. TypeOK'
  BY <1>1 DEF Inv, TypeOK, Results, Ends
<1>3. NothingAhead' /\ AnswerIsOwn' /\ Interruptions' /\ (main = status)'
  BY DEF Inv, NothingAhead, OnWay, AnswerIsOwn, Interruptions
<1>4. AllOwn' /\ Reported'
  BY <1>1 DEF Inv, AllOwn, Past, Covered, Reported
<1>5. BodyIsOwn' /\ ReasonIsOwn' /\ LeftoverAbsorbed'
  BY <1>1 DEF BodyIsOwn, ReasonIsOwn, LeftoverAbsorbed, Covered
<1>6. StatusIsOwn'
  <2>1. body # NoNav /\ body.kind # "error" => ~Older(status, body)
    BY <1>1, NavParts DEF Covered, Older, Age, Kinds, Crawls
  <2>2. status # NoNav
    BY <1>1, PageAssumption
  <2> QED BY <1>1, <2>1, <2>2 DEF StatusIsOwn
<1> QED BY <1>2, <1>3, <1>4, <1>5, <1>6 DEF Inv

LEMMA CaptureOrExtractInv ==
  ASSUME Inv, UNCHANGED LoadedVars, pc \in BeforeReport,
         NEW error \in {0, crawl, lastError}, CaptureOrExtract(error)
  PROVE  Inv'
<1>1. error \in 0..MaxCrawls
  BY PageAssumption DEF Inv, TypeOK
<1>2. CASE raw # NoNav
  BY <1>1, <1>2, CaptureInv DEF CaptureOrExtract
<1>3. CASE raw = NoNav
  BY <1>3, ReadsOnInv DEF CaptureOrExtract, Reading, Content
<1> QED BY <1>2, <1>3

LEMMA WaitedInv == Inv /\ Waited => Inv'
BY CaptureOrExtractInv, ReadsOnInv DEF Waited, LoadedVars, BeforeReport, Reading, Evaluating

LEMMA SettledInv == ASSUME Inv, NEW o \in Outcomes, Settled(o) PROVE Inv'
<1>1. ErrorAfter(o) \in {0, crawl, lastError} /\ pc \in BeforeReport /\ UNCHANGED LoadedVars
  BY DEF ErrorAfter, Settled, BeforeReport, Reading, LoadedVars
<1>2. CASE o = "csp" \/ pc = "resettle"
  BY <1>1, <1>2, ReadsOnInv DEF Settled, Reading, Content
<1>3. CASE ~(o = "csp" \/ pc = "resettle")
  BY <1>1, <1>3, CaptureOrExtractInv DEF Settled
<1> QED BY <1>2, <1>3

LEMMA PolledInv == ASSUME Inv, NEW o \in Outcomes, Polled(o) PROVE Inv'
<1>1. ErrorAfter(o) \in {0, crawl, lastError} /\ pc \in BeforeReport /\ pc \in Reading
        /\ UNCHANGED LoadedVars
  BY DEF ErrorAfter, Polled, BeforeReport, Reading, Content, LoadedVars
<1>2. CASE pc = "poll" /\ CaptureOrExtract(ErrorAfter(o))
  BY <1>1, <1>2, CaptureOrExtractInv
<1>3. CASE o = "ok" /\ UNCHANGED <<pc, result>> /\ reply' = "waiting"
             /\ lastError' = ErrorAfter(o)
  BY <1>1, <1>3, ReadsOnInv
<1>4. CASE pc = "repoll" /\ pc' = "reextract" /\ UNCHANGED result /\ reply' = "waiting"
             /\ lastError' = ErrorAfter(o)
  BY <1>1, <1>4, ReadsOnInv DEF Reading, Content
<1> QED BY <1>2, <1>3, <1>4 DEF Polled

LEMMA ExtractedInv == ASSUME Inv, NEW o \in Outcomes, Extracted(o) PROVE Inv'
<1>1. /\ ErrorAfter(o) \in {0, crawl} /\ ErrorAfter(o) \in 0..MaxCrawls
      /\ pc \in BeforeReport /\ UNCHANGED LoadedVars
  BY PageAssumption
  DEF ErrorAfter, Extracted, BeforeReport, Reading, Content, LoadedVars, Inv,
      TypeOK
<1>2. ASSUME NEW body \in {doc, NoNav}, Capture(body, ErrorAfter(o))
      PROVE  Inv'
  BY <1>1, <1>2, CaptureInv
<1>3. CASE pc' = "resettle" /\ reply' = "waiting" /\ lastError' = ErrorAfter(o)
             /\ UNCHANGED result
  BY <1>1, <1>3, ReadsOnInv DEF Reading, Evaluating
<1> QED BY <1>2, <1>3 DEF Extracted

LEMMA FinishInv == Inv /\ Finish => Inv'
<1> SUFFICES ASSUME Inv, Finish PROVE Inv'
  OBVIOUS
<1> USE DEF Finish, browserVars, responseVars, Loading, Reading, Evaluating, Content
<1>1. /\ crawl \in Crawls /\ status \in Navs /\ status.crawl = crawl /\ status.kind # "error"
      /\ result \in Results /\ result.end \in {"ok", "extract"}
      /\ result.end = "ok" => result.body \in Navs /\ Covered(result.body)
  BY PageAssumption DEF Inv, TypeOK, AllOwn, Past, Covered, Reported, Results
<1>2. /\ result' \in Results
      /\ result'.end = result.end /\ result'.body = result.body /\ result'.url = result.url
      /\ result'.error = result.error /\ result'.json = result.json
      /\ result'.status = IF result.end = "ok" THEN status ELSE result.status
  BY <1>1 DEF Results
<1>3. TypeOK'
  BY <1>2 DEF Inv, TypeOK
<1>4. NothingAhead' /\ AnswerIsOwn' /\ AllOwn' /\ Reported' /\ Interruptions' /\ (main = status)'
  BY <1>2 DEF Inv, NothingAhead, OnWay, AnswerIsOwn, AllOwn, Past, Reported, Interruptions
<1>5. BodyIsOwn' /\ ReasonIsOwn' /\ LeftoverAbsorbed'
  BY <1>2 DEF Inv, BodyIsOwn, ReasonIsOwn, LeftoverAbsorbed
<1>6. StatusIsOwn'
  <2>1. CASE result.end = "ok"
    <3>1. result.body.kind # "error" => ~Older(status, result.body)
      BY <1>1, <2>1, NavParts DEF Covered, Older, Age, Kinds, Crawls
    <3>2. status # NoNav
      BY <1>1, PageAssumption
    <3> QED BY <1>1, <1>2, <2>1, <3>1, <3>2 DEF StatusIsOwn
  <2>2. CASE result.end # "ok"
    BY <1>2, <2>2 DEF Inv, StatusIsOwn
  <2> QED BY <2>1, <2>2
<1> QED BY <1>3, <1>4, <1>5, <1>6 DEF Inv

-----------------------------------------------------------------------------
LEMMA NextInv == Inv /\ [Next]_vars => Inv'
<1> SUFFICES ASSUME Inv, [Next]_vars PROVE Inv'
  OBVIOUS
<1>1. CASE Browser
  BY <1>1, GotoStartsInv, PageNavigatesInv, CutShortInv, RespondInv, CommitInv,
     LoadFailsInv DEF Browser
<1>2. CASE Job
  BY <1>2, BeginInv, GotoReturnsInv, DrainedInv, JsonReadInv, WaitedInv, FinishInv,
     SettledInv, PolledInv, ExtractedInv DEF Job
<1>3. CASE UNCHANGED vars
  BY <1>3
  DEF vars, browserVars, crawlVars, responseVars, Inv, TypeOK, NothingAhead, OnWay,
      Before, Target, AnswerIsOwn, AllOwn, Past, Covered, Reported, Interruptions,
      BodyIsOwn, StatusIsOwn, ReasonIsOwn, LeftoverAbsorbed
<1> QED BY <1>1, <1>2, <1>3 DEF Next

(* The inductive invariant holds in every state.                           *)
THEOREM Invariance == Spec => []Inv
<1> QED BY InitInv, NextInv, PTL DEF Spec

(* A crawl that succeeds returns a document that its own navigation        *)
(* brought.                                                                *)
THEOREM BodyOfOwnCrawl == Spec => []BodyIsOwn
<1>1. Inv => BodyIsOwn
  BY DEF Inv
<1> QED BY <1>1, Invariance, PTL

(* Its status is one of its own navigations, and not of one before the     *)
(* document captured.                                                      *)
THEOREM StatusOfOwnCrawl == Spec => []StatusIsOwn
<1>1. Inv => StatusIsOwn
  BY DEF Inv
<1> QED BY <1>1, Invariance, PTL

(* The reason given for an empty document was found in the crawl itself,   *)
(* unless a JSON body was blank.                                           *)
THEOREM ReasonOfOwnCrawl == Spec => []ReasonIsOwn
<1>1. Inv => ReasonIsOwn
  BY DEF Inv
<1> QED BY <1>1, Invariance, PTL

(* One leftover navigation does not fail a crawl that has a second left to *)
(* try again.                                                              *)
THEOREM OneLeftoverIsAbsorbed == Spec => []LeftoverAbsorbed
<1>1. Inv => LeftoverAbsorbed
  BY DEF Inv
<1> QED BY <1>1, Invariance, PTL
=============================================================================
