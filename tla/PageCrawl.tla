----------------------------- MODULE PageCrawl -----------------------------
(***************************************************************************)
(* What one crawl reads off the page that all crawls share (_fetch and its *)
(* helpers in browser.py): which navigation its status, its body and its   *)
(* error come from, while navigations of the crawls before it are still    *)
(* under way in the same page.                                             *)
(*                                                                         *)
(* Crawls are numbered in the order they take the lock.  A navigation is   *)
(* named by the crawl and the goto it stems from, the first or the second, *)
(* and its kind: that goto, one its document starts by itself (a client-   *)
(* side redirect), or the error page after a failure.  The browser is      *)
(* external and modelled from what the code expects of it:                 *)
(* a navigation is answered (the response event) and then commits; one     *)
(* that starts drops those not yet answered, and may drop answered ones;   *)
(* one that commits drops every older one.  Time is FetchBudget's; here a  *)
(* deadline may strike whenever the code looks at it.                      *)
(***************************************************************************)
EXTENDS Naturals

CONSTANTS MaxCrawls,          \* bound on the crawls of a behaviour
          MaxCrashes,         \* bound on page crashes
          NoNav               \* None

Crawls == 1..MaxCrawls
Kinds == {"goto", "page", "error"}
Navs == [crawl : Crawls, try : 1..2, kind : Kinds]

ASSUME PageAssumption ==
  /\ MaxCrawls \in Nat
  /\ MaxCrashes \in Nat
  /\ NoNav \notin Navs

VARIABLES
  crawl,      \* the number of the current, or else the last, crawl
  pc,         \* the await it is in
  reply,      \* what the browser has said so far to that await
  flight,     \* navigations under way in the page
  answered,   \* those of them whose response has arrived
  doc,        \* the navigation that brought the current document
  status,     \* status, as the navigation it belongs to
  main,       \* main_response
  raw,        \* raw_json, as the navigation whose body it is
  lastError,  \* _last_exec_error, as the crawl it was set in; 0 is None
  page,       \* "up" or "crashed"
  stale,      \* history: interruptions of the current crawl's gotos
  late,       \* history: the first of them came with under a second left
  result,     \* what the current, or else the last, crawl reports
  crashes     \* page crashes so far

browserVars == <<flight, answered, doc, page, crashes>>
crawlVars == <<crawl, pc, reply, raw, lastError, stale, late, result>>
responseVars == <<status, main>>
vars == <<browserVars, crawlVars, responseVars>>

Loading == {"goto", "regoto"}
Evaluating == {"settle", "resettle"}
Content == {"poll", "repoll", "extract", "reextract"}
Reading == Evaluating \cup Content
Ends == {"none", "ok", "interrupted", "load", "extract"}
Results == [end : Ends, status : Navs \cup {NoNav}, body : Navs \cup {NoNav},
            url : Navs \cup {NoNav}, error : 0..MaxCrawls, json : BOOLEAN]

TypeOK ==
  /\ crawl \in 0..MaxCrawls
  /\ pc \in Loading \cup Reading \cup {"idle", "drain", "json", "wait", "title"}
  /\ reply \in {"sent", "waiting", "committed", "interrupted", "failed",
                "timeout", "destroyed"}
  /\ flight \subseteq Navs /\ answered \subseteq flight
  /\ doc \in Navs \cup {NoNav}
  /\ status \in Navs \cup {NoNav} /\ main \in Navs \cup {NoNav}
  /\ raw \in Navs \cup {NoNav}
  /\ lastError \in 0..MaxCrawls
  /\ page \in {"up", "crashed"}
  /\ stale \in Nat /\ late \in BOOLEAN
  /\ result \in Results
  /\ crashes \in 0..MaxCrashes
  /\ pc # "idle" => crawl \in Crawls

NoResult == [end |-> "none", status |-> NoNav, body |-> NoNav, url |-> NoNav,
             error |-> 0, json |-> FALSE]

Init ==
  /\ crawl = 0 /\ pc = "idle" /\ reply = "waiting"
  /\ flight = {} /\ answered = {} /\ doc = NoNav /\ page = "up" /\ crashes = 0
  /\ status = NoNav /\ main = NoNav /\ raw = NoNav
  /\ lastError = 0 /\ stale = 0 /\ late = FALSE
  /\ result = NoResult

-----------------------------------------------------------------------------
(* The browser.                                                            *)

Nav(n, try, kind) == [crawl |-> n, try |-> try, kind |-> kind]

(* The navigation the goto under way asked for.                            *)
Target == Nav(crawl, IF pc = "regoto" THEN 2 ELSE 1, "goto")

(* The order in which navigations start.                                   *)
Age(n) == IF n.kind = "goto" THEN 0 ELSE IF n.kind = "page" THEN 1 ELSE 2
Older(m, n) == \/ m.crawl < n.crawl
               \/ m.crawl = n.crawl /\ m.try < n.try
               \/ m.crawl = n.crawl /\ m.try = n.try /\ Age(m) < Age(n)

(* n starts: of the others only answered ones, and error pages, live on.   *)
Starts(n) ==
  \E kept \in SUBSET {m \in flight : m \in answered \/ m.kind = "error"} :
    /\ flight' = kept \cup {n}
    /\ answered' = (answered \cap kept) \ {n}

(* The page takes up the goto.                                             *)
GotoStarts ==
  /\ pc \in Loading /\ reply = "sent" /\ page = "up"
  /\ Starts(Target)
  /\ reply' = "waiting"
  /\ UNCHANGED <<doc, page, crashes, responseVars, crawl, pc, raw, lastError,
                 stale, late, result>>

(* A document that a goto brought navigates by itself, which aborts a goto *)
(* the page has taken up: Playwright calls that one interrupted by another *)
(* navigation.                                                             *)
PageNavigates ==
  /\ page = "up" /\ doc # NoNav /\ doc.kind = "goto"
  /\ Nav(doc.crawl, doc.try, "page") \notin flight
  /\ Starts(Nav(doc.crawl, doc.try, "page"))
  /\ IF pc \in Loading /\ reply = "waiting"
     THEN Target \notin flight' /\ reply' = "interrupted" /\ stale' = stale + 1
     ELSE UNCHANGED <<reply, stale>>
  /\ UNCHANGED <<doc, page, crashes, responseVars, crawl, pc, raw, lastError, late,
                 result>>

(* Mutant of OnResponse: the first response of the crawl is kept.          *)
OnFirstResponse(n) ==
  IF pc # "idle" /\ status = NoNav THEN status' = n /\ main' = n
                                   ELSE UNCHANGED responseVars

(* on_response, subscribed from before the goto to the end of the crawl.   *)
OnResponse(n) == IF pc # "idle" THEN status' = n /\ main' = n
                                ELSE UNCHANGED responseVars

Respond(n) ==
  /\ n \in flight \ answered /\ n.kind # "error"
  /\ answered' = answered \cup {n}
  /\ OnResponse(n)
  /\ UNCHANGED <<flight, doc, page, crashes, crawlVars>>

(* A commit ends the goto that waits, one way or the other, and destroys   *)
(* the context that is being read.                                         *)
Commit(n) ==
  /\ n \in flight /\ (n \in answered \/ n.kind = "error")
  /\ doc' = n
  /\ flight' = {m \in flight : Older(n, m)}
  /\ answered' = answered \cap flight'
  /\ reply' = IF pc \in Loading /\ reply = "waiting"
              THEN IF n = Target THEN "committed" ELSE "interrupted"
              ELSE IF pc \in Reading THEN "destroyed" ELSE reply
  /\ stale' = IF reply' = "interrupted" /\ reply # "interrupted"
              THEN stale + 1 ELSE stale
  /\ UNCHANGED <<page, crashes, responseVars, crawl, pc, raw, lastError, late,
                 result>>

(* The load of n fails; as a rule an error page commits in its place.      *)
LoadFails(n) ==
  /\ n \in flight /\ n.kind # "error"
  /\ \E kept \in SUBSET {Nav(n.crawl, n.try, "error")} :
        flight' = (flight \ {n}) \cup kept
  /\ answered' = answered \ {n}
  /\ reply' = IF pc \in Loading /\ reply = "waiting" /\ n = Target
              THEN "failed" ELSE reply
  /\ UNCHANGED <<doc, page, crashes, responseVars, crawl, pc, raw, lastError,
                 stale, late, result>>

(* The goto's timeout, before the commit or between it and the event       *)
(* DOMContentLoaded; the navigation itself goes on.                        *)
GotoTimesOut ==
  /\ pc \in Loading /\ reply \in {"waiting", "committed"}
  /\ reply' = "timeout"
  /\ UNCHANGED <<browserVars, responseVars, crawl, pc, raw, lastError,
                 stale, late, result>>

(* Every call under way on a crashed page fails; a goto that is committed  *)
(* may be over already.                                                    *)
Crash ==
  /\ page = "up" /\ crashes < MaxCrashes
  /\ page' = "crashed" /\ crashes' = crashes + 1
  /\ flight' = {} /\ answered' = {}
  /\ \/ pc \in Loading /\ reply \in {"sent", "waiting", "committed"} /\ reply' = "failed"
     \/ ~(pc \in Loading /\ reply \in {"sent", "waiting"}) /\ UNCHANGED reply
  /\ UNCHANGED <<doc, responseVars, crawl, pc, raw, lastError, stale, late,
                 result>>

-----------------------------------------------------------------------------
(* The crawl.                                                              *)

(* The next crawl: on the page there is, or on a new one after a crash.    *)
Begin ==
  /\ pc = "idle" /\ crawl < MaxCrawls
  /\ crawl' = crawl + 1 /\ pc' = "goto" /\ reply' = "sent"
  /\ status' = NoNav /\ main' = NoNav /\ raw' = NoNav
  /\ stale' = 0 /\ late' = FALSE /\ result' = NoResult
  /\ IF page = "up" THEN UNCHANGED browserVars
     ELSE /\ page' = "up" /\ doc' = NoNav
          /\ UNCHANGED <<flight, answered, crashes>>
  /\ UNCHANGED lastError

(* Mutant of Reload: no second attempt.                                    *)
NeverReload(rushed) == FALSE

(* An interrupted goto is repeated once, unless less than a second is left. *)
Reload(rushed) == pc = "goto" /\ reply = "interrupted" /\ ~rushed

(* Mutant of Loaded: an interrupted goto has loaded a document, too.       *)
LoadedAny == reply \in {"committed", "interrupted"}
Loaded == reply = "committed"

(* _goto returns, and with a document _raw_body_if_json is given the       *)
(* response there is by now.                                               *)
GotoReturns ==
  /\ pc \in Loading /\ reply \notin {"sent", "waiting"}
  /\ \/ /\ Loaded
        /\ pc' \in {"json", "wait"} /\ reply' = "waiting"
        /\ raw' = IF pc' = "json" THEN main ELSE NoNav
        /\ UNCHANGED late
     \/ /\ ~Loaded /\ Reload(FALSE)
        /\ pc' = "regoto" /\ reply' = IF page = "up" THEN "sent" ELSE "failed"
        /\ UNCHANGED <<raw, late>>
     \/ \E rushed \in BOOLEAN :
          /\ ~Loaded /\ ~Reload(rushed)
          /\ pc' = "drain"
          /\ late' = (rushed /\ pc = "goto" /\ reply = "interrupted")
          /\ UNCHANGED <<reply, raw>>
  /\ UNCHANGED <<browserVars, responseVars, crawl, lastError, stale, result>>

(* What a crawl reports: the status, the URL and the error are read now.   *)
Report(end, body, error) ==
  result' = [end |-> end, status |-> status, body |-> body, url |-> doc,
             error |-> error, json |-> raw # NoNav]

(* _drain_error_page is over: at the commit of an error page, at once if   *)
(* the page already shows an earlier one, or after half a second.          *)
Drained ==
  /\ pc = "drain"
  /\ pc' = "idle"
  /\ Report(IF reply = "interrupted" THEN "interrupted" ELSE "load", NoNav, 0)
  /\ UNCHANGED <<browserVars, responseVars, crawl, reply, raw, lastError, stale, late>>

(* The JSON body comes from the response, or by asking for its URL again,  *)
(* or from the viewer in the document, or there is none.                   *)
JsonRead ==
  /\ pc = "json"
  /\ pc' = "wait"
  /\ raw' \in {raw, doc, NoNav}
  /\ UNCHANGED <<browserVars, responseVars, crawl, reply, lastError, stale, late, result>>

(* The document is read or given up: page.title() is what is left.         *)
Capture(body, error) ==
  /\ pc' = "title" /\ UNCHANGED reply
  /\ lastError' = error
  /\ Report(IF body = NoNav THEN "extract" ELSE "ok", body, error)

(* After the waits: the JSON body, which may be blank, or the document.    *)
CaptureOrExtract(error) ==
  IF raw # NoNav
  THEN \E body \in {raw, NoNav} : Capture(body, error)
  ELSE pc' = "extract" /\ reply' = "waiting" /\ lastError' = error /\ UNCHANGED result

(* The wait rules, and the wait for the network or for a selector, leave   *)
(* nothing behind; a settle may follow.                                    *)
Waited ==
  /\ pc = "wait"
  /\ \/ CaptureOrExtract(lastError)
     \/ pc' = "settle" /\ reply' = "waiting" /\ UNCHANGED <<lastError, result>>
  /\ UNCHANGED <<browserVars, responseVars, crawl, raw, stale, late>>

(* The ways a reading can end: it is destroyed only by a commit, and never *)
(* ends well on a crashed page.                                            *)
Outcome(o) == /\ o = "destroyed" => reply = "destroyed"
              /\ o \in {"ok", "csp"} => page = "up"

(* Mutant of ErrorAfter: a reading that ends well leaves the old error.    *)
ErrorKept(o) == IF o = "ok" THEN lastError ELSE crawl

(* _last_exec_error after a reading (exec_js, _page_content).              *)
ErrorAfter(o) == IF o = "ok" THEN 0 ELSE crawl

(* exec_js of the settle snippet; a CSP that blocks it leads to polling.   *)
Settled(o) ==
  /\ pc \in Evaluating /\ Outcome(o)
  /\ IF o = "csp" \/ pc = "resettle"
     THEN /\ pc' = IF o # "csp" THEN "reextract"
                   ELSE IF pc = "settle" THEN "poll" ELSE "repoll"
          /\ reply' = "waiting" /\ lastError' = ErrorAfter(o) /\ UNCHANGED result
     ELSE CaptureOrExtract(ErrorAfter(o))
  /\ UNCHANGED <<browserVars, responseVars, crawl, raw, stale, late>>

(* A round of _settle_by_polling; a failed reading ends it.                *)
Polled(o) ==
  /\ pc \in {"poll", "repoll"} /\ o # "csp" /\ Outcome(o)
  /\ \/ /\ o = "ok" /\ UNCHANGED <<pc, result>>
        /\ reply' = "waiting" /\ lastError' = ErrorAfter(o)
     \/ pc = "poll" /\ CaptureOrExtract(ErrorAfter(o))
     \/ /\ pc = "repoll" /\ pc' = "reextract" /\ UNCHANGED result
        /\ reply' = "waiting" /\ lastError' = ErrorAfter(o)
  /\ UNCHANGED <<browserVars, responseVars, crawl, raw, stale, late>>

(* _extract_html: a destroyed context is settled and read once more, if    *)
(* there is time; a document may be blank.                                 *)
Extracted(o) ==
  /\ pc \in {"extract", "reextract"} /\ o # "csp" /\ Outcome(o)
  /\ \/ o = "ok" /\ \E body \in {doc, NoNav} : Capture(body, ErrorAfter(o))
     \/ o # "ok" /\ Capture(NoNav, ErrorAfter(o))
     \/ /\ o = "destroyed" /\ pc = "extract"
        /\ pc' = "resettle" /\ reply' = "waiting"
        /\ lastError' = ErrorAfter(o) /\ UNCHANGED result
  /\ UNCHANGED <<browserVars, responseVars, crawl, raw, stale, late>>

(* The title is there.  The status of a success is read only now.          *)
Finish ==
  /\ pc = "title"
  /\ pc' = "idle"
  /\ result' = [result EXCEPT !.status = IF result.end = "ok" THEN status ELSE @]
  /\ UNCHANGED <<browserVars, responseVars, crawl, reply, raw, lastError, stale, late>>

-----------------------------------------------------------------------------
Browser == \/ GotoStarts \/ PageNavigates \/ GotoTimesOut \/ Crash
           \/ \E n \in flight : Respond(n) \/ Commit(n) \/ LoadFails(n)

Outcomes == {"ok", "error", "destroyed", "csp"}
Job == \/ Begin \/ GotoReturns \/ Drained \/ JsonRead \/ Waited \/ Finish
       \/ \E o \in Outcomes : Settled(o) \/ Polled(o) \/ Extracted(o)

Next == Browser \/ Job

Spec == Init /\ [][Next]_vars

-----------------------------------------------------------------------------
(* A crawl that succeeds returns a document, and its URL, that its own     *)
(* navigation brought, whatever an earlier crawl left under way in the     *)
(* page (browser.py:776, 472).                                             *)
BodyIsOwn ==
  result.end = "ok" => /\ result.body # NoNav /\ result.body.crawl = crawl
                       /\ result.url # NoNav /\ result.url.crawl = crawl

(* "httpStatus is never faked" (docs/superpowers/plans/                    *)
(* 2026-08-04-meerkly-headless.md:22): once the document loaded, the       *)
(* status is one of the crawl's own navigations, and not of one before the *)
(* document captured, unless that is the error page of a redirect that     *)
(* failed.  Only a crawl whose goto failed may report the status of an     *)
(* older navigation, answered between its subscription and its goto.       *)
StatusIsOwn ==
  /\ result.end \in {"ok", "extract"} =>
        result.status # NoNav /\ result.status.crawl = crawl
  /\ result.end = "ok" /\ result.body.kind # "error" =>
        ~Older(result.status, result.body)

(* "Report why, not just that" (browser.py:498): the reason a crawl gives  *)
(* for an empty document was found in that crawl.  A blank JSON body is    *)
(* the exception: nothing is read after it unless the page is settled, and *)
(* the reason is that of an earlier crawl's last reading.                  *)
ReasonIsOwn ==
  result.end = "extract" /\ ~result.json => result.error \in {0, crawl}

(* "One unreachable URL must not poison the following crawls"              *)
(* (browser.py:793).  The drain returns at once when the page still shows  *)
(* the error page of the crawl before, and then the new one stays in       *)
(* flight; but a crawl fails as interrupted only if two navigations got in *)
(* its way, or the first when less than a second was left to try again.    *)
LeftoverAbsorbed ==
  result.end = "interrupted" => stale >= 2 \/ late

-----------------------------------------------------------------------------
(* The inductive invariant behind them.                                    *)

(* A document of the crawl is there.                                       *)
Past == \/ pc \in Reading \cup {"json", "wait", "title"}
        \/ pc \in Loading /\ reply = "committed"

(* The goto is on its way.                                                 *)
OnWay == pc \in Loading /\ reply \in {"sent", "waiting"}

(* n was under way before the goto the crawl is at.                        *)
Before(n) == \/ n.crawl < crawl
             \/ n.crawl = crawl /\ n.try < Target.try

(* The page shows and loads nothing of a crawl still to come; at a first   *)
(* goto nothing of a second; and while a goto is on its way nothing else   *)
(* of it.                                                                  *)
NothingAhead ==
  /\ \A n \in flight : n.crawl <= crawl
  /\ doc # NoNav => doc.crawl <= crawl
  /\ pc = "goto" => /\ \A n \in flight : n.crawl = crawl => n.try = 1
                    /\ doc # NoNav => (doc.crawl = crawl => doc.try = 1)
  /\ OnWay => /\ \A n \in flight : Before(n) \/ (n = Target /\ reply = "waiting")
              /\ doc # NoNav => Before(doc)

(* Only the goto is still to be answered while it is awaited, and once it  *)
(* is, the status is its own.                                              *)
AnswerIsOwn ==
  pc \in Loading /\ reply = "waiting" =>
    /\ \A n \in flight \ answered : n.kind = "error" \/ n = Target
    /\ Target \in answered => status = Target

(* n is of the crawl's last goto, and the status is not of before n.       *)
Covered(n) == /\ n # NoNav /\ n.crawl = crawl /\ n.try = status.try
              /\ n.kind = "page" => status.kind = "page"

(* Once its document is there, the crawl sees and reads only its own.      *)
AllOwn ==
  Past => /\ status # NoNav /\ status.crawl = crawl /\ status.kind # "error"
          /\ Covered(doc)
          /\ \A n \in flight : n.crawl = crawl /\ n.try = status.try /\ n.kind # "goto"
          /\ \A n \in answered : Covered(n)
          /\ pc \notin Loading /\ raw # NoNav => Covered(raw)

(* The report awaits only the title.                                       *)
Reported ==
  /\ result.end # "none" => pc \in {"title", "idle"}
  /\ pc = "title" => result.end \in {"ok", "extract"}
  /\ pc = "title" /\ result.end = "ok" => Covered(result.body)

(* Every interruption was counted.                                         *)
Interruptions ==
  /\ pc = "goto" /\ reply = "interrupted" => stale >= 1
  /\ pc = "regoto" => stale >= 1
  /\ pc = "regoto" /\ reply = "interrupted" => stale >= 2
  /\ pc = "drain" /\ reply = "interrupted" => stale >= 2 \/ late

Inv == /\ TypeOK /\ main = status
       /\ NothingAhead /\ AnswerIsOwn /\ AllOwn /\ Reported /\ Interruptions
       /\ BodyIsOwn /\ StatusIsOwn /\ ReasonIsOwn /\ LeftoverAbsorbed
=============================================================================
