# meerkly-headless in TLA+

`meerkly-headless` is a worker: one asyncio process that keeps one Firefox open,
stays connected to a gateway over a WebSocket, and for each `fetch` frame it is
sent opens a page and returns its HTML. This directory holds a specification of
its concurrent core, the TLC configurations that check it on small instances,
and proofs, checked by TLAPS, of what holds for every instance.

Everything in the program runs on one event loop. Code between two `await`s is
never interrupted, so **an action is the code between two suspension points of
one task**: its guard is where the task waits, its effect runs to the next
`await`. What makes this system hard is that nearly every step of the browser's
life cycle awaits the engine, and that jobs, crash recoveries, the profile
reset and the shutdown all step through the same four fields.

## 1. Inventory

| Component | Source | State | Operations | Status |
|---|---|---|---|---|
| BrowserManager | `browser.py` | `_stack`, `_context`, `_page`, `_launching`, `_closed`, `_lock`, `_jobs_since_reset`, `_proxy_sid`, `_last_exec_error` | `ensure_browser`, `_launch`, `_teardown`, `_on_crash`/`_recover`, `_on_context_closed`, `_on_extra_page`, `close`, `navigate_and_extract`, `_reset_profile_if_due` | modelled, but for `_on_extra_page` |
| A crawl | `browser.py`, `fetch_spec.py`, `snippets.py` | the deadline, `status`, `main_response`, `_last_exec_error` | `_fetch` and its waits: `_goto`, `_drain_error_page`, `_raw_body_if_json`, `_probe_rules`, `_settle`, `_settle_by_polling`, `_extract_html` | modelled |
| GatewayClient | `gateway.py` | `_socket`, `_registered`, `_paused`, `_stopped`, `_backoff_ms`, `_pending`, `jobs_served`, the job tasks | `start`, `_run_forever`, `_connect_once`, `_dispatch`, `_handle_error`, `_handle_fetch`, `_send`, `stop` | modelled |
| Start-up, shutdown | `cli.py` | the stop event | `run`, `_shutdown` | modelled |
| Health server | `health.py` | none | `/healthz`, `/readyz`, `stop` | what it answers for, and its part in a shutdown |
| Frame parsing | `fetch_spec.py` | none | `parse_fetch_frame`, `effective_settle_cap`, `effective_detect_probe` | modelled |
| URL guard | `urls.py` | none | `check_url`, `as_ipv4`, `is_private_ip`, `resolves_to_private` | modelled |
| Proxy | `proxy.py` | none | `build_proxy_options`, `generate_sid` | modelled |
| In-page snippets | `snippets.py` | none | `SETTLE_STABLE`; three more that nothing runs | modelled |
| Identity, enrollment | `identity.py` | `machine.json`, `device.json` | `resolve_machine_id`, `DeviceTokenStore`, `enroll`, `obtain_device_token` | modelled |
| Configuration, log | `config.py`, `log.py` | none | `load_config`, the logger | `load_config` at each start |
| Packaging, wire schemas | `Dockerfile`, `install.sh`, `spec/` | none | | not modelled: no program |

How they interact. The gateway client parses a frame, checks its URL, looks its
host up and awaits `navigate_and_extract`, in one task per frame; the manager
serializes these behind its lock. The engine calls back into the manager
(`crash`, `close`, `response`), and a crash starts a task of its own. The health
server reads `is_ready()` and `is_registered()`. `cli.run` obtains a device
token, starts the health server, launches the browser once, starts the client,
and on a signal stops the client, which cancels every job task, then the health
server, and closes the browser, all within 10 s.

What makes each component correct:

* *BrowserManager*: one launch at a time, however many tasks want one; an engine
  is unwound once; a context that is served from is one the manager can unwind;
  a crawl starts only on a live page, alone, in a jar that is not used up; every
  job and every recovery ends.
* *A crawl*: what of it has a timeout fits the budget that lets its own error
  reach the gateway before the gateway gives up; what it reports is its own document,
  status and reason, although the page still carries what earlier crawls left;
  its waits end when the page is ready and not before.
* *GatewayClient*: the pending count is exact on every path; a frame is answered
  once; readiness is about the present connection; reconnecting backs off and
  goes on, except after a stop or a rejected token.
* *The worker*: every frame is answered through all of its parts; a job waits
  for a bounded number of others; `/readyz` says nothing that is not so; a
  shutdown leaves no task of a job.
* *Frame parsing, URL guard, proxy*: a malformed job never reaches the crawl, nor
  one for a host that the worker can tell is private, as long as the browser reads
  the same host in its URL; a public one is not turned away; a proxy that cannot
  be used fails the launch.
* *Identity and enrollment*: a worker keeps its machine id over restarts; what is
  on disk is whole wherever a start is killed; a worker that was paired stays
  paired; the token it presents was minted for the id it registers with, and is
  the last one unless that one never reached its directory.

The hazards, each at its line with the properties that would catch it, are in
`PROJECT.json`.

## 2. Modules

| Module | Models | Runs | Proofs |
|---|---|---|---|
| `CrawlService` | what the manager promises its caller, without engines | through `BrowserManager` and `Worker` | |
| `BrowserManager` | `browser.py` and the parts of `cli.py` and `gateway.stop` that drive it | `Manager*` | `BrowserManager_proofs` |
| `GatewayClient` | `gateway.py` | `GatewayReconnect` | `GatewayClient_proofs` |
| `Worker` | `cli.py`, `health.py`: the client composed with the crawl service | `WorkerJobs` | `Worker_proofs` |
| `PageCrawl` | what a crawl reads off the page all crawls share | `PageCrawlKept` | `PageCrawl_proofs` |
| `FetchBudget` | the waits of `_fetch` and their time | `FetchBudgetKept`, `FetchEnds` | `FetchBudget_proofs` |
| `PageWaits` | the settle wait and the probe of the rules, against a changing page | `WaitsKept` | `PageWaits_proofs` |
| `Admission` | frame parsing, URL guard, lookup, proxy options | `AdmissionGuards` | `Admission_proofs` |
| `Enrollment` | `identity.py` as `cli.run` calls it, over restarts | `EnrollmentKept` | `Enrollment_proofs` |

Each `MC*` module instantiates the module it is named after; each run is the
configuration of the same name. A crawl is cut into three modules by what may go
wrong in it: what it reads (`PageCrawl`, which has no time), how long it takes
(`FetchBudget`, which has no page) and what its waits see (`PageWaits`, one wait
with both).

### BrowserManager

An *engine* is one launch of Firefox; `Engines` are numbered launches, each
used once. `stack`, `context` and `page` are the fields `_stack`, `_context`,
`_page` as the engine they belong to. Per engine, `launch` is where its launch
task is (`enter` and `newpage` are its two long awaits, `stale` the closing of
the pages the context came with, before the crash handler is subscribed),
`browser` whether its process is up, `tab` its page and `exit` its
`AsyncExitStack`. `recovery[e]` is the `_recover` task of e's crash, `job[j]`
the task of a job, `generation` the cookie jar on disk, which is also the
session id a launch is given (`engineGen`).

| Code | Actions |
|---|---|
| `ensure_browser` | `EnsureLaunch` inside `Boot`, `Fetch`, `RecoverWakes`; the waiters are woken by `Wake` |
| `_launch` | `StartLaunch`, then `Enter`/`EnterFails`, `NewPage`/`NewPageFails`, `Subscribe`; `Cancelled` when the job that awaits it is cancelled |
| `_teardown` | `Teardown` up to its await, `AcloseDone`, then the caller's next step |
| `_on_crash`, `_recover` | `Crash`, `RecoverUnwound`, `RecoverWakes` |
| `_on_context_closed` | `OnContextClosed`, in `ContextCloses` and `AcloseDone` |
| `navigate_and_extract` | `Submit`, `Acquire`, `ResetDone`, `Resume`, `CrawlEnds` |
| shutdown | `Stop`, `CloseBrowser`, `Exit`, `ShutdownTimesOut` |

Abstractions. The rest of a crawl after it has its page is one step, `CrawlEnds`,
which may succeed only if the page lived. A lock waiter is chosen freely
(asyncio's is first come, first served), which adds behaviours and removes none.
`_on_crash` and the start of `_recover` are one step, `Crash`: the task runs
before anything else can look at the fields. The engine is external: entering it
and opening a page may fail, its page may crash, its context may close by itself,
and `aclose()` ends. `ShutdownTimesOut` is the moment `wait_for` returns, which is
when the `_shutdown` it cancelled has ended: until then the main task stays where
it is, and nothing says when that is. That `asyncio.run` cancels what is left at
the exit is abstracted to nothing running after it. The
events of an engine that `aclose()` brings down are handled before the task that
awaited it goes on.

### GatewayClient

`conns` numbers the connections; `socket`, `registered`, `backoff`, `pending`
are the fields. `alive` says whether the current connection still carries
frames: between its loss and `Disconnected` the client does not know. A frame's
task goes `scheduled`, `resolving` (the DNS pre-check), `crawling`, then
`replying` or `refusing` (or `busy` at the limit), `done`; `sendOn` is the
socket `_send` captured. `origin` and `results` are history: the connection a
frame came in on and those its results were written to. The gateway is assumed
to acknowledge a registration before it sends a frame, and to send nothing after
`device_auth_failed`.

### Worker

`Worker` extends `GatewayClient` and takes its actions as they are; the
browser's side is `CrawlService` (`phase`, `jar`, `crawls`), which `ManagerService`
shows `BrowserManager` to implement. The step in which a job's client half
reaches `navigate_and_extract` submits it to the service (`Enqueue`), and the end
of its crawl is the return in the client (`Return`). `queue` is the line at
`asyncio.Lock`, which serves it in order. The main task is `Launched`,
`LaunchFails`, `Signal`, `Shutdown` (`gateway.stop` to its first await),
`ServersClosed`, `BrowserClosed` and `ShutdownTimesOut` (`wait_for` returning, after
the cancelled `_shutdown` has ended). Of the health server
there is what it reads (`MayBeReady`, `Readyz`) and the wait for its probes;
`is_ready()` is taken as unknown between the launch and `close()`. `waited` is
history. A worker takes in at least one job (`WorkerAssumption`).

### PageCrawl

A navigation is named by the crawl and the goto it stems from and by its kind:
the goto itself, one that its document starts (a client-side redirect), the error
page after a failure. `status`, `main`, `raw` and `lastError` are the code's
variables, as the navigation, or for an error the crawl, they belong to. The
browser is external: `flight` are the navigations under way, `answered` those
whose response event has come, `doc` the one that brought the current document.
It may answer and commit in any order that the start of a later navigation
leaves, so that a redirect or an error page of an earlier crawl still lands in
the next one; a redirect that a document starts while a goto is awaited aborts
that goto. `stale` is history: the commits and starts that got in a goto's way;
`late`: the first goto was interrupted with less than `_goto`'s second left, so
that its error is the crawl's (`browser.py:778`).

| Code | Actions |
|---|---|
| `_fetch` to the goto | `Begin` |
| `on_response` | `OnResponse` in `Respond` |
| `_goto` | `GotoReturns` (`Loaded`, `Reload`), then `json`, `wait`, a second goto or the drain |
| `_drain_error_page` | `Drained` |
| `_raw_body_if_json` and fallbacks | `JsonRead` |
| rules and waits | `Waited`, `Settled`, `Polled` |
| `_extract_html`, the result | `Extracted`, `Capture`, `Finish` |

### FetchBudget

One crawl, one step per await, `elapsed` the time since `started`. An await that
has a timeout takes any time it allows (`Within`); Playwright's waits take `0` as *no
timeout* (`PlaywrightWait`). One that has none (`Untimed`: the launch, the body of a
JSON document and of its second request, the queries of Firefox's viewer and of
the rules, `page.title()`) takes any of `UntimedTimes`, and what of it lies past the
deadline is added up in `late`. What the job asks for and what the page does is
chosen where the code first looks at it.

| Code | Actions |
|---|---|
| `ensure_browser`, `_goto`, `_drain_error_page` | `Launch`, `Goto`, `Regoto`, `Drain` |
| `_raw_body_if_json`, the viewer, the second request | `RawJson`, `Refetch`, `RefetchedBody` |
| the rules, `_probe_rules` | `Rules`, `Probe` (the queries of a round), `Pause` |
| the wait branch and its waits | `Mode`, `NetworkIdle`, `WaitSelector`, `Settle`, `Poll` |
| `_extract_html` | `Extract`, `Resettle`, `Repoll`, `Reextract` |
| `_safe_title` | `Title` |

Configurations count in half seconds; the code's shorter pauses (50 ms in the
probe, 250 ms in the poll) are rounded up to one. A CSP's refusal is taken to come
at once.

### PageWaits

One settle wait or one probe, tick by tick (250 ms). The page is external: it
runs the snippet and its timers, answers a query late or never, changes its
document (`Change`) and what its selectors match (`Show`) at any moment.
`SETTLE_STABLE` is `Evaluate`, `Observed` and `Fire`, with `exec_js` around it
(`Evaluated`, `EvaluateFails`, `EvaluateTimesOut`); `_settle_by_polling` is `Blocked`,
`Poll`, `Serialize`, `Read`, `ReadFails`, `ReadTimesOut`, `Wake`; `_probe_rules` is
`Probe`, `Found`, `Visible`, `Missed`, `Resume`. `calm`, `still`, `lag`, `steady`, `back`
and `why` are history: how long the page has not changed, how long the content
the wait has seen had been there when it was taken, how long that content was
then on its way to the worker, the guards shown since the round began.

### Admission

A sequential pipeline from the raw frame to the crawl: `Parse`, `CheckUrl`,
`Lookup` or `NoLookup`, `Launch`. A host is an IPv6 literal as eight groups or
dotted parts, a part the digits of a number to the base 256 (in whatever radix it
is written) or a word; percent encoding is a count. A URL has two of them: `host` is
what the worker reads in it, with `urlsplit`, NFKC and casefold (`urls.py:55`, `199`),
and `dialed` what the browser reads in the text it is given, which the code leaves as
it was (`urls.py:72`). The code knows that the two parsers differ and does nothing
that would make them agree, so what `check_url` and the lookup ensure is ensured for
URLs that are `ReadAlike`; the instance has others too. `is_private_ip` and `as_ipv4`
are operators; what they are measured by is stated apart from them: the
networks as prefixes (`Private`) and what a browser makes of a host (`Dials`).

### Enrollment

One data directory over any number of starts. Here an action is the code between
two points at which the process may be killed and leave something different
behind. `machineFile` and `device` are the two files, `machineId`, `stored`,
`got` and `attempt` the variables of one start.

| Code | Actions |
|---|---|
| `load_config`, a start | `Boot`, which chooses key and override anew |
| `resolve_machine_id`, `_persist` | `Resolve` (the id is chosen and `machine.json` opened, which empties it), `Persist`; `Rejected` for an override that is no UUID |
| `obtain_device_token`, `enroll` | `Obtain`, then per attempt `Accepted` and `Answered` or `AnswerLost`, or `Unanswered`, or `Refused`; `Retry` counts |
| `DeviceTokenStore` | `Read`, `Store`, `StoreFails` |
| outside | `Crash`, `HomeLost`, `HomeCopied`, `ForeignEnrolls`, `ProcessedLate` |

The account service is external: it rotates the token of a machine id whenever
it accepts an enrollment for it (`current` is the last token it minted), also
when the answer is lost or the client has given up. `identity`, `interrupted`,
`paired` and `lost` are history; an id is in `lost` while the last token minted for it
is not one its worker was handed and could store. A directory copied as a whole
brings its `machine.json`, so that the worker takes on the other one's id and
presents its token: the comment at `identity.py:173` is about a copy that resolves
to another id, and the other worker may enroll again (`ForeignEnrolls`). `StoreFails`
is a write that fails before the rename or a `chmod` that fails after it. The
pauses between attempts are left out, and of several requests for one id that may
be processed late one is followed.

## 3. Runs

### Passing

| Run | Instance | Checks |
|---|---|---|
| `ManagerSafety` | 3 jobs, a reset after every crawl, 2 engine faults, 6 launches | `OneLaunch`, `StackOwnership`, `SidNearJar`, `OneFirefox`, `CleanReset`, `CrawlStartsUp`, `NoLaunchAfterClose`, and the inductive `IndInv` with `JarLimit` in it |
| `ManagerService` | 2 jobs, 2 faults, 5 launches, fair | `ServesJobs`: the refinement to `CrawlService`, liveness included; `RecoveryEnds`, `RecoveryServes` |
| `GatewayReconnect` | 1 frame, 6 faults, connects and connections of 0, 6 and 10 s, fair | `NoHammer`, `PausedStaysDown`, `Reconnects` |
| `WorkerJobs` | 3 frames at a limit of 2, 1 fault, a reset after 2 crawls, fair | `PendingExact`, `AnsweredOnce`, `ReadyzHonest`, `WaitIsBounded`, `NothingLeftRunning`, `FramesAnswered`, and the inductive `WorkerInv` |
| `PageCrawlKept` | 3 crawls, each with up to two gotos, redirects and error pages; 1 crash | `BodyIsOwn`, `StatusIsOwn`, `ReasonIsOwn`, `LeftoverAbsorbed` |
| `FetchBudgetKept` | all combinations, awaits without timeout of 0, 3 and 30.5 s | `BudgetKept` |
| `WaitsKept` | caps of 0.25 to 1.25 s, probes of 0 to 0.5 s, 3 guards, 4 contents, fair | `SettleKept`, `ProbeKept`, `SettleEnds`, `SettleRunsOut` |
| `AdmissionGuards` | 244 IPv4 addresses on both sides of every boundary, in 1 to 4 parts and in three IPv6 forms, 12 IPv6 ones, hosts encoded 0 to 4 times, URLs read differently, odd frames, 7 lookups, 8 proxies | `JobOK`, `NoPrivateCrawl`, `PublicServed` |
| `EnrollmentKept` | 3 starts, 2 keys, an override, 2 attempts, 2 tokens per id, failing writes, fair | `ServesOwnToken`, `StaysPaired`, `TokenIsCurrent`, `IdentityKept`, `StartEnds` |

Why the bounds are enough. Two jobs are the least at which one waits for the
lock while the other is inside; the third is there to find the jar used up by
the first while the second crawls. Two faults let a crash recovery meet a second
failure. A launch is started at most once by the boot, by each job and by each
recovery, so launches never run out. `ProfileResetJobs = 1` makes every second
job reset. Six short attempts take the backoff from 1 s past 30 s, and 6 s + 6 s
shows a sum above `BACKOFF_RESET_AFTER_MS` that neither part reaches. In
`WorkerJobs` two is the least limit at which the count can be wrong in both
directions and a job can wait for another, and the third frame meets a full
worker. A crawl is disturbed by what the one or two before it left, so three
crawls see everything a later one could; there the number of crawls is unbounded
in the proofs. In `WaitsKept` a quiet period is two ticks and two polls; four
contents are a change, a second one and a return, and a read is followed for
0.75 s of the 6 s the code allows it, which outlasts the shorter caps. Three
starts are a pairing, one that is killed and one that meets what is left; two keys are a rotation; two attempts are a retry and a last one, and
the code's five repeat the same step. Jobs are symmetric where no liveness is
checked. Deadlock is checked except in `PageCrawlKept`, whose last crawl may end,
and `AdmissionGuards`, whose pipeline does; elsewhere what is finished stutters
(`Terminated`, `Exited`).

Fairness. `WF` of a task's steps says that the event loop runs what is ready and
that the engine answers what it was asked; the connect and the receive loop end
because the WebSocket library times out and pings. Jobs, faults, signals, the
gateway's answers and a connection's loss are under no fairness. In `Worker`
nothing of the shutdown is fair: not the gateway's part of a close, nor a probe,
nor the browser's close, nor the end of `wait_for`, which awaits what it cancelled.
In `PageWaits` time passes and the worker's own timers fire; the page need not do anything. A start of `Enrollment`
goes on because writes return and `enroll` gives up when a connect or a read takes
15 s (httpx's timeout is for each of them, so a server that answers in drips is out
of it); crashes are free. The manager's liveness is for a worker whose engine answers: a call to the
engine that hangs for good is out of it, except in `FetchBudget`, where a wait
given timeout 0 need not end (`NoTimeout`), and in `PageWaits`.

### What the repository says and the code does not do

Each of these runs checks one sentence of the repository, and TLC shows a
behaviour of the code that breaks it.

| Run | The sentence | What happens |
|---|---|---|
| `ManagerResetWhenDown` | "The browser must be down to touch these files" (`browser.py:398`, asserted by `tests/test_browser.py:881`) | a recovery is not excluded by the lock. The page crashes after the job that makes a reset due; `_recover` takes the stack and awaits its `aclose()`; the next job's reset finds `_stack` `None`, has nothing to await, and clears the files under the Firefox that is still going down |
| `ManagerOneContext` | "One persistent Firefox context serves one job at a time behind a lock" (`docs/superpowers/plans/2026-08-04-meerkly-headless.md:7`) | `_launch` overwrites `_stack` (`browser.py:300`): after a `new_page` that raised, or a close event of another engine's context, the engine on it is still up, a second one is started on the same profile, and nothing unwinds the first |
| `FetchEnds` | "A selector that never matches times out" (`browser.py:656`) | with nothing left of the budget (a goto that took it all, or an await without timeout) the timeout is 0, which is none |

The passing runs say how far the code goes where it does not do all that is said.
The first two disagreements need a fault of the engine: `OneFirefox` and
`CleanReset` say, and the theorems below prove, that until the first crash, failed
launch or context that closes by itself neither happens, whatever jobs, resets and
shutdown do.

The exceptions of `SidNearJar`, `AnsweredOnce` and `IdentityKept` are
real: checked without them, each of the sentences quoted there has a counterexample
in these models, but no run of its own here.

* `SidNearJar`: "each fresh cookie jar pairs with a fresh exit IP" (`README.md:168`)
  but for a launch already under way at the reset, which keeps the id of the jar
  before. It may even be two jars behind: where the crash of another page has
  the engine of that launch unwound while it is in `new_page`, and the page comes
  up all the same, a second reset fits in between. With four jobs and three
  faults TLC finds a crawl on such a page; the bounds of `ManagerSafety` do not
  reach it, the theorem covers it. Never is the id older.
* `RecoveryServes`: a crash is made good without a job by a recovery that finds
  nothing else going on. The launch it joins may be another's and fail, and the
  close event of the engine it tore down clears the page of the new one
  (`browser.py:349` does not look whose event it is); then the next job launches. A
  page that crashes while `_launch` is closing the stale pages (`browser.py:322`) has
  no handler yet: no recovery starts, and `is_ready()` stays true.
* `AnsweredOnce`: "results for a dropped socket are discarded" (`gateway.py:236`)
  only until the next connection is there; then the result goes out on that one,
  since `_send` looks the socket up when the crawl is over. It is still one answer.
* `IdentityKept`: an id "must survive rotation" by a volume (`README.md:215`), but a
  start killed while `machine.json` is rewritten leaves it empty, and the next
  one derives an id from its key and ignores the stored token. Only that, or a
  failed write, changes the id. `device.json`, written beside and renamed, has no
  such window; the mutant that writes it in place breaks `StaysPaired`.
* `BudgetKept`: what the awaits without timeout spend past the deadline is apart,
  and the code sets no bound to it: they are the launch, the bodies of a JSON
  document, the queries of the viewer and of the rules, and the title. What has a
  timeout keeps the 30 s within two graces and the longest of three overruns: a
  pause of the probe, under a CSP one round of polling, for a JSON document
  Playwright's own 30 s for the second request. "The worker's own error wins"
  against the gateway's 35 s (design document, line 58) is so only if the awaits
  without timeout are short, and no CSP makes the settle poll (37.25 s) and no JSON
  is requested again.
* `StatusIsOwn`: "never faked", once the document loaded. A crawl whose goto failed
  may report the status of an earlier crawl's redirect that was answered before
  its own goto began, and a redirect into a dead host is captured as a success
  with the status before it and the error page as its body.
* `ReasonIsOwn`: not for a blank JSON body, which is reported with the reason of
  whichever reading came last.
* `LeftoverAbsorbed`: `_drain_error_page` returns at once when the page still shows
  the error page of the crawl before, so the new one may stay under way; one
  such commit costs the next crawl its first goto only, unless less than a second
  of its budget is left by then (`late`: the interruption's error is reported), two
  fail it.
* `SettleKept`: the polling takes the time after each reading (`browser.py:756`), so
  the time an answer is on its way counts as quiet: "the content stops changing for
  the same STABLE_QUIET_MS window" (`browser.py:742`) is so only with that time
  (`lag`) counted in, and a page that answers slowly may have changed a poll
  interval after the content that passes for quiet. And it compares digests, so it
  cannot see a page that goes back to a content it had.
* `SettleEnds`: `exec_js`'s deadline is "what keeps a hostile page from stalling a
  job" (`snippets.py:9`), for the settle wait. The queries of `_probe_rules`
  (`browser.py:677`) have no deadline: with wait rules, a page that answers nothing
  holds the probe, and the lock, for good.
* `ReadyzHonest`: during a shutdown `_registered` and `_socket` stay as they were, and
  a probe may be told 200 until `close()` begins.
* The shutdown: its timeout is one for all; a gateway that does not answer the
  close, or a probe that stays open, may use it up, and `browser.close()` is never
  called. "A wedged browser must not hang shutdown" (`cli.py:107`): `wait_for` cancels
  `_shutdown` and then awaits its end, so that the exit is as late as Playwright's or
  the server's answer to the cancellation, which is not this code's; no property says
  that the shutdown ends. A signal during the first launch waits for that to end.
* `WaitIsBounded` counts crawls. Two crawls of 30 s ahead of a job are more than the
  gateway's 35 s.
* `ServesOwnToken`, `TokenIsCurrent`: the token fits the id; whose id it is, is another
  matter where the directory was copied. A stored token that the account service
  has rotated away is presented until an enrollment is accepted.

Seen while reading, without a run: `_run_forever` measures the 10 s after which
the delay is reset from before the connect (`gateway.py:127`), so a slow refusal
resets it too, though "Reset only after a connection that STAYED UP" (line 140).
`stop()` cancels every crawl first, though the grace period is there so as not
to "cut a job off mid-request" (`README.md:82`). "Read-only filesystems are
supported" (`identity.py:144`) holds for the machine id only:
`DeviceTokenStore.write` raises, and the start ends (`StoreFails`).

## 4. Proofs

The proofs hold for any sets of jobs and engines, any limits, timeouts and
bounds on faults, crawls and crashes allowed by the modules' named assumptions
(`AdmissionAssumption`, `BrowserAssumption`, `GatewayAssumption`,
`WorkerAssumption`, `PageAssumption`, `BudgetAssumption`, `WaitsAssumption`,
`EnrollmentAssumption`), so in particular for unboundedly many faults of either
sort.

* `BrowserManager_proofs`: `Invariance` proves `Spec => []Inv`, with one lemma
  per action. The properties alone are not inductive. `OneLaunch` needs
  `NotEntered` (the engine a launch picks has no history). `NoDoubleUnwind` and
  `StackOwnsContext` need that what `Enter` writes over is not being unwound.
  `JarLimit` needs `RoomInJar` and `LockIsHeld`: the job whose crawl will be
  counted is the only one, and the reset it passed left room. `CrawlStartsUp`
  needs `PageIsUp`, which holds because whatever takes an engine down passes
  through its close event or had cleared `_page` before. From `Inv` follow `TypeCorrect`,
  `LaunchIsShared`, `StackIsOwned`, `JarIsBounded`,
  `NothingAfterClose` (with `ClosedIsSet`) and `CrawlStartsOnLivePage`. Three more
  invariants stand on it. `SidInv` (`SidInvariance`, for `SessionNearJar`) counts the
  resets each launch in flight and the page have lived through: while a launch may
  still set `_page`, a reset under way ends with a job that joins that launch, or
  with another page to crawl on, so that at most one more fits, and that only if
  the engine is being unwound already. `FaultFreeInv` (`FaultFreeInvariance`, for
  `FirefoxIsAlone` and `ResetIsClean`) says how the manager looks before any fault:
  each launch in flight is awaited by the start-up or by the job inside, what is
  being unwound belongs to the reset under way, and what is up is on the stack and
  served from; so there is nothing to launch beside, and nothing up when the
  reset's own `aclose()` is done. `AwaitedIsUnderWay` (`NothingIsAwaitedInVain`) is
  the part of the liveness that is a matter of safety: what a job, a recovery or
  the main task awaits is a launch in flight or an `aclose()` that has begun
  (`ExitForward`: it does not go back), and none of these awaits a task in turn.
  `ServesSafely` is the safety half of the refinement: initial states map to
  initial states of `CrawlService`, every step to a step or a stutter.
* `GatewayClient_proofs`: `Invariance`, again one lemma per action; the count
  rests on what removing a job from, or adding one to, a finite set does to its
  cardinality, and `PausedStaysDown` on `PausedIsLast`. From it `TypeCorrect`,
  `PendingIsExact`, `AnsweredAtMostOnce`, `RegistrationIsCurrent`,
  `AuthFailureIsFinal`. `NeverHammers` needs an invariant of its own,
  `BackoffGrows`: an attempt begins with the delay that would be due if it were
  one more short one; the powers of two are six literals (`LeastDelay`).
* `Worker_proofs`: `WorkerInvariance` stands on the lemmas of
  `GatewayClient_proofs` and adds one lemma per joint step. `WaitIsBounded` needs
  `LineIsShort` (the k-th in line has behind it or before it fewer crawls than the
  client admits), which rests on `PendingExact` and on the two halves of a job
  agreeing (`HalvesAgree`, `LineIsOrdered`). From it `WaitBounded`,
  `ShutdownLeavesNothing`, `ReadyzIsHonest`, `WorkerPendingIsExact`; `Composes` says that
  the worker's behaviours are behaviours of both of its parts.
* `PageCrawl_proofs`: `Invariance`. Its core is `AllOwn`: once the document of a crawl
  is there, the page shows and loads nothing but that crawl's navigations, and
  the status is not older than the document. It holds because a goto that
  starts drops what is not answered (`AnswerIsOwn`) and its commit drops all that
  is older. `Interruptions` counts for `LeftoverAbsorbed`. From it `BodyOfOwnCrawl`,
  `StatusOfOwnCrawl`, `ReasonOfOwnCrawl`, `OneLeftoverIsAbsorbed`.
* `PageWaits_proofs`: `Invariance`. `TimerIsCalm`: the snippet's timer and the calm of
  the page make up the quiet period. `SampleIsCalm`: a content read twice has been
  there since the first time, `lag` apart. `RoundIsKept`: no guard that stayed visible has been
  passed over. From it `SettledPageWasQuiet` and `ProbeKeepsListOrder`. How long a
  settle wait may still take is written down as `Rest`: to the deadline of
  `exec_js`, then, for what remains of the cap, in rounds of a read and a sleep,
  the last of which may begin just before the cap is over. `SettleTimeRunsOut`
  proves that each tick takes from it and nothing gives any back
  (`SettleRunsOut`), and `SettleIsBounded` that it begins with no more than the
  cap and its grace and, under a CSP, the cap again and that last round. What
  `SettleEnds` leaves to TLC is that time passes and the worker's timers fire.
* `Admission_proofs`: `GuardIsExact`, that `is_private_ip` is `Private` for each of the
  2^32 IPv4 and 2^128 IPv6 addresses. `ReadingIsExact`, that `as_ipv4` returns the one
  address the parts of a host spell and none exactly when they spell none:
  `as_ipv4` builds the octets up by concatenation, `Spells` says of each octet where it
  must come from. `AdmittedInvariance` says what each stage of the pipeline has
  established, and with the other two gives `NothingPrivateCrawled` and
  `PublicIsServed`, for any hosts, encodings and lookups of URLs that are `ReadAlike`.
  `JobIsInOrder` is about the loop over the wait rules: `RoundKeepsOrder` puts a rule
  behind those that were kept.
* `FetchBudget_proofs`: `Invariance` bounds how late each stage may begin
  (`StageBound`), relative to `late`, and the deadlines of the probe and of a poll
  (`LoopBound`); `BudgetIsKept` is `BudgetKept` for every value of the timeouts.
* `Enrollment_proofs`: `Invariance`. What makes the properties inductive is that
  `device.json` is filed under the id it was last stored for (`DeviceIsOwn`), that
  a token on its way is the last one minted (`GotIsCurrent`) and one in the
  directory too unless that one is lost or on its way (`DeviceIsCurrent`), and
  that what was read before the enrollment is still there after it
  (`StoredIsRead`). `GoesOnPaired` is the lemma for the four places where a start
  ends by what it has. From `Inv`: `OwnTokenIsServed`, `PairedStaysPaired`,
  `ServedTokenIsCurrent`, and with `FileIsIdentity` the action property
  `IdentityIsKept`.

Every invariant and every action property of the passing runs is proved. Only
model-checked are the liveness properties (`ServesJobs` beyond safety,
`RecoveryEnds`, `RecoveryServes`, `Reconnects`, `FramesAnswered`, `SettleEnds`,
`StartEnds`), which need fairness and `ENABLED` and are out of the provers' reach,
and that the code breaks the sentences of the violation runs.

The library's induction theorems take an operator and cannot be used with these
provers. The one induction the proofs need, over the loop of `WaitRules`, goes
through sets instead: a set of naturals that is not empty has a least element
(`LeastNat`, from the library's well-foundedness of `<`), so one that holds 0 and
with each number the next holds all of them (`NatSetInduction`), and the loop is a
recursive function, whose domain and steps `LoopExists` and `Loop` give.

## 5. Not modelled

* `_on_extra_page`: it closes popups and touches no field of the manager.
* `device_info`, titles, the texts of errors, log lines and the cap on the length
  of a document: wording and layout.
* The health server's binding, routes other than the two, and the fields of its
  answer that only inform.
* `load_config`'s defaults and the parsing of environment variables, which are read
  once; a start of `Enrollment` chooses the two that matter anew.
* `PROBE_RULES`, `WAIT_SELECTOR_VISIBLE` and `EXTRACT_HTML`: no code runs them.
* A name that resolves to one address for the pre-check and to another for the
  browser: the code says it leaves this to the network (`urls.py:8`), and
  `NoPrivateCrawl` speaks of the addresses at the time of the lookup.
* What a browser makes of a URL's text that `urlsplit` reads otherwise: the parsers
  are not part of this code, and a URL says what each of them found.
* The wire schemas, `Dockerfile`, `install.sh` and the scripts: no program.
* `Worker` over `BrowserManager` itself. The two have only `CrawlService` between them,
  and their product is too large to check; each is shown against that module.
