# VulnVerify: specifications, checks and proofs

VulnVerify takes the report of a vulnerability scanner (ZAP, Burp, or a HAR
capture), turns it into normalized findings, replays each finding against the
application and stores a verdict: `TRUE_POSITIVE`, `FALSE_POSITIVE` or
`INCONCLUSIVE`. A React page uploads reports, follows the automatic
verification and lets the user verify findings by hand.

This directory holds TLA+ models of that program, the TLC configurations that
check them, and proofs checked by TLAPS. It covers the way from captured traffic
or a scanner's report to findings, the life of a scan in the backend, the four
verification procedures the API offers, the reports and evaluations computed while
they run, and the browser's view of a scan. The rest is inventoried and planned below.

- [Inventory](#inventory)
- [Modules and their correspondence to the code](#modules-and-their-correspondence-to-the-code)
- [Runs, bounds and what they show](#runs-bounds-and-what-they-show)
- [Disagreements between the code and its own
  text](#disagreements-between-the-code-and-its-own-text)
- [Fairness](#fairness)
- [Proofs](#proofs)
- [What is not modelled](#what-is-not-modelled)
- [Plan](#plan)

## Inventory

| Part | State | Operations | Hard parts | What makes it correct |
|---|---|---|---|---|
| Scan life-cycle (`api/scans.py`, `services/scan_service.py`, `storage/`) | SQLite tables `scans`, `normalized_findings`, `verified_findings`; in memory `verification_progress`, `auto_verification_queued_scan_ids` | upload, save, read, claim, publish | one transaction per operation; the event loop and the run threads write at the same time; restarts keep the tables and drop the rest | no verdict lost, one run per scan, no half-made scan verified, status and tables agree |
| Automatic verification (`services/auto_verification_service.py`) | a thread per run: queue, counters, errors, session cookie | claim, snapshot, replay, save, count, publish | a finding that raises, a verdict written by someone else meanwhile | every finding settles, COMPLETED accounts for all, progress never runs ahead |
| Manual verification (`api/findings.py`) | none of its own | one replay procedure, then the same save | runs on the event loop beside the threads | an answered verdict is stored |
| CSRF verification (`replay/csrf.py`, `verification/csrf*.py`) | up to six replies | replays, observations, context, classifier, confidence | the application changes between replays: session, one-time tokens, health | a verdict means what its reason says |
| TIME_BASED SQLi (`verification/sqli_timing.py`, `sqli_time_based*.py`) | seven baseline and up to five trial samples | replays with retry, median, MAD, delay rule, classifier | jitter, slow-downs, refusals, thresholds at their boundary | a delay is the payload's, its absence is no other trouble |
| ERROR_BASED SQLi (`replay/sqli_error_based*.py`, `verification/sqli_error_based.py`) | three baseline and up to five trial replies | replays with retry, signatures, response class | unstable baselines, refusals | signatures reproduced |
| Reflected XSS (`replay/xss.py`, `verification/xss*.py`) | one reply per payload variant | mutation, replay, response buckets, classifier | lapsed sessions look like an absent payload | absence is the application's doing |
| Session refresh (`replay/session_refresh.py`) | a cookie per run, or its absence | login, caching, override | failed logins, several targets in one report | each replay has the session it needs |
| Ground truth, evaluation, report (`services/*_service.py`, `api/evaluation.py`, `reports.py`, `risks.py`) | table `ground_truth_labels`; what a handler has read so far | label, compute metrics, build report, group duplicates, prioritise | many reads in separate transactions while runs write; labels are read, merged and all written back | the numbers of one answer add up, an evaluation is not behind its own report, no submission undoes another |
| CSRF candidates (`parsers/zap_har.py`, `verification/csrf_candidate_detection.py`) | none | match forms with later requests | scripts, logins and other forms between loading a form and submitting it | what the user submitted is reported, is what is replayed, and is said to need a session when it did |
| Scanner reports (`parsers/zap.py`, `parsers/burp.py`) | none | parse one file | two scanners with different names for the same thing | what the scanner found in one parameter is tested in that parameter |
| Browser view (`frontend/src/hooks/useScanData.js`) | about fifteen `useState`s, one ref, one `localStorage` key | load, start, poll, verify, refresh, restore | every operation suspends at its awaits, answers come in any order, requests fail, the page is reloaded | the page shows one scan, and all of it |

How they interact: `upload_scan` saves the scan and its findings and starts a
thread that runs `run_auto_verification`; that thread and `verify_finding` (on
the event loop) both call the replay procedures, which send HTTP requests to an
application nobody controls, and both store verdicts through
`save_verified_finding`. The page polls the progress registry and reads the
tables through the list endpoints. Threads share the SQLite file and two
in-process registries; there are no locks in the code.

## Modules and their correspondence to the code

| Module | Models |
|---|---|
| `ScanVerification` | the backend's life of a scan: uploads, manual verifications, automatic runs, the tables, the registries, failing transactions, restarts |
| `VerdictLedger` | abstract specification: scans become normalized or failed, and findings of normalized scans get verdicts, one at a time |
| `RunLedger` | abstract specification of the backend as a page sees it: what a poll is told of each run, and which findings have a verdict; implemented by `ScanVerification`, and the backend of `ScanView` |
| `ScanVerificationProofs` | proofs about `ScanVerification`: types, lost updates, claims, ownership of verdicts, what a poll is told, and the refinements of both ledgers |
| `CsrfRules` | how the replies of a CSRF verification become observations, a context, a verdict and a confidence |
| `CsrfVerification` | one CSRF verification: its replays, interleaved with an application that changes |
| `CsrfVerificationProofs` | proofs about both |
| `SqliTimeBased` | one TIME_BASED verification: baseline, trials with retry, statistics, verdict |
| `SqliTimeBasedProofs` | proofs about it |
| `SqliErrorBased` | one ERROR_BASED verification: mutated baseline, trials with retry, signatures, verdict |
| `SqliErrorBasedProofs` | proofs about it |
| `XssRules` | where a page repeats a payload, what its policy lets run, and the verdict over all payloads |
| `XssVerification` | the reflected XSS findings of one run, with the login and the cookie they share |
| `XssVerificationProofs` | proofs about both |
| `ScanReports` | the handlers that read several tables in turn (report, priorities, duplicates, metrics) and the submission of labels, on top of `ScanVerification` |
| `ScanReportsProofs` | proofs about `ScanReports` |
| `HarCandidates` | how forms without a token are matched with later requests of a capture |
| `ScannerFindings` | what becomes of ZAP alerts and Burp issues, and which findings a verification accepts |
| `ReportIntake` | how captures and reports come about, and their upload: browsing, logins, scripts, scanners; over the two before |
| `ReportIntakeProofs` | proofs about the three |
| `ScanView` | the hook behind the page: its operations as tasks that suspend at each await, over the backend of `RunLedger` |
| `ScanViewProofs` | proofs about it |
| `MC...` | the model-checking instances |

**ScanVerification.** `scans`, `findings` and `verified` are the tables: what a
committed transaction left there. `progress` and `claimed` are the in-process
registries, emptied by `Crash`. Each action is one stretch of code between two
points where another thread can get in: one transaction of `get_connection`, or
one registry update. `upload_scan` is `CreateScan`, `SaveNormalized`,
`NormalizeFails`, `MarkNormalized`, `MarkFailed` and `Dispatch`. The read-merge-write of
`save_verified_finding` is `BeginSave`, `ReadBucket` and `WriteBucket`, shared by
the event loop and the threads; `WriteBucket` replaces the whole bucket, as
`VerifiedFindingsStore.__setitem__` does. A run is `Claim`, `Publish`,
`Snapshot`, then `PickNext`, `ReplayVerdict` or `ReplayFails`, a save,
`CountVerdict` or `RecordError`, and `PublishOne`, until `Finish`. A poll sees the
counters that the thread shares with the published copy, because
`set_verification_progress` is given a shallow copy. A verdict here is one of the
three values, chosen freely: the procedures that compute it are other modules.
Any transaction may fail (`DbError`), and the process may be killed at any point.
`try_claim_scan_for_auto_verification` is two steps, `CheckClaim` and `Claim`, since it tests
the registry and then adds to it without a lock; `doubled` remembers the scans for which two
calls were between the two at once. `upload_scan` dispatches a scan once, so `Dispatches` is 1
in most runs; the docstring promises more, and `core_auto` takes it up.

**VerdictLedger** is what a client relies on. `ScanVerification` implements it,
when only automatic runs verify and until two calls are about to claim one scan at once
(`ImplementsLedger` asks nothing of the steps from there on), under the mapping `Ledger`: the
report of a scan counts from the moment its status says `NORMALIZED`. That is checked by
`core_auto`, and proved for every value of the constants. What a scan stored before a run
that left it `FAILED` is not seen through this mapping.

**RunLedger** is what a page relies on. Of a scan's run there are the states
verification-progress reports, and `LOST`: the registry has no entry and no thread is
going to make one, be it after a restart, after an upload that failed halfway, or after a
run whose first reads failed. `saved` are the findings with a verdict. A run stores
verdicts while a poll is told that it goes on, a verification while it is waiting for its
answer, and none goes away unless both have been at it (`disturbed`), when either may write
back what it read before. `ScanVerification` implements this with manual verifications,
failing transactions and restarts, where no two calls claim a scan at once, under the mapping
`Runs`: a run is heard of as
`Heard` says, and is `NOT_STARTED` as long as some thread is still to publish.
`core_manual` checks it, and it is proved for every value of the constants. `ScanView` takes
its backend from the same module, action by action, so what is shown of the page rests on
nothing the backend does not keep. A page cannot know whether saves overlapped;
there `disturbed` is always true.

**CsrfRules and CsrfVerification.** A reply is a status and whether it shows the
acceptance text; an application has a set of guards, may hand out tokens good for
one request, and has its own statuses for refusals and lapsed sessions.
A target says whether it asks for a session at all (`needs`).
`Replay` is one `execute_replay` of `_verify_csrf_finding`, in its order: the first
and the second replay, the two of the defense test, the two of the origin test;
`Skip` passes over a test the trigger does not ask for; `Classify` builds the
context and applies `verify_csrf` and the confidence policy. Between replays the
session may lapse and the application may go down, fail and recover. `accepted`
and `lost` are history variables. Not every field of the context can be set through the
API; `Context` is what `_verify_csrf_finding` really passes.

**SqliTimeBased.** Times are integers in units of 100 ms; medians and MADs are kept
as multiples, so that the comparisons are exact. A median is found by rank: the k-th of
some times is the least that k of them do not exceed (`Ranked`), which is the k-th of the
sorted list. Baseline samples are kept in the
order of their times, since nothing reads theirs otherwise; trials in the order of
the attempts, since the first three valid ones decide. The target has a mood
(calm, busy, throttling, failing, down) and a session; a vulnerable one sleeps when it
executes the injected request.

**SqliErrorBased.** A page is a number, similar to the numbers next to it, since all the rules ask
of two bodies is whether they are alike, which is not transitive. Two signatures stand for the
table: `syntax` matches complaints about a statement only, `driver` any error of the driver
(`MYSQL_DRIVER_001`, `MSSQL_DRIVER_001`, `ORACLE_ERROR_001`); what the payload's error matches and
what a failing database shows are data of the target, and may have a signature in common, or the
latter nothing at all. `BuildRequests` takes the payload out of the parameter or clears it, or
gives up with an error; `BaselineReplay` and `Trial` are the two loops of
`collect_error_based_replay_evidence`; `Classify` applies `evaluate_error_based_sqli`. The target
may be vulnerable, fail on the empty value too, differ from page to page, and quote errors of its
own; its database may begin or cease to fail at any time. `provoked` and `troubled` keep which
replies had which cause of an error behind them.

**XssRules and XssVerification.** A page is the set of places in which it repeats the payload, an
event handler of the code's list of fourteen (`handler`) and one not on it (`otherHandler`) among
them; `Resolutions` is what `_MarkerLocator` concludes from them, and `Bucket` the result. Beside
it stands what a browser does, which the properties are about: a payload is a script element,
other markup, or bare JavaScript, and `RunsAt` says which runs where; `BrowserPermits` ignores
`'unsafe-inline'` beside a nonce or a hash, and refuses what the parts of a policy that the code
never reads refuse (`unread`). In `XssVerification` a run is a sequence of findings, as the loop
of `run_auto_verification` takes them: `KeepCaptured`, `UseCached`, `Login`, `LoginRaises` and
`NoLogin` resolve the cookie of one (`LoginRaises` is a login that was sent and whose cookies then
raise, so that nothing is kept and the finding ends with an error), `Refuse`, `Replay` and
`Classify` verify it. A manual verification is a run of one finding. The cookie is the same for
findings of the other families; it is modelled here because they show their loss of a session, and
XSS does not. A finding says whether the login's cookie suffices for its page, which stands for
other applications in the same report and for other cookies in the captured header.

**ScanReports** extends `ScanVerification` by the handlers that only read it and by the
labels. A handler is a coroutine that never awaits: `NoHandler` keeps every other
coroutine (uploads, manual verifications, other handlers) waiting until it has answered,
while threads go on between its transactions. `AskReport` is `build_scan_report`:
`ReadRows`, `ReadVerdicts`, then `compute_evaluation_metrics`, which is `ReadLabels`
and one `ReadVerdictOf` per label; `AskMetrics` is that second half alone, and `AskPairs`
stands for the priorities and the duplicate groups, which read the same two tables and
stop. `SubmitLabels` is both endpoints that store labels (`CheckLabels`, `ReadHeld`,
`StoreLabels`). `Report`, `Groups`, `Urgent` and `Cell` are what is computed
from what was read. Any transaction of a handler may fail, and a restart ends it.

**HarCandidates, ScannerFindings and ReportIntake.** An entry of a capture is a method,
a path, the names in its query and in its body, how the recorder kept the body, the
session whose cookie it carried, and the forms of its response. `Submits` is the test
`_find_matching_request` makes of one entry, `Candidates` the two passes of
`find_csrf_candidates` with the finding `zap_har.py` builds. In `ReportIntake` captures
are not made up: they are what a recording browser keeps of a user who opens pages,
submits forms, logs in again, and of scripts beside, so that `submitted` tells what the
user really did. Findings are a set, with the place each came from: no decision depends on
their order. ZAP alerts and Burp issues come from sets that have every combination
of what the parsers look at. `Upload` parses by the scanner named with the upload, and
fails where the report is another's. Names and locations are texts of which only the
relation "occurs in" matters (`Within`); a location is the whole text of the issue, with what
Burp writes behind the path (`[uid parameter]`), and a name may occur anywhere in it.
A form says which fields, which `<button>` names and which encoding it has, of which
`_FormExtractor` keeps the fields.

**ScanView.** `view` is the hook's state and its ref, `stored` the `localStorage`
key. A task is one call of `loadScan`, `startScan` or `verify`; a `startScan` ends by
leaving its poll loop behind, which here is the same task going on. The answers of a
refresh come from the backend one at a time (`Answer`) and are shown together
(`Refreshed`), as `Promise.all` does. Everything between two awaits is one action,
since JavaScript runs it without interruption. The backend's part is `RunLedger`'s:
an upload that succeeds is `Accept`, one that fails may leave a scan without a run
(`Reject`), `VerdictSaved` is `Verify`, runs start, save, end or die as they do there, and
after a `Restart` every run is lost, also one that was over.

## Runs, bounds and what they show

| Run | Instance | Shows |
|---|---|---|
| `core_manual` | one scan, reports with two families, with an unsupported one, and empty; two manual verifications; one failing transaction, one restart; fairness | type correctness; verdicts stay with their scan; nothing is lost unless saves overlap; a poll is one finding ahead of the counter at most, and COMPLETED accounts for everything; every run ends, and if nothing failed underneath, every supported finding gets a verdict or is listed as an error; the backend implements `RunLedger` |
| `core_auto` | one scan dispatched twice, the second time at any moment; no manual verification, two failing transactions, one restart | two runs of a scan come of two calls that test the claim before either adds, and of nothing else; unless they do, the backend implements `VerdictLedger`, in which verdicts stay |
| `csrf_verdicts` | three kinds of finding, every trigger the rules tell apart, every kind of target, two changes of health | what each verdict may be trusted for |
| `timing_verdicts` | a fast target and a slow one at the limit of a stable baseline, vulnerable or not; any mood at the start, one change, a lapse | what each verdict may be trusted for |
| `error_verdicts` | twelve kinds of target (among them ones whose two causes of error share a signature, or that fail silently), three kinds of captured request, any mood at the start, two changes, a lapse | an error is put down to the payload only where it is absent without it and reproduced; two refused trials hide nothing |
| `xss_verdicts` | single findings on every kind of page and policy with two or three payloads, and four runs of up to three findings; credentials missing, accepted or not, cookies that raise; two changes of mood | positives rest on two answers and on a page that runs the payload; a page that runs a recognised payload is dismissed only if it never answered; one login for all, unless it raised |
| `view` | two scans, two operations, a failing request, a backend restart, a reload, fairness | the page shows one scan as long as operations do not overlap, and a polled one completely; one live poll loop; poll loops end unless the run they wait for is lost |
| `report_reads` | one scan, two findings (duplicates, or one unsupported), one run, one manual verification, a restart; two clients, two requests, three label submissions | the counts of a report add up; its evaluation is not behind its findings; handlers hold the loop; a submission changes what it names only |
| `intake` | captures of up to four requests on three pages (GET and POST forms, one with a token, one with a query in its action, one multipart, one with a named button; four ways to record a body), a scripted request, two logins; reports of up to two alerts or issues over four plugins, seven kinds of issue name, eight queries and five locations | a submitted form is reported and replayed; a finding needs a session when its submission had one; what a scanner found is tested where it found it |

The bounds are constants of the modules (`MaxFindings`, `MaxManual`, `MaxDbErrors`, `MaxCrashes`,
`Dispatches`; `MaxHealth`; `MaxMoods`, in three modules; `MaxOps`, `MaxFaults`, `MaxRestarts`,
`MaxReloads`; `MaxAsked`; `MaxEntries`, `MaxItems`, `MaxSessions`). They are chosen so that each
hazard has all its actors: a lost update needs two savers on one scan, hence a run and one manual
verification, and two manual ones let the second follow the first; a double run needs two
dispatches (`core_auto`); a wrong refresh or a second poll loop needs two operations; two
submissions of labels need two requests, and a report behind a writer one; a wrong match needs a
page, a stranger's request and the submission, and a login in between makes four steps. A health
or mood change out of calm and one back reach every order of good and bad replays the rules tell
apart. Where a theorem states the property, the bound does not matter. Deadlock is not checked: in
every model the system may come to rest, when all scans are verified or the one verification has
its verdict.

Each property of a passing run is paired in `PROJECT.json` with a variant of one
definition, kept beside it in the module and marked `Variant`, under which the
same run finds the property violated.

## Disagreements between the code and its own text

Each of these is a run that finds a counterexample; `PROJECT.json` quotes the text.

| Run | What happens |
|---|---|
| `reverified` | a finding verified by hand after the run's snapshot is verified again, and the user's verdict replaced, although the docstring of `run_auto_verification` says it is skipped |
| `lost_update` | a manual verification and the automatic run save at the same time, and one acknowledged verdict disappears |
| `view_poll` | the poll loop of a scan writes over the one picked meanwhile |

These contradict the code's own text as well. No run is about them alone: they are the
exceptions that a property which holds has to make, or the subject of a theorem.

- *The claim is not atomic.* `scan_service.py:125` says "Atomically claim a scan", and
  `repository.py:53-55` that a double dispatch "can never queue the same scan's findings twice". The
  function tests the registry and then adds to it, without a lock, so two calls can both pass.
  `OneRunUnlessDoubled` excepts the scans in `doubled`, and `ImplementsLedger` what follows.
- *Replaced TIME_BASED trials decide nothing.* `sqli_timing.py:31-35` and `489-496`, and
  `test_valid_replacement_trials_still_satisfy_the_three_trial_requirement`
  (`tests/test_sqli_time_based.py:845`), say that an invalid trial is replaced and the first three
  valid ones of up to five decide. `_collect_failure_reasons` (`sqli_time_based_context.py:225`)
  collects the reasons of every sample, the replaced ones too, and the classifier looks at them
  first, so that one refused trial makes the verdict INCONCLUSIVE. The test's last assertion only
  excludes one of the reasons. The theorem `RefusedRetriesNeverDecide` says it for every target;
  it is a fact about the code, not a merit of it.
- *A script of the page's own makes an AMBIGUOUS place executable.* `xss_response_analysis.py:32-44`
  says that text in an existing block or a `javascript:` URI is never pushed "toward a
  false TRUE_POSITIVE". Any `<script>` whose opening tag occurs in the payload is put down to
  the payload (`:343`), and two such replies are a TRUE_POSITIVE.
  `TruePositiveRuns` excepts it (`Misjudged`).
- *INERT_CONTEXT is not only inert.* `xss_response_analysis.py:16-22` names three containers that
  cannot execute, one of them an attribute that handles no event. A handler outside the list of
  fourteen is such an attribute (`:374`), and a payload repeated as markup other than a script
  resolves to nothing (`:277`), so that one more copy in a comment makes the page inert:
  FALSE_POSITIVE for pages that run the payload. `FalsePositiveWhollyLost` is stated for scripts
  and for the handlers of the list.
- *A login can happen twice.* `auto_verification_service.py:313-315` says that it "happens at most
  once per scan run", and `session_refresh.py:163` "Never raises". Where the cookies of the answer
  raise (two of one name, `:210`), nothing is cached and the next finding logs in again.
  `OneLoginKept` counts these (`raised`).

The models show further limits of the code, which have no run of their own and
appear as the premises of properties that hold:

- a report is not of one point in time, as `api/reports.py` says: its evaluation may be ahead
  of its findings, and metrics mix moments (`EvaluationKeepsUp` says that they are never
  behind); `unique_vulnerability_count` counts groups of false positives too;
- a POST form sent to a URL with a query matches no submission, nor does one sent by a named
  `<button>`, as a multipart text, or kept as text beside an empty list of parameters, and a
  body kept as parameters without text is replayed empty (`SubmissionReported` excludes the
  ones and allows the other); a page captured twice gives two findings for one
  submission; a session cookie or token with a name not listed counts for nothing;
- a ZAP alert recognised by its name keeps its unknown plugin id, and every verification of
  it is refused (`ReportedIsTested` is stated for known plugins);
- a Burp parameter is the first of the query whose name occurs in the location, be it as part
  of another, of the path or of the word `parameter` that Burp adds (`ReportedIsTested`
  excludes locations in which a name before the tested one occurs);
- only findings from a capture are ever said to need a session, so that a CSRF issue
  of Burp cannot become TRUE_POSITIVE automatically;
- a CSRF guard that refuses with 400 is taken for no guard (`SteadyTruePositive`
  assumes 403 or 419);
- a defense test naming a field the request does not carry removes nothing and still
  counts as a removed defense (`SteadyTruePositive` assumes the token is named);
- a session that lapses after the second CSRF replay goes unnoticed, and the defense or origin
  test that meets it counts as one the application did not have (`SteadyTruePositive`
  assumes that none lapses);
- a TIME_BASED trial that is redirected to a login page is valid and fast, so that a lapsed
  session ends in FALSE_POSITIVE (`FalsePositiveIsSafe` excludes redirects);
- a replay of an XSS payload answered by a login page, a refusal or a rate limit counts
  as one without the payload; when all are, the verdict is FALSE_POSITIVE
  (`FalsePositiveWhollyLost` says: only then);
- a payload that is markup other than a script is not seen where it runs
  (`FalsePositiveWhollyLost` is about pages that run a payload where the code can tell);
- a payload repeated in a handler counts as executable there even when it is markup, which
  is no JavaScript, and `'unsafe-inline'` counts beside a nonce, and a second policy, a
  `<meta>` policy, `script-src-elem` and `script-src-attr` count for nothing
  (`TruePositiveRuns` excludes these);
- the cookie of the login replaces the whole captured one, also for findings of
  another application (`DetectedWhenSessionHolds` assumes that it suffices);
- a `script-src` that lists nothing is read as permitting inline scripts
  (`TruePositiveRuns` excludes it);
- a database that fails for everyone from after the baseline on passes for an injection, and where
  its errors share a signature with the payload's, one reply of each is enough
  (`TruePositiveReproduced` allows for both); one that fails silently throughout the baseline
  hides errors the page has of its own (`AmbiguousErrorNeverPositive` allows for it), and a
  refused ERROR_BASED baseline replay is not repeated (`DetectedDespiteRefusals` excludes it);
- a lapsed session answered with 403 passes for an origin policy
  (`OriginRejectionIsOrigin`, `FalsePositiveHasGuard` exclude it);
- an empty acceptance text is found in every body (`TruePositiveTwice` excludes it);
- of two overlapping selections the page may end with the id of one scan and the
  data of the other (`ShowsOneScanWithoutOverlap` excludes overlaps);
- one failing request while a scan is restored makes the page forget the stored scan, and
  the end of one verification clears the indicator of another (both only modelled).

## Fairness

Only `core_manual` and `view` assume any. In `ScanVerification`: weak fairness
of each upload, each thread and each save, because the event loop and the operating
system run every ready task, and every replay has a timeout. In `ScanView`: weak
fairness of each task and of the start and end of each run: requests are answered
or fail, timers fire. Failures, restarts and user operations are never fair.
`EveryRunSettles` and `EveryPollEnds` make exceptions where the code gives up:
after a failed transaction or a restart a finding may stay unverified, since nothing
starts the run again; and when a run is lost, in a restart or at its first reads, the status
stays `NOT_STARTED`, so that the poll loop, which has no end of its own, goes on.

## Proofs

TLAPS proves for every value of the constants:

- `TypeCorrect`: `TypeOK` of `ScanVerification`, together with `SavesAimed` (a save
  under way names a finding and a verdict), which is what makes it inductive.
- `NoLoss`: `NoLossWithoutOverlap`. The invariant adds `FreshBuckets`: a saver that
  has read a bucket on which no overlap was seen still holds its current contents. Without it
  the induction fails at `WriteBucket`, which writes what was read earlier.
- `OneRun`: `OneRunUnlessDoubled`, for any number of dispatches. The invariant `ClaimsHeld` says
  that of a scan not in `doubled` whoever is past the claim is alone with it and on record in the
  registry; a restart that empties the registry kills the runners too. `OneDispatchApart`: a scan
  dispatched once, as `upload_scan` does, is never doubled (`ClaimsApart`), which most of the
  theorems below take as a hypothesis.
- `VerdictsBelong`: `VerdictsBelongToScan`. The invariant adds that nothing is saved
  before the report is (`NothingBeforeReport`) and that whatever is queued, being saved or
  read is supported (`AllNameSupported`).
- `AutoLosesNothing` and `AutoImplementsLedger`: `NoAcknowledgedVerdictLost` and
  `ImplementsLedger`, assuming `MaxManual = 0`, that is, nobody verifies by hand, and the former
  `[]ClaimsApart`. The invariant `AutoInv`, which holds until a scan is in `doubled`, says that
  the event loop saves nothing (`LoopNeverSaves`), that whoever saves is a run past its claim and
  saves into its own scan (`SaversRun`), so that no two saves of a scan overlap (`NeverRaced`),
  and that a finding still queued has no verdict (`QueueFresh`). The refinement is a simulation
  step by step: four actions map to steps of the ledger, under the mapping `Ledger`, and every
  other one to a stutter.
- `ProgressAccounts`: `ProgressAccountsForAll`, manual verifications and restarts included, under
  `[]ClaimsApart`. The
  invariant keeps the books of each run (`Books`): completed and queued findings make up the
  total, verdicts counted and errors listed make up what is completed, but for the one finding
  in hand, and the published copy says the same. Whatever is stored was acknowledged
  (`StoredIsAcked`), and every supported finding has a verdict, is listed as an error or is
  still pending (`AllAccounted`). Without it the induction fails at `Finish`, which
  only looks at the queue.
- `BackendImplementsRuns`: `ImplementsRuns`, that is, `ScanVerification` implements `RunLedger`,
  with manual verifications and whatever fails, under `[]ClaimsApart`. The invariant `RunsInv` is
  that of `ProgressAccounts` with `FreshBuckets`, and adds that an upload is done before anything
  is told of its run (`ClaimsAnswered`). Each action of the backend maps to one of the ledger's or
  to a stutter: `Dispatch` to `Accept`, `MarkFailed` to `Reject`, `Snapshot`, which publishes
  first, to `Start`, `SnapshotFails` to `Die`, `Finish` to `End`, `BeginSave` and the answer on
  the event loop to `Ask` and `Answer`, `WriteBucket` to `Save` or `Verify`, and `Crash` to
  `Restart` with the uploads it cuts short. `WriteBucket` needs both parts: a run past its first
  publication is told to be RUNNING, and a bucket that is stale has `disturbed` set.
- `CsrfTypeCorrect`, `CsrfReproduced`, `CsrfGuarded`, `CsrfSteady` and `CsrfOrigin`: `TypeOK`,
  `TruePositiveTwice`, `FalsePositiveHasGuard`, `SteadyTruePositive` and `OriginRejectionIsOrigin`.
  The invariant `IInv` ties the replies to the history: a
  reply that shows the text was accepted (`ShownWasAccepted`), a refusal has a guard or a
  lapsed session behind it (`RejectionHasCause`), nothing is recorded before its
  step (`NothingRecordedYet`), and the verdict is the classifier's (`Classified`). `AnswersInv` adds
  what a replay that met a live session and a healthy application was answered
  (`AnswersExplained`), when a token good for one request is spent (`OneShotSpent`), and what
  a refusal after an accepted original can be due to (`OriginRefusalExplained`).
- `TimeTypeCorrect`, `RefusedRetriesNeverDecide`, `DelayProvesSleep` and `SleepIsNeverMissed`:
  `TypeOK`, `RetriesNeverDecide`, `TruePositiveSlept` and `FalsePositiveIsSafe` of
  `SqliTimeBased`. The second is no merit: no retry ever decides, contrary to the documentation.
  What a verdict can be trusted for depends on the targets' jitter, so the last two name it as a
  hypothesis: `JitterBelowDelay`, of two responses without a sleep the later is less than two
  seconds later or takes less than twice as long; and `SleepAboveJitter`, a response that slept
  takes at least twice as long as any that did not. The module of the run assumes both of its
  targets, a fast one and one at the limit of a stable baseline (`SomeTargetsAreSteady`), where
  TLC evaluates them. The invariant says that baseline samples and trials come in their order
  (`InOrder`), that a baseline that was not slowed down has the target's own times
  (`BaselineTimely`), that a trial later than these slept (`LateTrialsSlept`) and a valid one of a
  vulnerable target did (`ValidTrialsSleep`), that refusals show in the samples (`RefusalsShow`),
  and that the verdict is the classifier's (`Classified`). The rest is about medians: `RankedFact`
  says that a rank is one of the values with the others in their places, and with `OddMedian` a
  median of three or of seven is one of the target's times.
- `ErrorTypeCorrect`, `ErrorReproduced`, `ErrorUnambiguous` and `ErrorDetected`: `TypeOK`,
  `TruePositiveReproduced`, `AmbiguousErrorNeverPositive` and `DetectedDespiteRefusals` of
  `SqliErrorBased`. The invariant says which
  replies have which cause of an error behind them (`HistoryTells`, `TroubleShown`), explains
  the baseline of a sound application (`CleanBaseline`) and the trials of a vulnerable one
  (`ProvokedTrials`), and says that an application with errors of its own is silent only
  once its session has lapsed, hence in all trials too (`SilentOnceLapsed`).
- `XssTypeCorrect`, `XssOneLogin`, `XssTruePositiveRuns`, `XssFalsePositiveWhollyLost` and
  `XssDetected`: `TypeOK`, `OneLoginKept`, `TruePositiveRuns`, `FalsePositiveWhollyLost` and
  `DetectedWhenSessionHolds`, for every run of findings. The invariant ties each attempt to the
  page (`AnsweredShowsPage`), says that what something else answered repeats nothing
  (`LostShowsNothing`), that the verdict is the classifier's on all attempts (`Classified`), and
  that without a cached result every login so far has raised (`LoginsCounted`). `ConfirmingRuns`
  takes the step from a bucket and a policy to what a browser runs. `BucketFact` is what the rules
  can say of a page that shows the payload. For `XssDetected` the invariant `HoldInv` adds that
  what came of the login is remembered (`LoginRemembered`), that the cookie in use is the captured
  one or what that login gave (`OverrideResolved`), that nothing is sent before it is resolved
  (`InOrder`), and that no replay was lost while all was well (`NoneLostYet`).
- `IntakeTypeCorrect`, `SubmissionsAreReported`, `SessionsFollowUsers` and
  `ReportedFindingsAreTested`: `TypeOK`, `SubmissionReported`, `SessionFollowsUser` and
  `ReportedIsTested`, for captures and reports of any length. The invariant says that every
  submission in `submitted` is an entry of the capture as a browser would send it, from a form
  of an earlier entry (`SubmissionsRecorded`), and that findings are what the parsers make of the
  report (`FindingsParsed`). `MatchFact` is what the first match of a form is, `BurpParameterFact`
  when the first name that occurs in a location is the one the issue is about. `IntakeAssumption`
  asks that pages, calls, alerts and issues are of their kinds, that a name occurs in itself,
  and that no field is named like the boundary text.
- `HandlersOnlyRead`: `ReportsSpec => Spec`, that is, `ScanReports` refines `ScanVerification`;
  with it, what is proved of the backend holds under the handlers.
- `ReaderTypeCorrect`: `ReaderTypeOK`. The invariant `JobInv` adds which steps belong to which
  kind of handler; that a thread cannot occupy the event loop is what keeps a handler alone.
- `LabelsSafe`: `LabelsChangeAsSubmitted`, from `HeldIsCurrent`: the labels a submission
  has read are still those stored when it writes.
- `EvaluationSafe`: `EvaluationKeepsUp`, from `KnownYet`: a verdict the report has listed is
  in the table still, and in what was looked up for it. It rests on `NoLoss`: verdicts are
  replaced, never removed, unless saves overlap.
- `CountsSafe`: `CountsAddUp`, from `RowsCover`: verdicts read after the rows are verdicts of
  these rows. The rest is counting: disjoint sets, and an image no larger than its source.
- `ViewTypeCorrect`, `OneLivePoll`, `OneScanShown` and `PolledAll`: the four invariants of
  `ScanView`. `OwnScans` says that each upload's task has a scan of its own, so that two loops
  never poll the same one. `Orderly` describes the page while operations take turns: what is shown
  is of one scan, and of the one the page says it is on unless a request failed or its data is
  being fetched (`PageOn`); what a task fetches and a loop polls is of that scan (`TaskOn`). Of
  the backend the proofs use only what `RunLedger` allows (`AppearFact`, `StoreFact`, `RunFact`,
  `RestartFact`). `Complete` adds that once the poll has seen the end of the run, that run is over
  or forgotten (`Over`) and every verdict is shown or being fetched (`Fetched`), and that a
  selection ends the polling and an upload forgets the progress (`Forgets`).

The assumptions are the named ones of the modules: the constants' sets and natural
bounds, `MaxManual = 0` and `[]ClaimsApart` where a theorem says so, and the two hypotheses on
jitter. Every
invariant and every refinement that a run finds to hold is proved. What is only model-checked:

- the liveness properties, `EveryRunSettles` and `EveryPollEnds`, which are out of the
  prover's reach, as is whatever depends on `ENABLED`;
- the properties of the runs that expect a violation, which do not hold
  (`NoAcknowledgedVerdictLost` is proved where nobody verifies by hand).

## What is not modelled

- The CSRF browser check and the state-check replay: no endpoint supplies a browser
  observation or runs `csrf_state_check.py`. BOOLEAN_BASED and UNION_BASED SQLi, and the
  finalizers that save for them: no endpoint reaches them.
- Stored and DOM-based XSS, which the endpoint refuses, and the attributes whose value a
  browser runs although they handle no event (`srcdoc`): `attribute` stands for those it does
  not.
- How requests are assembled (URLs, headers, form bodies): a replay carries the token
  and the forged origin, or does not. A defense test naming a field
  that is not there is modelled, since it changes what a verdict means.
- Decoding in the parsers (HTML, URLs, base64 messages, headers, cookies, severities, references):
  forms and parameters are data of the models. What `ScanVerification` takes as a report is a
  sequence of families, or does not parse.
- Enrichment, which reads texts out of a finding; the SQLi evidence store, written once and
  read by no endpoint; precision, recall and F1, which follow from the counts.
- `status = "FAILED"` of the progress: the code has it, no path of a run reaches it, because
  the loop catches every exception of a finding and the first reads are outside it.
- The atomicity of single dictionary and set operations, which CPython gives.
- React's batching, and the second mount effect of development mode.
- Confidence values other than CSRF's, wording, indicators, timestamps.

## Plan

1. An abstract specification of a verification (replays, then one verdict), implemented
   by the four procedures, and proved of each.
2. `ScanView` as an implementation of `RunLedger` in full. Its backend steps are the ledger's
   already, but for a reload that leaves several verifications behind, which are saved in
   one step there and one at a time in the ledger.
3. The CSRF state check and the other two SQLi classifiers, should an endpoint come to use them.
