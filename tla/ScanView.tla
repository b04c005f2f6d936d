------------------------------ MODULE ScanView ------------------------------
(***************************************************************************)
(* The browser's view of one scan: useScanData.  Every operation of the    *)
(* hook is a task that suspends at each await; the page shows whatever the *)
(* tasks wrote last.  The backend is RunLedger, which ScanVerification      *)
(* implements: the run of each scan and the findings with a verdict.       *)
(***************************************************************************)
EXTENDS Naturals

CONSTANTS
  Scans, Findings,     \* scans, and the findings each of them has
  Earlier,             \* scans uploaded before the page was first opened
  None,                \* null
  MaxOps,              \* bound on the operations the user starts
  MaxFaults,           \* bound on failing requests and runs
  MaxRestarts,         \* bound on restarts of the backend
  MaxReloads           \* bound on reloads of the page

ASSUME ViewAssumption ==
  /\ Earlier \subseteq Scans
  /\ None \notin Scans \cup (Scans \X Findings)
  /\ {MaxOps, MaxFaults, MaxRestarts, MaxReloads} \subseteq Nat

VARIABLES
  run, saved,      \* backend: each scan's run, its findings with a verdict
  view,            \* the state of the hook
  stored,          \* the scan id in localStorage
  task,            \* the operations, in the order they were started
  faults, restarts, reloads,
  overlap          \* history: have two operations been under way at once

serverVars == <<run, saved>>
bounds == <<faults, restarts, reloads>>
mainVars == <<serverVars, view, stored, task, bounds>>
vars == <<mainVars, overlap>>

Ops == 1..MaxOps
Parts == {"verified", "risks"}      \* answers a refresh collects
Pairs == Scans \X Findings

NoProgress == [scan |-> None, status |-> "none"]

BlankView ==
  [scanId |-> None, findings |-> None, verified |-> {}, risks |-> {},
   progress |-> NoProgress, polling |-> None, loading |-> FALSE,
   loadError |-> FALSE, verifying |-> None, upload |-> "idle"]

\* A task: its operation, where it is suspended, what it captured when it
\* started, and the parts of a refresh that have been answered.
Idle == [op |-> "none", pc |-> "idle", scan |-> None, finding |-> None, got |-> <<>>]
Done == [Idle EXCEPT !.pc = "done"]

Busy(t) ==
  t.pc \in {"list", "upload", "reading", "progress", "post", "answered"}

Polling(t) == t.op = "poll" /\ t.pc \in {"get", "sleep"}
LivePoll(t) == Polling(t) /\ view.polling = t.scan

\* What verification-progress reports of a scan's run: one the registry does
\* not know of is as if it had never started.
Status(s) == IF run[s] = "LOST" THEN "NOT_STARTED" ELSE run[s]

\* The verifications this page has asked for.
Asked ==
  {task[i].finding : i \in {j \in Ops : /\ task[j].pc \in {"post", "answered"}
                                       /\ task[j].finding[1] = task[j].scan}}

\* Whether saves have overlapped is nothing a page can know.
Backend == INSTANCE RunLedger WITH
  asked <- Asked, disturbed <- [s \in Scans |-> TRUE]

Init ==
  /\ run \in {r \in [Scans -> {"absent", "RUNNING", "COMPLETED", "LOST"}] :
                \A s \in Scans : r[s] = "absent" <=> s \notin Earlier}
  /\ saved \in {v \in [Scans -> SUBSET Findings] :
                  \A s \in Scans : s \notin Earlier => v[s] = {}}
  /\ view = BlankView /\ stored = None
  /\ task = [i \in Ops |-> Idle]
  /\ faults = 0 /\ restarts = 0 /\ reloads = 0
  /\ overlap = FALSE

-----------------------------------------------------------------------------
(* Parts of the tasks. *)

Begin(i, t) ==
  /\ task[i] = Idle /\ \A j \in 1..(i - 1) : task[j] # Idle
  /\ task' = [task EXCEPT ![i] = t]

Move(i, t) == task' = [task EXCEPT ![i] = t]

Fault ==
  /\ faults < MaxFaults /\ faults' = faults + 1
  /\ UNCHANGED <<restarts, reloads>>

\* refreshScanData begins: the view shows it is loading, six requests leave.
Loading(v) == [v EXCEPT !.loading = TRUE, !.loadError = FALSE]
Reading(t, s) == [t EXCEPT !.pc = "reading", !.scan = s, !.got = <<>>]

\* Variant: selecting a scan starts a poll loop as well.
ResumeAndPoll(t) ==
  CASE t.op \in {"start", "load"} -> [t EXCEPT !.op = "poll", !.pc = "get", !.got = <<>>]
    [] OTHER -> Done

\* Where a task goes on when its refresh is over: loadScan asks once for the
\* progress, startScan leaves a poll loop behind, the others are done.
Resume(t) ==
  CASE t.op = "load" -> [t EXCEPT !.pc = "progress", !.got = <<>>]
    [] t.op = "start" -> [t EXCEPT !.op = "poll", !.pc = "get", !.got = <<>>]
    [] OTHER -> Done

ResumeView(t, v) ==
  CASE t.op = "start" -> [v EXCEPT !.polling = t.scan]
    [] t.op = "verify" -> [v EXCEPT !.verifying = None]
    [] OTHER -> v

-----------------------------------------------------------------------------
(* refreshScanData. *)

\* The backend answers one of the requests.
Answer(i, p) ==
  LET t == task[i]
      got == [q \in DOMAIN t.got \cup {p} |->
                IF q = p THEN saved[t.scan] ELSE t.got[q]] IN
  /\ t.pc = "reading" /\ p \notin DOMAIN t.got
  /\ Move(i, [t EXCEPT !.got = got])
  /\ UNCHANGED <<serverVars, view, stored, bounds>>

\* Promise.all resolves and the whole of the scan's data is replaced.
Refreshed(i) ==
  LET t == task[i] IN
  /\ t.pc = "reading" /\ DOMAIN t.got = Parts
  /\ view' = ResumeView(t, [view EXCEPT !.findings = t.scan,
                                        !.verified = {t.scan} \X t.got["verified"],
                                        !.risks = {t.scan} \X t.got["risks"],
                                        !.loading = FALSE])
  /\ Move(i, Resume(t))
  /\ UNCHANGED <<serverVars, stored, bounds>>

\* One request failed: the old data stays; the caller is not told.
RefreshFails(i) ==
  /\ task[i].pc = "reading"
  /\ Fault
  /\ view' = ResumeView(task[i], [view EXCEPT !.loadError = TRUE, !.loading = FALSE])
  /\ Move(i, Resume(task[i]))
  /\ UNCHANGED <<serverVars, stored>>

-----------------------------------------------------------------------------
(* loadScan: a scan is picked from the history, or restored on mount. *)

LoadTask(s) == [Idle EXCEPT !.op = "load", !.pc = "list", !.scan = s]

\* Variant: the poll loop of the scan shown so far is left alone.
LoadScanKeepingPoll(i, s) ==
  /\ run[s] # "absent"
  /\ Begin(i, LoadTask(s))
  /\ view' = [Loading(view) EXCEPT !.verifying = None, !.progress = NoProgress]
  /\ UNCHANGED <<serverVars, stored, bounds>>

\* The part of loadScan before its first await.
Selected(v) ==
  [Loading(v) EXCEPT !.verifying = None, !.polling = None, !.progress = NoProgress]

LoadScan(i, s) ==
  /\ run[s] # "absent"
  /\ Begin(i, LoadTask(s))
  /\ view' = Selected(view)
  /\ UNCHANGED <<serverVars, stored, bounds>>

\* GET /scans lists the scan: it becomes the active one.
Listed(i) ==
  /\ task[i].pc = "list"
  /\ view' = [Loading(view) EXCEPT !.scanId = task[i].scan, !.upload = "success"]
  /\ stored' = task[i].scan
  /\ Move(i, Reading(task[i], task[i].scan))
  /\ UNCHANGED <<serverVars, bounds>>

\* GET /scans failed: the stored id is forgotten.
ListFails(i) ==
  /\ task[i].pc = "list"
  /\ Fault
  /\ view' = [view EXCEPT !.loadError = TRUE, !.loading = FALSE]
  /\ stored' = None
  /\ Move(i, Done)
  /\ UNCHANGED serverVars

\* The single look at the progress; a failure shows none.
ProgressLoaded(i) ==
  /\ task[i].pc = "progress"
  /\ view' = [view EXCEPT !.loading = FALSE,
                          !.progress = [scan |-> task[i].scan,
                                        status |-> Status(task[i].scan)]]
  /\ Move(i, Done)
  /\ UNCHANGED <<serverVars, stored, bounds>>

ProgressFails(i) ==
  /\ task[i].pc = "progress"
  /\ Fault
  /\ view' = [view EXCEPT !.loading = FALSE, !.progress = NoProgress]
  /\ Move(i, Done)
  /\ UNCHANGED <<serverVars, stored>>

-----------------------------------------------------------------------------
(* startScan: a report is uploaded; the button waits for the upload. *)

StartScan(i) ==
  /\ view.upload # "uploading"
  /\ Begin(i, [Idle EXCEPT !.op = "start", !.pc = "upload"])
  /\ view' = [view EXCEPT !.upload = "uploading", !.progress = NoProgress]
  /\ UNCHANGED <<serverVars, stored, bounds>>

\* Variant: the refresh is given a field the response does not have.
UploadedUnnamed(i, s) ==
  /\ task[i].pc = "upload"
  /\ view' = [Loading(view) EXCEPT !.scanId = s, !.upload = "success"]
  /\ stored' = s
  /\ Move(i, Reading(task[i], None))
  /\ Backend!Accept(s)
  /\ UNCHANGED bounds

\* The backend created the scan and will run its automatic verification.
Uploaded(i, s) ==
  /\ task[i].pc = "upload"
  /\ view' = [Loading(view) EXCEPT !.scanId = s, !.upload = "success"]
  /\ stored' = s
  /\ Move(i, Reading(task[i], s))
  /\ Backend!Accept(s)
  /\ UNCHANGED bounds

\* The upload is refused, or fails halfway and leaves a scan without a run.
UploadFails(i) ==
  /\ task[i].pc = "upload"
  /\ Fault
  /\ view' = [view EXCEPT !.upload = "error"]
  /\ Move(i, Done)
  /\ UNCHANGED serverVars \/ \E s \in Scans : Backend!Reject(s)
  /\ UNCHANGED stored

-----------------------------------------------------------------------------
(* pollVerificationProgress. *)

Superseded(i) ==
  /\ task[i].pc = "get" /\ view.polling # task[i].scan
  /\ Move(i, Done)
  /\ UNCHANGED <<serverVars, view, stored, bounds>>

Showing(s) == [view EXCEPT !.progress = [scan |-> s, status |-> Status(s)]]

\* The run is not over: the next look is a tick away.
PollAgain(i) ==
  LET s == task[i].scan IN
  /\ task[i].pc = "get" /\ view.polling = s /\ Status(s) # "COMPLETED"
  /\ view' = Showing(s)
  /\ Move(i, [task[i] EXCEPT !.pc = "sleep"])
  /\ UNCHANGED <<serverVars, stored, bounds>>

\* Variant: the loop ends without refreshing the data.
PollEndedUnrefreshed(i) ==
  LET s == task[i].scan IN
  /\ task[i].pc = "get" /\ view.polling = s /\ Status(s) = "COMPLETED"
  /\ view' = Showing(s)
  /\ Move(i, Done)
  /\ UNCHANGED <<serverVars, stored, bounds>>

\* Variant: COMPLETED is not known as a terminal status.
PollNeverEnded(i) ==
  LET s == task[i].scan IN
  /\ task[i].pc = "get" /\ view.polling = s /\ Status(s) = "COMPLETED"
  /\ view' = Showing(s)
  /\ Move(i, [task[i] EXCEPT !.pc = "sleep"])
  /\ UNCHANGED <<serverVars, stored, bounds>>

\* The run is over: its last progress is shown and the data refreshed.
PollEnded(i) ==
  LET s == task[i].scan IN
  /\ task[i].pc = "get" /\ view.polling = s /\ Status(s) = "COMPLETED"
  /\ view' = Loading(Showing(s))
  /\ Move(i, Reading(task[i], s))
  /\ UNCHANGED <<serverVars, stored, bounds>>

\* A failing look does not end the loop.
PollFails(i) ==
  /\ task[i].pc = "get" /\ view.polling = task[i].scan
  /\ Fault
  /\ Move(i, [task[i] EXCEPT !.pc = "sleep"])
  /\ UNCHANGED <<serverVars, view, stored>>

Wake(i) ==
  /\ task[i].pc = "sleep"
  /\ Move(i, [task[i] EXCEPT !.pc = "get"])
  /\ UNCHANGED <<serverVars, view, stored, bounds>>

-----------------------------------------------------------------------------
(* verify: a finding shown on the page, in the scan the page is on. *)

Verify(i, f) ==
  LET shown == <<view.findings, f>> IN
  /\ view.scanId # None /\ view.findings # None /\ view.verifying # shown
  /\ Begin(i, [Idle EXCEPT !.op = "verify", !.pc = "post", !.scan = view.scanId,
                           !.finding = shown])
  /\ view' = [view EXCEPT !.verifying = shown]
  /\ UNCHANGED <<serverVars, stored, bounds>>

Posted(i) == task[i].pc = "post" /\ task[i].finding[1] = task[i].scan

VerdictSaved(i) ==
  /\ Posted(i)
  /\ Move(i, [task[i] EXCEPT !.pc = "answered"])
  /\ Backend!Verify(task[i].scan, task[i].finding[2])
  /\ UNCHANGED <<view, stored, bounds>>

VerifyAnswered(i) ==
  /\ task[i].pc = "answered"
  /\ view' = [Loading(view) EXCEPT !.verified = @ \cup {task[i].finding}]
  /\ Move(i, Reading(task[i], task[i].scan))
  /\ UNCHANGED <<serverVars, stored, bounds>>

\* The request failed, or the finding is not one of the scan's: 404.
VerifyFails(i) ==
  /\ task[i].pc \in {"post", "answered"}
  /\ IF task[i].finding[1] # task[i].scan THEN UNCHANGED bounds ELSE Fault
  /\ view' = [view EXCEPT !.verifying = None]
  /\ Move(i, Done)
  /\ UNCHANGED <<serverVars, stored>>

-----------------------------------------------------------------------------
(* The backend: the automatic runs. *)

Unseen == UNCHANGED <<view, stored, task>>

RunStarts(s) == Unseen /\ Backend!Start(s) /\ UNCHANGED bounds
RunSaves(s, f) == Unseen /\ Backend!Save(s, f) /\ UNCHANGED bounds
RunEnds(s) == Unseen /\ Backend!End(s) /\ UNCHANGED bounds

\* The run's first reads fail.
RunDies(s) == Unseen /\ Backend!Die(s) /\ Fault

\* A restart while a request is in flight is that request's failure first.
Restart ==
  /\ restarts < MaxRestarts
  /\ \A i \in Ops : task[i].pc \in {"idle", "done", "sleep"}
  /\ Unseen
  /\ Backend!Restart({})
  /\ restarts' = restarts + 1
  /\ UNCHANGED <<faults, reloads>>

-----------------------------------------------------------------------------
\* The page is loaded anew: its tasks and its state are gone, and the stored
\* scan, if any, is loaded again.  Verifications it leaves behind may still be
\* saved.
Reload ==
  LET open == {i \in Ops : task[i] # Idle}
      cleared == [i \in Ops |-> IF i \in open THEN Done ELSE Idle] IN
  /\ reloads < MaxReloads /\ reloads' = reloads + 1
  /\ \E kept \in SUBSET {i \in Ops : Posted(i)} :
       saved' = [s \in Scans |-> saved[s] \cup
                   {task[i].finding[2] : i \in {j \in kept : task[j].scan = s}}]
  /\ IF stored = None
     THEN /\ task' = cleared /\ view' = BlankView
     ELSE \E i \in Ops \ open :
            /\ \A j \in 1..(i - 1) : j \in open
            /\ task' = [cleared EXCEPT ![i] = LoadTask(stored)]
            /\ view' = Selected(BlankView)
  /\ overlap' = FALSE
  /\ UNCHANGED <<run, stored, faults, restarts>>

UserStep ==
  \E i \in Ops :
    \/ \E s \in Scans : LoadScan(i, s)
    \/ StartScan(i)
    \/ \E f \in Findings : Verify(i, f)

TaskStep(i) ==
  \/ \E p \in Parts : Answer(i, p)
  \/ Refreshed(i) \/ Listed(i) \/ ProgressLoaded(i)
  \/ \E s \in Scans : Uploaded(i, s)
  \/ Superseded(i) \/ PollAgain(i) \/ PollEnded(i) \/ Wake(i)
  \/ VerdictSaved(i) \/ VerifyAnswered(i) \/ VerifyFails(i)

TaskFails(i) ==
  \/ RefreshFails(i) \/ ListFails(i) \/ ProgressFails(i)
  \/ UploadFails(i) \/ PollFails(i)

RunStep(s) ==
  RunStarts(s) \/ RunEnds(s) \/ RunDies(s) \/ \E f \in Findings : RunSaves(s, f)

\* Two operations overlap when both are under way: a poll loop counts while it
\* refreshes, and while a new report is uploaded.
Overlapping ==
  \/ \E i, j \in Ops : i # j /\ Busy(task[i]) /\ Busy(task[j])
  \/ \E i, j \in Ops : task[i].op = "start" /\ Busy(task[i]) /\ LivePoll(task[j])

Step ==
  \/ UserStep
  \/ \E i \in Ops : TaskStep(i) \/ TaskFails(i)
  \/ \E s \in Scans : RunStep(s)
  \/ Restart

Next == (Step /\ overlap' = (overlap \/ Overlapping')) \/ Reload

\* Every request is answered in the end, every timer fires, every run goes on.
Spec == Init /\ [][Next]_vars
FairSpec ==
  /\ Spec
  /\ \A i \in Ops : WF_mainVars(TaskStep(i))
  /\ \A s \in Scans : WF_mainVars(RunStarts(s) \/ RunEnds(s))

-----------------------------------------------------------------------------
(* Properties. *)

TypeOK ==
  /\ run \in [Scans -> {"absent", "NOT_STARTED", "RUNNING", "COMPLETED", "LOST"}]
  /\ saved \in [Scans -> SUBSET Findings]
  /\ view \in [scanId : Scans \cup {None}, findings : Scans \cup {None},
               verified : SUBSET Pairs, risks : SUBSET Pairs,
               progress : {NoProgress} \cup
                 [scan : Scans, status : {"NOT_STARTED", "RUNNING", "COMPLETED"}],
               polling : Scans \cup {None}, loading : BOOLEAN,
               loadError : BOOLEAN, verifying : Pairs \cup {None},
               upload : {"idle", "uploading", "error", "success"}]
  /\ stored \in Scans \cup {None}
  /\ DOMAIN task = Ops
  /\ \A i \in Ops :
       /\ task[i].op \in {"none", "load", "start", "poll", "verify"}
       /\ task[i].pc \in {"idle", "done", "get", "sleep"} \/ Busy(task[i])
       /\ task[i].scan = None <=> task[i].pc \in {"idle", "done", "upload"}
       /\ task[i].finding = None <=> task[i].op # "verify"
       /\ DOMAIN task[i].got \subseteq Parts
       /\ \A p \in DOMAIN task[i].got : task[i].got[p] \subseteq Findings
  /\ faults \in 0..MaxFaults /\ restarts \in 0..MaxRestarts
  /\ reloads \in 0..MaxReloads
  /\ overlap \in BOOLEAN

Quiet == \A i \in Ops : ~ Busy(task[i])

ShowsOneScan ==
  /\ view.findings = view.scanId
  /\ view.verified \cup view.risks \subseteq {view.scanId} \X Findings
  /\ view.progress.scan \in {None, view.scanId}

\* As long as the user lets every operation finish before starting the next,
\* what the page shows is of the scan it says it is on, progress included,
\* whatever poll loop is still running.
ShowsOneScanWithoutOverlap ==
  ~ overlap /\ Quiet /\ ~ view.loadError /\ view.scanId # None => ShowsOneScan

\* After the poll of an uploaded scan reported the end of its run, the page
\* has every verdict of the scan, and the priorities that go with them.
PolledViewIsComplete ==
  /\ ~ overlap /\ Quiet /\ faults = 0
  /\ view.polling = view.scanId /\ view.progress.status = "COMPLETED"
  => LET all == {view.scanId} \X saved[view.scanId]
     IN view.verified = all /\ view.risks = all

\* However operations overlap, at most one poll loop goes on: "a poll started
\* for one scan stops ... the moment the user switches" (pollingScanIdRef).
AtMostOneLivePoll ==
  \A i, j \in Ops : LivePoll(task[i]) /\ LivePoll(task[j]) => i = j

\* Every poll loop ends, since the run of its scan does or the user goes
\* elsewhere, unless that run is lost: killed in a restart, or dead before it
\* has published anything.
EveryPollEnds ==
  \A i \in Ops, s \in Scans :
    Polling(task[i]) /\ task[i].scan = s ~> task[i].pc = "done" \/ run[s] = "LOST"

\* A poll loop stops "silently rather than overwriting their newly-selected
\* scan's state".
PollWritesOwnScan ==
  [][\A i \in Ops :
       /\ task[i].op = "poll" /\ task'[i] # task[i]
       /\ reloads' = reloads /\ view' # view
       => task[i].scan = view.scanId]_mainVars

=============================================================================
