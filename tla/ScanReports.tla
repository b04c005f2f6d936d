---------------------------- MODULE ScanReports ----------------------------
(***************************************************************************)
(* What the backend computes from its tables while runs are writing them:  *)
(* the report of a scan, its evaluation against ground-truth labels, the   *)
(* risk priorities and duplicate groups, and the submission of labels.     *)
(*                                                                         *)
(* The backend of ScanVerification goes on underneath.  Each handler reads *)
(* several tables, each in a transaction of its own, and awaits nothing:   *)
(* it holds the event loop from its first read to its answer.  Uploads and *)
(* manual verifications wait for it, the threads of automatic runs do not. *)
(***************************************************************************)
EXTENDS ScanVerification

CONSTANTS
  Clients,      \* who asks
  Severity,     \* the scanner's severity of the finding at a position
  Place,        \* its normalized URL and parameter
  Batches,      \* the label submissions clients make, demo data included
  MaxAsked      \* bound on the requests

Truths == {"TRUE_POSITIVE", "FALSE_POSITIVE"}
NoLabel == "NO_LABEL"
Labels == [Idx -> Truths \cup {NoLabel}]
NothingLabelled == [i \in Idx |-> NoLabel]
Severities == {"UNKNOWN", "INFORMATIONAL", "LOW", "MEDIUM", "HIGH", "CRITICAL"}
LabelledIn(b) == {i \in Idx : b[i] # NoLabel}

ASSUME ReportConstantsAssumption ==
  /\ Severity \in [Idx -> Severities]
  /\ DOMAIN Place = Idx
  /\ Batches \subseteq Labels
  /\ MaxAsked \in Nat

VARIABLES
  labels,   \* ground_truth_labels rows of a scan
  job,      \* the handler a client waits for, with what it has read
  asked     \* requests so far

readerVars == <<labels, job, asked>>
allVars == <<vars, readerVars>>

NoJob == [kind |-> "none", step |-> "idle", scan |-> NoScan, rows |-> <<>>,
          shown |-> EmptyBucket, batch |-> NothingLabelled,
          held |-> NothingLabelled, left |-> {}, found |-> EmptyBucket]

\* Variant: plain `def' handlers, which FastAPI runs on a pool of threads.
HandlersOnThreads == TRUE

\* No handler holds the event loop.
NoHandler == \A c \in Clients : job[c].kind = "none"

ReportsInit ==
  /\ Init
  /\ labels = [s \in Scans |-> NothingLabelled]
  /\ job = [c \in Clients |-> NoJob]
  /\ asked = 0

-----------------------------------------------------------------------------
(* What is computed from what was read. *)

\* _assess_one: the scanner's severity, unless the verdict takes it down.
Priority(severity, verdict) ==
  LET mapped == IF severity = "UNKNOWN" THEN "MEDIUM" ELSE severity IN
  CASE verdict = "FALSE_POSITIVE" -> "INFORMATIONAL"
    [] verdict = "INCONCLUSIVE" /\ mapped \in {"HIGH", "CRITICAL"} -> "MEDIUM"
    [] OTHER -> mapped

\* The findings of the answer that have a verdict.
Paired(j) == {i \in DOMAIN j.rows : j.shown[i] # Unverified}

ShownAs(j, v) == {i \in DOMAIN j.rows : j.shown[i] = v}

\* group_duplicate_findings: a group per category, URL and parameter.
Groups(j) == {<<j.rows[i], Place[i]>> : i \in Paired(j)}

Urgent(j) ==
  {i \in Paired(j) : Priority(Severity[i], j.shown[i]) \in {"HIGH", "CRITICAL"}}

\* build_scan_report: verified_count is the number of rows of the verified
\* table, the other counts go through the normalized findings.
Report(j) ==
  [raw        |-> Len(j.rows),
   verified   |-> Cardinality({i \in Idx : j.shown[i] # Unverified}),
   truePos    |-> Cardinality(ShownAs(j, "TRUE_POSITIVE")),
   falsePos   |-> Cardinality(ShownAs(j, "FALSE_POSITIVE")),
   inconcl    |-> Cardinality(ShownAs(j, "INCONCLUSIVE")),
   unverified |-> Cardinality(ShownAs(j, Unverified)),
   unique     |-> Cardinality(Groups(j))]

\* compute_evaluation_metrics: the cell of the matrix a label falls into, from
\* the verdict looked up for it.
Cell(j, i) ==
  CASE j.found[i] = Unverified -> "unverified"
    [] j.found[i] = "INCONCLUSIVE" -> "excluded"
    [] j.found[i] = "TRUE_POSITIVE" ->
         IF j.held[i] = "TRUE_POSITIVE" THEN "TP" ELSE "FP"
    [] OTHER -> IF j.held[i] = "TRUE_POSITIVE" THEN "FN" ELSE "TN"

-----------------------------------------------------------------------------
(* The handlers.  get_scan, which every one begins with, decides on a 404;   *)
(* rows of scans are never deleted.                                          *)

Begin(c, s, kind, step, batch) ==
  /\ LoopFree /\ NoHandler
  /\ asked < MaxAsked
  /\ scans[s] # "ABSENT"
  /\ job' = [job EXCEPT ![c] = [NoJob EXCEPT !.kind = kind, !.step = step,
                                             !.scan = s, !.batch = batch]]
  /\ asked' = asked + 1
  /\ UNCHANGED <<vars, labels>>

\* GET report; GET risk-priorities and duplicate-groups read the same pairs and
\* stop there; GET metrics has only the second half.
AskReport(c, s) == Begin(c, s, "report", "rows", NothingLabelled)
AskPairs(c, s) == Begin(c, s, "pairs", "rows", NothingLabelled)
AskMetrics(c, s) == Begin(c, s, "metrics", "labels", NothingLabelled)

\* POST ground-truth and ground-truth/demo.
SubmitLabels(c, s, b) == Begin(c, s, "label", "check", b)

\* get_normalized_findings.
ReadRows(c) ==
  /\ job[c].step = "rows"
  /\ job' = [job EXCEPT ![c].rows = findings[job[c].scan],
                        ![c].step = "verdicts"]
  /\ UNCHANGED <<vars, labels, asked>>

\* get_verified_findings; the pairs, priorities, counts and groups follow.
ReadVerdicts(c) ==
  /\ job[c].step = "verdicts"
  /\ job' = [job EXCEPT
       ![c].shown = verified[job[c].scan],
       ![c].step = IF job[c].kind = "report" THEN "labels" ELSE "ready"]
  /\ UNCHANGED <<vars, labels, asked>>

\* get_ground_truth_labels.
ReadLabels(c) ==
  LET held == labels[job[c].scan] IN
  /\ job[c].step = "labels"
  /\ job' = [job EXCEPT ![c].held = held, ![c].left = LabelledIn(held),
                        ![c].step = "matrix"]
  /\ UNCHANGED <<vars, labels, asked>>

\* get_verified_finding, once per label, in a transaction of its own.
ReadVerdictOf(c, i) ==
  /\ job[c].step = "matrix"
  /\ i \in job[c].left
  /\ job' = [job EXCEPT ![c].found[i] = verified[job[c].scan][i],
                        ![c].left = @ \ {i}]
  /\ UNCHANGED <<vars, labels, asked>>

MatrixDone(c) ==
  /\ job[c].step = "matrix"
  /\ job[c].left = {}
  /\ job' = [job EXCEPT ![c].step = "ready"]
  /\ UNCHANGED <<vars, labels, asked>>

\* Variant: the labels are stored without those the scan has.
StoreBatchOnly(c) ==
  /\ job[c].step = "store"
  /\ labels' = [labels EXCEPT ![job[c].scan] = job[c].batch]
  /\ job' = [job EXCEPT ![c].step = "ready"]
  /\ UNCHANGED <<vars, asked>>

\* A submission naming a finding the scan has not is refused as a whole.
CheckLabels(c) ==
  /\ job[c].step = "check"
  /\ job' = [job EXCEPT ![c] =
       IF \A i \in LabelledIn(job[c].batch) : HasFinding(job[c].scan, i)
       THEN [job[c] EXCEPT !.step = "merge"]
       ELSE NoJob]
  /\ UNCHANGED <<vars, labels, asked>>

\* The labels of the whole scan are read, to be merged with the new ones.
ReadHeld(c) ==
  /\ job[c].step = "merge"
  /\ job' = [job EXCEPT ![c].held = labels[job[c].scan], ![c].step = "store"]
  /\ UNCHANGED <<vars, labels, asked>>

Merged(b, held) == [i \in Idx |-> IF b[i] # NoLabel THEN b[i] ELSE held[i]]

\* GroundTruthStore.__setitem__: delete the scan's labels and insert the merged
\* ones, in one transaction.
StoreLabels(c) ==
  /\ job[c].step = "store"
  /\ labels' = [labels EXCEPT
                  ![job[c].scan] = Merged(job[c].batch, job[c].held)]
  /\ job' = [job EXCEPT ![c].step = "ready"]
  /\ UNCHANGED <<vars, asked>>

\* The answer is sent, or a transaction has raised and a 500 is.
Answered(c) ==
  /\ job[c].step = "ready"
  /\ job' = [job EXCEPT ![c] = NoJob]
  /\ UNCHANGED <<vars, labels, asked>>

HandlerFails(c) ==
  /\ job[c].step \notin {"idle", "ready"}
  /\ job' = [job EXCEPT ![c] = NoJob]
  /\ UNCHANGED <<vars, labels, asked>>

-----------------------------------------------------------------------------
(* The backend underneath. *)

\* The coroutines of the event loop get their turn between handlers.
LoopStep ==
  /\ NoHandler
  /\ \/ \E s \in Scans : CreateScan(s) \/ UploadStep(s)
     \/ \E s \in Scans, i \in Idx, v \in Verdicts : StartVerify(s, i, v)
     \/ RespondVerify
     \/ SaveStep(EventLoop)
  /\ UNCHANGED readerVars

\* Threads do not wait for the loop.
ThreadStep ==
  /\ \/ \E s \in Scans, k \in 1..Dispatches : Redispatch(s, k)
     \/ \E w \in Workers : SaveStep(w) \/ WorkerStep(w)
  /\ UNCHANGED readerVars

\* A restart takes the handlers with it; the labels are on disk.
Restart ==
  /\ Crash
  /\ job' = [c \in Clients |-> NoJob]
  /\ UNCHANGED <<labels, asked>>

HandlerStep(c) ==
  \/ \E s \in Scans : \/ AskReport(c, s) \/ AskPairs(c, s) \/ AskMetrics(c, s)
                      \/ \E b \in Batches : SubmitLabels(c, s, b)
  \/ ReadRows(c) \/ ReadVerdicts(c)
  \/ ReadLabels(c) \/ (\E i \in Idx : ReadVerdictOf(c, i)) \/ MatrixDone(c)
  \/ CheckLabels(c) \/ ReadHeld(c) \/ StoreLabels(c)
  \/ Answered(c) \/ HandlerFails(c)

ReportsNext ==
  \/ \E c \in Clients : HandlerStep(c)
  \/ LoopStep \/ ThreadStep \/ Restart

ReportsSpec == ReportsInit /\ [][ReportsNext]_allVars

-----------------------------------------------------------------------------
(* Properties. *)

Kinds == {"none", "report", "pairs", "metrics", "label"}
Steps == {"idle", "rows", "verdicts", "labels", "matrix", "check", "merge",
          "store", "ready"}
Jobs == [kind : Kinds, step : Steps, scan : Scans \cup {NoScan},
         rows : Reports \cup {<<>>}, shown : Buckets, batch : Labels,
         held : Labels, left : SUBSET Idx, found : Buckets]

\* The labels and the handlers' locals hold values of their kind, and a handler
\* under way holds the event loop alone.
ReaderTypeOK ==
  /\ labels \in [Scans -> Labels]
  /\ job \in [Clients -> Jobs]
  /\ asked \in Nat
  /\ \A c \in Clients : job[c].kind # "none" =>
       LoopFree /\ \A d \in Clients \ {c} : job[d].kind = "none"

Answering(c, kind) == job[c].kind = kind /\ job[c].step = "ready"

\* The counts of a report come from two tables read one after the other while
\* runs store verdicts, and still add up: every stored verdict is one of a
\* finding of the report, every finding is counted once, and what is called
\* urgent has been proven.
CountsAddUp ==
  \A c \in Clients : Answering(c, "report") =>
    LET j == job[c]  r == Report(j) IN
    /\ r.verified = r.truePos + r.falsePos + r.inconcl
    /\ r.raw = r.verified + r.unverified
    /\ r.unique <= r.verified /\ (r.unique = 0 <=> r.verified = 0)
    /\ Cardinality(Urgent(j)) <= r.truePos

\* The evaluation in a report looks each verdict up again, later than the
\* findings were listed.  Unless saves on the scan have overlapped it knows at
\* least as much: no labelled finding the report shows with a verdict is counted
\* as unverified.
EvaluationKeepsUp ==
  \A c \in Clients : Answering(c, "report") /\ ~ raced[job[c].scan] =>
    \A i \in LabelledIn(job[c].held) :
      job[c].shown[i] # Unverified => Cell(job[c], i) # "unverified"

\* A step changes a label only to what the submission being stored says of it.
ChangesAsSubmitted ==
  \A s \in Scans, i \in Idx : labels'[s][i] # labels[s][i] =>
    \E c \in Clients : /\ job[c].step = "store" /\ job[c].scan = s
                       /\ i \in LabelledIn(job[c].batch)
                       /\ labels'[s][i] = job[c].batch[i]

\* A submission changes the labels it names and no other, although it reads all
\* labels of the scan and writes all of them back.
LabelsChangeAsSubmitted == [][ChangesAsSubmitted]_allVars
=============================================================================
