-------------------------- MODULE ScanVerification --------------------------
(***************************************************************************)
(* The life of an uploaded scan in the VulnVerify backend: the upload      *)
(* coroutine, the detached thread that verifies the scan's findings        *)
(* automatically, the manual /verify handler, the SQLite tables they share *)
(* and the in-process progress registry.                                   *)
(*                                                                         *)
(* Threads.  Every FastAPI handler is an `async def' and so runs on the    *)
(* one event loop; only upload_scan awaits anything (file.read).  Each     *)
(* call of run_auto_verification runs on a thread of its own.  A step of   *)
(* this specification is one SQLite transaction (get_connection opens,     *)
(* commits and closes one per store operation) or one operation on the     *)
(* in-process registries: a test and the change that relies on it are two. *)
(*                                                                         *)
(* A finding is identified by its scan and its position in the parsed      *)
(* report: finding ids are fresh uuid4 values, so no two findings of two   *)
(* uploads are ever the same.                                              *)
(***************************************************************************)
EXTENDS Naturals, Sequences, FiniteSets

CONSTANTS
  Scans,          \* the scan ids uploads may draw
  Reports,        \* what a parser may return: sequences of categories
  MaxFindings,    \* bound on the length of a report
  Dispatches,     \* bound on calls of run_auto_verification for one scan
  MaxManual,      \* bound on manual verifications
  MaxDbErrors,    \* bound on failing SQLite operations
  MaxCrashes,     \* bound on kills of the backend process
  EventLoop       \* the caller of save_verified_finding that is no thread

Verdicts == {"TRUE_POSITIVE", "FALSE_POSITIVE", "INCONCLUSIVE"}
Unverified == "UNVERIFIED"
Categories == {"SQLI", "CSRF", "XSS", "OTHER"}
Idx == 1..MaxFindings
Workers == Scans \X (1..Dispatches)
Savers == Workers \cup {EventLoop}
NoScan == "NO_SCAN"

ASSUME BoundsAssumption ==
  /\ MaxFindings \in Nat
  /\ Dispatches \in Nat \ {0}
  /\ MaxManual \in Nat /\ MaxDbErrors \in Nat /\ MaxCrashes \in Nat

ASSUME ReportsAssumption ==
  \A r \in Reports : r \in Seq(Categories) /\ Len(r) <= MaxFindings

ASSUME EventLoopAssumption == EventLoop \notin Workers /\ NoScan \notin Scans

VARIABLES
  \* SQLite tables
  scans,       \* status column of the scans table, "ABSENT" without a row
  findings,    \* normalized_findings rows of a scan, in position order
  verified,    \* verified_findings rows of a scan
  \* the event loop
  upload,      \* where the upload coroutine of a scan is
  \* in-process state of the backend
  claimed,     \* auto_verification_queued_scan_ids
  progress,    \* verification_progress
  \* locals of each run_auto_verification thread
  pc, todo, total, completed, counts, errors,
  \* one call of save_verified_finding per saver
  save,
  \* history and budgets
  acked,       \* verdict of the last save that returned, per finding
  raced,       \* scans on which two saves have overlapped
  doubled,     \* scans two calls have been about to claim at the same time
  manuals, dbErrors, crashes

dbVars == <<scans, findings, verified>>
workerVars == <<pc, todo, total, completed, counts, errors>>
historyVars == <<acked, raced, doubled>>
budgetVars == <<manuals, dbErrors, crashes>>
vars == <<dbVars, upload, claimed, progress, workerVars, save, historyVars,
          budgetVars>>

Buckets == [Idx -> Verdicts \cup {Unverified}]
EmptyBucket == [i \in Idx |-> Unverified]
NoCounts == [v \in Verdicts |-> 0]
NoProgress == [status |-> "NOT_STARTED", total |-> 0, completed |-> 0,
               current |-> 0, by |-> 0]
NoCall == [stage |-> "idle", scan |-> NoScan, idx |-> 0,
           verdict |-> Unverified, bucket |-> EmptyBucket]

\* build_auto_trigger knows a trigger for exactly these categories, and the
\* manual endpoint accepts a trigger for exactly these.
Supported == Categories \ {"OTHER"}

HasFinding(s, i) == i \in 1..Len(findings[s])
IsSupported(s, i) == HasFinding(s, i) /\ findings[s][i] \in Supported

\* Variant: every finding is queued, whether a verifier supports it or not.
CandidatesOfAnyKind(s) ==
  {i \in Idx : HasFinding(s, i) /\ verified[s][i] = Unverified}

\* Findings run_auto_verification would queue, given what is verified now.
Candidates(s) ==
  {i \in Idx : IsSupported(s, i) /\ verified[s][i] = Unverified}

\* The candidates are verified in report order.
IsNext(w, i) == i \in todo[w] /\ \A j \in todo[w] : i <= j

Counted(w) == counts[w]["TRUE_POSITIVE"] + counts[w]["FALSE_POSITIVE"]
                + counts[w]["INCONCLUSIVE"]

\* An upload past its await, or a manual verification, holds the event loop.
LoopFree ==
  /\ save[EventLoop].stage = "idle"
  /\ \A s \in Scans : upload[s] \notin {"saved", "marked", "failing"}

DbError == dbErrors < MaxDbErrors /\ dbErrors' = dbErrors + 1
NoDbError == UNCHANGED dbErrors

Init ==
  /\ scans = [s \in Scans |-> "ABSENT"]
  /\ findings = [s \in Scans |-> <<>>]
  /\ verified = [s \in Scans |-> EmptyBucket]
  /\ upload = [s \in Scans |-> "none"]
  /\ claimed = {}
  /\ progress = [s \in Scans |-> NoProgress]
  /\ pc = [w \in Workers |-> "unborn"]
  /\ todo = [w \in Workers |-> {}]
  /\ total = [w \in Workers |-> 0]
  /\ completed = [w \in Workers |-> 0]
  /\ counts = [w \in Workers |-> NoCounts]
  /\ errors = [w \in Workers |-> {}]
  /\ save = [a \in Savers |-> NoCall]
  /\ acked = [s \in Scans |-> EmptyBucket]
  /\ raced = [s \in Scans |-> FALSE]
  /\ doubled = {}
  /\ manuals = 0 /\ dbErrors = 0 /\ crashes = 0

-----------------------------------------------------------------------------
(* The upload handler. *)

\* upload_scan up to its await: the row is written, then file.read yields.
\* (A refused scanner or extension, and a failing insert, change nothing.)
CreateScan(s) ==
  /\ LoopFree
  /\ upload[s] = "none"
  /\ scans' = [scans EXCEPT ![s] = "UPLOADED"]
  /\ upload' = [upload EXCEPT ![s] = "reading"]
  /\ UNCHANGED <<findings, verified, claimed, progress, workerVars, save,
                 historyVars, budgetVars>>

\* The file has been read and parsed; save_normalized_findings.
SaveNormalized(s) ==
  /\ LoopFree
  /\ upload[s] = "reading"
  /\ \E r \in Reports : findings' = [findings EXCEPT ![s] = r]
  /\ upload' = [upload EXCEPT ![s] = "saved"]
  /\ UNCHANGED <<scans, verified, claimed, progress, workerVars, save,
                 historyVars, budgetVars>>

\* Reading or parsing raises, or the insert fails and is rolled back.
NormalizeFails(s) ==
  /\ LoopFree
  /\ upload[s] = "reading"
  /\ upload' = [upload EXCEPT ![s] = "failing"]
  /\ UNCHANGED <<dbVars, claimed, progress, workerVars, save, historyVars,
                 budgetVars>>

\* update_scan_status(NORMALIZED); when it raises the except branch is next.
MarkNormalized(s) ==
  /\ upload[s] = "saved"
  /\ \/ /\ scans' = [scans EXCEPT ![s] = "NORMALIZED"]
        /\ upload' = [upload EXCEPT ![s] = "marked"]
        /\ NoDbError
     \/ /\ DbError
        /\ upload' = [upload EXCEPT ![s] = "failing"]
        /\ UNCHANGED scans
  /\ UNCHANGED <<findings, verified, claimed, progress, workerVars, save,
                 historyVars, manuals, crashes>>

\* Variant: the row gets a status outside the enumeration.
MarkFailedAsError(s) ==
  /\ upload[s] = "failing"
  /\ scans' = [scans EXCEPT ![s] = "ERROR"]
  /\ upload' = [upload EXCEPT ![s] = "done"]
  /\ UNCHANGED <<findings, verified, claimed, progress, workerVars, save,
                 historyVars, budgetVars>>

\* The except branch: update_scan_status(FAILED), which may itself raise and
\* then leaves the row as it was.
MarkFailed(s) ==
  /\ upload[s] = "failing"
  /\ \/ scans' = [scans EXCEPT ![s] = "FAILED"] /\ NoDbError
     \/ DbError /\ UNCHANGED scans
  /\ upload' = [upload EXCEPT ![s] = "done"]
  /\ UNCHANGED <<findings, verified, claimed, progress, workerVars, save,
                 historyVars, manuals, crashes>>

\* Variant: a thread that cannot start lands in the except branch above.
DispatchMayFail(s) ==
  /\ upload[s] = "marked"
  /\ \/ /\ upload' = [upload EXCEPT ![s] = "done"]
        /\ pc' = [pc EXCEPT ![<<s, 1>>] = "start"]
     \/ upload' = [upload EXCEPT ![s] = "failing"] /\ UNCHANGED pc
  /\ UNCHANGED <<dbVars, claimed, progress, todo, total, completed, counts,
                 errors, save, historyVars, budgetVars>>

\* threading.Thread(target=run_auto_verification).start(), then the response.
Dispatch(s) ==
  /\ upload[s] = "marked"
  /\ upload' = [upload EXCEPT ![s] = "done"]
  /\ pc' = [pc EXCEPT ![<<s, 1>>] = "start"]
  /\ UNCHANGED <<dbVars, claimed, progress, todo, total, completed, counts,
                 errors, save, historyVars, budgetVars>>

\* A second call of run_auto_verification for a scan already dispatched: the
\* accidental double dispatch try_claim_scan_for_auto_verification is for.
Redispatch(s, k) ==
  /\ k > 1
  /\ pc[<<s, 1>>] # "unborn"
  /\ pc[<<s, k>>] = "unborn"
  /\ pc' = [pc EXCEPT ![<<s, k>>] = "start"]
  /\ UNCHANGED <<dbVars, upload, claimed, progress, todo, total, completed,
                 counts, errors, save, historyVars, budgetVars>>

-----------------------------------------------------------------------------
(* save_verified_finding: the bucket of the whole scan is read in one      *)
(* transaction, merged with one verdict, and written back in another.      *)

BeginSave(a, s, i, v) ==
  save' = [save EXCEPT ![a] = [stage |-> "read", scan |-> s, idx |-> i,
                               verdict |-> v, bucket |-> EmptyBucket]]

ReadBucket(a) ==
  /\ save[a].stage = "read"
  /\ save' = [save EXCEPT ![a].stage = "write",
                          ![a].bucket = verified[save[a].scan]]
  /\ UNCHANGED <<dbVars, upload, claimed, progress, workerVars, historyVars,
                 budgetVars>>

\* Another call has read the bucket of scan s and not written it back yet.
Overlaps(a, s) ==
  \E b \in Savers \ {a} : save[b].stage = "write" /\ save[b].scan = s

\* Variant: the bucket is replaced by the one verdict, not merged with it.
WriteOneVerdict(a) ==
  LET s == save[a].scan  i == save[a].idx  v == save[a].verdict IN
  /\ save[a].stage = "write"
  /\ verified' = [verified EXCEPT ![s] = [EmptyBucket EXCEPT ![i] = v]]
  /\ acked' = [acked EXCEPT ![s] = [acked[s] EXCEPT ![i] = v]]
  /\ raced' = [raced EXCEPT ![s] = raced[s] \/ Overlaps(a, s)]
  /\ save' = [save EXCEPT ![a].stage = "ok", ![a].bucket = EmptyBucket]
  /\ UNCHANGED <<scans, findings, upload, claimed, progress, workerVars,
                 doubled, budgetVars>>

\* VerifiedFindingsStore.__setitem__: delete the scan's rows and insert the
\* merged bucket, in one transaction.
WriteBucket(a) ==
  LET s == save[a].scan  i == save[a].idx  v == save[a].verdict IN
  /\ save[a].stage = "write"
  /\ verified' = [verified EXCEPT ![s] = [save[a].bucket EXCEPT ![i] = v]]
  /\ acked' = [acked EXCEPT ![s] = [acked[s] EXCEPT ![i] = v]]
  /\ raced' = [raced EXCEPT ![s] = raced[s] \/ Overlaps(a, s)]
  /\ save' = [save EXCEPT ![a].stage = "ok", ![a].bucket = EmptyBucket]
  /\ UNCHANGED <<scans, findings, upload, claimed, progress, workerVars,
                 doubled, budgetVars>>

\* Either transaction raises (the database stayed locked, the disk is full).
SaveFails(a) ==
  /\ save[a].stage \in {"read", "write"}
  /\ DbError
  /\ save' = [save EXCEPT ![a].stage = "failed", ![a].bucket = EmptyBucket]
  /\ UNCHANGED <<dbVars, upload, claimed, progress, workerVars, historyVars,
                 manuals, crashes>>

-----------------------------------------------------------------------------
(* The manual verification endpoint. *)

\* verify_finding: the finding exists and the trigger fits its category (else
\* 404 or 400 and nothing changes); the replays block the loop and yield a
\* verdict, or raise, which also changes nothing.
StartVerify(s, i, v) ==
  /\ LoopFree
  /\ manuals < MaxManual
  /\ scans[s] # "ABSENT"
  /\ IsSupported(s, i)
  /\ BeginSave(EventLoop, s, i, v)
  /\ manuals' = manuals + 1
  /\ UNCHANGED <<dbVars, upload, claimed, progress, workerVars, historyVars,
                 dbErrors, crashes>>

\* The response, or the 500 of a failed save.
RespondVerify ==
  /\ save[EventLoop].stage \in {"ok", "failed"}
  /\ save' = [save EXCEPT ![EventLoop] = NoCall]
  /\ UNCHANGED <<dbVars, upload, claimed, progress, workerVars, historyVars,
                 budgetVars>>

-----------------------------------------------------------------------------
(* run_auto_verification. *)

\* try_claim_scan_for_auto_verification tests whether the scan is claimed ...
CheckClaim(w) ==
  /\ pc[w] = "start"
  /\ w[1] \notin claimed
  /\ pc' = [pc EXCEPT ![w] = "claiming"]
  /\ doubled' = IF \E x \in Workers \ {w} : x[1] = w[1] /\ pc[x] = "claiming"
                THEN doubled \cup {w[1]} ELSE doubled
  /\ UNCHANGED <<dbVars, upload, claimed, progress, todo, total, completed,
                 counts, errors, save, acked, raced, budgetVars>>

\* Variant: the scan id is tested but never added.
ClaimWithoutAdding(w) ==
  /\ pc[w] = "claiming"
  /\ pc' = [pc EXCEPT ![w] = "snapshot"]
  /\ UNCHANGED <<dbVars, upload, claimed, progress, todo, total, completed,
                 counts, errors, save, historyVars, budgetVars>>

\* ... and then adds it, without a lock: another thread may run in between.
Claim(w) ==
  /\ pc[w] = "claiming"
  /\ claimed' = claimed \cup {w[1]}
  /\ pc' = [pc EXCEPT ![w] = "snapshot"]
  /\ UNCHANGED <<dbVars, upload, progress, todo, total, completed, counts,
                 errors, save, historyVars, budgetVars>>

AlreadyClaimed(w) ==
  /\ pc[w] = "start"
  /\ w[1] \in claimed
  /\ pc' = [pc EXCEPT ![w] = "done"]
  /\ UNCHANGED <<dbVars, upload, claimed, progress, todo, total, completed,
                 counts, errors, save, historyVars, budgetVars>>

\* dict(progress) is a shallow copy: status, total, completed and current are
\* copied, counts and errors stay the thread's own objects, which a poll reads
\* through "by".
Publish(w, status, current, done) ==
  progress' = [progress EXCEPT ![w[1]] =
    [status |-> status, total |-> total'[w], completed |-> done,
     current |-> current, by |-> w[2]]]

\* The stored findings, and the findings already verified, are read once.
Snapshot(w) ==
  LET queue == Candidates(w[1]) IN
  /\ pc[w] = "snapshot"
  /\ todo' = [todo EXCEPT ![w] = queue]
  /\ total' = [total EXCEPT ![w] = Cardinality(queue)]
  /\ Publish(w, IF queue = {} THEN "COMPLETED" ELSE "RUNNING", 0, 0)
  /\ pc' = [pc EXCEPT ![w] = IF queue = {} THEN "done" ELSE "loop"]
  /\ UNCHANGED <<dbVars, upload, claimed, completed, counts, errors, save,
                 historyVars, budgetVars>>

\* These reads are outside the try: an error ends the thread.
SnapshotFails(w) ==
  /\ pc[w] = "snapshot"
  /\ DbError
  /\ pc' = [pc EXCEPT ![w] = "dead"]
  /\ UNCHANGED <<dbVars, upload, claimed, progress, todo, total, completed,
                 counts, errors, save, historyVars, manuals, crashes>>

\* Variant: the run is said to be over as soon as its last finding is in hand.
PickNextAsLast(w, i) ==
  /\ pc[w] = "loop"
  /\ IsNext(w, i)
  /\ UNCHANGED total
  /\ Publish(w, IF todo[w] = {i} THEN "COMPLETED" ELSE "RUNNING", i, completed[w])
  /\ pc' = [pc EXCEPT ![w] = "replay"]
  /\ UNCHANGED <<dbVars, upload, claimed, todo, completed, counts, errors,
                 save, historyVars, budgetVars>>

PickNext(w, i) ==
  /\ pc[w] = "loop"
  /\ IsNext(w, i)
  /\ UNCHANGED total
  /\ Publish(w, "RUNNING", i, completed[w])
  /\ pc' = [pc EXCEPT ![w] = "replay"]
  /\ UNCHANGED <<dbVars, upload, claimed, todo, completed, counts, errors,
                 save, historyVars, budgetVars>>

\* The replays end in a classification, which is then saved.
ReplayVerdict(w, i, v) ==
  /\ pc[w] = "replay"
  /\ IsNext(w, i)
  /\ BeginSave(w, w[1], i, v)
  /\ pc' = [pc EXCEPT ![w] = "saving"]
  /\ UNCHANGED <<dbVars, upload, claimed, progress, todo, total, completed,
                 counts, errors, historyVars, budgetVars>>

\* Variant: a failed replay is skipped and listed nowhere.
ReplayFailsSilently(w, i) ==
  /\ pc[w] = "replay"
  /\ IsNext(w, i)
  /\ pc' = [pc EXCEPT ![w] = "publish"]
  /\ UNCHANGED <<dbVars, upload, claimed, progress, todo, total, completed,
                 counts, errors, save, historyVars, budgetVars>>

\* The replays or the classifier raise: the finding is listed in errors.
ReplayFails(w, i) ==
  /\ pc[w] = "replay"
  /\ IsNext(w, i)
  /\ errors' = [errors EXCEPT ![w] = @ \cup {i}]
  /\ pc' = [pc EXCEPT ![w] = "publish"]
  /\ UNCHANGED <<dbVars, upload, claimed, progress, todo, total, completed,
                 counts, save, historyVars, budgetVars>>

\* progress["counts"][status] += 1, visible to polls at once.
CountVerdict(w) ==
  /\ pc[w] = "saving"
  /\ save[w].stage = "ok"
  /\ counts' = [counts EXCEPT ![w] =
                  [counts[w] EXCEPT ![save[w].verdict] = @ + 1]]
  /\ save' = [save EXCEPT ![w] = NoCall]
  /\ pc' = [pc EXCEPT ![w] = "publish"]
  /\ UNCHANGED <<dbVars, upload, claimed, progress, todo, total, completed,
                 errors, historyVars, budgetVars>>

\* Variant: a failed save is not listed in errors.
ForgetError(w) ==
  /\ pc[w] = "saving"
  /\ save[w].stage = "failed"
  /\ save' = [save EXCEPT ![w] = NoCall]
  /\ pc' = [pc EXCEPT ![w] = "publish"]
  /\ UNCHANGED <<dbVars, upload, claimed, progress, todo, total, completed,
                 counts, errors, historyVars, budgetVars>>

RecordError(w) ==
  /\ pc[w] = "saving"
  /\ save[w].stage = "failed"
  /\ errors' = [errors EXCEPT ![w] = @ \cup {save[w].idx}]
  /\ save' = [save EXCEPT ![w] = NoCall]
  /\ pc' = [pc EXCEPT ![w] = "publish"]
  /\ UNCHANGED <<dbVars, upload, claimed, progress, todo, total, completed,
                 counts, historyVars, budgetVars>>

\* progress["completed"] += 1, and the new copy is published.
PublishOne(w, i) ==
  /\ pc[w] = "publish"
  /\ IsNext(w, i)
  /\ todo' = [todo EXCEPT ![w] = @ \ {i}]
  /\ completed' = [completed EXCEPT ![w] = @ + 1]
  /\ UNCHANGED total
  /\ Publish(w, "RUNNING", i, completed[w] + 1)
  /\ pc' = [pc EXCEPT ![w] = "loop"]
  /\ UNCHANGED <<dbVars, upload, claimed, counts, errors, save, historyVars,
                 budgetVars>>

Finish(w) ==
  /\ pc[w] = "loop"
  /\ todo[w] = {}
  /\ UNCHANGED total
  /\ Publish(w, "COMPLETED", 0, completed[w])
  /\ pc' = [pc EXCEPT ![w] = "done"]
  /\ UNCHANGED <<dbVars, upload, claimed, todo, completed, counts, errors,
                 save, historyVars, budgetVars>>

-----------------------------------------------------------------------------
\* The process is killed and started again: the tables stay, everything else
\* is gone, and no run is resumed (repository.py starts with empty registries).
Crash ==
  /\ crashes < MaxCrashes
  /\ crashes' = crashes + 1
  /\ upload' = [s \in Scans |-> IF upload[s] = "none" THEN "none" ELSE "done"]
  /\ claimed' = {}
  /\ progress' = [s \in Scans |-> NoProgress]
  /\ pc' = [w \in Workers |-> "unborn"]
  /\ todo' = [w \in Workers |-> {}]
  /\ total' = [w \in Workers |-> 0]
  /\ completed' = [w \in Workers |-> 0]
  /\ counts' = [w \in Workers |-> NoCounts]
  /\ errors' = [w \in Workers |-> {}]
  /\ save' = [a \in Savers |-> NoCall]
  /\ UNCHANGED <<dbVars, historyVars, manuals, dbErrors>>

WorkerStep(w) ==
  \/ CheckClaim(w) \/ Claim(w) \/ AlreadyClaimed(w)
  \/ Snapshot(w) \/ SnapshotFails(w)
  \/ \E i \in Idx : PickNext(w, i)
  \/ \E i \in Idx, v \in Verdicts : ReplayVerdict(w, i, v)
  \/ \E i \in Idx : ReplayFails(w, i)
  \/ CountVerdict(w) \/ RecordError(w)
  \/ \E i \in Idx : PublishOne(w, i)
  \/ Finish(w)

SaveStep(a) == ReadBucket(a) \/ WriteBucket(a) \/ SaveFails(a)

UploadStep(s) ==
  \/ SaveNormalized(s) \/ NormalizeFails(s)
  \/ MarkNormalized(s) \/ MarkFailed(s) \/ Dispatch(s)

Next ==
  \/ \E s \in Scans : CreateScan(s) \/ UploadStep(s)
  \/ \E s \in Scans, k \in 1..Dispatches : Redispatch(s, k)
  \/ \E s \in Scans, i \in Idx, v \in Verdicts : StartVerify(s, i, v)
  \/ RespondVerify
  \/ \E a \in Savers : SaveStep(a)
  \/ \E w \in Workers : WorkerStep(w)
  \/ Crash

Spec == Init /\ [][Next]_vars

\* The scheduler runs every thread that can run, the event loop resumes every
\* coroutine that is ready, and a replay ends (httpx has a timeout).  Nothing
\* obliges a user to upload or verify, SQLite to fail or the process to crash.
Fairness ==
  /\ \A s \in Scans : WF_vars(UploadStep(s))
  /\ WF_vars(RespondVerify)
  /\ \A a \in Savers : WF_vars(SaveStep(a))
  /\ \A w \in Workers : WF_vars(WorkerStep(w))

FairSpec == Spec /\ Fairness

-----------------------------------------------------------------------------
(* Properties. *)

SaveStages == {"idle", "read", "write", "ok", "failed"}
RunSteps == {"snapshot", "loop", "replay", "saving", "publish"}
SaveCalls == [stage : SaveStages, scan : Scans \cup {NoScan},
              idx : Idx \cup {0}, verdict : Verdicts \cup {Unverified},
              bucket : Buckets]
ProgressViews == [status : {"NOT_STARTED", "RUNNING", "COMPLETED"},
                  total : Nat, completed : Nat, current : Idx \cup {0},
                  by : 0..Dispatches]

\* Every variable holds values of its kind.
TypeOK ==
  /\ scans \in [Scans -> {"ABSENT", "UPLOADED", "NORMALIZED", "FAILED"}]
  /\ findings \in [Scans -> Reports \cup {<<>>}]
  /\ verified \in [Scans -> Buckets]
  /\ upload \in [Scans -> {"none", "reading", "saved", "marked", "failing",
                           "done"}]
  /\ claimed \subseteq Scans
  /\ progress \in [Scans -> ProgressViews]
  /\ pc \in [Workers -> RunSteps \cup {"unborn", "start", "claiming", "done",
                                     "dead"}]
  /\ todo \in [Workers -> SUBSET Idx]
  /\ total \in [Workers -> Nat]
  /\ completed \in [Workers -> Nat]
  /\ counts \in [Workers -> [Verdicts -> Nat]]
  /\ errors \in [Workers -> SUBSET Idx]
  /\ save \in [Savers -> SaveCalls]
  /\ acked \in [Scans -> Buckets]
  /\ raced \in [Scans -> BOOLEAN]
  /\ doubled \subseteq Scans
  /\ manuals \in Nat /\ dbErrors \in Nat /\ crashes \in Nat

\* A verdict is only ever stored under a finding of that same scan, of a
\* category some verifier supports: the bucket a saver writes back never
\* carries a row over from another scan.
VerdictsBelongToScan ==
  \A s \in Scans, i \in Idx :
    verified[s][i] # Unverified => IsSupported(s, i)

\* As long as no two saves on a scan have overlapped, every verdict a save has
\* returned is the verdict that is stored: crashes and failing transactions
\* alone lose nothing, and no save brings an older verdict back.
NoLossWithoutOverlap ==
  \A s \in Scans : ~raced[s] => verified[s] = acked[s]

\* "Commits on success": whatever a save has acknowledged is what is stored.
\* True when only the automatic run writes; the manual endpoint breaks it.
NoAcknowledgedVerdictLost ==
  \A s \in Scans : verified[s] = acked[s]

\* "Any finding that already has a stored verified result -- e.g. because the
\* user manually verified it while automatic verification was still running for
\* other findings -- is skipped, never re-verified" (run_auto_verification).
\* What is verified is read once, before the first finding: it is verified again.
NeverReverified ==
  [][\A w \in Workers, i \in Idx : PickNext(w, i) =>
        verified[w[1]][i] = Unverified]_vars

HasRun(w) ==
  pc[w] \in RunSteps \/ (pc[w] = "done" /\ progress[w[1]].by = w[2])

\* "Atomically claim a scan": not quite, for two calls may both test before either
\* adds.  That is the only way past the claim: however often a scan is dispatched
\* and wherever its run is, failed or over, a call that does not test while
\* another is about to add is refused.
OneRunUnlessDoubled ==
  \A w1, w2 \in Workers :
    HasRun(w1) /\ HasRun(w2) /\ w1[1] = w2[1] /\ w1[1] \notin doubled => w1 = w2

\* A poll during a run sees verdicts and errors one finding ahead of
\* "completed" at most (counts and errors are shared with the thread, the rest
\* of the published copy is not), never behind it.
PollSkewIsOne ==
  \A s \in Scans : progress[s].status # "NOT_STARTED" =>
    LET w == <<s, progress[s].by>>
        settled == Counted(w) + Cardinality(errors[w]) IN
    /\ progress[s].completed <= settled
    /\ settled <= progress[s].completed + 1
    /\ settled <= progress[s].total

\* A run reported COMPLETED has accounted for its whole queue, and every
\* supported finding of the scan got a verdict from someone or is in errors.
CompletedAccountsForAll ==
  \A s \in Scans : progress[s].status = "COMPLETED" =>
    LET w == <<s, progress[s].by>> IN
    /\ progress[s].completed = progress[s].total
    /\ Counted(w) + Cardinality(errors[w]) = progress[s].total
    /\ \A i \in Idx : IsSupported(s, i) =>
         acked[s][i] # Unverified \/ i \in errors[w]

\* What a poll is told and what the run did never drift apart: one finding at
\* most while it goes on, nothing when it is COMPLETED.
ProgressAccountsForAll == PollSkewIsOne /\ CompletedAccountsForAll

\* Every run ends: it completes, dies on its first reads, or is killed.
EveryRunEnds ==
  \A w \in Workers :
    pc[w] = "start" ~> pc[w] \in {"done", "dead", "unborn"}

\* Without crashes and failing transactions, every supported finding of a
\* NORMALIZED scan eventually has a verdict or is listed among a run's errors.
EveryFindingSettles ==
  \A s \in Scans, i \in Idx :
    scans[s] = "NORMALIZED" /\ IsSupported(s, i)
      ~> \/ acked[s][i] # Unverified
         \/ \E w \in Workers : w[1] = s /\ i \in errors[w]
         \/ dbErrors > 0 \/ crashes > 0

\* No run goes on for ever, and none ends leaving a finding without an outcome.
EveryRunSettles == EveryRunEnds /\ EveryFindingSettles

\* The ledger a client sees: the report counts once the scan is NORMALIZED.
Ledger == INSTANCE VerdictLedger WITH
  status <- scans,
  report <- [s \in Scans |->
               IF scans[s] = "NORMALIZED" THEN findings[s] ELSE <<>>],
  verdicts <- verified

\* The backend, when only automatic runs verify, implements the ledger for as long
\* as no two calls have been about to claim one scan (upload_scan makes one call
\* per scan): no transaction, crash or failing write shows through.
ImplementsLedger ==
  Ledger!Init /\ [][Ledger!Next \/ doubled' # {}]_(Ledger!ledgerVars)

\* What a page hears of the run of a scan, once the upload has been answered.
\* A thread that has yet to claim the scan, or to read it, is the only promise
\* of a run; the registry alone would not tell it from a lost one.
Promised(s) ==
  \E w \in Workers :
    /\ w[1] = s
    /\ \/ pc[w] \in {"claiming", "snapshot"}
       \/ pc[w] = "start" /\ s \notin claimed

Heard(s) ==
  IF upload[s] # "done" THEN "absent"
  ELSE IF progress[s].status # "NOT_STARTED" THEN progress[s].status
  ELSE IF Promised(s) THEN "NOT_STARTED" ELSE "LOST"

RunsHeard == [s \in Scans |-> Heard(s)]
WithVerdict == [s \in Scans |-> {i \in Idx : verified[s][i] # Unverified}]
InHand ==
  IF save[EventLoop].stage = "idle" THEN {}
  ELSE {<<save[EventLoop].scan, save[EventLoop].idx>>}

Runs == INSTANCE RunLedger WITH
  Findings <- Idx, run <- RunsHeard, saved <- WithVerdict, asked <- InHand,
  disturbed <- raced

\* The backend, manual verifications included, implements what a page relies
\* on: verdicts appear while a run is told to go on, or are asked for; a run
\* told to be COMPLETED stores none, and none vanishes but where the run and a
\* verification saved at once.
ImplementsRuns == Runs!Spec
=============================================================================
