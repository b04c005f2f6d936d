------------------------- MODULE ScanReportsProofs -------------------------
(***************************************************************************)
(* Theorems about ScanReports.  The handlers add no behaviour to the       *)
(* backend, so that what ScanVerificationProofs proves holds beside them;  *)
(* what they answer rests on that and on the event loop they hold.         *)
(***************************************************************************)
EXTENDS ScanReports, ScanVerificationProofs

-----------------------------------------------------------------------------
(* The backend underneath is that of ScanVerification. *)

\* A step of a handler does not touch the backend.
LEMMA HandlerLeavesBackend ==
  ASSUME NEW c \in Clients, HandlerStep(c)
  PROVE  UNCHANGED vars
BY DEF HandlerStep, AskReport, AskPairs, AskMetrics, SubmitLabels, Begin,
   ReadRows, ReadVerdicts, ReadLabels, ReadVerdictOf, MatrixDone, CheckLabels,
   ReadHeld, StoreLabels, Answered, HandlerFails

\* Every step is one of the backend or leaves it alone.
LEMMA BackendStep ==
  ASSUME [ReportsNext]_allVars
  PROVE  [Next]_vars
<1>1. CASE \E c \in Clients : HandlerStep(c)
  BY <1>1, HandlerLeavesBackend
<1>2. CASE LoopStep
  <2>1. EventLoop \in Savers
    BY DEF Savers
  <2> QED BY <1>2, <2>1 DEF LoopStep, Next
<1>3. CASE ThreadStep
  <2>1. \A w \in Workers : w \in Savers
    BY DEF Savers
  <2> QED BY <1>3, <2>1 DEF ThreadStep, Next
<1>4. CASE Restart
  BY <1>4 DEF Restart, Next
<1>5. CASE UNCHANGED allVars
  BY <1>5 DEF allVars
<1> QED BY <1>1, <1>2, <1>3, <1>4, <1>5 DEF ReportsNext

\* Whatever clients ask for, the backend behaves as ScanVerification: its four
\* theorems hold of every behaviour with handlers.
THEOREM HandlersOnlyRead == ReportsSpec => Spec
<1>1. ReportsInit => Init
  BY DEF ReportsInit
<1> QED BY <1>1, BackendStep, PTL DEF ReportsSpec, Spec

-----------------------------------------------------------------------------
(* Type correctness, and the event loop a handler holds. *)

\* The handler that starts, and the empty one, are well typed.
LEMMA JobTypes ==
  /\ NoJob \in Jobs
  /\ NothingLabelled \in Labels
  /\ \A kind \in Kinds, step \in Steps, s \in Scans, b \in Labels :
       [NoJob EXCEPT !.kind = kind, !.step = step, !.scan = s, !.batch = b]
         \in Jobs
<1>1. NothingLabelled \in Labels
  BY DEF NothingLabelled, Labels
<1> QED BY <1>1, EmptyBucketType DEF NoJob, Jobs, Kinds, Steps

\* A handler under way is about a scan.
JobsAimed == \A c \in Clients : job[c].kind # "none" => job[c].scan \in Scans

\* A step belongs to a handler, and those of a submission to a submission.
Submitting == {"check", "merge", "store"}
StepFits(j) == /\ j.step # "idle" => j.kind # "none"
               /\ j.step \in Submitting => j.kind = "label"
StepsFit == \A c \in Clients : StepFits(job[c])

JobInv == ReaderTypeOK /\ JobsAimed /\ StepsFit

\* What a step of one handler has to show: it keeps its own job well typed.
LEMMA OneJobStep ==
  ASSUME JobInv, NEW c \in Clients, NEW j \in Jobs,
         job' = [job EXCEPT ![c] = j], UNCHANGED vars,
         labels' \in [Scans -> Labels], asked' \in Nat,
         j.kind # "none" => /\ j.scan \in Scans
                            /\ LoopFree
                            /\ \A d \in Clients \ {c} : job[d].kind = "none",
         StepFits(j)
  PROVE  JobInv'
<1>1. job' \in [Clients -> Jobs]
  BY DEF JobInv, ReaderTypeOK
<1>2. LoopFree' <=> LoopFree
  BY DEF vars, LoopFree
<1>3. /\ job'[c] = j
      /\ \A d \in Clients \ {c} : job'[d] = job[d]
  BY DEF JobInv, ReaderTypeOK
<1>4. \A d \in Clients : job'[d].kind # "none" =>
        LoopFree' /\ \A e \in Clients \ {d} : job'[e].kind = "none"
  BY <1>2, <1>3 DEF JobInv, ReaderTypeOK
<1>5. ReaderTypeOK'
  BY <1>1, <1>4 DEF ReaderTypeOK
<1>6. JobsAimed' /\ StepsFit'
  BY <1>3 DEF JobInv, JobsAimed, StepsFit, StepFits, Submitting
<1> QED BY <1>5, <1>6 DEF JobInv

\* The steps of a handler keep its invariant.
LEMMA HandlerKeepsJob ==
  ASSUME TypeOK, JobInv, NEW c \in Clients, HandlerStep(c)
  PROVE  JobInv'
<1>0. /\ UNCHANGED vars
      /\ job[c] \in Jobs /\ labels \in [Scans -> Labels] /\ asked \in Nat
      /\ job \in [Clients -> Jobs]
      /\ findings \in [Scans -> Reports \cup {<<>>}]
      /\ verified \in [Scans -> Buckets]
  BY HandlerLeavesBackend DEF JobInv, ReaderTypeOK, TypeOK
<1>1. job[c].step # "idle" =>
        /\ job[c].scan \in Scans /\ job[c].kind # "none"
        /\ LoopFree /\ \A d \in Clients \ {c} : job[d].kind = "none"
  BY DEF JobInv, ReaderTypeOK, JobsAimed, StepsFit, StepFits, Submitting
<1>2. ASSUME NEW s \in Scans, NEW kind \in Kinds \ {"none"},
             NEW step \in Steps, NEW b \in Labels, Begin(c, s, kind, step, b),
             step \in Submitting => kind = "label"
      PROVE  JobInv'
  <2> DEFINE j == [NoJob EXCEPT !.kind = kind, !.step = step, !.scan = s,
                                !.batch = b]
  <2>1. j \in Jobs
    BY JobTypes
  <2>2. j.scan = s /\ j.kind = kind /\ StepFits(j)
    BY <1>2 DEF NoJob, StepFits
  <2>3. /\ job' = [job EXCEPT ![c] = j]
        /\ UNCHANGED labels
        /\ asked' = asked + 1
        /\ LoopFree /\ NoHandler
    BY <1>2 DEF Begin
  <2> HIDE DEF j
  <2>4. \A d \in Clients : job[d].kind = "none"
    BY <2>3 DEF NoHandler
  <2>5. asked' \in Nat /\ labels' \in [Scans -> Labels]
    BY <1>0, <2>3
  <2> QED BY <1>0, <2>1, <2>2, <2>3, <2>4, <2>5, OneJobStep
<1>3. ASSUME NEW j \in Jobs, job' = [job EXCEPT ![c] = j],
             labels' \in [Scans -> Labels], UNCHANGED asked,
             job[c].step # "idle", j.kind = job[c].kind, j.scan = job[c].scan,
             j.step \in Submitting => job[c].step \in Submitting
      PROVE  JobInv'
  <2>1. StepFits(j)
    BY <1>1, <1>3 DEF JobInv, StepsFit, StepFits, Submitting
  <2> QED BY <1>0, <1>1, <1>3, <2>1, OneJobStep
<1>4. ASSUME job' = [job EXCEPT ![c] = NoJob], UNCHANGED <<labels, asked>>
      PROVE  JobInv'
  <2>1. NoJob.kind = "none" /\ StepFits(NoJob)
    BY DEF NoJob, StepFits, Submitting
  <2> QED BY <1>0, <1>4, <2>1, JobTypes, OneJobStep
<1>5. ASSUME NEW s \in Scans,
             \/ AskReport(c, s) \/ AskPairs(c, s) \/ AskMetrics(c, s)
             \/ \E b \in Batches : SubmitLabels(c, s, b)
      PROVE  JobInv'
  <2>1. \A b \in Batches : b \in Labels
    BY ReportConstantsAssumption
  <2> QED
    BY <1>2, <1>5, <2>1, JobTypes
    DEF AskReport, AskPairs, AskMetrics, SubmitLabels, Kinds, Steps, Submitting
<1>6. CASE ReadRows(c)
  <2> DEFINE j == [job[c] EXCEPT !.rows = findings[job[c].scan],
                                 !.step = "verdicts"]
  <2>1. job' = [job EXCEPT ![c] = j] /\ job[c].step # "idle"
    BY <1>0, <1>6 DEF ReadRows
  <2>2. j \in Jobs /\ j.kind = job[c].kind /\ j.scan = job[c].scan
    BY <1>0, <1>1, <2>1 DEF Jobs, Steps
  <2>3. j.step \in Submitting => job[c].step \in Submitting
    BY <1>0, <1>6, <2>1 DEF ReadRows, Jobs, Submitting
  <2> QED BY <1>0, <1>3, <1>6, <2>1, <2>2, <2>3 DEF ReadRows
<1>7. CASE ReadVerdicts(c)
  <2> DEFINE j == [job[c] EXCEPT
                     !.shown = verified[job[c].scan],
                     !.step = IF job[c].kind = "report" THEN "labels"
                                                        ELSE "ready"]
  <2>1. job' = [job EXCEPT ![c] = j] /\ job[c].step # "idle"
    BY <1>0, <1>7 DEF ReadVerdicts
  <2>2. j \in Jobs /\ j.kind = job[c].kind /\ j.scan = job[c].scan
    BY <1>0, <1>1, <2>1 DEF Jobs, Steps
  <2>3. j.step \in Submitting => job[c].step \in Submitting
    BY <1>0, <1>7, <2>1 DEF ReadVerdicts, Jobs, Submitting
  <2> QED BY <1>0, <1>3, <1>7, <2>1, <2>2, <2>3 DEF ReadVerdicts
<1>8. CASE ReadLabels(c)
  <2> DEFINE h == labels[job[c].scan]
             j == [job[c] EXCEPT !.held = h, !.left = LabelledIn(h),
                                 !.step = "matrix"]
  <2>1. job' = [job EXCEPT ![c] = j] /\ job[c].step # "idle"
    BY <1>0, <1>8 DEF ReadLabels
  <2>2. j \in Jobs /\ j.kind = job[c].kind /\ j.scan = job[c].scan
    BY <1>0, <1>1, <2>1 DEF Jobs, Steps, LabelledIn
  <2>3. j.step \in Submitting => job[c].step \in Submitting
    BY <1>0, <1>8, <2>1 DEF ReadLabels, Jobs, Submitting
  <2> QED BY <1>0, <1>3, <1>8, <2>1, <2>2, <2>3 DEF ReadLabels
<1>9. ASSUME NEW i \in Idx, ReadVerdictOf(c, i) PROVE JobInv'
  <2> DEFINE v == verified[job[c].scan][i]
             j == [job[c] EXCEPT !.found = [@ EXCEPT ![i] = v],
                                 !.left = @ \ {i}]
  <2>1. job' = [job EXCEPT ![c] = j] /\ job[c].step # "idle"
    BY <1>0, <1>9 DEF ReadVerdictOf
  <2>2. v \in Verdicts \cup {Unverified}
    BY <1>0, <1>1, <2>1 DEF Buckets
  <2>3. [job[c].found EXCEPT ![i] = v] \in Buckets
    BY <1>0, <2>2 DEF Jobs, Buckets
  <2>4. j \in Jobs /\ j.kind = job[c].kind /\ j.scan = job[c].scan
    BY <1>0, <2>3 DEF Jobs
  <2>5. j.step \in Submitting => job[c].step \in Submitting
    BY <1>0, <1>9, <2>1 DEF ReadVerdictOf, Jobs, Submitting
  <2> QED BY <1>0, <1>3, <1>9, <2>1, <2>4, <2>5 DEF ReadVerdictOf
<1>10. CASE MatrixDone(c)
  <2> DEFINE j == [job[c] EXCEPT !.step = "ready"]
  <2>1. job' = [job EXCEPT ![c] = j] /\ job[c].step # "idle"
    BY <1>0, <1>10 DEF MatrixDone
  <2>2. j \in Jobs /\ j.kind = job[c].kind /\ j.scan = job[c].scan
    BY <1>0 DEF Jobs, Steps
  <2>3. j.step \in Submitting => job[c].step \in Submitting
    BY <1>0, <1>10, <2>1 DEF MatrixDone, Jobs, Submitting
  <2> QED BY <1>0, <1>3, <1>10, <2>1, <2>2, <2>3 DEF MatrixDone
<1>11. CASE CheckLabels(c)
  <2> DEFINE j == [job[c] EXCEPT !.step = "merge"]
  <2>1. /\ job' = [job EXCEPT ![c] = j] \/ job' = [job EXCEPT ![c] = NoJob]
        /\ job[c].step # "idle"
    BY <1>0, <1>11 DEF CheckLabels
  <2>2. j \in Jobs /\ j.kind = job[c].kind /\ j.scan = job[c].scan
    BY <1>0 DEF Jobs, Steps
  <2>3. j.step \in Submitting => job[c].step \in Submitting
    BY <1>0, <1>11, <2>1 DEF CheckLabels, Jobs, Submitting
  <2> QED BY <1>0, <1>3, <1>4, <1>11, <2>1, <2>2, <2>3 DEF CheckLabels
<1>12. CASE ReadHeld(c)
  <2> DEFINE j == [job[c] EXCEPT !.held = labels[job[c].scan],
                                 !.step = "store"]
  <2>1. job' = [job EXCEPT ![c] = j] /\ job[c].step # "idle"
    BY <1>0, <1>12 DEF ReadHeld
  <2>2. j \in Jobs /\ j.kind = job[c].kind /\ j.scan = job[c].scan
    BY <1>0, <1>1, <2>1 DEF Jobs, Steps
  <2>3. j.step \in Submitting => job[c].step \in Submitting
    BY <1>0, <1>12, <2>1 DEF ReadHeld, Jobs, Submitting
  <2> QED BY <1>0, <1>3, <1>12, <2>1, <2>2, <2>3 DEF ReadHeld
<1>13. CASE StoreLabels(c)
  <2> DEFINE j == [job[c] EXCEPT !.step = "ready"]
             m == Merged(job[c].batch, job[c].held)
  <2>1. /\ job' = [job EXCEPT ![c] = j] /\ job[c].step # "idle"
        /\ labels' = [labels EXCEPT ![job[c].scan] = m]
    BY <1>0, <1>13 DEF StoreLabels
  <2>2. j \in Jobs /\ j.kind = job[c].kind /\ j.scan = job[c].scan
    BY <1>0 DEF Jobs, Steps
  <2>3. m \in Labels
    BY <1>0 DEF Jobs, Labels, Merged
  <2>4. labels' \in [Scans -> Labels]
    BY <1>0, <2>1, <2>3
  <2>5. j.step \in Submitting => job[c].step \in Submitting
    BY <1>0, <1>13, <2>1 DEF StoreLabels, Jobs, Submitting
  <2> QED BY <1>0, <1>3, <1>13, <2>1, <2>2, <2>4, <2>5 DEF StoreLabels
<1>14. CASE Answered(c) \/ HandlerFails(c)
  BY <1>4, <1>14 DEF Answered, HandlerFails
<1> QED
  BY <1>5, <1>6, <1>7, <1>8, <1>9, <1>10, <1>11, <1>12, <1>13, <1>14
  DEF HandlerStep

\* A thread leaves the event loop, the reports and the labels alone.
LEMMA ThreadsLeaveLoop ==
  ASSUME TypeOK, ThreadStep
  PROVE  /\ UNCHANGED <<upload, findings, labels, job, asked>>
         /\ LoopFree => LoopFree'
<1>0. /\ save \in [Savers -> SaveCalls] /\ EventLoop \in Savers
      /\ \A w \in Workers : w \in Savers /\ w # EventLoop
  BY EventLoopAssumption DEF TypeOK, Savers
<1> USE DEF dbVars, workerVars, historyVars, budgetVars
<1> DEFINE Goal == /\ UNCHANGED <<upload, findings>>
                   /\ save'[EventLoop] = save[EventLoop]
<1>1. ASSUME NEW s \in Scans, NEW k \in 1..Dispatches, Redispatch(s, k)
      PROVE  Goal
  BY <1>1 DEF Redispatch
<1>2. ASSUME NEW w \in Workers, SaveStep(w) PROVE Goal
  BY <1>0, <1>2 DEF SaveStep, ReadBucket, WriteBucket, SaveFails
<1>3. ASSUME NEW w \in Workers, WorkerStep(w) PROVE Goal
  <2>1. CASE \/ CountVerdict(w) \/ RecordError(w)
             \/ \E i \in Idx, v \in Verdicts : ReplayVerdict(w, i, v)
    BY <1>0, <2>1 DEF CountVerdict, RecordError, ReplayVerdict, BeginSave
  <2>2. CASE \/ CheckClaim(w) \/ Claim(w) \/ AlreadyClaimed(w) \/ Snapshot(w)
             \/ SnapshotFails(w) \/ Finish(w)
             \/ \E i \in Idx :
                  PickNext(w, i) \/ ReplayFails(w, i) \/ PublishOne(w, i)
    BY <2>2 DEF CheckClaim, Claim, AlreadyClaimed, Snapshot, SnapshotFails, Finish,
         PickNext, ReplayFails, PublishOne
  <2> QED BY <1>3, <2>1, <2>2 DEF WorkerStep
<1>4. Goal
  BY <1>1, <1>2, <1>3 DEF ThreadStep
<1> QED BY <1>4 DEF ThreadStep, readerVars, LoopFree

\* A step of the loop finds no handler on it, and a restart leaves none.
LEMMA NoHandlerStep ==
  ASSUME LoopStep \/ Restart, JobInv
  PROVE  /\ JobInv'
         /\ \A c \in Clients : job'[c].kind = "none" /\ job'[c].step = "idle"
         /\ UNCHANGED <<labels, asked>>
<1>1. CASE LoopStep
  <2>1. NoHandler /\ UNCHANGED <<labels, job, asked>>
    BY <1>1 DEF LoopStep, readerVars
  <2> QED
    BY <2>1 DEF NoHandler, JobInv, ReaderTypeOK, JobsAimed, StepsFit,
       StepFits, Submitting, Jobs
<1>2. CASE Restart
  <2>1. /\ job' = [c \in Clients |-> NoJob] /\ UNCHANGED <<labels, asked>>
        /\ NoJob.kind = "none" /\ NoJob.step = "idle"
    BY <1>2 DEF Restart, NoJob
  <2> QED BY <2>1, JobTypes DEF JobInv, ReaderTypeOK, JobsAimed, StepsFit, StepFits, Submitting
<1> QED BY <1>1, <1>2

\* Every step keeps the handlers well typed, one at a time and on a free loop.
LEMMA JobStep ==
  ASSUME TypeOK, JobInv, [ReportsNext]_allVars
  PROVE  JobInv'
<1>1. CASE \E c \in Clients : HandlerStep(c)
  BY <1>1, HandlerKeepsJob
<1>2. CASE LoopStep \/ Restart
  BY <1>2, NoHandlerStep
<1>3. CASE ThreadStep
  BY <1>3, ThreadsLeaveLoop DEF JobInv, ReaderTypeOK, JobsAimed, StepsFit, StepFits, Submitting
<1>4. CASE UNCHANGED allVars
  BY <1>4 DEF allVars, vars, readerVars, JobInv, ReaderTypeOK, JobsAimed,
       StepsFit, StepFits, LoopFree
<1> QED BY <1>1, <1>2, <1>3, <1>4 DEF ReportsNext

\* No handler runs at first.
LEMMA JobInit == ReportsInit => JobInv
<1>1. NoJob.kind = "none" /\ NoJob.step = "idle"
  BY DEF NoJob
<1> SUFFICES ASSUME ReportsInit PROVE JobInv
  OBVIOUS
<1>2. \A c \in Clients : job[c] = NoJob
  BY DEF ReportsInit
<1>3. labels \in [Scans -> Labels] /\ job \in [Clients -> Jobs] /\ asked \in Nat
  BY JobTypes DEF ReportsInit
<1> QED BY <1>1, <1>2, <1>3 DEF JobInv, ReaderTypeOK, JobsAimed, StepsFit, StepFits, Submitting

\* The handlers' locals and the labels keep their types, and a handler that is
\* under way is the only one and has the event loop to itself.
THEOREM ReaderTypeCorrect == ReportsSpec => []ReaderTypeOK
<1>1. TypeOK /\ JobInv /\ [ReportsNext]_allVars => JobInv'
  BY JobStep
<1>2. JobInv => ReaderTypeOK
  BY DEF JobInv
<1> QED
  BY <1>1, <1>2, JobInit, HandlersOnlyRead, TypeCorrect, PTL DEF ReportsSpec
-----------------------------------------------------------------------------
(* Labels.  A handler that has read the labels of a scan finds them as they *)
(* were when it writes them back: no other handler ran in between.          *)

HeldIsCurrent ==
  \A c \in Clients : job[c].step = "store" => job[c].held = labels[job[c].scan]

\* While one handler steps, the others have not begun.
LEMMA OthersIdle ==
  ASSUME JobInv, NEW c \in Clients, HandlerStep(c)
  PROVE  \A d \in Clients \ {c} : job'[d] = job[d] /\ job[d].step = "idle"
<1>0. job \in [Clients -> Jobs]
  BY DEF JobInv, ReaderTypeOK
<1>1. \E j : job' = [job EXCEPT ![c] = j]
  BY DEF HandlerStep, AskReport, AskPairs, AskMetrics, SubmitLabels, Begin,
     ReadRows, ReadVerdicts, ReadLabels, ReadVerdictOf, MatrixDone,
     CheckLabels, ReadHeld, StoreLabels, Answered, HandlerFails
<1>2. NoHandler \/ job[c].step # "idle"
  BY DEF HandlerStep, AskReport, AskPairs, AskMetrics, SubmitLabels, Begin,
     ReadRows, ReadVerdicts, ReadLabels, ReadVerdictOf, MatrixDone,
     CheckLabels, ReadHeld, StoreLabels, Answered, HandlerFails
<1>3. \A d \in Clients \ {c} : job[d].kind = "none"
  BY <1>2 DEF NoHandler, JobInv, ReaderTypeOK, StepsFit, StepFits
<1> QED BY <1>0, <1>1, <1>3 DEF JobInv, StepsFit, StepFits

\* Every step changes labels as submitted, and no label between the two
\* transactions of a submission.
LEMMA LabelStep ==
  ASSUME TypeOK, JobInv, HeldIsCurrent, [ReportsNext]_allVars
  PROVE  ChangesAsSubmitted /\ HeldIsCurrent'
<1>0. job \in [Clients -> Jobs] /\ labels \in [Scans -> Labels]
  BY DEF JobInv, ReaderTypeOK
<1>1. ASSUME NEW c \in Clients, HandlerStep(c)
      PROVE  ChangesAsSubmitted /\ HeldIsCurrent'
  <2>0. /\ \A d \in Clients \ {c} : job'[d] = job[d] /\ job[d].step = "idle"
        /\ job[c].step # "idle" => job[c].scan \in Scans
    BY <1>1, OthersIdle DEF JobInv, JobsAimed, StepsFit, StepFits, Submitting
  <2>1. CASE ReadHeld(c)
    <3>1. /\ job'[c].held = labels[job[c].scan] /\ job'[c].scan = job[c].scan
          /\ UNCHANGED labels
      BY <1>0, <2>1 DEF ReadHeld, Jobs
    <3> QED BY <2>0, <3>1 DEF ChangesAsSubmitted, HeldIsCurrent
  <2>2. CASE StoreLabels(c)
    <3> DEFINE s == job[c].scan
               b == job[c].batch
    <3>1. /\ job[c].step = "store" /\ s \in Scans /\ b \in Labels
          /\ job[c].held = labels[s]
          /\ labels' = [labels EXCEPT ![s] = Merged(b, job[c].held)]
          /\ job'[c].step = "ready"
      BY <1>0, <2>0, <2>2 DEF StoreLabels, HeldIsCurrent, Jobs
    <3>2. \A t \in Scans, i \in Idx : labels'[t][i] # labels[t][i] =>
            t = s /\ b[i] # NoLabel /\ labels'[t][i] = b[i]
      BY <1>0, <3>1 DEF Merged, Labels
    <3>3. ChangesAsSubmitted
      BY <3>1, <3>2 DEF ChangesAsSubmitted, LabelledIn
    <3> QED BY <2>0, <3>1, <3>3 DEF HeldIsCurrent
  <2>3. CASE ~ ReadHeld(c) /\ ~ StoreLabels(c)
    <3>1. UNCHANGED labels
      BY <1>1, <2>3 DEF HandlerStep, AskReport, AskPairs, AskMetrics,
         SubmitLabels, Begin, ReadRows, ReadVerdicts, ReadLabels,
         ReadVerdictOf, MatrixDone, CheckLabels, Answered, HandlerFails
    <3>2. job'[c].step # "store"
      <4>1. CASE \E s \in Scans : \E kind, b :
                   \/ Begin(c, s, kind, "rows", b)
                   \/ Begin(c, s, kind, "labels", b)
                   \/ Begin(c, s, kind, "check", b)
        BY <1>0, <4>1 DEF Begin, NoJob
      <4>2. CASE \/ ReadRows(c) \/ ReadVerdicts(c) \/ ReadLabels(c)
                 \/ MatrixDone(c) \/ CheckLabels(c)
        BY <1>0, <4>2 DEF ReadRows, ReadVerdicts, ReadLabels, MatrixDone,
           CheckLabels, NoJob, Jobs
      <4>3. ASSUME NEW i \in Idx, ReadVerdictOf(c, i)
            PROVE  job'[c].step # "store"
        <5>1. job'[c].step = job[c].step /\ job[c].step = "matrix"
          BY <1>0, <4>3 DEF ReadVerdictOf, Jobs
        <5> QED BY <5>1
      <4>4. CASE Answered(c) \/ HandlerFails(c)
        BY <1>0, <4>4 DEF Answered, HandlerFails, NoJob
      <4> QED
        BY <1>1, <2>3, <4>1, <4>2, <4>3, <4>4
        DEF HandlerStep, AskReport, AskPairs, AskMetrics, SubmitLabels
    <3> QED BY <2>0, <3>1, <3>2 DEF ChangesAsSubmitted, HeldIsCurrent
  <2> QED BY <2>1, <2>2, <2>3
<1>2. CASE LoopStep \/ Restart
  BY <1>2, NoHandlerStep DEF ChangesAsSubmitted, HeldIsCurrent
<1>3. CASE ThreadStep
  BY <1>3, ThreadsLeaveLoop DEF ChangesAsSubmitted, HeldIsCurrent
<1>4. CASE UNCHANGED allVars
  BY <1>4 DEF allVars, readerVars, ChangesAsSubmitted, HeldIsCurrent
<1> QED BY <1>1, <1>2, <1>3, <1>4 DEF ReportsNext

\* A submission of labels changes those it names and no other: the labels it
\* writes back with them are the stored ones, whoever else submits labels, runs
\* verifications or restarts the backend.
THEOREM LabelsSafe == ReportsSpec => LabelsChangeAsSubmitted
<1>1. ReportsInit => HeldIsCurrent
  BY DEF ReportsInit, HeldIsCurrent, NoJob
<1>2. TypeOK /\ JobInv /\ HeldIsCurrent /\ [ReportsNext]_allVars
        => JobInv' /\ HeldIsCurrent' /\ [ChangesAsSubmitted]_allVars
  BY LabelStep, JobStep
<1> QED
  BY <1>1, <1>2, JobInit, HandlersOnlyRead, TypeCorrect, PTL
  DEF ReportsSpec, LabelsChangeAsSubmitted
-----------------------------------------------------------------------------
(* Evaluation.  Verdicts do not disappear as long as saves do not overlap,  *)
(* so that what is looked up late is at least what was listed early.        *)

Listed(j) == j.kind = "report" /\ j.step \in {"labels", "matrix", "ready"}

KnownYet ==
  \A c \in Clients : Listed(job[c]) /\ ~ raced[job[c].scan] =>
    /\ \A i \in Idx : job[c].shown[i] # Unverified
         => verified[job[c].scan][i] # Unverified
    /\ job[c].step # "labels" =>
         \A i \in LabelledIn(job[c].held) \ job[c].left :
           job[c].shown[i] # Unverified => job[c].found[i] # Unverified
    /\ job[c].step = "ready" => job[c].left = {}

\* No step of the backend takes a verdict away while saves have not overlapped.
LEMMA VerdictsStay ==
  ASSUME TypeOK, SavesAimed, NoLossWithoutOverlap, FreshBuckets, [Next]_vars,
         NEW s \in Scans, ~ raced'[s]
  PROVE  /\ ~ raced[s]
         /\ \A i \in Idx :
              verified[s][i] # Unverified => verified'[s][i] # Unverified
<1> USE DEF dbVars, workerVars, historyVars, budgetVars
<1>0. /\ save \in [Savers -> SaveCalls] /\ verified \in [Scans -> Buckets]
      /\ raced \in [Scans -> BOOLEAN]
      /\ Unverified \notin Verdicts
  BY DEF TypeOK, Verdicts, Unverified
<1>1. CASE \A a \in Savers : ~ SaveStep(a)
  BY <1>1, OnlySavesWrite
<1>2. ASSUME NEW a \in Savers, ReadBucket(a) \/ SaveFails(a)
      PROVE  UNCHANGED <<verified, raced>>
  BY <1>2 DEF ReadBucket, SaveFails
<1>3. ASSUME NEW a \in Savers, WriteBucket(a)
      PROVE  /\ ~ raced[s]
             /\ \A i \in Idx :
                  verified[s][i] # Unverified => verified'[s][i] # Unverified
  <2> DEFINE t == save[a].scan
             v == save[a].verdict
             b == save[a].bucket
  <2>1. /\ save[a].stage = "write" /\ t \in Scans /\ v \in Verdicts
        /\ verified' = [verified EXCEPT ![t] = [b EXCEPT ![save[a].idx] = v]]
        /\ raced' = [raced EXCEPT ![t] = raced[t] \/ Overlaps(a, t)]
        /\ b \in Buckets
    BY <1>0, <1>3 DEF WriteBucket, SavesAimed, SaveCalls
  <2>2. ~ raced[s]
    BY <1>0, <2>1
  <2>3. t = s => b = verified[s]
    BY <2>1, <2>2 DEF FreshBuckets
  <2>4. CASE t = s
    BY <1>0, <2>1, <2>2, <2>3, <2>4 DEF Buckets
  <2>5. CASE t # s
    BY <1>0, <2>1, <2>2, <2>5
  <2> QED BY <2>4, <2>5
<1> QED BY <1>1, <1>2, <1>3 DEF SaveStep

\* Every step keeps a report's evaluation up with its findings.
LEMMA KnownStep ==
  ASSUME TypeOK, SavesAimed, NoLossWithoutOverlap, FreshBuckets, JobInv,
         KnownYet, [ReportsNext]_allVars
  PROVE  KnownYet'
<1>0. /\ job \in [Clients -> Jobs] /\ labels \in [Scans -> Labels]
      /\ [Next]_vars
  BY BackendStep DEF JobInv, ReaderTypeOK
<1>1. ASSUME NEW c \in Clients, HandlerStep(c) PROVE KnownYet'
  <2>0. /\ \A d \in Clients \ {c} : job'[d].step = "idle"
        /\ UNCHANGED <<verified, raced>>
        /\ job[c].step # "idle" => job[c].scan \in Scans
    BY <1>1, OthersIdle, HandlerLeavesBackend
    DEF JobInv, JobsAimed, StepsFit, StepFits, vars, dbVars, historyVars
  <2>1. SUFFICES ASSUME Listed(job'[c]), ~ raced[job'[c].scan]
                 PROVE  /\ \A i \in Idx : job'[c].shown[i] # Unverified
                             => verified[job'[c].scan][i] # Unverified
                        /\ job'[c].step # "labels" =>
                             \A i \in LabelledIn(job'[c].held) \ job'[c].left :
                               job'[c].shown[i] # Unverified
                                 => job'[c].found[i] # Unverified
                        /\ job'[c].step = "ready" => job'[c].left = {}
    BY <2>0 DEF KnownYet, Listed
  <2>2. CASE ReadVerdicts(c)
    <3>1. /\ job'[c].shown = verified[job[c].scan]
          /\ job'[c].scan = job[c].scan /\ job'[c].kind = job[c].kind
          /\ job'[c].step = IF job[c].kind = "report" THEN "labels" ELSE "ready"
      BY <1>0, <2>2 DEF ReadVerdicts, Jobs
    <3> QED BY <2>1, <3>1 DEF Listed
  <2>3. CASE ReadLabels(c)
    <3>1. /\ job[c].step = "labels" /\ job'[c].step = "matrix"
          /\ job'[c].left = LabelledIn(job'[c].held)
          /\ job'[c].scan = job[c].scan /\ job'[c].kind = job[c].kind
          /\ job'[c].shown = job[c].shown
      BY <1>0, <2>3 DEF ReadLabels, Jobs
    <3> QED BY <2>1, <3>1 DEF Listed, KnownYet
  <2>4. ASSUME NEW k \in Idx, ReadVerdictOf(c, k)
        PROVE  /\ \A i \in Idx : job'[c].shown[i] # Unverified
                    => verified[job'[c].scan][i] # Unverified
               /\ job'[c].step # "labels" =>
                    \A i \in LabelledIn(job'[c].held) \ job'[c].left :
                      job'[c].shown[i] # Unverified
                        => job'[c].found[i] # Unverified
               /\ job'[c].step = "ready" => job'[c].left = {}
    <3>1. /\ job[c].step = "matrix" /\ job'[c].step = "matrix"
          /\ job'[c].left = job[c].left \ {k} /\ job'[c].held = job[c].held
          /\ job'[c].found
               = [job[c].found EXCEPT ![k] = verified[job[c].scan][k]]
          /\ job'[c].scan = job[c].scan /\ job'[c].kind = job[c].kind
          /\ job'[c].shown = job[c].shown
          /\ job[c].found \in Buckets
      BY <1>0, <2>4 DEF ReadVerdictOf, Jobs
    <3>2. /\ \A i \in Idx : job[c].shown[i] # Unverified
               => verified[job[c].scan][i] # Unverified
          /\ \A i \in LabelledIn(job[c].held) \ job[c].left :
               job[c].shown[i] # Unverified => job[c].found[i] # Unverified
      BY <2>1, <3>1 DEF Listed, KnownYet
    <3>3. \A i \in LabelledIn(job[c].held) \ (job[c].left \ {k}) :
            job[c].shown[i] # Unverified => job'[c].found[i] # Unverified
      BY <3>1, <3>2 DEF LabelledIn, Buckets
    <3> QED BY <3>1, <3>2, <3>3
  <2>5. CASE MatrixDone(c)
    <3>1. /\ job[c].step = "matrix" /\ job[c].left = {}
          /\ job'[c].left = {} /\ job'[c].held = job[c].held
          /\ job'[c].found = job[c].found /\ job'[c].shown = job[c].shown
          /\ job'[c].scan = job[c].scan /\ job'[c].kind = job[c].kind
      BY <1>0, <2>5 DEF MatrixDone, Jobs
    <3> QED BY <2>1, <3>1 DEF Listed, KnownYet
  <2>6. CASE \/ ReadRows(c) \/ CheckLabels(c) \/ ReadHeld(c) \/ StoreLabels(c)
             \/ Answered(c) \/ HandlerFails(c)
             \/ \E s \in Scans :
                  \/ AskReport(c, s) \/ AskPairs(c, s) \/ AskMetrics(c, s)
                  \/ \E b \in Batches : SubmitLabels(c, s, b)
    <3>1. ASSUME NEW s \in Scans, NEW kind, NEW step, NEW b,
                 Begin(c, s, kind, step, b),
                 kind # "report" \/ step = "rows"
          PROVE  ~ Listed(job'[c])
      <4>1. job'[c] = [NoJob EXCEPT !.kind = kind, !.step = step, !.scan = s,
                                    !.batch = b]
        BY <1>0, <3>1 DEF Begin
      <4>2. job'[c].kind = kind /\ job'[c].step = step
        BY <4>1 DEF NoJob
      <4> QED BY <3>1, <4>2 DEF Listed
    <3>2. CASE \E s \in Scans :
                 \/ AskReport(c, s) \/ AskPairs(c, s) \/ AskMetrics(c, s)
                 \/ \E b \in Batches : SubmitLabels(c, s, b)
      BY <2>1, <3>1, <3>2 DEF AskReport, AskPairs, AskMetrics, SubmitLabels
    <3>3. CASE ReadRows(c) \/ ReadHeld(c)
      BY <1>0, <2>1, <3>3 DEF ReadRows, ReadHeld, Listed, Jobs
    <3>4. CASE Answered(c) \/ HandlerFails(c)
      BY <1>0, <2>1, <3>4 DEF Answered, HandlerFails, Listed, NoJob
    <3>5. CASE CheckLabels(c) \/ StoreLabels(c)
      <4>1. job[c].kind = "label"
        BY <3>5 DEF CheckLabels, StoreLabels, JobInv, StepsFit, StepFits,
           Submitting
      <4>2. job'[c].kind \in {"label", "none"}
        BY <1>0, <3>5, <4>1 DEF CheckLabels, StoreLabels, NoJob, Jobs
      <4> QED BY <2>1, <4>2 DEF Listed
    <3> QED BY <2>6, <3>2, <3>3, <3>4, <3>5
  <2> QED BY <1>1, <2>2, <2>3, <2>4, <2>5, <2>6 DEF HandlerStep
<1>2. CASE LoopStep \/ Restart
  BY <1>2, NoHandlerStep DEF KnownYet, Listed
<1>3. CASE ThreadStep
  <2>1. UNCHANGED job
    BY <1>3, ThreadsLeaveLoop
  <2> QED
    BY <1>0, <2>1, VerdictsStay DEF KnownYet, Listed, JobInv, JobsAimed
<1>4. CASE UNCHANGED allVars
  BY <1>4 DEF allVars, vars, dbVars, historyVars, readerVars, KnownYet, Listed
<1> QED BY <1>1, <1>2, <1>3, <1>4 DEF ReportsNext
\* The evaluation in a report knows every verdict the report shows, unless saves
\* on the scan have overlapped: it is read later, and verdicts only accumulate.
THEOREM EvaluationSafe == ReportsSpec => []EvaluationKeepsUp
<1>1. ReportsInit => KnownYet /\ NoLossWithoutOverlap /\ FreshBuckets
  <2>1. ReportsInit => KnownYet
    BY DEF ReportsInit, KnownYet, Listed, NoJob
  <2>2. Init => NoLossWithoutOverlap /\ FreshBuckets
    BY DEF Init, NoLossWithoutOverlap, FreshBuckets, NoCall
  <2> QED BY <2>1, <2>2 DEF ReportsInit
<1>2. TypeOK /\ SavesAimed /\ JobInv /\ NoLossWithoutOverlap
        /\ FreshBuckets /\ KnownYet /\ [ReportsNext]_allVars
        => JobInv' /\ NoLossWithoutOverlap' /\ FreshBuckets' /\ KnownYet'
  <2> SUFFICES ASSUME TypeOK, SavesAimed, JobInv, NoLossWithoutOverlap,
                      FreshBuckets, KnownYet, [ReportsNext]_allVars
               PROVE  /\ JobInv' /\ NoLossWithoutOverlap' /\ FreshBuckets'
                      /\ KnownYet'
    OBVIOUS
  <2>1. JobInv'
    BY JobStep
  <2>2. NoLossWithoutOverlap' /\ FreshBuckets'
    BY NoLossStep, BackendStep
  <2>3. KnownYet'
    BY KnownStep
  <2> QED BY <2>1, <2>2, <2>3
<1>3. KnownYet => EvaluationKeepsUp
  <2> SUFFICES ASSUME KnownYet, NEW c \in Clients, Answering(c, "report"),
                      ~ raced[job[c].scan], NEW i \in LabelledIn(job[c].held),
                      job[c].shown[i] # Unverified
               PROVE  Cell(job[c], i) # "unverified"
    BY DEF EvaluationKeepsUp
  <2>1. job[c].found[i] # Unverified
    BY DEF Answering, KnownYet, Listed
  <2> QED BY <2>1 DEF Cell
<1> QED
  BY <1>1, <1>2, <1>3, JobInit, HandlersOnlyRead, TypeCorrect, PTL
  DEF ReportsSpec

-----------------------------------------------------------------------------
(* Counts.  The verdicts are read after the findings, and each is of one of  *)
(* them: findings do not change under a handler, which holds the loop.       *)

RowsCover ==
  \A c \in Clients :
    /\ job[c].step = "verdicts" => job[c].rows = findings[job[c].scan]
    /\ Listed(job[c]) => \A i \in Idx :
         job[c].shown[i] # Unverified => i \in 1..Len(job[c].rows)

\* Every step keeps the verdicts of a report among its findings.
LEMMA CoverStep ==
  ASSUME TypeOK, VerdictsBelongToScan, JobInv, RowsCover, [ReportsNext]_allVars
  PROVE  RowsCover'
<1>0. /\ job \in [Clients -> Jobs] /\ verified \in [Scans -> Buckets]
  BY DEF JobInv, ReaderTypeOK, TypeOK
<1>1. ASSUME NEW c \in Clients, HandlerStep(c) PROVE RowsCover'
  <2> DEFINE Goal ==
        /\ job'[c].step = "verdicts" => job'[c].rows = findings[job'[c].scan]
        /\ Listed(job'[c]) => \A i \in Idx :
             job'[c].shown[i] # Unverified => i \in 1..Len(job'[c].rows)
  <2>0. /\ \A d \in Clients \ {c} : job'[d].step = "idle"
        /\ UNCHANGED findings
        /\ job[c].step # "idle" => job[c].scan \in Scans
    BY <1>1, OthersIdle, HandlerLeavesBackend
    DEF JobInv, JobsAimed, StepsFit, StepFits, vars, dbVars
  <2>1. SUFFICES Goal
    BY <2>0 DEF RowsCover, Listed
  <2>2. CASE ReadRows(c)
    <3>1. /\ job'[c].rows = findings[job[c].scan]
          /\ job'[c].scan = job[c].scan /\ job'[c].step = "verdicts"
      BY <1>0, <2>2 DEF ReadRows, Jobs
    <3> QED BY <3>1 DEF Listed
  <2>3. CASE ReadVerdicts(c)
    <3>1. /\ job[c].step = "verdicts" /\ job'[c].step # "verdicts"
          /\ job'[c].shown = verified[job[c].scan]
          /\ job'[c].rows = job[c].rows
      BY <1>0, <2>3 DEF ReadVerdicts, Jobs
    <3>2. \A i \in Idx : verified[job[c].scan][i] # Unverified
            => i \in 1..Len(findings[job[c].scan])
      BY <2>0, <3>1 DEF VerdictsBelongToScan, IsSupported, HasFinding
    <3> QED BY <3>1, <3>2 DEF RowsCover
  <2>4. CASE ReadLabels(c) \/ MatrixDone(c)
    <3>1. /\ job'[c].kind = job[c].kind /\ job'[c].step # "verdicts"
          /\ job'[c].shown = job[c].shown /\ job'[c].rows = job[c].rows
          /\ job[c].step \in {"labels", "matrix"}
      BY <1>0, <2>4 DEF ReadLabels, MatrixDone, Jobs
    <3> QED BY <3>1 DEF Listed, RowsCover
  <2>5. ASSUME NEW k \in Idx, ReadVerdictOf(c, k) PROVE Goal
    <3>1. /\ job'[c].kind = job[c].kind /\ job'[c].step = "matrix"
          /\ job'[c].shown = job[c].shown /\ job'[c].rows = job[c].rows
          /\ job[c].step = "matrix"
      BY <1>0, <2>5 DEF ReadVerdictOf, Jobs
    <3> QED BY <3>1 DEF Listed, RowsCover
  <2>6. CASE CheckLabels(c) \/ ReadHeld(c) \/ StoreLabels(c)
    <3>1. job[c].kind = "label"
      BY <2>6 DEF CheckLabels, ReadHeld, StoreLabels, JobInv, StepsFit,
         StepFits, Submitting
    <3>2. job'[c].kind \in {"label", "none"} /\ job'[c].step # "verdicts"
      BY <1>0, <2>6, <3>1 DEF CheckLabels, ReadHeld, StoreLabels, NoJob, Jobs
    <3> QED BY <3>2 DEF Listed
  <2>7. CASE Answered(c) \/ HandlerFails(c)
    BY <1>0, <2>7 DEF Answered, HandlerFails, Listed, NoJob
  <2>8. ASSUME NEW s \in Scans,
               \/ AskReport(c, s) \/ AskPairs(c, s) \/ AskMetrics(c, s)
               \/ \E b \in Batches : SubmitLabels(c, s, b)
        PROVE  Goal
    <3>1. ASSUME NEW kind, NEW step, NEW b, Begin(c, s, kind, step, b),
                 step # "verdicts", kind # "report" \/ step = "rows"
          PROVE  Goal
      <4>1. job'[c] = [NoJob EXCEPT !.kind = kind, !.step = step, !.scan = s,
                                    !.batch = b]
        BY <1>0, <3>1 DEF Begin
      <4>2. job'[c].kind = kind /\ job'[c].step = step
        BY <4>1 DEF NoJob
      <4> QED BY <3>1, <4>2 DEF Listed
    <3> QED
      BY <2>8, <3>1 DEF AskReport, AskPairs, AskMetrics, SubmitLabels
  <2> QED
    BY <1>1, <2>2, <2>3, <2>4, <2>5, <2>6, <2>7, <2>8 DEF HandlerStep
<1>2. CASE LoopStep \/ Restart
  BY <1>2, NoHandlerStep DEF RowsCover, Listed
<1>3. CASE ThreadStep
  BY <1>3, ThreadsLeaveLoop DEF RowsCover, Listed
<1>4. CASE UNCHANGED allVars
  BY <1>4 DEF allVars, vars, dbVars, readerVars, RowsCover, Listed
<1> QED BY <1>1, <1>2, <1>3, <1>4 DEF ReportsNext

\* Disjoint finite sets: the size of the union is the sum.
LEMMA DisjointSum ==
  ASSUME NEW A, NEW B, IsFiniteSet(A), IsFiniteSet(B), A \cap B = {}
  PROVE  /\ IsFiniteSet(A \cup B)
         /\ Cardinality(A \cup B) = Cardinality(A) + Cardinality(B)
<1>1. Cardinality(A \cap B) = 0
  BY FS_EmptySet
<1>2. Cardinality(A) \in Nat /\ Cardinality(B) \in Nat
  BY FS_CardinalityType
<1>3. /\ IsFiniteSet(A \cup B)
      /\ Cardinality(A \cup B)
           = Cardinality(A) + Cardinality(B) - Cardinality(A \cap B)
  BY FS_Union
<1> QED BY <1>1, <1>2, <1>3

\* What a report that covers its verdicts adds up to.
LEMMA CountsOfReport ==
  ASSUME NEW j \in Jobs,
         \A i \in Idx : j.shown[i] # Unverified => i \in 1..Len(j.rows)
  PROVE  LET r == Report(j) IN
         /\ r.verified = r.truePos + r.falsePos + r.inconcl
         /\ r.raw = r.verified + r.unverified
         /\ r.unique <= r.verified /\ (r.unique = 0 <=> r.verified = 0)
         /\ Cardinality(Urgent(j)) <= r.truePos
<1> DEFINE r == Report(j)
           n == Len(j.rows)
           V == {i \in Idx : j.shown[i] # Unverified}
           T == ShownAs(j, "TRUE_POSITIVE")
           F == ShownAs(j, "FALSE_POSITIVE")
           C == ShownAs(j, "INCONCLUSIVE")
           U == ShownAs(j, Unverified)
           P == Paired(j)
           G == Groups(j)
<1>1. /\ n \in Nat /\ DOMAIN j.rows = 1..n /\ n <= MaxFindings
      /\ 1..n \subseteq Idx
  <2>1. j.rows \in Reports \cup {<<>>}
    BY DEF Jobs
  <2>2. CASE j.rows = <<>>
    BY <2>2, BoundsAssumption DEF Idx
  <2>3. CASE j.rows \in Reports
    <3>1. j.rows \in Seq(Categories) /\ n <= MaxFindings
      BY <2>3, ReportsAssumption
    <3> QED BY <3>1, BoundsAssumption DEF Idx
  <2> QED BY <2>1, <2>2, <2>3
<1>2. j.shown \in [Idx -> Verdicts \cup {Unverified}] /\ Unverified \notin Verdicts
  BY DEF Jobs, Buckets, Unverified, Verdicts
<1>3. /\ IsFiniteSet(1..n) /\ Cardinality(1..n) = n
  BY <1>1, FS_Interval
<1>4. /\ V = P /\ V = (T \cup F) \cup C /\ 1..n = V \cup U
      /\ T \cap F = {} /\ (T \cup F) \cap C = {} /\ V \cap U = {}
  BY <1>1, <1>2 DEF ShownAs, Paired, Verdicts, Unverified
<1>5. /\ IsFiniteSet(V) /\ IsFiniteSet(T) /\ IsFiniteSet(F) /\ IsFiniteSet(C)
      /\ IsFiniteSet(U)
  <2>1. V \subseteq 1..n /\ T \subseteq 1..n /\ F \subseteq 1..n
        /\ C \subseteq 1..n /\ U \subseteq 1..n
    BY <1>4
  <2> QED BY <1>3, <2>1, FS_Subset
<1>6. /\ r.verified = Cardinality(V) /\ r.truePos = Cardinality(T)
      /\ r.falsePos = Cardinality(F) /\ r.inconcl = Cardinality(C)
      /\ r.unverified = Cardinality(U) /\ r.raw = n
      /\ r.unique = Cardinality(G)
  BY DEF Report
<1> HIDE DEF r, n, V, T, F, C, U, P, G
<1>7. /\ Cardinality(V) = Cardinality(T) + Cardinality(F) + Cardinality(C)
      /\ n = Cardinality(V) + Cardinality(U)
  <2>1. /\ IsFiniteSet(T \cup F)
        /\ Cardinality(T \cup F) = Cardinality(T) + Cardinality(F)
    BY <1>4, <1>5, DisjointSum
  <2>2. Cardinality((T \cup F) \cup C) = Cardinality(T \cup F) + Cardinality(C)
    BY <1>4, <1>5, <2>1, DisjointSum
  <2>3. Cardinality(V \cup U) = Cardinality(V) + Cardinality(U)
    BY <1>4, <1>5, DisjointSum
  <2> QED BY <1>3, <1>4, <2>1, <2>2, <2>3
<1>8. Cardinality(G) <= Cardinality(V) /\ (Cardinality(G) = 0 <=> Cardinality(V) = 0)
  <2> DEFINE g == [i \in P |-> <<j.rows[i], Place[i]>>]
  <2>1. g \in Surjection(P, G)
    BY DEF Surjection, P, G, Groups
  <2>2. IsFiniteSet(G) /\ Cardinality(G) <= Cardinality(V)
    BY <1>4, <1>5, <2>1, FS_Surjection
  <2>3. G = {g[i] : i \in P}
    BY DEF P, G, Groups
  <2> HIDE DEF g
  <2>4. G = {} <=> V = {}
    <3>1. ASSUME NEW i \in P PROVE g[i] \in G
      BY <2>3
    <3> QED BY <1>4, <2>3, <3>1
  <2> QED BY <1>5, <2>2, <2>4, FS_EmptySet
<1>9. Cardinality(Urgent(j)) <= Cardinality(T)
  <2>1. ASSUME NEW i \in Urgent(j) PROVE i \in T
    <3>1. /\ i \in DOMAIN j.rows /\ j.shown[i] # Unverified
          /\ Priority(Severity[i], j.shown[i]) \in {"HIGH", "CRITICAL"}
      BY DEF Urgent, Paired
    <3>2. j.shown[i] \in Verdicts
      BY <1>1, <1>2, <3>1 DEF n
    <3>3. j.shown[i] \notin {"FALSE_POSITIVE", "INCONCLUSIVE"}
      BY <3>1 DEF Priority
    <3> QED BY <3>1, <3>2, <3>3 DEF T, ShownAs, Verdicts
  <2>2. Urgent(j) \subseteq T
    BY <2>1
  <2> QED BY <1>5, <2>2, FS_Subset
<1> QED BY <1>6, <1>7, <1>8, <1>9 DEF r

\* The numbers of a report add up, whatever runs store while it is made: each
\* stored verdict is one of a listed finding, every finding is counted once,
\* duplicates only ever lower the number of vulnerabilities, and nothing is
\* urgent that is not a proven positive.
THEOREM CountsSafe == ReportsSpec => []CountsAddUp
<1>1. ReportsInit => RowsCover
  BY DEF ReportsInit, RowsCover, Listed, NoJob
<1>2. TypeOK /\ JobInv /\ VerdictsBelongToScan /\ RowsCover
        /\ [ReportsNext]_allVars
        => JobInv' /\ RowsCover'
  <2> SUFFICES ASSUME TypeOK, JobInv, VerdictsBelongToScan, RowsCover,
                      [ReportsNext]_allVars
               PROVE  JobInv' /\ RowsCover'
    OBVIOUS
  <2>1. JobInv'
    BY JobStep
  <2>2. RowsCover'
    BY CoverStep
  <2> QED BY <2>1, <2>2
<1>3. JobInv /\ RowsCover => CountsAddUp
  <2> SUFFICES ASSUME JobInv, RowsCover, NEW c \in Clients,
                      Answering(c, "report")
               PROVE  LET r == Report(job[c]) IN
                      /\ r.verified = r.truePos + r.falsePos + r.inconcl
                      /\ r.raw = r.verified + r.unverified
                      /\ r.unique <= r.verified
                      /\ (r.unique = 0 <=> r.verified = 0)
                      /\ Cardinality(Urgent(job[c])) <= r.truePos
    BY DEF CountsAddUp
  <2>1. job[c] \in Jobs /\ Listed(job[c])
    BY DEF JobInv, ReaderTypeOK, Answering, Listed
  <2> QED BY <2>1, CountsOfReport DEF RowsCover
<1> QED
  BY <1>1, <1>2, <1>3, JobInit, HandlersOnlyRead, TypeCorrect, VerdictsBelong,
     PTL DEF ReportsSpec
=============================================================================
