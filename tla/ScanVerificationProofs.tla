----------------------- MODULE ScanVerificationProofs -----------------------
(***************************************************************************)
(* Theorems about ScanVerification, for every set of scans and reports and *)
(* every bound on findings, dispatches, manual verifications, failing      *)
(* transactions and crashes.                                               *)
(***************************************************************************)
EXTENDS ScanVerification, FiniteSetTheorems, TLAPS

-----------------------------------------------------------------------------
(* Facts about the values the actions compute. *)

\* The parts of a worker are a scan and a dispatch number.
LEMMA WorkerParts ==
  ASSUME NEW w \in Workers
  PROVE  w[1] \in Scans /\ w[2] \in 1..Dispatches /\ w = <<w[1], w[2]>>
BY DEF Workers

\* An empty bucket is a bucket.
LEMMA EmptyBucketType == EmptyBucket \in Buckets
BY DEF EmptyBucket, Buckets

\* Merging one verdict into a bucket yields a bucket.
LEMMA MergeType ==
  ASSUME NEW b \in Buckets, NEW i \in Idx, NEW v \in Verdicts
  PROVE  [b EXCEPT ![i] = v] \in Buckets
BY DEF Buckets

\* The queue of a run is a finite set of positions.
LEMMA CandidatesType ==
  ASSUME NEW s \in Scans
  PROVE  Candidates(s) \in SUBSET Idx /\ Cardinality(Candidates(s)) \in Nat
<1>1. Candidates(s) \in SUBSET Idx
  BY DEF Candidates
<1>2. IsFiniteSet(Idx)
  BY FS_Interval, BoundsAssumption DEF Idx
<1>3. IsFiniteSet(Candidates(s))
  BY <1>1, <1>2, FS_Subset
<1> QED BY <1>1, <1>3, FS_CardinalityType

\* No call of save_verified_finding is a well-typed call.
LEMMA NoCallType == NoCall \in SaveCalls
BY EmptyBucketType DEF NoCall, SaveCalls, SaveStages

\* A call that begins is a well-typed call.
LEMMA BeginSaveType ==
  ASSUME save \in [Savers -> SaveCalls],
         NEW a \in Savers, NEW s \in Scans, NEW i \in Idx, NEW v \in Verdicts,
         BeginSave(a, s, i, v)
  PROVE  save' \in [Savers -> SaveCalls]
BY EmptyBucketType DEF BeginSave, SaveCalls, SaveStages

\* A published copy of the progress is a well-typed view.
LEMMA PublishType ==
  ASSUME progress \in [Scans -> ProgressViews],
         NEW w \in Workers, NEW status \in {"RUNNING", "COMPLETED"},
         NEW current \in Idx \cup {0}, NEW done \in Nat,
         total'[w] \in Nat, Publish(w, status, current, done)
  PROVE  progress' \in [Scans -> ProgressViews]
<1>1. w[2] \in 0..Dispatches
  BY WorkerParts, BoundsAssumption
<1> QED BY <1>1, WorkerParts DEF Publish, ProgressViews

-----------------------------------------------------------------------------
(* Type correctness. *)

\* The initial state is well typed.
LEMMA TypeInit == Init => TypeOK
<1> SUFFICES ASSUME Init PROVE TypeOK
  OBVIOUS
<1>1. NoCounts \in [Verdicts -> Nat]
  BY DEF NoCounts
<1>2. NoProgress \in ProgressViews
  BY BoundsAssumption DEF NoProgress, ProgressViews
<1> QED BY <1>1, <1>2, EmptyBucketType, NoCallType DEF Init, TypeOK

\* The upload handler's steps keep the types.
LEMMA TypeUpload ==
  ASSUME TypeOK, NEW s \in Scans, CreateScan(s) \/ UploadStep(s)
  PROVE  TypeOK'
<1> USE BoundsAssumption DEF TypeOK, dbVars, workerVars, historyVars, budgetVars
<1>1. CASE CreateScan(s)
  BY <1>1 DEF CreateScan
<1>2. CASE SaveNormalized(s)
  BY <1>2 DEF SaveNormalized
<1>3. CASE NormalizeFails(s)
  BY <1>3 DEF NormalizeFails
<1>4. CASE MarkNormalized(s)
  <2>1. dbErrors' \in Nat
    BY <1>4 DEF MarkNormalized, DbError, NoDbError
  <2>2. scans' \in [Scans -> {"ABSENT", "UPLOADED", "NORMALIZED", "FAILED"}]
    BY <1>4 DEF MarkNormalized
  <2> QED BY <1>4, <2>1, <2>2 DEF MarkNormalized
<1>5. CASE MarkFailed(s)
  <2>1. dbErrors' \in Nat
    BY <1>5 DEF MarkFailed, DbError, NoDbError
  <2>2. scans' \in [Scans -> {"ABSENT", "UPLOADED", "NORMALIZED", "FAILED"}]
    BY <1>5 DEF MarkFailed
  <2> QED BY <1>5, <2>1, <2>2 DEF MarkFailed
<1>6. CASE Dispatch(s)
  BY <1>6 DEF Dispatch, Workers
<1> QED BY <1>1, <1>2, <1>3, <1>4, <1>5, <1>6 DEF UploadStep

\* A second dispatch keeps the types.
LEMMA TypeRedispatch ==
  ASSUME TypeOK, NEW s \in Scans, NEW k \in 1..Dispatches, Redispatch(s, k)
  PROVE  TypeOK'
BY DEF Redispatch, TypeOK, dbVars, workerVars, historyVars, budgetVars

-----------------------------------------------------------------------------
(* Strengthening.  TypeOK alone is not inductive: ReadBucket reads the row   *)
(* of the scan a call names, and RecordError lists the position it names.   *)

\* A call of save_verified_finding under way names a finding and a verdict.
SavesAimed ==
  \A a \in Savers : save[a].stage # "idle" =>
    /\ save[a].scan \in Scans
    /\ save[a].idx \in Idx
    /\ save[a].verdict \in Verdicts

\* The transactions of save_verified_finding keep the types, and a call keeps
\* naming a finding and a verdict.
LEMMA TypeSave ==
  ASSUME TypeOK, SavesAimed, NEW a \in Savers, SaveStep(a)
  PROVE  TypeOK' /\ SavesAimed'
<1> USE DEF TypeOK, dbVars, workerVars, historyVars, budgetVars
<1> DEFINE s == save[a].scan
           b == save[a].bucket
           i == save[a].idx
           v == save[a].verdict
<1>0. save[a] \in SaveCalls
  OBVIOUS
<1>1. CASE ReadBucket(a)
  <2>1. s \in Scans /\ verified[s] \in Buckets
    BY <1>1 DEF ReadBucket, SavesAimed
  <2>2. save' \in [Savers -> SaveCalls]
    BY <1>0, <1>1, <2>1 DEF ReadBucket, SaveCalls, SaveStages
  <2>3. SavesAimed'
    BY <1>0, <1>1 DEF ReadBucket, SavesAimed, SaveCalls
  <2> QED BY <1>1, <2>2, <2>3 DEF ReadBucket
<1>2. CASE WriteBucket(a)
  <2>1. s \in Scans /\ i \in Idx /\ v \in Verdicts /\ b \in Buckets
    BY <1>0, <1>2 DEF WriteBucket, SavesAimed, SaveCalls
  <2>2. [b EXCEPT ![i] = v] \in Buckets /\ [acked[s] EXCEPT ![i] = v] \in Buckets
    BY <2>1, MergeType
  <2>3. verified' \in [Scans -> Buckets] /\ acked' \in [Scans -> Buckets]
    BY <1>2, <2>2 DEF WriteBucket
  <2>4. Overlaps(a, s) \in BOOLEAN
    BY DEF Overlaps
  <2>5. raced' \in [Scans -> BOOLEAN]
    BY <1>2, <2>4 DEF WriteBucket
  <2>6. save' \in [Savers -> SaveCalls]
    BY <1>0, <1>2, EmptyBucketType DEF WriteBucket, SaveCalls, SaveStages
  <2>7. SavesAimed'
    BY <1>0, <1>2 DEF WriteBucket, SavesAimed, SaveCalls
  <2> QED BY <1>2, <2>3, <2>5, <2>6, <2>7 DEF WriteBucket
<1>3. CASE SaveFails(a)
  <2>1. save' \in [Savers -> SaveCalls]
    BY <1>0, <1>3, EmptyBucketType DEF SaveFails, SaveCalls, SaveStages
  <2>2. SavesAimed'
    BY <1>0, <1>3 DEF SaveFails, SavesAimed, SaveCalls
  <2> QED BY <1>3, <2>1, <2>2 DEF SaveFails, DbError
<1> QED BY <1>1, <1>2, <1>3 DEF SaveStep

\* So do the steps of the manual endpoint.
LEMMA TypeManual ==
  ASSUME TypeOK, SavesAimed,
         \/ \E s \in Scans, i \in Idx, v \in Verdicts : StartVerify(s, i, v)
         \/ RespondVerify
  PROVE  TypeOK' /\ SavesAimed'
<1> USE DEF TypeOK, dbVars, workerVars, historyVars, budgetVars
<1>0. EventLoop \in Savers
  BY DEF Savers
<1>1. ASSUME NEW s \in Scans, NEW i \in Idx, NEW v \in Verdicts,
             StartVerify(s, i, v)
      PROVE  TypeOK' /\ SavesAimed'
  <2>1. save' \in [Savers -> SaveCalls]
    BY <1>0, <1>1, BeginSaveType DEF StartVerify
  <2>2. SavesAimed'
    BY <1>0, <1>1 DEF StartVerify, BeginSave, SavesAimed
  <2> QED BY <1>1, <2>1, <2>2 DEF StartVerify
<1>2. ASSUME RespondVerify PROVE TypeOK' /\ SavesAimed'
  <2>1. save' \in [Savers -> SaveCalls]
    BY <1>0, <1>2, NoCallType DEF RespondVerify
  <2>2. SavesAimed'
    BY <1>0, <1>2 DEF RespondVerify, SavesAimed, NoCall
  <2> QED BY <1>2, <2>1, <2>2 DEF RespondVerify
<1> QED BY <1>1, <1>2

\* So do the steps of run_auto_verification.
LEMMA TypeWorker ==
  ASSUME TypeOK, SavesAimed, NEW w \in Workers, WorkerStep(w)
  PROVE  TypeOK' /\ SavesAimed'
<1> USE WorkerParts DEF TypeOK, dbVars, workerVars, historyVars, budgetVars, RunSteps
<1>0. w \in Savers /\ 0 \in Nat /\ \A i \in Idx : i \in Idx \cup {0}
  BY DEF Savers
<1>1. CASE CheckClaim(w) \/ Claim(w)
  <2>1. CASE CheckClaim(w)
    <3>1. doubled' \subseteq Scans
      BY <2>1 DEF CheckClaim
    <3>2. pc' \in [Workers -> RunSteps \cup
                       {"unborn", "start", "claiming", "done", "dead"}]
      BY <2>1 DEF CheckClaim
    <3> QED BY <2>1, <3>1, <3>2 DEF CheckClaim, SavesAimed
  <2>2. CASE Claim(w)
    BY <2>2 DEF Claim, SavesAimed
  <2> QED BY <1>1, <2>1, <2>2
<1>2. CASE AlreadyClaimed(w)
  BY <1>2 DEF AlreadyClaimed, SavesAimed
<1>3. CASE Snapshot(w)
  <2> DEFINE queue == Candidates(w[1])
  <2>1. queue \in SUBSET Idx /\ Cardinality(queue) \in Nat
    BY CandidatesType
  <2> HIDE DEF queue
  <2>2. /\ todo' = [todo EXCEPT ![w] = queue]
        /\ total' = [total EXCEPT ![w] = Cardinality(queue)]
        /\ pc' = [pc EXCEPT ![w] = IF queue = {} THEN "done" ELSE "loop"]
        /\ Publish(w, IF queue = {} THEN "COMPLETED" ELSE "RUNNING", 0, 0)
    BY <1>3 DEF Snapshot, queue
  <2>3. total' \in [Workers -> Nat] /\ total'[w] \in Nat
    BY <2>1, <2>2
  <2>4. progress' \in [Scans -> ProgressViews]
    BY <1>0, <2>2, <2>3, PublishType
  <2>5. SavesAimed'
    BY <1>3 DEF Snapshot, SavesAimed
  <2> QED BY <1>3, <2>1, <2>2, <2>3, <2>4, <2>5 DEF Snapshot
<1>4. CASE SnapshotFails(w)
  BY <1>4 DEF SnapshotFails, SavesAimed, DbError
<1>5. ASSUME NEW i \in Idx, PickNext(w, i) PROVE TypeOK' /\ SavesAimed'
  <2>1. total'[w] \in Nat /\ completed[w] \in Nat
    BY <1>5 DEF PickNext
  <2>2. progress' \in [Scans -> ProgressViews]
    BY <1>0, <1>5, <2>1, PublishType DEF PickNext
  <2> QED BY <1>5, <2>2 DEF PickNext, SavesAimed
<1>6. ASSUME NEW i \in Idx, NEW v \in Verdicts, ReplayVerdict(w, i, v)
      PROVE  TypeOK' /\ SavesAimed'
  <2>1. save' \in [Savers -> SaveCalls]
    BY <1>0, <1>6, BeginSaveType DEF ReplayVerdict
  <2>2. SavesAimed'
    BY <1>0, <1>6 DEF ReplayVerdict, BeginSave, SavesAimed
  <2> QED BY <1>6, <2>1, <2>2 DEF ReplayVerdict
<1>7. ASSUME NEW i \in Idx, ReplayFails(w, i) PROVE TypeOK' /\ SavesAimed'
  BY <1>7 DEF ReplayFails, SavesAimed
<1>8. CASE CountVerdict(w)
  <2>1. save[w].verdict \in Verdicts
    BY <1>0, <1>8 DEF CountVerdict, SavesAimed
  <2>2. [counts[w] EXCEPT ![save[w].verdict] = @ + 1] \in [Verdicts -> Nat]
    BY <2>1
  <2>3. counts' \in [Workers -> [Verdicts -> Nat]]
    BY <1>8, <2>2 DEF CountVerdict
  <2>4. save' \in [Savers -> SaveCalls] /\ SavesAimed'
    BY <1>0, <1>8, NoCallType DEF CountVerdict, SavesAimed, NoCall
  <2> QED BY <1>8, <2>3, <2>4 DEF CountVerdict
<1>9. CASE RecordError(w)
  <2>1. save[w].idx \in Idx
    BY <1>0, <1>9 DEF RecordError, SavesAimed
  <2>2. errors' \in [Workers -> SUBSET Idx]
    BY <1>9, <2>1 DEF RecordError
  <2>3. save' \in [Savers -> SaveCalls] /\ SavesAimed'
    BY <1>0, <1>9, NoCallType DEF RecordError, SavesAimed, NoCall
  <2> QED BY <1>9, <2>2, <2>3 DEF RecordError
<1>10. ASSUME NEW i \in Idx, PublishOne(w, i) PROVE TypeOK' /\ SavesAimed'
  <2>1. total'[w] \in Nat /\ completed[w] + 1 \in Nat
    BY <1>10 DEF PublishOne
  <2>2. progress' \in [Scans -> ProgressViews]
    BY <1>0, <1>10, <2>1, PublishType DEF PublishOne
  <2>3. completed' \in [Workers -> Nat]
    BY <1>10 DEF PublishOne
  <2> QED BY <1>10, <2>2, <2>3 DEF PublishOne, SavesAimed
<1>11. CASE Finish(w)
  <2>1. total'[w] \in Nat /\ completed[w] \in Nat
    BY <1>11 DEF Finish
  <2>2. progress' \in [Scans -> ProgressViews]
    BY <1>0, <1>11, <2>1, PublishType DEF Finish
  <2> QED BY <1>11, <2>2 DEF Finish, SavesAimed
<1> QED
  BY <1>1, <1>2, <1>3, <1>4, <1>5, <1>6, <1>7, <1>8, <1>9, <1>10, <1>11
  DEF WorkerStep

\* And so does a restart.
LEMMA TypeCrash ==
  ASSUME TypeOK, Crash PROVE TypeOK' /\ SavesAimed'
<1>1. NoCounts \in [Verdicts -> Nat] /\ NoProgress \in ProgressViews
  BY BoundsAssumption DEF NoCounts, NoProgress, ProgressViews
<1>2. upload' \in [Scans -> {"none", "reading", "saved", "marked", "failing",
                             "done"}]
  BY DEF Crash, TypeOK
<1>3. save' \in [Savers -> SaveCalls] /\ SavesAimed'
  BY NoCallType DEF Crash, SavesAimed, NoCall
<1> QED
  BY <1>1, <1>2, <1>3 DEF Crash, TypeOK, dbVars, historyVars

\* Every step keeps the types and the saves aimed.
LEMMA TypeStep ==
  ASSUME TypeOK, SavesAimed, [Next]_vars
  PROVE  TypeOK' /\ SavesAimed'
<1>1. ASSUME NEW s \in Scans, CreateScan(s) \/ UploadStep(s)
      PROVE  TypeOK' /\ SavesAimed'
  <2>1. UNCHANGED save
    BY <1>1 DEF UploadStep, CreateScan, SaveNormalized, NormalizeFails,
         MarkNormalized, MarkFailed, Dispatch
  <2> QED BY <1>1, <2>1, TypeUpload DEF SavesAimed
<1>2. ASSUME NEW s \in Scans, NEW k \in 1..Dispatches, Redispatch(s, k)
      PROVE  TypeOK' /\ SavesAimed'
  BY <1>2, TypeRedispatch DEF Redispatch, SavesAimed
<1>3. CASE UNCHANGED vars
  BY <1>3 DEF vars, TypeOK, SavesAimed, dbVars, workerVars, historyVars,
       budgetVars
<1> QED
  BY <1>1, <1>2, <1>3, TypeManual, TypeSave, TypeWorker, TypeCrash DEF Next

\* Type correctness: the specification keeps every variable in its type, and
\* every save under way names a stored finding's position and a verdict.
THEOREM TypeCorrect == Spec => [](TypeOK /\ SavesAimed)
<1>1. Init => TypeOK /\ SavesAimed
  <2>1. Init => SavesAimed
    BY DEF Init, SavesAimed, NoCall
  <2> QED BY <2>1, TypeInit
<1>2. TypeOK /\ SavesAimed /\ [Next]_vars => TypeOK' /\ SavesAimed'
  BY TypeStep
<1> QED BY <1>1, <1>2, PTL DEF Spec
-----------------------------------------------------------------------------
(* No verdict is lost without overlapping saves.  What makes the property   *)
(* inductive: while no two saves on a scan have overlapped, the bucket a    *)
(* saver holds between its two transactions is still the stored one.        *)

FreshBuckets ==
  \A a \in Savers :
    save[a].stage = "write" /\ ~raced[save[a].scan]
      => save[a].bucket = verified[save[a].scan]

\* A step that is no save transaction leaves tables and history alone and puts
\* no saver between its two transactions.
LEMMA OnlySavesWrite ==
  ASSUME TypeOK, [Next]_vars, \A a \in Savers : ~ SaveStep(a)
  PROVE  /\ UNCHANGED <<verified, acked, raced>>
         /\ \A a \in Savers : save'[a] = save[a] \/ save'[a].stage # "write"
<1> USE DEF dbVars, workerVars, historyVars, budgetVars
<1> DEFINE Goal == /\ UNCHANGED <<verified, acked, raced>>
                   /\ \A a \in Savers :
                        save'[a] = save[a] \/ save'[a].stage # "write"
<1>0. save \in [Savers -> SaveCalls] /\ EventLoop \in Savers
  BY DEF TypeOK, Savers
<1>1. ASSUME NEW s \in Scans, CreateScan(s) \/ UploadStep(s) PROVE Goal
  BY <1>1 DEF UploadStep, CreateScan, SaveNormalized, NormalizeFails,
       MarkNormalized, MarkFailed, Dispatch
<1>2. ASSUME NEW s \in Scans, NEW k \in 1..Dispatches, Redispatch(s, k)
      PROVE  Goal
  BY <1>2 DEF Redispatch
<1>3. ASSUME NEW s \in Scans, NEW i \in Idx, NEW v \in Verdicts,
             StartVerify(s, i, v)
      PROVE  Goal
  BY <1>0, <1>3 DEF StartVerify, BeginSave
<1>4. CASE RespondVerify
  BY <1>0, <1>4 DEF RespondVerify, NoCall
<1>5. ASSUME NEW w \in Workers, WorkerStep(w) PROVE Goal
  <2>0. w \in Savers
    BY DEF Savers
  <2>1. CASE \E i \in Idx, v \in Verdicts : ReplayVerdict(w, i, v)
    BY <1>0, <2>0, <2>1 DEF ReplayVerdict, BeginSave
  <2>2. CASE CountVerdict(w) \/ RecordError(w)
    BY <1>0, <2>0, <2>2 DEF CountVerdict, RecordError, NoCall
  <2>3. CASE \/ CheckClaim(w) \/ Claim(w) \/ AlreadyClaimed(w) \/ Snapshot(w)
             \/ SnapshotFails(w) \/ Finish(w)
             \/ \E i \in Idx :
                  PickNext(w, i) \/ ReplayFails(w, i) \/ PublishOne(w, i)
    BY <2>3 DEF CheckClaim, Claim, AlreadyClaimed, Snapshot, SnapshotFails, Finish,
         PickNext, ReplayFails, PublishOne
  <2> QED BY <1>5, <2>1, <2>2, <2>3 DEF WorkerStep
<1>6. CASE Crash
  BY <1>6 DEF Crash, NoCall
<1>7. CASE UNCHANGED vars
  BY <1>7 DEF vars
<1> QED BY <1>1, <1>2, <1>3, <1>4, <1>5, <1>6, <1>7 DEF Next

\* Every step keeps tables and history together.
LEMMA NoLossStep ==
  ASSUME TypeOK, SavesAimed, NoLossWithoutOverlap, FreshBuckets, [Next]_vars
  PROVE  NoLossWithoutOverlap' /\ FreshBuckets'
<1> USE DEF dbVars, workerVars, historyVars, budgetVars
<1>0. /\ save \in [Savers -> SaveCalls]
      /\ verified \in [Scans -> Buckets]
      /\ acked \in [Scans -> Buckets]
      /\ raced \in [Scans -> BOOLEAN]
  BY DEF TypeOK
<1>1. CASE \A a \in Savers : ~ SaveStep(a)
  BY <1>1, OnlySavesWrite DEF NoLossWithoutOverlap, FreshBuckets
<1>2. ASSUME NEW a \in Savers, ReadBucket(a)
      PROVE  NoLossWithoutOverlap' /\ FreshBuckets'
  <2>1. UNCHANGED <<verified, acked, raced>>
    BY <1>2 DEF ReadBucket
  <2>2. save'[a].bucket = verified[save[a].scan]
        /\ save'[a].scan = save[a].scan
    BY <1>0, <1>2 DEF ReadBucket, SaveCalls
  <2>3. \A b \in Savers \ {a} : save'[b] = save[b]
    BY <1>0, <1>2 DEF ReadBucket
  <2> QED BY <2>1, <2>2, <2>3 DEF NoLossWithoutOverlap, FreshBuckets
<1>3. ASSUME NEW a \in Savers, WriteBucket(a)
      PROVE  NoLossWithoutOverlap' /\ FreshBuckets'
  <2> DEFINE s == save[a].scan
             i == save[a].idx
             v == save[a].verdict
             b == save[a].bucket
  <2>1. s \in Scans /\ save[a].stage = "write"
    BY <1>3 DEF WriteBucket, SavesAimed
  <2>2. /\ verified' = [verified EXCEPT ![s] = [b EXCEPT ![i] = v]]
        /\ acked' = [acked EXCEPT ![s] = [acked[s] EXCEPT ![i] = v]]
        /\ raced' = [raced EXCEPT ![s] = raced[s] \/ Overlaps(a, s)]
        /\ \A c \in Savers \ {a} : save'[c] = save[c]
        /\ save'[a].stage = "ok"
    BY <1>0, <1>3 DEF WriteBucket, SaveCalls
  <2>3. ASSUME ~ raced'[s] PROVE ~ raced[s] /\ ~ Overlaps(a, s)
    BY <1>0, <2>1, <2>2, <2>3
  <2>4. ASSUME ~ raced'[s] PROVE verified'[s] = acked'[s]
    <3>1. b = verified[s] /\ verified[s] = acked[s]
      BY <2>1, <2>3, <2>4 DEF FreshBuckets, NoLossWithoutOverlap
    <3> QED BY <1>0, <2>1, <2>2, <3>1
  <2>5. \A t \in Scans \ {s} :
          /\ verified'[t] = verified[t] /\ acked'[t] = acked[t]
          /\ raced'[t] = raced[t]
    BY <1>0, <2>2
  <2>6. NoLossWithoutOverlap'
    BY <2>4, <2>5 DEF NoLossWithoutOverlap
  <2>7. FreshBuckets'
    <3> SUFFICES ASSUME NEW c \in Savers, save'[c].stage = "write",
                        ~ raced'[save'[c].scan]
                 PROVE  save'[c].bucket = verified'[save'[c].scan]
      BY DEF FreshBuckets
    <3>1. c # a /\ save'[c] = save[c]
      BY <2>2
    <3>2. save[c].scan \in Scans
      BY <3>1 DEF SavesAimed
    <3>3. save[c].scan # s
      BY <2>1, <2>3, <3>1 DEF Overlaps
    <3> QED BY <2>5, <3>1, <3>2, <3>3 DEF FreshBuckets
  <2> QED BY <2>6, <2>7
<1>4. ASSUME NEW a \in Savers, SaveFails(a)
      PROVE  NoLossWithoutOverlap' /\ FreshBuckets'
  <2>1. /\ UNCHANGED <<verified, acked, raced>>
        /\ save'[a].stage = "failed"
        /\ \A b \in Savers \ {a} : save'[b] = save[b]
    BY <1>0, <1>4 DEF SaveFails, SaveCalls
  <2> QED BY <2>1 DEF NoLossWithoutOverlap, FreshBuckets
<1> QED BY <1>1, <1>2, <1>3, <1>4 DEF SaveStep

\* As long as no two saves on a scan overlapped, every verdict that a save
\* returned is the stored one: neither a crash between the read and the write
\* of save_verified_finding nor a failing transaction loses one.
THEOREM NoLoss == Spec => []NoLossWithoutOverlap
<1>1. Init => NoLossWithoutOverlap /\ FreshBuckets
  BY DEF Init, NoLossWithoutOverlap, FreshBuckets, NoCall
<1>2. TypeOK /\ SavesAimed /\ NoLossWithoutOverlap /\ FreshBuckets /\ [Next]_vars
        => NoLossWithoutOverlap' /\ FreshBuckets'
  BY NoLossStep
<1> QED BY <1>1, <1>2, TypeCorrect, PTL DEF Spec

-----------------------------------------------------------------------------
(* One run per scan.  The claim makes it so where no two calls test before  *)
(* either adds: whoever runs has claimed, and the published progress of a   *)
(* scan that is not claimed is nobody's.                                    *)

\* No two calls have ever been about to claim the same scan.
ClaimsApart == doubled = {}

ClaimsHeld ==
  /\ \A w \in Workers : pc[w] \in RunSteps => w[1] \in claimed
  /\ \A w \in Workers :
       pc[w] = "claiming" /\ w[1] \notin doubled => w[1] \notin claimed
  /\ \A w1, w2 \in Workers :
       /\ pc[w1] \in RunSteps \cup {"claiming"}
       /\ pc[w2] \in RunSteps \cup {"claiming"}
       /\ w1[1] = w2[1] /\ w1[1] \notin doubled
       => w1 = w2
  /\ \A w \in Workers : pc[w] \in RunSteps /\ w[1] \notin doubled
       => progress[w[1]].by \in {0, w[2]}
  /\ \A s \in Scans : s \notin claimed => progress[s].by = 0

\* What is left of it where no two calls have claimed at the same time.
RunnersClaimed ==
  /\ \A w \in Workers : pc[w] \in RunSteps => w[1] \in claimed
  /\ \A w \in Workers : pc[w] = "claiming" => w[1] \notin claimed
  /\ \A w1, w2 \in Workers :
       pc[w1] \in RunSteps /\ pc[w2] \in RunSteps /\ w1[1] = w2[1] => w1 = w2
  /\ \A w \in Workers : pc[w] \in RunSteps => progress[w[1]].by \in {0, w[2]}
  /\ \A s \in Scans : s \notin claimed => progress[s].by = 0

LEMMA RunnersHold == ClaimsHeld /\ ClaimsApart => RunnersClaimed
BY DEF ClaimsHeld, ClaimsApart, RunnersClaimed

\* Every step keeps the claim and the runners in agreement.
LEMMA ClaimsHeldStep ==
  ASSUME TypeOK, ClaimsHeld, [Next]_vars
  PROVE  ClaimsHeld'
<1> USE WorkerParts DEF dbVars, workerVars, historyVars, budgetVars, RunSteps
<1>0. /\ pc \in [Workers -> RunSteps \cup {"unborn", "start", "claiming", "done", "dead"}]
      /\ progress \in [Scans -> ProgressViews] /\ doubled \subseteq Scans
      /\ \A s \in Scans, k \in 1..Dispatches : <<s, k>> \in Workers
      /\ 1 \in 1..Dispatches
  BY BoundsAssumption DEF TypeOK, Workers
<1>1. ASSUME \A x \in Workers :
               pc'[x] = pc[x] \/ pc'[x] \notin RunSteps \cup {"claiming"},
             UNCHANGED <<claimed, progress, doubled>>
      PROVE  ClaimsHeld'
  BY <1>1 DEF ClaimsHeld
<1>2. ASSUME UNCHANGED <<pc, claimed, progress, doubled>> PROVE ClaimsHeld'
  BY <1>1, <1>2
<1>3. ASSUME NEW s \in Scans, CreateScan(s) \/ UploadStep(s)
      PROVE  ClaimsHeld'
  <2>1. CASE Dispatch(s)
    BY <1>0, <1>1, <2>1 DEF Dispatch
  <2>2. CASE \/ CreateScan(s) \/ SaveNormalized(s) \/ NormalizeFails(s)
             \/ MarkNormalized(s) \/ MarkFailed(s)
    BY <1>2, <2>2 DEF CreateScan, SaveNormalized, NormalizeFails,
         MarkNormalized, MarkFailed
  <2> QED BY <1>3, <2>1, <2>2 DEF UploadStep
<1>4. ASSUME NEW s \in Scans, NEW k \in 1..Dispatches, Redispatch(s, k)
      PROVE  ClaimsHeld'
  BY <1>0, <1>1, <1>4 DEF Redispatch
<1>5. ASSUME NEW s \in Scans, NEW i \in Idx, NEW v \in Verdicts,
             StartVerify(s, i, v)
      PROVE  ClaimsHeld'
  BY <1>2, <1>5 DEF StartVerify
<1>6. CASE RespondVerify
  BY <1>2, <1>6 DEF RespondVerify
<1>7. ASSUME NEW a \in Savers, SaveStep(a) PROVE ClaimsHeld'
  BY <1>2, <1>7 DEF SaveStep, ReadBucket, WriteBucket, SaveFails
<1>8. ASSUME NEW w \in Workers, WorkerStep(w) PROVE ClaimsHeld'
  <2>1. CASE CheckClaim(w)
    <3>1. /\ w[1] \notin claimed /\ UNCHANGED <<claimed, progress>>
          /\ pc'[w] = "claiming" /\ doubled \subseteq doubled'
          /\ \A x \in Workers \ {w} : pc'[x] = pc[x]
      BY <1>0, <2>1 DEF CheckClaim
    <3>2. \A x \in Workers \ {w} :
            x[1] = w[1] /\ pc[x] = "claiming" => w[1] \in doubled'
      BY <2>1 DEF CheckClaim
    <3>3. \A x \in Workers : x[1] = w[1] => pc[x] \notin RunSteps
      BY <3>1 DEF ClaimsHeld
    <3> QED BY <3>1, <3>2, <3>3 DEF ClaimsHeld
  <2>2. CASE Claim(w)
    <3>1. /\ pc[w] = "claiming" /\ claimed' = claimed \cup {w[1]}
          /\ pc'[w] = "snapshot" /\ UNCHANGED <<progress, doubled>>
          /\ \A x \in Workers \ {w} : pc'[x] = pc[x]
      BY <1>0, <2>2 DEF Claim
    <3>2. w[1] \notin doubled => progress[w[1]].by = 0
      BY <3>1 DEF ClaimsHeld
    <3>3. \A x \in Workers \ {w} : w[1] \notin doubled
            /\ pc'[x] \in RunSteps \cup {"claiming"} => x[1] # w[1]
      BY <3>1 DEF ClaimsHeld
    <3> QED BY <3>1, <3>2, <3>3 DEF ClaimsHeld
  <2>3. CASE AlreadyClaimed(w)
    BY <1>0, <1>1, <2>3 DEF AlreadyClaimed
  <2>4. CASE \/ Snapshot(w) \/ Finish(w)
             \/ \E i \in Idx : PickNext(w, i) \/ PublishOne(w, i)
    <3>1. /\ pc[w] \in RunSteps /\ pc'[w] # "claiming"
          /\ \A x \in Workers \ {w} : pc'[x] = pc[x]
          /\ UNCHANGED <<claimed, doubled>>
      BY <1>0, <2>4 DEF Snapshot, Finish, PickNext, PublishOne
    <3>2. /\ progress'[w[1]].by = w[2]
          /\ \A t \in Scans \ {w[1]} : progress'[t] = progress[t]
      <4>1. \E status, current, done : Publish(w, status, current, done)
        <5>1. CASE Snapshot(w)
          BY <5>1 DEF Snapshot
        <5>2. CASE Finish(w)
          BY <5>2 DEF Finish
        <5>3. CASE \E i \in Idx : PickNext(w, i)
          BY <5>3 DEF PickNext
        <5>4. CASE \E i \in Idx : PublishOne(w, i)
          BY <5>4 DEF PublishOne
        <5> QED BY <2>4, <5>1, <5>2, <5>3, <5>4
      <4> QED BY <1>0, <4>1 DEF Publish
    <3>3. w[1] \in claimed
      BY <3>1 DEF ClaimsHeld
    <3>4. \A x \in Workers \ {w} : w[1] \notin doubled
            /\ pc'[x] \in RunSteps \cup {"claiming"} => x[1] # w[1]
      BY <3>1 DEF ClaimsHeld
    <3> QED BY <3>1, <3>2, <3>3, <3>4 DEF ClaimsHeld
  <2>5. CASE \/ SnapshotFails(w) \/ CountVerdict(w) \/ RecordError(w)
             \/ \E i \in Idx, v \in Verdicts : ReplayVerdict(w, i, v)
             \/ \E i \in Idx : ReplayFails(w, i)
    <3>1. /\ pc[w] \in RunSteps /\ pc'[w] # "claiming"
          /\ \A x \in Workers \ {w} : pc'[x] = pc[x]
          /\ UNCHANGED <<claimed, progress, doubled>>
      BY <1>0, <2>5 DEF SnapshotFails, CountVerdict, RecordError,
           ReplayVerdict, ReplayFails
    <3> QED BY <3>1 DEF ClaimsHeld
  <2> QED BY <1>8, <2>1, <2>2, <2>3, <2>4, <2>5 DEF WorkerStep
<1>9. CASE Crash
  BY <1>9 DEF Crash, NoProgress, ClaimsHeld
<1>10. CASE UNCHANGED vars
  BY <1>2, <1>10 DEF vars
<1> QED
  BY <1>3, <1>4, <1>5, <1>6, <1>7, <1>8, <1>9, <1>10 DEF Next

\* No scan is claimed, and nobody runs, when the backend starts.
LEMMA ClaimsHeldInit == Init => ClaimsHeld
BY DEF Init, ClaimsHeld, RunSteps, NoProgress, Workers

\* However often run_auto_verification is called for a scan, one call at most
\* gets past try_claim_scan_for_auto_verification unless two of them test at a
\* time when neither has added: a call that comes at any later point of the run,
\* or after its end or its failure, is refused, restarts included.
THEOREM OneRun == Spec => []OneRunUnlessDoubled
<1>1. TypeOK /\ ClaimsHeld /\ [Next]_vars => ClaimsHeld'
  BY ClaimsHeldStep
<1>2. ClaimsHeld => OneRunUnlessDoubled
  <2> SUFFICES ASSUME ClaimsHeld, NEW w1 \in Workers, NEW w2 \in Workers,
                      HasRun(w1), HasRun(w2), w1[1] = w2[1], w1[1] \notin doubled
               PROVE  w1 = w2
    BY DEF OneRunUnlessDoubled
  <2>1. CASE pc[w1] \in RunSteps /\ pc[w2] \in RunSteps
    BY <2>1 DEF ClaimsHeld
  <2>2. CASE pc[w1] \notin RunSteps \/ pc[w2] \notin RunSteps
    <3>1. w1[2] = w2[2]
      BY <2>2, WorkerParts, BoundsAssumption DEF ClaimsHeld, HasRun
    <3> QED BY <3>1, WorkerParts
  <2> QED BY <2>1, <2>2
<1> QED BY <1>1, <1>2, ClaimsHeldInit, TypeCorrect, PTL DEF Spec

\* A scan that is dispatched once, as upload_scan does, is claimed by nobody
\* else: the theorems that suppose ClaimsApart hold of Dispatches = 1.
THEOREM OneDispatchApart == Dispatches = 1 /\ Spec => []ClaimsApart
<1> DEFINE Apart == Dispatches = 1 /\ ClaimsApart
<1>1. Dispatches = 1 /\ Init => Apart
  BY DEF Init, ClaimsApart
<1>2. Apart /\ [Next]_vars => Apart'
  <2> SUFFICES ASSUME Dispatches = 1, ClaimsApart, [Next]_vars PROVE ClaimsApart'
    OBVIOUS
  <2> USE DEF dbVars, workerVars, historyVars, budgetVars
  <2>1. CASE \E w \in Workers : CheckClaim(w)
    <3>1. \A x, y \in Workers : x[1] = y[1] => x = y
      <4>1. \A x \in Workers : x = <<x[1], 1>>
        BY WorkerParts
      <4> QED BY <4>1, WorkerParts
    <3> QED BY <2>1, <3>1 DEF CheckClaim, ClaimsApart
  <2>2. CASE ~ \E w \in Workers : CheckClaim(w)
    <3>1. UNCHANGED doubled
      BY <2>2 DEF Next, UploadStep, CreateScan, SaveNormalized, NormalizeFails,
         MarkNormalized, MarkFailed, Dispatch, Redispatch, StartVerify,
         RespondVerify, SaveStep, ReadBucket, WriteBucket, SaveFails,
         WorkerStep, Claim, AlreadyClaimed, Snapshot, SnapshotFails, PickNext,
         ReplayVerdict, ReplayFails, CountVerdict, RecordError, PublishOne,
         Finish, Crash, vars
    <3> QED BY <3>1 DEF ClaimsApart
  <2> QED BY <2>1, <2>2
<1>3. Apart => ClaimsApart
  OBVIOUS
<1> QED BY <1>1, <1>2, <1>3, PTL DEF Spec

-----------------------------------------------------------------------------
(* Verdicts stay with their scan.  Whatever names a finding (a queue, a     *)
(* save under way, a bucket being carried back) names a supported one, and  *)
(* there is none before save_normalized_findings has stored the report.     *)

NothingBeforeReport ==
  \A s \in Scans : upload[s] \in {"none", "reading"} => findings[s] = <<>>

AllNameSupported ==
  /\ \A w \in Workers : \A i \in todo[w] : IsSupported(w[1], i)
  /\ \A a \in Savers : save[a].stage # "idle"
       => IsSupported(save[a].scan, save[a].idx)
  /\ \A a \in Savers : save[a].stage = "write"
       => \A i \in Idx : save[a].bucket[i] # Unverified
            => IsSupported(save[a].scan, i)

\* An unreported scan has no supported finding.
LEMMA EmptyReport ==
  ASSUME NEW s \in Scans, NEW i \in Idx, findings[s] = <<>>
  PROVE  ~ IsSupported(s, i)
<1>1. Len(findings[s]) = 0
  OBVIOUS
<1> QED BY <1>1 DEF IsSupported, HasFinding, Idx

\* Storing a report takes no supported finding away.
LEMMA SupportStays ==
  ASSUME TypeOK, NothingBeforeReport, [Next]_vars,
         NEW s \in Scans, NEW i \in Idx, IsSupported(s, i)
  PROVE  IsSupported(s, i)'
<1> USE DEF dbVars, workerVars, historyVars, budgetVars
<1>1. CASE UNCHANGED findings
  BY <1>1 DEF IsSupported, HasFinding
<1>2. ASSUME NEW t \in Scans, SaveNormalized(t) PROVE IsSupported(s, i)'
  <2>1. findings[t] = <<>>
    BY <1>2 DEF SaveNormalized, NothingBeforeReport
  <2>2. s # t
    BY <2>1, EmptyReport
  <2>3. findings'[s] = findings[s]
    BY <1>2, <2>2 DEF SaveNormalized, TypeOK
  <2> QED BY <2>3 DEF IsSupported, HasFinding
<1>3. CASE ~ \E t \in Scans : SaveNormalized(t)
  <2>1. UNCHANGED findings
    BY <1>3 DEF Next, UploadStep, CreateScan, NormalizeFails, MarkNormalized,
         MarkFailed, Dispatch, Redispatch, StartVerify, RespondVerify,
         SaveStep, ReadBucket, WriteBucket, SaveFails, WorkerStep, CheckClaim, Claim,
         AlreadyClaimed, Snapshot, SnapshotFails, PickNext, ReplayVerdict,
         ReplayFails, CountVerdict, RecordError, PublishOne, Finish, Crash,
         vars
  <2> QED BY <1>1, <2>1
<1> QED BY <1>2, <1>3

\* Every step keeps unreported scans without findings.
LEMMA ReportStep ==
  ASSUME TypeOK, NothingBeforeReport, [Next]_vars
  PROVE  NothingBeforeReport'
<1> USE DEF dbVars, workerVars, historyVars, budgetVars
<1>1. ASSUME NEW s \in Scans, CreateScan(s) \/ UploadStep(s)
      PROVE  NothingBeforeReport'
  BY <1>1 DEF UploadStep, CreateScan, SaveNormalized, NormalizeFails,
       MarkNormalized, MarkFailed, Dispatch, NothingBeforeReport, TypeOK
<1>2. CASE Crash
  BY <1>2 DEF Crash, NothingBeforeReport
<1>3. CASE UNCHANGED <<upload, findings>>
  BY <1>3 DEF NothingBeforeReport
<1>4. CASE ~ (Crash \/ \E s \in Scans : CreateScan(s) \/ UploadStep(s))
  <2>1. UNCHANGED <<upload, findings>>
    BY <1>4 DEF Next, Redispatch, StartVerify, RespondVerify, SaveStep,
         ReadBucket, WriteBucket, SaveFails, WorkerStep, CheckClaim, Claim,
         AlreadyClaimed, Snapshot, SnapshotFails, PickNext, ReplayVerdict,
         ReplayFails, CountVerdict, RecordError, PublishOne, Finish, vars
  <2> QED BY <1>3, <2>1
<1> QED BY <1>1, <1>2, <1>4

\* Every step names only findings that were supported before it.
LEMMA SupportStep ==
  ASSUME TypeOK, SavesAimed, NothingBeforeReport, AllNameSupported,
         VerdictsBelongToScan, [Next]_vars
  PROVE  AllNameSupported' /\ VerdictsBelongToScan'
<1> USE DEF dbVars, workerVars, historyVars, budgetVars
<1> DEFINE Goal == AllNameSupported' /\ VerdictsBelongToScan'
<1>0. /\ save \in [Savers -> SaveCalls] /\ todo \in [Workers -> SUBSET Idx]
      /\ verified \in [Scans -> Buckets]
      /\ EventLoop \in Savers /\ \A w \in Workers : w \in Savers
  BY DEF TypeOK, Savers
<1>1. \A s \in Scans, i \in Idx : IsSupported(s, i) => IsSupported(s, i)'
  BY SupportStays
\* What an action has to show: it names only what was supported before it.
<1>2. ASSUME /\ \A w \in Workers : \A i \in todo'[w] : IsSupported(w[1], i)
             /\ \A a \in Savers : save'[a].stage # "idle" =>
                  /\ save'[a].scan \in Scans /\ save'[a].idx \in Idx
                  /\ IsSupported(save'[a].scan, save'[a].idx)
             /\ \A a \in Savers : save'[a].stage = "write" =>
                  \A i \in Idx : save'[a].bucket[i] # Unverified
                    => IsSupported(save'[a].scan, i)
             /\ \A s \in Scans, i \in Idx :
                  verified'[s][i] # Unverified => IsSupported(s, i)
             /\ \A w \in Workers : todo'[w] \subseteq Idx
      PROVE  Goal
  <2>1. VerdictsBelongToScan'
    BY <1>1, <1>2 DEF VerdictsBelongToScan
  <2>2. \A w \in Workers : \A i \in todo'[w] : IsSupported(w[1], i)'
    BY <1>1, <1>2, WorkerParts
  <2>3. \A a \in Savers : (save[a].stage # "idle"
          => IsSupported(save[a].scan, save[a].idx))'
    BY <1>1, <1>2 DEF IsSupported, HasFinding
  <2>4. \A a \in Savers : (save[a].stage = "write" =>
          \A i \in Idx : save[a].bucket[i] # Unverified
            => IsSupported(save[a].scan, i))'
    <3> SUFFICES ASSUME NEW a \in Savers, save'[a].stage = "write",
                        NEW i \in Idx, save'[a].bucket[i] # Unverified
                 PROVE  IsSupported(save[a].scan, i)'
      OBVIOUS
    <3>1. save'[a].scan \in Scans /\ IsSupported(save'[a].scan, i)
      BY <1>2
    <3> QED BY <1>1, <3>1 DEF IsSupported, HasFinding
  <2> QED BY <2>1, <2>2, <2>3, <2>4 DEF AllNameSupported
<1>3. /\ \A w \in Workers : \A i \in todo[w] : IsSupported(w[1], i)
      /\ \A a \in Savers : save[a].stage # "idle" =>
           /\ save[a].scan \in Scans /\ save[a].idx \in Idx
           /\ IsSupported(save[a].scan, save[a].idx)
      /\ \A a \in Savers : save[a].stage = "write" =>
           \A i \in Idx : save[a].bucket[i] # Unverified
             => IsSupported(save[a].scan, i)
      /\ \A s \in Scans, i \in Idx :
           verified[s][i] # Unverified => IsSupported(s, i)
      /\ \A w \in Workers : todo[w] \subseteq Idx
  BY <1>0 DEF AllNameSupported, VerdictsBelongToScan, SavesAimed
<1>4. CASE UNCHANGED <<todo, save, verified>>
  BY <1>2, <1>3, <1>4
<1>5. ASSUME NEW a \in Savers, SaveStep(a) PROVE Goal
  <2>1. CASE ReadBucket(a)
    <3>1. /\ save'[a].bucket = verified[save[a].scan]
          /\ save'[a].scan = save[a].scan /\ save'[a].idx = save[a].idx
          /\ save[a].stage # "idle"
          /\ \A b \in Savers \ {a} : save'[b] = save[b]
          /\ UNCHANGED <<todo, verified>>
      BY <1>0, <2>1 DEF ReadBucket, SaveCalls
    <3> QED BY <1>2, <1>3, <3>1
  <2>2. CASE WriteBucket(a)
    <3> DEFINE s == save[a].scan
               i == save[a].idx
               v == save[a].verdict
               b == save[a].bucket
    <3>1. /\ save[a].stage = "write" /\ save'[a].stage = "ok"
          /\ save'[a].scan = s /\ save'[a].idx = i
          /\ \A c \in Savers \ {a} : save'[c] = save[c]
          /\ verified' = [verified EXCEPT ![s] = [b EXCEPT ![i] = v]]
          /\ UNCHANGED todo
      BY <1>0, <2>2 DEF WriteBucket, SaveCalls
    <3>2. b \in Buckets
      BY <1>0 DEF SaveCalls
    <3>3. \A t \in Scans, j \in Idx :
            verified'[t][j] # Unverified => IsSupported(t, j)
      BY <1>0, <1>3, <3>1, <3>2 DEF Buckets
    <3> QED BY <1>2, <1>3, <3>1, <3>3
  <2>3. CASE SaveFails(a)
    <3>1. /\ save'[a].stage = "failed" /\ save[a].stage # "idle"
          /\ save'[a].scan = save[a].scan /\ save'[a].idx = save[a].idx
          /\ \A b \in Savers \ {a} : save'[b] = save[b]
          /\ UNCHANGED <<todo, verified>>
      BY <1>0, <2>3 DEF SaveFails, SaveCalls
    <3> QED BY <1>2, <1>3, <3>1
  <2> QED BY <1>5, <2>1, <2>2, <2>3 DEF SaveStep
<1>6. ASSUME NEW s \in Scans, NEW i \in Idx, NEW v \in Verdicts,
             StartVerify(s, i, v)
      PROVE  Goal
  <2>1. /\ save'[EventLoop].scan = s /\ save'[EventLoop].idx = i
        /\ save'[EventLoop].stage = "read" /\ IsSupported(s, i)
        /\ \A b \in Savers \ {EventLoop} : save'[b] = save[b]
        /\ UNCHANGED <<todo, verified>>
    BY <1>0, <1>6 DEF StartVerify, BeginSave
  <2> QED BY <1>2, <1>3, <2>1
<1>7. ASSUME NEW a \in Savers, save' = [save EXCEPT ![a] = NoCall],
             UNCHANGED <<todo, verified>>
      PROVE  Goal
  <2>1. save'[a].stage = "idle" /\ \A b \in Savers \ {a} : save'[b] = save[b]
    BY <1>0, <1>7 DEF NoCall
  <2> QED BY <1>2, <1>3, <1>7, <2>1
<1>8. ASSUME NEW w \in Workers, WorkerStep(w) PROVE Goal
  <2>1. CASE Snapshot(w)
    <3>1. /\ todo'[w] = Candidates(w[1])
          /\ \A x \in Workers \ {w} : todo'[x] = todo[x]
          /\ UNCHANGED <<save, verified>>
      BY <1>0, <2>1 DEF Snapshot
    <3>2. \A i \in todo'[w] : i \in Idx /\ IsSupported(w[1], i)
      BY <3>1 DEF Candidates
    <3> QED BY <1>2, <1>3, <3>1, <3>2
  <2>2. ASSUME NEW i \in Idx, NEW v \in Verdicts, ReplayVerdict(w, i, v)
        PROVE  Goal
    <3>1. /\ save'[w].scan = w[1] /\ save'[w].idx = i
          /\ save'[w].stage = "read" /\ i \in todo[w]
          /\ \A b \in Savers \ {w} : save'[b] = save[b]
          /\ UNCHANGED <<todo, verified>>
      BY <1>0, <2>2 DEF ReplayVerdict, BeginSave, IsNext
    <3> QED BY <1>0, <1>2, <1>3, <3>1, WorkerParts
  <2>3. CASE CountVerdict(w) \/ RecordError(w)
    BY <1>0, <1>7, <2>3 DEF CountVerdict, RecordError
  <2>4. ASSUME NEW i \in Idx, PublishOne(w, i) PROVE Goal
    <3>1. /\ \A x \in Workers : todo'[x] \subseteq todo[x]
          /\ UNCHANGED <<save, verified>>
      BY <1>0, <2>4 DEF PublishOne
    <3> QED BY <1>2, <1>3, <3>1
  <2>5. CASE \/ CheckClaim(w) \/ Claim(w) \/ AlreadyClaimed(w) \/ SnapshotFails(w) \/ Finish(w)
             \/ \E i \in Idx : PickNext(w, i) \/ ReplayFails(w, i)
    BY <1>4, <2>5 DEF CheckClaim, Claim, AlreadyClaimed, SnapshotFails, Finish, PickNext,
         ReplayFails
  <2> QED BY <1>8, <2>1, <2>2, <2>3, <2>4, <2>5 DEF WorkerStep
<1>9. CASE RespondVerify
  BY <1>0, <1>7, <1>9 DEF RespondVerify
<1>10. CASE Crash
  <2>1. /\ \A w \in Workers : todo'[w] = {}
        /\ \A a \in Savers : save'[a].stage = "idle"
        /\ UNCHANGED verified
    BY <1>10 DEF Crash, NoCall
  <2> QED BY <1>2, <1>3, <2>1
<1>11. ASSUME NEW s \in Scans,
              \/ CreateScan(s) \/ UploadStep(s)
              \/ \E k \in 1..Dispatches : Redispatch(s, k)
       PROVE  Goal
  <2>1. UNCHANGED <<todo, save, verified>>
    BY <1>11 DEF UploadStep, CreateScan, SaveNormalized, NormalizeFails,
         MarkNormalized, MarkFailed, Dispatch, Redispatch
  <2> QED BY <1>4, <2>1
<1>12. CASE UNCHANGED vars
  BY <1>4, <1>12 DEF vars
<1> QED
  BY <1>5, <1>6, <1>8, <1>9, <1>10, <1>11, <1>12 DEF Next

\* A verdict is only ever stored under a finding of that same scan that some
\* verifier supports, whatever saves overlap and wherever the process dies:
\* a lost update loses a verdict but never invents one.
THEOREM VerdictsBelong == Spec => []VerdictsBelongToScan
<1> DEFINE Inv == NothingBeforeReport /\ AllNameSupported /\ VerdictsBelongToScan
<1>1. Init => Inv
  BY DEF Init, NothingBeforeReport, AllNameSupported, VerdictsBelongToScan,
       NoCall, EmptyBucket
<1>2. TypeOK /\ SavesAimed /\ Inv /\ [Next]_vars => Inv'
  BY ReportStep, SupportStep
<1>3. Inv => VerdictsBelongToScan
  OBVIOUS
<1> QED BY <1>1, <1>2, <1>3, TypeCorrect, PTL DEF Spec

-----------------------------------------------------------------------------
(* The life of a scan.  Its row follows the upload coroutine, and a thread  *)
(* is only ever dispatched for a scan whose report is stored.               *)

ScanLife ==
  /\ \A s \in Scans :
       /\ upload[s] = "none" => scans[s] = "ABSENT"
       /\ upload[s] \in {"reading", "saved", "failing"} => scans[s] = "UPLOADED"
       /\ upload[s] = "marked" => scans[s] = "NORMALIZED"
       /\ upload[s] = "saved" \/ scans[s] = "NORMALIZED"
            => findings[s] \in Reports
  /\ \A w \in Workers : pc[w] # "unborn" =>
       upload[w[1]] = "done" /\ scans[w[1]] = "NORMALIZED"

\* Every step keeps the row, the coroutine and the threads in agreement.
LEMMA ScanLifeStep ==
  ASSUME TypeOK, ScanLife, [Next]_vars
  PROVE  ScanLife'
<1> USE DEF dbVars, workerVars, historyVars, budgetVars
<1>0. /\ scans \in [Scans -> {"ABSENT", "UPLOADED", "NORMALIZED", "FAILED"}]
      /\ findings \in [Scans -> Reports \cup {<<>>}]
      /\ upload \in [Scans -> {"none", "reading", "saved", "marked",
                               "failing", "done"}]
      /\ pc \in [Workers -> RunSteps \cup {"unborn", "start", "claiming", "done", "dead"}]
      /\ \A s \in Scans, k \in 1..Dispatches : <<s, k>> \in Workers
      /\ 1 \in 1..Dispatches
  BY BoundsAssumption DEF TypeOK, Workers
<1>1. ASSUME UNCHANGED <<scans, findings, upload>>,
             \A w \in Workers : pc'[w] # "unborn" => pc[w] # "unborn"
      PROVE  ScanLife'
  BY <1>1 DEF ScanLife
<1>2. ASSUME NEW s \in Scans, CreateScan(s) \/ UploadStep(s)
      PROVE  ScanLife'
  <2>1. \A w \in Workers : w[1] = s /\ upload[s] # "done" => pc[w] = "unborn"
    BY DEF ScanLife
  <2>2. CASE CreateScan(s)
    BY <1>0, <2>1, <2>2, WorkerParts DEF CreateScan, ScanLife
  <2>3. CASE SaveNormalized(s)
    <3>1. PICK r \in Reports : findings' = [findings EXCEPT ![s] = r]
      BY <2>3 DEF SaveNormalized
    <3> QED BY <1>0, <2>1, <2>3, <3>1, WorkerParts DEF SaveNormalized, ScanLife
  <2>4. CASE NormalizeFails(s)
    BY <1>0, <2>1, <2>4, WorkerParts DEF NormalizeFails, ScanLife
  <2>5. CASE MarkNormalized(s)
    <3>1. upload[s] = "saved" /\ UNCHANGED <<findings, pc>>
      BY <2>5 DEF MarkNormalized
    <3>2. CASE /\ scans' = [scans EXCEPT ![s] = "NORMALIZED"]
               /\ upload' = [upload EXCEPT ![s] = "marked"]
      BY <1>0, <2>1, <3>1, <3>2, WorkerParts DEF ScanLife
    <3>3. CASE UNCHANGED scans /\ upload' = [upload EXCEPT ![s] = "failing"]
      BY <1>0, <2>1, <3>1, <3>3, WorkerParts DEF ScanLife
    <3> QED BY <2>5, <3>2, <3>3 DEF MarkNormalized
  <2>6. CASE MarkFailed(s)
    <3>1. /\ upload[s] = "failing" /\ UNCHANGED <<findings, pc>>
          /\ upload' = [upload EXCEPT ![s] = "done"]
      BY <2>6 DEF MarkFailed
    <3>2. CASE scans' = [scans EXCEPT ![s] = "FAILED"]
      BY <1>0, <2>1, <3>1, <3>2, WorkerParts DEF ScanLife
    <3>3. CASE UNCHANGED scans
      BY <1>0, <2>1, <3>1, <3>3, WorkerParts DEF ScanLife
    <3> QED BY <2>6, <3>2, <3>3 DEF MarkFailed
  <2>7. CASE Dispatch(s)
    BY <1>0, <2>7, WorkerParts DEF Dispatch, ScanLife
  <2> QED BY <1>2, <2>2, <2>3, <2>4, <2>5, <2>6, <2>7 DEF UploadStep
<1>3. ASSUME NEW s \in Scans, NEW k \in 1..Dispatches, Redispatch(s, k)
      PROVE  ScanLife'
  <2>1. upload[s] = "done" /\ scans[s] = "NORMALIZED"
    BY <1>0, <1>3 DEF Redispatch, ScanLife
  <2> QED BY <1>0, <1>3, <2>1, WorkerParts DEF Redispatch, ScanLife
<1>4. ASSUME NEW w \in Workers, WorkerStep(w) PROVE ScanLife'
  <2>1. /\ pc[w] # "unborn" /\ UNCHANGED <<scans, findings, upload>>
        /\ \A x \in Workers \ {w} : pc'[x] = pc[x]
    BY <1>0, <1>4 DEF WorkerStep, CheckClaim, Claim, AlreadyClaimed, Snapshot,
       SnapshotFails, PickNext, ReplayVerdict, ReplayFails, CountVerdict,
       RecordError, PublishOne, Finish
  <2> QED BY <1>1, <2>1
<1>5. CASE Crash
  <2>1. /\ \A w \in Workers : pc'[w] = "unborn"
        /\ UNCHANGED <<scans, findings>>
        /\ \A s \in Scans :
             upload'[s] = IF upload[s] = "none" THEN "none" ELSE "done"
    BY <1>5 DEF Crash
  <2> QED BY <2>1 DEF ScanLife
<1>6. CASE \/ \E s \in Scans, i \in Idx, v \in Verdicts : StartVerify(s, i, v)
           \/ RespondVerify
           \/ \E a \in Savers : SaveStep(a)
           \/ UNCHANGED vars
  <2>1. UNCHANGED <<scans, findings, upload, pc>>
    BY <1>6 DEF StartVerify, RespondVerify, SaveStep, ReadBucket, WriteBucket,
       SaveFails, vars
  <2> QED BY <1>1, <2>1
<1> QED BY <1>2, <1>3, <1>4, <1>5, <1>6 DEF Next

-----------------------------------------------------------------------------
(* What a thread saves.  The thread of a run calls save_verified_finding    *)
(* for its own scan and the finding of its queue it is at.                  *)

SaversRun ==
  \A w \in Workers : save[w].stage # "idle" =>
    pc[w] = "saving" /\ save[w].scan = w[1] /\ IsNext(w, save[w].idx)

\* A queue has one first finding.
LEMMA NextIsUnique ==
  ASSUME TypeOK, NEW w \in Workers, NEW i, NEW j, IsNext(w, i), IsNext(w, j)
  PROVE  i = j
<1>1. todo[w] \subseteq Idx /\ Idx \subseteq Nat
  BY BoundsAssumption DEF TypeOK, Idx
<1>2. i \in Nat /\ j \in Nat /\ i <= j /\ j <= i
  BY <1>1 DEF IsNext
<1> QED BY <1>2

\* Every step keeps a saving thread at the finding it is at.
LEMMA SaversStep ==
  ASSUME TypeOK, ScanLife, SaversRun, [Next]_vars
  PROVE  SaversRun'
<1> USE DEF dbVars, workerVars, historyVars, budgetVars
<1>0. /\ save \in [Savers -> SaveCalls]
      /\ pc \in [Workers -> RunSteps \cup {"unborn", "start", "claiming", "done", "dead"}]
      /\ todo \in [Workers -> SUBSET Idx]
      /\ EventLoop \in Savers /\ EventLoop \notin Workers
      /\ Savers = Workers \cup {EventLoop}
      /\ \A s \in Scans, k \in 1..Dispatches : <<s, k>> \in Workers
      /\ 1 \in 1..Dispatches
  BY EventLoopAssumption, BoundsAssumption DEF TypeOK, Savers, Workers
\* What a step has to show of the one thread it moves.
<1>1. ASSUME NEW w \in Workers,
             \A x \in Workers \ {w} :
               save'[x] = save[x] /\ pc'[x] = pc[x] /\ todo'[x] = todo[x],
             save'[w].stage # "idle" =>
               /\ pc'[w] = "saving" /\ save'[w].scan = w[1]
               /\ todo'[w] = todo[w] /\ IsNext(w, save'[w].idx)
      PROVE  SaversRun'
  BY <1>1 DEF SaversRun, IsNext
<1>2. ASSUME \A x \in Workers : save'[x] = save[x], UNCHANGED <<pc, todo>>
      PROVE  SaversRun'
  BY <1>2 DEF SaversRun, IsNext
<1>3. ASSUME NEW s \in Scans, CreateScan(s) \/ UploadStep(s)
      PROVE  SaversRun'
  <2>1. CASE Dispatch(s)
    <3>1. <<s, 1>> \in Workers /\ pc[<<s, 1>>] = "unborn"
      BY <1>0, <2>1 DEF Dispatch, ScanLife
    <3>2. /\ save[<<s, 1>>].stage = "idle" /\ UNCHANGED <<save, todo>>
          /\ \A x \in Workers \ {<<s, 1>>} : pc'[x] = pc[x]
      BY <1>0, <2>1, <3>1 DEF Dispatch, SaversRun
    <3> QED BY <1>1, <3>1, <3>2
  <2>2. CASE ~ Dispatch(s)
    BY <1>2, <1>3, <2>2 DEF UploadStep, CreateScan, SaveNormalized,
       NormalizeFails, MarkNormalized, MarkFailed
  <2> QED BY <2>1, <2>2
<1>4. ASSUME NEW s \in Scans, NEW k \in 1..Dispatches, Redispatch(s, k)
      PROVE  SaversRun'
  <2>1. /\ <<s, k>> \in Workers /\ save[<<s, k>>].stage = "idle"
        /\ UNCHANGED <<save, todo>>
        /\ \A x \in Workers \ {<<s, k>>} : pc'[x] = pc[x]
    BY <1>0, <1>4 DEF Redispatch, SaversRun
  <2> QED BY <1>1, <2>1
<1>5. ASSUME NEW a \in Savers, SaveStep(a) PROVE SaversRun'
  <2>1. /\ save[a].stage # "idle" /\ save'[a].scan = save[a].scan
        /\ save'[a].idx = save[a].idx
        /\ \A b \in Savers \ {a} : save'[b] = save[b]
        /\ UNCHANGED <<pc, todo>>
    <3>1. CASE ReadBucket(a)
      BY <1>0, <3>1 DEF ReadBucket, SaveCalls
    <3>2. CASE WriteBucket(a)
      BY <1>0, <3>2 DEF WriteBucket, SaveCalls
    <3>3. CASE SaveFails(a)
      BY <1>0, <3>3 DEF SaveFails, SaveCalls
    <3> QED BY <1>5, <3>1, <3>2, <3>3 DEF SaveStep
  <2>2. CASE a = EventLoop
    BY <1>0, <1>2, <2>1, <2>2
  <2>3. CASE a \in Workers
    <3>1. pc[a] = "saving" /\ save[a].scan = a[1] /\ IsNext(a, save[a].idx)
      BY <2>1, <2>3 DEF SaversRun
    <3>2. IsNext(a, save'[a].idx) /\ pc'[a] = "saving" /\ save'[a].scan = a[1]
      BY <2>1, <3>1
    <3> QED BY <1>0, <1>1, <2>1, <2>3, <3>2
  <2> QED BY <1>0, <2>2, <2>3
<1>6. ASSUME NEW w \in Workers, WorkerStep(w) PROVE SaversRun'
  <2>1. CASE CountVerdict(w) \/ RecordError(w)
    <3>1. /\ save'[w].stage = "idle"
          /\ \A x \in Workers \ {w} :
               save'[x] = save[x] /\ pc'[x] = pc[x] /\ todo'[x] = todo[x]
      BY <1>0, <2>1 DEF CountVerdict, RecordError, NoCall
    <3> QED BY <1>1, <3>1
  <2>2. ASSUME NEW i \in Idx, NEW v \in Verdicts, ReplayVerdict(w, i, v)
        PROVE  SaversRun'
    <3>1. /\ save'[w].scan = w[1] /\ save'[w].idx = i /\ IsNext(w, i)
          /\ pc'[w] = "saving" /\ todo'[w] = todo[w]
          /\ \A x \in Workers \ {w} :
               save'[x] = save[x] /\ pc'[x] = pc[x] /\ todo'[x] = todo[x]
      BY <1>0, <2>2 DEF ReplayVerdict, BeginSave
    <3> QED BY <1>1, <3>1
  <2>3. CASE \/ CheckClaim(w) \/ Claim(w) \/ AlreadyClaimed(w) \/ Snapshot(w)
             \/ SnapshotFails(w) \/ Finish(w)
             \/ \E i \in Idx :
                  PickNext(w, i) \/ ReplayFails(w, i) \/ PublishOne(w, i)
    <3>1. /\ pc[w] # "saving" /\ UNCHANGED save
          /\ \A x \in Workers \ {w} : pc'[x] = pc[x] /\ todo'[x] = todo[x]
      BY <1>0, <2>3 DEF CheckClaim, Claim, AlreadyClaimed, Snapshot, SnapshotFails,
         Finish, PickNext, ReplayFails, PublishOne
    <3> QED BY <1>1, <3>1 DEF SaversRun
  <2> QED BY <1>6, <2>1, <2>2, <2>3 DEF WorkerStep
<1>7. CASE \/ \E s \in Scans, i \in Idx, v \in Verdicts : StartVerify(s, i, v)
           \/ RespondVerify
  <2>1. /\ \A x \in Workers : save'[x] = save[x]
        /\ UNCHANGED <<pc, todo>>
    BY <1>0, <1>7 DEF StartVerify, BeginSave, RespondVerify
  <2> QED BY <1>2, <2>1
<1>8. CASE Crash
  BY <1>0, <1>8 DEF Crash, NoCall, SaversRun
<1>9. CASE UNCHANGED vars
  BY <1>2, <1>9 DEF vars
<1> QED
  BY <1>3, <1>4, <1>5, <1>6, <1>7, <1>8, <1>9 DEF Next

-----------------------------------------------------------------------------
(***************************************************************************)
(* The backend when only automatic runs verify (no manual verification is  *)
(* ever started) and no two calls claim a scan at the same time: no        *)
(* acknowledged verdict is lost, no verdict is overwritten, and the whole  *)
(* of it, with its threads, transactions, failing writes and restarts,     *)
(* implements VerdictLedger.                                               *)
(***************************************************************************)
(* Only runs save.  Without manual verifications the event loop never calls *)
(* save_verified_finding.                                                   *)

LoopNeverSaves == MaxManual = 0 /\ save[EventLoop].stage = "idle"

\* Every step keeps the event loop out of the verdicts.
LEMMA LoopNeverSavesStep ==
  ASSUME TypeOK, LoopNeverSaves, [Next]_vars
  PROVE  LoopNeverSaves'
<1> USE DEF dbVars, workerVars, historyVars, budgetVars
<1>0. /\ save \in [Savers -> SaveCalls] /\ manuals \in Nat
      /\ EventLoop \in Savers /\ EventLoop \notin Workers
  BY EventLoopAssumption DEF TypeOK, Savers
<1>1. CASE \E s \in Scans, i \in Idx, v \in Verdicts : StartVerify(s, i, v)
  BY <1>0, <1>1 DEF StartVerify, LoopNeverSaves
<1>2. CASE \E a \in Savers : SaveStep(a)
  BY <1>0, <1>2 DEF SaveStep, ReadBucket, WriteBucket, SaveFails,
     LoopNeverSaves
<1>3. ASSUME NEW w \in Workers, WorkerStep(w) PROVE LoopNeverSaves'
  <2>1. save'[EventLoop] = save[EventLoop]
    BY <1>0, <1>3 DEF WorkerStep, CheckClaim, Claim, AlreadyClaimed, Snapshot,
       SnapshotFails, PickNext, ReplayVerdict, ReplayFails, CountVerdict,
       RecordError, PublishOne, Finish, BeginSave
  <2> QED BY <2>1 DEF LoopNeverSaves
<1>4. CASE RespondVerify \/ Crash
  BY <1>0, <1>4 DEF RespondVerify, Crash, NoCall, LoopNeverSaves
<1>5. CASE \/ \E s \in Scans : CreateScan(s) \/ UploadStep(s)
           \/ \E s \in Scans, k \in 1..Dispatches : Redispatch(s, k)
           \/ UNCHANGED vars
  BY <1>5 DEF UploadStep, CreateScan, SaveNormalized, NormalizeFails,
     MarkNormalized, MarkFailed, Dispatch, Redispatch, LoopNeverSaves, vars
<1> QED BY <1>1, <1>2, <1>3, <1>4, <1>5 DEF Next

-----------------------------------------------------------------------------
(* One saver per scan.  The claim leaves a scan one run, the run saves one  *)
(* finding at a time: no two saves on a scan overlap.                      *)

NeverRaced == \A s \in Scans : raced[s] = FALSE

\* Two saves under way on one scan are the same save.
LEMMA OneSaver ==
  ASSUME LoopNeverSaves, SaversRun, RunnersClaimed,
         NEW a \in Savers, NEW b \in Savers,
         save[a].stage # "idle", save[b].stage # "idle",
         save[a].scan = save[b].scan
  PROVE  a \in Workers /\ a = b
<1>1. a \in Workers /\ b \in Workers
  BY DEF Savers, LoopNeverSaves
<1>2. /\ pc[a] = "saving" /\ a[1] = save[a].scan
      /\ pc[b] = "saving" /\ b[1] = save[b].scan
  BY <1>1 DEF SaversRun
<1> QED BY <1>1, <1>2 DEF RunnersClaimed, RunSteps

\* No step makes two saves overlap.
LEMMA NeverRacedStep ==
  ASSUME TypeOK, SavesAimed, LoopNeverSaves, SaversRun, RunnersClaimed,
         NeverRaced, [Next]_vars
  PROVE  NeverRaced'
<1> USE DEF historyVars
<1>1. CASE \A a \in Savers : ~ WriteBucket(a)
  <2>1. UNCHANGED raced
    <3>1. CASE \A a \in Savers : ~ SaveStep(a)
      BY <3>1, OnlySavesWrite
    <3>2. CASE \E a \in Savers : ReadBucket(a) \/ SaveFails(a)
      BY <3>2 DEF ReadBucket, SaveFails
    <3> QED BY <1>1, <3>1, <3>2 DEF SaveStep
  <2> QED BY <2>1 DEF NeverRaced
<1>2. ASSUME NEW a \in Savers, WriteBucket(a) PROVE NeverRaced'
  <2>1. save[a].stage = "write" /\ save[a].scan \in Scans
    BY <1>2 DEF WriteBucket, SavesAimed
  <2>2. ~ Overlaps(a, save[a].scan)
    BY <2>1, OneSaver DEF Overlaps
  <2>3. raced' = [raced EXCEPT ![save[a].scan] =
                    raced[save[a].scan] \/ Overlaps(a, save[a].scan)]
    BY <1>2 DEF WriteBucket
  <2> QED BY <2>1, <2>2, <2>3 DEF NeverRaced, TypeOK
<1> QED BY <1>1, <1>2

-----------------------------------------------------------------------------
(* The queue stays fresh.  Whatever a run still has to save is unverified:  *)
(* the snapshot was, and nobody else has saved on the scan since.           *)

\* The run has not saved finding i of its queue.
Unsaved(w, i) ==
  IsNext(w, i) => \/ pc[w] \in {"loop", "replay"}
                  \/ pc[w] = "saving" /\ save[w].stage # "ok"

QueueFresh ==
  \A w \in Workers : pc[w] \in {"loop", "replay", "saving", "publish"} =>
    \A i \in todo[w] : Unsaved(w, i) => verified[w[1]][i] = Unverified

\* A write of the run puts one verdict under a finding without one, and leaves
\* the other rows of the scan, and the other scans, as they are.
LEMMA WriteIsFirst ==
  ASSUME TypeOK, SavesAimed, LoopNeverSaves, SaversRun, NeverRaced,
         FreshBuckets, QueueFresh, NEW a \in Savers, WriteBucket(a)
  PROVE  /\ a \in Workers /\ pc[a] = "saving" /\ save[a].scan = a[1]
         /\ IsNext(a, save[a].idx)
         /\ verified[save[a].scan][save[a].idx] = Unverified
         /\ verified' = [verified EXCEPT ![save[a].scan] =
              [verified[save[a].scan] EXCEPT ![save[a].idx] = save[a].verdict]]
<1>1. save[a].stage = "write" /\ save[a].scan \in Scans
  BY DEF WriteBucket, SavesAimed
<1>2. a \in Workers
  BY <1>1 DEF Savers, LoopNeverSaves
<1>3. /\ pc[a] = "saving" /\ save[a].scan = a[1]
      /\ IsNext(a, save[a].idx) /\ save[a].idx \in todo[a]
  BY <1>1, <1>2 DEF SaversRun, IsNext
<1>4. Unsaved(a, save[a].idx)
  BY <1>1, <1>3 DEF Unsaved
<1>5. verified[save[a].scan][save[a].idx] = Unverified
  BY <1>2, <1>3, <1>4 DEF QueueFresh
<1>6. save[a].bucket = verified[save[a].scan]
  BY <1>1 DEF FreshBuckets, NeverRaced
<1> QED BY <1>2, <1>3, <1>5, <1>6 DEF WriteBucket

\* Every step keeps what a run has yet to save unverified.
LEMMA QueueFreshStep ==
  ASSUME TypeOK, SavesAimed, LoopNeverSaves, SaversRun, RunnersClaimed,
         NeverRaced, FreshBuckets, QueueFresh, [Next]_vars
  PROVE  QueueFresh'
<1> USE DEF dbVars, workerVars, historyVars, budgetVars
<1>0. /\ save \in [Savers -> SaveCalls]
      /\ verified \in [Scans -> Buckets]
      /\ pc \in [Workers -> RunSteps \cup {"unborn", "start", "claiming", "done", "dead"}]
      /\ todo \in [Workers -> SUBSET Idx]
      /\ \A w \in Workers : w \in Savers
      /\ EventLoop \notin Workers
      /\ \A s \in Scans, k \in 1..Dispatches : <<s, k>> \in Workers
      /\ 1 \in 1..Dispatches
  BY EventLoopAssumption, BoundsAssumption DEF TypeOK, Savers, Workers
\* What a step that writes no verdict has to show of the thread it moves.
<1>1. ASSUME NEW w \in Workers, UNCHANGED verified,
             \A x \in Workers \ {w} :
               pc'[x] = pc[x] /\ todo'[x] = todo[x] /\ save'[x] = save[x],
             pc'[w] \in {"loop", "replay", "saving", "publish"} =>
               \A i \in todo'[w] : Unsaved(w, i)' =>
                 verified[w[1]][i] = Unverified
      PROVE  QueueFresh'
  <2>1. \A x \in Workers \ {w} : \A i : Unsaved(x, i)' <=> Unsaved(x, i)
    BY <1>1 DEF Unsaved, IsNext
  <2> QED BY <1>1, <2>1 DEF QueueFresh
<1>2. CASE UNCHANGED <<verified, pc, todo, save>>
  BY <1>2 DEF QueueFresh, Unsaved, IsNext
<1>3. ASSUME NEW s \in Scans, NEW k \in 1..Dispatches,
             pc' = [pc EXCEPT ![<<s, k>>] = "start"],
             UNCHANGED <<verified, todo, save>>
      PROVE  QueueFresh'
  <2>1. <<s, k>> \in Workers /\ pc'[<<s, k>>] = "start"
    BY <1>0, <1>3
  <2> QED BY <1>0, <1>1, <1>3, <2>1
<1>4. ASSUME NEW s \in Scans, CreateScan(s) \/ UploadStep(s)
      PROVE  QueueFresh'
  <2>1. CASE Dispatch(s)
    BY <1>0, <1>3, <2>1 DEF Dispatch
  <2>2. CASE ~ Dispatch(s)
    BY <1>2, <1>4, <2>2 DEF UploadStep, CreateScan, SaveNormalized,
       NormalizeFails, MarkNormalized, MarkFailed
  <2> QED BY <2>1, <2>2
<1>5. ASSUME NEW s \in Scans, NEW k \in 1..Dispatches, Redispatch(s, k)
      PROVE  QueueFresh'
  BY <1>3, <1>5 DEF Redispatch
<1>6. ASSUME NEW a \in Savers, SaveStep(a) PROVE QueueFresh'
  <2>1. save[a].stage # "idle" /\ save[a].stage # "ok" /\ UNCHANGED <<pc, todo>>
    BY <1>6 DEF SaveStep, ReadBucket, WriteBucket, SaveFails
  <2>2. a \in Workers
    BY <2>1 DEF Savers, LoopNeverSaves
  <2>3. pc[a] = "saving"
    BY <2>1, <2>2 DEF SaversRun
  <2>4. \A x \in Workers \ {a} : save'[x] = save[x]
    BY <1>0, <1>6 DEF SaveStep, ReadBucket, WriteBucket, SaveFails
  <2>5. CASE ReadBucket(a) \/ SaveFails(a)
    <3>1. UNCHANGED verified
      BY <2>5 DEF ReadBucket, SaveFails
    <3>2. \A i \in todo[a] : verified[a[1]][i] = Unverified
      BY <2>1, <2>2, <2>3 DEF QueueFresh, Unsaved
    <3> QED BY <1>1, <2>1, <2>2, <2>4, <3>1, <3>2
  <2>6. CASE WriteBucket(a)
    <3> DEFINE n == save[a].idx
               s == save[a].scan
    <3>0. s \in Scans /\ n \in Idx /\ save'[a].stage = "ok"
      BY <1>0, <2>1, <2>6 DEF WriteBucket, SavesAimed, SaveCalls
    <3>1. /\ s = a[1] /\ IsNext(a, n)
          /\ verified' = [verified EXCEPT ![s] =
                            [verified[s] EXCEPT ![n] = save[a].verdict]]
      BY <2>6, WriteIsFirst
    <3> SUFFICES ASSUME NEW x \in Workers,
                        pc'[x] \in {"loop", "replay", "saving", "publish"},
                        NEW i \in todo'[x], Unsaved(x, i)'
                 PROVE  verified'[x[1]][i] = Unverified
      BY DEF QueueFresh
    <3>2. pc[x] = pc'[x] /\ todo[x] = todo'[x]
      BY <2>1
    <3>3. CASE x = a
      <4>1. ~ IsNext(a, i)
        BY <2>1, <2>3, <3>0, <3>1, <3>3 DEF Unsaved, IsNext
      <4>2. verified[s][i] = Unverified
        BY <2>1, <2>3, <3>1, <3>2, <3>3, <4>1 DEF QueueFresh, Unsaved
      <4> QED BY <1>0, <3>0, <3>1, <3>3, <4>1, <4>2 DEF Buckets
    <3>4. CASE x # a
      <4>1. x[1] # s
        BY <2>2, <2>3, <3>1, <3>2, <3>4 DEF RunnersClaimed, RunSteps
      <4>2. Unsaved(x, i)
        BY <2>1, <2>4, <3>4 DEF Unsaved, IsNext
      <4>3. verified[x[1]][i] = Unverified
        BY <3>2, <4>2 DEF QueueFresh
      <4> QED BY <1>0, <3>0, <3>1, <4>1, <4>3, WorkerParts
    <3> QED BY <3>3, <3>4
  <2> QED BY <1>6, <2>5, <2>6 DEF SaveStep
<1>7. ASSUME NEW w \in Workers, WorkerStep(w) PROVE QueueFresh'
  <2>0. /\ UNCHANGED verified
        /\ \A x \in Workers \ {w} :
             pc'[x] = pc[x] /\ todo'[x] = todo[x] /\ save'[x] = save[x]
    BY <1>0, <1>7 DEF WorkerStep, CheckClaim, Claim, AlreadyClaimed, Snapshot,
       SnapshotFails, PickNext, ReplayVerdict, ReplayFails, CountVerdict,
       RecordError, PublishOne, Finish, BeginSave
  <2>1. CASE CheckClaim(w) \/ Claim(w) \/ AlreadyClaimed(w) \/ SnapshotFails(w) \/ Finish(w)
    <3>1. pc'[w] \notin {"loop", "replay", "saving", "publish"}
      BY <1>0, <2>1 DEF CheckClaim, Claim, AlreadyClaimed, SnapshotFails, Finish
    <3> QED BY <1>1, <2>0, <3>1
  <2>2. CASE Snapshot(w)
    <3>1. todo'[w] = Candidates(w[1])
      BY <1>0, <2>2 DEF Snapshot
    <3>2. \A i \in todo'[w] : verified[w[1]][i] = Unverified
      BY <3>1 DEF Candidates
    <3> QED BY <1>1, <2>0, <3>2
  <2>3. CASE \/ \E i \in Idx : PickNext(w, i)
             \/ \E i \in Idx, v \in Verdicts : ReplayVerdict(w, i, v)
    <3>1. pc[w] \in {"loop", "replay"} /\ todo'[w] = todo[w]
      BY <2>3 DEF PickNext, ReplayVerdict
    <3>2. \A i \in todo[w] : verified[w[1]][i] = Unverified
      BY <3>1 DEF QueueFresh, Unsaved
    <3> QED BY <1>1, <2>0, <3>1, <3>2
  <2>4. CASE \/ \E i \in Idx : ReplayFails(w, i)
             \/ CountVerdict(w) \/ RecordError(w)
    <3>1. /\ pc[w] \in {"replay", "saving"} /\ todo'[w] = todo[w]
          /\ pc'[w] = "publish"
      BY <1>0, <2>4 DEF ReplayFails, CountVerdict, RecordError
    <3>2. \A i \in todo[w] : Unsaved(w, i)' => Unsaved(w, i)
      BY <3>1 DEF Unsaved, IsNext
    <3> QED BY <1>1, <2>0, <3>1, <3>2 DEF QueueFresh
  <2>5. ASSUME NEW i \in Idx, PublishOne(w, i) PROVE QueueFresh'
    <3>1. /\ pc[w] = "publish" /\ IsNext(w, i)
          /\ todo'[w] = todo[w] \ {i}
      BY <1>0, <2>5 DEF PublishOne
    <3>2. \A j \in todo'[w] : j \in todo[w] /\ Unsaved(w, j)
      BY <3>1, NextIsUnique DEF Unsaved
    <3> QED BY <1>1, <2>0, <3>1, <3>2 DEF QueueFresh
  <2> QED BY <1>7, <2>1, <2>2, <2>3, <2>4, <2>5 DEF WorkerStep
<1>8. CASE \/ \E s \in Scans, i \in Idx, v \in Verdicts : StartVerify(s, i, v)
           \/ RespondVerify
  BY <1>0, <1>8 DEF StartVerify, RespondVerify, LoopNeverSaves, TypeOK
<1>9. CASE Crash
  BY <1>9 DEF Crash, QueueFresh
<1>10. CASE UNCHANGED vars
  BY <1>2, <1>10 DEF vars
<1> QED BY <1>4, <1>5, <1>6, <1>7, <1>8, <1>9, <1>10 DEF Next

-----------------------------------------------------------------------------
(* The two theorems. *)

AutoInv ==
  /\ TypeOK /\ SavesAimed
  /\ ScanLife
  /\ LoopNeverSaves /\ SaversRun
  /\ ClaimsHeld /\ RunnersClaimed /\ NeverRaced
  /\ NoLossWithoutOverlap /\ FreshBuckets
  /\ QueueFresh
  /\ NothingBeforeReport /\ AllNameSupported /\ VerdictsBelongToScan

\* A scan two calls have been about to claim at once stays so named.
LEMMA DoubledGrows == [Next]_vars => doubled \subseteq doubled'
<1> SUFFICES ASSUME [Next]_vars PROVE doubled \subseteq doubled'
  OBVIOUS
<1> USE DEF dbVars, workerVars, historyVars, budgetVars
<1>1. CASE \E w \in Workers : CheckClaim(w)
  BY <1>1 DEF CheckClaim
<1>2. CASE ~ \E w \in Workers : CheckClaim(w)
  BY <1>2 DEF Next, UploadStep, CreateScan, SaveNormalized, NormalizeFails,
     MarkNormalized, MarkFailed, Dispatch, Redispatch, StartVerify,
     RespondVerify, SaveStep, ReadBucket, WriteBucket, SaveFails,
     WorkerStep, Claim, AlreadyClaimed, Snapshot, SnapshotFails, PickNext,
     ReplayVerdict, ReplayFails, CountVerdict, RecordError, PublishOne,
     Finish, Crash, vars
<1> QED BY <1>1, <1>2

\* The invariant of a backend whose runs alone verify: it holds until two calls
\* have been about to claim one scan.
LEMMA AutoInvariant ==
  MaxManual = 0 /\ Spec => [](ClaimsApart => AutoInv)
<1>1. MaxManual = 0 /\ Init => AutoInv
  <2> SUFFICES ASSUME MaxManual = 0, Init PROVE AutoInv
    OBVIOUS
  <2>1. TypeOK
    BY TypeInit
  <2>2. \A a \in Savers : save[a] = NoCall
    BY DEF Init
  <2>3. NoCall.stage = "idle" /\ EventLoop \in Savers
        /\ \A w \in Workers : w \in Savers
    BY DEF NoCall, Savers
  <2>4. SavesAimed /\ LoopNeverSaves /\ SaversRun /\ FreshBuckets
    BY <2>2, <2>3 DEF SavesAimed, LoopNeverSaves, SaversRun, FreshBuckets
  <2>5. ScanLife /\ NeverRaced /\ NoLossWithoutOverlap /\ QueueFresh
    BY WorkerParts DEF Init, ScanLife, NeverRaced, NoLossWithoutOverlap,
       QueueFresh
  <2>6. ClaimsHeld /\ RunnersClaimed
    BY ClaimsHeldInit, RunnersHold DEF Init, ClaimsApart
  <2>7. NothingBeforeReport /\ AllNameSupported /\ VerdictsBelongToScan
    BY <2>2, <2>3 DEF Init, NothingBeforeReport, AllNameSupported,
       VerdictsBelongToScan, EmptyBucket
  <2> QED BY <2>1, <2>4, <2>5, <2>6, <2>7 DEF AutoInv
<1>2. AutoInv /\ [Next]_vars /\ ClaimsApart' => AutoInv'
  <2> SUFFICES ASSUME AutoInv, [Next]_vars, ClaimsApart' PROVE AutoInv'
    OBVIOUS
  <2> USE DEF AutoInv
  <2>1. TypeOK' /\ SavesAimed'
    BY TypeStep
  <2>2. ScanLife'
    BY ScanLifeStep
  <2>3. LoopNeverSaves' /\ SaversRun'
    BY LoopNeverSavesStep, SaversStep
  <2>4. ClaimsHeld' /\ RunnersClaimed' /\ NeverRaced'
    <3>1. ClaimsHeld'
      BY ClaimsHeldStep
    <3>2. RunnersClaimed'
      BY <3>1 DEF ClaimsHeld, ClaimsApart, RunnersClaimed
    <3> QED BY <3>1, <3>2, NeverRacedStep
  <2>5. NoLossWithoutOverlap' /\ FreshBuckets'
    BY NoLossStep
  <2>6. QueueFresh'
    BY QueueFreshStep
  <2>7. NothingBeforeReport' /\ AllNameSupported' /\ VerdictsBelongToScan'
    BY ReportStep, SupportStep
  <2> QED BY <2>1, <2>2, <2>3, <2>4, <2>5, <2>6, <2>7
<1>3. [Next]_vars /\ ClaimsApart' => ClaimsApart
  BY DoubledGrows DEF ClaimsApart
<1> QED BY <1>1, <1>2, <1>3, PTL DEF Spec

\* When only automatic runs verify, and no two calls have been about to claim
\* a scan at the same time, every verdict a save has acknowledged is the stored
\* one: the claim leaves a scan one saver, whatever scans run side
\* by side, whatever transactions fail and wherever the process is killed.
THEOREM AutoLosesNothing ==
  MaxManual = 0 /\ Spec /\ []ClaimsApart => []NoAcknowledgedVerdictLost
<1>1. AutoInv => NoAcknowledgedVerdictLost
  BY DEF AutoInv, NoLossWithoutOverlap, NeverRaced, NoAcknowledgedVerdictLost
<1> QED BY <1>1, AutoInvariant, PTL

\* A step of the backend is a step of the ledger or none: the row is accepted,
\* normalized or rejected when its status is written, and a verdict recorded
\* when a thread's second transaction commits.
LEMMA LedgerStep ==
  ASSUME AutoInv, [Next]_vars
  PROVE  [Ledger!Next]_(Ledger!ledgerVars)
<1> USE DEF dbVars, workerVars, historyVars, budgetVars
<1> DEFINE Shown == [s \in Scans |->
                       IF scans[s] = "NORMALIZED" THEN findings[s] ELSE <<>>]
<1>0. /\ scans \in [Scans -> {"ABSENT", "UPLOADED", "NORMALIZED", "FAILED"}]
      /\ findings \in [Scans -> Reports \cup {<<>>}]
      /\ save \in [Savers -> SaveCalls]
      /\ verified \in [Scans -> Buckets]
  BY DEF AutoInv, TypeOK
<1>1. CASE UNCHANGED <<scans, findings, verified>>
  BY <1>1 DEF Ledger!ledgerVars
<1>2. ASSUME NEW s \in Scans, CreateScan(s)
      PROVE  Ledger!Next
  <2>1. scans[s] = "ABSENT" /\ scans' = [scans EXCEPT ![s] = "UPLOADED"]
        /\ UNCHANGED <<findings, verified>>
    BY <1>2 DEF CreateScan, AutoInv, ScanLife
  <2>2. Shown' = Shown
    BY <1>0, <2>1
  <2> QED BY <2>1, <2>2 DEF Ledger!Next, Ledger!Accept
<1>3. ASSUME NEW s \in Scans, SaveNormalized(s)
      PROVE  UNCHANGED Ledger!ledgerVars
  <2>1. PICK r \in Reports : findings' = [findings EXCEPT ![s] = r]
    BY <1>3 DEF SaveNormalized
  <2>2. scans[s] = "UPLOADED" /\ UNCHANGED <<scans, verified>>
    BY <1>3 DEF SaveNormalized, AutoInv, ScanLife
  <2>3. Shown' = Shown
    BY <1>0, <2>1, <2>2
  <2> QED BY <2>2, <2>3 DEF Ledger!ledgerVars
<1>4. ASSUME NEW s \in Scans, MarkNormalized(s)
      PROVE  Ledger!Next \/ UNCHANGED Ledger!ledgerVars
  <2>1. scans[s] = "UPLOADED" /\ findings[s] \in Reports
        /\ UNCHANGED <<findings, verified>>
    BY <1>4 DEF MarkNormalized, AutoInv, ScanLife
  <2>2. CASE scans' = [scans EXCEPT ![s] = "NORMALIZED"]
    <3>1. PICK r \in Reports : r = findings[s]
      BY <2>1
    <3>2. Shown' = [Shown EXCEPT ![s] = r]
      BY <1>0, <2>1, <2>2, <3>1
    <3>3. Ledger!Normalize(s, r)
      BY <2>1, <2>2, <3>2 DEF Ledger!Normalize
    <3> QED BY <3>3 DEF Ledger!Next
  <2>3. CASE UNCHANGED scans
    BY <2>1, <2>3 DEF Ledger!ledgerVars
  <2> QED BY <1>4, <2>2, <2>3 DEF MarkNormalized
<1>5. ASSUME NEW s \in Scans, MarkFailed(s)
      PROVE  Ledger!Next \/ UNCHANGED Ledger!ledgerVars
  <2>1. scans[s] = "UPLOADED" /\ UNCHANGED <<findings, verified>>
    BY <1>5 DEF MarkFailed, AutoInv, ScanLife
  <2>2. CASE scans' = [scans EXCEPT ![s] = "FAILED"]
    <3>1. Shown' = Shown
      BY <1>0, <2>1, <2>2
    <3>2. Ledger!Reject(s)
      BY <2>1, <2>2, <3>1 DEF Ledger!Reject
    <3> QED BY <3>2 DEF Ledger!Next
  <2>3. CASE UNCHANGED scans
    BY <2>1, <2>3 DEF Ledger!ledgerVars
  <2> QED BY <1>5, <2>2, <2>3 DEF MarkFailed
<1>6. ASSUME NEW a \in Savers, WriteBucket(a) PROVE Ledger!Next
  <2> DEFINE s == save[a].scan
             i == save[a].idx
             v == save[a].verdict
  <2>1. /\ save[a].stage # "idle" /\ UNCHANGED <<scans, findings>>
        /\ s \in Scans /\ i \in Idx /\ v \in Verdicts
    BY <1>6 DEF WriteBucket, AutoInv, SavesAimed
  <2>2. /\ a \in Workers /\ pc[a] = "saving" /\ s = a[1]
        /\ verified[s][i] = Unverified
        /\ verified' = [verified EXCEPT ![s] = [verified[s] EXCEPT ![i] = v]]
    BY <1>6, WriteIsFirst DEF AutoInv
  <2>3. scans[s] = "NORMALIZED"
    BY <2>2 DEF AutoInv, ScanLife
  <2>4. i \in 1..Len(findings[s]) /\ findings[s][i] \in Supported
    BY <2>1 DEF AutoInv, AllNameSupported, IsSupported, HasFinding
  <2>5. Shown' = Shown /\ Shown[s] = findings[s]
    BY <2>1, <2>3
  <2>6. Ledger!Record(s, i, v)
    BY <2>1, <2>2, <2>3, <2>4, <2>5 DEF Ledger!Record
  <2> QED BY <2>1, <2>6 DEF Ledger!Next
<1>7. CASE /\ ~ \E s \in Scans : \/ CreateScan(s) \/ SaveNormalized(s)
                                 \/ MarkNormalized(s) \/ MarkFailed(s)
           /\ ~ \E a \in Savers : WriteBucket(a)
  <2>1. UNCHANGED <<scans, findings, verified>>
    BY <1>7 DEF Next, UploadStep, NormalizeFails, Dispatch, Redispatch,
       StartVerify, RespondVerify, SaveStep, ReadBucket, SaveFails,
       WorkerStep, CheckClaim, Claim, AlreadyClaimed, Snapshot, SnapshotFails, PickNext,
       ReplayVerdict, ReplayFails, CountVerdict, RecordError, PublishOne,
       Finish, Crash, vars
  <2> QED BY <1>1, <2>1
<1> QED BY <1>2, <1>3, <1>4, <1>5, <1>6, <1>7

\* The backend implements the ledger when only automatic runs verify, until two
\* calls have been about to claim one scan: a client sees a scan accepted,
\* normalized or rejected once, and at most one verdict per supported finding,
\* which stays.
THEOREM AutoImplementsLedger == MaxManual = 0 /\ Spec => ImplementsLedger
<1>1. Init => Ledger!Init
  BY DEF Init, Ledger!Init, EmptyBucket
<1>2. ASSUME ClaimsApart => AutoInv, [Next]_vars
      PROVE  [Ledger!Next \/ doubled' # {}]_(Ledger!ledgerVars)
  <2>1. CASE doubled' = {}
    <3>1. ClaimsApart
      BY <1>2, <2>1, DoubledGrows DEF ClaimsApart
    <3> QED BY <1>2, <3>1, LedgerStep
  <2> QED BY <2>1
<1> QED BY <1>1, <1>2, AutoInvariant, PTL DEF Spec, ImplementsLedger

-----------------------------------------------------------------------------
(***************************************************************************)
(* What a poll is told: the progress a run publishes, the verdicts and     *)
(* errors it counts and the findings it leaves behind add up, whatever     *)
(* else the backend does meanwhile.                                        *)
(***************************************************************************)
Settled(w) == Counted(w) + Cardinality(errors[w])

\* The steps of a thread that has read its queue and is not through with it.
UnderWay == {"loop", "replay", "saving", "publish"}

\* The published copy is this thread's.
Published(w) == progress[w[1]].by = w[2]

\* The finding is in the queue and has no outcome yet.
Pending(w, i) == i \in todo[w] /\ (IsNext(w, i) => pc[w] # "publish")

\* The books of a thread that has read its queue.
Balanced(w) ==
  /\ total[w] = completed[w] + Cardinality(todo[w])
  /\ Settled(w) = completed[w] + IF pc[w] = "publish" THEN 1 ELSE 0
  /\ pc[w] = "publish" => todo[w] # {}
  /\ pc[w] = "done" => todo[w] = {}
  /\ \A i \in errors[w] : ~ Pending(w, i)

\* The copy a poll gets is what the thread's own books say.
Faithful(w) ==
  LET p == progress[w[1]] IN
  /\ pc[w] \in UnderWay \cup {"done"}
  /\ p.status = IF pc[w] = "done" THEN "COMPLETED" ELSE "RUNNING"
  /\ p.total = total[w] /\ p.completed = completed[w]

ThreadBooks(w) ==
  /\ pc[w] \in {"unborn", "start", "claiming", "snapshot"}
       => completed[w] = 0 /\ counts[w] = NoCounts /\ errors[w] = {}
  /\ pc[w] \in UnderWay => Published(w)
  /\ Published(w) => Faithful(w) /\ Balanced(w)

Books ==
  /\ \A s \in Scans : progress[s].by = 0 => progress[s].status = "NOT_STARTED"
  /\ \A w \in Workers : ThreadBooks(w)

\* A stored verdict, and one about to be stored again, has been acknowledged.
StoredIsAcked ==
  /\ \A s \in Scans, i \in Idx :
       verified[s][i] # Unverified => acked[s][i] # Unverified
  /\ \A a \in Savers : save[a].stage = "write" =>
       \A i \in Idx : save[a].bucket[i] # Unverified =>
         acked[save[a].scan][i] # Unverified
  /\ \A a \in Savers : save[a].stage = "ok" =>
       acked[save[a].scan][save[a].idx] # Unverified

\* Every finding a verifier supports has an outcome or is still pending.
Accounted(w) ==
  \A i \in Idx : IsSupported(w[1], i) =>
    acked[w[1]][i] # Unverified \/ i \in errors[w] \/ Pending(w, i)

AllAccounted == \A w \in Workers : Published(w) => Accounted(w)

-----------------------------------------------------------------------------
(* The books of a thread balance.                                          *)

\* What is counted is a number, and what is queued or listed a finite set.
LEMMA BooksType ==
  ASSUME TypeOK, NEW w \in Workers
  PROVE  /\ Counted(w) \in Nat /\ total[w] \in Nat /\ completed[w] \in Nat
         /\ IsFiniteSet(todo[w]) /\ Cardinality(todo[w]) \in Nat
         /\ IsFiniteSet(errors[w]) /\ Cardinality(errors[w]) \in Nat
         /\ Settled(w) = Counted(w) + Cardinality(errors[w])
<1>1. IsFiniteSet(Idx)
  BY FS_Interval, BoundsAssumption DEF Idx
<1>2. todo[w] \subseteq Idx /\ errors[w] \subseteq Idx
  BY DEF TypeOK
<1>3. IsFiniteSet(todo[w]) /\ IsFiniteSet(errors[w])
  BY <1>1, <1>2, FS_Subset
<1>4. Cardinality(todo[w]) \in Nat /\ Cardinality(errors[w]) \in Nat
  BY <1>3, FS_CardinalityType
<1>5. Counted(w) \in Nat /\ total[w] \in Nat /\ completed[w] \in Nat
  <2>1. counts[w] \in [Verdicts -> Nat]
    BY DEF TypeOK
  <2>2. /\ counts[w]["TRUE_POSITIVE"] \in Nat
        /\ counts[w]["FALSE_POSITIVE"] \in Nat
        /\ counts[w]["INCONCLUSIVE"] \in Nat
    BY <2>1 DEF Verdicts
  <2> QED BY <2>2 DEF Counted, TypeOK
<1> QED BY <1>3, <1>4, <1>5 DEF Settled

\* A step of one thread, that publishes under its own number only while it
\* runs, has to show its own books in order.
LEMMA OneThreadsBooks ==
  ASSUME TypeOK, RunnersClaimed, Books, NEW w \in Workers,
         \A x \in Workers \ {w} :
           /\ pc'[x] = pc[x] /\ todo'[x] = todo[x] /\ total'[x] = total[x]
           /\ completed'[x] = completed[x] /\ counts'[x] = counts[x]
           /\ errors'[x] = errors[x],
         \A s \in Scans \ {w[1]} : progress'[s] = progress[s],
         \/ progress'[w[1]] = progress[w[1]]
         \/ pc[w] \in RunSteps /\ progress'[w[1]].by = w[2],
         ThreadBooks(w)'
  PROVE  Books'
<1>1. w[1] \in Scans /\ w[2] # 0
  BY WorkerParts, BoundsAssumption
<1>2. \A s \in Scans :
        progress'[s].by = 0 => progress'[s].status = "NOT_STARTED"
  BY <1>1 DEF Books
<1>3. ASSUME NEW x \in Workers, x # w PROVE ThreadBooks(x)'
  <2>1. ThreadBooks(x) /\ x[1] \in Scans
    BY WorkerParts DEF Books
  <2>2. CASE progress'[x[1]] = progress[x[1]]
    <3>1. /\ Published(x)' <=> Published(x)
          /\ Counted(x)' = Counted(x) /\ Settled(x)' = Settled(x)
      BY <1>3, <2>2 DEF Published, Counted, Settled
    <3>2. \A i : Pending(x, i)' <=> Pending(x, i)
      BY <1>3 DEF Pending, IsNext
    <3>3. Faithful(x)' <=> Faithful(x)
      BY <1>3, <2>2 DEF Faithful
    <3>4. Balanced(x)' <=> Balanced(x)
      BY <1>3, <3>1, <3>2 DEF Balanced
    <3> QED BY <1>3, <2>1, <3>1, <3>3, <3>4 DEF ThreadBooks
  <2>3. CASE progress'[x[1]] # progress[x[1]]
    <3>1. x[1] = w[1] /\ pc[w] \in RunSteps /\ progress'[w[1]].by = w[2]
      BY <2>1, <2>3
    <3>2. x[2] # w[2]
      BY <1>3, <3>1, WorkerParts
    <3>3. pc[x] \notin RunSteps
      BY <1>3, <3>1 DEF RunnersClaimed
    <3>4. ~ Published(x)' /\ pc'[x] \notin UnderWay
      BY <1>3, <3>1, <3>2, <3>3 DEF Published, UnderWay, RunSteps
    <3> QED BY <1>3, <2>1, <3>4 DEF ThreadBooks
  <2> QED BY <2>2, <2>3
<1> QED BY <1>2, <1>3 DEF Books

\* A thread that has not read its queue has published nothing.
LEMMA UnreadUnpublished ==
  ASSUME Books, NEW w \in Workers, pc[w] \in {"unborn", "start", "claiming", "snapshot"}
  PROVE  ~ Published(w)
BY DEF Books, ThreadBooks, Faithful, UnderWay

\* Every step of a thread keeps the books balanced and the copy faithful.
LEMMA BooksWorker ==
  ASSUME TypeOK, SavesAimed, SaversRun, RunnersClaimed, Books,
         NEW w \in Workers, WorkerStep(w)
  PROVE  Books'
<1> USE DEF dbVars, workerVars, historyVars, budgetVars
<1>0. /\ pc \in [Workers -> RunSteps \cup {"unborn", "start", "claiming", "done", "dead"}]
      /\ todo \in [Workers -> SUBSET Idx] /\ total \in [Workers -> Nat]
      /\ completed \in [Workers -> Nat]
      /\ counts \in [Workers -> [Verdicts -> Nat]]
      /\ errors \in [Workers -> SUBSET Idx]
      /\ progress \in [Scans -> ProgressViews]
      /\ w[1] \in Scans /\ w[2] \in 1..Dispatches
  BY WorkerParts DEF TypeOK
<1>b. /\ Counted(w) \in Nat /\ total[w] \in Nat /\ completed[w] \in Nat
      /\ IsFiniteSet(todo[w]) /\ Cardinality(todo[w]) \in Nat
      /\ IsFiniteSet(errors[w]) /\ Cardinality(errors[w]) \in Nat
      /\ Settled(w) = Counted(w) + Cardinality(errors[w])
  BY BooksType
<1>t. ThreadBooks(w)
  BY DEF Books
<1>o. \A x \in Workers \ {w} :
        /\ pc'[x] = pc[x] /\ todo'[x] = todo[x] /\ total'[x] = total[x]
        /\ completed'[x] = completed[x] /\ counts'[x] = counts[x]
        /\ errors'[x] = errors[x]
  BY <1>0 DEF WorkerStep, CheckClaim, Claim, AlreadyClaimed, Snapshot, SnapshotFails,
     PickNext, ReplayVerdict, ReplayFails, CountVerdict, RecordError,
     PublishOne, Finish
<1>1. CASE CheckClaim(w) \/ Claim(w) \/ AlreadyClaimed(w) \/ SnapshotFails(w)
  <2>1. /\ pc[w] \in {"start", "claiming", "snapshot"}
        /\ pc'[w] \in {"claiming", "snapshot", "done", "dead"}
        /\ UNCHANGED <<progress, todo, total, completed, counts, errors>>
    BY <1>0, <1>1 DEF CheckClaim, Claim, AlreadyClaimed, SnapshotFails
  <2>2. ~ Published(w)'
    BY <2>1, UnreadUnpublished DEF Published
  <2>3. ThreadBooks(w)'
    BY <1>t, <2>1, <2>2 DEF ThreadBooks, UnderWay
  <2> QED BY <1>o, <2>1, <2>3, OneThreadsBooks
<1>2. CASE Snapshot(w)
  <2> DEFINE queue == Candidates(w[1])
  <2>1. /\ pc[w] = "snapshot"
        /\ todo'[w] = queue /\ total'[w] = Cardinality(queue)
        /\ pc'[w] = IF queue = {} THEN "done" ELSE "loop"
        /\ progress' = [progress EXCEPT ![w[1]] =
             [status |-> IF queue = {} THEN "COMPLETED" ELSE "RUNNING",
              total |-> Cardinality(queue), completed |-> 0, current |-> 0,
              by |-> w[2]]]
        /\ UNCHANGED <<completed, counts, errors>>
    BY <1>0, <1>2 DEF Snapshot, Publish
  <2>2. Cardinality(queue) \in Nat
    BY <1>0, CandidatesType
  <2> HIDE DEF queue
  <2>3. completed[w] = 0 /\ counts[w] = NoCounts /\ errors[w] = {}
    BY <1>t, <2>1 DEF ThreadBooks
  <2>4. Cardinality(errors[w]) = 0
    BY <2>3, FS_EmptySet
  <2>5. Counted(w) = 0
    BY <2>3 DEF Counted, NoCounts, Verdicts
  <2>6. Settled(w)' = 0
    BY <2>1, <2>4, <2>5 DEF Settled, Counted
  <2>7. Balanced(w)'
    BY <2>1, <2>2, <2>3, <2>6 DEF Balanced
  <2>8. Published(w)' /\ Faithful(w)'
    BY <1>0, <2>1, <2>3 DEF Published, Faithful, UnderWay
  <2>9. ThreadBooks(w)'
    BY <2>1, <2>7, <2>8 DEF ThreadBooks
  <2>10. /\ pc[w] \in RunSteps /\ progress'[w[1]].by = w[2]
         /\ \A s \in Scans \ {w[1]} : progress'[s] = progress[s]
    BY <1>0, <2>1 DEF RunSteps
  <2> QED BY <1>o, <2>9, <2>10, OneThreadsBooks
\* From here on the thread's books are open.
<1>3. ASSUME pc[w] \in UnderWay PROVE Published(w) /\ Faithful(w) /\ Balanced(w)
  BY <1>3, <1>t DEF ThreadBooks
\* A step that publishes nothing and leaves the thread under way.
<1>4. ASSUME pc[w] \in UnderWay, pc'[w] \in UnderWay,
             UNCHANGED <<progress, total, completed>>, Balanced(w)'
      PROVE  Books'
  <2>1. Published(w)' /\ Faithful(w)'
    BY <1>3, <1>4 DEF Published, Faithful, UnderWay
  <2>2. ThreadBooks(w)'
    BY <1>4, <2>1 DEF ThreadBooks, UnderWay
  <2> QED BY <1>o, <1>4, <2>2, OneThreadsBooks
\* A step that publishes what its books say.
<1>5. ASSUME pc[w] \in UnderWay, pc'[w] \in UnderWay \cup {"done"},
             NEW current,
             progress' = [progress EXCEPT ![w[1]] =
               [status |-> IF pc'[w] = "done" THEN "COMPLETED" ELSE "RUNNING",
                total |-> total'[w], completed |-> completed'[w],
                current |-> current, by |-> w[2]]],
             Balanced(w)'
      PROVE  Books'
  <2>1. Published(w)' /\ Faithful(w)'
    BY <1>0, <1>5 DEF Published, Faithful
  <2>2. ThreadBooks(w)'
    BY <1>5, <2>1 DEF ThreadBooks, UnderWay
  <2>3. /\ pc[w] \in RunSteps /\ progress'[w[1]].by = w[2]
        /\ \A s \in Scans \ {w[1]} : progress'[s] = progress[s]
    BY <1>0, <1>5 DEF RunSteps, UnderWay
  <2> QED BY <1>o, <2>2, <2>3, OneThreadsBooks
<1>6. ASSUME NEW i \in Idx, PickNext(w, i) PROVE Books'
  <2>1. /\ pc[w] = "loop" /\ pc'[w] = "replay"
        /\ UNCHANGED <<todo, total, completed, counts, errors>>
        /\ progress' = [progress EXCEPT ![w[1]] =
             [status |-> "RUNNING", total |-> total'[w],
              completed |-> completed'[w], current |-> i, by |-> w[2]]]
    BY <1>0, <1>6 DEF PickNext, Publish
  <2>2. Balanced(w)'
    BY <1>3, <2>1 DEF Balanced, Pending, Settled, Counted, IsNext, UnderWay
  <2> QED BY <1>5, <2>1, <2>2 DEF UnderWay
<1>7. ASSUME NEW i \in Idx, NEW v \in Verdicts, ReplayVerdict(w, i, v)
      PROVE  Books'
  <2>1. /\ pc[w] = "replay" /\ pc'[w] = "saving"
        /\ UNCHANGED <<progress, todo, total, completed, counts, errors>>
    BY <1>0, <1>7 DEF ReplayVerdict
  <2>2. Balanced(w)'
    BY <1>3, <2>1 DEF Balanced, Pending, Settled, Counted, IsNext, UnderWay
  <2> QED BY <1>4, <2>1, <2>2 DEF UnderWay
\* The finding at hand is listed in errors.
<1>8. ASSUME NEW i \in Idx, IsNext(w, i), pc[w] \in {"replay", "saving"},
             pc'[w] = "publish", errors'[w] = errors[w] \cup {i},
             UNCHANGED <<progress, todo, total, completed, counts>>
      PROVE  Books'
  <2>1. Balanced(w)
    BY <1>3, <1>8 DEF UnderWay
  <2>2. i \in todo[w] /\ i \notin errors[w]
    BY <1>8, <2>1 DEF Balanced, Pending, IsNext
  <2>3. Cardinality(errors'[w]) = Cardinality(errors[w]) + 1
    BY <1>b, <1>8, <2>2, FS_AddElement
  <2>4. Counted(w)' = Counted(w)
    BY <1>8 DEF Counted
  <2>5. Settled(w)' = Settled(w) + 1
    BY <1>b, <2>3, <2>4 DEF Settled
  <2>6. \A j \in errors'[w] : ~ Pending(w, j)'
    BY <1>8, <2>1 DEF Balanced, Pending, IsNext
  <2>7. Balanced(w)'
    BY <1>b, <1>8, <2>1, <2>2, <2>5, <2>6 DEF Balanced
  <2> QED BY <1>4, <1>8, <2>7 DEF UnderWay
<1>9. ASSUME NEW i \in Idx, ReplayFails(w, i) PROVE Books'
  <2>1. /\ pc[w] = "replay" /\ pc'[w] = "publish" /\ IsNext(w, i)
        /\ errors'[w] = errors[w] \cup {i}
        /\ UNCHANGED <<progress, todo, total, completed, counts>>
    BY <1>0, <1>9 DEF ReplayFails
  <2> QED BY <1>8, <2>1
<1>10. CASE RecordError(w)
  <2>1. save[w].stage = "failed" /\ w \in Savers
    BY <1>10 DEF RecordError, Savers
  <2>2. save[w].idx \in Idx /\ IsNext(w, save[w].idx)
    BY <2>1 DEF SavesAimed, SaversRun
  <2>3. /\ pc[w] = "saving" /\ pc'[w] = "publish"
        /\ errors'[w] = errors[w] \cup {save[w].idx}
        /\ UNCHANGED <<progress, todo, total, completed, counts>>
    BY <1>0, <1>10 DEF RecordError
  <2> QED BY <1>8, <2>2, <2>3
<1>11. CASE CountVerdict(w)
  <2>1. save[w].stage = "ok" /\ w \in Savers
    BY <1>11 DEF CountVerdict, Savers
  <2>2. save[w].verdict \in Verdicts /\ IsNext(w, save[w].idx)
    BY <2>1 DEF SavesAimed, SaversRun
  <2>3. /\ pc[w] = "saving" /\ pc'[w] = "publish"
        /\ counts'[w] = [counts[w] EXCEPT ![save[w].verdict] = @ + 1]
        /\ UNCHANGED <<progress, todo, total, completed, errors>>
    BY <1>0, <1>11 DEF CountVerdict
  <2>4. Counted(w)' = Counted(w) + 1
    <3>1. counts[w] \in [Verdicts -> Nat]
      BY <1>0
    <3> QED BY <2>2, <2>3, <3>1 DEF Counted, Verdicts
  <2>5. Settled(w)' = Settled(w) + 1
    BY <1>b, <2>3, <2>4 DEF Settled
  <2>6. Balanced(w)
    BY <1>3, <2>3 DEF UnderWay
  <2>7. \A j \in errors'[w] : ~ Pending(w, j)'
    BY <2>3, <2>6 DEF Balanced, Pending, IsNext
  <2>8. Balanced(w)'
    BY <1>b, <2>2, <2>3, <2>5, <2>6, <2>7 DEF Balanced, IsNext
  <2> QED BY <1>4, <2>3, <2>8 DEF UnderWay
<1>12. ASSUME NEW i \in Idx, PublishOne(w, i) PROVE Books'
  <2>1. /\ pc[w] = "publish" /\ pc'[w] = "loop" /\ IsNext(w, i)
        /\ todo'[w] = todo[w] \ {i} /\ completed'[w] = completed[w] + 1
        /\ UNCHANGED <<total, counts, errors>>
        /\ progress' = [progress EXCEPT ![w[1]] =
             [status |-> "RUNNING", total |-> total'[w],
              completed |-> completed'[w], current |-> i, by |-> w[2]]]
    BY <1>0, <1>12 DEF PublishOne, Publish
  <2>2. Balanced(w)
    BY <1>3, <2>1 DEF UnderWay
  <2>3. Cardinality(todo'[w]) = Cardinality(todo[w]) - 1
    BY <1>b, <2>1, FS_RemoveElement DEF IsNext
  <2>4. Settled(w)' = Settled(w)
    BY <2>1 DEF Settled, Counted
  <2>5. \A j \in errors'[w] : ~ Pending(w, j)'
    BY <2>1, <2>2, NextIsUnique DEF Balanced, Pending
  <2>6. Balanced(w)'
    BY <1>b, <2>1, <2>2, <2>3, <2>4, <2>5 DEF Balanced
  <2> QED BY <1>5, <2>1, <2>6 DEF UnderWay
<1>13. CASE Finish(w)
  <2>1. /\ pc[w] = "loop" /\ pc'[w] = "done" /\ todo[w] = {}
        /\ UNCHANGED <<todo, total, completed, counts, errors>>
        /\ progress' = [progress EXCEPT ![w[1]] =
             [status |-> "COMPLETED", total |-> total'[w],
              completed |-> completed'[w], current |-> 0, by |-> w[2]]]
    BY <1>0, <1>13 DEF Finish, Publish
  <2>2. Balanced(w)'
    BY <1>3, <2>1 DEF Balanced, Pending, Settled, Counted, IsNext, UnderWay
  <2> QED BY <1>5, <2>1, <2>2 DEF UnderWay
<1> QED
  BY <1>1, <1>2, <1>6, <1>7, <1>9, <1>10, <1>11, <1>12, <1>13 DEF WorkerStep

\* So does every other step: no handler, save or second dispatch touches the
\* books of a thread, and a restart opens new ones.
LEMMA BooksStep ==
  ASSUME TypeOK, SavesAimed, ScanLife, SaversRun, RunnersClaimed, Books,
         [Next]_vars
  PROVE  Books'
<1> USE DEF dbVars, workerVars, historyVars, budgetVars
<1>0. /\ pc \in [Workers -> RunSteps \cup {"unborn", "start", "claiming", "done", "dead"}]
      /\ \A s \in Scans, k \in 1..Dispatches : <<s, k>> \in Workers
      /\ 1 \in 1..Dispatches
  BY BoundsAssumption DEF TypeOK, Workers
<1>1. CASE UNCHANGED <<pc, todo, total, completed, counts, errors, progress>>
  BY <1>1 DEF Books, ThreadBooks, Faithful, Balanced, Pending, Published,
     Settled, Counted, IsNext
<1>2. ASSUME NEW w \in Workers, pc[w] = "unborn",
             pc' = [pc EXCEPT ![w] = "start"],
             UNCHANGED <<todo, total, completed, counts, errors, progress>>
      PROVE  Books'
  <2>1. ~ Published(w)'
    BY <1>2, UnreadUnpublished DEF Published
  <2>2. pc'[w] = "start" /\ \A x \in Workers \ {w} : pc'[x] = pc[x]
    BY <1>0, <1>2
  <2>3. ThreadBooks(w)'
    BY <1>2, <2>1, <2>2 DEF ThreadBooks, Books, UnderWay
  <2> QED BY <1>2, <2>2, <2>3, OneThreadsBooks
<1>3. ASSUME NEW s \in Scans, CreateScan(s) \/ UploadStep(s) PROVE Books'
  <2>1. CASE Dispatch(s)
    <3>1. <<s, 1>> \in Workers /\ pc[<<s, 1>>] = "unborn"
      BY <1>0, <2>1 DEF Dispatch, ScanLife
    <3> QED BY <1>2, <2>1, <3>1 DEF Dispatch
  <2>2. CASE ~ Dispatch(s)
    BY <1>1, <1>3, <2>2 DEF UploadStep, CreateScan, SaveNormalized,
       NormalizeFails, MarkNormalized, MarkFailed
  <2> QED BY <2>1, <2>2
<1>4. ASSUME NEW s \in Scans, NEW k \in 1..Dispatches, Redispatch(s, k)
      PROVE  Books'
  BY <1>0, <1>2, <1>4 DEF Redispatch
<1>5. CASE Crash
  <2>1. /\ \A s \in Scans : progress'[s] = NoProgress
        /\ \A w \in Workers :
             /\ pc'[w] = "unborn" /\ completed'[w] = 0
             /\ counts'[w] = NoCounts /\ errors'[w] = {}
    BY <1>5 DEF Crash
  <2>2. \A w \in Workers : ~ Published(w)'
    BY <2>1, WorkerParts, BoundsAssumption DEF Published, NoProgress
  <2> QED BY <2>1, <2>2 DEF Books, ThreadBooks, UnderWay, NoProgress
<1>6. CASE \/ \E s \in Scans, i \in Idx, v \in Verdicts : StartVerify(s, i, v)
           \/ RespondVerify
           \/ \E a \in Savers : SaveStep(a)
           \/ UNCHANGED vars
  BY <1>1, <1>6 DEF StartVerify, RespondVerify, SaveStep, ReadBucket,
     WriteBucket, SaveFails, vars
<1> QED BY <1>3, <1>4, <1>5, <1>6, BooksWorker DEF Next

-----------------------------------------------------------------------------
(* Whatever is stored has been acknowledged, overlapping saves or not: a    *)
(* bucket that is written back late loses verdicts but brings none that no  *)
(* save has returned.                                                      *)

\* Acknowledgements are never taken back.
LEMMA AckedStays ==
  ASSUME TypeOK, SavesAimed, [Next]_vars, NEW s \in Scans, NEW i \in Idx,
         acked[s][i] # Unverified
  PROVE  acked'[s][i] # Unverified
<1>1. CASE \A a \in Savers : ~ SaveStep(a)
  BY <1>1, OnlySavesWrite
<1>2. ASSUME NEW a \in Savers, ReadBucket(a) \/ SaveFails(a)
      PROVE  acked'[s][i] # Unverified
  BY <1>2 DEF ReadBucket, SaveFails, historyVars
<1>3. ASSUME NEW a \in Savers, WriteBucket(a) PROVE acked'[s][i] # Unverified
  <2>1. save[a].verdict \in Verdicts
    BY <1>3 DEF WriteBucket, SavesAimed
  <2>2. save[a].verdict # Unverified
    BY <2>1 DEF Verdicts, Unverified
  <2> QED BY <1>3, <2>2 DEF WriteBucket, TypeOK, Buckets
<1> QED BY <1>1, <1>2, <1>3 DEF SaveStep

\* Every step keeps stored verdicts among the acknowledged ones.
LEMMA StoredIsAckedStep ==
  ASSUME TypeOK, SavesAimed, StoredIsAcked, [Next]_vars
  PROVE  StoredIsAcked'
<1> USE DEF dbVars, workerVars, historyVars, budgetVars
<1>0. /\ save \in [Savers -> SaveCalls] /\ verified \in [Scans -> Buckets]
      /\ acked \in [Scans -> Buckets]
  BY DEF TypeOK
<1>s. \A s \in Scans, i \in Idx :
        acked[s][i] # Unverified => acked'[s][i] # Unverified
  BY AckedStays
<1>1. CASE \A a \in Savers : ~ SaveStep(a)
  <2>1. UNCHANGED <<verified, acked>>
    BY <1>1, OnlySavesWrite
  <2>2. \A a \in Savers :
          save'[a] = save[a] \/ save'[a].stage \notin {"write", "ok"}
    <3>0. EventLoop \in Savers /\ \A w \in Workers : w \in Savers
      BY DEF Savers
    <3>1. CASE \E s \in Scans : CreateScan(s) \/ UploadStep(s)
      BY <3>1 DEF UploadStep, CreateScan, SaveNormalized, NormalizeFails,
         MarkNormalized, MarkFailed, Dispatch
    <3>2. CASE \/ \E s \in Scans, k \in 1..Dispatches : Redispatch(s, k)
               \/ UNCHANGED vars
      BY <3>2 DEF Redispatch, vars
    <3>5. CASE Crash
      BY <3>5 DEF Crash, NoCall
    <3>3. CASE \/ \E s \in Scans, i \in Idx, v \in Verdicts :
                    StartVerify(s, i, v)
               \/ RespondVerify
      BY <1>0, <3>0, <3>3 DEF StartVerify, BeginSave, RespondVerify, NoCall
    <3>4. ASSUME NEW w \in Workers, WorkerStep(w),
                 NEW a \in Savers, save'[a] # save[a]
          PROVE  save'[a].stage \notin {"write", "ok"}
      <4>1. \/ \E i \in Idx, v \in Verdicts : ReplayVerdict(w, i, v)
            \/ CountVerdict(w) \/ RecordError(w)
        BY <3>4 DEF WorkerStep, CheckClaim, Claim, AlreadyClaimed, Snapshot,
           SnapshotFails, PickNext, ReplayFails, PublishOne, Finish
      <4> QED BY <1>0, <3>0, <3>4, <4>1 DEF ReplayVerdict, BeginSave,
              CountVerdict, RecordError, NoCall
    <3> QED BY <1>1, <3>1, <3>2, <3>3, <3>4, <3>5 DEF Next
  <2> QED BY <2>1, <2>2 DEF StoredIsAcked
<1>2. ASSUME NEW a \in Savers, ReadBucket(a) PROVE StoredIsAcked'
  <2>1. /\ save[a].scan \in Scans /\ save'[a].scan = save[a].scan
        /\ save'[a].bucket = verified[save[a].scan]
        /\ save'[a].stage = "write" /\ UNCHANGED <<verified, acked>>
        /\ \A b \in Savers \ {a} : save'[b] = save[b]
    BY <1>0, <1>2 DEF ReadBucket, SavesAimed, SaveCalls
  <2> QED BY <2>1 DEF StoredIsAcked
<1>3. ASSUME NEW a \in Savers, WriteBucket(a) PROVE StoredIsAcked'
  <2> DEFINE s == save[a].scan
             i == save[a].idx
             v == save[a].verdict
             b == save[a].bucket
  <2>1. /\ save[a].stage = "write"
        /\ s \in Scans /\ i \in Idx /\ v \in Verdicts /\ b \in Buckets
    BY <1>0, <1>3 DEF WriteBucket, SavesAimed, SaveCalls
  <2>2. /\ verified' = [verified EXCEPT ![s] = [b EXCEPT ![i] = v]]
        /\ acked' = [acked EXCEPT ![s] = [acked[s] EXCEPT ![i] = v]]
        /\ save'[a].stage = "ok" /\ save'[a].scan = s /\ save'[a].idx = i
        /\ \A c \in Savers \ {a} : save'[c] = save[c]
    BY <1>0, <1>3 DEF WriteBucket, SaveCalls
  <2>3. v # Unverified
    BY <2>1 DEF Verdicts, Unverified
  <2>4. acked'[s][i] # Unverified
    BY <1>0, <2>1, <2>2, <2>3 DEF Buckets
  <2>5. \A j \in Idx : b[j] # Unverified => acked'[s][j] # Unverified
    BY <1>s, <2>1 DEF StoredIsAcked
  <2>6. \A j \in Idx \ {i} : verified'[s][j] = b[j]
    BY <1>0, <2>1, <2>2 DEF Buckets
  <2>7. \A t \in Scans \ {s} : verified'[t] = verified[t]
    BY <1>0, <2>2
  <2>8. \A t \in Scans, j \in Idx :
          verified'[t][j] # Unverified => acked'[t][j] # Unverified
    BY <1>s, <2>4, <2>5, <2>6, <2>7 DEF StoredIsAcked
  <2>9. \A c \in Savers \ {a} : save[c].stage # "idle"
          => save[c].scan \in Scans /\ save[c].idx \in Idx
    BY DEF SavesAimed
  <2> QED BY <1>s, <2>2, <2>4, <2>8, <2>9 DEF StoredIsAcked
<1>4. ASSUME NEW a \in Savers, SaveFails(a) PROVE StoredIsAcked'
  <2>1. /\ save'[a].stage = "failed" /\ UNCHANGED <<verified, acked>>
        /\ \A b \in Savers \ {a} : save'[b] = save[b]
    BY <1>0, <1>4 DEF SaveFails, SaveCalls
  <2> QED BY <2>1 DEF StoredIsAcked
<1> QED BY <1>1, <1>2, <1>3, <1>4 DEF SaveStep

-----------------------------------------------------------------------------
(* No finding is left behind.                                              *)

\* The findings of a scan that has been dispatched no longer change.
LEMMA FindingsSettled ==
  ASSUME TypeOK, ScanLife, [Next]_vars, NEW w \in Workers, pc[w] # "unborn"
  PROVE  \A i \in Idx : IsSupported(w[1], i)' <=> IsSupported(w[1], i)
<1> USE DEF dbVars, workerVars, historyVars, budgetVars
<1>1. upload[w[1]] = "done" /\ w[1] \in Scans
  BY WorkerParts DEF ScanLife
<1>2. findings'[w[1]] = findings[w[1]]
  <2>1. ASSUME NEW t \in Scans, SaveNormalized(t)
        PROVE  findings'[w[1]] = findings[w[1]]
    BY <1>1, <2>1 DEF SaveNormalized, TypeOK
  <2>2. CASE ~ \E t \in Scans : SaveNormalized(t)
    BY <2>2 DEF Next, UploadStep, CreateScan, NormalizeFails, MarkNormalized,
       MarkFailed, Dispatch, Redispatch, StartVerify, RespondVerify,
       SaveStep, ReadBucket, WriteBucket, SaveFails, WorkerStep, CheckClaim, Claim,
       AlreadyClaimed, Snapshot, SnapshotFails, PickNext, ReplayVerdict,
       ReplayFails, CountVerdict, RecordError, PublishOne, Finish, Crash, vars
  <2> QED BY <2>1, <2>2
<1> QED BY <1>2 DEF IsSupported, HasFinding

\* Every step keeps every supported finding of a run accounted for.
LEMMA AccountedStep ==
  ASSUME TypeOK, SavesAimed, ScanLife, SaversRun, RunnersClaimed, Books,
         StoredIsAcked, AllAccounted, [Next]_vars
  PROVE  AllAccounted'
<1> USE DEF dbVars, workerVars, historyVars, budgetVars
<1>0. /\ pc \in [Workers -> RunSteps \cup {"unborn", "start", "claiming", "done", "dead"}]
      /\ todo \in [Workers -> SUBSET Idx]
      /\ errors \in [Workers -> SUBSET Idx]
      /\ progress \in [Scans -> ProgressViews]
  BY DEF TypeOK
<1>a. \A s \in Scans, i \in Idx :
        acked[s][i] # Unverified => acked'[s][i] # Unverified
  BY AckedStays
<1>p. \A w \in Workers : Published(w) => pc[w] # "unborn"
  BY UnreadUnpublished
\* What a step has to show of a thread whose copy it leaves published.
<1>1. ASSUME NEW x \in Workers, Published(x),
             \A i \in Idx : i \in errors[x] => i \in errors'[x],
             \A i \in Idx : Pending(x, i) =>
               \/ acked'[x[1]][i] # Unverified \/ i \in errors'[x]
               \/ Pending(x, i)'
      PROVE  Accounted(x)'
  <2>1. \A i \in Idx : IsSupported(x[1], i)' <=> IsSupported(x[1], i)
    BY <1>1, <1>p, FindingsSettled
  <2>2. Accounted(x) /\ x[1] \in Scans
    BY <1>1, WorkerParts DEF AllAccounted
  <2> QED BY <1>1, <1>a, <2>1, <2>2 DEF Accounted
<1>2. ASSUME NEW x \in Workers, Published(x), pc'[x] = pc[x],
             todo'[x] = todo[x], errors'[x] = errors[x]
      PROVE  Accounted(x)'
  BY <1>1, <1>2 DEF Pending, IsNext
<1>3. CASE UNCHANGED <<pc, todo, errors, progress>>
  BY <1>2, <1>3 DEF AllAccounted, Published
<1>4. ASSUME NEW w \in Workers, WorkerStep(w) PROVE AllAccounted'
  <2>o. /\ \A x \in Workers \ {w} : /\ pc'[x] = pc[x] /\ todo'[x] = todo[x]
                                    /\ errors'[x] = errors[x]
        /\ \A s \in Scans \ {w[1]} : progress'[s] = progress[s]
        /\ \/ progress'[w[1]] = progress[w[1]]
           \/ progress'[w[1]].by = w[2]
    <3>0. w[1] \in Scans
      BY WorkerParts
    <3>1. CASE \/ Snapshot(w) \/ Finish(w)
               \/ \E i \in Idx : PickNext(w, i) \/ PublishOne(w, i)
      <4>1. \E status, current, done : Publish(w, status, current, done)
        BY <3>1 DEF Snapshot, PickNext, PublishOne, Finish
      <4>2. /\ progress'[w[1]].by = w[2]
            /\ \A s \in Scans \ {w[1]} : progress'[s] = progress[s]
        BY <1>0, <3>0, <4>1 DEF Publish
      <4>3. \A x \in Workers \ {w} : /\ pc'[x] = pc[x] /\ todo'[x] = todo[x]
                                     /\ errors'[x] = errors[x]
        BY <1>0, <3>1 DEF Snapshot, PickNext, PublishOne, Finish
      <4> QED BY <4>2, <4>3
    <3>2. CASE \/ CheckClaim(w) \/ Claim(w) \/ AlreadyClaimed(w) \/ SnapshotFails(w)
               \/ CountVerdict(w) \/ RecordError(w)
               \/ \E i \in Idx : ReplayFails(w, i)
               \/ \E i \in Idx, v \in Verdicts : ReplayVerdict(w, i, v)
      BY <1>0, <3>2 DEF CheckClaim, Claim, AlreadyClaimed, SnapshotFails, ReplayVerdict,
         ReplayFails, CountVerdict, RecordError
    <3> QED BY <1>4, <3>1, <3>2 DEF WorkerStep
  <2>1. ASSUME NEW x \in Workers, x # w, Published(x)' PROVE Accounted(x)'
    <3>1. Published(x)
      BY <2>o, <2>1, WorkerParts DEF Published
    <3> QED BY <1>2, <2>o, <2>1, <3>1
  <2>2. ASSUME Published(w)' PROVE Accounted(w)'
    <3>1. CASE CheckClaim(w) \/ Claim(w) \/ AlreadyClaimed(w) \/ SnapshotFails(w)
      <4>1. pc[w] \in {"start", "claiming", "snapshot"} /\ UNCHANGED progress
        BY <3>1 DEF CheckClaim, Claim, AlreadyClaimed, SnapshotFails
      <4> QED BY <2>2, <4>1, UnreadUnpublished DEF Published
    <3>2. CASE Snapshot(w)
      <4>1. /\ pc[w] = "snapshot" /\ todo'[w] = Candidates(w[1])
            /\ pc'[w] # "publish" /\ UNCHANGED <<verified, acked, findings>>
        BY <1>0, <3>2 DEF Snapshot
      <4>2. \A i \in Idx : IsSupported(w[1], i)' <=> IsSupported(w[1], i)
        BY <4>1, FindingsSettled
      <4>3. \A i \in Idx : IsSupported(w[1], i) =>
              verified[w[1]][i] # Unverified \/ i \in todo'[w]
        BY <4>1 DEF Candidates
      <4> QED BY <4>1, <4>2, <4>3, WorkerParts
              DEF StoredIsAcked, Accounted, Pending
    <3>3. ASSUME pc[w] \in UnderWay PROVE Published(w)
      BY <3>3 DEF Books, ThreadBooks
    <3>4. CASE \/ \E i \in Idx : PickNext(w, i)
               \/ \E i \in Idx, v \in Verdicts : ReplayVerdict(w, i, v)
               \/ Finish(w)
      <4>1. /\ pc[w] \in UnderWay /\ pc'[w] # "publish"
            /\ UNCHANGED <<todo, errors>>
        BY <1>0, <3>4 DEF PickNext, ReplayVerdict, Finish, UnderWay
      <4> QED BY <1>1, <3>3, <4>1 DEF Pending
    \* The finding at hand is the only one no longer pending.
    <3>5. ASSUME NEW i \in Idx, IsNext(w, i), pc[w] \in UnderWay,
                 todo'[w] = todo[w], errors[w] \subseteq errors'[w],
                 acked'[w[1]][i] # Unverified \/ i \in errors'[w]
          PROVE  Accounted(w)'
      <4>1. \A j \in Idx : Pending(w, j) => j = i \/ Pending(w, j)'
        <5> SUFFICES ASSUME NEW j \in Idx, Pending(w, j), ~ Pending(w, j)'
                     PROVE  j = i
          OBVIOUS
        <5>1. IsNext(w, j)
          BY <3>5 DEF Pending, IsNext
        <5> QED BY <3>5, <5>1, NextIsUnique
      <4> QED BY <1>1, <3>3, <3>5, <4>1
    <3>6. ASSUME NEW i \in Idx, ReplayFails(w, i) PROVE Accounted(w)'
      <4>1. /\ IsNext(w, i) /\ pc[w] \in UnderWay /\ todo'[w] = todo[w]
            /\ errors'[w] = errors[w] \cup {i}
        BY <1>0, <3>6 DEF ReplayFails, UnderWay
      <4> QED BY <3>5, <4>1
    <3>7. CASE CountVerdict(w) \/ RecordError(w)
      <4> DEFINE i == save[w].idx
      <4>1. save[w].stage # "idle" /\ w \in Savers
        BY <3>7 DEF CountVerdict, RecordError, Savers
      <4>2. i \in Idx /\ IsNext(w, i) /\ save[w].scan = w[1]
        BY <4>1 DEF SavesAimed, SaversRun
      <4>3. /\ pc[w] \in UnderWay /\ todo'[w] = todo[w]
            /\ errors[w] \subseteq errors'[w]
        BY <1>0, <3>7 DEF CountVerdict, RecordError, UnderWay
      <4>4. acked'[w[1]][i] # Unverified \/ i \in errors'[w]
        <5>1. CASE CountVerdict(w)
          BY <4>1, <4>2, <5>1 DEF CountVerdict, StoredIsAcked
        <5>2. CASE RecordError(w)
          BY <1>0, <5>2 DEF RecordError
        <5> QED BY <3>7, <5>1, <5>2
      <4> QED BY <3>5, <4>2, <4>3, <4>4
    <3>8. ASSUME NEW i \in Idx, PublishOne(w, i) PROVE Accounted(w)'
      <4>1. /\ pc[w] = "publish" /\ IsNext(w, i) /\ pc'[w] # "publish"
            /\ todo'[w] = todo[w] \ {i} /\ errors'[w] = errors[w]
        BY <1>0, <3>8 DEF PublishOne
      <4>2. \A j \in Idx : Pending(w, j) => Pending(w, j)'
        BY <4>1 DEF Pending
      <4> QED BY <1>1, <3>3, <4>1, <4>2 DEF UnderWay
    <3> QED BY <1>4, <3>1, <3>2, <3>4, <3>6, <3>7, <3>8 DEF WorkerStep
  <2> QED BY <2>1, <2>2 DEF AllAccounted
<1>5. ASSUME NEW w \in Workers, pc[w] = "unborn",
             pc' = [pc EXCEPT ![w] = "start"],
             UNCHANGED <<todo, errors, progress>>
      PROVE  AllAccounted'
  <2>1. ~ Published(w)'
    BY <1>5, UnreadUnpublished DEF Published
  <2>2. \A x \in Workers \ {w} : pc'[x] = pc[x]
    BY <1>0, <1>5
  <2> QED BY <1>2, <1>5, <2>1, <2>2 DEF AllAccounted, Published
<1>6. ASSUME NEW s \in Scans, CreateScan(s) \/ UploadStep(s)
      PROVE  AllAccounted'
  <2>1. CASE Dispatch(s)
    <3>1. <<s, 1>> \in Workers /\ pc[<<s, 1>>] = "unborn"
      BY <2>1, BoundsAssumption DEF Dispatch, ScanLife, Workers
    <3> QED BY <1>5, <2>1, <3>1 DEF Dispatch
  <2>2. CASE ~ Dispatch(s)
    BY <1>3, <1>6, <2>2 DEF UploadStep, CreateScan, SaveNormalized,
       NormalizeFails, MarkNormalized, MarkFailed
  <2> QED BY <2>1, <2>2
<1>7. ASSUME NEW s \in Scans, NEW k \in 1..Dispatches, Redispatch(s, k)
      PROVE  AllAccounted'
  BY <1>5, <1>7 DEF Redispatch, Workers
<1>8. CASE Crash
  <2>1. \A w \in Workers : ~ Published(w)'
    BY <1>8, WorkerParts, BoundsAssumption DEF Crash, Published, NoProgress
  <2> QED BY <2>1 DEF AllAccounted
<1>9. CASE \/ \E s \in Scans, i \in Idx, v \in Verdicts : StartVerify(s, i, v)
           \/ RespondVerify
           \/ \E a \in Savers : SaveStep(a)
           \/ UNCHANGED vars
  BY <1>3, <1>9 DEF StartVerify, RespondVerify, SaveStep, ReadBucket,
     WriteBucket, SaveFails, vars
<1> QED BY <1>4, <1>6, <1>7, <1>8, <1>9 DEF Next

-----------------------------------------------------------------------------
(* The theorem. *)

ProgressInv ==
  /\ TypeOK /\ SavesAimed
  /\ ScanLife /\ SaversRun /\ ClaimsHeld /\ RunnersClaimed
  /\ Books /\ StoredIsAcked /\ AllAccounted

\* The invariant behind what a poll is told.
LEMMA ProgressInvariant == Spec /\ []ClaimsApart => []ProgressInv
<1>1. Init => ProgressInv
  <2> SUFFICES ASSUME Init PROVE ProgressInv
    OBVIOUS
  <2>1. TypeOK
    BY TypeInit
  <2>2. /\ \A a \in Savers : save[a] = NoCall
        /\ NoCall.stage = "idle" /\ \A w \in Workers : w \in Savers
    BY DEF Init, NoCall, Savers
  <2>3. SavesAimed /\ SaversRun /\ StoredIsAcked
    BY <2>2 DEF Init, SavesAimed, SaversRun, StoredIsAcked, EmptyBucket
  <2>4. ScanLife /\ ClaimsHeld /\ RunnersClaimed
    BY WorkerParts, ClaimsHeldInit, RunnersHold DEF Init, ScanLife, ClaimsApart
  <2>5. \A w \in Workers : ~ Published(w)
    BY WorkerParts, BoundsAssumption DEF Init, Published, NoProgress
  <2>6. Books /\ AllAccounted
    BY <2>5 DEF Init, Books, ThreadBooks, UnderWay, NoProgress, AllAccounted
  <2> QED BY <2>1, <2>3, <2>4, <2>6 DEF ProgressInv
<1>2. ProgressInv /\ [Next]_vars /\ ClaimsApart' => ProgressInv'
  <2> SUFFICES ASSUME ProgressInv, [Next]_vars, ClaimsApart' PROVE ProgressInv'
    OBVIOUS
  <2> USE DEF ProgressInv
  <2>0. ClaimsHeld'
    BY ClaimsHeldStep
  <2>1. /\ TypeOK' /\ SavesAimed' /\ ScanLife' /\ SaversRun'
        /\ ClaimsHeld' /\ RunnersClaimed'
    BY <2>0, TypeStep, ScanLifeStep, SaversStep
    DEF ClaimsHeld, ClaimsApart, RunnersClaimed
  <2>2. Books' /\ StoredIsAcked' /\ AllAccounted'
    BY BooksStep, StoredIsAckedStep, AccountedStep
  <2> QED BY <2>1, <2>2
<1> QED BY <1>1, <1>2, PTL DEF Spec

\* What a poll is told and what the run did never drift apart: one finding at
\* most while the run goes on, nothing when it is COMPLETED, and then every
\* finding a verifier supports has a verdict or is listed in errors, manual
\* verifications, failing transactions and restarts included, wherever no two
\* calls have been about to claim a scan at the same time.
THEOREM ProgressAccounts ==
  Spec /\ []ClaimsApart => []ProgressAccountsForAll
<1>1. ProgressInv => ProgressAccountsForAll
  <2> SUFFICES ASSUME ProgressInv PROVE ProgressAccountsForAll
    OBVIOUS
  <2> USE DEF ProgressInv
  <2>1. ASSUME NEW s \in Scans, progress[s].status # "NOT_STARTED"
        PROVE  LET w == <<s, progress[s].by>> IN
               /\ w \in Workers /\ Published(w)
               /\ Faithful(w) /\ Balanced(w) /\ Accounted(w)
    <3>1. progress[s].by \in 1..Dispatches
      <4>1. progress[s].by \in 0..Dispatches /\ progress[s].by # 0
        BY <2>1 DEF TypeOK, ProgressViews, Books
      <4> QED BY <4>1, BoundsAssumption
    <3>2. <<s, progress[s].by>> \in Workers
      BY <2>1, <3>1 DEF Workers
    <3>3. Published(<<s, progress[s].by>>)
      BY DEF Published
    <3> QED BY <3>2, <3>3 DEF Books, ThreadBooks, AllAccounted
  <2>2. PollSkewIsOne
    <3> SUFFICES ASSUME NEW s \in Scans, progress[s].status # "NOT_STARTED"
                 PROVE  LET w == <<s, progress[s].by>> IN
                   /\ progress[s].completed <= Settled(w)
                   /\ Settled(w) <= progress[s].completed + 1
                   /\ Settled(w) <= progress[s].total
      BY DEF PollSkewIsOne, Settled
    <3> DEFINE w == <<s, progress[s].by>>
    <3>1. w \in Workers /\ Faithful(w) /\ Balanced(w) /\ w[1] = s
      BY <2>1
    <3> HIDE DEF w
    <3>2. /\ completed[w] \in Nat /\ Cardinality(todo[w]) \in Nat
          /\ IsFiniteSet(todo[w])
      BY <3>1, BooksType
    <3>3. todo[w] # {} => Cardinality(todo[w]) >= 1
      <4>1. Cardinality(todo[w]) = 0 <=> todo[w] = {}
        BY <3>2, FS_EmptySet
      <4> QED BY <3>2, <4>1
    <3>4. /\ progress[s].completed = completed[w]
          /\ progress[s].total = completed[w] + Cardinality(todo[w])
      BY <3>1 DEF Faithful, Balanced
    <3>5. /\ completed[w] <= Settled(w)
          /\ Settled(w) <= completed[w] + 1
          /\ Settled(w) <= completed[w] + Cardinality(todo[w])
      BY <3>1, <3>2, <3>3 DEF Balanced
    <3> QED BY <3>4, <3>5 DEF w
  <2>3. CompletedAccountsForAll
    <3> SUFFICES ASSUME NEW s \in Scans, progress[s].status = "COMPLETED"
                 PROVE  LET w == <<s, progress[s].by>> IN
                   /\ progress[s].completed = progress[s].total
                   /\ Settled(w) = progress[s].total
                   /\ \A i \in Idx : IsSupported(s, i) =>
                        acked[s][i] # Unverified \/ i \in errors[w]
      BY DEF CompletedAccountsForAll, Settled
    <3> DEFINE w == <<s, progress[s].by>>
    <3>1. /\ w \in Workers /\ w[1] = s
          /\ Faithful(w) /\ Balanced(w) /\ Accounted(w)
      BY <2>1
    <3> HIDE DEF w
    <3>2. pc[w] = "done" /\ todo[w] = {}
      BY <3>1 DEF Faithful, Balanced
    <3>3. Cardinality(todo[w]) = 0 /\ completed[w] \in Nat
      BY <3>1, <3>2, BooksType, FS_EmptySet
    <3>4. /\ progress[s].completed = completed[w]
          /\ progress[s].total = completed[w] /\ Settled(w) = completed[w]
      BY <3>1, <3>2, <3>3 DEF Faithful, Balanced
    <3>5. \A i \in Idx : IsSupported(s, i) =>
            acked[s][i] # Unverified \/ i \in errors[w]
      BY <3>1, <3>2 DEF Accounted, Pending
    <3> QED BY <3>4, <3>5 DEF w
  <2> QED BY <2>2, <2>3 DEF ProgressAccountsForAll
<1> QED BY <1>1, ProgressInvariant, PTL

-----------------------------------------------------------------------------
(***************************************************************************)
(* What a page relies on: the backend implements RunLedger.                *)
(***************************************************************************)

\* A scan is claimed once its upload has been answered, and whoever is past
\* the claim finds it claimed; what is verified by hand has been uploaded.
ClaimsAnswered ==
  /\ \A s \in claimed : upload[s] = "done"
  /\ \A w \in Workers : pc[w] \notin {"unborn", "start", "claiming"} => w[1] \in claimed
  /\ save[EventLoop].stage # "idle" => upload[save[EventLoop].scan] = "done"

\* An upload is answered once, and stays so.
LEMMA AnsweredStays ==
  ASSUME TypeOK, [Next]_vars, NEW s \in Scans, upload[s] = "done"
  PROVE  upload'[s] = "done"
<1> USE DEF dbVars, workerVars, historyVars, budgetVars
<1>0. upload \in [Scans -> {"none", "reading", "saved", "marked", "failing", "done"}]
  BY DEF TypeOK
<1>1. CASE UNCHANGED upload
  BY <1>1
<1>2. ASSUME NEW t \in Scans, CreateScan(t) \/ UploadStep(t) PROVE upload'[s] = "done"
  BY <1>0, <1>2 DEF CreateScan, UploadStep, SaveNormalized, NormalizeFails,
     MarkNormalized, MarkFailed, Dispatch
<1>3. CASE Crash
  BY <1>3 DEF Crash
<1>4. CASE \/ \E t \in Scans, k \in 1..Dispatches : Redispatch(t, k)
           \/ \E t \in Scans, i \in Idx, v \in Verdicts : StartVerify(t, i, v)
           \/ RespondVerify
           \/ \E a \in Savers : SaveStep(a)
           \/ UNCHANGED vars
  BY <1>1, <1>4 DEF Redispatch, StartVerify, RespondVerify, SaveStep, ReadBucket,
     WriteBucket, SaveFails, vars
<1>5. CASE \E w \in Workers : WorkerStep(w)
  BY <1>1, <1>5 DEF WorkerStep, CheckClaim, Claim, AlreadyClaimed, Snapshot, SnapshotFails,
     PickNext, ReplayVerdict, ReplayFails, CountVerdict, RecordError,
     PublishOne, Finish
<1> QED BY <1>2, <1>3, <1>4, <1>5 DEF Next

\* Every step keeps claims and verifications behind the upload's answer.
LEMMA ClaimsStep ==
  ASSUME TypeOK, SavesAimed, ScanLife, NothingBeforeReport, ClaimsAnswered,
         [Next]_vars
  PROVE  ClaimsAnswered'
<1> USE DEF dbVars, workerVars, historyVars, budgetVars
<1>0. /\ save \in [Savers -> SaveCalls] /\ claimed \subseteq Scans
      /\ pc \in [Workers -> RunSteps \cup {"unborn", "start", "claiming", "done", "dead"}]
      /\ EventLoop \in Savers /\ EventLoop \notin Workers
      /\ \A s \in Scans, k \in 1..Dispatches : <<s, k>> \in Workers
      /\ 1 \in 1..Dispatches
      /\ upload \in [Scans -> {"none", "reading", "saved", "marked", "failing", "done"}]
  BY EventLoopAssumption, BoundsAssumption DEF TypeOK, Savers, Workers
\* What a step has to show that answers no upload in reverse.
<1>1. ASSUME \A s \in claimed' :
               s \in claimed \/ (s \in Scans /\ upload[s] = "done"),
             \A w \in Workers : pc'[w] \notin {"unborn", "start", "claiming"}
               => \/ w[1] \in claimed'
                  \/ claimed \subseteq claimed' /\ pc[w] \notin {"unborn", "start", "claiming"},
             save'[EventLoop].stage # "idle"
               => /\ save'[EventLoop].scan \in Scans
                  /\ upload[save'[EventLoop].scan] = "done"
      PROVE  ClaimsAnswered'
  <2>1. \A s \in Scans : upload[s] = "done" => upload'[s] = "done"
    BY AnsweredStays
  <2>2. \A s \in claimed' : upload'[s] = "done"
    BY <1>0, <1>1, <2>1 DEF ClaimsAnswered
  <2>3. \A w \in Workers : pc'[w] \notin {"unborn", "start", "claiming"} => w[1] \in claimed'
    BY <1>1 DEF ClaimsAnswered
  <2> QED BY <1>1, <2>1, <2>2, <2>3 DEF ClaimsAnswered
<1>2. save[EventLoop].stage # "idle"
        => save[EventLoop].scan \in Scans /\ upload[save[EventLoop].scan] = "done"
  BY <1>0 DEF ClaimsAnswered, SavesAimed
<1>3. CASE \E s \in Scans : CreateScan(s) \/ UploadStep(s)
  <2>1. /\ UNCHANGED <<claimed, save>>
        /\ \A w \in Workers : pc'[w] \notin {"unborn", "start", "claiming"}
             => pc[w] \notin {"unborn", "start", "claiming"}
    BY <1>0, <1>3 DEF CreateScan, UploadStep, SaveNormalized, NormalizeFails,
       MarkNormalized, MarkFailed, Dispatch
  <2> QED BY <1>1, <1>2, <2>1
<1>4. CASE \E s \in Scans, k \in 1..Dispatches : Redispatch(s, k)
  <2>1. /\ UNCHANGED <<claimed, save>>
        /\ \A w \in Workers : pc'[w] \notin {"unborn", "start", "claiming"}
             => pc[w] \notin {"unborn", "start", "claiming"}
    BY <1>0, <1>4 DEF Redispatch
  <2> QED BY <1>1, <1>2, <2>1
<1>5. ASSUME NEW s \in Scans, NEW i \in Idx, NEW v \in Verdicts, StartVerify(s, i, v)
      PROVE  ClaimsAnswered'
  <2>1. upload[s] = "done"
    <3>1. upload[s] \notin {"none", "reading"}
      BY <1>5, EmptyReport DEF StartVerify, NothingBeforeReport
    <3> QED BY <1>0, <1>5, <3>1 DEF StartVerify, LoopFree
  <2>2. UNCHANGED <<claimed, pc>> /\ save'[EventLoop].scan = s
    BY <1>0, <1>5 DEF StartVerify, BeginSave
  <2> QED BY <1>1, <2>1, <2>2
<1>6. CASE RespondVerify
  BY <1>0, <1>1, <1>6 DEF RespondVerify, NoCall
<1>7. ASSUME NEW a \in Savers, SaveStep(a) PROVE ClaimsAnswered'
  <2>1. /\ UNCHANGED <<claimed, pc>>
        /\ save'[EventLoop].stage # "idle" => save[EventLoop].stage # "idle"
        /\ save'[EventLoop].scan = save[EventLoop].scan
    BY <1>0, <1>7 DEF SaveStep, ReadBucket, WriteBucket, SaveFails, SaveCalls
  <2> QED BY <1>1, <1>2, <2>1
<1>8. ASSUME NEW w \in Workers, WorkerStep(w) PROVE ClaimsAnswered'
  <2>1. save'[EventLoop] = save[EventLoop]
    BY <1>0, <1>8 DEF WorkerStep, CheckClaim, Claim, AlreadyClaimed, Snapshot,
       SnapshotFails, PickNext, ReplayVerdict, ReplayFails, CountVerdict,
       RecordError, PublishOne, Finish, BeginSave
  <2>2. /\ claimed \subseteq claimed' /\ claimed' \subseteq claimed \cup {w[1]}
        /\ \A x \in Workers \ {w} : pc'[x] = pc[x]
        /\ pc'[w] \notin {"unborn", "start", "claiming"}
             => w[1] \in claimed' \/ pc[w] \notin {"unborn", "start", "claiming"}
        /\ pc[w] # "unborn"
    BY <1>0, <1>8 DEF WorkerStep, CheckClaim, Claim, AlreadyClaimed, Snapshot,
       SnapshotFails, PickNext, ReplayVerdict, ReplayFails, CountVerdict,
       RecordError, PublishOne, Finish
  <2>3. w[1] \in Scans /\ upload[w[1]] = "done"
    BY <2>2, WorkerParts DEF ScanLife
  <2> QED BY <1>1, <1>2, <2>1, <2>2, <2>3
<1>9. CASE Crash
  BY <1>0, <1>1, <1>9 DEF Crash, NoCall
<1>10. CASE UNCHANGED vars
  BY <1>1, <1>2, <1>10 DEF vars
<1> QED BY <1>3, <1>4, <1>5, <1>6, <1>7, <1>8, <1>9, <1>10 DEF Next

RunsInv ==
  /\ ProgressInv
  /\ NoLossWithoutOverlap /\ FreshBuckets
  /\ NothingBeforeReport /\ ClaimsAnswered

\* What is heard of a scan, by where the thread of its run is.
LEMMA HeardFact ==
  ASSUME RunsInv
  PROVE  /\ \A s \in Scans : Heard(s) = "absent" <=> upload[s] # "done"
         /\ \A s \in Scans \ claimed : progress[s].status = "NOT_STARTED"
         /\ \A w \in Workers : pc[w] = "snapshot" =>
              progress[w[1]].status = "NOT_STARTED" /\ Heard(w[1]) = "NOT_STARTED"
         /\ \A w \in Workers : pc[w] \in UnderWay =>
              progress[w[1]].status = "RUNNING" /\ Heard(w[1]) = "RUNNING"
<1> USE DEF RunsInv, ProgressInv
<1>1. \A s \in Scans : progress[s].status \in {"NOT_STARTED", "RUNNING", "COMPLETED"}
  BY DEF TypeOK, ProgressViews
<1>2. ASSUME NEW s \in Scans PROVE Heard(s) = "absent" <=> upload[s] # "done"
  BY <1>1 DEF Heard
<1>3. \A s \in Scans \ claimed : progress[s].status = "NOT_STARTED"
  BY DEF RunnersClaimed, Books
<1>4. \A w \in Workers : pc[w] # "unborn" => w[1] \in Scans /\ upload[w[1]] = "done"
  BY WorkerParts DEF ScanLife
<1>5. ASSUME NEW w \in Workers, pc[w] = "snapshot"
      PROVE  progress[w[1]].status = "NOT_STARTED" /\ Heard(w[1]) = "NOT_STARTED"
  <2>1. progress[w[1]].by = 0
    BY <1>5, UnreadUnpublished DEF Published, RunnersClaimed, RunSteps
  <2>2. progress[w[1]].status = "NOT_STARTED"
    BY <1>4, <1>5, <2>1 DEF Books
  <2> QED BY <1>4, <1>5, <2>2 DEF Heard, Promised
<1>6. ASSUME NEW w \in Workers, pc[w] \in UnderWay
      PROVE  progress[w[1]].status = "RUNNING" /\ Heard(w[1]) = "RUNNING"
  <2>1. progress[w[1]].status = "RUNNING"
    BY <1>6 DEF Books, ThreadBooks, Faithful, UnderWay
  <2> QED BY <1>4, <1>6, <2>1 DEF Heard, UnderWay
<1> QED BY <1>2, <1>3, <1>5, <1>6

\* Nothing is to be heard of a step that leaves the registry's status, the
\* answer to the upload and the promise of a run alone.
LEMMA NothingHeard ==
  ASSUME NEW s \in Scans, upload'[s] = "done" <=> upload[s] = "done",
         progress'[s].status = progress[s].status, Promised(s)' <=> Promised(s)
  PROVE  Heard(s)' = Heard(s)
BY DEF Heard

\* A thread whose step is from one to another of the steps under way, or that
\* publishes RUNNING again, is not heard.
LEMMA RunsUnheard ==
  ASSUME RunsInv, NEW w \in Workers, [Next]_vars,
         pc[w] \in UnderWay, pc'[w] \in UnderWay,
         \A x \in Workers \ {w} : pc'[x] = pc[x], UNCHANGED <<upload, claimed>>,
         \/ UNCHANGED progress
         \/ /\ progress'[w[1]].status = "RUNNING"
            /\ \A s \in Scans \ {w[1]} : progress'[s] = progress[s]
  PROVE  RunsHeard' = RunsHeard
<1>1. progress[w[1]].status = "RUNNING" /\ w[1] \in Scans
  BY HeardFact, WorkerParts
<1>2. ASSUME NEW s \in Scans PROVE Heard(s)' = Heard(s)
  <2>1. progress'[s].status = progress[s].status
    BY <1>1
  <2>2. Promised(s)' <=> Promised(s)
    BY DEF Promised, UnderWay
  <2> QED BY <2>1, <2>2, NothingHeard
<1> QED BY <1>2 DEF RunsHeard

\* The run of one scan is heard of, and of no other.
LEMMA HeardOf ==
  ASSUME NEW s \in Scans, NEW r, Heard(s)' = r,
         \A t \in Scans \ {s} : Heard(t)' = Heard(t)
  PROVE  RunsHeard' = [RunsHeard EXCEPT ![s] = r]
BY DEF RunsHeard

\* The uploads: a scan is accepted with the dispatch of its run, or rejected.
LEMMA RunsUpload ==
  ASSUME RunsInv, NEW s \in Scans, CreateScan(s) \/ UploadStep(s), [Next]_vars
  PROVE  [Runs!Next]_(Runs!runVars)
<1> USE DEF dbVars, workerVars, historyVars, budgetVars
<1>0. /\ upload \in [Scans -> {"none", "reading", "saved", "marked", "failing", "done"}]
      /\ pc \in [Workers -> RunSteps \cup {"unborn", "start", "claiming", "done", "dead"}]
      /\ \A k \in 1..Dispatches : <<s, k>> \in Workers /\ <<s, k>>[1] = s
      /\ 1 \in 1..Dispatches
  BY BoundsAssumption DEF RunsInv, ProgressInv, TypeOK, Workers
<1>1. UNCHANGED <<claimed, progress, verified, raced, save>>
  BY DEF CreateScan, UploadStep, SaveNormalized, NormalizeFails,
     MarkNormalized, MarkFailed, Dispatch
<1>2. WithVerdict' = WithVerdict /\ InHand' = InHand /\ raced' = raced
  BY <1>1 DEF WithVerdict, InHand
<1>3. upload[s] # "done" /\ Heard(s) = "absent" /\ RunsHeard[s] = "absent"
  BY HeardFact DEF CreateScan, UploadStep, SaveNormalized, NormalizeFails,
     MarkNormalized, MarkFailed, Dispatch, RunsHeard
<1>4. s \notin claimed /\ progress[s].status = "NOT_STARTED"
  BY <1>3, HeardFact DEF RunsInv, ClaimsAnswered
<1>5. \A w \in Workers : w[1] = s => pc[w] = "unborn"
  BY <1>3 DEF RunsInv, ProgressInv, ScanLife
<1>6. ASSUME NEW t \in Scans \ {s} PROVE Heard(t)' = Heard(t)
  <2>1. upload'[t] = upload[t] /\ \A w \in Workers : w[1] = t => pc'[w] = pc[w]
    BY <1>0 DEF CreateScan, UploadStep, SaveNormalized, NormalizeFails,
       MarkNormalized, MarkFailed, Dispatch
  <2>2. Promised(t)' <=> Promised(t)
    BY <1>1, <2>1 DEF Promised
  <2> QED BY <1>1, <2>1, <2>2, NothingHeard
<1>7. CASE CreateScan(s) \/ SaveNormalized(s) \/ NormalizeFails(s) \/ MarkNormalized(s)
  <2>1. upload'[s] # "done"
    BY <1>0, <1>7 DEF CreateScan, SaveNormalized, NormalizeFails, MarkNormalized
  <2>2. Heard(s)' = Heard(s)
    BY <1>3, <2>1 DEF Heard
  <2>3. RunsHeard' = RunsHeard
    BY <1>6, <2>2 DEF RunsHeard
  <2> QED BY <1>2, <2>3 DEF Runs!runVars
<1>8. CASE MarkFailed(s)
  <2>1. upload'[s] = "done" /\ UNCHANGED pc
    BY <1>0, <1>8 DEF MarkFailed
  <2>2. ~ Promised(s)'
    BY <1>5, <2>1 DEF Promised
  <2>3. Heard(s)' = "LOST"
    BY <1>1, <1>4, <2>1, <2>2 DEF Heard
  <2>4. Runs!Reject(s)
    BY <1>2, <1>3, <1>6, <2>3, HeardOf DEF Runs!Reject, Runs!Becomes
  <2> QED BY <2>4 DEF Runs!Next
<1>9. CASE Dispatch(s)
  <2>1. upload'[s] = "done" /\ pc'[<<s, 1>>] = "start"
    BY <1>0, <1>9 DEF Dispatch
  <2>2. Promised(s)'
    BY <1>0, <1>1, <1>4, <2>1 DEF Promised
  <2>3. Heard(s)' = "NOT_STARTED"
    BY <1>1, <1>4, <2>1, <2>2 DEF Heard
  <2>4. Runs!Accept(s)
    BY <1>2, <1>3, <1>6, <2>3, HeardOf DEF Runs!Accept, Runs!Becomes
  <2> QED BY <2>4 DEF Runs!Next
<1> QED BY <1>7, <1>8, <1>9 DEF UploadStep

\* A transaction that writes a bucket stores one verdict more, unless the scan
\* is disturbed, and disturbs it only if another save has read its bucket.
LEMMA BucketStored ==
  ASSUME RunsInv, NEW a \in Savers, WriteBucket(a),
         NEW both, Overlaps(a, save[a].scan) => both,
         RunsHeard' = RunsHeard
  PROVE  Runs!Store(save[a].scan, save[a].idx, both)
<1> DEFINE s == save[a].scan
           i == save[a].idx
           held == {j \in Idx : save[a].bucket[j] # Unverified}
<1>0. /\ save[a].stage = "write" /\ s \in Scans /\ i \in Idx /\ save[a].verdict \in Verdicts
      /\ save[a].bucket \in Buckets /\ verified \in [Scans -> Buckets]
      /\ raced \in [Scans -> BOOLEAN]
  BY DEF WriteBucket, RunsInv, ProgressInv, TypeOK, SavesAimed, SaveCalls
<1>1. /\ verified' = [verified EXCEPT ![s] = [save[a].bucket EXCEPT ![i] = save[a].verdict]]
      /\ raced' = [raced EXCEPT ![s] = raced[s] \/ Overlaps(a, s)]
  BY DEF WriteBucket
<1> HIDE DEF s, i
<1>2. WithVerdict' = [WithVerdict EXCEPT ![s] = held \cup {i}]
  <2>1. save[a].verdict # Unverified
    BY <1>0 DEF Verdicts, Unverified
  <2>2. {j \in Idx : verified'[s][j] # Unverified} = held \cup {i}
    BY <1>0, <1>1, <2>1 DEF Buckets
  <2>3. \A t \in Scans \ {s} : verified'[t] = verified[t]
    BY <1>0, <1>1
  <2> QED BY <1>0, <2>2, <2>3 DEF WithVerdict
<1>3. \/ raced' = raced
      \/ both /\ raced' = [raced EXCEPT ![s] = TRUE]
  <2>1. CASE Overlaps(a, s)
    BY <1>1, <2>1 DEF s
  <2>2. CASE ~ Overlaps(a, s)
    BY <1>0, <1>1, <2>2
  <2> QED BY <2>1, <2>2
<1>4. CASE raced'[s]
  <2>1. held \in SUBSET Idx
    OBVIOUS
  <2> QED BY <1>2, <1>3, <1>4, <2>1 DEF Runs!Store, s, i
<1>5. CASE ~ raced'[s]
  <2>1. ~ raced[s]
    BY <1>0, <1>1, <1>5
  <2>2. save[a].bucket = verified[s]
    BY <1>0, <2>1 DEF RunsInv, FreshBuckets, s
  <2>3. held = WithVerdict[s]
    BY <1>0, <2>2 DEF WithVerdict
  <2> QED BY <1>2, <1>3, <2>3 DEF Runs!Store, s, i
<1> QED BY <1>4, <1>5

\* The saves: a run stores a verdict while it is heard to be RUNNING, and the
\* event loop the one that was asked for.
LEMMA RunsSave ==
  ASSUME RunsInv, NEW a \in Savers, SaveStep(a)
  PROVE  [Runs!Next]_(Runs!runVars)
<1> USE DEF dbVars, workerVars, historyVars, budgetVars
<1>0. /\ save \in [Savers -> SaveCalls] /\ EventLoop \in Savers /\ EventLoop \notin Workers
      /\ \A b \in Savers : b # EventLoop => b \in Workers
  BY EventLoopAssumption DEF RunsInv, ProgressInv, TypeOK, Savers
<1>1. UNCHANGED <<upload, claimed, progress, pc>>
  BY DEF SaveStep, ReadBucket, WriteBucket, SaveFails
<1>2. RunsHeard' = RunsHeard
  <2>1. \A s \in Scans : Promised(s)' <=> Promised(s)
    BY <1>1 DEF Promised
  <2> QED BY <1>1, <2>1, NothingHeard DEF RunsHeard
<1>3. InHand' = InHand
  <2>1. /\ save[EventLoop].stage = "idle" <=> save'[EventLoop].stage = "idle"
        /\ save'[EventLoop].scan = save[EventLoop].scan
        /\ save'[EventLoop].idx = save[EventLoop].idx
    BY <1>0 DEF SaveStep, ReadBucket, WriteBucket, SaveFails, SaveCalls
  <2> QED BY <2>1 DEF InHand
<1>4. CASE ReadBucket(a) \/ SaveFails(a)
  <2>1. UNCHANGED <<verified, raced>>
    BY <1>4 DEF ReadBucket, SaveFails
  <2>2. WithVerdict' = WithVerdict
    BY <2>1 DEF WithVerdict
  <2> QED BY <1>2, <1>3, <2>1, <2>2 DEF Runs!runVars
<1>5. CASE WriteBucket(a)
  <2> DEFINE s == save[a].scan
  <2>1. save[a].stage = "write" /\ s \in Scans /\ save[a].idx \in Idx
    BY <1>5 DEF WriteBucket, RunsInv, ProgressInv, SavesAimed
  <2>2. \A w \in Workers : save[w].stage # "idle" =>
          /\ pc[w] = "saving" /\ save[w].scan = w[1] /\ RunsHeard[w[1]] = "RUNNING"
    BY HeardFact, WorkerParts DEF RunsInv, ProgressInv, SaversRun, UnderWay, RunsHeard
  <2>3. CASE a = EventLoop
    <3>1. Overlaps(a, s) => RunsHeard[s] = "RUNNING"
      BY <1>0, <2>2, <2>3 DEF Overlaps
    <3>2. Runs!Store(s, save[a].idx, RunsHeard[s] = "RUNNING")
      BY <1>2, <1>5, <3>1, BucketStored
    <3>3. <<s, save[a].idx>> \in InHand
      BY <2>1, <2>3 DEF InHand
    <3>4. Runs!Verify(s, save[a].idx)
      BY <1>3, <3>2, <3>3 DEF Runs!Verify
    <3> QED BY <2>1, <3>4 DEF Runs!Next
  <2>4. CASE a # EventLoop
    <3>1. a \in Workers /\ pc[a] = "saving" /\ s = a[1] /\ RunsHeard[s] = "RUNNING"
      BY <1>0, <2>1, <2>2, <2>4
    <3>2. Overlaps(a, s) => \E g \in Idx : <<s, g>> \in InHand
      <4> SUFFICES ASSUME NEW b \in Savers \ {a}, save[b].stage = "write", save[b].scan = s
                   PROVE  \E g \in Idx : <<s, g>> \in InHand
        BY DEF Overlaps
      <4>1. b = EventLoop
        <5>1. ASSUME b \in Workers PROVE FALSE
          BY <2>2, <3>1, <5>1 DEF RunsInv, ProgressInv, RunnersClaimed, RunSteps
        <5> QED BY <1>0, <5>1
      <4>2. save[b].idx \in Idx
        BY DEF RunsInv, ProgressInv, SavesAimed
      <4> QED BY <4>1, <4>2 DEF InHand
    <3>3. Runs!Store(s, save[a].idx, \E g \in Idx : <<s, g>> \in InHand)
      BY <1>2, <1>5, <3>2, BucketStored
    <3>4. Runs!Save(s, save[a].idx)
      BY <1>3, <3>1, <3>3 DEF Runs!Save
    <3> QED BY <2>1, <3>4 DEF Runs!Next
  <2> QED BY <2>3, <2>4
<1> QED BY <1>4, <1>5 DEF SaveStep

\* A verification is asked for, and answered.
LEMMA RunsManual ==
  ASSUME RunsInv,
         \/ \E s \in Scans, i \in Idx, v \in Verdicts : StartVerify(s, i, v)
         \/ RespondVerify
  PROVE  [Runs!Next]_(Runs!runVars)
<1> USE DEF dbVars, workerVars, historyVars, budgetVars
<1>0. /\ save \in [Savers -> SaveCalls] /\ EventLoop \in Savers
      /\ upload \in [Scans -> {"none", "reading", "saved", "marked", "failing", "done"}]
  BY DEF RunsInv, ProgressInv, TypeOK, Savers
<1>1. UNCHANGED <<upload, claimed, progress, pc, verified, raced>>
  BY DEF StartVerify, RespondVerify
<1>2. RunsHeard' = RunsHeard
  <2>1. \A s \in Scans : Promised(s)' <=> Promised(s)
    BY <1>1 DEF Promised
  <2> QED BY <1>1, <2>1, NothingHeard DEF RunsHeard
<1>3. WithVerdict' = WithVerdict
  BY <1>1 DEF WithVerdict
<1>4. ASSUME NEW s \in Scans, NEW i \in Idx, NEW v \in Verdicts, StartVerify(s, i, v)
      PROVE  Runs!Next
  <2>1. upload[s] = "done"
    <3>1. upload[s] \notin {"none", "reading"}
      BY <1>4, EmptyReport DEF StartVerify, RunsInv, NothingBeforeReport
    <3> QED BY <1>0, <1>4, <3>1 DEF StartVerify, LoopFree
  <2>2. RunsHeard[s] # "absent"
    BY <2>1, HeardFact DEF RunsHeard
  <2>3. InHand = {} /\ InHand' = {<<s, i>>}
    BY <1>0, <1>4 DEF StartVerify, LoopFree, BeginSave, InHand
  <2>4. Runs!Ask(s, i)
    BY <1>1, <1>2, <1>3, <2>2, <2>3 DEF Runs!Ask
  <2> QED BY <2>4 DEF Runs!Next
<1>5. CASE RespondVerify
  <2>1. InHand' = {}
    BY <1>0, <1>5 DEF RespondVerify, NoCall, InHand
  <2>2. Runs!Answer
    BY <1>1, <1>2, <1>3, <2>1 DEF Runs!Answer
  <2> QED BY <2>2 DEF Runs!Next
<1> QED BY <1>4, <1>5

\* A restart loses every run, and the uploads that were under way.
LEMMA RunsCrash ==
  ASSUME RunsInv, Crash PROVE Runs!Next
<1> DEFINE cut == {s \in Scans : upload[s] \notin {"none", "done"}}
<1> USE DEF dbVars, workerVars, historyVars, budgetVars
<1>1. WithVerdict' = WithVerdict /\ raced' = raced
  BY DEF Crash, WithVerdict
<1>2. InHand' = {}
  BY DEF Crash, NoCall, InHand, Savers
<1>3. ASSUME NEW s \in Scans
      PROVE  Heard(s)' = IF RunsHeard[s] = "absent" /\ s \notin cut THEN "absent" ELSE "LOST"
  <2>1. progress'[s].status = "NOT_STARTED"
    BY DEF Crash, NoProgress
  <2>2. ~ Promised(s)'
    BY DEF Crash, Promised
  <2>3. RunsHeard[s] = "absent" <=> upload[s] # "done"
    BY HeardFact DEF RunsHeard
  <2>4. upload'[s] = IF upload[s] = "none" THEN "none" ELSE "done"
    BY DEF Crash
  <2> QED BY <2>1, <2>2, <2>3, <2>4 DEF Heard
<1>4. RunsHeard' = [s \in Scans |-> IF RunsHeard[s] = "absent" /\ s \notin cut
                                   THEN "absent" ELSE "LOST"]
  BY <1>3 DEF RunsHeard
<1>5. Runs!Restart(cut)
  BY <1>1, <1>2, <1>4 DEF Runs!Restart
<1>6. cut \in SUBSET Scans
  OBVIOUS
<1> QED BY <1>5, <1>6 DEF Runs!Next

\* A further call for a scan promises nothing that is not promised already.
LEMMA RunsRedispatch ==
  ASSUME RunsInv, NEW s \in Scans, NEW k \in 1..Dispatches, Redispatch(s, k)
  PROVE  UNCHANGED Runs!runVars
<1> USE DEF dbVars, workerVars, historyVars, budgetVars
<1>0. /\ pc \in [Workers -> RunSteps \cup {"unborn", "start", "claiming", "done", "dead"}]
      /\ <<s, 1>> \in Workers /\ <<s, k>> \in Workers /\ <<s, 1>>[1] = s
  BY BoundsAssumption DEF RunsInv, ProgressInv, TypeOK, Workers
<1>1. UNCHANGED <<upload, claimed, progress, verified, raced, save>>
  BY DEF Redispatch
<1>2. pc[<<s, 1>>] # "unborn" /\ pc' = [pc EXCEPT ![<<s, k>>] = "start"] /\ pc[<<s, k>>] = "unborn"
  BY DEF Redispatch
<1>3. ASSUME NEW t \in Scans PROVE Promised(t)' <=> Promised(t)
  <2>1. CASE t # s \/ s \in claimed
    BY <1>0, <1>1, <1>2, <2>1 DEF Promised
  <2>2. CASE t = s /\ s \notin claimed
    <3>1. pc[<<s, 1>>] \in {"start", "claiming"}
      BY <1>0, <1>2, <2>2 DEF RunsInv, ClaimsAnswered
    <3>2. pc'[<<s, k>>] = "start" /\ <<s, k>>[1] = s
      BY <1>0, <1>2
    <3> QED BY <1>0, <1>1, <2>2, <3>1, <3>2 DEF Promised
  <2> QED BY <2>1, <2>2
<1>4. RunsHeard' = RunsHeard
  BY <1>1, <1>3, NothingHeard DEF RunsHeard
<1>5. WithVerdict' = WithVerdict /\ InHand' = InHand
  BY <1>1 DEF WithVerdict, InHand
<1> QED BY <1>1, <1>4, <1>5 DEF Runs!runVars

\* The threads: the first reads start a run or end it unheard, the last step
\* completes it, and nothing is heard of the others.
LEMMA RunsWorker ==
  ASSUME RunsInv, NEW w \in Workers, WorkerStep(w), [Next]_vars
  PROVE  [Runs!Next]_(Runs!runVars)
<1> USE DEF dbVars, workerVars, historyVars, budgetVars
<1> DEFINE s == w[1]
<1>0. /\ save \in [Savers -> SaveCalls] /\ EventLoop \in Savers /\ EventLoop \notin Workers
      /\ pc \in [Workers -> RunSteps \cup {"unborn", "start", "claiming", "done", "dead"}]
      /\ progress \in [Scans -> ProgressViews] /\ claimed \subseteq Scans
      /\ s \in Scans
  BY EventLoopAssumption, WorkerParts DEF RunsInv, ProgressInv, TypeOK, Savers
<1>1. UNCHANGED <<upload, verified, raced>> /\ save'[EventLoop] = save[EventLoop]
  BY <1>0 DEF WorkerStep, CheckClaim, Claim, AlreadyClaimed, Snapshot,
     SnapshotFails, PickNext, ReplayVerdict, ReplayFails, CountVerdict,
     RecordError, PublishOne, Finish, BeginSave
<1>2. WithVerdict' = WithVerdict /\ InHand' = InHand /\ raced' = raced
  BY <1>1 DEF WithVerdict, InHand
<1>3. ASSUME RunsHeard' = RunsHeard PROVE UNCHANGED Runs!runVars
  BY <1>2, <1>3 DEF Runs!runVars
<1>4. pc[w] # "unborn" => upload[s] = "done"
  BY DEF RunsInv, ProgressInv, ScanLife
\* Who else is there: nobody past the claim of the same scan.
<1>5. \A x \in Workers : pc[w] \in RunSteps /\ x # w /\ x[1] = s => pc[x] \notin RunSteps
  BY DEF RunsInv, ProgressInv, RunnersClaimed
<1>6. pc[w] \in RunSteps => s \in claimed
  BY DEF RunsInv, ProgressInv, RunnersClaimed
<1>6a. CASE CheckClaim(w)
  <2>1. /\ UNCHANGED <<progress, claimed>> /\ s \notin claimed
        /\ pc[w] = "start" /\ pc' = [pc EXCEPT ![w] = "claiming"]
    BY <1>6a DEF CheckClaim
  <2>2. \A t \in Scans : Promised(t)' <=> Promised(t)
    BY <1>0, <2>1 DEF Promised
  <2>3. RunsHeard' = RunsHeard
    BY <1>1, <2>1, <2>2, NothingHeard DEF RunsHeard
  <2> QED BY <1>3, <2>3
<1>7. CASE Claim(w)
  <2>1. /\ UNCHANGED progress /\ claimed' = claimed \cup {s}
        /\ pc[w] = "claiming" /\ pc' = [pc EXCEPT ![w] = "snapshot"]
    BY <1>7 DEF Claim
  <2>2. Promised(s) /\ Promised(s)'
    BY <1>0, <2>1 DEF Promised
  <2>3. \A t \in Scans \ {s} : Promised(t)' <=> Promised(t)
    BY <1>0, <2>1 DEF Promised
  <2>4. RunsHeard' = RunsHeard
    BY <1>1, <2>1, <2>2, <2>3, NothingHeard DEF RunsHeard
  <2> QED BY <1>3, <2>4
<1>8. CASE AlreadyClaimed(w)
  <2>1. /\ UNCHANGED <<progress, claimed>> /\ s \in claimed
        /\ pc[w] = "start" /\ pc' = [pc EXCEPT ![w] = "done"]
    BY <1>8 DEF AlreadyClaimed
  <2>2. \A t \in Scans : Promised(t)' <=> Promised(t)
    BY <1>0, <2>1 DEF Promised
  <2>3. RunsHeard' = RunsHeard
    BY <1>1, <2>1, <2>2, NothingHeard DEF RunsHeard
  <2> QED BY <1>3, <2>3
<1>9. CASE Snapshot(w)
  <2>1. /\ pc[w] = "snapshot" /\ UNCHANGED claimed
        /\ \A x \in Workers \ {w} : pc'[x] = pc[x]
        /\ progress'[s].status \in {"RUNNING", "COMPLETED"}
        /\ \A t \in Scans \ {s} : progress'[t] = progress[t]
    BY <1>0, <1>9 DEF Snapshot, Publish
  <2>2. Heard(s) = "NOT_STARTED" /\ Heard(s)' \in {"RUNNING", "COMPLETED"}
    BY <1>1, <1>4, <2>1, HeardFact DEF Heard
  <2>3. \A t \in Scans \ {s} : Promised(t)' <=> Promised(t)
    BY <2>1 DEF Promised
  <2>4. \A t \in Scans \ {s} : Heard(t)' = Heard(t)
    BY <1>1, <2>1, <2>3, NothingHeard
  <2>5. PICK to \in {"RUNNING", "COMPLETED"} : Heard(s)' = to
    BY <2>2
  <2>6. RunsHeard' = [RunsHeard EXCEPT ![s] = to]
    BY <1>0, <2>4, <2>5, HeardOf
  <2>7. RunsHeard[s] = "NOT_STARTED"
    BY <1>0, <2>2 DEF RunsHeard
  <2>8. Runs!Start(s)
    BY <1>2, <2>6, <2>7 DEF Runs!Start, Runs!Becomes
  <2> QED BY <1>0, <2>8 DEF Runs!Next
<1>10. CASE SnapshotFails(w)
  <2>1. /\ pc[w] = "snapshot" /\ UNCHANGED <<claimed, progress>>
        /\ pc' = [pc EXCEPT ![w] = "dead"]
    BY <1>10 DEF SnapshotFails
  <2>2. Heard(s) = "NOT_STARTED" /\ progress[s].status = "NOT_STARTED" /\ s \in claimed
    BY <1>6, <2>1, HeardFact DEF RunSteps
  <2>3. ~ Promised(s)'
    BY <1>0, <1>5, <2>1, <2>2 DEF Promised, RunSteps, RunsInv, ProgressInv, RunnersClaimed
  <2>4. Heard(s)' = "LOST"
    BY <1>1, <1>4, <2>1, <2>2, <2>3 DEF Heard
  <2>5. \A t \in Scans \ {s} : Promised(t)' <=> Promised(t)
    BY <1>0, <2>1 DEF Promised
  <2>6. \A t \in Scans \ {s} : Heard(t)' = Heard(t)
    BY <1>1, <2>1, <2>5, NothingHeard
  <2>7. RunsHeard[s] = "NOT_STARTED" /\ RunsHeard' = [RunsHeard EXCEPT ![s] = "LOST"]
    BY <1>0, <2>2, <2>4, <2>6, HeardOf DEF RunsHeard
  <2>8. Runs!Die(s)
    BY <1>2, <2>7 DEF Runs!Die, Runs!Becomes
  <2> QED BY <1>0, <2>8 DEF Runs!Next
<1>11. CASE \/ \E i \in Idx : PickNext(w, i) \/ ReplayFails(w, i) \/ PublishOne(w, i)
            \/ \E i \in Idx, v \in Verdicts : ReplayVerdict(w, i, v)
            \/ CountVerdict(w) \/ RecordError(w)
  <2>1. /\ pc[w] \in UnderWay /\ pc'[w] \in UnderWay /\ UNCHANGED <<upload, claimed>>
        /\ \A x \in Workers \ {w} : pc'[x] = pc[x]
    BY <1>0, <1>11 DEF PickNext, ReplayFails, PublishOne, ReplayVerdict,
       CountVerdict, RecordError, UnderWay
  <2>2. \/ UNCHANGED progress
        \/ /\ progress'[s].status = "RUNNING"
           /\ \A t \in Scans \ {s} : progress'[t] = progress[t]
    <3>1. CASE \E i \in Idx : PickNext(w, i)
      BY <1>0, <3>1 DEF PickNext, Publish
    <3>2. CASE \E i \in Idx : PublishOne(w, i)
      BY <1>0, <3>2 DEF PublishOne, Publish
    <3>3. CASE ~ \E i \in Idx : PickNext(w, i) \/ PublishOne(w, i)
      BY <1>11, <3>3 DEF ReplayFails, ReplayVerdict, CountVerdict, RecordError
    <3> QED BY <3>1, <3>2, <3>3
  <2>3. RunsHeard' = RunsHeard
    BY <2>1, <2>2, RunsUnheard
  <2> QED BY <1>3, <2>3
<1>12. CASE Finish(w)
  <2>1. /\ pc[w] = "loop" /\ UNCHANGED claimed
        /\ pc' = [pc EXCEPT ![w] = "done"]
        /\ progress'[s].status = "COMPLETED"
        /\ \A t \in Scans \ {s} : progress'[t] = progress[t]
    BY <1>0, <1>12 DEF Finish, Publish
  <2>2. RunsHeard[s] = "RUNNING" /\ Heard(s)' = "COMPLETED"
    BY <1>0, <1>1, <1>4, <2>1, HeardFact DEF Heard, RunsHeard, UnderWay
  <2>3. \A t \in Scans \ {s} : Promised(t)' <=> Promised(t)
    BY <1>0, <2>1 DEF Promised
  <2>4. \A t \in Scans \ {s} : Heard(t)' = Heard(t)
    BY <1>1, <2>1, <2>3, NothingHeard
  <2>5. RunsHeard' = [RunsHeard EXCEPT ![s] = "COMPLETED"]
    BY <1>0, <2>2, <2>4, HeardOf
  <2>6. Runs!End(s)
    BY <1>2, <2>2, <2>5 DEF Runs!End, Runs!Becomes
  <2> QED BY <1>0, <2>6 DEF Runs!Next
<1> QED BY <1>6a, <1>7, <1>8, <1>9, <1>10, <1>11, <1>12 DEF WorkerStep

\* The backend implements what a page relies on, manual verifications, failing
\* transactions and restarts included: verdicts appear while a run is heard to
\* be RUNNING or were asked for, a run heard to be COMPLETED stores no more,
\* none starts again unheard, and a verdict only vanishes where the run and a
\* verification saved at once, wherever no two calls have been about to claim a
\* scan at the same time.
THEOREM BackendImplementsRuns == Spec /\ []ClaimsApart => ImplementsRuns
<1>1. Init => Runs!Init
  <2> SUFFICES ASSUME Init PROVE Runs!Init
    OBVIOUS
  <2>1. RunsHeard = [s \in Scans |-> "absent"]
    BY DEF Init, RunsHeard, Heard
  <2>2. WithVerdict = [s \in Scans |-> {}]
    BY DEF Init, WithVerdict, EmptyBucket
  <2>3. InHand = {}
    BY DEF Init, InHand, NoCall, Savers
  <2> QED BY <2>1, <2>2, <2>3 DEF Init, Runs!Init
<1>2. Spec /\ []ClaimsApart => []RunsInv
  <2>1. Init => NoLossWithoutOverlap /\ FreshBuckets /\ NothingBeforeReport /\ ClaimsAnswered
    BY DEF Init, NoLossWithoutOverlap, FreshBuckets, NothingBeforeReport,
       ClaimsAnswered, NoCall, Savers
  <2>2. ProgressInv /\ RunsInv /\ [Next]_vars
          => /\ NoLossWithoutOverlap' /\ FreshBuckets'
             /\ NothingBeforeReport' /\ ClaimsAnswered'
    BY NoLossStep, ReportStep, ClaimsStep DEF ProgressInv, RunsInv
  <2> QED BY <2>1, <2>2, ProgressInvariant, PTL DEF Spec, RunsInv
<1>3. RunsInv /\ [Next]_vars => [Runs!Next]_(Runs!runVars)
  <2> SUFFICES ASSUME RunsInv, [Next]_vars PROVE [Runs!Next]_(Runs!runVars)
    OBVIOUS
  <2>1. CASE UNCHANGED vars
    <3>1. UNCHANGED <<upload, claimed, progress, pc, verified, raced, save>>
      BY <2>1 DEF vars, dbVars, workerVars, historyVars
    <3>2. UNCHANGED <<RunsHeard, WithVerdict, InHand>>
      BY <3>1 DEF RunsHeard, Heard, Promised, WithVerdict, InHand
    <3> QED BY <3>1, <3>2 DEF Runs!runVars
  <2> QED BY <2>1, RunsUpload, RunsRedispatch, RunsManual, RunsSave, RunsWorker,
             RunsCrash DEF Next
<1> QED BY <1>1, <1>2, <1>3, PTL DEF Spec, ImplementsRuns, Runs!Spec
=============================================================================
