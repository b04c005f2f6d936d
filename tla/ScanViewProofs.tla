--------------------------- MODULE ScanViewProofs ---------------------------
(***************************************************************************)
(* What the page shows, proved for every number of operations, scans,      *)
(* failing requests, restarts and reloads: one live poll loop at most, one *)
(* scan's data as long as operations do not overlap, and all of it once    *)
(* the poll of an upload has reported the end of its run.                  *)
(***************************************************************************)
EXTENDS ScanView, TLAPS

-----------------------------------------------------------------------------
(* Tasks. *)

\* A task's fields, and which operation may be suspended where.
Fits(t) ==
  /\ DOMAIN t = {"op", "pc", "scan", "finding", "got"}
  /\ \/ t.op = "none" /\ t.pc \in {"idle", "done"}
     \/ t.op = "load" /\ t.pc \in {"list", "reading", "progress"}
     \/ t.op = "start" /\ t.pc \in {"upload", "reading"}
     \/ t.op = "poll" /\ t.pc \in {"get", "sleep", "reading"}
     \/ t.op = "verify" /\ t.pc \in {"post", "answered", "reading"}
  /\ t.scan \in Scans \cup {None}
  /\ t.scan = None <=> t.pc \in {"idle", "done", "upload"}
  /\ t.finding = None <=> t.op # "verify"
  /\ t.op = "verify" => t.finding \in Pairs
  /\ t.op = "verify" /\ t.pc # "post" => t.finding[1] = t.scan
  /\ DOMAIN t.got \subseteq Parts
  /\ \A p \in DOMAIN t.got : t.got[p] \subseteq Findings

TasksFit == DOMAIN task = Ops /\ \A i \in Ops : Fits(task[i])

\* The parts of TypeOK that are not about tasks.
ViewFits ==
  view \in [scanId : Scans \cup {None}, findings : Scans \cup {None},
            verified : SUBSET Pairs, risks : SUBSET Pairs,
            progress : {NoProgress} \cup
              [scan : Scans, status : {"NOT_STARTED", "RUNNING", "COMPLETED"}],
            polling : Scans \cup {None}, loading : BOOLEAN,
            loadError : BOOLEAN, verifying : Pairs \cup {None},
            upload : {"idle", "uploading", "error", "success"}]

RunFits == run \in [Scans -> {"absent", "NOT_STARTED", "RUNNING", "COMPLETED", "LOST"}]
SavedFits == saved \in [Scans -> SUBSET Findings]
StoredFits == stored \in Scans \cup {None}
BoundsFit ==
  /\ faults \in 0..MaxFaults /\ restarts \in 0..MaxRestarts
  /\ reloads \in 0..MaxReloads

\* Nothing but an uploaded scan is ever named.
NamedAreThere ==
  /\ stored # None => run[stored] # "absent"
  /\ view.scanId # None => run[view.scanId] # "absent"
  /\ \A i \in Ops : task[i].scan # None => run[task[i].scan] # "absent"

AllFit ==
  /\ TasksFit /\ ViewFits /\ RunFits /\ SavedFits /\ StoredFits /\ BoundsFit
  /\ NamedAreThere

\* What a task may become fits.
LEMMA IdleFits == Fits(Idle) /\ Fits(Done) /\ DOMAIN Idle = {"op", "pc", "scan", "finding", "got"}
<1>1. DOMAIN <<>> = {}
  OBVIOUS
<1>2. /\ Idle.op = "none" /\ Idle.pc = "idle" /\ Idle.scan = None
      /\ Idle.finding = None /\ Idle.got = <<>>
      /\ DOMAIN Idle = {"op", "pc", "scan", "finding", "got"}
  BY DEF Idle
<1>3. /\ Done.op = "none" /\ Done.pc = "done" /\ Done.scan = None
      /\ Done.finding = None /\ Done.got = <<>>
      /\ DOMAIN Done = {"op", "pc", "scan", "finding", "got"}
  BY <1>2 DEF Done
<1> QED BY <1>1, <1>2, <1>3 DEF Fits

\* One task moves and the others stay.
LEMMA MoveFits ==
  ASSUME TasksFit, NEW i \in Ops, NEW t, Fits(t), Move(i, t)
  PROVE  /\ TasksFit' /\ task'[i] = t
         /\ \A j \in Ops : j # i => task'[j] = task[j]
BY DEF TasksFit, Move

\* An operation begins as a task that was idle.
LEMMA BeginMoves ==
  ASSUME NEW i \in Ops, NEW t, Begin(i, t) PROVE Move(i, t) /\ task[i] = Idle
BY DEF Begin, Move

\* Where a refresh leaves its task.
LEMMA ResumeFits ==
  ASSUME NEW t, Fits(t), t.pc = "reading"
  PROVE  /\ Fits(Resume(t))
         /\ Resume(t).scan = IF t.op \in {"load", "start"} THEN t.scan ELSE None
<1>0. DOMAIN <<>> = {}
  OBVIOUS
<1>1. CASE t.op = "load"
  BY <1>0, <1>1 DEF Fits, Resume
<1>2. CASE t.op = "start"
  BY <1>0, <1>2 DEF Fits, Resume
<1>3. CASE t.op \in {"poll", "verify"}
  BY <1>3, IdleFits DEF Fits, Resume, Done, Idle
<1> QED BY <1>1, <1>2, <1>3 DEF Fits

\* Where a refresh begins.
LEMMA ReadingFits ==
  ASSUME NEW t, Fits(t), NEW s \in Scans,
         \/ t.op = "load" /\ t.pc = "list"
         \/ t.op = "start" /\ t.pc = "upload"
         \/ t.op = "poll" /\ t.pc = "get"
         \/ t.op = "verify" /\ t.pc = "answered" /\ s = t.scan
  PROVE  /\ Fits(Reading(t, s)) /\ Reading(t, s).scan = s
         /\ Reading(t, s).op = t.op /\ Reading(t, s).pc = "reading"
         /\ Reading(t, s).finding = t.finding /\ Reading(t, s).got = <<>>
<1>1. None # s /\ DOMAIN <<>> = {}
  BY ViewAssumption
<1> QED BY <1>1 DEF Fits, Reading
-----------------------------------------------------------------------------
(* The backend's actions, as the page meets them.                          *)

\* A scan appears with a run, or without one.
LEMMA AppearFact ==
  ASSUME NEW s \in Scans, Backend!Accept(s) \/ Backend!Reject(s)
  PROVE  /\ run[s] = "absent" /\ saved' = saved
         /\ \E to \in {"NOT_STARTED", "LOST"} : run' = [run EXCEPT ![s] = to]
BY DEF Backend!Accept, Backend!Reject, Backend!Becomes

\* A verdict is stored in its scan; runs stay where they are.
LEMMA StoreFact ==
  ASSUME SavedFits, NEW s \in Scans, NEW f \in Findings,
         Backend!Save(s, f) \/ Backend!Verify(s, f)
  PROVE  /\ run' = run /\ SavedFits'
         /\ \A r \in Scans : r # s => saved'[r] = saved[r]
<1>1. PICK both \in BOOLEAN : Backend!Store(s, f, both)
  BY DEF Backend!Save, Backend!Verify
<1>2. /\ run' = run
      /\ \E new \in SUBSET Findings : saved' = [saved EXCEPT ![s] = new]
  <2>1. saved[s] \cup {f} \in SUBSET Findings
    BY DEF SavedFits
  <2>2. \A others \in SUBSET Findings : others \cup {f} \in SUBSET Findings
    OBVIOUS
  <2> QED BY <1>1, <2>1, <2>2 DEF Backend!Store
<1> QED BY <1>2 DEF SavedFits

\* A run goes on, and has no verdict to store once it is over.
LEMMA RunFact ==
  ASSUME RunFits, SavedFits, BoundsFit, NEW s \in Scans, RunStep(s)
  PROVE  /\ UNCHANGED <<view, stored, task>>
         /\ RunFits' /\ SavedFits' /\ BoundsFit' /\ (faults' = 0 => faults = 0)
         /\ run[s] \in {"NOT_STARTED", "RUNNING"} /\ run'[s] # "absent"
         /\ \A r \in Scans : r # s => run'[r] = run[r] /\ saved'[r] = saved[r]
<1>1. UNCHANGED <<view, stored, task>>
  BY DEF RunStep, RunStarts, RunEnds, RunDies, RunSaves, Unseen
<1>2. BoundsFit' /\ (faults' = 0 => faults = 0)
  BY ViewAssumption DEF RunStep, RunStarts, RunEnds, RunDies, RunSaves, Fault,
     BoundsFit, bounds
<1>3. ASSUME NEW from \in {"NOT_STARTED", "RUNNING"},
             NEW to \in {"RUNNING", "COMPLETED", "LOST"}, Backend!Becomes(s, from, to)
      PROVE  /\ RunFits' /\ SavedFits'
             /\ run[s] \in {"NOT_STARTED", "RUNNING"} /\ run'[s] # "absent"
             /\ \A r \in Scans : r # s => run'[r] = run[r] /\ saved'[r] = saved[r]
  BY <1>3 DEF Backend!Becomes, RunFits, SavedFits
<1>4. ASSUME NEW f \in Findings, RunSaves(s, f)
      PROVE  /\ RunFits' /\ SavedFits' /\ run[s] = "RUNNING" /\ run' = run
             /\ \A r \in Scans : r # s => saved'[r] = saved[r]
  BY <1>4, StoreFact DEF RunSaves, Backend!Save, RunFits
<1>5. \/ \E from \in {"NOT_STARTED", "RUNNING"}, to \in {"RUNNING", "COMPLETED", "LOST"} :
           Backend!Becomes(s, from, to)
      \/ \E f \in Findings : RunSaves(s, f)
  BY DEF RunStep, RunStarts, RunEnds, RunDies, Backend!Start, Backend!End, Backend!Die
<1> QED BY <1>1, <1>2, <1>3, <1>4, <1>5

\* After a restart the registry knows of no run.
LEMMA RestartFact ==
  ASSUME BoundsFit, Restart
  PROVE  /\ UNCHANGED <<view, stored, task, saved, faults>> /\ BoundsFit'
         /\ run' = [s \in Scans |-> IF run[s] = "absent" THEN "absent" ELSE "LOST"]
BY ViewAssumption DEF Restart, Unseen, Backend!Restart, BoundsFit

-----------------------------------------------------------------------------
(* Types: one lemma per part of the hook.                                  *)

\* What a poll or a look at the progress may show.
LEMMA StatusFits ==
  ASSUME RunFits, NEW s \in Scans, run[s] # "absent"
  PROVE  Status(s) \in {"NOT_STARTED", "RUNNING", "COMPLETED"}
BY DEF RunFits, Status

\* A failing request is counted.
LEMMA FaultFits == ASSUME BoundsFit, Fault PROVE BoundsFit'
BY ViewAssumption DEF BoundsFit, Fault

\* Nothing of the backend changes but what it has stored.
LEMMA NamedStay ==
  ASSUME NamedAreThere, UNCHANGED <<run, stored>>,
         view'.scanId \in {view.scanId, None}
           \/ (view'.scanId \in Scans /\ run[view'.scanId] # "absent"),
         \A i \in Ops : task'[i].scan \in {task[i].scan, None}
           \/ (task'[i].scan \in Scans /\ run[task'[i].scan] # "absent")
  PROVE  NamedAreThere'
BY DEF NamedAreThere

LEMMA RefreshType ==
  ASSUME AllFit, NEW i \in Ops,
         (\E p \in Parts : Answer(i, p)) \/ Refreshed(i) \/ RefreshFails(i)
  PROVE  AllFit'
<1> USE DEF AllFit
<1>0. Fits(task[i])
  BY DEF TasksFit
<1>1. ASSUME NEW p \in Parts, Answer(i, p) PROVE AllFit'
  <2> DEFINE t == task[i]
             got == [q \in DOMAIN t.got \cup {p} |->
                       IF q = p THEN saved[t.scan] ELSE t.got[q]]
  <2>1. t.pc = "reading" /\ Move(i, [t EXCEPT !.got = got])
        /\ UNCHANGED <<serverVars, view, stored, bounds>>
    BY <1>1 DEF Answer
  <2>2. t.scan \in Scans /\ saved[t.scan] \subseteq Findings
    BY <1>0, <2>1 DEF Fits, SavedFits
  <2>3. DOMAIN got \subseteq Parts /\ \A q \in DOMAIN got : got[q] \subseteq Findings
    BY <1>0, <2>2 DEF Fits
  <2>4. Fits([t EXCEPT !.got = got]) /\ [t EXCEPT !.got = got].scan = t.scan
    BY <1>0, <2>3 DEF Fits
  <2>5. TasksFit' /\ \A j \in Ops : task'[j].scan = task[j].scan
    BY <2>1, <2>4, MoveFits
  <2> QED BY <2>1, <2>5, NamedStay
          DEF ViewFits, RunFits, SavedFits, StoredFits, BoundsFit, serverVars, bounds
<1>2. ASSUME Refreshed(i) \/ RefreshFails(i) PROVE AllFit'
  <2> DEFINE t == task[i]
  <2>1. /\ t.pc = "reading" /\ Move(i, Resume(t))
        /\ UNCHANGED <<serverVars, stored>>
        /\ Fault \/ UNCHANGED bounds
    BY <1>2 DEF Refreshed, RefreshFails
  <2>2. TasksFit' /\ \A j \in Ops : task'[j].scan \in {task[j].scan, None}
    BY <1>0, <2>1, ResumeFits, MoveFits
  <2>3. t.scan \in Scans
    BY <1>0, <2>1 DEF Fits
  <2>4. ViewFits' /\ view'.scanId = view.scanId
    <3>1. CASE Refreshed(i)
      <4>1. /\ {t.scan} \X t.got["verified"] \subseteq Pairs
            /\ {t.scan} \X t.got["risks"] \subseteq Pairs
        BY <1>0, <2>3, <3>1 DEF Refreshed, Fits, Parts, Pairs
      <4>2. \E v \in [scanId : {view.scanId}, findings : Scans \cup {None},
                      verified : SUBSET Pairs, risks : SUBSET Pairs,
                      progress : {view.progress},
                      polling : {view.polling}, loading : BOOLEAN,
                      loadError : BOOLEAN, verifying : {view.verifying},
                      upload : {view.upload}] : view' = ResumeView(t, v)
        BY <2>3, <3>1, <4>1 DEF Refreshed, ViewFits
      <4> QED BY <2>3, <4>2 DEF ViewFits, ResumeView
    <3>2. CASE RefreshFails(i)
      BY <2>3, <3>2 DEF RefreshFails, ViewFits, ResumeView
    <3> QED BY <1>2, <3>1, <3>2
  <2>5. NamedAreThere'
    BY <2>1, <2>2, <2>4, NamedStay DEF serverVars
  <2> QED BY <2>1, <2>2, <2>4, <2>5, FaultFits
          DEF RunFits, SavedFits, StoredFits, BoundsFit, serverVars, bounds
<1> QED BY <1>1, <1>2
LEMMA LoadType ==
  ASSUME AllFit, NEW i \in Ops,
         \/ \E s \in Scans : LoadScan(i, s)
         \/ Listed(i) \/ ListFails(i) \/ ProgressLoaded(i) \/ ProgressFails(i)
  PROVE  AllFit'
<1> USE DEF AllFit
<1>0. Fits(task[i]) /\ UNCHANGED serverVars /\ UNCHANGED <<run, saved>>
  BY DEF TasksFit, LoadScan, Listed, ListFails, ProgressLoaded, ProgressFails,
     serverVars
<1>1. ASSUME NEW s \in Scans, LoadScan(i, s) PROVE AllFit'
  <2>1. Fits(LoadTask(s)) /\ LoadTask(s).scan = s
    BY IdleFits, ViewAssumption DEF Fits, LoadTask, Idle
  <2>2. /\ TasksFit' /\ \A j \in Ops : task'[j].scan \in {task[j].scan, s}
        /\ run[s] # "absent"
    BY <1>1, <2>1, BeginMoves, MoveFits DEF LoadScan
  <2>3. ViewFits' /\ view'.scanId = view.scanId
    BY <1>1 DEF LoadScan, ViewFits, Selected, Loading
  <2> QED BY <1>0, <1>1, <2>2, <2>3, NamedStay
          DEF LoadScan, RunFits, SavedFits, StoredFits, BoundsFit, bounds
<1>2. CASE Listed(i)
  <2> DEFINE t == task[i]
  <2>1. t.op = "load" /\ t.pc = "list" /\ t.scan \in Scans /\ run[t.scan] # "absent"
    BY <1>0, <1>2 DEF Listed, Fits, NamedAreThere
  <2>2. TasksFit' /\ \A j \in Ops : task'[j].scan = task[j].scan
    BY <1>0, <1>2, <2>1, ReadingFits, MoveFits DEF Listed
  <2>3. ViewFits' /\ view'.scanId = t.scan /\ stored' = t.scan
    BY <1>2, <2>1 DEF Listed, ViewFits, Loading
  <2> QED BY <1>0, <1>2, <2>1, <2>2, <2>3
          DEF Listed, RunFits, SavedFits, StoredFits, BoundsFit, bounds,
              NamedAreThere
<1>3. CASE ListFails(i) \/ ProgressLoaded(i) \/ ProgressFails(i)
  <2>1. TasksFit' /\ \A j \in Ops : task'[j].scan \in {task[j].scan, None}
    <3>1. Done.scan = None
      BY DEF Done, Idle
    <3> QED BY <1>3, <3>1, IdleFits, MoveFits
            DEF ListFails, ProgressLoaded, ProgressFails
  <2>2. ViewFits' /\ view'.scanId = view.scanId
    <3>1. CASE ListFails(i) \/ ProgressFails(i)
      BY <3>1 DEF ListFails, ProgressFails, ViewFits
    <3>2. CASE ProgressLoaded(i)
      <4>1. task[i].scan \in Scans /\ run[task[i].scan] # "absent"
        BY <1>0, <3>2 DEF ProgressLoaded, Fits, NamedAreThere
      <4> QED BY <3>2, <4>1, StatusFits DEF ProgressLoaded, ViewFits
    <3> QED BY <1>3, <3>1, <3>2
  <2>3. StoredFits' /\ NamedAreThere' /\ BoundsFit'
    BY <1>0, <1>3, <2>1, <2>2, FaultFits
       DEF ListFails, ProgressLoaded, ProgressFails, StoredFits, NamedAreThere,
           BoundsFit, bounds
  <2> QED BY <1>0, <2>1, <2>2, <2>3 DEF RunFits, SavedFits
<1> QED BY <1>1, <1>2, <1>3

LEMMA StartType ==
  ASSUME AllFit, NEW i \in Ops,
         StartScan(i) \/ (\E s \in Scans : Uploaded(i, s)) \/ UploadFails(i)
  PROVE  AllFit'
<1> USE DEF AllFit
<1>0. Fits(task[i]) /\ saved' = saved
  BY AppearFact DEF TasksFit, StartScan, Uploaded, UploadFails, serverVars
<1>1. CASE StartScan(i)
  <2> DEFINE t == [Idle EXCEPT !.op = "start", !.pc = "upload"]
  <2>1. Fits(t) /\ t.scan = None
    BY IdleFits DEF Fits, Idle
  <2>2. TasksFit' /\ \A j \in Ops : task'[j].scan \in {task[j].scan, None}
    BY <1>1, <2>1, BeginMoves, MoveFits DEF StartScan
  <2>3. ViewFits' /\ view'.scanId = view.scanId
    BY <1>1 DEF StartScan, ViewFits
  <2> QED BY <1>0, <1>1, <2>2, <2>3, NamedStay
          DEF StartScan, serverVars, RunFits, SavedFits, StoredFits, BoundsFit,
              bounds
<1>2. ASSUME NEW s \in Scans, Uploaded(i, s) PROVE AllFit'
  <2> DEFINE t == task[i]
  <2>1. t.op = "start" /\ t.pc = "upload"
    BY <1>0, <1>2 DEF Uploaded, Fits
  <2>2. TasksFit' /\ \A j \in Ops : task'[j].scan \in {task[j].scan, s}
    <3>1. Fits(Reading(t, s)) /\ Reading(t, s).scan = s
      BY <1>0, <2>1, ReadingFits
    <3> QED BY <1>2, <3>1, MoveFits DEF Uploaded
  <2>3. ViewFits' /\ view'.scanId = s /\ stored' = s
    BY <1>2 DEF Uploaded, ViewFits, Loading
  <2>4. RunFits' /\ run'[s] # "absent"
        /\ \A r \in Scans : run[r] # "absent" => run'[r] # "absent"
    BY <1>2, AppearFact DEF Uploaded, RunFits
  <2>5. NamedAreThere'
    <3>1. \A j \in Ops : task[j].scan \in Scans \cup {None}
      BY DEF TasksFit, Fits
    <3> QED BY <2>2, <2>3, <2>4, <3>1 DEF NamedAreThere
  <2> QED BY <1>0, <1>2, <2>2, <2>3, <2>4, <2>5
          DEF Uploaded, SavedFits, StoredFits, BoundsFit, bounds
<1>3. CASE UploadFails(i)
  <2>1. TasksFit' /\ \A j \in Ops : task'[j].scan \in {task[j].scan, None}
    <3>1. Done.scan = None
      BY DEF Done, Idle
    <3> QED BY <1>3, <3>1, IdleFits, MoveFits DEF UploadFails
  <2>2. ViewFits' /\ view'.scanId = view.scanId
    BY <1>3 DEF UploadFails, ViewFits
  <2>3. RunFits' /\ \A r \in Scans : run[r] # "absent" => run'[r] # "absent"
    BY <1>3, AppearFact DEF UploadFails, serverVars, RunFits
  <2>4. BoundsFit' /\ stored' = stored
    BY <1>3, FaultFits DEF UploadFails
  <2>5. NamedAreThere'
    <3>1. \A j \in Ops : task[j].scan \in Scans \cup {None}
      BY DEF TasksFit, Fits
    <3> QED BY <2>1, <2>2, <2>3, <2>4, <3>1 DEF NamedAreThere, ViewFits, StoredFits
  <2> QED BY <1>0, <2>1, <2>2, <2>3, <2>4, <2>5 DEF SavedFits, StoredFits
<1> QED BY <1>1, <1>2, <1>3

LEMMA PollType ==
  ASSUME AllFit, NEW i \in Ops,
         \/ Superseded(i) \/ PollAgain(i) \/ PollEnded(i) \/ PollFails(i)
         \/ Wake(i)
  PROVE  AllFit'
<1> USE DEF AllFit
<1> DEFINE t == task[i]
<1>0. Fits(t) /\ UNCHANGED <<run, saved, stored>>
  BY DEF TasksFit, Superseded, PollAgain, PollEnded, PollFails, Wake, serverVars
<1>1. t.op = "poll" /\ t.pc \in {"get", "sleep"} /\ t.scan \in Scans
      /\ run[t.scan] # "absent"
  BY <1>0 DEF Superseded, PollAgain, PollEnded, PollFails, Wake, Fits,
     NamedAreThere
<1>2. BoundsFit'
  BY FaultFits DEF Superseded, PollAgain, PollEnded, PollFails, Wake, BoundsFit,
     bounds
<1>3. TasksFit' /\ \A j \in Ops : task'[j].scan \in {task[j].scan, None}
  <2>1. CASE Superseded(i)
    <3>1. Done.scan = None
      BY DEF Done, Idle
    <3> QED BY <2>1, <3>1, IdleFits, MoveFits DEF Superseded
  <2>2. ASSUME NEW pc \in {"get", "sleep"}, Move(i, [t EXCEPT !.pc = pc])
        PROVE  TasksFit' /\ \A j \in Ops : task'[j].scan \in {task[j].scan, None}
    <3>1. Fits([t EXCEPT !.pc = pc]) /\ [t EXCEPT !.pc = pc].scan = t.scan
      BY <1>0, <1>1 DEF Fits
    <3> QED BY <2>2, <3>1, MoveFits
  <2>3. CASE PollEnded(i)
    BY <1>0, <1>1, <2>3, ReadingFits, MoveFits DEF PollEnded
  <2> QED BY <2>1, <2>2, <2>3 DEF PollAgain, PollFails, Wake
<1>4. ViewFits' /\ view'.scanId = view.scanId
  <2>1. CASE Superseded(i) \/ PollFails(i) \/ Wake(i)
    BY <2>1 DEF Superseded, PollFails, Wake, ViewFits
  <2>2. [scan |-> t.scan, status |-> Status(t.scan)]
          \in [scan : Scans, status : {"NOT_STARTED", "RUNNING", "COMPLETED"}]
    BY <1>1, StatusFits
  <2>3. CASE PollAgain(i)
    BY <2>2, <2>3 DEF PollAgain, Showing, ViewFits
  <2>4. CASE PollEnded(i)
    BY <2>2, <2>4 DEF PollEnded, Showing, Loading, ViewFits
  <2> QED BY <2>1, <2>3, <2>4
<1>5. NamedAreThere'
  BY <1>0, <1>3, <1>4, NamedStay
<1> QED BY <1>0, <1>2, <1>3, <1>4, <1>5 DEF RunFits, SavedFits, StoredFits

LEMMA VerifyType ==
  ASSUME AllFit, NEW i \in Ops,
         \/ \E f \in Findings : Verify(i, f)
         \/ VerdictSaved(i) \/ VerifyAnswered(i) \/ VerifyFails(i)
  PROVE  AllFit'
<1> USE DEF AllFit
<1> DEFINE t == task[i]
<1>0. Fits(t) /\ UNCHANGED <<run, stored>>
  <2>1. Fits(t)
    BY DEF TasksFit
  <2>2. CASE VerdictSaved(i)
    BY <2>1, <2>2, StoreFact DEF VerdictSaved, Posted, Fits, Pairs
  <2> QED BY <2>1, <2>2 DEF Verify, VerifyAnswered, VerifyFails, serverVars
<1>1. ASSUME NEW f \in Findings, Verify(i, f) PROVE AllFit'
  <2> DEFINE shown == <<view.findings, f>>
             n == [Idle EXCEPT !.op = "verify", !.pc = "post",
                               !.scan = view.scanId, !.finding = shown]
  <2>1. shown \in Pairs /\ view.scanId \in Scans /\ run[view.scanId] # "absent"
    BY <1>1 DEF Verify, ViewFits, Pairs, NamedAreThere
  <2>2. None # shown /\ None # view.scanId
    BY <2>1, ViewAssumption DEF Pairs
  <2>3. Fits(n) /\ n.scan = view.scanId
    BY <2>1, <2>2, IdleFits DEF Fits, Idle
  <2>4. TasksFit' /\ \A j \in Ops : task'[j].scan \in {task[j].scan, view.scanId}
    <3>1. Begin(i, n)
      BY <1>1 DEF Verify
    <3>2. Move(i, n)
      BY <3>1, BeginMoves
    <3>3. TasksFit' /\ task'[i] = n /\ \A j \in Ops : j # i => task'[j] = task[j]
      BY <2>3, <3>2, MoveFits
    <3> QED BY <2>3, <3>3
  <2>5. ViewFits' /\ view'.scanId = view.scanId
    BY <1>1, <2>1 DEF Verify, ViewFits
  <2> QED BY <1>0, <1>1, <2>1, <2>4, <2>5, NamedStay
          DEF Verify, serverVars, RunFits, SavedFits, StoredFits, BoundsFit, bounds
<1>2. CASE VerdictSaved(i)
  <2> DEFINE n == [t EXCEPT !.pc = "answered"]
  <2>1. /\ t.op = "verify" /\ t.scan \in Scans /\ t.finding \in Pairs
        /\ t.finding[1] = t.scan /\ t.finding[2] \in Findings
    BY <1>0, <1>2 DEF VerdictSaved, Posted, Fits, Pairs
  <2>2. Fits(n) /\ n.scan = t.scan
    BY <1>0, <2>1 DEF Fits
  <2>3. TasksFit' /\ \A j \in Ops : task'[j].scan = task[j].scan
    BY <1>2, <2>2, MoveFits DEF VerdictSaved
  <2>4. SavedFits'
    BY <1>2, <2>1, StoreFact DEF VerdictSaved
  <2> QED BY <1>0, <1>2, <2>3, <2>4, NamedStay
          DEF VerdictSaved, ViewFits, RunFits, StoredFits, BoundsFit, bounds
<1>3. CASE VerifyAnswered(i)
  <2>1. t.op = "verify" /\ t.pc = "answered" /\ t.scan \in Scans /\ t.finding \in Pairs
    BY <1>0, <1>3 DEF VerifyAnswered, Fits
  <2>2. TasksFit' /\ \A j \in Ops : task'[j].scan = task[j].scan
    <3>1. Fits(Reading(t, t.scan)) /\ Reading(t, t.scan).scan = t.scan
      BY <1>0, <2>1, ReadingFits
    <3> QED BY <1>3, <3>1, MoveFits DEF VerifyAnswered
  <2>3. ViewFits' /\ view'.scanId = view.scanId
    BY <1>3, <2>1 DEF VerifyAnswered, Loading, ViewFits
  <2> QED BY <1>0, <1>3, <2>2, <2>3, NamedStay
          DEF VerifyAnswered, serverVars, RunFits, SavedFits, StoredFits, BoundsFit,
              bounds
<1>4. CASE VerifyFails(i)
  <2>1. TasksFit' /\ \A j \in Ops : task'[j].scan \in {task[j].scan, None}
    <3>1. Done.scan = None
      BY DEF Done, Idle
    <3> QED BY <1>4, <3>1, IdleFits, MoveFits DEF VerifyFails
  <2>2. ViewFits' /\ view'.scanId = view.scanId
    BY <1>4 DEF VerifyFails, ViewFits
  <2>3. BoundsFit'
    BY <1>4, FaultFits DEF VerifyFails, BoundsFit, bounds
  <2> QED BY <1>0, <1>4, <2>1, <2>2, <2>3, NamedStay
          DEF VerifyFails, serverVars, RunFits, SavedFits, StoredFits
<1> QED BY <1>1, <1>2, <1>3, <1>4

LEMMA BackendType ==
  ASSUME AllFit, (\E s \in Scans : RunStep(s)) \/ Restart
  PROVE  AllFit'
<1> USE DEF AllFit
<1>1. /\ UNCHANGED <<view, stored, task>>
      /\ RunFits' /\ SavedFits' /\ BoundsFit'
      /\ \A s \in Scans : run[s] # "absent" => run'[s] # "absent"
  <2>1. ASSUME NEW s \in Scans, RunStep(s)
        PROVE  \A r \in Scans : run[r] # "absent" => run'[r] # "absent"
    BY <2>1, RunFact
  <2>2. CASE Restart
    BY <2>2, RestartFact DEF RunFits, SavedFits
  <2> QED BY <2>1, <2>2, RunFact
<1>2. NamedAreThere'
  BY <1>1 DEF NamedAreThere, TasksFit, Fits, ViewFits, StoredFits
<1> QED BY <1>1, <1>2 DEF TasksFit, ViewFits, StoredFits

\* What a reload leaves: no task but the one that loads the stored scan.
LEMMA ReloadLeaves ==
  ASSUME AllFit, Reload
  PROVE  /\ DOMAIN task' = Ops /\ run' = run /\ stored' = stored
         /\ \/ /\ view' = BlankView
               /\ \A j \in Ops : task'[j] \in {Idle, Done}
            \/ /\ view' = Selected(BlankView) /\ stored \in Scans
               /\ \E i \in Ops : task'[i] = LoadTask(stored)
                    /\ \A j \in Ops : j # i => task'[j] \in {Idle, Done}
<1> DEFINE open == {i \in Ops : task[i] # Idle}
           cleared == [i \in Ops |-> IF i \in open THEN Done ELSE Idle]
<1>1. CASE stored = None
  BY <1>1 DEF Reload
<1>2. CASE stored # None
  <2>1. PICK i \in Ops \ open : task' = [cleared EXCEPT ![i] = LoadTask(stored)]
    BY <1>2 DEF Reload
  <2> QED BY <1>2, <2>1 DEF Reload, AllFit, StoredFits
<1> QED BY <1>1, <1>2

LEMMA ReloadType == ASSUME AllFit, Reload PROVE AllFit'
<1> USE DEF AllFit
<1>1. stored \in Scans => Fits(LoadTask(stored)) /\ LoadTask(stored).scan = stored
  BY IdleFits, ViewAssumption DEF Fits, LoadTask, Idle
<1>2. TasksFit' /\ \A j \in Ops : task'[j].scan \in {None, stored}
  <2>1. Idle.scan = None /\ Done.scan = None
    BY DEF Idle, Done
  <2> QED BY <1>1, <2>1, IdleFits, ReloadLeaves DEF TasksFit
<1>3. ViewFits' /\ view'.scanId = None
  <2>1. view' = BlankView \/ view' = Selected(BlankView)
    BY ReloadLeaves
  <2>2. /\ Selected(BlankView) \in [scanId : {None}, findings : {None},
             verified : {{}}, risks : {{}}, progress : {NoProgress},
             polling : {None}, loading : BOOLEAN, loadError : BOOLEAN,
             verifying : {None}, upload : {"idle"}]
        /\ BlankView \in [scanId : {None}, findings : {None},
             verified : {{}}, risks : {{}}, progress : {NoProgress},
             polling : {None}, loading : BOOLEAN, loadError : BOOLEAN,
             verifying : {None}, upload : {"idle"}]
    BY DEF Selected, Loading, BlankView
  <2> QED BY <2>1, <2>2 DEF ViewFits
<1>4. RunFits' /\ StoredFits' /\ NamedAreThere'
  BY <1>2, <1>3, ReloadLeaves DEF RunFits, StoredFits, NamedAreThere
<1>5. BoundsFit'
  BY ViewAssumption DEF Reload, BoundsFit
<1>6. SavedFits'
  <2>1. PICK kept \in SUBSET {i \in Ops : Posted(i)} :
          saved' = [s \in Scans |-> saved[s] \cup
                      {task[i].finding[2] : i \in {j \in kept : task[j].scan = s}}]
    BY DEF Reload
  <2>2. \A i \in kept : task[i].finding[2] \in Findings
    BY DEF TasksFit, Fits, Posted, Pairs
  <2> QED BY <2>1, <2>2 DEF SavedFits
<1> QED BY <1>2, <1>3, <1>4, <1>5, <1>6

\* Every step keeps the types.
LEMMA AllFitStep == ASSUME AllFit, [Next]_vars PROVE AllFit'
<1>1. CASE Step
  <2>1. CASE UserStep
    BY <2>1, LoadType, StartType, VerifyType DEF UserStep
  <2>2. ASSUME NEW i \in Ops, TaskStep(i) \/ TaskFails(i) PROVE AllFit'
    BY <2>2, RefreshType, LoadType, StartType, PollType, VerifyType
       DEF TaskStep, TaskFails
  <2> QED BY <1>1, <2>1, <2>2, BackendType DEF Step
<1>2. CASE Reload
  BY <1>2, ReloadType
<1>3. CASE UNCHANGED vars
  BY <1>3 DEF vars, mainVars, serverVars, bounds, AllFit, TasksFit, ViewFits, RunFits,
     SavedFits, StoredFits, BoundsFit, NamedAreThere
<1> QED BY <1>1, <1>2, <1>3 DEF Next

LEMMA AllFitInit == Init => AllFit
<1> SUFFICES ASSUME Init PROVE AllFit
  OBVIOUS
<1>1. TasksFit /\ \A i \in Ops : task[i].scan = None
  BY IdleFits DEF Init, TasksFit, Idle
<1>2. ViewFits /\ view.scanId = None
  BY DEF Init, ViewFits, BlankView, NoProgress
<1>3. RunFits
  BY DEF Init, RunFits
<1>4. SavedFits /\ StoredFits /\ BoundsFit
  BY ViewAssumption DEF Init, SavedFits, StoredFits, BoundsFit
<1> QED BY <1>1, <1>2, <1>3, <1>4 DEF Init, AllFit, NamedAreThere

TypesInv == AllFit /\ overlap \in BOOLEAN

LEMMA TypesHold == Spec => []TypesInv
<1>1. Init => TypesInv
  BY AllFitInit DEF Init, TypesInv
<1>2. TypesInv /\ [Next]_vars => TypesInv'
  <2> SUFFICES ASSUME AllFit, overlap \in BOOLEAN, [Next]_vars
               PROVE  AllFit' /\ overlap' \in BOOLEAN
    BY DEF TypesInv
  <2>1. overlap' \in BOOLEAN
    BY DEF Next, Reload, vars
  <2> QED BY <2>1, AllFitStep
<1> QED BY <1>1, <1>2, PTL DEF Spec

\* Type correctness of the page for every number of operations and scans.
THEOREM ViewTypeCorrect == Spec => []TypeOK
<1>1. TypesInv => TypeOK
  <2> SUFFICES ASSUME AllFit, overlap \in BOOLEAN PROVE TypeOK
    BY DEF TypesInv
  <2>1. ASSUME NEW i \in Ops
        PROVE  /\ task[i].op \in {"none", "load", "start", "poll", "verify"}
               /\ task[i].pc \in {"idle", "done", "get", "sleep"} \/ Busy(task[i])
               /\ task[i].scan = None <=> task[i].pc \in {"idle", "done", "upload"}
               /\ task[i].finding = None <=> task[i].op # "verify"
               /\ DOMAIN task[i].got \subseteq Parts
               /\ \A p \in DOMAIN task[i].got : task[i].got[p] \subseteq Findings
    BY DEF AllFit, TasksFit, Fits, Busy
  <2> QED BY <2>1 DEF AllFit, TasksFit, ViewFits, RunFits, SavedFits, StoredFits,
             BoundsFit, TypeOK
<1> QED BY <1>1, TypesHold, PTL
-----------------------------------------------------------------------------
(* What each step does to the task that takes it.                          *)

\* Fields of a task that is over, of a selection, of a refresh that goes on.
LEMMA TaskFields ==
  /\ Idle.op = "none" /\ Idle.pc = "idle" /\ Idle.scan = None
  /\ Done.op = "none" /\ Done.pc = "done" /\ Done.scan = None
  /\ \A s : /\ LoadTask(s).op = "load" /\ LoadTask(s).pc = "list"
            /\ LoadTask(s).scan = s
BY DEF Idle, Done, LoadTask

\* A task that is only resumed or suspended keeps what it captured.
LEMMA SuspendedFields ==
  ASSUME NEW t, Fits(t), NEW pc
  PROVE  LET n == [t EXCEPT !.pc = pc] IN
         n.pc = pc /\ n.op = t.op /\ n.scan = t.scan /\ n.finding = t.finding
BY DEF Fits

\* A task that begins a refresh, too.
LEMMA ReadingFields ==
  ASSUME NEW t, Fits(t), NEW s
  PROVE  LET n == Reading(t, s) IN
         /\ n.pc = "reading" /\ n.op = t.op /\ n.scan = s
         /\ n.finding = t.finding /\ n.got = <<>>
BY DEF Fits, Reading

\* A refresh that is over leaves its task done, or where loadScan and startScan
\* go on.
LEMMA ResumeFields ==
  ASSUME NEW t, Fits(t), t.pc = "reading"
  PROVE  /\ t.op = "load" => /\ Resume(t).op = "load" /\ Resume(t).pc = "progress"
                             /\ Resume(t).scan = t.scan
         /\ t.op = "start" => /\ Resume(t).op = "poll" /\ Resume(t).pc = "get"
                              /\ Resume(t).scan = t.scan
         /\ t.op \in {"poll", "verify"} => Resume(t) = Done
         /\ t.op \in {"load", "start", "poll", "verify"}
BY DEF Resume, Fits

\* The scan of an upload, from the backend's answer to the end of its poll loop.
OfUpload(t) == t.op \in {"start", "poll"} /\ t.scan # None

OwnScans ==
  \A i, j \in Ops :
    OfUpload(task[i]) /\ OfUpload(task[j]) /\ task[i].scan = task[j].scan => i = j

\* A task keeps the scan of its upload.
UploadKept(i) ==
  OfUpload(task'[i]) => OfUpload(task[i]) /\ task'[i].scan = task[i].scan

\* Only the answer to an upload gives a task a scan, one that was not there.
LEMMA UploadsKept ==
  ASSUME AllFit, NEW i \in Ops,
         \/ \E s \in Scans : LoadScan(i, s)
         \/ StartScan(i) \/ (\E f \in Findings : Verify(i, f))
         \/ TaskStep(i) \/ TaskFails(i)
  PROVE  /\ \A j \in Ops : j # i => task'[j] = task[j]
         /\ UploadKept(i) \/ run[task'[i].scan] = "absent"
<1> USE DEF AllFit
<1> DEFINE t == task[i]
<1>0. Fits(t) /\ DOMAIN task = Ops
  BY DEF TasksFit
<1>1. PICK n : Move(i, n) /\
        \/ n.op \in {"none", "load", "verify"}
        \/ n.op = "start" /\ n.scan = None
        \/ n.op = t.op /\ n.scan = t.scan
        \/ t.op = "start" /\ n.op = "poll" /\ n.scan = t.scan
        \/ run[n.scan] = "absent"
  <2> DEFINE Good(n) ==
        \/ n.op \in {"none", "load", "verify"}
        \/ n.op = "start" /\ n.scan = None
        \/ n.op = t.op /\ n.scan = t.scan
        \/ t.op = "start" /\ n.op = "poll" /\ n.scan = t.scan
        \/ run[n.scan] = "absent"
  <2>1. Good(Done)
    BY TaskFields
  <2>2. ASSUME NEW s \in Scans, LoadScan(i, s) PROVE \E n : Move(i, n) /\ Good(n)
    BY <2>2, BeginMoves, TaskFields DEF LoadScan
  <2>3. CASE StartScan(i)
    <3> DEFINE n == [Idle EXCEPT !.op = "start", !.pc = "upload"]
    <3>1. n.op = "start" /\ n.scan = None
      BY IdleFits DEF Idle
    <3>2. Move(i, n)
      BY <2>3, BeginMoves DEF StartScan
    <3> QED BY <3>1, <3>2
  <2>4. ASSUME NEW f \in Findings, Verify(i, f) PROVE \E n : Move(i, n) /\ Good(n)
    <3> DEFINE n == [Idle EXCEPT !.op = "verify", !.pc = "post",
                                 !.scan = view.scanId,
                                 !.finding = <<view.findings, f>>]
    <3>1. n.op = "verify"
      BY IdleFits DEF Idle
    <3>2. Begin(i, n)
      BY <2>4 DEF Verify
    <3>3. Move(i, n)
      BY <3>2, BeginMoves
    <3> QED BY <3>1, <3>3
  <2>5. ASSUME NEW p \in Parts, Answer(i, p) PROVE \E n : Move(i, n) /\ Good(n)
    <3> DEFINE n == [t EXCEPT !.got = [q \in DOMAIN t.got \cup {p} |->
                                         IF q = p THEN saved[t.scan] ELSE t.got[q]]]
    <3>1. n.op = t.op /\ n.scan = t.scan
      BY <1>0 DEF Fits
    <3>2. Move(i, n)
      BY <2>5 DEF Answer
    <3> QED BY <3>1, <3>2
  <2>6. CASE Refreshed(i) \/ RefreshFails(i)
    <3>1. t.pc = "reading" /\ Move(i, Resume(t))
      BY <2>6 DEF Refreshed, RefreshFails
    <3> QED BY <1>0, <2>1, <3>1, ResumeFields
  <2>7. CASE Listed(i) \/ PollEnded(i) \/ VerifyAnswered(i)
    <3>1. t.pc \in {"list", "get", "answered"} /\ Move(i, Reading(t, t.scan))
      BY <2>7 DEF Listed, PollEnded, VerifyAnswered
    <3>2. Reading(t, t.scan).op = t.op /\ Reading(t, t.scan).scan = t.scan
      BY <1>0, ReadingFields
    <3> QED BY <3>1, <3>2
  <2>8. ASSUME NEW s \in Scans, Uploaded(i, s) PROVE \E n : Move(i, n) /\ Good(n)
    <3>1. Reading(t, s).scan = s
      BY <1>0, ReadingFields
    <3> QED BY <2>8, <3>1, AppearFact DEF Uploaded
  <2>9. CASE \/ ListFails(i) \/ ProgressLoaded(i) \/ ProgressFails(i)
             \/ UploadFails(i) \/ Superseded(i) \/ VerifyFails(i)
    BY <2>1, <2>9 DEF ListFails, ProgressLoaded, ProgressFails, UploadFails,
       Superseded, VerifyFails
  <2>10. CASE PollAgain(i) \/ PollFails(i) \/ Wake(i) \/ VerdictSaved(i)
    <3>1. PICK pc \in {"sleep", "get", "answered"} : Move(i, [t EXCEPT !.pc = pc])
      BY <2>10 DEF PollAgain, PollFails, Wake, VerdictSaved
    <3> DEFINE n == [t EXCEPT !.pc = pc]
    <3>2. n.op = t.op /\ n.scan = t.scan
      BY <1>0, SuspendedFields
    <3> QED BY <3>1, <3>2
  <2> QED BY <2>2, <2>3, <2>4, <2>5, <2>6, <2>7, <2>8, <2>9, <2>10
          DEF TaskStep, TaskFails
<1>2. task'[i] = n /\ \A j \in Ops : j # i => task'[j] = task[j]
  BY <1>0, <1>1 DEF Move
<1> QED BY <1>1, <1>2 DEF UploadKept, OfUpload

LEMMA OwnScansStep == ASSUME AllFit, OwnScans, [Next]_vars PROVE OwnScans'
<1> USE DEF OwnScans
<1>1. ASSUME NEW i \in Ops,
             \/ \E s \in Scans : LoadScan(i, s)
             \/ StartScan(i) \/ (\E f \in Findings : Verify(i, f))
             \/ TaskStep(i) \/ TaskFails(i)
      PROVE  OwnScans'
  <2>1. /\ \A j \in Ops : j # i => task'[j] = task[j]
        /\ UploadKept(i) \/ run[task'[i].scan] = "absent"
    BY <1>1, UploadsKept
  <2>2. \A j \in Ops : OfUpload(task[j]) => run[task[j].scan] # "absent"
    BY DEF AllFit, NamedAreThere, OfUpload
  <2> QED BY <2>1, <2>2 DEF UploadKept, OfUpload
<1>2. CASE Reload
  BY <1>2, ReloadLeaves, TaskFields DEF OfUpload
<1>3. CASE (\E s \in Scans : RunStep(s)) \/ Restart \/ UNCHANGED vars
  BY <1>3, RunFact, RestartFact DEF AllFit, vars, mainVars, OfUpload
<1> QED BY <1>1, <1>2, <1>3 DEF Next, Step, UserStep

LEMMA OwnScansHold == Spec => [](AllFit /\ OwnScans)
<1>1. Init => OwnScans
  BY TaskFields DEF Init, OwnScans, OfUpload
<1>2. TypesInv => AllFit
  BY DEF TypesInv
<1> QED BY <1>1, <1>2, TypesHold, OwnScansStep, PTL DEF Spec

\* However operations overlap, at most one poll loop goes on: each has the scan
\* of its own upload, and the page polls one.
THEOREM OneLivePoll == Spec => []AtMostOneLivePoll
<1>1. AllFit /\ OwnScans => AtMostOneLivePoll
  <2> SUFFICES ASSUME AllFit, OwnScans, NEW i \in Ops, NEW j \in Ops,
                      LivePoll(task[i]), LivePoll(task[j])
               PROVE  i = j
    BY DEF AtMostOneLivePoll
  <2>1. ASSUME NEW k \in Ops, LivePoll(task[k])
        PROVE  OfUpload(task[k]) /\ task[k].scan = view.polling
    <3>1. Fits(task[k])
      BY DEF AllFit, TasksFit
    <3> QED BY <2>1, <3>1 DEF Fits, OfUpload, LivePoll, Polling
  <2> QED BY <2>1 DEF OwnScans
<1> QED BY <1>1, OwnScansHold, PTL

-----------------------------------------------------------------------------
(* Operations that do not overlap.  The one under way and the poll loop in   *)
(* the background are about the scan the page is on.                        *)

TaskOn(t) ==
  /\ t.pc \in {"reading", "progress", "post", "answered"} => t.scan = view.scanId
  /\ t.pc = "list" => view.polling = None /\ view.progress = NoProgress
  /\ t.pc = "upload" => view.progress = NoProgress
  /\ LivePoll(t) => t.scan = view.scanId
  /\ t.pc = "post" => t.finding[1] = view.findings
  /\ t.pc = "answered" => view.findings = view.scanId

\* What is shown is of one scan, and of another one than the page says it is on
\* only after a failure or while its data is being fetched.
PageOn ==
  /\ view.verified \cup view.risks \subseteq {view.findings} \X Findings
  /\ view.progress = NoProgress \/ view.progress.scan = view.scanId
  /\ \/ view.findings = view.scanId \/ view.loadError
     \/ \E i \in Ops : task[i].pc \in {"list", "reading"}

Orderly == ~ Overlapping /\ PageOn /\ \A i \in Ops : TaskOn(task[i])

\* Only one task is busy.
LEMMA OneBusy ==
  ASSUME ~ Overlapping, NEW i \in Ops, NEW j \in Ops, i # j, Busy(task[i])
  PROVE  ~ Busy(task[j])
BY DEF Overlapping

LEMMA RefreshOrderly ==
  ASSUME AllFit, Orderly, ~ Overlapping', NEW i \in Ops,
         (\E p \in Parts : Answer(i, p)) \/ Refreshed(i) \/ RefreshFails(i)
  PROVE  Orderly'
<1> DEFINE t == task[i]
<1>0. /\ Fits(t) /\ TaskOn(t) /\ t.pc = "reading" /\ t.scan = view.scanId
      /\ \A j \in Ops : j # i => ~ Busy(task[j])
      /\ \A j \in Ops : j # i => task'[j] = task[j]
      /\ \A j \in Ops : TaskOn(task[j])
      /\ t.scan \in Scans
  <2>1. t.pc = "reading" /\ DOMAIN task = Ops /\ Fits(t) /\ TaskOn(t)
    BY DEF Answer, Refreshed, RefreshFails, AllFit, TasksFit, Orderly
  <2>2. Busy(t) /\ t.scan \in Scans /\ t.scan = view.scanId
    BY <2>1 DEF Busy, Fits, TaskOn
  <2>3. \A j \in Ops : j # i => ~ Busy(task[j])
    BY <2>2, OneBusy DEF Orderly
  <2>4. \A j \in Ops : j # i => task'[j] = task[j]
    BY <2>1 DEF Answer, Refreshed, RefreshFails, Move
  <2> QED BY <2>1, <2>2, <2>3, <2>4 DEF Orderly
<1>1. ASSUME NEW p \in Parts, Answer(i, p) PROVE Orderly'
  <2>1. /\ task'[i].pc = t.pc /\ task'[i].op = t.op /\ task'[i].scan = t.scan
        /\ task'[i].finding = t.finding /\ view' = view
    BY <1>0, <1>1 DEF Answer, Move, AllFit, TasksFit, Fits
  <2>2. \A j \in Ops : TaskOn(task[j])'
    BY <1>0, <2>1 DEF TaskOn, LivePoll, Polling
  <2>3. PageOn'
    BY <1>0, <2>1 DEF PageOn, Orderly
  <2> QED BY <2>2, <2>3 DEF Orderly
<1>2. CASE Refreshed(i) \/ RefreshFails(i)
  <2>1. task'[i] = Resume(t)
    BY <1>2 DEF Refreshed, RefreshFails, Move, AllFit, TasksFit
  <2>2. /\ view'.scanId = view.scanId /\ view'.progress = view.progress
        /\ view'.polling = IF t.op = "start" THEN t.scan ELSE view.polling
        /\ Refreshed(i) =>
             /\ view'.findings = t.scan
             /\ view'.verified = {t.scan} \X t.got["verified"]
             /\ view'.risks = {t.scan} \X t.got["risks"]
        /\ RefreshFails(i) =>
             /\ view'.findings = view.findings /\ view'.loadError
             /\ view'.verified = view.verified /\ view'.risks = view.risks
    BY <1>2 DEF Refreshed, RefreshFails, ResumeView, AllFit, ViewFits
  <2>3. PageOn'
    <3>1. CASE Refreshed(i)
      <4>1. t.got["verified"] \subseteq Findings /\ t.got["risks"] \subseteq Findings
        BY <1>0, <3>1 DEF Refreshed, Fits, Parts
      <4> QED BY <1>0, <2>2, <3>1, <4>1 DEF PageOn, Orderly
    <3>2. CASE RefreshFails(i)
      BY <2>2, <3>2 DEF PageOn, Orderly
    <3> QED BY <1>2, <3>1, <3>2
  <2>4. TaskOn(task[i])'
    BY <1>0, <2>1, <2>2, ResumeFields, TaskFields DEF TaskOn, LivePoll, Polling
  <2>5. ASSUME NEW j \in Ops, j # i PROVE TaskOn(task[j])'
    <3>1. /\ ~ Busy(task[j]) /\ task'[j] = task[j] /\ TaskOn(task[j])
      BY <1>0, <2>5
    <3> QED BY <1>0, <2>2, <3>1 DEF TaskOn, LivePoll, Polling, Busy
  <2> QED BY <2>3, <2>4, <2>5 DEF Orderly
<1> QED BY <1>1, <1>2

LEMMA LoadOrderly ==
  ASSUME AllFit, Orderly, ~ Overlapping', NEW i \in Ops,
         \/ \E s \in Scans : LoadScan(i, s)
         \/ Listed(i) \/ ListFails(i) \/ ProgressLoaded(i) \/ ProgressFails(i)
  PROVE  Orderly'
<1> DEFINE t == task[i]
<1>0. Fits(t) /\ DOMAIN task = Ops /\ \A j \in Ops : TaskOn(task[j])
  BY DEF AllFit, TasksFit, Orderly
<1>1. ASSUME NEW s \in Scans, LoadScan(i, s) PROVE Orderly'
  <2>1. task'[i] = LoadTask(s) /\ \A j \in Ops : j # i => task'[j] = task[j]
    BY <1>0, <1>1, BeginMoves DEF LoadScan, Move
  <2>2. task'[i].pc = "list" /\ task'[i].op = "load"
    BY <2>1, TaskFields
  <2>3. \A j \in Ops : j # i => ~ Busy(task[j])
    <3>1. Busy(task[i])'
      BY <2>2 DEF Busy
    <3> QED BY <2>1, <3>1, OneBusy DEF Overlapping, Busy
  <2>4. /\ view'.polling = None /\ view'.progress = NoProgress
        /\ view'.scanId = view.scanId /\ view'.findings = view.findings
        /\ view'.verified = view.verified /\ view'.risks = view.risks
    BY <1>1 DEF LoadScan, Selected, Loading, AllFit, ViewFits
  <2>5. PageOn'
    BY <2>2, <2>4 DEF PageOn, Orderly
  <2>6. \A j \in Ops : task[j].op = "poll" => task[j].scan # None \/ Busy(task[j])
    BY DEF AllFit, TasksFit, Fits
  <2>7. \A j \in Ops : TaskOn(task[j])'
    BY <2>1, <2>2, <2>3, <2>4 DEF TaskOn, LivePoll, Polling, Busy, AllFit, TasksFit, Fits
  <2> QED BY <2>5, <2>7 DEF Orderly
<1>2. CASE Listed(i)
  <2>1. t.op = "load" /\ t.scan \in Scans /\ task'[i] = Reading(t, t.scan)
        /\ \A j \in Ops : j # i => task'[j] = task[j] /\ ~ Busy(task[j])
    <3>1. t.pc = "list" /\ Busy(t)
      BY <1>2 DEF Listed, Busy
    <3> QED BY <1>0, <1>2, <3>1, OneBusy DEF Listed, Move, Fits, Orderly
  <2>2. view.polling = None /\ view.progress = NoProgress
    BY <1>0, <1>2 DEF TaskOn, Listed
  <2>3. /\ view'.polling = None /\ view'.progress = NoProgress
        /\ view'.scanId = t.scan /\ view'.findings = view.findings
        /\ view'.verified = view.verified /\ view'.risks = view.risks
    BY <1>2, <2>2 DEF Listed, Loading, AllFit, ViewFits
  <2>4. task'[i].pc = "reading" /\ task'[i].op = "load" /\ task'[i].scan = t.scan
    BY <1>0, <2>1, ReadingFields
  <2>5. PageOn'
    BY <2>3, <2>4 DEF PageOn, Orderly
  <2>6. \A j \in Ops : TaskOn(task[j])'
    BY <2>1, <2>3, <2>4 DEF TaskOn, LivePoll, Polling, Busy, AllFit, TasksFit, Fits
  <2> QED BY <2>5, <2>6 DEF Orderly
<1>3. CASE ListFails(i) \/ ProgressLoaded(i) \/ ProgressFails(i)
  <2>1. /\ t.pc \in {"list", "progress"} /\ task'[i] = Done
        /\ \A j \in Ops : j # i => task'[j] = task[j] /\ ~ Busy(task[j])
    <3>1. t.pc \in {"list", "progress"} /\ Busy(t)
      BY <1>3 DEF ListFails, ProgressLoaded, ProgressFails, Busy
    <3> QED BY <1>0, <1>3, <3>1, OneBusy
            DEF ListFails, ProgressLoaded, ProgressFails, Move, Orderly
  <2>2. /\ view'.polling = view.polling /\ view'.scanId = view.scanId
        /\ view'.findings = view.findings
        /\ view'.verified = view.verified /\ view'.risks = view.risks
        /\ \/ t.pc = "list" /\ view'.loadError /\ view'.progress = view.progress
           \/ /\ t.pc = "progress" /\ view'.loadError = view.loadError
              /\ \/ view'.progress = NoProgress
                 \/ view'.progress = [scan |-> t.scan, status |-> Status(t.scan)]
    BY <1>3 DEF ListFails, ProgressLoaded, ProgressFails, AllFit, ViewFits
  <2>3. PageOn'
    <3>1. t.pc = "progress" => t.scan = view.scanId
      BY <1>0 DEF TaskOn
    <3> QED BY <2>1, <2>2, <3>1 DEF PageOn, Orderly, Busy
  <2>4. \A j \in Ops : TaskOn(task[j])'
    BY <1>0, <2>1, <2>2, TaskFields DEF TaskOn, LivePoll, Polling, Busy
  <2> QED BY <2>3, <2>4 DEF Orderly
<1> QED BY <1>1, <1>2, <1>3

LEMMA StartOrderly ==
  ASSUME AllFit, Orderly, ~ Overlapping', NEW i \in Ops,
         StartScan(i) \/ (\E s \in Scans : Uploaded(i, s)) \/ UploadFails(i)
  PROVE  Orderly'
<1> DEFINE t == task[i]
<1>0. Fits(t) /\ DOMAIN task = Ops /\ \A j \in Ops : TaskOn(task[j])
  BY DEF AllFit, TasksFit, Orderly
<1>1. CASE StartScan(i)
  <2> DEFINE n == [Idle EXCEPT !.op = "start", !.pc = "upload"]
  <2>1. task'[i] = n /\ \A j \in Ops : j # i => task'[j] = task[j]
    BY <1>0, <1>1, BeginMoves DEF StartScan, Move
  <2>2. n.pc = "upload" /\ n.op = "start"
    BY IdleFits DEF Idle
  <2>3. /\ view'.polling = view.polling /\ view'.progress = NoProgress
        /\ view'.scanId = view.scanId /\ view'.findings = view.findings
        /\ view'.verified = view.verified /\ view'.risks = view.risks
        /\ view'.loadError = view.loadError
    BY <1>1 DEF StartScan, AllFit, ViewFits
  <2>4. PageOn'
    <3>1. t.pc = "idle"
      BY <1>1, TaskFields DEF StartScan, Begin
    <3> QED BY <2>1, <2>2, <2>3, <3>1 DEF PageOn, Orderly
  <2>5. TaskOn(task[i])'
    <3>1. task'[i].pc = "upload" /\ task'[i].op = "start"
      BY <2>1, <2>2
    <3> QED BY <2>3, <3>1 DEF TaskOn, LivePoll, Polling
  <2>6. ASSUME NEW j \in Ops, j # i PROVE TaskOn(task[j])'
    BY <1>0, <2>1, <2>3, <2>6 DEF TaskOn, LivePoll, Polling
  <2> QED BY <2>4, <2>5, <2>6 DEF Orderly
<1>2. ASSUME NEW s \in Scans, Uploaded(i, s) PROVE Orderly'
  <2>1. /\ t.op = "start" /\ t.pc = "upload" /\ task'[i] = Reading(t, s)
        /\ \A j \in Ops : j # i => task'[j] = task[j]
    BY <1>0, <1>2 DEF Uploaded, Move, Fits
  <2>2. \A j \in Ops : j # i => ~ Busy(task[j]) /\ ~ LivePoll(task[j])
    BY <2>1 DEF Orderly, Overlapping, Busy
  <2>3. /\ view'.polling = view.polling /\ view'.progress = NoProgress
        /\ view'.scanId = s /\ view'.findings = view.findings
        /\ view'.verified = view.verified /\ view'.risks = view.risks
    BY <1>0, <1>2, <2>1 DEF Uploaded, Loading, TaskOn, AllFit, ViewFits
  <2>4. task'[i].pc = "reading" /\ task'[i].op = "start" /\ task'[i].scan = s
    BY <1>0, <2>1, ReadingFields
  <2>5. PageOn'
    BY <2>3, <2>4 DEF PageOn, Orderly
  <2>6. \A j \in Ops : TaskOn(task[j])'
    BY <2>1, <2>2, <2>3, <2>4 DEF TaskOn, LivePoll, Polling, Busy
  <2> QED BY <2>5, <2>6 DEF Orderly
<1>3. CASE UploadFails(i)
  <2>1. /\ t.pc = "upload" /\ task'[i] = Done
        /\ \A j \in Ops : j # i => task'[j] = task[j]
    BY <1>0, <1>3 DEF UploadFails, Move
  <2>2. /\ view'.polling = view.polling /\ view'.progress = view.progress
        /\ view'.scanId = view.scanId /\ view'.findings = view.findings
        /\ view'.verified = view.verified /\ view'.risks = view.risks
        /\ view'.loadError = view.loadError
    BY <1>3 DEF UploadFails, AllFit, ViewFits
  <2>3. PageOn'
    BY <2>1, <2>2 DEF PageOn, Orderly
  <2>4. \A j \in Ops : TaskOn(task[j])'
    BY <1>0, <2>1, <2>2, TaskFields DEF TaskOn, LivePoll, Polling
  <2> QED BY <2>3, <2>4 DEF Orderly
<1> QED BY <1>1, <1>2, <1>3

LEMMA PollOrderly ==
  ASSUME AllFit, Orderly, ~ Overlapping', NEW i \in Ops,
         \/ Superseded(i) \/ PollAgain(i) \/ PollEnded(i) \/ PollFails(i)
         \/ Wake(i)
  PROVE  Orderly'
<1> DEFINE t == task[i]
<1>0. Fits(t) /\ DOMAIN task = Ops /\ \A j \in Ops : TaskOn(task[j])
  BY DEF AllFit, TasksFit, Orderly
<1>1. t.op = "poll" /\ t.pc \in {"get", "sleep"} /\ t.scan \in Scans
  BY <1>0 DEF Superseded, PollAgain, PollEnded, PollFails, Wake, Fits
<1>2. /\ \A j \in Ops : j # i => task'[j] = task[j]
      /\ view'.polling = view.polling /\ view'.scanId = view.scanId
      /\ view'.findings = view.findings
      /\ view'.verified = view.verified /\ view'.risks = view.risks
  BY <1>0 DEF Superseded, PollAgain, PollEnded, PollFails, Wake, Showing, Loading,
     Move, AllFit, ViewFits
<1>3. CASE Superseded(i) \/ PollFails(i) \/ Wake(i)
  <2>1. /\ view' = view /\ task'[i].pc \in {"done", "sleep", "get"}
        /\ LivePoll(task[i])' => LivePoll(task[i]) /\ task'[i].scan = t.scan
    <3>1. view' = view /\ (task'[i] = Done \/ \E pc \in {"sleep", "get"} :
                             task'[i] = [t EXCEPT !.pc = pc])
      BY <1>0, <1>3 DEF Superseded, PollFails, Wake, Move
    <3>2. CASE task'[i] = Done
      BY <3>1, <3>2, TaskFields DEF LivePoll, Polling
    <3>3. ASSUME NEW pc \in {"sleep", "get"}, task'[i] = [t EXCEPT !.pc = pc]
          PROVE  /\ task'[i].pc \in {"sleep", "get"} /\ task'[i].scan = t.scan
      BY <1>0, <3>3, SuspendedFields
    <3> QED BY <1>1, <3>1, <3>2, <3>3 DEF LivePoll, Polling
  <2>2. PageOn'
    BY <1>1, <1>2, <2>1 DEF PageOn, Orderly
  <2>3. \A j \in Ops : TaskOn(task[j])'
    BY <1>0, <1>2, <2>1 DEF TaskOn, LivePoll, Polling
  <2> QED BY <2>2, <2>3 DEF Orderly
<1>4. CASE PollAgain(i) \/ PollEnded(i)
  <2>1. /\ LivePoll(t) /\ t.scan = view.scanId
        /\ view'.progress = [scan |-> t.scan, status |-> Status(t.scan)]
        /\ PollAgain(i) => view'.loadError = view.loadError
        /\ PollAgain(i) => task'[i] = [t EXCEPT !.pc = "sleep"]
        /\ PollEnded(i) => task'[i] = Reading(t, t.scan)
    BY <1>0, <1>1, <1>4 DEF PollAgain, PollEnded, Showing, Loading, Move, LivePoll,
       Polling, TaskOn, AllFit, ViewFits
  <2>2. /\ task'[i].scan = t.scan /\ task'[i].op = "poll"
        /\ PollAgain(i) => task'[i].pc = "sleep"
        /\ PollEnded(i) => task'[i].pc = "reading"
    <3> DEFINE n == [t EXCEPT !.pc = "sleep"]
               r == Reading(t, t.scan)
    <3>1. n.scan = t.scan /\ n.op = t.op /\ n.pc = "sleep"
      BY <1>0, SuspendedFields
    <3>2. r.scan = t.scan /\ r.op = t.op /\ r.pc = "reading"
      BY <1>0, ReadingFields
    <3>3. task'[i] = n \/ task'[i] = r
      BY <1>4, <2>1
    <3> QED BY <1>1, <1>4, <2>1, <3>1, <3>2, <3>3
  <2>3. PageOn'
    BY <1>1, <1>2, <1>4, <2>1, <2>2 DEF PageOn, Orderly
  \* Nothing that waits for the progress to be gone is under way.
  <2>4. \A j \in Ops : j # i => task[j].pc \notin {"list", "upload"}
    <3>1. ASSUME NEW j \in Ops, j # i, task[j].pc = "list" PROVE FALSE
      BY <1>0, <1>1, <2>1, <3>1, ViewAssumption DEF TaskOn, LivePoll
    <3>2. ASSUME NEW j \in Ops, j # i, task[j].pc = "upload" PROVE FALSE
      <4>1. task[j].op = "start" /\ Busy(task[j])
        BY <3>2 DEF AllFit, TasksFit, Fits, Busy
      <4> QED BY <2>1, <4>1 DEF Orderly, Overlapping
    <3> QED BY <3>1, <3>2
  <2>5. TaskOn(task[i])'
    BY <1>2, <1>4, <2>1, <2>2 DEF TaskOn, LivePoll, Polling
  <2>6. ASSUME NEW j \in Ops, j # i PROVE TaskOn(task[j])'
    BY <1>0, <1>2, <2>4, <2>6 DEF TaskOn, LivePoll, Polling
  <2> QED BY <2>3, <2>5, <2>6 DEF Orderly
<1> QED BY <1>3, <1>4

LEMMA VerifyOrderly ==
  ASSUME AllFit, Orderly, ~ Overlapping', NEW i \in Ops,
         \/ \E f \in Findings : Verify(i, f)
         \/ VerdictSaved(i) \/ VerifyAnswered(i) \/ VerifyFails(i)
  PROVE  Orderly'
<1> DEFINE t == task[i]
<1>0. Fits(t) /\ DOMAIN task = Ops /\ \A j \in Ops : TaskOn(task[j])
  BY DEF AllFit, TasksFit, Orderly
<1>1. \A j \in Ops : j # i => task'[j] = task[j]
  BY <1>0, BeginMoves DEF Verify, VerdictSaved, VerifyAnswered, VerifyFails, Move, Begin
<1>2. /\ view'.polling = view.polling /\ view'.progress = view.progress
      /\ view'.scanId = view.scanId /\ view'.findings = view.findings
      /\ view'.risks = view.risks
  BY DEF Verify, VerdictSaved, VerifyAnswered, VerifyFails, Loading, AllFit, ViewFits
<1>3. ASSUME NEW j \in Ops, j # i PROVE TaskOn(task[j])'
  BY <1>0, <1>1, <1>2, <1>3 DEF TaskOn, LivePoll, Polling
<1>4. ASSUME NEW f \in Findings, Verify(i, f) PROVE Orderly'
  <2> DEFINE n == [Idle EXCEPT !.op = "verify", !.pc = "post",
                               !.scan = view.scanId,
                               !.finding = <<view.findings, f>>]
  <2>1. Begin(i, n)
    BY <1>4 DEF Verify
  <2>2. t.pc = "idle" /\ task'[i] = n
    BY <1>0, <2>1, TaskFields DEF Begin
  <2>3. /\ n.pc = "post" /\ n.op = "verify" /\ n.scan = view.scanId
        /\ n.finding[1] = view.findings
    BY IdleFits DEF Idle
  <2>4. TaskOn(task[i])'
    BY <1>2, <2>2, <2>3 DEF TaskOn, LivePoll, Polling
  <2>5. PageOn'
    <3>1. view'.loadError = view.loadError /\ view'.verified = view.verified
      BY <1>4 DEF Verify, AllFit, ViewFits
    <3> QED BY <1>1, <1>2, <2>2, <2>3, <3>1 DEF PageOn, Orderly
  <2> QED BY <1>3, <2>4, <2>5 DEF Orderly
<1>5. CASE VerdictSaved(i)
  <2>1. /\ t.pc = "post" /\ t.op = "verify" /\ t.finding[1] = t.scan
        /\ task'[i] = [t EXCEPT !.pc = "answered"] /\ view' = view
    BY <1>0, <1>5 DEF VerdictSaved, Posted, Move, Fits
  <2>2. /\ task'[i].pc = "answered" /\ task'[i].op = "verify"
        /\ task'[i].scan = t.scan
    BY <1>0, <2>1 DEF Fits
  <2>3. t.scan = view.scanId /\ view.findings = view.scanId
    BY <1>0, <2>1 DEF TaskOn
  <2>4. TaskOn(task[i])'
    BY <1>2, <2>2, <2>3 DEF TaskOn, LivePoll, Polling
  <2>5. PageOn'
    BY <1>2, <2>1, <2>3 DEF PageOn, Orderly
  <2> QED BY <1>3, <2>4, <2>5 DEF Orderly
<1>6. CASE VerifyAnswered(i)
  <2>1. /\ t.pc = "answered" /\ t.op = "verify" /\ t.finding \in Pairs
        /\ t.finding[1] = t.scan /\ task'[i] = Reading(t, t.scan)
        /\ view'.verified = view.verified \cup {t.finding}
    BY <1>0, <1>6 DEF VerifyAnswered, Loading, Move, Fits, AllFit, ViewFits
  <2>2. /\ task'[i].pc = "reading" /\ task'[i].op = "verify"
        /\ task'[i].scan = t.scan
    BY <1>0, <2>1, ReadingFields
  <2>3. t.scan = view.scanId /\ view.findings = view.scanId
    BY <1>0, <2>1 DEF TaskOn
  <2>4. TaskOn(task[i])'
    BY <1>2, <2>2, <2>3 DEF TaskOn, LivePoll, Polling
  <2>5. PageOn'
    <3>1. {t.finding} \subseteq {view.findings} \X Findings
      BY <2>1, <2>3 DEF Pairs
    <3> QED BY <1>2, <2>1, <2>2, <2>3, <3>1 DEF PageOn, Orderly
  <2> QED BY <1>3, <2>4, <2>5 DEF Orderly
<1>7. CASE VerifyFails(i)
  <2>1. t.pc \in {"post", "answered"} /\ task'[i] = Done
        /\ view'.loadError = view.loadError /\ view'.verified = view.verified
    BY <1>0, <1>7 DEF VerifyFails, Move, AllFit, ViewFits
  <2>2. TaskOn(task[i])'
    BY <1>2, <2>1, TaskFields DEF TaskOn, LivePoll, Polling
  <2>3. PageOn'
    BY <1>1, <1>2, <2>1 DEF PageOn, Orderly
  <2> QED BY <1>3, <2>2, <2>3 DEF Orderly
<1> QED BY <1>4, <1>5, <1>6, <1>7

\* A reload leaves nothing under way but, perhaps, one selection.
LEMMA ReloadOrderly == ASSUME AllFit, Reload PROVE Orderly'
<1>1. CASE view' = BlankView /\ \A j \in Ops : task'[j] \in {Idle, Done}
  <2>1. \A j \in Ops : task'[j].op = "none" /\ task'[j].pc \in {"idle", "done"}
    BY <1>1, TaskFields
  <2>2. view'.findings = view'.scanId /\ view'.progress = NoProgress
        /\ view'.verified = {} /\ view'.risks = {}
    BY <1>1 DEF BlankView
  <2> QED BY <2>1, <2>2 DEF Orderly, Overlapping, Busy, PageOn, TaskOn, LivePoll, Polling
<1>2. ASSUME view' = Selected(BlankView), NEW i \in Ops, task'[i] = LoadTask(stored),
             \A j \in Ops : j # i => task'[j] \in {Idle, Done}
      PROVE  Orderly'
  <2>1. /\ task'[i].op = "load" /\ task'[i].pc = "list"
        /\ \A j \in Ops : j # i =>
             task'[j].op = "none" /\ task'[j].pc \in {"idle", "done"}
    BY <1>2, TaskFields
  <2>2. /\ view'.findings = view'.scanId /\ view'.progress = NoProgress
        /\ view'.polling = None /\ view'.verified = {} /\ view'.risks = {}
    BY <1>2 DEF BlankView, Selected, Loading
  <2>3. ~ Overlapping'
    BY <2>1 DEF Overlapping, Busy, LivePoll, Polling
  <2>4. PageOn' /\ \A j \in Ops : TaskOn(task[j])'
    BY <2>1, <2>2 DEF PageOn, TaskOn, LivePoll, Polling
  <2> QED BY <2>3, <2>4 DEF Orderly
<1> QED BY <1>1, <1>2, ReloadLeaves

OrderlyInv == ~ overlap => Orderly

LEMMA OrderlyStep == ASSUME AllFit, OrderlyInv, [Next]_vars PROVE OrderlyInv'
<1>1. CASE Step /\ overlap' = (overlap \/ Overlapping')
  <2> SUFFICES ASSUME Orderly, ~ Overlapping' PROVE Orderly'
    BY <1>1 DEF OrderlyInv
  <2>1. CASE UserStep
    BY <2>1, LoadOrderly, StartOrderly, VerifyOrderly DEF UserStep
  <2>2. ASSUME NEW i \in Ops, TaskStep(i) \/ TaskFails(i) PROVE Orderly'
    BY <2>2, RefreshOrderly, LoadOrderly, StartOrderly, PollOrderly, VerifyOrderly
       DEF TaskStep, TaskFails
  <2>3. CASE (\E s \in Scans : RunStep(s)) \/ Restart
    <3>1. UNCHANGED <<view, task>>
      BY <2>3, RunFact, RestartFact DEF AllFit
    <3> QED BY <3>1 DEF Orderly, PageOn, TaskOn, LivePoll
  <2> QED BY <1>1, <2>1, <2>2, <2>3 DEF Step
<1>2. CASE Reload
  BY <1>2, ReloadOrderly DEF OrderlyInv
<1>3. CASE UNCHANGED vars
  BY <1>3 DEF vars, mainVars, OrderlyInv, Orderly, Overlapping, PageOn, TaskOn, LivePoll
<1> QED BY <1>1, <1>2, <1>3 DEF Next

LEMMA OrderlyHolds == Spec => [](AllFit /\ OrderlyInv)
<1>1. Init => OrderlyInv
  <2> SUFFICES ASSUME Init PROVE Orderly
    BY DEF OrderlyInv
  <2>1. \A j \in Ops : task[j].op = "none" /\ task[j].pc = "idle"
    BY TaskFields DEF Init
  <2>2. view.findings = view.scanId /\ view.progress = NoProgress
        /\ view.verified = {} /\ view.risks = {}
    BY DEF Init, BlankView
  <2> QED BY <2>1, <2>2 DEF Orderly, Overlapping, Busy, PageOn, TaskOn, LivePoll, Polling
<1>2. TypesInv => AllFit
  BY DEF TypesInv
<1> QED BY <1>1, <1>2, TypesHold, OrderlyStep, PTL DEF Spec

\* As long as operations do not overlap, the page shows the findings, verdicts,
\* priorities and progress of the scan it is on, however many poll loops are
\* still running and whatever requests fail.
THEOREM OneScanShown == Spec => []ShowsOneScanWithoutOverlap
<1>1. AllFit /\ OrderlyInv => ShowsOneScanWithoutOverlap
  <2> SUFFICES ASSUME AllFit, Orderly, Quiet, ~ view.loadError PROVE ShowsOneScan
    BY DEF OrderlyInv, ShowsOneScanWithoutOverlap
  <2>1. view.findings = view.scanId
    BY DEF Orderly, PageOn, Quiet, Busy
  <2> QED BY <2>1 DEF Orderly, PageOn, ShowsOneScan, NoProgress
<1> QED BY <1>1, OrderlyHolds, PTL

-----------------------------------------------------------------------------
(* The data of an uploaded scan, once the poll has seen the end of its run.  *)

\* The poll of this scan's upload has reported that its run is over.
PolledOver ==
  /\ faults = 0 /\ view.polling = view.scanId
  /\ view.progress.status = "COMPLETED"

Whole ==
  /\ view.verified = {view.scanId} \X saved[view.scanId]
  /\ view.risks = {view.scanId} \X saved[view.scanId]

\* A selection ends the polling, and an upload forgets the progress.
Forgets(t) ==
  /\ t.op = "load" => view.polling = None
  /\ t.op = "start" => view.progress = NoProgress

\* Nothing more will be saved by a run that is over, or that a restart has made
\* the registry forget; whatever the user saves is fetched.
Over(s) == run[s] \in {"COMPLETED", "LOST"}

Fetched ==
  PolledOver =>
    /\ view.scanId \in Scans /\ Over(view.scanId)
    /\ Whole \/ \E i \in Ops : task[i].pc \in {"answered", "reading"}
    /\ \A i \in Ops : task[i].pc = "reading" =>
         \A p \in DOMAIN task[i].got : task[i].got[p] = saved[task[i].scan]

Complete == Fetched /\ \A i \in Ops : Forgets(task[i])

LEMMA RefreshComplete ==
  ASSUME AllFit, Orderly, Complete, NEW i \in Ops,
         (\E p \in Parts : Answer(i, p)) \/ Refreshed(i) \/ RefreshFails(i)
  PROVE  Complete'
<1> DEFINE t == task[i]
<1>0. /\ Fits(t) /\ t.pc = "reading" /\ t.scan = view.scanId
      /\ \A j \in Ops : j # i => ~ Busy(task[j]) /\ task'[j] = task[j]
      /\ \A j \in Ops : Fits(task[j]) /\ Forgets(task[j])
      /\ t.scan \in Scans /\ UNCHANGED <<run, saved>>
  <2>1. t.pc = "reading" /\ DOMAIN task = Ops /\ \A j \in Ops : Fits(task[j])
    BY DEF Answer, Refreshed, RefreshFails, AllFit, TasksFit
  <2>2. Busy(t) /\ t.scan \in Scans /\ t.scan = view.scanId
    BY <2>1 DEF Busy, Fits, TaskOn, Orderly
  <2>3. \A j \in Ops : j # i => ~ Busy(task[j])
    BY <2>2, OneBusy DEF Orderly
  <2>4. \A j \in Ops : j # i => task'[j] = task[j]
    BY <2>1 DEF Answer, Refreshed, RefreshFails, Move
  <2>5. UNCHANGED <<run, saved>>
    BY DEF Answer, Refreshed, RefreshFails, serverVars
  <2> QED BY <2>1, <2>2, <2>3, <2>4, <2>5 DEF Complete
<1>1. ASSUME NEW p \in Parts, Answer(i, p) PROVE Complete'
  <2> DEFINE got == [q \in DOMAIN t.got \cup {p} |->
                       IF q = p THEN saved[t.scan] ELSE t.got[q]]
  <2>1. /\ task'[i].pc = t.pc /\ task'[i].op = t.op /\ task'[i].scan = t.scan
        /\ task'[i].got = got /\ UNCHANGED <<view, faults>>
    BY <1>0, <1>1 DEF Answer, Move, AllFit, TasksFit, Fits, bounds
  <2>2. \A j \in Ops : Forgets(task[j])'
    BY <1>0, <2>1 DEF Forgets
  <2>3. Fetched'
    <3> SUFFICES ASSUME PolledOver, Fetched PROVE Fetched'
      BY <2>1 DEF Fetched, PolledOver, Complete
    <3>1. \A q \in DOMAIN got : got[q] = saved[t.scan]
      BY <1>0 DEF Fetched
    <3>2. ASSUME NEW j \in Ops, task'[j].pc = "reading"
          PROVE  \A q \in DOMAIN task'[j].got : task'[j].got[q] = saved'[task'[j].scan]
      <4>1. j = i
        BY <1>0, <3>2 DEF Busy
      <4>2. task'[i].got = got /\ saved'[task'[i].scan] = saved[t.scan]
        BY <1>0, <2>1
      <4> HIDE DEF got
      <4> QED BY <3>1, <4>1, <4>2
    <3> QED BY <1>0, <2>1, <3>2 DEF Fetched, PolledOver, Over
  <2> QED BY <2>2, <2>3 DEF Complete
<1>2. CASE Refreshed(i) \/ RefreshFails(i)
  <2>1. task'[i] = Resume(t)
    BY <1>2 DEF Refreshed, RefreshFails, Move, AllFit, TasksFit
  <2>2. /\ view'.scanId = view.scanId /\ view'.progress = view.progress
        /\ view'.polling = IF t.op = "start" THEN t.scan ELSE view.polling
        /\ Refreshed(i) =>
             /\ view'.verified = {t.scan} \X t.got["verified"]
             /\ view'.risks = {t.scan} \X t.got["risks"]
             /\ DOMAIN t.got = Parts /\ faults' = faults
    BY <1>2 DEF Refreshed, RefreshFails, ResumeView, AllFit, ViewFits, bounds
  <2>3. RefreshFails(i) => faults' # 0
    BY DEF RefreshFails, Fault, AllFit, BoundsFit
  <2>4. Forgets(task[i])'
    BY <1>0, <2>1, <2>2, ResumeFields, TaskFields DEF Forgets
  <2>5. ASSUME NEW j \in Ops, j # i PROVE Forgets(task[j])'
    <3>1. task'[j].op \notin {"load", "start"}
      BY <1>0, <2>5 DEF Fits, Busy
    <3> QED BY <3>1 DEF Forgets
  <2>6. Fetched'
    <3> SUFFICES ASSUME PolledOver' PROVE Fetched'
      BY DEF Fetched
    <3>1. Refreshed(i) /\ faults = 0 /\ faults' = 0
      BY <1>2, <2>2, <2>3 DEF PolledOver
    <3>2. t.op \in {"poll", "verify"}
      <4>1. t.op # "start"
        BY <1>0, <2>2 DEF Forgets, NoProgress, PolledOver
      <4>2. t.op # "load"
        BY <1>0, <2>2, ViewAssumption DEF Forgets, PolledOver
      <4> QED BY <1>0, <4>1, <4>2 DEF Fits
    <3>3. PolledOver /\ Over(view.scanId)
      BY <2>2, <3>1, <3>2 DEF PolledOver, Fetched, Complete
    <3>4. t.got["verified"] = saved[t.scan] /\ t.got["risks"] = saved[t.scan]
      BY <1>0, <2>2, <3>1, <3>3 DEF Fetched, Complete, Parts
    <3>5. Whole'
      BY <1>0, <2>2, <3>1, <3>4 DEF Whole
    <3>6. \A j \in Ops : task'[j].pc # "reading"
      BY <1>0, <2>1, <3>2, ResumeFields, TaskFields DEF Busy
    <3> QED BY <1>0, <2>2, <3>3, <3>5, <3>6 DEF Fetched, Over
  <2> QED BY <2>4, <2>5, <2>6 DEF Complete
<1> QED BY <1>1, <1>2

\* A selection and an upload forget what was polled.
LEMMA LoadComplete ==
  ASSUME AllFit, Orderly, Complete, ~ Overlapping', NEW i \in Ops,
         \/ \E s \in Scans : LoadScan(i, s)
         \/ Listed(i) \/ ListFails(i) \/ ProgressLoaded(i) \/ ProgressFails(i)
  PROVE  Complete'
<1> DEFINE t == task[i]
<1>0. /\ DOMAIN task = Ops /\ \A j \in Ops : Fits(task[j]) /\ TaskOn(task[j])
                                            /\ Forgets(task[j])
  BY DEF AllFit, TasksFit, Orderly, Complete
<1>1. ASSUME NEW s \in Scans, LoadScan(i, s) PROVE Complete'
  <2>1. task'[i] = LoadTask(s) /\ \A j \in Ops : j # i => task'[j] = task[j]
    BY <1>0, <1>1, BeginMoves DEF LoadScan, Move
  <2>2. view'.polling = None /\ view'.progress = NoProgress
    BY <1>1 DEF LoadScan, Selected, Loading, AllFit, ViewFits
  <2>3. \A j \in Ops : Forgets(task[j])'
    BY <2>2 DEF Forgets
  <2> QED BY <2>2, <2>3 DEF Complete, Fetched, PolledOver, NoProgress
<1>2. CASE Listed(i) \/ ListFails(i) \/ ProgressLoaded(i) \/ ProgressFails(i)
  <2>1. /\ t.op = "load" /\ Busy(t) /\ view'.polling = view.polling
        /\ view.polling = None
        /\ task'[i].op \in {"load", "none"}
        /\ \A j \in Ops : j # i => task'[j] = task[j]
    <3>1. t.op = "load" /\ Busy(t)
      BY <1>0, <1>2 DEF Listed, ListFails, ProgressLoaded, ProgressFails, Busy, Fits
    <3>2. Reading(t, t.scan).op = t.op
      BY <1>0, ReadingFields
    <3>3. task'[i] \in {Reading(t, t.scan), Done}
          /\ \A j \in Ops : j # i => task'[j] = task[j]
      BY <1>0, <1>2 DEF Listed, ListFails, ProgressLoaded, ProgressFails, Move
    <3>4. view'.polling = view.polling
      BY <1>2 DEF Listed, ListFails, ProgressLoaded, ProgressFails, Loading, AllFit,
         ViewFits
    <3> QED BY <1>0, <3>1, <3>2, <3>3, <3>4, TaskFields DEF Forgets
  <2>2. \A j \in Ops : j # i => task[j].op \notin {"start", "load"}
    <3>1. \A j \in Ops : j # i => ~ Busy(task[j])
      BY <2>1, OneBusy DEF Orderly
    <3> QED BY <1>0, <3>1 DEF Fits, Busy
  <2>3. \A j \in Ops : Forgets(task[j])'
    BY <2>1, <2>2 DEF Forgets
  <2>4. ~ PolledOver'
    <3>1. CASE Listed(i)
      <4>1. view'.progress = NoProgress
        BY <1>0, <3>1 DEF Listed, Loading, TaskOn, AllFit, ViewFits
      <4> QED BY <4>1 DEF PolledOver, NoProgress
    <3>2. CASE ProgressLoaded(i)
      <4>1. t.scan = view.scanId /\ t.scan \in Scans /\ view'.scanId = view.scanId
        BY <1>0, <3>2 DEF ProgressLoaded, TaskOn, Fits, AllFit, ViewFits
      <4> QED BY <2>1, <4>1, ViewAssumption DEF PolledOver
    <3>3. CASE ListFails(i) \/ ProgressFails(i)
      BY <3>3 DEF ListFails, ProgressFails, Fault, PolledOver, AllFit, BoundsFit
    <3> QED BY <1>2, <3>1, <3>2, <3>3
  <2> QED BY <2>3, <2>4 DEF Complete, Fetched
<1> QED BY <1>1, <1>2

LEMMA StartComplete ==
  ASSUME AllFit, Orderly, Complete, ~ Overlapping', NEW i \in Ops,
         StartScan(i) \/ (\E s \in Scans : Uploaded(i, s)) \/ UploadFails(i)
  PROVE  Complete'
<1> DEFINE t == task[i]
<1>0. /\ DOMAIN task = Ops /\ \A j \in Ops : Fits(task[j]) /\ TaskOn(task[j])
                                            /\ Forgets(task[j])
  BY DEF AllFit, TasksFit, Orderly, Complete
<1>1. /\ view'.progress = NoProgress /\ view'.polling = view.polling
      /\ \A j \in Ops : j # i => task'[j] = task[j]
      /\ task'[i].op # "load"
  <2>1. CASE StartScan(i)
    <3> DEFINE n == [Idle EXCEPT !.op = "start", !.pc = "upload"]
    <3>1. task'[i] = n /\ \A j \in Ops : j # i => task'[j] = task[j]
      BY <1>0, <2>1, BeginMoves DEF StartScan, Move
    <3>2. n.op = "start"
      BY IdleFits DEF Idle
    <3> QED BY <2>1, <3>1, <3>2 DEF StartScan, AllFit, ViewFits
  <2>2. ASSUME NEW s \in Scans, Uploaded(i, s)
        PROVE  /\ view'.progress = NoProgress /\ view'.polling = view.polling
               /\ \A j \in Ops : j # i => task'[j] = task[j]
               /\ task'[i].op # "load"
    <3>1. t.op = "start" /\ view.progress = NoProgress
      BY <1>0, <2>2 DEF Uploaded, Fits, Forgets
    <3>2. task'[i].op = "start"
      <4>1. Reading(t, s).op = t.op
        BY <1>0, ReadingFields
      <4> QED BY <1>0, <2>2, <3>1, <4>1 DEF Uploaded, Move
    <3> QED BY <1>0, <2>2, <3>1, <3>2 DEF Uploaded, Move, Loading, AllFit, ViewFits
  <2>3. CASE UploadFails(i)
    <3>1. view.progress = NoProgress
      BY <1>0, <2>3 DEF UploadFails, Fits, Forgets
    <3> QED BY <1>0, <2>3, <3>1, TaskFields DEF UploadFails, Move, AllFit, ViewFits
  <2> QED BY <2>1, <2>2, <2>3
<1>2. \A j \in Ops : Forgets(task[j])'
  BY <1>0, <1>1 DEF Forgets
<1> QED BY <1>1, <1>2 DEF Complete, Fetched, PolledOver, NoProgress

LEMMA PollComplete ==
  ASSUME AllFit, Orderly, Complete, ~ Overlapping', NEW i \in Ops,
         \/ Superseded(i) \/ PollAgain(i) \/ PollEnded(i) \/ PollFails(i)
         \/ Wake(i)
  PROVE  Complete'
<1> DEFINE t == task[i]
<1>0. /\ DOMAIN task = Ops /\ \A j \in Ops : Fits(task[j]) /\ TaskOn(task[j])
                                            /\ Forgets(task[j])
  BY DEF AllFit, TasksFit, Orderly, Complete
<1>1. /\ t.op = "poll" /\ t.pc \in {"get", "sleep"} /\ t.scan \in Scans
      /\ \A j \in Ops : j # i => task'[j] = task[j]
      /\ view'.polling = view.polling /\ view'.scanId = view.scanId
      /\ view'.verified = view.verified /\ view'.risks = view.risks
      /\ UNCHANGED <<run, saved>>
  BY <1>0 DEF Superseded, PollAgain, PollEnded, PollFails, Wake, Fits, Showing,
     Loading, Move, AllFit, ViewFits, serverVars
<1>2. task'[i].op \notin {"load", "start"}
  <2>1. Reading(t, t.scan).op = "poll"
    BY <1>0, <1>1, ReadingFields
  <2>2. \A pc : [t EXCEPT !.pc = pc].op = "poll"
    BY <1>0, <1>1 DEF Fits
  <2>3. \/ task'[i] \in {Done, Reading(t, t.scan)}
        \/ \E pc \in {"get", "sleep"} : task'[i] = [t EXCEPT !.pc = pc]
    BY <1>0 DEF Superseded, PollAgain, PollEnded, PollFails, Wake, Move
  <2> QED BY <2>1, <2>2, <2>3, TaskFields
<1>3. CASE Superseded(i) \/ Wake(i)
  <2>1. view' = view /\ faults' = faults /\ task'[i].pc \in {"done", "get"}
    <3>1. [t EXCEPT !.pc = "get"].pc = "get"
      BY <1>0 DEF Fits
    <3> QED BY <1>0, <1>3, <3>1, TaskFields DEF Superseded, Wake, Move, bounds
  <2>2. \A j \in Ops : Forgets(task[j])'
    BY <1>0, <1>1, <1>2, <2>1 DEF Forgets
  <2>3. \A j \in Ops : task'[j].pc \in {"reading", "answered"} <=>
                         task[j].pc \in {"reading", "answered"}
    BY <1>1, <2>1
  <2>4. \A j \in Ops : task'[j].pc = "reading" => task'[j] = task[j]
    BY <1>1, <2>1
  <2>5. PolledOver' => PolledOver
    BY <2>1 DEF PolledOver
  <2>6. Whole => Whole'
    BY <1>1, <2>1 DEF Whole
  <2>7. Fetched'
    <3> SUFFICES ASSUME PolledOver' PROVE Fetched'
      BY DEF Fetched
    <3>1. \A j \in Ops : task'[j].pc = "reading" =>
            \A p \in DOMAIN task'[j].got : task'[j].got[p] = saved'[task'[j].scan]
      BY <1>1, <2>3, <2>4, <2>5 DEF Fetched, Complete
    <3> QED BY <1>1, <2>1, <2>3, <2>5, <2>6, <3>1 DEF Fetched, Complete, Over
  <2> QED BY <2>2, <2>7 DEF Complete
<1>4. CASE PollFails(i)
  <2>1. ~ PolledOver' /\ view' = view
    BY <1>4 DEF PollFails, Fault, PolledOver, AllFit, BoundsFit
  <2> QED BY <1>0, <1>1, <1>2, <2>1 DEF Complete, Fetched, Forgets
<1>5. CASE PollAgain(i) \/ PollEnded(i)
  <2>1. /\ LivePoll(t) /\ t.scan = view.scanId
        /\ view'.progress = [scan |-> t.scan, status |-> Status(t.scan)]
    BY <1>0, <1>1, <1>5 DEF PollAgain, PollEnded, Showing, Loading, LivePoll, Polling,
       TaskOn, AllFit, ViewFits
  \* No upload is under way beside a live poll loop.
  <2>2. \A j \in Ops : Forgets(task[j])'
    <3>1. ASSUME NEW j \in Ops, j # i PROVE task[j].op # "start"
      <4>1. task[j].op = "start" => Busy(task[j])
        BY <1>0 DEF Fits, Busy
      <4> QED BY <2>1, <4>1 DEF Orderly, Overlapping
    <3> QED BY <1>0, <1>1, <1>2, <3>1 DEF Forgets
  <2>3. CASE PollAgain(i)
    <3>1. ~ PolledOver'
      BY <2>1, <2>3 DEF PollAgain, PolledOver
    <3> QED BY <2>2, <3>1 DEF Complete, Fetched
  <2>4. CASE PollEnded(i)
    <3>1. task'[i].pc = "reading" /\ task'[i].got = <<>>
      BY <1>0, <2>4, ReadingFields DEF PollEnded, Move
    <3>2. \A j \in Ops : j # i => task'[j].pc # "reading"
      BY <1>1, <3>1 DEF Overlapping, Busy
    <3>3. Over(view.scanId)
      BY <2>1, <2>4 DEF PollEnded, Status, Over
    <3>4. DOMAIN <<>> = {}
      OBVIOUS
    <3>5. \A j \in Ops : task'[j].pc = "reading" =>
            \A p \in DOMAIN task'[j].got : task'[j].got[p] = saved'[task'[j].scan]
      BY <3>1, <3>2, <3>4
    <3> QED BY <1>1, <2>1, <2>2, <3>1, <3>3, <3>5 DEF Complete, Fetched, Over
  <2> QED BY <1>5, <2>3, <2>4
<1> QED BY <1>3, <1>4, <1>5

LEMMA VerifyComplete ==
  ASSUME AllFit, Orderly, Complete, ~ Overlapping', NEW i \in Ops,
         \/ \E f \in Findings : Verify(i, f)
         \/ VerdictSaved(i) \/ VerifyAnswered(i) \/ VerifyFails(i)
  PROVE  Complete'
<1> DEFINE t == task[i]
<1>0. /\ DOMAIN task = Ops /\ \A j \in Ops : Fits(task[j]) /\ TaskOn(task[j])
                                            /\ Forgets(task[j])
  BY DEF AllFit, TasksFit, Orderly, Complete
<1>1. /\ \A j \in Ops : j # i => task'[j] = task[j]
      /\ view'.polling = view.polling /\ view'.progress = view.progress
      /\ view'.scanId = view.scanId /\ view'.risks = view.risks /\ run' = run
  <2>1. \A j \in Ops : j # i => task'[j] = task[j]
    BY <1>0, BeginMoves DEF Verify, VerdictSaved, VerifyAnswered, VerifyFails, Move,
       Begin
  <2>2. run' = run
    <3>1. CASE VerdictSaved(i)
      BY <1>0, <3>1, StoreFact DEF VerdictSaved, Posted, Fits, Pairs, AllFit
    <3> QED BY <3>1 DEF Verify, VerifyAnswered, VerifyFails, serverVars
  <2> QED BY <2>1, <2>2 DEF Verify, VerdictSaved, VerifyAnswered, VerifyFails,
             Loading, AllFit, ViewFits
\* What the task becomes, and that it is the only one busy.
<1>2. /\ task'[i].op \notin {"load", "start"}
      /\ \/ /\ \E f \in Findings : Verify(i, f)
            /\ t.pc = "idle" /\ task'[i].pc = "post"
         \/ VerdictSaved(i) /\ task'[i].pc = "answered"
         \/ /\ VerifyAnswered(i)
            /\ task'[i].pc = "reading" /\ task'[i].got = <<>>
         \/ VerifyFails(i) /\ task'[i].pc = "done"
      /\ \A j \in Ops : j # i => ~ Busy(task[j])
  <2>1. ASSUME NEW f \in Findings, Verify(i, f)
        PROVE  t.pc = "idle" /\ task'[i].op = "verify" /\ task'[i].pc = "post"
    <3> DEFINE n == [Idle EXCEPT !.op = "verify", !.pc = "post",
                                 !.scan = view.scanId,
                                 !.finding = <<view.findings, f>>]
    <3>1. Begin(i, n)
      BY <2>1 DEF Verify
    <3>2. t.pc = "idle" /\ task'[i] = n
      BY <1>0, <3>1, TaskFields DEF Begin
    <3> QED BY <3>2, IdleFits DEF Idle
  <2>2. ASSUME VerdictSaved(i)
        PROVE  task'[i].op = "verify" /\ task'[i].pc = "answered"
    BY <1>0, <2>2 DEF VerdictSaved, Posted, Move, Fits
  <2>3. ASSUME VerifyAnswered(i)
        PROVE  /\ task'[i].op = "verify" /\ task'[i].pc = "reading"
               /\ task'[i].got = <<>>
    <3>1. t.op = "verify" /\ task'[i] = Reading(t, t.scan)
      BY <1>0, <2>3 DEF VerifyAnswered, Move, Fits
    <3> QED BY <1>0, <3>1, ReadingFields
  <2>4. VerifyFails(i) => task'[i].op = "none" /\ task'[i].pc = "done"
    BY <1>0, TaskFields DEF VerifyFails, Move
  <2>5. \A j \in Ops : j # i => ~ Busy(task[j])
    <3>1. Busy(t) \/ Busy(task[i])'
      BY <2>1 DEF VerdictSaved, VerifyAnswered, VerifyFails, Posted, Busy
    <3>2. CASE Busy(t)
      BY <3>2, OneBusy DEF Orderly
    <3>3. CASE Busy(task[i])'
      BY <1>1, <3>3 DEF Overlapping, Busy
    <3> QED BY <3>1, <3>2, <3>3
  <2> QED BY <2>1, <2>2, <2>3, <2>4, <2>5
<1>3. \A j \in Ops : Forgets(task[j])'
  BY <1>0, <1>1, <1>2 DEF Forgets
<1>4. Fetched'
  <2> SUFFICES ASSUME PolledOver' PROVE Fetched'
    BY DEF Fetched
  <2>1. PolledOver
    <3>1. faults' = faults \/ Fault
      BY DEF Verify, VerdictSaved, VerifyAnswered, VerifyFails, bounds
    <3>2. faults = 0
      BY <3>1 DEF PolledOver, Fault, AllFit, BoundsFit
    <3> QED BY <1>1, <3>2 DEF PolledOver
  <2>2. view.scanId \in Scans /\ Over(view.scanId)
    BY <2>1 DEF Fetched, Complete
  <2>3. \A j \in Ops : task'[j].pc = "reading" =>
          \A p \in DOMAIN task'[j].got : task'[j].got[p] = saved'[task'[j].scan]
    <3>1. DOMAIN <<>> = {}
      OBVIOUS
    <3> QED BY <1>1, <1>2, <3>1 DEF Busy
  <2>4. Whole' \/ \E j \in Ops : task'[j].pc \in {"answered", "reading"}
    <3> SUFFICES ASSUME \/ \E f \in Findings : Verify(i, f) /\ t.pc = "idle"
                        \/ VerifyFails(i)
                 PROVE  Whole'
      BY <1>2
    <3>1. t.pc # "answered" /\ t.pc # "reading"
      <4>1. VerifyFails(i) /\ t.pc = "answered" => faults' # 0
        BY <1>0 DEF VerifyFails, Fault, Fits, AllFit, BoundsFit
      <4> QED BY <4>1 DEF VerifyFails, PolledOver
    <3>2. Whole
      BY <1>2, <2>1, <3>1 DEF Fetched, Complete, Busy
    <3>3. view'.verified = view.verified /\ saved' = saved
      BY DEF Verify, VerifyFails, AllFit, ViewFits, serverVars
    <3> QED BY <1>1, <3>2, <3>3 DEF Whole
  <2> QED BY <1>1, <2>2, <2>3, <2>4 DEF Fetched, Over
<1> QED BY <1>3, <1>4 DEF Complete

\* The backend saves nothing more for a scan whose run is over.
LEMMA BackendComplete ==
  ASSUME AllFit, Orderly, Complete, (\E s \in Scans : RunStep(s)) \/ Restart
  PROVE  Complete'
<1>1. /\ UNCHANGED <<view, task>> /\ (faults' = 0 => faults = 0)
      /\ \A s \in Scans : Over(s) => Over(s)' /\ saved'[s] = saved[s]
  <2>1. ASSUME NEW r \in Scans, RunStep(r)
        PROVE  /\ UNCHANGED <<view, task>> /\ (faults' = 0 => faults = 0)
               /\ \A s \in Scans : Over(s) => Over(s)' /\ saved'[s] = saved[s]
    BY <2>1, RunFact DEF Over, AllFit
  <2>2. CASE Restart
    BY <2>2, RestartFact DEF Over, AllFit
  <2> QED BY <2>1, <2>2
<1>2. \A j \in Ops : Forgets(task[j])'
  BY <1>1 DEF Complete, Forgets
<1>3. Fetched'
  <2> SUFFICES ASSUME PolledOver' PROVE Fetched'
    BY DEF Fetched
  <2>1. PolledOver /\ view.scanId \in Scans /\ Over(view.scanId)
    <3>1. PolledOver
      BY <1>1 DEF PolledOver
    <3> QED BY <3>1 DEF Fetched, Complete
  <2>2. Whole => Whole'
    BY <1>1, <2>1 DEF Whole
  <2>3. \A j \in Ops : task[j].pc = "reading" => task[j].scan = view.scanId
    BY DEF Orderly, TaskOn
  <2>4. \A j \in Ops : task'[j].pc = "reading" =>
          \A p \in DOMAIN task'[j].got : task'[j].got[p] = saved'[task'[j].scan]
    <3>1. \A j \in Ops : task[j].pc = "reading" =>
            \A p \in DOMAIN task[j].got : task[j].got[p] = saved[task[j].scan]
      BY <2>1 DEF Fetched, Complete
    <3>2. saved'[view.scanId] = saved[view.scanId] /\ task' = task
      BY <1>1, <2>1
    <3> QED BY <2>3, <3>1, <3>2
  <2> QED BY <1>1, <2>1, <2>2, <2>4 DEF Fetched, Complete
<1> QED BY <1>2, <1>3 DEF Complete

CompleteInv == ~ overlap => Complete

LEMMA CompleteStep ==
  ASSUME AllFit, OrderlyInv, CompleteInv, [Next]_vars PROVE CompleteInv'
<1>1. CASE Step /\ overlap' = (overlap \/ Overlapping')
  <2> SUFFICES ASSUME Orderly, Complete, ~ Overlapping' PROVE Complete'
    BY <1>1 DEF OrderlyInv, CompleteInv
  <2>1. CASE UserStep
    BY <2>1, LoadComplete, StartComplete, VerifyComplete DEF UserStep
  <2>2. ASSUME NEW i \in Ops, TaskStep(i) \/ TaskFails(i) PROVE Complete'
    BY <2>2, RefreshComplete, LoadComplete, StartComplete, PollComplete,
       VerifyComplete DEF TaskStep, TaskFails
  <2> QED BY <1>1, <2>1, <2>2, BackendComplete DEF Step
<1>2. CASE Reload
  <2>1. view'.progress = NoProgress /\ view'.polling = None
    <3>1. view' = BlankView \/ view' = Selected(BlankView)
      BY <1>2, ReloadLeaves
    <3>2. BlankView.progress = NoProgress /\ BlankView.polling = None
      BY DEF BlankView
    <3>3. /\ Selected(BlankView).progress = NoProgress
          /\ Selected(BlankView).polling = None
      BY DEF BlankView, Selected, Loading
    <3> QED BY <3>1, <3>2, <3>3
  <2> QED BY <2>1 DEF CompleteInv, Complete, Fetched, PolledOver, Forgets, NoProgress
<1>3. CASE UNCHANGED vars
  BY <1>3 DEF vars, mainVars, serverVars, bounds, CompleteInv, Complete, Fetched,
     PolledOver, Over, Whole, Forgets
<1> QED BY <1>1, <1>2, <1>3 DEF Next

\* After the poll of an upload reported the end of its run, the page has every
\* verdict of the scan, and every priority, once it is quiet: manual
\* verifications that followed and backend restarts included.
THEOREM PolledAll == Spec => []PolledViewIsComplete
<1>1. Init => CompleteInv
  BY TaskFields DEF Init, BlankView, NoProgress, CompleteInv, Complete, Fetched,
     PolledOver, Forgets
<1>2. AllFit /\ OrderlyInv /\ CompleteInv => PolledViewIsComplete
  <2> SUFFICES ASSUME Complete, Quiet, PolledOver PROVE Whole
    BY DEF CompleteInv, PolledViewIsComplete, PolledOver, Whole
  <2> QED BY DEF Complete, Fetched, Quiet, Busy
<1> QED BY <1>1, <1>2, OrderlyHolds, CompleteStep, PTL DEF Spec
=============================================================================
