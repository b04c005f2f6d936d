----------------------------- MODULE RunLedger -----------------------------
(***************************************************************************)
(* The backend as a page sees it: what a poll is told of the automatic run *)
(* of each scan, and which findings have a verdict.  Verdicts come from    *)
(* the run while a poll is told that it goes on, and from verifications    *)
(* somebody asked for; no verdict goes away unless both were at it.        *)
(* Threads, transactions, queues and the claim are not to be seen.         *)
(***************************************************************************)
CONSTANTS Scans, Findings

VARIABLES
  run,        \* each scan's run; "LOST": the registry knows nothing of it,
              \* and no thread is going to tell it
  saved,      \* the findings of each scan that have a verdict
  asked,      \* verifications that were asked for and are not answered
  disturbed   \* scans on which the run and a verification have saved at the
              \* same time: what either has read may be written back later

runVars == <<run, saved, asked, disturbed>>

RunStates == {"absent", "NOT_STARTED", "RUNNING", "COMPLETED", "LOST"}

Init ==
  /\ run = [s \in Scans |-> "absent"]
  /\ saved = [s \in Scans |-> {}]
  /\ asked = {}
  /\ disturbed = [s \in Scans |-> FALSE]

Becomes(s, from, to) ==
  /\ run[s] = from
  /\ run' = [run EXCEPT ![s] = to]
  /\ UNCHANGED <<saved, asked, disturbed>>

\* The run of a scan: the thread is dispatched with the upload's response,
\* publishes what it found to do, and ends; it may die before it publishes.
Accept(s) == Becomes(s, "absent", "NOT_STARTED")
Start(s) == \E to \in {"RUNNING", "COMPLETED"} : Becomes(s, "NOT_STARTED", to)
Die(s) == Becomes(s, "NOT_STARTED", "LOST")
End(s) == Becomes(s, "RUNNING", "COMPLETED")

\* The upload leaves a scan behind, and no run.
Reject(s) == Becomes(s, "absent", "LOST")

\* A verdict is stored.  Saves of one scan that overlap may undo each other.
Store(s, f, both) ==
  /\ \/ UNCHANGED disturbed
     \/ both /\ disturbed' = [disturbed EXCEPT ![s] = TRUE]
  /\ \/ saved' = [saved EXCEPT ![s] = @ \cup {f}]
     \/ /\ disturbed'[s]
        /\ \E others \in SUBSET Findings : saved' = [saved EXCEPT ![s] = others \cup {f}]
  /\ UNCHANGED run

Save(s, f) ==
  /\ run[s] = "RUNNING"
  /\ Store(s, f, \E g \in Findings : <<s, g>> \in asked)
  /\ UNCHANGED asked

Ask(s, f) ==
  /\ run[s] # "absent"
  /\ asked' = asked \cup {<<s, f>>}
  /\ UNCHANGED <<run, saved, disturbed>>

\* A verification that was asked for stores its verdict; its answer follows.
Verify(s, f) ==
  /\ <<s, f>> \in asked
  /\ Store(s, f, run[s] = "RUNNING")
  /\ UNCHANGED asked

\* Verifications are answered, with or without a verdict.
Answer ==
  /\ asked' \subseteq asked
  /\ UNCHANGED <<run, saved, disturbed>>

\* The registry is empty again, every thread and every request is gone, and
\* the uploads under way are cut short.
Restart(cut) ==
  /\ run' = [s \in Scans |-> IF run[s] = "absent" /\ s \notin cut THEN "absent"
                             ELSE "LOST"]
  /\ asked' = {}
  /\ UNCHANGED <<saved, disturbed>>

Next ==
  \/ \E s \in Scans :
       \/ Accept(s) \/ Reject(s) \/ Start(s) \/ Die(s) \/ End(s)
       \/ \E f \in Findings : Save(s, f) \/ Ask(s, f) \/ Verify(s, f)
  \/ Answer
  \/ \E cut \in SUBSET Scans : Restart(cut)

Spec == Init /\ [][Next]_runVars
=============================================================================
