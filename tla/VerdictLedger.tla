---------------------------- MODULE VerdictLedger ----------------------------
(***************************************************************************)
(* What the backend promises about a scan, without threads, transactions   *)
(* or a progress registry: a scan is accepted, then normalized or          *)
(* rejected, once; each supported finding of a normalized scan gets at     *)
(* most one verdict, and a verdict once given stays.                       *)
(***************************************************************************)
EXTENDS Naturals, Sequences

CONSTANTS Scans, Reports, Verdicts, Unverified, Supported, Idx

VARIABLES
  status,    \* where the scan is in its life
  report,    \* the categories of the normalized scan's findings
  verdicts   \* the verdict of each finding, or Unverified

ledgerVars == <<status, report, verdicts>>

Init ==
  /\ status = [s \in Scans |-> "ABSENT"]
  /\ report = [s \in Scans |-> <<>>]
  /\ verdicts = [s \in Scans |-> [i \in Idx |-> Unverified]]

Accept(s) ==
  /\ status[s] = "ABSENT"
  /\ status' = [status EXCEPT ![s] = "UPLOADED"]
  /\ UNCHANGED <<report, verdicts>>

Normalize(s, r) ==
  /\ status[s] = "UPLOADED"
  /\ status' = [status EXCEPT ![s] = "NORMALIZED"]
  /\ report' = [report EXCEPT ![s] = r]
  /\ UNCHANGED verdicts

Reject(s) ==
  /\ status[s] = "UPLOADED"
  /\ status' = [status EXCEPT ![s] = "FAILED"]
  /\ UNCHANGED <<report, verdicts>>

Record(s, i, v) ==
  /\ status[s] = "NORMALIZED"
  /\ i \in 1..Len(report[s])
  /\ report[s][i] \in Supported
  /\ verdicts[s][i] = Unverified
  /\ verdicts' = [verdicts EXCEPT ![s] = [verdicts[s] EXCEPT ![i] = v]]
  /\ UNCHANGED <<status, report>>

Next ==
  \E s \in Scans :
    \/ Accept(s) \/ Reject(s)
    \/ \E r \in Reports : Normalize(s, r)
    \/ \E i \in Idx, v \in Verdicts : Record(s, i, v)

Spec == Init /\ [][Next]_ledgerVars
=============================================================================
