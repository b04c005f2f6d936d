------------------------- MODULE ReportIntakeProofs -------------------------
(***************************************************************************)
(* What a report becomes, proved for every application, every capture of   *)
(* any length, and every set of alerts and issues: what the user submitted *)
(* is reported and replayed, and what a scanner found in a parameter is    *)
(* verified in that parameter.                                             *)
(***************************************************************************)
EXTENDS ReportIntake, FiniteSetTheorems, WellFoundedInduction, TLAPS

-----------------------------------------------------------------------------
(* The first of what is looked for. *)

LEMMA LeastNat ==
  ASSUME NEW T \in SUBSET Nat, T # {}
  PROVE  \E x \in T : \A y \in T : x <= y
<1>1. PICK x \in T : \A y \in T : ~ (<<y, x>> \in OpToRel(<, Nat))
  BY NatLessThanWellFounded, WFMin
<1>2. \A y \in T : ~ (y < x)
  BY <1>1 DEF OpToRel
<1> QED BY <1>2

LEMMA MinFact ==
  ASSUME NEW T \in SUBSET Nat, T # {}
  PROVE  Min(T) \in T /\ \A y \in T : Min(T) <= y
BY LeastNat DEF Min

\* The match is the first entry after the form's that submits it.
LEMMA MatchFact ==
  ASSUME NEW S, NEW entries \in Seq(S), NEW i \in DOMAIN entries, NEW f
  PROVE  LET j == MatchOf(entries, i, f) IN
         /\ j # 0 => /\ j \in (i + 1)..Len(entries) /\ j \in DOMAIN entries
                     /\ Submits(f, entries[i], entries[j])
         /\ \A n \in (i + 1)..Len(entries) :
              Submits(f, entries[i], entries[n]) => j # 0 /\ j <= n
<1> DEFINE I == {n \in (i + 1)..Len(entries) : Submits(f, entries[i], entries[n])}
<1>1. MatchOf(entries, i, f) = IF I # {} THEN Min(I) ELSE 0
  BY DEF MatchOf, SelectInSubSeq
<1>2. i \in Nat /\ i >= 1 /\ Len(entries) \in Nat /\ DOMAIN entries = 1..Len(entries)
  OBVIOUS
<1>3. I \in SUBSET Nat
  BY <1>2
<1>4. I # {} => Min(I) \in I /\ \A n \in I : Min(I) <= n
  BY <1>3, MinFact
<1>5. \A n \in I : n # 0 /\ n \in (i + 1)..Len(entries) /\ n \in DOMAIN entries
  BY <1>2
<1> QED BY <1>1, <1>4, <1>5

\* The parameter of an issue is the first of its query that occurs in its
\* location.
LEMMA BurpParameterFact ==
  ASSUME NEW b, b.query \in Seq(STRING), NEW j \in DOMAIN b.query,
         <<b.query[j], b.location>> \in Within,
         \A n \in DOMAIN b.query : n < j => <<b.query[n], b.location>> \notin Within
  PROVE  BurpParameter(b) = b.query[j]
<1> DEFINE Occurs(p) == <<p, b.location>> \in Within
           I == {n \in 1..Len(b.query) : Occurs(b.query[n])}
           i == IF I # {} THEN Min(I) ELSE 0
<1>1. BurpParameter(b) = IF i = 0 THEN NoText ELSE b.query[i]
  BY DEF BurpParameter, SelectInSeq
<1>2. DOMAIN b.query = 1..Len(b.query)
  OBVIOUS
<1>3. Occurs(b.query[j]) /\ \A n \in 1..Len(b.query) : n < j => ~ Occurs(b.query[n])
  BY <1>2
<1> HIDE DEF Occurs
<1>4. I # {}
  BY <1>2, <1>3
<1>5. I \in SUBSET Nat
  OBVIOUS
<1>6. Min(I) \in I /\ Min(I) <= j
  BY <1>2, <1>3, <1>4, <1>5, MinFact
<1>7. i = Min(I) /\ i # 0 /\ i \in 1..Len(b.query) /\ Occurs(b.query[i]) /\ i <= j
  BY <1>4, <1>6
<1>7a. i \in 1..Len(b.query) /\ i <= j /\ ~ (i < j) /\ j \in 1..Len(b.query)
  BY <1>2, <1>3, <1>7
<1> HIDE DEF i
<1>8. i = j
  <2>1. i \in Nat /\ j \in Nat /\ i <= j /\ ~ (i < j)
    BY <1>7a
  <2> QED BY ONLY <2>1
<1> QED BY <1>1, <1>7, <1>8

-----------------------------------------------------------------------------
(* The invariant. *)

\* A submission stands in the report as the browser made it.
Recorded(s) ==
  /\ s.source \in DOMAIN report /\ s.item \in DOMAIN report /\ s.source < s.item
  /\ s.form \in DOMAIN report[s.source].forms
  /\ report[s.item].method = FormOf(s).method
  /\ report[s.item].path = ActionPath(FormOf(s), report[s.source])
  /\ FormOf(s).method = "GET" =>
       report[s.item].query = s.names /\ report[s.item].body = "none"
  /\ FormOf(s).method = "POST" =>
       report[s.item].fields = s.names /\ report[s.item].body \in BodyKinds \ {"none"}

SubmissionsRecorded ==
  /\ submitted # {} => kind = "har"
  /\ \A s \in submitted : Recorded(s)

\* The findings are those of the report as it is.
FindingsParsed == status = "NORMALIZED" => findings = Parsed

IInv == TypeOK /\ SubmissionsRecorded /\ FindingsParsed

LEMMA InitInv == Init => IInv
<1> SUFFICES ASSUME Init PROVE IInv
  OBVIOUS
<1>1. report = <<>> /\ Len(report) = 0 /\ report \in Seq(Items[kind])
  BY DEF Init
<1>2. MaxEntries \in Nat /\ MaxItems \in Nat /\ MaxSessions \in Nat
  BY IntakeAssumption
<1>3. TypeOK
  BY <1>1, <1>2 DEF Init, TypeOK, NoSession
<1> QED BY <1>3 DEF Init, IInv, SubmissionsRecorded, FindingsParsed

\* The forms of a captured page are forms of the application.
LEMMA FormFact ==
  ASSUME TypeOK, kind = "har", NEW i \in DOMAIN report, NEW k \in DOMAIN report[i].forms
  PROVE  /\ report[i] \in Entries
         /\ report[i].forms[k] \in FormKinds(Paths, FieldNames)
<1>1. report \in Seq(Entries)
  BY DEF TypeOK, Items
<1>2. report[i] \in Entries
  BY <1>1
<1>3. report[i].forms \in {<<>>} \cup Range(Pages)
  BY <1>2 DEF Entries
<1>4. PICK p \in Paths : report[i].forms = Pages[p]
  BY <1>3 DEF Range, Paths
<1>5. Pages[p] \in Seq(FormKinds(Paths, FieldNames))
  BY IntakeAssumption
<1> HIDE DEF FormKinds
<1> QED BY <1>2, <1>4, <1>5

\* Another item leaves what is recorded as it is.
LEMMA RecordFact ==
  ASSUME IInv, NEW e \in Items[kind], Open, Record(e)
  PROVE  /\ UNCHANGED <<kind, cookie, status, findings>>
         /\ status = "UPLOADED" /\ findings = {}
         /\ DOMAIN report = 1..Len(report) /\ Len(report) \in Nat
         /\ report' \in Seq(Items[kind])
         /\ DOMAIN report' = 1..(Len(report) + 1)
         /\ Len(report') <= IF kind = "har" THEN MaxEntries ELSE MaxItems
         /\ \A n \in DOMAIN report : report'[n] = report[n] /\ n \in DOMAIN report'
         /\ report'[Len(report) + 1] = e
         /\ \A s \in submitted : Recorded(s)'
<1> DEFINE Bound == IF kind = "har" THEN MaxEntries ELSE MaxItems
<1>1. UNCHANGED <<kind, cookie, status, findings>> /\ status = "UPLOADED" /\ findings = {}
  BY DEF Record, Open, IInv, TypeOK
<1>2. report \in Seq(Items[kind]) /\ report' = Append(report, e)
  BY DEF IInv, TypeOK, Record
<1>3. /\ DOMAIN report = 1..Len(report) /\ Len(report) \in Nat
      /\ report' \in Seq(Items[kind]) /\ Len(report') = Len(report) + 1
      /\ DOMAIN report' = 1..(Len(report) + 1)
      /\ \A n \in DOMAIN report : report'[n] = report[n] /\ n \in DOMAIN report'
      /\ report'[Len(report) + 1] = e
  BY <1>2
<1>4. Len(report') <= Bound
  <2>1. Bound \in Nat
    BY IntakeAssumption
  <2>2. Len(report) < Bound
    BY DEF Open
  <2> QED BY <2>1, <2>2, <1>3
<1>5. ASSUME NEW s \in submitted PROVE Recorded(s)'
  <2>1. Recorded(s)
    BY DEF IInv, SubmissionsRecorded
  <2>2. report'[s.source] = report[s.source] /\ report'[s.item] = report[s.item]
    BY <2>1, <1>3 DEF Recorded
  <2>3. FormOf(s)' = FormOf(s)
    BY <2>2 DEF FormOf
  <2> QED BY <2>1, <2>2, <2>3, <1>3 DEF Recorded
<1> QED BY <1>1, <1>3, <1>4, <1>5

\* A step that records one item and no submission.
LEMMA RecordInv ==
  ASSUME IInv, NEW e \in Items[kind], Open, Record(e), UNCHANGED submitted
  PROVE  IInv'
<1>1. TypeOK'
  <2>1. \A s \in submitted' : s.source < s.item /\ s.item \in DOMAIN report'
    BY RecordFact DEF Recorded
  <2> QED BY <2>1, RecordFact DEF IInv, TypeOK
<1>2. SubmissionsRecorded'
  BY RecordFact DEF IInv, SubmissionsRecorded
<1>3. FindingsParsed'
  BY RecordFact DEF FindingsParsed
<1> QED BY <1>1, <1>2, <1>3 DEF IInv

\* What a script or an opened page adds is an entry.
LEMMA BrowseInv ==
  ASSUME IInv, (\E p \in Paths : OpenPage(p))
               \/ (\E c \in Calls, credentials \in BOOLEAN : Call(c, credentials))
  PROVE  IInv'
<1>1. cookie \in 0..MaxSessions /\ NoSession \in 0..MaxSessions
  BY IntakeAssumption DEF IInv, TypeOK, NoSession
<1>2. ASSUME NEW p \in Paths, OpenPage(p) PROVE IInv'
  <2> DEFINE e == Entry("GET", p, {}, {}, "none", cookie, Pages[p])
  <2>1. Pages[p] \in Range(Pages)
    BY DEF Range, Paths
  <2>2. e \in Entries
    BY <1>1, <2>1 DEF Entry, Entries, Methods, BodyKinds
  <2>3. kind = "har" /\ Open /\ Record(e) /\ UNCHANGED submitted
    BY <1>2 DEF OpenPage
  <2> HIDE DEF e
  <2>4. e \in Items[kind]
    BY <2>2, <2>3 DEF Items
  <2> QED BY <2>3, <2>4, RecordInv
<1>3. ASSUME NEW c \in Calls, NEW credentials \in BOOLEAN, Call(c, credentials) PROVE IInv'
  <2> DEFINE session == IF credentials THEN cookie ELSE NoSession
             e == Entry(c.method, c.path, c.query, {}, "none", session, <<>>)
  <2>1. c.method \in Methods /\ c.path \in Paths /\ c.query \in SUBSET Names
    BY IntakeAssumption DEF Names
  <2>2. session \in 0..MaxSessions
    BY <1>1
  <2>3. kind = "har" /\ Open /\ Record(e) /\ UNCHANGED submitted
    BY <1>3 DEF Call
  <2> HIDE DEF session
  <2>4. e \in Entries
    BY <2>1, <2>2 DEF Entry, Entries, BodyKinds
  <2> HIDE DEF e
  <2>5. e \in Items[kind]
    BY <2>3, <2>4 DEF Items
  <2> QED BY <2>3, <2>5, RecordInv
<1> QED BY <1>2, <1>3

LEMMA ScanInv == IInv /\ Scan => IInv'
<1> SUFFICES ASSUME IInv, Scan PROVE IInv'
  OBVIOUS
<1>1. PICK e \in Items[kind] : Open /\ Record(e) /\ UNCHANGED submitted
  BY DEF Scan, Report, Items
<1> QED BY <1>1, RecordInv

LEMMA NewSessionInv == IInv /\ NewSession => IInv'
<1> SUFFICES ASSUME IInv, NewSession PROVE IInv'
  OBVIOUS
<1>1. cookie' \in 0..MaxSessions
  BY IntakeAssumption DEF NewSession, IInv, TypeOK
<1>2. UNCHANGED <<kind, report, status, findings, submitted>>
  BY DEF NewSession
<1>3. TypeOK'
  BY <1>1, <1>2 DEF IInv, TypeOK
<1>4. SubmissionsRecorded' /\ FindingsParsed'
  BY <1>2 DEF IInv, SubmissionsRecorded, FindingsParsed, Recorded, FormOf, Parsed
<1> QED BY <1>3, <1>4 DEF IInv

\* The browser sends what the form says: the submission is recorded as it is
\* described.
LEMMA SubmitInv ==
  ASSUME IInv, kind = "har",
         NEW i \in DOMAIN report, NEW k \in DOMAIN report[i].forms,
         NEW names \in Sent(report[i].forms[k]), NEW body \in BodyKinds \ {"none"},
         Submit(i, k, names, body)
  PROVE  IInv'
<1> DEFINE f == report[i].forms[k]
           path == ActionPath(f, report[i])
           query == IF f.action = "" THEN report[i].query ELSE f.query
           get == Entry("GET", path, names, {}, "none", cookie, Pages[path])
           post == Entry("POST", path, query, names, body, cookie, Pages[path])
           e == IF f.method = "GET" THEN get ELSE post
<1>0. PICK s : s = [source |-> i, form |-> k, item |-> Len(report) + 1, names |-> names]
  OBVIOUS
<1>1. report[i] \in Entries /\ f \in FormKinds(Paths, FieldNames)
  BY FormFact DEF IInv
<1>2. /\ f.action \in Paths \cup {""} /\ f.method \in Methods
      /\ f.query \in SUBSET FieldNames /\ f.names \in SUBSET FieldNames
      /\ f.buttons \in SUBSET FieldNames
      /\ report[i].path \in Paths /\ report[i].query \in SUBSET Names
  BY <1>1 DEF FormKinds, Entries
<1>3. path \in Paths /\ query \in SUBSET Names /\ names \in SUBSET FieldNames
  <2>1. names \subseteq f.names \cup f.buttons
    BY DEF Sent
  <2>2. names \in SUBSET FieldNames
    BY <1>2, <2>1
  <2>3. path \in Paths /\ query \in SUBSET Names
    BY <1>2 DEF ActionPath, Names
  <2> QED BY <2>2, <2>3
<1>4. Pages[path] \in Range(Pages)
  BY <1>3 DEF Range, Paths
<1>5. Open /\ Record(e) /\ submitted' = submitted \cup {s}
  BY <1>0 DEF Submit
<1>6. cookie \in 0..MaxSessions /\ names \in SUBSET Names
  BY <1>3 DEF IInv, TypeOK, Names
<1>7. /\ e.path = path /\ e \in Entries
      /\ f.method = "GET" => e.method = "GET" /\ e.query = names /\ e.body = "none"
      /\ f.method = "POST" => e.method = "POST" /\ e.fields = names /\ e.body = body
  <2> HIDE DEF path, query, f
  <2>1. CASE f.method = "GET"
    BY <2>1, <1>3, <1>4, <1>6 DEF Entry, Entries, Methods, BodyKinds
  <2>2. CASE f.method = "POST"
    BY <2>2, <1>3, <1>4, <1>6 DEF Entry, Entries, Methods, BodyKinds
  <2> QED BY <2>1, <2>2, <1>2 DEF Methods
<1> HIDE DEF e
<1>8. e \in Items[kind]
  BY <1>7 DEF Items
<1>9. Recorded(s)'
  <2>1. /\ i \in DOMAIN report' /\ report'[i] = report[i] /\ i < Len(report) + 1
        /\ Len(report) + 1 \in DOMAIN report' /\ report'[Len(report) + 1] = e
    BY <1>5, <1>8, RecordFact
  <2>2. FormOf(s)' = f
    BY <1>0, <2>1 DEF FormOf
  <2> HIDE DEF f
  <2>3. e.path = ActionPath(FormOf(s)', report'[i])
    BY <1>7, <2>1, <2>2
  <2>4. f.method \in {"GET", "POST"}
    BY <1>2 DEF Methods, f
  <2>5. e.method = f.method
    BY <1>7, <2>4
  <2>6. k \in DOMAIN report'[i].forms
    BY <2>1
  <2> QED BY <1>0, <1>7, <2>1, <2>2, <2>3, <2>4, <2>5, <2>6 DEF Recorded
<1>10. SubmissionsRecorded'
  <2>1. \A x \in submitted : Recorded(x)'
    BY <1>5, <1>8, RecordFact
  <2>2. kind' = "har"
    BY <1>5 DEF Record
  <2> QED BY <1>5, <1>9, <2>1, <2>2 DEF SubmissionsRecorded
<1>11. TypeOK'
  <2>1. \A x \in submitted' : x.source < x.item /\ x.item \in DOMAIN report'
    BY <1>10 DEF SubmissionsRecorded, Recorded
  <2> QED BY <1>5, <1>8, <2>1, RecordFact DEF IInv, TypeOK
<1>12. FindingsParsed'
  BY <1>5, <1>8, RecordFact DEF FindingsParsed
<1> QED BY <1>10, <1>11, <1>12 DEF IInv

\* What is parsed names a family and an item of the report.
LEMMA ParsedFact ==
  ASSUME TypeOK
  PROVE  \A f \in Parsed :
           f.category \in {"SQLI", "CSRF", "XSS", "OTHER"} /\ f.item \in DOMAIN report
<1> SUFFICES ASSUME NEW f \in Parsed
             PROVE  f.category \in {"SQLI", "CSRF", "XSS", "OTHER"} /\ f.item \in DOMAIN report
  OBVIOUS
<1>1. CASE kind = "har"
  <2>1. f \in Candidates(report)
    BY <1>1 DEF Parsed
  <2>2. PICK o \in FormsOf(report) :
          /\ MatchOf(report, o.source, report[o.source].forms[o.form]) # 0
          /\ f = Candidate(report, o)
    BY <2>1 DEF Candidates
  <2>3. o.source \in DOMAIN report /\ report \in Seq(Entries)
    BY <1>1 DEF FormsOf, TypeOK, Items
  <2>4. MatchOf(report, o.source, report[o.source].forms[o.form]) \in DOMAIN report
    BY <2>2, <2>3, MatchFact
  <2> QED BY <2>2, <2>4 DEF Candidate
<1>2. CASE kind = "alerts"
  <2>1. f \in ZapFindings(report)
    BY <1>2 DEF Parsed
  <2>2. PICK n \in DOMAIN report : f = ZapFinding(report[n], n) /\ f.category # "NONE"
    BY <2>1 DEF ZapFindings
  <2>3. ZapCategory(report[n]) \in {"SQLI", "XSS", "NONE"}
    BY DEF ZapCategory
  <2> QED BY <2>2, <2>3 DEF ZapFinding
<1>3. CASE kind = "issues"
  <2>1. f \in BurpFindings(report)
    BY <1>3 DEF Parsed
  <2>2. PICK n \in DOMAIN report : f = BurpFinding(report[n], n)
    BY <2>1 DEF BurpFindings
  <2>3. BurpCategory(report[n]) \in {"SQLI", "CSRF", "XSS", "OTHER"}
    BY DEF BurpCategory
  <2> QED BY <2>2, <2>3 DEF BurpFinding
<1> QED BY <1>1, <1>2, <1>3 DEF TypeOK

LEMMA UploadInv ==
  ASSUME IInv, NEW scanner \in {"ZAP", "BURP"}, Upload(scanner)
  PROVE  IInv'
<1>1. UNCHANGED <<kind, report, cookie, submitted>> /\ status = "UPLOADED"
  BY DEF Upload
<1>2. Parsed' = Parsed
  BY <1>1 DEF Parsed
<1>3. \/ status' = "NORMALIZED" /\ findings' = Parsed
      \/ status' = "FAILED" /\ findings' = findings
  BY DEF Upload
<1>4. FindingsParsed'
  BY <1>2, <1>3 DEF FindingsParsed
<1>5. SubmissionsRecorded'
  BY <1>1 DEF IInv, SubmissionsRecorded, Recorded, FormOf
<1>6. TypeOK'
  <2>1. \A f \in findings' :
          f.category \in {"SQLI", "CSRF", "XSS", "OTHER"} /\ f.item \in DOMAIN report'
    BY <1>1, <1>3, ParsedFact DEF IInv, TypeOK
  <2>2. status' # "NORMALIZED" => findings' = {}
    BY <1>1, <1>3 DEF IInv, TypeOK
  <2>3. status' \in {"UPLOADED", "NORMALIZED", "FAILED"}
    BY <1>3
  <2> QED BY <1>1, <2>1, <2>2, <2>3 DEF IInv, TypeOK
<1> QED BY <1>4, <1>5, <1>6 DEF IInv

\* The invariant holds of every reachable state.
LEMMA InvHolds == Spec => []IInv
<1>1. IInv /\ [Next]_vars => IInv'
  <2> SUFFICES ASSUME IInv, [Next]_vars PROVE IInv'
    OBVIOUS
  <2>1. CASE Browse
    <3>1. \A f : Bodies(f) \subseteq BodyKinds \ {"none"}
      BY DEF Bodies, BodyKinds
    <3> QED BY <2>1, <3>1, BrowseInv, SubmitInv, NewSessionInv DEF Browse
  <2>2. CASE Scan
    BY <2>2, ScanInv
  <2>3. CASE \E scanner \in {"ZAP", "BURP"} : Upload(scanner)
    BY <2>3, UploadInv
  <2>4. CASE UNCHANGED vars
    BY <2>4 DEF vars, IInv, TypeOK, SubmissionsRecorded, FindingsParsed, Recorded, FormOf,
                Parsed
  <2> QED BY <2>1, <2>2, <2>3, <2>4 DEF Next
<1> QED BY InitInv, <1>1, PTL DEF Spec

-----------------------------------------------------------------------------
(* The theorems. *)

\* Reports, findings and submissions keep their types: every finding names a
\* family and an item of the report, every submission follows its page.
THEOREM IntakeTypeCorrect == Spec => []TypeOK
BY InvHolds, PTL DEF IInv

\* A form without a token that the user submitted is reported, with a replay made
\* of its own fields, whatever else is captured around it.
THEOREM SubmissionsAreReported == Spec => []SubmissionReported
<1>1. IInv => SubmissionReported
  <2> SUFFICES ASSUME IInv, Captured, NEW s \in submitted,
                      ~ FormOf(s).token, s.names # {}, s.names \subseteq FormOf(s).names,
                      \/ FormOf(s).method = "GET"
                      \/ /\ report[s.item].query = {}
                         /\ report[s.item].body \in {"text", "params"}
               PROVE  \E c \in FindingsOf(s) :
                        /\ c.item <= s.item
                        /\ \/ c.replayed \subseteq FormOf(s).names
                           \/ report[c.item].body = "emptyParams"
                        /\ c.replayed # {} \/ report[c.item].body = "params"
    BY DEF SubmissionReported
  <2> DEFINE f == FormOf(s)
             e == report[s.item]
             j == MatchOf(report, s.source, f)
             c == Candidate(report, s)
  <2>1. kind = "har" /\ findings = Candidates(report) /\ Recorded(s)
    BY DEF IInv, Captured, FindingsParsed, Parsed, SubmissionsRecorded
  <2>2. /\ report \in Seq(Entries) /\ s.source \in DOMAIN report /\ s.item \in DOMAIN report
        /\ s.form \in DOMAIN report[s.source].forms
        /\ s.item \in (s.source + 1)..Len(report)
    BY <2>1 DEF IInv, TypeOK, Items, Recorded
  <2>3. f \in FormKinds(Paths, FieldNames) /\ f = report[s.source].forms[s.form]
    BY <2>1, <2>2, FormFact DEF IInv, FormOf
  <2>4. f.method \in {"GET", "POST"} /\ f.names \subseteq FieldNames
    BY <2>3 DEF FormKinds, Methods
  <2>5. Submits(f, report[s.source], e)
    <3>1. RequestNames(e) = s.names
      <4>1. CASE f.method = "GET"
        BY <4>1, <2>1 DEF Recorded, RequestNames
      <4>2. CASE f.method = "POST"
        BY <4>2, <2>1 DEF Recorded, RequestNames, BodyKinds
      <4> QED BY <4>1, <4>2, <2>4
    <3> QED BY <3>1, <2>1 DEF Recorded, Submits
  <2> HIDE DEF f, e
  <2>6. /\ j # 0 /\ j <= s.item /\ j \in DOMAIN report
        /\ Submits(f, report[s.source], report[j])
    BY <2>2, <2>5, MatchFact DEF e
  <2>7. f.names # {}
    BY DEF f
  <2>8. c \in FindingsOf(s) /\ c.item = j /\ c.replayed = ReplayedNames(report[j])
    <3> DEFINE o == [source |-> s.source, form |-> s.form]
    <3>1. o \in FormsOf(report) /\ c = Candidate(report, o)
      BY <2>2 DEF FormsOf, Candidate
    <3>2. c \in Candidates(report)
      BY <3>1, <2>3, <2>6, <2>7 DEF Candidates, f
    <3> QED BY <3>2, <2>1, <2>3 DEF FindingsOf, Candidate
  <2>9. /\ RequestNames(report[j]) # {} /\ RequestNames(report[j]) \subseteq f.names
        /\ report[j].body \in BodyKinds
    <3> HIDE DEF j
    <3>1. report[j] \in Entries
      BY <2>2, <2>6
    <3>2. report[j].body \in BodyKinds
      BY <3>1 DEF Entries
    <3> QED BY <2>6, <3>2 DEF Submits
  <2>10. report[j].body # "multipart"
    BY <2>4, <2>9, IntakeAssumption DEF RequestNames
  <2>11. /\ ReplayedNames(report[j]) \subseteq f.names \/ report[j].body = "emptyParams"
         /\ ReplayedNames(report[j]) # {} \/ report[j].body = "params"
    BY <2>9, <2>10 DEF RequestNames, ReplayedNames, BodyKinds
  <2> QED BY <2>6, <2>8, <2>11 DEF f
<1> QED BY InvHolds, <1>1, PTL

\* A finding is said to need a session when its form was loaded and submitted in
\* one, however often the user logs in meanwhile and whatever scripts send.
THEOREM SessionsFollowUsers == Spec => []SessionFollowsUser
<1>1. IInv => SessionFollowsUser
  <2> SUFFICES ASSUME IInv, Captured, NEW c \in findings
               PROVE  LET loaded == report[c.source].session
                          later == {report[n].session : n \in (c.source + 1)..Len(report)}
                      IN /\ loaded # NoSession /\ later = {loaded} => c.session
                         /\ loaded \notin later => ~ c.session
    BY DEF SessionFollowsUser
  <2>1. kind = "har" /\ findings = Candidates(report) /\ report \in Seq(Entries)
    BY DEF IInv, TypeOK, Captured, FindingsParsed, Parsed, Items
  <2>2. PICK o \in FormsOf(report) :
          /\ MatchOf(report, o.source, report[o.source].forms[o.form]) # 0
          /\ c = Candidate(report, o)
    BY <2>1 DEF Candidates
  <2> DEFINE j == MatchOf(report, o.source, report[o.source].forms[o.form])
  <2>3. o.source \in DOMAIN report
    BY DEF FormsOf
  <2>4. j \in (o.source + 1)..Len(report)
    BY <2>1, <2>2, <2>3, MatchFact
  <2>5. c.source = o.source /\ c.session = SessionConsistent(report[o.source], report[j])
    BY <2>2 DEF Candidate
  <2> HIDE DEF j
  <2> QED BY <2>4, <2>5 DEF SessionConsistent
<1> QED BY InvHolds, <1>1, PTL

\* What a scanner found in one parameter of a URL is verified in that parameter.
THEOREM ReportedFindingsAreTested == Spec => []ReportedIsTested
<1>1. IInv => ReportedIsTested
  <2> SUFFICES ASSUME IInv, kind # "har", status = "NORMALIZED",
                      NEW n \in DOMAIN report, Verifiable(report[n])
               PROVE  \E f \in findings :
                        /\ f.item = n /\ f.parameter = report[n].param
                        /\ Attempted(f) /\ Accepted(f)
    BY DEF ReportedIsTested
  <2> DEFINE x == report[n]
             Places == {i \in DOMAIN x.query : x.query[i] = x.param}
  <2>1. x.param # NoText /\ Cardinality(Places) = 1
    BY DEF Verifiable
  <2>2. x.param \in Range(x.query)
    <3>1. Places # {}
      BY <2>1, FS_EmptySet
    <3> QED BY <3>1 DEF Range
  <2>3. CASE kind = "alerts"
    <3> DEFINE f == ZapFinding(x, n)
    <3>1. x.plugin \in {"40018", "40012"}
      BY <2>3 DEF Verifiable
    <3>2. /\ f.item = n /\ f.parameter = x.param /\ f.query = x.query /\ f.inQuery
          /\ f.category = ZapCategory(x) /\ f.reflected = ZapReflected(x)
      BY <2>1, <2>2 DEF ZapFinding
    <3>3. ZapCategory(x) \in {"SQLI", "XSS"} /\ (ZapCategory(x) = "XSS" => ZapReflected(x))
      BY <3>1 DEF ZapCategory, ZapReflected
    <3>4. findings = ZapFindings(report)
      BY <2>3 DEF IInv, FindingsParsed, Parsed
    <3>5. f \in findings
      BY <3>2, <3>3, <3>4 DEF ZapFindings
    <3> HIDE DEF f
    <3>6. OccursOnce(f)
      BY <3>2, <2>1 DEF OccursOnce
    <3>7. Attempted(f) /\ Accepted(f)
      BY <3>2, <3>3, <3>6, <2>1 DEF Attempted, Accepted
    <3> QED BY <3>2, <3>5, <3>7
  <2>4. CASE kind = "issues"
    <3> DEFINE f == BurpFinding(x, n)
    <3>1. /\ \/ "sql injection" \in x.words
             \/ x.words = {"xss", "reflected"}
          /\ \A i, j \in DOMAIN x.query :
               i < j /\ x.query[j] = x.param
                 => <<x.query[i], x.location>> \notin Within
      BY <2>4 DEF Verifiable
    <3>2. x \in Issues
      BY <2>4 DEF IInv, TypeOK, Items
    <3>3. x.query \in Seq(STRING) /\ <<x.param, x.location>> \in Within
      BY <3>2, <2>1, IntakeAssumption
    <3>4. PICK j \in DOMAIN x.query : x.query[j] = x.param
      BY <2>2 DEF Range
    <3>5. BurpParameter(x) = x.param
      BY <3>1, <3>3, <3>4, BurpParameterFact
    <3>6. /\ f.item = n /\ f.parameter = x.param /\ f.query = x.query /\ f.inQuery
          /\ f.category = BurpCategory(x) /\ f.reflected = BurpReflected(x)
      BY <3>5, <2>1 DEF BurpFinding
    <3>7. /\ BurpCategory(x) \in {"SQLI", "XSS"}
          /\ BurpCategory(x) = "XSS" => BurpReflected(x)
      BY <3>1 DEF BurpCategory, BurpReflected
    <3>8. f \in findings
      BY <2>4 DEF IInv, FindingsParsed, Parsed, BurpFindings
    <3> HIDE DEF f
    <3>9. OccursOnce(f)
      BY <3>6, <2>1 DEF OccursOnce
    <3>10. Attempted(f) /\ Accepted(f)
      BY <3>6, <3>7, <3>9, <2>1 DEF Attempted, Accepted
    <3> QED BY <3>6, <3>8, <3>10
  <2> QED BY <2>3, <2>4 DEF IInv, TypeOK
<1> QED BY InvHolds, <1>1, PTL

=============================================================================
