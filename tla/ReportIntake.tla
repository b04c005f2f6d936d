---------------------------- MODULE ReportIntake ----------------------------
(***************************************************************************)
(* From what was seen of an application to the findings of a scan.  A user *)
(* browses it with a recording browser, loading pages and submitting their *)
(* forms while sessions come and go and scripts send requests of their     *)
(* own; or a scanner reports what it found.  Then the report is uploaded   *)
(* and parsed.                                                             *)
(***************************************************************************)
EXTENDS HarCandidates, ScannerFindings

CONSTANTS
  Pages,        \* the forms of each page of the application
  Calls,        \* what scripts send: method, path, and names in the query
  Alerts,       \* instances of ZAP alerts
  Issues,       \* Burp issues
  MaxEntries,   \* bound on the entries of a capture
  MaxItems,     \* bound on the alerts or issues of a scanner's report
  MaxSessions   \* bound on the sessions of the user

Paths == DOMAIN Pages
FieldNames ==
  UNION {f.names \cup f.buttons \cup f.query : f \in UNION {Range(Pages[p]) : p \in Paths}}

ASSUME IntakeAssumption ==
  /\ \A p \in Paths : Pages[p] \in Seq(FormKinds(Paths, FieldNames))
  /\ \A c \in Calls : c.method \in Methods /\ c.path \in Paths
  /\ \A a \in Alerts : a.plugin \in Plugins /\ a.reflectedByName \in BOOLEAN
  /\ \A b \in Issues : b.words \subseteq Words /\ b.query \in Seq(STRING)
  /\ \A b \in Issues : b.param # NoText => <<b.param, b.location>> \in Within
  /\ Boundary \notin FieldNames
  /\ MaxEntries \in Nat /\ MaxItems \in Nat /\ MaxSessions \in Nat

VARIABLES
  kind, report,      \* the report: HAR entries, ZAP alerts or Burp issues
  cookie,            \* the user's session; none, too, if the name of the
                     \* application's cookie is not a known one
  status, findings,  \* the scan
  submitted          \* history: form submissions in the capture

vars == <<kind, report, cookie, status, findings, submitted>>

Open ==
  status = "UPLOADED" /\ Len(report) < IF kind = "har" THEN MaxEntries ELSE MaxItems

Init ==
  /\ kind \in {"har", "alerts", "issues"} /\ report = <<>>
  /\ cookie = NoSession
  /\ status = "UPLOADED" /\ findings = {}
  /\ submitted = {}

Record(e) == report' = Append(report, e) /\ UNCHANGED <<kind, cookie, status, findings>>

Entry(method, path, query, fields, body, session, forms) ==
  [method |-> method, path |-> path, query |-> query, fields |-> fields,
   body |-> body, session |-> session, forms |-> forms]

\* The user opens a page.
OpenPage(p) ==
  /\ kind = "har" /\ Open
  /\ Record(Entry("GET", p, {}, {}, "none", cookie, Pages[p]))
  /\ UNCHANGED submitted

\* What a browser sends of a form: some of its fields, and the name of the button
\* that submitted it, if it has one.
Sent(f) == {names \cup button : names \in SUBSET f.names,
                               button \in {{}} \cup {{b} : b \in f.buttons}}

\* How a recorder may keep the body of a submission.
Bodies(f) == IF f.multipart THEN {"multipart"} ELSE {"text", "params", "emptyParams"}

\* The user submits form k of entry i with the fields names, and is answered
\* with the page there.  A browser drops the action's query, or the page's own
\* where there is no action, from a GET, and keeps it in a POST.
Submit(i, k, names, body) ==
  LET f == report[i].forms[k]
      path == ActionPath(f, report[i])
      query == IF f.action = "" THEN report[i].query ELSE f.query
  IN /\ kind = "har" /\ Open
     /\ IF f.method = "GET"
        THEN Record(Entry("GET", path, names, {}, "none", cookie, Pages[path]))
        ELSE Record(Entry("POST", path, query, names, body, cookie, Pages[path]))
     /\ submitted' = submitted \cup
          {[source |-> i, form |-> k, item |-> Len(report) + 1, names |-> names]}

\* A script sends a request, with the user's cookies or without.
Call(c, credentials) ==
  /\ kind = "har" /\ Open
  /\ Record(Entry(c.method, c.path, c.query, {}, "none",
                  IF credentials THEN cookie ELSE NoSession, <<>>))
  /\ UNCHANGED submitted

\* The user logs in, or in again.
NewSession ==
  /\ kind = "har" /\ Open /\ cookie < MaxSessions
  /\ cookie' = cookie + 1
  /\ UNCHANGED <<kind, report, status, findings, submitted>>

\* A scanner adds to its report.
Report(items) ==
  /\ Open
  /\ \E x \in items : Record(x)
  /\ UNCHANGED submitted

\* ZapParser.parse takes traffic and alerts, BurpParser.parse issues.
ParsedBy == [har |-> {"ZAP"}, alerts |-> {"ZAP"}, issues |-> {"BURP"}]

Parsed ==
  CASE kind = "har" -> Candidates(report)
    [] kind = "alerts" -> ZapFindings(report)
    [] kind = "issues" -> BurpFindings(report)

\* upload_scan: the scanner named in the form chooses the parser, which raises
\* on another's report.
Upload(scanner) ==
  /\ status = "UPLOADED"
  /\ IF scanner \in ParsedBy[kind]
     THEN status' = "NORMALIZED" /\ findings' = Parsed
     ELSE status' = "FAILED" /\ UNCHANGED findings
  /\ UNCHANGED <<kind, report, cookie, submitted>>

Browse ==
  \/ \E p \in Paths : OpenPage(p)
  \/ kind = "har" /\ \E i \in DOMAIN report : \E k \in DOMAIN report[i].forms :
       \E names \in Sent(report[i].forms[k]), body \in Bodies(report[i].forms[k]) :
         Submit(i, k, names, body)
  \/ \E c \in Calls, credentials \in BOOLEAN : Call(c, credentials)
  \/ NewSession

Scan == (kind = "alerts" /\ Report(Alerts)) \/ (kind = "issues" /\ Report(Issues))

Next == Browse \/ Scan \/ \E scanner \in {"ZAP", "BURP"} : Upload(scanner)

Spec == Init /\ [][Next]_vars

-----------------------------------------------------------------------------
(* Properties. *)

\* What a report consists of.
Names == FieldNames \cup UNION {c.query : c \in Calls}
Entries ==
  [method : Methods, path : Paths, query : SUBSET Names, fields : SUBSET FieldNames,
   body : BodyKinds, session : 0..MaxSessions, forms : {<<>>} \cup Range(Pages)]
Items == [har |-> Entries, alerts |-> Alerts, issues |-> Issues]

TypeOK ==
  /\ kind \in {"har", "alerts", "issues"}
  /\ report \in Seq(Items[kind])
  /\ Len(report) <= IF kind = "har" THEN MaxEntries ELSE MaxItems
  /\ cookie \in 0..MaxSessions
  /\ status \in {"UPLOADED", "NORMALIZED", "FAILED"}
  /\ status # "NORMALIZED" => findings = {}
  /\ \A f \in findings :
       f.category \in {"SQLI", "CSRF", "XSS", "OTHER"} /\ f.item \in DOMAIN report
  /\ \A s \in submitted : s.source < s.item /\ s.item \in DOMAIN report

Captured == kind = "har" /\ status = "NORMALIZED"

FormOf(o) == report[o.source].forms[o.form]
FindingsOf(o) == {c \in findings : c.source = o.source /\ c.form = o.form}

\* A form without a token that the user submitted is reported, with a request
\* that came no later than the submission; what is replayed has fields of the
\* form.  Not so where it was sent by a named <button>, or where a POST form was
\* sent to a URL with a query, which both pass for undeclared fields, nor where
\* the capture kept a multipart text or an empty list of parameters; and the
\* replay is empty where it kept no text at all.
SubmissionReported ==
  Captured => \A s \in submitted :
    LET f == FormOf(s) IN
    /\ ~ f.token /\ s.names # {} /\ s.names \subseteq f.names
    /\ \/ f.method = "GET"
       \/ report[s.item].query = {} /\ report[s.item].body \in {"text", "params"}
    => \E c \in FindingsOf(s) :
         /\ c.item <= s.item
         /\ c.replayed \subseteq f.names \/ report[c.item].body = "emptyParams"
         /\ c.replayed # {} \/ report[c.item].body = "params"

\* A finding is said to need a session when its form was loaded and submitted
\* in one: if the cookie is known, every submission was made in the session of
\* the page and nothing was sent without its cookie meanwhile, it is; if no
\* later request was made in that session, it is not.
SessionFollowsUser ==
  Captured => \A c \in findings :
    LET loaded == report[c.source].session
        later == {report[j].session : j \in (c.source + 1)..Len(report)}
    IN /\ loaded # NoSession /\ later = {loaded} => c.session
       /\ loaded \notin later => ~ c.session

\* What a scanner found in one parameter of a URL is verified in that same
\* parameter: alerts of the two plugins, and issues named for SQL injection or
\* reflected XSS, as long as the parameter has a name and is there once, and no
\* name before it in the query occurs in the issue's location, which Burp's own
\* words are part of.
Verifiable(x) ==
  /\ x.param # NoText
  /\ Cardinality({i \in DOMAIN x.query : x.query[i] = x.param}) = 1
  /\ IF kind = "alerts" THEN x.plugin \in {"40018", "40012"}
     ELSE /\ \/ "sql injection" \in x.words
             \/ x.words = {"xss", "reflected"}
          /\ \A i, j \in DOMAIN x.query :
               i < j /\ x.query[j] = x.param => <<x.query[i], x.location>> \notin Within

ReportedIsTested ==
  kind # "har" /\ status = "NORMALIZED" => \A n \in DOMAIN report :
    Verifiable(report[n]) =>
      \E f \in findings :
        f.item = n /\ f.parameter = report[n].param /\ Attempted(f) /\ Accepted(f)
=============================================================================
