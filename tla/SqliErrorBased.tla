--------------------------- MODULE SqliErrorBased ---------------------------
(***************************************************************************)
(* ERROR_BASED SQLi verification, the one every automatic run gives a SQLi *)
(* finding: three baseline replays with the scanner's payload taken out of *)
(* the parameter, up to five replays of the captured request, and the      *)
(* verdict drawn from the database errors their bodies show.               *)
(***************************************************************************)
EXTENDS Integers, Sequences, FiniteSets

CONSTANTS
  Targets,      \* the targets verified
  Findings,     \* the captured requests verified
  MaxMoods      \* bound on the target's changes of mood

\* The table DATABASE_ERROR_SIGNATURES as far as two errors differ in it: what
\* matches only a complaint about the statement (MYSQL_SYNTAX_001), and what
\* matches any error of the driver (MYSQL_DRIVER_001, MSSQL_DRIVER_001,
\* ORACLE_ERROR_001), that of a failing database too.
Signatures == {"syntax", "driver"}

\* vulnerable: the payload makes the database raise an error that is shown;
\* emptyFails: so does an empty value; complaint: what that error matches;
\* trouble: what is shown of a failing database matches, if anything; pages: how
\* much the page differs from one request to the next; quotes: the pages that
\* quote a database error as their content; lapsed: the status without a session.
TargetKinds ==
  [vulnerable : BOOLEAN, emptyFails : BOOLEAN,
   complaint : SUBSET Signatures, trouble : SUBSET Signatures,
   pages : SUBSET (0..2), quotes : SUBSET (0..2), lapsed : {302, 401, 403, 419}]

\* How often the captured request has the tested parameter, and where the
\* payload is in its value: after the original one, alone, or not in it.
FindingKinds ==
  [occurrences : 0..2, payload : {"appended", "alone", "elsewhere"}]

ASSUME ErrorBasedAssumption ==
  /\ Findings \subseteq FindingKinds
  /\ Targets \subseteq TargetKinds
  /\ \A t \in Targets : t.pages # {} /\ t.complaint # {} /\ (t.emptyFails => t.vulnerable)
  /\ MaxMoods \in Nat

\* SqliReplayProfile of ERROR_BASED.
BaselinePreferred == 3
TrialsMin == 3
AttemptsMax == 5
ReproducedRequired == 2

NoStatus == 0
Statuses == {NoStatus, 200, 302, 401, 403, 419, 429, 500}

\* What the rules tell apart of a body: two application pages are similar when
\* their numbers are adjacent, which is not transitive; LoginPage and ErrorPage
\* are like no other.
LoginPage == 10
ErrorPage == 20

\* The database may be failing, for every request, payload or not.
Moods == {"calm", "throttling", "down", "database"}

VARIABLES
  finding, baselineValue,              \* the request, and its mutation
  target, session, mood, changes,      \* the target
  baseline, trials,                    \* replies, as they came
  verdict,
  provoked,    \* history: trials that made the database complain
  troubled,    \* history: [baseline, trials], replays that met a failing database
  refused      \* history: [baseline, trials], replies that were invalid

targetVars == <<target, session, mood, changes>>
requestVars == <<finding, baselineValue>>
historyVars == <<provoked, troubled, refused>>
vars == <<requestVars, targetVars, baseline, trials, verdict, historyVars>>

-----------------------------------------------------------------------------
(* What the replies show. *)

\* replay_to_response_observation.
Valid(r) == r.status \notin {NoStatus, 401, 403, 419, 429}

Similar(a, b) == a.page - b.page \in {-1, 0, 1}

\* _stable_response_class of the three baseline replies; with three attempts
\* the search for a class among five is never reached.
StableBaseline ==
  /\ \A i \in DOMAIN baseline : Valid(baseline[i])
  /\ \A i, j \in DOMAIN baseline :
       /\ baseline[i].status = baseline[j].status
       /\ Similar(baseline[i], baseline[j])

ValidTrials == {i \in DOMAIN trials : Valid(trials[i])}
Enough == Cardinality(ValidTrials) >= TrialsMin

\* The first three valid trials.
Decision ==
  {i \in ValidTrials : Cardinality({j \in ValidTrials : j <= i}) <= TrialsMin}

\* The trials among these whose body shows the signature.
Showing(signature) == {i \in Decision : signature \in trials[i].errors}

BaselineErrors == UNION {baseline[i].errors : i \in DOMAIN baseline}

\* Variant: two trials with any error at all are enough.
ReproducedAny ==
  Cardinality({i \in Decision : trials[i].errors # {}}) >= ReproducedRequired

\* _reproduced_signature: one and the same, in two of the three trials.
Reproduced ==
  \E s \in Signatures : Cardinality(Showing(s)) >= ReproducedRequired

\* Variant: an error in the baseline only rules out that it is reproduced
\* itself, and not the others.
VerdictOnNewError ==
  IF /\ StableBaseline /\ Enough
     /\ \E s \in Signatures \ BaselineErrors :
          Cardinality(Showing(s)) >= ReproducedRequired
  THEN "TRUE_POSITIVE" ELSE "INCONCLUSIVE"

\* evaluate_error_based_sqli, with the attribution to the parameter taken for
\* granted and none of the explanations a FALSE_POSITIVE would need.
Verdict ==
  IF StableBaseline /\ Enough /\ BaselineErrors = {} /\ Reproduced
  THEN "TRUE_POSITIVE" ELSE "INCONCLUSIVE"

-----------------------------------------------------------------------------
(* The target. *)

Lapsed == session = "lapsed"
Fails == mood = "database" /\ ~ Lapsed

\* The value that reaches the database makes it complain.
Complains(value) ==
  /\ mood = "calm" /\ ~ Lapsed /\ target.vulnerable
  /\ value = "injected" \/ (value = "empty" /\ target.emptyFails)

Replies(value) ==
  CASE mood = "down" -> {[status |-> NoStatus, page |-> ErrorPage, errors |-> {}]}
    [] mood = "throttling" -> {[status |-> 429, page |-> ErrorPage, errors |-> {}]}
    [] Lapsed /\ mood \notin {"down", "throttling"} ->
         {[status |-> target.lapsed, page |-> LoginPage, errors |-> {}]}
    [] Fails ->
         {[status |-> 500, page |-> ErrorPage, errors |-> target.trouble]}
    [] Complains(value) ->
         {[status |-> 500, page |-> ErrorPage, errors |-> target.complaint]}
    [] OTHER ->
         {[status |-> 200, page |-> p,
           errors |-> IF p \in target.quotes THEN {"driver"} ELSE {}] :
            p \in target.pages}

Init ==
  /\ finding \in Findings /\ baselineValue = "none"
  /\ target \in Targets
  /\ session = "live" /\ mood \in Moods /\ changes = 0
  /\ baseline = <<>> /\ trials = <<>>
  /\ verdict = "NONE"
  /\ provoked = {} /\ troubled = [baseline |-> {}, trials |-> {}]
  /\ refused = [baseline |-> 0, trials |-> 0]

SessionLapses ==
  /\ verdict = "NONE" /\ session = "live"
  /\ session' = "lapsed"
  /\ UNCHANGED <<requestVars, target, mood, changes, baseline, trials, verdict,
                 historyVars>>

MoodChanges ==
  /\ verdict = "NONE" /\ changes < MaxMoods
  /\ mood' \in Moods \ {mood}
  /\ changes' = changes + 1
  /\ UNCHANGED <<requestVars, target, session, baseline, trials, verdict,
                 historyVars>>

-----------------------------------------------------------------------------
(* The verification: collect_error_based_replay_evidence, then the rules. *)

\* _derive_baseline_value: the payload is cut out of the value, or the value
\* is cleared when the payload is not in it.
DerivedValue(f) == IF f.payload = "appended" THEN "original" ELSE "empty"

\* build_error_based_replay_requests: the parameter must be in the URL once.
BuildRequests ==
  /\ baselineValue = "none" /\ verdict = "NONE"
  /\ IF finding.occurrences = 1
     THEN baselineValue' = DerivedValue(finding) /\ UNCHANGED verdict
     ELSE verdict' = "ERROR" /\ UNCHANGED baselineValue
  /\ UNCHANGED <<finding, targetVars, baseline, trials, historyVars>>

CountRefused(field, r) ==
  refused' = IF Valid(r) THEN refused ELSE [refused EXCEPT ![field] = @ + 1]

RecordTrouble(field, i) ==
  troubled' = IF Fails THEN [troubled EXCEPT ![field] = @ \cup {i}] ELSE troubled

\* A baseline replay; a refused one is not repeated.
BaselineReplay ==
  /\ baselineValue # "none" /\ Len(baseline) < BaselinePreferred
  /\ \E r \in Replies(baselineValue) :
       /\ baseline' = Append(baseline, r)
       /\ CountRefused("baseline", r)
  /\ RecordTrouble("baseline", Len(baseline) + 1)
  /\ UNCHANGED <<requestVars, targetVars, trials, verdict, provoked>>

\* Variant: three attempts are made, whatever becomes of them.
CollectedWithoutRetry == Len(trials) = TrialsMin

\* Variant: attempts go on until three are valid.
CollectedUnbounded == Enough

Collected == Enough \/ Len(trials) = AttemptsMax

\* A replay of the captured request, until three are valid, five at most.
Trial ==
  /\ Len(baseline) = BaselinePreferred /\ ~ Collected
  /\ \E r \in Replies("injected") :
       /\ trials' = Append(trials, r)
       /\ CountRefused("trials", r)
  /\ provoked' = IF Complains("injected") THEN provoked \cup {Len(trials) + 1}
                                          ELSE provoked
  /\ RecordTrouble("trials", Len(trials) + 1)
  /\ UNCHANGED <<requestVars, targetVars, baseline, verdict>>

Classify ==
  /\ Len(baseline) = BaselinePreferred /\ Collected /\ verdict = "NONE"
  /\ verdict' = Verdict
  /\ UNCHANGED <<requestVars, targetVars, baseline, trials, historyVars>>

Next ==
  \/ BuildRequests \/ BaselineReplay \/ Trial \/ Classify
  \/ SessionLapses \/ MoodChanges

Spec == Init /\ [][Next]_vars

-----------------------------------------------------------------------------
(* Properties. *)

ReplyRecords ==
  [status : Statuses, page : (0..2) \cup {LoginPage, ErrorPage},
   errors : SUBSET Signatures]

TypeOK ==
  /\ finding \in Findings /\ baselineValue \in {"none", "original", "empty"}
  /\ target \in Targets
  /\ session \in {"live", "lapsed"} /\ mood \in Moods /\ changes \in 0..MaxMoods
  /\ baseline \in Seq(ReplyRecords) /\ Len(baseline) <= BaselinePreferred
  /\ trials \in Seq(ReplyRecords) /\ Len(trials) <= AttemptsMax
  /\ verdict \in {"NONE", "TRUE_POSITIVE", "INCONCLUSIVE", "ERROR"}
  /\ provoked \subseteq DOMAIN trials
  /\ troubled \in [baseline : SUBSET (DOMAIN baseline), trials : SUBSET (DOMAIN trials)]
  /\ refused \in [baseline : 0..BaselinePreferred, trials : 0..AttemptsMax]

\* On an application that quotes no errors, a TRUE_POSITIVE means that the
\* payload made the database complain twice, or that the database failed twice:
\* one of each, or a page seen without a session, never adds up to it
\* (_reproduced_signature counts by signature).  Where one signature matches both
\* errors, as those of the drivers do, one of each does.
TruePositiveReproduced ==
  verdict = "TRUE_POSITIVE" /\ target.quotes = {} =>
    IF target.complaint \cap target.trouble = {}
    THEN Cardinality(provoked) >= 2 \/ Cardinality(troubled.trials) >= 2
    ELSE Cardinality(provoked \cup troubled.trials) >= 2

\* An error the application shows without the payload is never put down to the
\* payload: a TRUE_POSITIVE is never given where the parameter was cleared and
\* an empty one fails as well, nor where every page quotes an error, whatever
\* lapses or fails meanwhile (_matches_for_selected_baseline); unless the whole
\* baseline met a failing database of which nothing is shown.
AmbiguousErrorNeverPositive ==
  verdict = "TRUE_POSITIVE" =>
    \/ target.trouble = {} /\ troubled.baseline = DOMAIN baseline
    \/ /\ ~ (target.emptyFails /\ finding.payload # "appended")
       /\ ~ (target.pages \subseteq target.quotes)

\* Two refused trials do not hide a vulnerable application: if its pages are
\* stable, the session lasts and the database holds, the retries of
\* collect_error_based_replay_evidence make up for them; and a parameter that
\* also fails when empty is no obstacle where the payload was appended to its
\* value.  A refused baseline replay is not made up for.
DetectedDespiteRefusals ==
  /\ verdict \notin {"NONE", "ERROR"} /\ ~ Lapsed
  /\ target.vulnerable /\ target.quotes = {}
  /\ finding.payload = "appended" \/ ~ target.emptyFails
  /\ \A p, q \in target.pages : p - q \in {-1, 0, 1}
  /\ refused.baseline = 0
  /\ refused.trials <= AttemptsMax - TrialsMin
  /\ troubled.baseline = {} /\ troubled.trials = {}
  => verdict = "TRUE_POSITIVE"

=============================================================================
