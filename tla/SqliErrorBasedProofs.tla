------------------------ MODULE SqliErrorBasedProofs ------------------------
(***************************************************************************)
(* What an ERROR_BASED verdict may be trusted for, whatever the target and *)
(* its database do between two replays: proofs of TypeOK,                  *)
(* TruePositiveReproduced, AmbiguousErrorNeverPositive and                 *)
(* DetectedDespiteRefusals for every set of targets and findings and any   *)
(* number of changes of mood.                                              *)
(***************************************************************************)
EXTENDS SqliErrorBased, FiniteSetTheorems, TLAPS

\* The steps come in their order: the mutation, the baseline, the trials, the
\* verdict.
InOrder ==
  /\ baselineValue = "none" => baseline = <<>>
  /\ baselineValue # "none" => baselineValue = DerivedValue(finding)
  /\ trials # <<>> => Len(baseline) = BaselinePreferred
  /\ verdict = "ERROR" => baselineValue = "none"
  /\ Cardinality(ValidTrials) <= TrialsMin

\* A verdict is the classifier's on the replies collected.
Classified ==
  verdict \notin {"NONE", "ERROR"} =>
    /\ Len(baseline) = BaselinePreferred
    /\ Collected
    /\ verdict = Verdict

RefusedTrials == {i \in DOMAIN trials : ~ Valid(trials[i])}
RefusedBaseline == {i \in DOMAIN baseline : ~ Valid(baseline[i])}

\* The history counts the replies that were refused, and tells whose the errors
\* are that a trial shows, where nothing is quoted.
HistoryTells ==
  /\ refused.trials = Cardinality(RefusedTrials)
  /\ refused.baseline = Cardinality(RefusedBaseline)
  /\ target.quotes = {} =>
       \A i \in DOMAIN trials : \A s \in trials[i].errors :
         \/ i \in provoked /\ s \in target.complaint
         \/ i \in troubled.trials /\ s \in target.trouble

\* The application shows an error without the payload, in every page or for
\* the empty value it was given.
Ambiguous ==
  \/ target.emptyFails /\ finding.payload # "appended"
  \/ target.pages \subseteq target.quotes

\* An ambiguous application whose database does not fail is silent only once its
\* session has lapsed, which it remains through the trials.
SilentOnceLapsed ==
  Ambiguous /\ (\E i \in DOMAIN baseline \ troubled.baseline :
                  Valid(baseline[i]) /\ baseline[i].errors = {})
  => Lapsed /\ \A j \in DOMAIN trials : trials[j].errors = {}

\* What a failing database shows is in the baseline that met it.
TroubleShown ==
  \A i \in troubled.baseline : baseline[i].errors = target.trouble

\* The baseline of a healthy application is its pages.
CleanBaseline ==
  /\ ~ Lapsed /\ target.quotes = {}
  /\ finding.payload = "appended" \/ ~ target.emptyFails
  => \A i \in DOMAIN baseline \ troubled.baseline :
       Valid(baseline[i])
         => /\ baseline[i].status = 200
            /\ baseline[i].page \in target.pages
            /\ baseline[i].errors = {}

\* A vulnerable application shows the payload's error in every valid trial.
ProvokedTrials ==
  ~ Lapsed /\ target.vulnerable /\ troubled.trials = {}
  => \A i \in ValidTrials : trials[i].errors = target.complaint

IInv ==
  /\ TypeOK
  /\ InOrder
  /\ Classified
  /\ HistoryTells
  /\ SilentOnceLapsed
  /\ TroubleShown
  /\ CleanBaseline
  /\ ProvokedTrials

-----------------------------------------------------------------------------
(* Counting the replies of a kind, as one more is recorded. *)

LEMMA CountFact ==
  ASSUME NEW n \in Nat, NEW A \in SUBSET (1..n)
  PROVE  /\ IsFiniteSet(A)
         /\ Cardinality(A) \in Nat /\ Cardinality(A) \in 0..n
         /\ Cardinality(A \cup {n + 1}) = Cardinality(A) + 1
<1>1. IsFiniteSet(1..n) /\ Cardinality(1..n) = n
  BY FS_Interval
<1>2. IsFiniteSet(A) /\ Cardinality(A) <= n
  BY <1>1, FS_Subset
<1>3. Cardinality(A) \in Nat
  BY <1>2, FS_CardinalityType
<1>4. n + 1 \notin A
  OBVIOUS
<1>5. Cardinality(A \cup {n + 1}) = Cardinality(A) + 1
  BY <1>2, <1>4, FS_AddElement
<1> QED BY <1>2, <1>3, <1>5

\* What another trial does to the sets that are counted.
LEMMA TrialGrows ==
  ASSUME TypeOK, NEW r \in ReplyRecords, trials' = Append(trials, r)
  PROVE  /\ Len(trials') = Len(trials) + 1
         /\ DOMAIN trials = 1..Len(trials)
         /\ DOMAIN trials' = 1..(Len(trials) + 1)
         /\ \A i \in DOMAIN trials : trials'[i] = trials[i]
         /\ trials'[Len(trials) + 1] = r
         /\ RefusedTrials' =
              IF Valid(r) THEN RefusedTrials ELSE RefusedTrials \cup {Len(trials) + 1}
         /\ ValidTrials' =
              IF Valid(r) THEN ValidTrials \cup {Len(trials) + 1} ELSE ValidTrials
<1> DEFINE n == Len(trials)
<1>1. trials \in Seq(ReplyRecords)
  BY DEF TypeOK
<1>2. n \in Nat /\ DOMAIN trials = 1..n /\ Len(trials') = n + 1
  BY <1>1
<1>3. DOMAIN trials' = 1..(n + 1)
  BY <1>1
<1>4. \A i \in 1..n : trials'[i] = trials[i]
  BY <1>1
<1>5. trials'[n + 1] = r
  BY <1>1
<1>6. 1..(n + 1) = (1..n) \cup {n + 1} /\ n + 1 \notin 1..n
  BY <1>2
<1> HIDE DEF n
<1>8. RefusedTrials' =
        IF Valid(r) THEN RefusedTrials ELSE RefusedTrials \cup {n + 1}
  BY <1>2, <1>3, <1>4, <1>5, <1>6 DEF RefusedTrials, Valid
<1>9. ValidTrials' = IF Valid(r) THEN ValidTrials \cup {n + 1} ELSE ValidTrials
  BY <1>2, <1>3, <1>4, <1>5, <1>6 DEF ValidTrials, Valid
<1> QED BY <1>2, <1>3, <1>4, <1>5, <1>8, <1>9 DEF n

\* The same of the baseline.
LEMMA BaselineGrows ==
  ASSUME TypeOK, NEW r \in ReplyRecords, baseline' = Append(baseline, r)
  PROVE  /\ Len(baseline') = Len(baseline) + 1
         /\ DOMAIN baseline = 1..Len(baseline)
         /\ DOMAIN baseline' = 1..(Len(baseline) + 1)
         /\ \A i \in DOMAIN baseline : baseline'[i] = baseline[i]
         /\ baseline'[Len(baseline) + 1] = r
         /\ RefusedBaseline' =
              IF Valid(r) THEN RefusedBaseline
                          ELSE RefusedBaseline \cup {Len(baseline) + 1}
<1> DEFINE n == Len(baseline)
<1>1. baseline \in Seq(ReplyRecords)
  BY DEF TypeOK
<1>2. n \in Nat /\ DOMAIN baseline = 1..n /\ Len(baseline') = n + 1
  BY <1>1
<1>3. DOMAIN baseline' = 1..(n + 1)
  BY <1>1
<1>4. \A i \in 1..n : baseline'[i] = baseline[i]
  BY <1>1
<1>5. baseline'[n + 1] = r
  BY <1>1
<1>6. 1..(n + 1) = (1..n) \cup {n + 1} /\ n + 1 \notin 1..n
  BY <1>2
<1> HIDE DEF n
<1>7. RefusedBaseline' =
        IF Valid(r) THEN RefusedBaseline ELSE RefusedBaseline \cup {n + 1}
  BY <1>2, <1>3, <1>4, <1>5, <1>6 DEF RefusedBaseline, Valid
<1> QED BY <1>2, <1>3, <1>4, <1>5, <1>7 DEF n

-----------------------------------------------------------------------------
(* What a reply tells of the target. *)

LEMMA RepliesByCase ==
  ASSUME TypeOK, NEW value
  PROVE  /\ mood = "down" =>
              Replies(value) = {[status |-> 0, page |-> ErrorPage, errors |-> {}]}
         /\ mood = "throttling" =>
              Replies(value) = {[status |-> 429, page |-> ErrorPage, errors |-> {}]}
         /\ mood \in {"calm", "database"} /\ Lapsed =>
              Replies(value) =
                {[status |-> target.lapsed, page |-> LoginPage, errors |-> {}]}
         /\ Fails =>
              Replies(value) =
                {[status |-> 500, page |-> ErrorPage, errors |-> target.trouble]}
         /\ Complains(value) =>
              Replies(value) =
                {[status |-> 500, page |-> ErrorPage, errors |-> target.complaint]}
         /\ mood = "calm" /\ ~ Lapsed /\ ~ Complains(value) =>
              Replies(value) =
                {[status |-> 200, page |-> p,
                  errors |-> IF p \in target.quotes THEN {"driver"} ELSE {}] :
                   p \in target.pages}
<1> USE DEF Replies, Fails, Complains, NoStatus
<1>1. CASE mood = "down"
  BY <1>1
<1>2. CASE mood = "throttling"
  BY <1>2
<1>3. CASE mood = "calm" /\ Lapsed
  BY <1>3
<1>4. CASE mood = "database" /\ Lapsed
  BY <1>4
<1>5. CASE mood = "database" /\ ~ Lapsed
  BY <1>5
<1>6. CASE mood = "calm" /\ ~ Lapsed /\ Complains(value)
  BY <1>6
<1>7. CASE mood = "calm" /\ ~ Lapsed /\ ~ Complains(value)
  BY <1>7
<1>8. mood \in {"calm", "throttling", "down", "database"}
  BY DEF TypeOK, Moods
<1> QED BY <1>1, <1>2, <1>3, <1>4, <1>5, <1>6, <1>7, <1>8

\* Which of these it is.
LEMMA Cases ==
  ASSUME TypeOK, NEW value
  PROVE  \/ mood \in {"down", "throttling"} /\ ~ Fails /\ ~ Complains(value)
         \/ mood \in {"calm", "database"} /\ Lapsed /\ ~ Fails /\ ~ Complains(value)
         \/ mood = "database" /\ ~ Lapsed /\ Fails /\ ~ Complains(value)
         \/ mood = "calm" /\ ~ Lapsed /\ ~ Fails /\ Complains(value)
         \/ mood = "calm" /\ ~ Lapsed /\ ~ Fails /\ ~ Complains(value)
BY DEF TypeOK, Moods, Fails, Complains

\* A reply is a record of the kinds listed, and which errors it shows has a
\* reason.
LEMMA ReplyFact ==
  ASSUME ErrorBasedAssumption, TypeOK, NEW value, NEW r \in Replies(value)
  PROVE  /\ r \in ReplyRecords
         /\ Valid(r) => mood \in {"calm", "database"}
         /\ Complains(value) => r.errors = target.complaint
         /\ Fails => r.errors = target.trouble
         /\ target.quotes = {} /\ ~ Complains(value) /\ ~ Fails => r.errors = {}
         /\ Lapsed => r.errors = {} /\ ~ Fails
         /\ ~ (Fails /\ Complains(value))
         /\ Valid(r) /\ ~ Lapsed /\ ~ Fails /\ ~ Complains(value)
              => /\ r.status = 200 /\ r.page \in target.pages
                 /\ r.page \in target.quotes => "driver" \in r.errors
                 /\ target.quotes = {} => r.errors = {}
<1>1. /\ target.pages \subseteq 0..2
      /\ target.lapsed \in {302, 401, 403, 419}
      /\ target.complaint \in SUBSET Signatures /\ target.trouble \in SUBSET Signatures
  BY DEF TypeOK, ErrorBasedAssumption, TargetKinds
<1>2. \A st \in Statuses, p \in (0..2) \cup {LoginPage, ErrorPage},
         e \in SUBSET Signatures :
        [status |-> st, page |-> p, errors |-> e] \in ReplyRecords
  BY DEF ReplyRecords
<1>3. CASE mood \in {"down", "throttling"}
  <2>1. PICK st \in {0, 429} :
          r = [status |-> st, page |-> ErrorPage, errors |-> {}]
    BY <1>3, RepliesByCase
  <2>2. r \in ReplyRecords
    BY <2>1, <1>2 DEF Statuses, NoStatus
  <2> QED BY <1>3, <2>1, <2>2, Cases DEF Valid, NoStatus
<1>4. CASE mood \in {"calm", "database"} /\ Lapsed
  <2>1. r = [status |-> target.lapsed, page |-> LoginPage, errors |-> {}]
    BY <1>4, RepliesByCase
  <2>2. r \in ReplyRecords
    BY <2>1, <1>1, <1>2 DEF Statuses
  <2> QED BY <1>4, <2>1, <2>2, Cases
<1>5. CASE mood = "database" /\ ~ Lapsed /\ Fails
  <2>1. r = [status |-> 500, page |-> ErrorPage, errors |-> target.trouble]
    BY <1>5, RepliesByCase
  <2>2. r \in ReplyRecords
    BY <2>1, <1>1, <1>2 DEF Statuses
  <2> QED BY <1>5, <2>1, <2>2, Cases
<1>6. CASE mood = "calm" /\ ~ Lapsed /\ Complains(value)
  <2>1. r = [status |-> 500, page |-> ErrorPage, errors |-> target.complaint]
    BY <1>6, RepliesByCase
  <2>2. r \in ReplyRecords
    BY <2>1, <1>1, <1>2 DEF Statuses
  <2> QED BY <1>6, <2>1, <2>2, Cases
<1>7. CASE mood = "calm" /\ ~ Lapsed /\ ~ Complains(value)
  <2>1. PICK p \in target.pages :
          r = [status |-> 200, page |-> p,
               errors |-> IF p \in target.quotes THEN {"driver"} ELSE {}]
    BY <1>7, RepliesByCase
  <2>2. r \in ReplyRecords
    BY <2>1, <1>1, <1>2 DEF Statuses, Signatures
  <2> QED BY <1>7, <2>1, <2>2, Cases
<1> QED BY <1>3, <1>4, <1>5, <1>6, <1>7, Cases

-----------------------------------------------------------------------------
(* The steps. *)

LEMMA InitHolds == ErrorBasedAssumption /\ Init => IInv
<1> SUFFICES ASSUME ErrorBasedAssumption, Init PROVE IInv
  OBVIOUS
<1>1. TypeOK
  BY DEF TypeOK, Init, ErrorBasedAssumption, AttemptsMax, BaselinePreferred
<1>2. /\ DOMAIN trials = {} /\ DOMAIN baseline = {}
      /\ Len(trials) = 0
  BY DEF Init
<1>3. /\ ValidTrials = {} /\ RefusedTrials = {} /\ RefusedBaseline = {}
  BY <1>2 DEF ValidTrials, RefusedTrials, RefusedBaseline
<1>4. Cardinality({}) = 0
  BY FS_EmptySet
<1>5. InOrder
  BY <1>3, <1>4 DEF InOrder, Init, TrialsMin
<1>6. HistoryTells
  <2>1. refused.trials = 0 /\ refused.baseline = 0
    BY DEF Init
  <2> QED BY <1>2, <1>3, <1>4, <2>1 DEF HistoryTells
<1>7. Classified
  BY DEF Classified, Init
<1>8. SilentOnceLapsed /\ TroubleShown /\ CleanBaseline /\ ProvokedTrials
  BY <1>2, <1>3 DEF Init, SilentOnceLapsed, TroubleShown, CleanBaseline, ProvokedTrials
<1> QED BY <1>1, <1>5, <1>6, <1>7, <1>8 DEF IInv

\* A session only ever lapses, and the target stays what it is; replies and
\* history do not change with the mood.
LEMMA TargetStep ==
  ASSUME ErrorBasedAssumption, IInv, SessionLapses \/ MoodChanges
  PROVE  IInv'
<1> USE DEF IInv
<1>1. /\ verdict = "NONE"
      /\ UNCHANGED <<requestVars, target, baseline, trials, verdict, historyVars>>
      /\ Lapsed => Lapsed'
  BY DEF SessionLapses, MoodChanges, Lapsed, requestVars, historyVars
<1>2. TypeOK'
  <2>1. CASE SessionLapses
    BY <2>1 DEF TypeOK, SessionLapses, requestVars, historyVars
  <2>2. CASE MoodChanges
    BY <2>2 DEF TypeOK, MoodChanges, requestVars, historyVars, ErrorBasedAssumption
  <2> QED BY <2>1, <2>2
<1>3. /\ ValidTrials' = ValidTrials /\ RefusedTrials' = RefusedTrials
      /\ RefusedBaseline' = RefusedBaseline
  BY <1>1 DEF ValidTrials, RefusedTrials, RefusedBaseline, Valid
<1>4. InOrder'
  BY <1>1, <1>3 DEF InOrder, DerivedValue, requestVars
<1>5. Classified'
  BY <1>1 DEF Classified
<1>6. HistoryTells'
  BY <1>1, <1>3 DEF HistoryTells, historyVars
<1>7. SilentOnceLapsed' /\ TroubleShown'
  BY <1>1 DEF SilentOnceLapsed, TroubleShown, Ambiguous, requestVars, historyVars, Valid
<1>8. CleanBaseline' /\ ProvokedTrials'
  BY <1>1, <1>3 DEF CleanBaseline, ProvokedTrials, requestVars, historyVars, Valid
<1> QED BY <1>2, <1>4, <1>5, <1>6, <1>7, <1>8

\* The mutation touches neither replies nor target.
LEMMA BuildStep ==
  ASSUME ErrorBasedAssumption, IInv, BuildRequests
  PROVE  IInv'
<1> USE DEF IInv
<1>1. /\ baselineValue = "none" /\ verdict = "NONE"
      /\ verdict' \in {"NONE", "ERROR"}
      /\ baselineValue' \in {"none", DerivedValue(finding)}
      /\ verdict' = "ERROR" => baselineValue' = "none"
      /\ UNCHANGED <<finding, targetVars, baseline, trials, historyVars>>
  BY DEF BuildRequests
<1>2. TypeOK'
  BY <1>1 DEF TypeOK, DerivedValue, targetVars, historyVars
<1>3. /\ ValidTrials' = ValidTrials /\ RefusedTrials' = RefusedTrials
      /\ RefusedBaseline' = RefusedBaseline
  BY <1>1 DEF ValidTrials, RefusedTrials, RefusedBaseline, Valid
<1>4. InOrder'
  BY <1>1, <1>3 DEF InOrder, DerivedValue
<1>5. Classified'
  BY <1>1 DEF Classified
<1>6. HistoryTells'
  BY <1>1, <1>3 DEF HistoryTells, historyVars, targetVars
<1>7. SilentOnceLapsed' /\ TroubleShown'
  BY <1>1 DEF SilentOnceLapsed, TroubleShown, Ambiguous, Lapsed, targetVars, historyVars,
     Valid
<1>8. CleanBaseline' /\ ProvokedTrials'
  BY <1>1, <1>3 DEF CleanBaseline, ProvokedTrials, Lapsed, targetVars,
     historyVars, Valid
<1> QED BY <1>2, <1>4, <1>5, <1>6, <1>7, <1>8

\* The verdict is drawn once, from what was collected.
LEMMA ClassifyStep ==
  ASSUME ErrorBasedAssumption, IInv, Classify
  PROVE  IInv'
<1> USE DEF IInv
<1>1. /\ Len(baseline) = BaselinePreferred /\ Collected /\ verdict = "NONE"
      /\ verdict' = Verdict /\ Verdict \in {"TRUE_POSITIVE", "INCONCLUSIVE"}
      /\ UNCHANGED <<requestVars, targetVars, baseline, trials, historyVars>>
  BY DEF Classify, Verdict
<1>2. TypeOK'
  BY <1>1 DEF TypeOK, requestVars, targetVars, historyVars
<1>3. /\ ValidTrials' = ValidTrials /\ RefusedTrials' = RefusedTrials
      /\ RefusedBaseline' = RefusedBaseline
  BY <1>1 DEF ValidTrials, RefusedTrials, RefusedBaseline, Valid
<1>4. InOrder'
  BY <1>1, <1>3 DEF InOrder, DerivedValue, requestVars
<1>5. Collected' = Collected /\ Verdict' = Verdict
  BY <1>1 DEF Collected, Enough, Verdict, StableBaseline, Similar, Valid,
     BaselineErrors, Reproduced, Showing, Decision, ValidTrials
<1>6. Classified'
  BY <1>1, <1>5 DEF Classified
<1>7. HistoryTells'
  BY <1>1, <1>3 DEF HistoryTells, historyVars, targetVars
<1>8. SilentOnceLapsed' /\ TroubleShown'
  BY <1>1 DEF SilentOnceLapsed, TroubleShown, Ambiguous, Lapsed, targetVars, requestVars,
     historyVars, Valid
<1>9. CleanBaseline' /\ ProvokedTrials'
  BY <1>1, <1>3 DEF CleanBaseline, ProvokedTrials, Lapsed, targetVars,
     requestVars, historyVars, Valid
<1> QED BY <1>2, <1>4, <1>6, <1>7, <1>8, <1>9

\* Another baseline reply is explained by the target.
LEMMA BaselineStep ==
  ASSUME ErrorBasedAssumption, IInv, BaselineReplay
  PROVE  IInv'
<1> USE DEF IInv
<1> DEFINE n == Len(baseline)
<1>1. /\ baselineValue # "none" /\ n < BaselinePreferred
      /\ UNCHANGED <<requestVars, targetVars, trials, verdict, provoked>>
      /\ RecordTrouble("baseline", n + 1)
  BY DEF BaselineReplay
<1>2. PICK r \in Replies(baselineValue) :
        baseline' = Append(baseline, r) /\ CountRefused("baseline", r)
  BY DEF BaselineReplay
<1>3. r \in ReplyRecords
  BY ReplyFact
<1>4. /\ n \in Nat /\ n' = n + 1
      /\ DOMAIN baseline = 1..n /\ DOMAIN baseline' = 1..(n + 1)
      /\ \A i \in 1..n : baseline'[i] = baseline[i]
      /\ baseline'[n + 1] = r
      /\ RefusedBaseline' = IF Valid(r) THEN RefusedBaseline
                                        ELSE RefusedBaseline \cup {n + 1}
  BY <1>2, <1>3, BaselineGrows DEF TypeOK
<1> HIDE DEF n
<1>5. /\ trials = <<>> /\ verdict \in {"NONE", "ERROR"}
      /\ verdict # "ERROR"
  BY <1>1 DEF InOrder, Classified, n
<1>6. /\ RefusedBaseline \in SUBSET (1..n)
      /\ Cardinality(RefusedBaseline) \in 0..n
      /\ Cardinality(RefusedBaseline') =
           IF Valid(r) THEN Cardinality(RefusedBaseline)
                       ELSE Cardinality(RefusedBaseline) + 1
  <2>1. RefusedBaseline \in SUBSET (1..n)
    BY <1>4 DEF RefusedBaseline
  <2> QED BY <2>1, <1>4, CountFact
<1>7. /\ refused' = [refused EXCEPT !.baseline = Cardinality(RefusedBaseline')]
      /\ refused'.trials = refused.trials
  BY <1>2, <1>6 DEF CountRefused, HistoryTells, TypeOK
<1>7a. /\ troubled'.trials = troubled.trials
       /\ troubled'.baseline = IF Fails THEN troubled.baseline \cup {n + 1}
                                        ELSE troubled.baseline
       /\ troubled.baseline \subseteq 1..n
       /\ troubled' = [baseline |-> troubled'.baseline, trials |-> troubled.trials]
  BY <1>1, <1>4 DEF RecordTrouble, TypeOK
<1>8. TypeOK'
  <2>1. baseline' \in Seq(ReplyRecords) /\ Len(baseline') <= BaselinePreferred
    BY <1>1, <1>2, <1>3, <1>4 DEF TypeOK, BaselinePreferred, n
  <2>2. refused' \in [baseline : 0..BaselinePreferred, trials : 0..AttemptsMax]
    BY <1>1, <1>6, <1>7 DEF TypeOK, BaselinePreferred, n
  <2>3. troubled' \in [baseline : SUBSET (DOMAIN baseline'),
                       trials : SUBSET (DOMAIN trials')]
    <3>1. troubled'.baseline \subseteq DOMAIN baseline'
      BY <1>4, <1>7a
    <3>2. troubled.trials \subseteq DOMAIN trials'
      BY <1>1 DEF TypeOK
    <3> QED BY <1>7a, <3>1, <3>2
  <2> QED BY <1>1, <2>1, <2>2, <2>3 DEF TypeOK, requestVars, targetVars
<1>9. /\ ValidTrials' = ValidTrials /\ RefusedTrials' = RefusedTrials
  BY <1>1 DEF ValidTrials, RefusedTrials, Valid
<1>10. InOrder'
  BY <1>1, <1>5, <1>9 DEF InOrder, DerivedValue, requestVars
<1>11. Classified'
  BY <1>1, <1>5 DEF Classified
<1>12. HistoryTells'
  <2>1. refused'.baseline = Cardinality(RefusedBaseline')
    BY <1>7 DEF TypeOK
  <2> QED BY <1>1, <1>5, <1>7, <1>9, <2>1 DEF HistoryTells, targetVars
<1>13. DOMAIN trials' = {}
  BY <1>1, <1>5
<1>14. SilentOnceLapsed'
  <2> SUFFICES ASSUME Ambiguous, NEW i \in DOMAIN baseline' \ troubled'.baseline,
                      Valid(baseline'[i]), baseline'[i].errors = {}
               PROVE  Lapsed
    BY <1>1, <1>13 DEF SilentOnceLapsed, Ambiguous, Lapsed, Valid, targetVars, requestVars
  <2>1. CASE i \in 1..n
    BY <2>1, <1>4, <1>7a DEF SilentOnceLapsed
  <2>2. CASE i = n + 1
    <3>1. Valid(r) /\ r.errors = {}
      BY <2>2, <1>4
    <3>2. baselineValue = DerivedValue(finding)
      BY <1>1 DEF InOrder
    <3> SUFFICES ASSUME ~ Lapsed PROVE FALSE
      OBVIOUS
    <3>3. ~ Fails /\ ~ Complains(baselineValue)
      BY <2>2, <3>1, <1>7a, ReplyFact DEF TypeOK, ErrorBasedAssumption
    <3>4. r.page \in target.pages /\ r.page \notin target.quotes
      BY <3>1, <3>3, ReplyFact
    <3>5. target.emptyFails /\ finding.payload # "appended"
      BY <3>4 DEF Ambiguous
    <3>6. baselineValue = "empty" /\ target.vulnerable
      BY <3>2, <3>5 DEF DerivedValue, TypeOK, ErrorBasedAssumption
    <3>7. mood = "calm"
      BY <3>1, <3>3, ReplyFact DEF Fails
    <3> QED BY <3>3, <3>5, <3>6, <3>7 DEF Complains
  <2> QED BY <2>1, <2>2, <1>4
<1>15. CleanBaseline'
  <2> SUFFICES ASSUME ~ Lapsed, target.quotes = {},
                      finding.payload = "appended" \/ ~ target.emptyFails,
                      NEW i \in DOMAIN baseline' \ troubled'.baseline,
                      Valid(baseline'[i])
               PROVE  /\ baseline'[i].status = 200
                      /\ baseline'[i].page \in target.pages
                      /\ baseline'[i].errors = {}
    BY <1>1 DEF CleanBaseline, Lapsed, Valid, targetVars, requestVars
  <2>1. CASE i \in 1..n
    BY <2>1, <1>4, <1>7a DEF CleanBaseline
  <2>2. CASE i = n + 1
    <3>1. Valid(r)
      BY <2>2, <1>4
    <3>2. baselineValue = DerivedValue(finding)
      BY <1>1 DEF InOrder
    <3>3. ~ Fails
      BY <2>2, <1>7a
    <3>4. ~ Complains(baselineValue)
      BY <3>2 DEF DerivedValue, Complains
    <3> QED BY <2>2, <1>4, <3>1, <3>3, <3>4, ReplyFact
  <2> QED BY <2>1, <2>2, <1>4
<1>16. ProvokedTrials'
  BY <1>9, <1>13 DEF ProvokedTrials, ValidTrials
<1>17. TroubleShown'
  BY <1>1, <1>4, <1>7a, ReplyFact DEF TroubleShown, targetVars
<1> QED BY <1>8, <1>10, <1>11, <1>12, <1>14, <1>15, <1>16, <1>17

\* Another trial is counted, and explained by the target.
LEMMA TrialStep ==
  ASSUME ErrorBasedAssumption, IInv, Trial
  PROVE  IInv'
<1> USE DEF IInv
<1> DEFINE n == Len(trials)
<1>1. /\ Len(baseline) = BaselinePreferred /\ ~ Enough /\ n # AttemptsMax
      /\ provoked' = IF Complains("injected") THEN provoked \cup {n + 1} ELSE provoked
      /\ RecordTrouble("trials", n + 1)
      /\ UNCHANGED <<requestVars, targetVars, baseline, verdict>>
  BY DEF Trial, Collected
<1>2. PICK r \in Replies("injected") :
        trials' = Append(trials, r) /\ CountRefused("trials", r)
  BY DEF Trial
<1>3. r \in ReplyRecords
  BY ReplyFact
<1>4. /\ n \in Nat /\ n' = n + 1
      /\ DOMAIN trials = 1..n /\ DOMAIN trials' = 1..(n + 1)
      /\ \A i \in 1..n : trials'[i] = trials[i]
      /\ trials'[n + 1] = r
  BY <1>2, <1>3, TrialGrows DEF TypeOK
<1>5. /\ troubled'.baseline = troubled.baseline
      /\ troubled'.trials = IF Fails THEN troubled.trials \cup {n + 1}
                                     ELSE troubled.trials
      /\ troubled' = [baseline |-> troubled.baseline, trials |-> troubled'.trials]
      /\ troubled.trials \subseteq 1..n /\ provoked \subseteq 1..n
  BY <1>1, <1>4 DEF RecordTrouble, TypeOK
<1>6. /\ RefusedTrials' = IF Valid(r) THEN RefusedTrials
                                      ELSE RefusedTrials \cup {n + 1}
      /\ ValidTrials' = IF Valid(r) THEN ValidTrials \cup {n + 1} ELSE ValidTrials
  BY <1>2, <1>3, TrialGrows
<1>7. n < AttemptsMax
  BY <1>1, <1>4 DEF TypeOK, AttemptsMax
<1> HIDE DEF n
<1>8. verdict = "NONE"
  BY <1>1 DEF Classified, InOrder, Collected, n, BaselinePreferred
<1>10. /\ Cardinality(RefusedTrials) \in 0..n
       /\ Cardinality(RefusedTrials') =
            IF Valid(r) THEN Cardinality(RefusedTrials)
                        ELSE Cardinality(RefusedTrials) + 1
  <2>1. RefusedTrials \in SUBSET (1..n)
    BY <1>4 DEF RefusedTrials
  <2> QED BY <2>1, <1>4, <1>6, CountFact
<1>11. Cardinality(ValidTrials') <= TrialsMin
  <2>1. ValidTrials \in SUBSET (1..n)
    BY <1>4 DEF ValidTrials
  <2>2. /\ Cardinality(ValidTrials) \in 0..n
        /\ Cardinality(ValidTrials \cup {n + 1}) = Cardinality(ValidTrials) + 1
    BY <2>1, <1>4, CountFact
  <2> QED BY <2>2, <1>1, <1>4, <1>6 DEF Enough, TrialsMin
<1>12. /\ refused' = [refused EXCEPT !.trials = Cardinality(RefusedTrials')]
       /\ refused'.baseline = refused.baseline
  BY <1>2, <1>10 DEF CountRefused, HistoryTells, TypeOK
<1>15. TypeOK'
  <2>1. trials' \in Seq(ReplyRecords) /\ Len(trials') <= AttemptsMax
    BY <1>2, <1>3, <1>4, <1>7 DEF TypeOK, AttemptsMax, n
  <2>2. refused' \in [baseline : 0..BaselinePreferred, trials : 0..AttemptsMax]
    BY <1>4, <1>7, <1>10, <1>12 DEF TypeOK, AttemptsMax
  <2>3. /\ provoked' \subseteq DOMAIN trials'
        /\ troubled' \in [baseline : SUBSET (DOMAIN baseline'),
                         trials : SUBSET (DOMAIN trials')]
    <3>1. provoked' \subseteq DOMAIN trials' /\ troubled'.trials \subseteq DOMAIN trials'
      BY <1>1, <1>4, <1>5
    <3>2. troubled.baseline \subseteq DOMAIN baseline'
      BY <1>1 DEF TypeOK
    <3> QED BY <1>5, <3>1, <3>2
  <2> QED BY <1>1, <2>1, <2>2, <2>3 DEF TypeOK, requestVars, targetVars
<1>16. InOrder'
  BY <1>1, <1>11 DEF InOrder, DerivedValue, requestVars
<1>17. Classified'
  BY <1>1, <1>8 DEF Classified
<1>18. HistoryTells'
  <2>1. refused'.trials = Cardinality(RefusedTrials')
    BY <1>12 DEF TypeOK
  <2>2. RefusedBaseline' = RefusedBaseline
    BY <1>1 DEF RefusedBaseline, Valid
  <2>3. ASSUME target.quotes = {}, NEW i \in DOMAIN trials', NEW s \in trials'[i].errors
        PROVE  \/ i \in provoked' /\ s \in target.complaint
               \/ i \in troubled'.trials /\ s \in target.trouble
    <3>1. CASE i \in 1..n
      BY <2>3, <3>1, <1>1, <1>4, <1>5 DEF HistoryTells
    <3>2. CASE i = n + 1
      <4>1. s \in r.errors
        BY <3>2, <1>4
      <4>2. CASE Complains("injected")
        BY <4>1, <4>2, <3>2, <1>1, ReplyFact
      <4>3. CASE Fails
        BY <4>1, <4>3, <3>2, <1>5, ReplyFact
      <4> QED BY <2>3, <4>1, <4>2, <4>3, ReplyFact
    <3> QED BY <3>1, <3>2, <1>4
  <2> QED BY <1>1, <1>12, <2>1, <2>2, <2>3 DEF HistoryTells, targetVars
<1>19. SilentOnceLapsed'
  <2> SUFFICES ASSUME Ambiguous, NEW i \in DOMAIN baseline \ troubled.baseline,
                      Valid(baseline[i]), baseline[i].errors = {}
               PROVE  Lapsed /\ \A j \in DOMAIN trials' : trials'[j].errors = {}
    BY <1>1, <1>5 DEF SilentOnceLapsed, Ambiguous, Lapsed, Valid, targetVars, requestVars
  <2>1. Lapsed /\ \A j \in DOMAIN trials : trials[j].errors = {}
    BY DEF SilentOnceLapsed
  <2>2. r.errors = {}
    BY <2>1, ReplyFact
  <2> QED BY <2>1, <2>2, <1>4
<1>20. CleanBaseline' /\ TroubleShown'
  BY <1>1, <1>5 DEF CleanBaseline, TroubleShown, Lapsed, Valid, targetVars, requestVars
<1>21. ProvokedTrials'
  <2> SUFFICES ASSUME ~ Lapsed, target.vulnerable, troubled'.trials = {},
                      NEW i \in ValidTrials'
               PROVE  trials'[i].errors = target.complaint
    BY <1>1 DEF ProvokedTrials, Lapsed, targetVars
  <2>1. ~ Fails /\ troubled.trials = {}
    BY <1>5
  <2>2. CASE i \in ValidTrials
    BY <2>1, <2>2, <1>4 DEF ProvokedTrials, ValidTrials
  <2>3. CASE i = n + 1 /\ Valid(r)
    <3>1. mood = "calm"
      BY <2>1, <2>3, ReplyFact DEF Fails
    <3>2. Complains("injected")
      BY <3>1 DEF Complains
    <3> QED BY <2>3, <3>2, <1>4, ReplyFact
  <2> QED BY <2>2, <2>3, <1>6
<1> QED BY <1>15, <1>16, <1>17, <1>18, <1>19, <1>20, <1>21

LEMMA StepHolds == ErrorBasedAssumption /\ IInv /\ [Next]_vars => IInv'
<1> SUFFICES ASSUME ErrorBasedAssumption, IInv, [Next]_vars PROVE IInv'
  OBVIOUS
<1>1. CASE BuildRequests
  BY <1>1, BuildStep
<1>2. CASE BaselineReplay
  BY <1>2, BaselineStep
<1>3. CASE Trial
  BY <1>3, TrialStep
<1>4. CASE Classify
  BY <1>4, ClassifyStep
<1>5. CASE SessionLapses \/ MoodChanges
  BY <1>5, TargetStep
<1>6. CASE UNCHANGED vars
  <2> USE DEF IInv
  <2>1. UNCHANGED <<finding, baselineValue, target, session, mood, changes,
                    baseline, trials, verdict, provoked, troubled, refused>>
    BY <1>6 DEF vars, requestVars, targetVars, historyVars
  <2>2. /\ ValidTrials' = ValidTrials /\ RefusedTrials' = RefusedTrials
        /\ RefusedBaseline' = RefusedBaseline
    BY <2>1 DEF ValidTrials, RefusedTrials, RefusedBaseline, Valid
  <2>3. TypeOK'
    BY <2>1 DEF TypeOK
  <2>4. InOrder' /\ HistoryTells'
    BY <2>1, <2>2 DEF InOrder, DerivedValue, HistoryTells
  <2>5. Collected' = Collected /\ Verdict' = Verdict
    BY <2>1 DEF Collected, Enough, Verdict, StableBaseline, Similar, Valid,
       BaselineErrors, Reproduced, Showing, Decision, ValidTrials
  <2>6. Classified'
    BY <2>1, <2>5 DEF Classified
  <2>7. SilentOnceLapsed' /\ TroubleShown'
    BY <2>1 DEF SilentOnceLapsed, TroubleShown, Ambiguous, Lapsed, Valid
  <2>8. CleanBaseline' /\ ProvokedTrials'
    BY <2>1, <2>2 DEF CleanBaseline, ProvokedTrials, Lapsed, Valid
  <2> QED BY <2>3, <2>4, <2>6, <2>7, <2>8
<1> QED BY <1>1, <1>2, <1>3, <1>4, <1>5, <1>6 DEF Next

LEMMA Invariant == Spec => []IInv
<1>1. Init => IInv
  BY InitHolds, ErrorBasedAssumption
<1>2. IInv /\ [Next]_vars => IInv'
  BY StepHolds, ErrorBasedAssumption
<1> QED BY <1>1, <1>2, PTL DEF Spec

-----------------------------------------------------------------------------
(* The theorems. *)

\* Every reply, verdict and counter of an ERROR_BASED verification is of its
\* type: a baseline of three replies at most, and five trials at most.
THEOREM ErrorTypeCorrect == Spec => []TypeOK
<1>1. IInv => TypeOK
  BY DEF IInv
<1> QED BY <1>1, Invariant, PTL

\* What the verdict looks at are trials that were made, and where nothing is
\* quoted, the error of each is the payload's or that of a failing database.
LEMMA DecisionFact ==
  ASSUME IInv, target.quotes = {}, NEW s,
         NEW A \in SUBSET (DOMAIN trials), Cardinality(Showing(s)) >= 2,
         s \in target.complaint => provoked \subseteq A,
         s \in target.trouble => troubled.trials \subseteq A
  PROVE  Cardinality(A) >= 2
<1>1. Showing(s) \in SUBSET A
  BY DEF Showing, Decision, ValidTrials, IInv, HistoryTells
<1>2. Len(trials) \in Nat /\ A \in SUBSET (1..Len(trials))
  BY DEF IInv, TypeOK
<1>3. IsFiniteSet(A) /\ Cardinality(A) \in Nat
  BY <1>2, CountFact
<1>4. IsFiniteSet(Showing(s)) /\ Cardinality(Showing(s)) <= Cardinality(A)
  BY <1>1, <1>3, FS_Subset
<1>5. Cardinality(Showing(s)) \in Nat
  BY <1>4, FS_CardinalityType
<1> QED BY <1>3, <1>4, <1>5

\* On an application that quotes no errors, a TRUE_POSITIVE rests on two trials
\* whose payload made the database complain, or on two that met a failing one:
\* _reproduced_signature counts by signature, so that a page seen without a
\* session never adds up to it, and one of each only where a signature of the
\* table matches both.
THEOREM ErrorReproduced == Spec => []TruePositiveReproduced
<1>1. IInv => TruePositiveReproduced
  <2> SUFFICES ASSUME IInv, verdict = "TRUE_POSITIVE", target.quotes = {}
               PROVE  IF target.complaint \cap target.trouble = {}
                      THEN Cardinality(provoked) >= 2
                             \/ Cardinality(troubled.trials) >= 2
                      ELSE Cardinality(provoked \cup troubled.trials) >= 2
    BY DEF TruePositiveReproduced
  <2>1. PICK s \in Signatures : Cardinality(Showing(s)) >= 2
    BY DEF IInv, Classified, Verdict, Reproduced, ReproducedRequired
  <2>2. provoked \in SUBSET (DOMAIN trials) /\ troubled.trials \in SUBSET (DOMAIN trials)
    BY DEF IInv, TypeOK
  <2>3. Cardinality(provoked \cup troubled.trials) >= 2
    BY <2>1, <2>2, DecisionFact
  <2>4. s \notin target.trouble => Cardinality(provoked) >= 2
    BY <2>1, <2>2, DecisionFact
  <2>5. s \notin target.complaint => Cardinality(troubled.trials) >= 2
    BY <2>1, <2>2, DecisionFact
  <2> QED BY <2>3, <2>4, <2>5
<1> QED BY <1>1, Invariant, PTL

\* An error the application shows without the payload is never put down to it:
\* the baseline shows it (_matches_for_selected_baseline), or the session has
\* lapsed before and the trials show nothing; unless the whole baseline met a
\* failing database of which nothing is shown.
THEOREM ErrorUnambiguous == Spec => []AmbiguousErrorNeverPositive
<1>1. IInv => AmbiguousErrorNeverPositive
  <2> SUFFICES ASSUME IInv, verdict = "TRUE_POSITIVE", Ambiguous,
                      ~ (target.trouble = {} /\ troubled.baseline = DOMAIN baseline)
               PROVE  FALSE
    BY DEF AmbiguousErrorNeverPositive, Ambiguous
  <2>1. /\ Len(baseline) = BaselinePreferred
        /\ StableBaseline /\ BaselineErrors = {} /\ Reproduced
    BY DEF IInv, Classified, Verdict
  <2>2. PICK i \in DOMAIN baseline : i \notin troubled.baseline
    <3>1. 1 \in DOMAIN baseline /\ troubled.baseline \subseteq DOMAIN baseline
      BY <2>1 DEF IInv, TypeOK, BaselinePreferred
    <3>2. CASE target.trouble # {}
      <4>1. \A k \in troubled.baseline : FALSE
        BY <2>1, <3>1, <3>2 DEF BaselineErrors, IInv, TroubleShown
      <4> QED BY <3>1, <4>1
    <3>3. CASE troubled.baseline # DOMAIN baseline
      BY <3>1, <3>3
    <3> QED BY <3>2, <3>3
  <2>3. Valid(baseline[i]) /\ baseline[i].errors = {}
    BY <2>1, <2>2 DEF StableBaseline, BaselineErrors
  <2>4. \A j \in DOMAIN trials : trials[j].errors = {}
    BY <2>2, <2>3 DEF IInv, SilentOnceLapsed
  <2>5. \A s \in Signatures : Showing(s) = {}
    BY <2>4 DEF Showing, Decision, ValidTrials
  <2>6. Cardinality({}) = 0
    BY FS_EmptySet
  <2> QED BY <2>1, <2>5, <2>6 DEF Reproduced, ReproducedRequired
<1> QED BY <1>1, Invariant, PTL

\* At most three valid trials are ever collected, and they are the decision.
LEMMA DecisionIsValidTrials ==
  ASSUME TypeOK, Cardinality(ValidTrials) <= TrialsMin
  PROVE  Decision = ValidTrials
<1> DEFINE n == Len(trials)
<1>1. n \in Nat /\ ValidTrials \in SUBSET (1..n)
  BY DEF TypeOK, ValidTrials
<1> HIDE DEF n
<1>2. IsFiniteSet(ValidTrials) /\ Cardinality(ValidTrials) \in Nat
  BY <1>1, CountFact
<1>3. ASSUME NEW i \in ValidTrials
      PROVE  Cardinality({j \in ValidTrials : j <= i}) <= TrialsMin
  <2> DEFINE E == {j \in ValidTrials : j <= i}
  <2>1. E \in SUBSET ValidTrials
    OBVIOUS
  <2>2. IsFiniteSet(E) /\ Cardinality(E) <= Cardinality(ValidTrials)
    BY <2>1, <1>2, FS_Subset
  <2>3. Cardinality(E) \in Nat
    BY <2>2, FS_CardinalityType
  <2> QED BY <2>2, <2>3, <1>2 DEF TrialsMin
<1> QED BY <1>3 DEF Decision

\* Two refused trials do not hide a vulnerable application whose pages are
\* stable, whose session lasts and whose database holds: the retries of
\* collect_error_based_replay_evidence make up for them.
THEOREM ErrorDetected == Spec => []DetectedDespiteRefusals
<1>1. IInv => DetectedDespiteRefusals
  <2> SUFFICES ASSUME IInv, verdict \notin {"NONE", "ERROR"}, ~ Lapsed,
                      target.vulnerable, target.quotes = {},
                      finding.payload = "appended" \/ ~ target.emptyFails,
                      \A p, q \in target.pages : p - q \in {-1, 0, 1},
                      refused.baseline = 0,
                      refused.trials <= AttemptsMax - TrialsMin,
                      troubled.baseline = {}, troubled.trials = {}
               PROVE  verdict = "TRUE_POSITIVE"
    BY DEF DetectedDespiteRefusals
  <2> USE DEF IInv
  <2> DEFINE n == Len(trials)
  <2>1. n \in Nat /\ DOMAIN trials = 1..n
    BY DEF TypeOK
  <2>2. /\ ValidTrials \in SUBSET (1..n) /\ RefusedTrials \in SUBSET (1..n)
        /\ ValidTrials \cup RefusedTrials = 1..n
        /\ ValidTrials \cap RefusedTrials = {}
    BY <2>1 DEF ValidTrials, RefusedTrials
  <2>2a. n = AttemptsMax \/ Enough
    BY DEF Classified, Collected
  <2> HIDE DEF n
  <2>3. /\ IsFiniteSet(ValidTrials) /\ Cardinality(ValidTrials) \in Nat
        /\ IsFiniteSet(RefusedTrials) /\ Cardinality(RefusedTrials) \in Nat
    BY <2>1, <2>2, CountFact
  <2>4. Cardinality(ValidTrials) + Cardinality(RefusedTrials) = n
    <3>1. Cardinality(1..n) = n
      BY ONLY <2>1, FS_Interval
    <3>2. Cardinality(ValidTrials \cup RefusedTrials) =
            Cardinality(ValidTrials) + Cardinality(RefusedTrials)
              - Cardinality(ValidTrials \cap RefusedTrials)
      BY <2>3, FS_Union
    <3>3. Cardinality({}) = 0
      BY FS_EmptySet
    <3>4. n = Cardinality(ValidTrials) + Cardinality(RefusedTrials) - 0
      BY <3>1, <3>2, <3>3, <2>2
    <3> QED BY <3>4, <2>3
  <2>5. Enough
    BY <2>3, <2>4, <2>2a DEF Enough, HistoryTells, AttemptsMax, TrialsMin
  <2>6. ASSUME NEW i \in DOMAIN baseline
        PROVE  /\ Valid(baseline[i])
               /\ baseline[i].status = 200
               /\ baseline[i].page \in target.pages
               /\ baseline[i].errors = {}
    <3>1. Len(baseline) \in Nat /\ RefusedBaseline \in SUBSET (1..Len(baseline))
      BY DEF TypeOK, RefusedBaseline
    <3>2. IsFiniteSet(RefusedBaseline)
      BY <3>1, CountFact
    <3>3. RefusedBaseline = {}
      BY <3>2, FS_EmptySet DEF HistoryTells
    <3>4. Valid(baseline[i])
      BY <3>3 DEF RefusedBaseline
    <3> QED BY <3>4 DEF CleanBaseline
  <2>7. StableBaseline
    BY <2>6 DEF StableBaseline, Similar
  <2>8. BaselineErrors = {}
    BY <2>6 DEF BaselineErrors
  <2>9. Reproduced
    <3>1. Decision = ValidTrials
      BY DecisionIsValidTrials DEF InOrder
    <3>2. PICK s \in Signatures : s \in target.complaint
      BY ErrorBasedAssumption DEF TypeOK, ErrorBasedAssumption, TargetKinds
    <3>3. Showing(s) = ValidTrials
      BY <3>1, <3>2 DEF Showing, ProvokedTrials
    <3>4. Cardinality(Showing(s)) >= ReproducedRequired
      BY <3>3, <2>3, <2>5 DEF Enough, TrialsMin, ReproducedRequired
    <3> QED BY <3>4 DEF Reproduced
  <2> QED BY <2>5, <2>7, <2>8, <2>9 DEF Classified, Verdict
<1> QED BY <1>1, Invariant, PTL

=============================================================================
