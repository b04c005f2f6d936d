--------------------------- MODULE SqliTimeBased ---------------------------
(***************************************************************************)
(* TIME_BASED SQLi verification: seven baseline replays with the parameter *)
(* restored, up to five replays of the scanner's injected request, and the *)
(* verdict drawn from their times.  The target may slow down, fail, limit  *)
(* the rate or lose its session between any two replays.  Times are in     *)
(* units of 100 ms.                                                        *)
(***************************************************************************)
EXTENDS Integers, Sequences, SequencesExt, FiniteSets

CONSTANTS
  Targets,      \* the targets verified
  MaxMoods      \* bound on the target's changes of mood

\* vulnerable: the injected condition is executed and sleeps; times: how long
\* responses take otherwise; lapsed: the status of a request without a live
\* session.
TargetKinds ==
  [vulnerable : BOOLEAN, times : SUBSET Nat, lapsed : {302, 401, 403, 419}]

ASSUME TimeBasedAssumption ==
  /\ Targets \subseteq TargetKinds
  /\ \A t \in Targets : t.times # {}
  /\ MaxMoods \in Nat

\* SqliReplayProfile of TIME_BASED.
BaselinePreferred == 7
BaselineMin == 5
TrialsMin == 3
AttemptsMax == 5
DelayedRequired == 2
DelayFloor == 20

Timeout == 100       \* timeout_seconds of the trigger
Sleep == 50          \* what the scanner's payload asks of the database
BusyTime == 30       \* added to every response of a busy target

NoStatus == 0
Statuses == {NoStatus, 200, 302, 401, 403, 419, 429, 500}

Moods == {"calm", "busy", "throttling", "failing", "down"}

VARIABLES
  target, session, mood, changes,      \* the target
  baseline,                            \* baseline samples, ordered by time
  trials,                              \* verification samples, as attempted
  verdict,
  met,         \* history: the trouble that replays met
  slept        \* history: how many responses were held up by the payload

targetVars == <<target, session, mood, changes>>
vars == <<targetVars, baseline, trials, verdict, met, slept>>

-----------------------------------------------------------------------------
(* Samples and statistics. *)

\* Variant: 401 is not known as a failure.
ValidUnauthorized(s) == s.status \notin {NoStatus, 403, 419, 429}

\* evaluate_trial_validity: what the failure contract sees is the status.
Valid(s) == s.status \notin {NoStatus, 401, 403, 419, 429}

\* Where a sample goes among samples in the order of their times.
Inserted(samples, s) ==
  InsertAt(samples, 1 + Cardinality({i \in DOMAIN samples : samples[i].time <= s.time}), s)

\* The valid samples' times, and the k-th of times in their order: the least that
\* k of them do not exceed.
Times(samples) == [i \in {j \in DOMAIN samples : Valid(samples[j])} |-> samples[i].time]
Ranked(v, k) == Min({x \in Range(v) : Cardinality({i \in DOMAIN v : v[i] <= x}) >= k})

\* Twice the median: the two middle values, which are one if the count is odd.
Median2(v) ==
  LET n == Cardinality(DOMAIN v) IN Ranked(v, (n + 1) \div 2) + Ranked(v, n \div 2 + 1)

Distance(a, b) == IF a < b THEN b - a ELSE a - b

\* compute_baseline_statistics: how many values, twice their median, and four
\* times their median absolute deviation.
Statistics(v) ==
  IF DOMAIN v = {} THEN [count |-> 0, median2 |-> 0, mad4 |-> 0]
  ELSE LET median2 == Median2(v)
       IN [count |-> Cardinality(DOMAIN v), median2 |-> median2,
           mad4 |-> Median2([i \in DOMAIN v |-> Distance(2 * v[i], median2)])]

BaselineStatistics == Statistics(Times(baseline))

\* The valid trials, and the times of the first three.
ValidTrials == {i \in DOMAIN trials : Valid(trials[i])}
Enough == Cardinality(ValidTrials) >= TrialsMin
Decision ==
  [i \in {j \in ValidTrials :
           Cardinality({k \in ValidTrials : k <= j}) <= TrialsMin} |-> trials[i].time]

\* evaluate_baseline_stability: five samples, and MAD at most 0.2 medians.
Stable(b) ==
  b.count >= BaselineMin /\ b.median2 > 0 /\ 5 * b.mad4 <= 2 * b.median2

\* Four times the threshold: 2000 ms or five MAD.
Threshold4(b) == IF 4 * DelayFloor >= 5 * b.mad4 THEN 4 * DelayFloor ELSE 5 * b.mad4

\* evaluate_trial_delay: late enough, and twice the baseline's median.
Delayed(b, time) ==
  4 * time - 2 * b.median2 >= Threshold4(b) /\ time >= b.median2

DelayedTrials(b) ==
  Cardinality({i \in DOMAIN Decision : Delayed(b, Decision[i])})

\* The same two conditions of the trials' median.
AggregatePasses(b) ==
  LET median2 == Median2(Decision) IN
  2 * (median2 - b.median2) >= Threshold4(b) /\ median2 >= 2 * b.median2

\* _collect_failure_reasons: one refused replay anywhere is enough.
FailureSeen ==
  \/ \E i \in DOMAIN baseline : ~ Valid(baseline[i])
  \/ \E i \in DOMAIN trials : ~ Valid(trials[i])

\* Variant: one delayed trial of three is enough.
VerdictOnOneTrial ==
  LET b == BaselineStatistics IN
  IF FailureSeen \/ ~ Stable(b) \/ ~ Enough THEN "INCONCLUSIVE"
  ELSE IF DelayedTrials(b) >= 1 THEN "TRUE_POSITIVE"
  ELSE "FALSE_POSITIVE"

\* verify_sqli_time_based; no external explanation is ever passed to it.
Verdict ==
  LET b == BaselineStatistics IN
  IF FailureSeen \/ ~ Stable(b) \/ ~ Enough THEN "INCONCLUSIVE"
  ELSE IF DelayedTrials(b) >= DelayedRequired /\ AggregatePasses(b) THEN "TRUE_POSITIVE"
  ELSE "FALSE_POSITIVE"

-----------------------------------------------------------------------------
(* The target. *)

Lapsed == session = "lapsed"

\* An injected request sleeps when the application executes it.
Sleeps(injected) ==
  injected /\ target.vulnerable /\ ~ Lapsed /\ mood \in {"calm", "busy"}

\* What is recorded of a reply; one that takes longer than the timeout never
\* arrives, and nothing reads the time of an invalid one.
Reply(time) ==
  LET status == IF mood = "down" \/ time >= Timeout THEN NoStatus
                ELSE CASE mood = "throttling" -> 429
                       [] mood = "failing" -> 500
                       [] OTHER -> IF Lapsed THEN target.lapsed ELSE 200
      reply == [status |-> status, time |-> time]
  IN IF Valid(reply) THEN reply ELSE [reply EXCEPT !.time = 0]

ResponseTimes(injected) ==
  {time + (IF Sleeps(injected) THEN Sleep ELSE 0)
        + (IF mood = "busy" THEN BusyTime ELSE 0) : time \in target.times}

Trouble ==
  (IF mood = "calm" THEN {} ELSE {mood}) \cup (IF Lapsed THEN {"lapsed"} ELSE {})

Init ==
  /\ target \in Targets
  /\ session = "live" /\ mood \in Moods /\ changes = 0
  /\ baseline = <<>> /\ trials = <<>>
  /\ verdict = "NONE"
  /\ met = {} /\ slept = 0

SessionLapses ==
  /\ verdict = "NONE" /\ session = "live"
  /\ session' = "lapsed"
  /\ UNCHANGED <<target, mood, changes, baseline, trials, verdict, met, slept>>

MoodChanges ==
  /\ verdict = "NONE" /\ changes < MaxMoods
  /\ mood' \in IF mood = "calm" THEN Moods \ {"calm"} ELSE {"calm"}
  /\ changes' = changes + 1
  /\ UNCHANGED <<target, session, baseline, trials, verdict, met, slept>>

-----------------------------------------------------------------------------
(* The verification. *)

\* One of the seven baseline replays; only the order of their times matters.
BaselineReplay ==
  /\ Len(baseline) < BaselinePreferred
  /\ \E time \in ResponseTimes(FALSE) :
       baseline' = Inserted(baseline, Reply(time))
  /\ met' = met \cup Trouble
  /\ UNCHANGED <<targetVars, trials, verdict, slept>>

Collected == Enough \/ Len(trials) = AttemptsMax

\* Variant: attempts go on until three are valid.
TrialUnbounded ==
  /\ Len(baseline) = BaselinePreferred /\ ~ Enough
  /\ \E time \in ResponseTimes(TRUE) : trials' = Append(trials, Reply(time))
  /\ met' = met \cup Trouble
  /\ slept' = IF Sleeps(TRUE) THEN slept + 1 ELSE slept
  /\ UNCHANGED <<targetVars, baseline, verdict>>

\* A replay of the injected request, until three are valid, five times at most.
Trial ==
  /\ Len(baseline) = BaselinePreferred /\ ~ Collected
  /\ \E time \in ResponseTimes(TRUE) : trials' = Append(trials, Reply(time))
  /\ met' = met \cup Trouble
  /\ slept' = IF Sleeps(TRUE) THEN slept + 1 ELSE slept
  /\ UNCHANGED <<targetVars, baseline, verdict>>

Classify ==
  /\ Len(baseline) = BaselinePreferred /\ Collected /\ verdict = "NONE"
  /\ verdict' = Verdict
  /\ UNCHANGED <<targetVars, baseline, trials, met, slept>>

Verification == BaselineReplay \/ Trial \/ Classify
Next == Verification \/ SessionLapses \/ MoodChanges

Spec == Init /\ [][Next]_vars

-----------------------------------------------------------------------------
(* Properties. *)

Samples == [status : Statuses, time : Nat]

TypeOK ==
  /\ target \in Targets
  /\ session \in {"live", "lapsed"} /\ mood \in Moods /\ changes \in 0..MaxMoods
  /\ baseline \in Seq(Samples) /\ Len(baseline) <= BaselinePreferred
  /\ trials \in Seq(Samples) /\ Len(trials) <= AttemptsMax
  /\ verdict \in {"NONE", "TRUE_POSITIVE", "FALSE_POSITIVE", "INCONCLUSIVE"}
  /\ met \subseteq Moods \cup {"lapsed"}
  /\ slept \in 0..AttemptsMax

\* A TRUE_POSITIVE is the payload's doing: the database slept at least twice,
\* unless the target was slowed down by something else while it was verified.
TruePositiveSlept ==
  verdict = "TRUE_POSITIVE" /\ "busy" \notin met => slept >= 2

\* A FALSE_POSITIVE is never given to a target that is vulnerable, jitter and
\* lapsing sessions included, as long as the application tells by its status
\* that a session lapsed, does not fail, and is not slowed down meanwhile.
FalsePositiveIsSafe ==
  /\ verdict = "FALSE_POSITIVE"
  /\ met \cap {"busy", "failing"} = {} /\ (target.lapsed = 302 => ~ ("lapsed" \in met))
  => ~ target.vulnerable

\* A verdict is only ever drawn from the first three attempts, and once a replay was
\* refused no retry leads to one, since _collect_failure_reasons counts the replaced
\* trials too.  That is contrary to the documentation of collect_verification_trials,
\* by which an invalid trial is replaced and the first three valid ones decide.
RetriesNeverDecide ==
  verdict \in {"TRUE_POSITIVE", "FALSE_POSITIVE"} =>
    Len(trials) = TrialsMin /\ met \cap {"throttling", "down"} = {}

(* What the proofs ask of the targets' jitter. *)

\* A target's jitter cannot pass for a delay: a response is less than two seconds
\* later than another, or takes less than twice as long.
JitterBelowDelay ==
  \A t \in Targets : \A a, b \in t.times : a - b < DelayFloor \/ a < 2 * b

\* The payload's sleep outweighs the jitter: a response that slept takes at least
\* twice as long as any that did not.
SleepAboveJitter ==
  \A t \in Targets : \A a, b \in t.times : 2 * b <= a + Sleep

=============================================================================
