------------------------ MODULE SqliTimeBasedProofs ------------------------
(***************************************************************************)
(* What a TIME_BASED verdict may be trusted for, whatever the target does  *)
(* between two replays: proofs of TypeOK and RetriesNeverDecide for every  *)
(* set of targets, and of TruePositiveSlept and FalsePositiveIsSafe for    *)
(* all whose jitter is small against what the rules ask of a delay.        *)
(***************************************************************************)
EXTENDS SqliTimeBased, FiniteSetTheorems, SequenceTheorems,
        WellFoundedInduction, TLAPS

-----------------------------------------------------------------------------
(* Ranks.  Induction over data takes the form of a least counterexample.   *)

LEMMA LeastNat ==
  ASSUME NEW T \in SUBSET Nat, T # {}
  PROVE  \E x \in T : \A y \in T : x <= y
<1>1. PICK x \in T : \A y \in T : ~ (<<y, x>> \in OpToRel(<, Nat))
  BY NatLessThanWellFounded, WFMin
<1>2. \A y \in T : ~ (y < x)
  BY <1>1 DEF OpToRel
<1> QED BY <1>2

LEMMA MinFact ==
  ASSUME NEW T \in SUBSET Nat, T # {}
  PROVE  Min(T) \in T /\ \A y \in T : Min(T) <= y
BY LeastNat DEF Min

\* Some value is the largest of a finite function.
LEMMA LargestValue ==
  ASSUME NEW n \in Nat, NEW D \in SUBSET (1..n), D # {}, NEW v \in [D -> Nat]
  PROVE  \E i \in D : \A j \in D : v[j] <= v[i]
<1> DEFINE Largest(m) ==
      \A E \in SUBSET (1..m) : E # {} /\ E \subseteq D
        => \E i \in E : \A j \in E : v[j] <= v[i]
           Without == {m \in Nat : ~ Largest(m)}
<1>1. SUFFICES Without = {}
  OBVIOUS
<1>2. SUFFICES ASSUME Without # {} PROVE FALSE
  OBVIOUS
<1>3. PICK m \in Without : \A y \in Without : m <= y
  BY <1>2, LeastNat
<1>4. PICK E \in SUBSET (1..m) :
        E # {} /\ E \subseteq D /\ ~ \E i \in E : \A j \in E : v[j] <= v[i]
  BY <1>3
<1>5. m \in Nat /\ m # 0
  <2>1. 1..0 = {}
    OBVIOUS
  <2> QED BY <1>3, <1>4, <2>1
<1>6. Largest(m - 1)
  <2> HIDE DEF Largest
  <2>1. m - 1 \in Nat /\ ~ (m <= m - 1)
    BY <1>5
  <2> QED BY <1>3, <2>1
<1>7. m \in E
  <2> SUFFICES ASSUME m \notin E PROVE FALSE
    OBVIOUS
  <2>1. E \in SUBSET (1..(m - 1))
    BY <1>3, <1>4, <1>5
  <2> QED BY <2>1, <1>4, <1>6
<1>8. E \ {m} # {}
  BY <1>4, <1>7
<1>9. E \ {m} \in SUBSET (1..(m - 1))
  BY <1>3, <1>5
<1>10. PICK i \in E \ {m} : \A j \in E \ {m} : v[j] <= v[i]
  BY <1>4, <1>6, <1>8, <1>9
<1>11. v[i] \in Nat /\ v[m] \in Nat
  BY <1>4, <1>7
<1>12. CASE v[m] <= v[i]
  BY <1>4, <1>10, <1>12
<1>13. CASE v[i] <= v[m]
  <2>1. \A j \in E : v[j] \in Nat
    BY <1>4
  <2>2. \A j \in E : v[j] <= v[m]
    BY <1>10, <1>11, <1>13, <2>1
  <2> QED BY <1>4, <1>7, <2>2
<1> QED BY <1>11, <1>12, <1>13

\* The k-th of the times is one of them, k of them do not exceed it, and fewer
\* than k are smaller.
LEMMA RankedFact ==
  ASSUME NEW n \in Nat, NEW D \in SUBSET (1..n), NEW v \in [D -> Nat],
         NEW k \in 1..Cardinality(D)
  PROVE  /\ Ranked(v, k) \in Nat
         /\ \E i \in D : Ranked(v, k) = v[i]
         /\ Cardinality({i \in D : v[i] <= Ranked(v, k)}) >= k
         /\ Cardinality({i \in D : v[i] < Ranked(v, k)}) < k
<1> DEFINE UpTo(x) == {i \in D : v[i] <= x}
           R == {x \in Range(v) : Cardinality(UpTo(x)) >= k}
<1>1. Range(v) = {v[i] : i \in D} /\ Range(v) \subseteq Nat
  BY DEF Range
<1>2. IsFiniteSet(D)
  <2>1. IsFiniteSet(1..n)
    BY FS_Interval
  <2> QED BY <2>1, FS_Subset
<1>3. Cardinality(D) \in Nat
  BY <1>2, FS_CardinalityType
<1>4. D # {}
  BY <1>3, FS_EmptySet
<1>5. PICK i \in D : \A j \in D : v[j] <= v[i]
  BY <1>4, LargestValue
<1>6. UpTo(v[i]) = D
  BY <1>5
<1>7. v[i] \in R
  BY <1>1, <1>3, <1>6
<1>8. R \in SUBSET Nat /\ R # {}
  BY <1>1, <1>7
<1>9. Ranked(v, k) = Min(R)
  BY DEF Ranked
<1> DEFINE m == Min(R)
<1> HIDE DEF R
<1>10. m \in R /\ \A y \in R : m <= y
  BY <1>8, MinFact
<1>11. m \in Nat /\ m \in Range(v) /\ Cardinality(UpTo(m)) >= k
  BY <1>8, <1>10 DEF R
<1> DEFINE Below == {j \in D : v[j] < m}
<1>12. Cardinality(Below) < k
  <2>1. IsFiniteSet(Below) /\ Cardinality(Below) \in Nat
    BY <1>2, FS_Subset, FS_CardinalityType
  <2> SUFFICES ASSUME Cardinality(Below) >= k PROVE FALSE
    BY <2>1, <1>3
  <2>2. Below # {}
    BY <1>3, FS_EmptySet
  <2>3. v \in [D -> Nat] /\ [j \in Below |-> v[j]] \in [Below -> Nat]
    OBVIOUS
  <2>4. PICK b \in Below : \A j \in Below : v[j] <= v[b]
    <3> DEFINE w == [j \in Below |-> v[j]]
    <3>1. \E b \in Below : \A j \in Below : w[j] <= w[b]
      BY <2>2, <2>3, LargestValue
    <3> QED BY <3>1
  <2>5. UpTo(v[b]) = Below
    <3>1. v[b] \in Nat /\ v[b] < m
      OBVIOUS
    <3>2. ASSUME NEW j \in D PROVE v[j] <= v[b] <=> v[j] < m
      <4>1. v[j] \in Nat
        OBVIOUS
      <4>2. v[j] < m => v[j] <= v[b]
        BY <2>4
      <4> QED BY <3>1, <4>1, <4>2, <1>11
    <3> QED BY <3>2
  <2>6. v[b] \in R
    BY <1>1, <2>1, <2>5 DEF R
  <2> QED BY <2>6, <1>10, <1>11
<1> QED BY <1>1, <1>9, <1>11, <1>12

\* The median of an odd number of times is one of them.
LEMMA OddMedian ==
  ASSUME NEW n \in Nat, NEW D \in SUBSET (1..n), NEW v \in [D -> Nat],
         Cardinality(D) \in {3, 7}
  PROVE  \E i \in D : Median2(v) = 2 * v[i]
<1> DEFINE c == Cardinality(D)
           k == (c + 1) \div 2
<1>1. k = c \div 2 + 1 /\ k \in 1..c
  OBVIOUS
<1>2. Median2(v) = Ranked(v, k) + Ranked(v, k)
  BY <1>1 DEF Median2
<1> HIDE DEF k, c
<1>3. PICK i \in D : Ranked(v, k) = v[i]
  BY <1>1, RankedFact DEF c
<1> QED BY <1>2, <1>3

-----------------------------------------------------------------------------
(* Samples. *)

LEMMA IndexFact ==
  ASSUME NEW n \in Nat
  PROVE  IsFiniteSet(1..n) /\ Cardinality(1..n) = n
BY FS_Interval

\* Sets of indices are finite, and one more index counts one more.
LEMMA CountFact ==
  ASSUME NEW n \in Nat, NEW A \in SUBSET (1..n)
  PROVE  /\ IsFiniteSet(A) /\ Cardinality(A) \in 0..n
         /\ Cardinality(A \cup {n + 1}) = Cardinality(A) + 1
<1>1. IsFiniteSet(1..n) /\ Cardinality(1..n) = n
  BY IndexFact
<1>2. IsFiniteSet(A) /\ Cardinality(A) <= n
  BY <1>1, FS_Subset
<1>3. Cardinality(A) \in Nat
  BY <1>2, FS_CardinalityType
<1>4. n + 1 \notin A
  OBVIOUS
<1>5. Cardinality(A \cup {n + 1}) = Cardinality(A) + 1
  BY <1>2, <1>4, FS_AddElement
<1> QED BY <1>2, <1>3, <1>5

LEMMA InsertAtFact ==
  ASSUME NEW S, NEW s \in Seq(S), NEW e \in S, NEW p \in 1..(Len(s) + 1)
  PROVE  /\ InsertAt(s, p, e) \in Seq(S)
         /\ Len(InsertAt(s, p, e)) = Len(s) + 1
         /\ InsertAt(s, p, e)[p] = e
         /\ \A j \in 1..(p - 1) : InsertAt(s, p, e)[j] = s[j]
         /\ \A j \in p..Len(s) : InsertAt(s, p, e)[j + 1] = s[j]
<1> DEFINE n == Len(s)
           a == SubSeq(s, 1, p - 1)
           b == SubSeq(s, p, n)
           c == a \o <<e>>
<1>1. n \in Nat /\ p - 1 \in 0..n /\ n - p + 1 \in 0..n
  OBVIOUS
<1>2. a \in Seq(S) /\ Len(a) = p - 1 /\ \A j \in 1..(p - 1) : a[j] = s[j]
  BY <1>1
<1>3. /\ b \in Seq(S) /\ Len(b) = n - p + 1
      /\ \A j \in 1..(n - p + 1) : b[j] = s[p + j - 1]
  BY <1>1
<1> HIDE DEF a, b
<1>4. c \in Seq(S) /\ Len(c) = p /\ c[p] = e /\ \A j \in 1..(p - 1) : c[j] = s[j]
  BY <1>1, <1>2
<1> HIDE DEF c, n
<1>5. /\ c \o b \in Seq(S) /\ Len(c \o b) = Len(c) + Len(b)
      /\ \A j \in 1..(Len(c) + Len(b)) :
           (c \o b)[j] = IF j <= Len(c) THEN c[j] ELSE b[j - Len(c)]
  BY <1>3, <1>4, ConcatProperties
<1>6. Len(c) + Len(b) = n + 1
  BY <1>1, <1>3, <1>4
<1>7. (c \o b)[p] = e /\ \A j \in 1..(p - 1) : (c \o b)[j] = s[j]
  BY <1>1, <1>4, <1>5, <1>6
<1>8. ASSUME NEW j \in p..n
      PROVE  (c \o b)[j + 1] = s[j]
  <2>1. j + 1 - p \in 1..(n - p + 1) /\ p + (j + 1 - p) - 1 = j
    BY <1>1
  <2>2. b[j + 1 - p] = s[j]
    BY <2>1, <1>3
  <2>3. j + 1 \in 1..(n + 1) /\ ~ (j + 1 <= p)
    BY <1>1
  <2> QED BY <2>2, <2>3, <1>4, <1>5, <1>6
<1>9. InsertAt(s, p, e) = c \o b
  BY DEF InsertAt, a, b, c, n
<1> QED BY <1>5, <1>6, <1>7, <1>9, <1>8 DEF n

\* Inserted loses no sample and makes none up.
LEMMA InsertedFact ==
  ASSUME NEW s \in Seq(Samples), NEW e \in Samples
  PROVE  /\ Inserted(s, e) \in Seq(Samples)
         /\ Len(Inserted(s, e)) = Len(s) + 1
         /\ \A j \in 1..(Len(s) + 1) :
              Inserted(s, e)[j] = e \/ \E i \in 1..Len(s) : Inserted(s, e)[j] = s[i]
         /\ \A i \in 1..Len(s) : \E j \in 1..(Len(s) + 1) : Inserted(s, e)[j] = s[i]
         /\ \E j \in 1..(Len(s) + 1) : Inserted(s, e)[j] = e
<1> DEFINE A == {i \in DOMAIN s : s[i].time <= e.time}
           n == Len(s)
<1>1. n \in Nat /\ A \in SUBSET (1..n)
  OBVIOUS
<1>2. PICK p \in 1..(n + 1) : p = 1 + Cardinality(A)
  <2> HIDE DEF A, n
  <2>1. Cardinality(A) \in 0..n
    BY <1>1, CountFact
  <2> QED BY <2>1, <1>1
<1> DEFINE t == InsertAt(s, p, e)
<1>3. Inserted(s, e) = t
  BY <1>2 DEF Inserted
<1> HIDE DEF A
<1>4. /\ t \in Seq(Samples) /\ Len(t) = n + 1
      /\ t[p] = e
      /\ \A j \in 1..(p - 1) : t[j] = s[j]
      /\ \A j \in p..n : t[j + 1] = s[j]
  BY InsertAtFact
<1> HIDE DEF t, n
<1>5. ASSUME NEW j \in 1..(n + 1)
      PROVE  t[j] = e \/ \E i \in 1..n : t[j] = s[i]
  <2>1. CASE j < p
    BY <2>1, <1>1, <1>4
  <2>2. CASE j = p
    BY <2>2, <1>4
  <2>3. CASE j > p
    <3>1. j - 1 \in p..n /\ j - 1 \in 1..n /\ (j - 1) + 1 = j
      BY <2>3, <1>1
    <3>2. t[j] = s[j - 1]
      BY <3>1, <1>4
    <3> QED BY <3>1, <3>2
  <2> QED BY <2>1, <2>2, <2>3, <1>1
<1>6. ASSUME NEW i \in 1..n
      PROVE  \E j \in 1..(n + 1) : t[j] = s[i]
  <2>1. CASE i < p
    BY <2>1, <1>1, <1>4
  <2>2. CASE i >= p
    <3>1. i + 1 \in 1..(n + 1) /\ t[i + 1] = s[i]
      BY <2>2, <1>1, <1>4
    <3> QED BY <3>1
  <2> QED BY <2>1, <2>2, <1>1
<1> QED BY <1>3, <1>4, <1>5, <1>6 DEF n

\* What is recorded of a reply.
LEMMA ReplyFact ==
  ASSUME TypeOK, NEW time \in Nat
  PROVE  /\ Reply(time) \in Samples
         /\ mood \in {"down", "throttling"} => ~ Valid(Reply(time))
         /\ Valid(Reply(time)) => Reply(time).time = time
         /\ Valid(Reply(time)) /\ Lapsed /\ mood # "failing" => target.lapsed = 302
<1>1. target.lapsed \in {302, 401, 403, 419}
  BY TimeBasedAssumption DEF TypeOK, TargetKinds
<1> DEFINE status ==
        IF mood = "down" \/ time >= Timeout THEN NoStatus
        ELSE CASE mood = "throttling" -> 429
               [] mood = "failing" -> 500
               [] OTHER -> IF Lapsed THEN target.lapsed ELSE 200
           reply == [status |-> status, time |-> time]
<1>2. status \in Statuses
  BY <1>1 DEF Statuses, NoStatus
<1>3. /\ mood = "down" => status = NoStatus
      /\ mood = "throttling" => status \in {NoStatus, 429}
      /\ Lapsed /\ mood # "failing" => status \in {NoStatus, 429, target.lapsed}
  OBVIOUS
<1>4. Reply(time) = IF Valid(reply) THEN reply ELSE [reply EXCEPT !.time = 0]
  BY DEF Reply
<1> HIDE DEF status
<1>5. Reply(time).status = status /\ Reply(time) \in Samples
  BY <1>2, <1>4 DEF Samples
<1>6. Valid(reply) <=> Valid(Reply(time))
  BY <1>5 DEF Valid
<1>7. Valid(Reply(time)) => Reply(time).time = time
  BY <1>4, <1>6
<1>8. Valid(Reply(time)) => status \notin {NoStatus, 401, 403, 419, 429}
  BY <1>5 DEF Valid
<1> QED BY <1>1, <1>3, <1>5, <1>7, <1>8

\* How long a reply may take.
LEMMA ResponseFact ==
  ASSUME TypeOK, NEW injected \in BOOLEAN, NEW time \in ResponseTimes(injected)
  PROVE  /\ time \in Nat
         /\ mood # "busy" /\ ~ Sleeps(injected) => time \in target.times
         /\ mood # "busy" /\ Sleeps(injected) => \E t \in target.times : time = t + Sleep
<1>1. target.times \subseteq Nat
  BY TimeBasedAssumption DEF TypeOK, TargetKinds
<1>2. PICK t \in target.times :
        time = t + (IF Sleeps(injected) THEN Sleep ELSE 0)
                 + (IF mood = "busy" THEN BusyTime ELSE 0)
  BY DEF ResponseTimes
<1> QED BY <1>1, <1>2 DEF Sleep, BusyTime

-----------------------------------------------------------------------------
(* The invariant. *)

\* Trials begin once the baseline is complete, and stop at three valid ones.
InOrder ==
  /\ trials # <<>> => Len(baseline) = BaselinePreferred
  /\ Cardinality(ValidTrials) <= TrialsMin

\* A verdict is drawn from samples that no longer change.
Classified ==
  verdict # "NONE" =>
    Len(baseline) = BaselinePreferred /\ Collected /\ verdict = Verdict

\* A target that limits the rate or is down leaves a refused sample behind.
RefusalsShow == met \cap {"throttling", "down"} # {} => FailureSeen

\* A baseline time is one of the target's, unless the target was slowed down.
BaselineTimely ==
  "busy" \notin met =>
    \A i \in DOMAIN baseline : Valid(baseline[i]) => baseline[i].time \in target.times

\* The valid trials that took a time which is none of the target's: each of
\* them was held up by the payload, unless the target was slowed down.
Late == {i \in ValidTrials : trials[i].time \notin target.times}
LateTrialsSlept ==
  /\ slept <= Len(trials)
  /\ "busy" \notin met => Cardinality(Late) <= slept

\* The conditions under which no replay of a vulnerable target fails to sleep.
Undisturbed ==
  /\ target.vulnerable
  /\ met \cap {"busy", "failing"} = {} /\ (target.lapsed = 302 => ~ ("lapsed" \in met))
ValidTrialsSleep ==
  Undisturbed =>
    \A i \in ValidTrials : \E t \in target.times : trials[i].time = t + Sleep

IInv == TypeOK /\ InOrder /\ Classified /\ RefusalsShow /\ BaselineTimely
          /\ LateTrialsSlept /\ ValidTrialsSleep

LEMMA InitInv == Init => IInv
<1> SUFFICES ASSUME Init PROVE IInv
  OBVIOUS
<1>1. baseline = <<>> /\ trials = <<>> /\ DOMAIN baseline = {} /\ DOMAIN trials = {}
  BY DEF Init
<1>2. ValidTrials = {} /\ Late = {}
  BY <1>1 DEF ValidTrials, Late
<1>3. Cardinality({}) = 0
  BY FS_EmptySet
<1>4. TypeOK
  BY TimeBasedAssumption
     DEF Init, TypeOK, BaselinePreferred, AttemptsMax
<1>5. InOrder /\ LateTrialsSlept
  BY <1>1, <1>2, <1>3 DEF InOrder, LateTrialsSlept, TrialsMin, Init
<1> QED BY <1>1, <1>2, <1>4, <1>5
        DEF Init, IInv, Classified, RefusalsShow, BaselineTimely, ValidTrialsSleep

\* The target changes between two replays.
LEMMA TargetInv == IInv /\ (SessionLapses \/ MoodChanges) => IInv'
<1> SUFFICES ASSUME IInv, SessionLapses \/ MoodChanges PROVE IInv'
  OBVIOUS
<1>1. UNCHANGED <<target, baseline, trials, verdict, met, slept>> /\ verdict = "NONE"
  BY DEF SessionLapses, MoodChanges
<1>2. TypeOK'
  <2>1. MaxMoods \in Nat
    BY TimeBasedAssumption
  <2>2. CASE SessionLapses
    BY <2>2 DEF IInv, TypeOK, SessionLapses
  <2>3. CASE MoodChanges
    <3>1. mood' \in Moods
      BY <2>3 DEF MoodChanges, Moods
    <3>2. changes \in Nat /\ changes' \in 0..MaxMoods
      BY <2>1, <2>3 DEF MoodChanges, IInv, TypeOK
    <3> QED BY <2>3, <3>1, <3>2 DEF IInv, TypeOK, MoodChanges
  <2> QED BY <2>2, <2>3
<1>3. /\ ValidTrials' = ValidTrials /\ Late' = Late /\ FailureSeen' = FailureSeen
      /\ Undisturbed' = Undisturbed
  BY <1>1 DEF ValidTrials, Late, FailureSeen, Undisturbed
<1> QED BY <1>1, <1>2, <1>3
        DEF IInv, InOrder, Classified, RefusalsShow, BaselineTimely, LateTrialsSlept,
            ValidTrialsSleep

LEMMA BaselineReplayInv == IInv /\ BaselineReplay => IInv'
<1> SUFFICES ASSUME IInv, BaselineReplay PROVE IInv'
  OBVIOUS
<1> USE DEF IInv
<1> DEFINE n == Len(baseline)
<1>1. PICK time \in ResponseTimes(FALSE) : baseline' = Inserted(baseline, Reply(time))
  BY DEF BaselineReplay
<1>2. time \in Nat /\ (mood # "busy" => time \in target.times)
  BY ResponseFact DEF Sleeps
<1> DEFINE r == Reply(time)
<1>3. /\ r \in Samples /\ (mood \in {"down", "throttling"} => ~ Valid(r))
      /\ (Valid(r) => r.time = time)
  BY <1>2, ReplyFact
<1> HIDE DEF r
<1>4. /\ baseline \in Seq(Samples) /\ n \in Nat /\ n < BaselinePreferred
      /\ DOMAIN baseline = 1..n /\ trials = <<>> /\ verdict = "NONE"
      /\ UNCHANGED <<target, session, mood, changes, trials, verdict, slept>>
      /\ met' = met \cup Trouble
  BY DEF BaselineReplay, TypeOK, InOrder, Classified, targetVars
<1>5. /\ baseline' \in Seq(Samples) /\ Len(baseline') = n + 1
      /\ \A j \in 1..(n + 1) :
           baseline'[j] = r \/ \E i \in 1..n : baseline'[j] = baseline[i]
      /\ \A i \in 1..n : \E j \in 1..(n + 1) : baseline'[j] = baseline[i]
      /\ \E j \in 1..(n + 1) : baseline'[j] = r
  BY <1>1, <1>3, <1>4, InsertedFact DEF r
<1>6. DOMAIN baseline' = 1..(n + 1)
  BY <1>5
<1> HIDE DEF n
<1>7. TypeOK'
  <2>1. Trouble \subseteq Moods \cup {"lapsed"}
    BY DEF Trouble, TypeOK
  <2>2. Len(baseline') <= BaselinePreferred
    BY <1>4, <1>5 DEF BaselinePreferred
  <2> QED BY <1>4, <1>5, <2>1, <2>2 DEF TypeOK
<1>8. ValidTrials' = ValidTrials /\ ValidTrials = {} /\ Late' = Late
  BY <1>4 DEF ValidTrials, Late
<1>9. InOrder' /\ Classified'
  BY <1>4, <1>8 DEF InOrder, Classified
<1>10. RefusalsShow'
  <2> SUFFICES ASSUME met' \cap {"throttling", "down"} # {} PROVE FailureSeen'
    BY DEF RefusalsShow
  <2>1. CASE met \cap {"throttling", "down"} # {}
    <3>1. FailureSeen
      BY <2>1 DEF RefusalsShow
    <3>2. PICK i \in 1..n : ~ Valid(baseline[i])
      BY <3>1, <1>4 DEF FailureSeen
    <3>3. PICK j \in 1..(n + 1) : baseline'[j] = baseline[i]
      BY <1>5
    <3> QED BY <3>2, <3>3, <1>6 DEF FailureSeen
  <2>2. CASE Trouble \cap {"throttling", "down"} # {}
    <3>1. mood \in {"throttling", "down"}
      BY <2>2 DEF Trouble
    <3>2. ~ Valid(r)
      BY <3>1, <1>3
    <3>3. PICK j \in 1..(n + 1) : baseline'[j] = r
      BY <1>5
    <3> QED BY <3>2, <3>3, <1>6 DEF FailureSeen
  <2> QED BY <1>4, <2>1, <2>2
<1>11. BaselineTimely'
  <2> SUFFICES ASSUME "busy" \notin met', NEW j \in 1..(n + 1), Valid(baseline'[j])
               PROVE  baseline'[j].time \in target.times
    BY <1>4, <1>6 DEF BaselineTimely
  <2>1. "busy" \notin met /\ mood # "busy"
    BY <1>4 DEF Trouble
  <2>2. CASE baseline'[j] = r
    BY <2>1, <2>2, <1>2, <1>3
  <2>3. ASSUME NEW i \in 1..n, baseline'[j] = baseline[i]
        PROVE  baseline'[j].time \in target.times
    BY <2>1, <2>3, <1>4 DEF BaselineTimely
  <2> QED BY <2>2, <2>3, <1>5
<1>12. LateTrialsSlept' /\ ValidTrialsSleep'
  <2>1. Late = {} /\ Cardinality({}) = 0
    BY <1>8, FS_EmptySet DEF Late
  <2> QED BY <2>1, <1>4, <1>8 DEF LateTrialsSlept, ValidTrialsSleep, TypeOK
<1> QED BY <1>7, <1>9, <1>10, <1>11, <1>12

LEMMA TrialInv == IInv /\ Trial => IInv'
<1> SUFFICES ASSUME IInv, Trial PROVE IInv'
  OBVIOUS
<1> USE DEF IInv
<1> DEFINE n == Len(trials)
<1>1. PICK time \in ResponseTimes(TRUE) : trials' = Append(trials, Reply(time))
  BY DEF Trial
<1>2. /\ time \in Nat
      /\ mood # "busy" /\ ~ Sleeps(TRUE) => time \in target.times
      /\ mood # "busy" /\ Sleeps(TRUE) => \E t \in target.times : time = t + Sleep
  BY ResponseFact
<1> DEFINE r == Reply(time)
<1>3. /\ r \in Samples /\ (mood \in {"down", "throttling"} => ~ Valid(r))
      /\ (Valid(r) => r.time = time)
      /\ (Valid(r) /\ Lapsed /\ mood # "failing" => target.lapsed = 302)
  BY <1>2, ReplyFact
<1> HIDE DEF r
<1>4. /\ trials \in Seq(Samples) /\ n \in Nat /\ n < AttemptsMax /\ DOMAIN trials = 1..n
      /\ Len(baseline) = BaselinePreferred /\ verdict = "NONE"
      /\ UNCHANGED <<target, session, mood, changes, baseline, verdict>>
      /\ met' = met \cup Trouble
      /\ slept \in Nat /\ slept <= n
      /\ slept' \in {slept, slept + 1} /\ (Sleeps(TRUE) => slept' = slept + 1)
      /\ ~ Enough
  <2>1. trials \in Seq(Samples) /\ n \in Nat /\ n <= AttemptsMax /\ DOMAIN trials = 1..n
    BY DEF TypeOK
  <2>2. ~ Enough /\ n # AttemptsMax
    BY DEF Trial, Collected
  <2>3. n < AttemptsMax
    BY <2>1, <2>2 DEF AttemptsMax
  <2>4. verdict = "NONE"
    BY <2>2 DEF Classified, Collected
  <2>5. slept \in Nat /\ slept <= n
    BY DEF TypeOK, LateTrialsSlept
  <2>6. slept' \in {slept, slept + 1} /\ (Sleeps(TRUE) => slept' = slept + 1)
    BY DEF Trial
  <2> QED BY <2>1, <2>2, <2>3, <2>4, <2>5, <2>6 DEF Trial, targetVars
<1>5. /\ trials' \in Seq(Samples) /\ Len(trials') = n + 1 /\ DOMAIN trials' = 1..(n + 1)
      /\ \A i \in 1..n : trials'[i] = trials[i]
      /\ trials'[n + 1] = r
  BY <1>1, <1>3, <1>4 DEF r
<1> HIDE DEF n
<1>6. ValidTrials \in SUBSET (1..n) /\ Late \in SUBSET (1..n)
  BY <1>4 DEF ValidTrials, Late
<1>7. /\ ValidTrials' = IF Valid(r) THEN ValidTrials \cup {n + 1} ELSE ValidTrials
      /\ Late' = IF Valid(r) /\ r.time \notin target.times THEN Late \cup {n + 1} ELSE Late
  <2>1. ValidTrials' = {i \in 1..(n + 1) : Valid(trials'[i])}
    BY <1>5 DEF ValidTrials
  <2>2. ValidTrials = {i \in 1..n : Valid(trials[i])}
    BY <1>4 DEF ValidTrials
  <2>3. 1..(n + 1) = (1..n) \cup {n + 1} /\ n + 1 \notin 1..n
    BY <1>4
  <2>4. ValidTrials' = IF Valid(r) THEN ValidTrials \cup {n + 1} ELSE ValidTrials
    BY <1>5, <2>1, <2>2, <2>3
  <2>5. Late' = {i \in ValidTrials' : trials'[i].time \notin target.times}
    BY <1>4 DEF Late
  <2>6. \A i \in ValidTrials : trials'[i].time = trials[i].time
    BY <1>5, <1>6
  <2>7. Late' = IF Valid(r) /\ r.time \notin target.times THEN Late \cup {n + 1} ELSE Late
    BY <1>5, <2>4, <2>5, <2>6 DEF Late
  <2> QED BY <2>4, <2>7
<1>8. TypeOK'
  <2>1. Trouble \subseteq Moods \cup {"lapsed"}
    BY DEF Trouble, TypeOK
  <2>2. slept' \in 0..AttemptsMax /\ Len(trials') <= AttemptsMax
    BY <1>4, <1>5 DEF AttemptsMax
  <2> QED BY <1>4, <1>5, <2>1, <2>2 DEF TypeOK
<1>9. InOrder'
  <2>1. /\ Cardinality(ValidTrials) \in 0..n
        /\ Cardinality(ValidTrials \cup {n + 1}) = Cardinality(ValidTrials) + 1
    BY <1>4, <1>6, CountFact
  <2>2. Cardinality(ValidTrials) < TrialsMin
    BY <1>4, <2>1 DEF Enough, TrialsMin
  <2> QED BY <1>4, <1>7, <2>1, <2>2 DEF InOrder, TrialsMin
<1>10. Classified' /\ BaselineTimely'
  BY <1>4 DEF Classified, BaselineTimely
<1>11. RefusalsShow'
  <2> SUFFICES ASSUME met' \cap {"throttling", "down"} # {} PROVE FailureSeen'
    BY DEF RefusalsShow
  <2>1. CASE met \cap {"throttling", "down"} # {}
    <3>1. FailureSeen
      BY <2>1 DEF RefusalsShow
    <3>2. CASE \E i \in DOMAIN baseline : ~ Valid(baseline[i])
      BY <3>2, <1>4 DEF FailureSeen
    <3>3. CASE \E i \in 1..n : ~ Valid(trials[i])
      BY <3>3, <1>4, <1>5 DEF FailureSeen
    <3> QED BY <3>1, <3>2, <3>3, <1>4 DEF FailureSeen
  <2>2. CASE Trouble \cap {"throttling", "down"} # {}
    <3>1. mood \in {"throttling", "down"}
      BY <2>2 DEF Trouble
    <3>2. ~ Valid(trials'[n + 1]) /\ n + 1 \in 1..(n + 1)
      BY <3>1, <1>3, <1>4, <1>5
    <3> QED BY <3>2, <1>5 DEF FailureSeen
  <2> QED BY <1>4, <2>1, <2>2
<1>12. LateTrialsSlept'
  <2>1. slept' <= Len(trials')
    BY <1>4, <1>5
  <2> SUFFICES ASSUME "busy" \notin met' PROVE Cardinality(Late') <= slept'
    BY <2>1 DEF LateTrialsSlept
  <2>2. "busy" \notin met /\ mood # "busy"
    BY <1>4 DEF Trouble
  <2>3. /\ Cardinality(Late) \in 0..n
        /\ Cardinality(Late \cup {n + 1}) = Cardinality(Late) + 1
    BY <1>4, <1>6, CountFact
  <2>4. Cardinality(Late) <= slept
    BY <2>2 DEF LateTrialsSlept
  <2>5. CASE Valid(r) /\ r.time \notin target.times
    <3>1. time \notin target.times
      BY <2>5, <1>3
    <3>2. Sleeps(TRUE)
      BY <2>2, <3>1, <1>2, Zenon
    <3> QED BY <3>2, <2>3, <2>4, <2>5, <1>4, <1>7
  <2>6. CASE ~ (Valid(r) /\ r.time \notin target.times)
    BY <2>3, <2>4, <2>6, <1>4, <1>7
  <2> QED BY <2>5, <2>6
<1>13. ValidTrialsSleep'
  <2> SUFFICES ASSUME Undisturbed', NEW i \in ValidTrials'
               PROVE  \E t \in target.times : trials'[i].time = t + Sleep
    BY <1>4 DEF ValidTrialsSleep
  <2>1. /\ Undisturbed /\ target.vulnerable /\ mood \notin {"busy", "failing"}
        /\ (target.lapsed = 302 => ~ Lapsed)
    BY <1>4 DEF Undisturbed, Trouble
  <2>2. CASE i \in ValidTrials
    BY <2>1, <2>2, <1>5, <1>6 DEF ValidTrialsSleep
  <2>3. CASE Valid(r) /\ i = n + 1
    <3>1. ~ Lapsed /\ mood = "calm"
      BY <2>1, <2>3, <1>3 DEF TypeOK, Moods
    <3>2. Sleeps(TRUE)
      BY <3>1, <2>1 DEF Sleeps
    <3> QED BY <3>1, <3>2, <2>3, <1>2, <1>3, <1>5
  <2> QED BY <2>2, <2>3, <1>7
<1> QED BY <1>8, <1>9, <1>10, <1>11, <1>12, <1>13

LEMMA ClassifyInv == IInv /\ Classify => IInv'
<1> SUFFICES ASSUME IInv, Classify PROVE IInv'
  OBVIOUS
<1>1. /\ UNCHANGED <<target, session, mood, changes, baseline, trials, met, slept>>
      /\ Len(baseline) = BaselinePreferred /\ Collected /\ verdict' = Verdict
  BY DEF Classify, targetVars
<1>2. /\ ValidTrials' = ValidTrials /\ Late' = Late /\ FailureSeen' = FailureSeen
      /\ Collected' = Collected /\ Verdict' = Verdict /\ Undisturbed' = Undisturbed
  BY <1>1 DEF ValidTrials, Late, FailureSeen, Collected, Enough, Verdict, BaselineStatistics,
              DelayedTrials, AggregatePasses, Decision, Undisturbed
<1>3. verdict' \in {"TRUE_POSITIVE", "FALSE_POSITIVE", "INCONCLUSIVE"}
  BY <1>1 DEF Verdict
<1>4. TypeOK'
  BY <1>1, <1>3 DEF IInv, TypeOK
<1> QED BY <1>1, <1>2, <1>4
        DEF IInv, InOrder, Classified, RefusalsShow, BaselineTimely, LateTrialsSlept,
            ValidTrialsSleep

\* The invariant holds of every reachable state.
LEMMA InvHolds == Spec => []IInv
<1>1. IInv /\ [Next]_vars => IInv'
  <2> SUFFICES ASSUME IInv, [Next]_vars PROVE IInv'
    OBVIOUS
  <2>1. CASE UNCHANGED vars
    <3>1. UNCHANGED <<target, session, mood, changes, baseline, trials, verdict, met, slept>>
      BY <2>1 DEF vars, targetVars
    <3>2. /\ ValidTrials' = ValidTrials /\ Late' = Late /\ FailureSeen' = FailureSeen
          /\ Collected' = Collected /\ Verdict' = Verdict /\ Undisturbed' = Undisturbed
      BY <3>1 DEF ValidTrials, Late, FailureSeen, Collected, Enough, Verdict,
                  BaselineStatistics, DelayedTrials, AggregatePasses, Decision, Undisturbed
    <3> QED BY <3>1, <3>2
            DEF IInv, TypeOK, InOrder, Classified, RefusalsShow, BaselineTimely,
                LateTrialsSlept, ValidTrialsSleep
  <2> QED BY <2>1, TargetInv, BaselineReplayInv, TrialInv, ClassifyInv
          DEF Next, Verification
<1> QED BY InitInv, <1>1, PTL DEF Spec

-----------------------------------------------------------------------------
(* The theorems. *)

\* Every sample, count and verdict stays within its type, five trials and seven
\* baseline samples at most, whatever the target answers.
THEOREM TimeTypeCorrect == Spec => []TypeOK
BY InvHolds, PTL DEF IInv

\* What a verdict other than INCONCLUSIVE is drawn from: seven valid baseline
\* samples and three trials, all of them valid.
LEMMA DecidedFact ==
  ASSUME IInv, verdict \in {"TRUE_POSITIVE", "FALSE_POSITIVE"}
  PROVE  /\ ~ FailureSeen /\ Stable(BaselineStatistics) /\ verdict = Verdict
         /\ baseline \in Seq(Samples) /\ Len(baseline) = 7 /\ DOMAIN baseline = 1..7
         /\ trials \in Seq(Samples) /\ Len(trials) = 3
         /\ ValidTrials = 1..3
<1>1. /\ verdict = Verdict /\ ~ FailureSeen /\ Stable(BaselineStatistics) /\ Enough
      /\ Len(baseline) = 7
  BY DEF IInv, Classified, Verdict, BaselinePreferred
<1>2. baseline \in Seq(Samples) /\ trials \in Seq(Samples) /\ Len(trials) \in Nat
  BY DEF IInv, TypeOK
<1>3. DOMAIN baseline = 1..7 /\ DOMAIN trials = 1..Len(trials)
  BY <1>1, <1>2
<1>4. ValidTrials = 1..Len(trials)
  BY <1>1, <1>3 DEF ValidTrials, FailureSeen
<1>5. Cardinality(ValidTrials) = Len(trials)
  <2>1. Cardinality(1..Len(trials)) = Len(trials)
    BY <1>2, IndexFact
  <2> QED BY <1>4, <2>1
<1>6. Len(trials) = 3
  BY <1>1, <1>2, <1>5 DEF IInv, InOrder, Enough, TrialsMin
<1> QED BY <1>1, <1>2, <1>3, <1>4, <1>6

\* Contrary to what its documentation says, no retry of collect_verification_trials
\* ever leads to a verdict, for _collect_failure_reasons counts the replaced trial
\* too: a verdict has exactly three trials behind it, and the target neither
\* limited the rate nor was down at any replay.
THEOREM RefusedRetriesNeverDecide == Spec => []RetriesNeverDecide
<1>1. IInv => RetriesNeverDecide
  BY DecidedFact DEF RetriesNeverDecide, IInv, RefusalsShow, TrialsMin
<1> QED BY InvHolds, <1>1, PTL

\* What the rules make of seven valid baseline samples: the median is one of
\* the baseline's times, and a deviation of five MAD is twice the median at most.
LEMMA BaselineFact ==
  ASSUME IInv, verdict \in {"TRUE_POSITIVE", "FALSE_POSITIVE"}, "busy" \notin met
  PROVE  \E x \in target.times :
           /\ x \in Nat
           /\ BaselineStatistics.median2 = 2 * x
           /\ BaselineStatistics.mad4 \in Nat /\ 5 * BaselineStatistics.mad4 <= 4 * x
<1> DEFINE D == {j \in DOMAIN baseline : Valid(baseline[j])}
           v == Times(baseline)
           w == [i \in D |-> Distance(2 * v[i], Median2(v))]
<1>1. /\ ~ FailureSeen /\ Stable(BaselineStatistics)
      /\ baseline \in Seq(Samples) /\ Len(baseline) = 7 /\ DOMAIN baseline = 1..7
  BY DecidedFact
<1>2. D = 1..7 /\ \A i \in D : Valid(baseline[i])
  BY <1>1 DEF FailureSeen
<1>3. v = [i \in D |-> baseline[i].time]
  BY DEF Times
<1>4. \A i \in D : baseline[i].time \in Nat /\ baseline[i].time \in target.times
  <2>1. \A i \in 1..7 : baseline[i] \in Samples
    BY <1>1, ElementOfSeq
  <2>2. \A i \in 1..7 : baseline[i].time \in Nat
    BY <2>1 DEF Samples
  <2> QED BY <1>1, <1>2, <2>2 DEF IInv, BaselineTimely
<1> HIDE DEF D
<1>5. v \in [D -> Nat] /\ DOMAIN v = D /\ \A i \in D : v[i] \in target.times
  BY <1>3, <1>4
<1>6. D \in SUBSET (1..7) /\ Cardinality(D) = 7
  <2>1. Cardinality(1..7) = 7
    BY IndexFact
  <2> QED BY <1>2, <2>1
<1> HIDE DEF v
<1>7. PICK i \in D : Median2(v) = 2 * v[i]
  BY <1>5, <1>6, OddMedian
<1>8. w \in [D -> Nat]
  <2>1. Median2(v) \in Nat
    BY <1>5, <1>7
  <2>2. \A j \in D : Distance(2 * v[j], Median2(v)) \in Nat
    BY <1>5, <2>1 DEF Distance
  <2> QED BY <2>2
<1> HIDE DEF w
<1>9. PICK j \in D : Median2(w) = 2 * w[j]
  BY <1>6, <1>8, OddMedian
<1>10. BaselineStatistics = [count |-> 7, median2 |-> Median2(v), mad4 |-> Median2(w)]
  BY <1>2, <1>5, <1>6 DEF BaselineStatistics, Statistics, v, w
<1>11. /\ BaselineStatistics.median2 = 2 * v[i] /\ v[i] \in target.times /\ v[i] \in Nat
       /\ BaselineStatistics.mad4 = 2 * w[j] /\ w[j] \in Nat
  BY <1>5, <1>7, <1>8, <1>9, <1>10
<1>12. 5 * BaselineStatistics.mad4 <= 2 * BaselineStatistics.median2
  BY <1>1 DEF Stable
<1> QED BY <1>11, <1>12

\* A TRUE_POSITIVE is the payload's doing, for every set of targets whose jitter
\* alone does not reach the threshold of a delayed trial.
THEOREM DelayProvesSleep == JitterBelowDelay => (Spec => []TruePositiveSlept)
<1> SUFFICES ASSUME JitterBelowDelay PROVE Spec => []TruePositiveSlept
  OBVIOUS
<1>1. IInv => TruePositiveSlept
  <2> SUFFICES ASSUME IInv, verdict = "TRUE_POSITIVE", "busy" \notin met
               PROVE  slept >= 2
    BY DEF TruePositiveSlept
  <2> DEFINE b == BaselineStatistics
             Hits == {i \in DOMAIN Decision : Delayed(b, Decision[i])}
  <2>1. /\ verdict = Verdict /\ trials \in Seq(Samples) /\ Len(trials) = 3
        /\ ValidTrials = 1..3 /\ DOMAIN trials = 1..3
    BY DecidedFact
  <2>2. Cardinality(Hits) >= 2
    BY <2>1 DEF Verdict, DelayedTrials, DelayedRequired
  <2>3. PICK x \in target.times :
          x \in Nat /\ b.median2 = 2 * x /\ b.mad4 \in Nat /\ 5 * b.mad4 <= 4 * x
    BY BaselineFact
  <2>4. \A i \in DOMAIN Decision :
          i \in ValidTrials /\ Decision[i] = trials[i].time /\ trials[i].time \in Nat
    <3>1. \A i \in 1..3 : trials[i] \in Samples
      BY <2>1, ElementOfSeq
    <3>2. \A i \in 1..3 : trials[i].time \in Nat
      BY <3>1 DEF Samples
    <3> QED BY <2>1, <3>2 DEF Decision
  <2> HIDE DEF b
  <2>5. ASSUME NEW i \in Hits PROVE i \in Late
    <3>1. /\ i \in ValidTrials /\ Decision[i] = trials[i].time /\ trials[i].time \in Nat
          /\ Delayed(b, trials[i].time)
      BY <2>4
    <3> DEFINE time == trials[i].time
    <3>2. time - x >= DelayFloor /\ time >= 2 * x
      BY <2>3, <3>1 DEF Delayed, Threshold4, DelayFloor
    <3>3. time \notin target.times
      <4> SUFFICES ASSUME time \in target.times PROVE FALSE
        OBVIOUS
      <4>1. target \in Targets
        BY DEF IInv, TypeOK
      <4>2. time - x < DelayFloor \/ time < 2 * x
        BY <2>3, <4>1 DEF JitterBelowDelay
      <4> QED BY <2>3, <3>1, <3>2, <4>2 DEF DelayFloor
    <3> QED BY <3>1, <3>3 DEF Late
  <2>6. Hits \subseteq Late /\ Late \in SUBSET (1..3)
    BY <2>1, <2>5 DEF Late
  <2> HIDE DEF Hits
  <2>7. Cardinality(Hits) <= Cardinality(Late)
    BY <2>6, CountFact, FS_Subset
  <2>8. Cardinality(Hits) \in 0..3 /\ Cardinality(Late) \in 0..3
    <3>1. Hits \in SUBSET (1..3)
      BY <2>6
    <3> QED BY <2>6, <3>1, CountFact
  <2>9. Cardinality(Late) <= slept /\ slept \in Nat
    BY DEF IInv, LateTrialsSlept, TypeOK
  <2> QED BY <2>2, <2>7, <2>8, <2>9
<1> QED BY InvHolds, <1>1, PTL

\* A vulnerable target is never called a FALSE_POSITIVE, for every set of targets
\* whose jitter the payload's sleep outweighs.
THEOREM SleepIsNeverMissed == SleepAboveJitter => (Spec => []FalsePositiveIsSafe)
<1> SUFFICES ASSUME SleepAboveJitter PROVE Spec => []FalsePositiveIsSafe
  OBVIOUS
<1>1. IInv => FalsePositiveIsSafe
  <2> SUFFICES ASSUME IInv, verdict = "FALSE_POSITIVE", Undisturbed PROVE FALSE
    BY DEF FalsePositiveIsSafe, Undisturbed
  <2> DEFINE b == BaselineStatistics
  <2>1. /\ verdict = Verdict /\ trials \in Seq(Samples) /\ Len(trials) = 3
        /\ ValidTrials = 1..3 /\ DOMAIN trials = 1..3
    BY DecidedFact
  <2>2. ~ (DelayedTrials(b) >= DelayedRequired /\ AggregatePasses(b))
    BY <2>1 DEF Verdict
  <2>3. "busy" \notin met
    BY DEF Undisturbed
  <2>4. PICK x \in target.times :
          x \in Nat /\ b.median2 = 2 * x /\ b.mad4 \in Nat /\ 5 * b.mad4 <= 4 * x
    BY <2>3, BaselineFact
  <2>5. DOMAIN Decision = 1..3 /\ \A i \in 1..3 : Decision[i] = trials[i].time
    <3>1. ASSUME NEW j \in 1..3 PROVE Cardinality({k \in 1..3 : k <= j}) <= 3
      <4> DEFINE K == {k \in 1..3 : k <= j}
      <4>1. K \in SUBSET (1..3) /\ 3 \in Nat
        OBVIOUS
      <4> HIDE DEF K
      <4>2. Cardinality(K) \in 0..3
        BY <4>1, CountFact
      <4> QED BY <4>2 DEF K
    <3> QED BY <2>1, <3>1 DEF Decision, TrialsMin
  <2> HIDE DEF b
  <2>6. ASSUME NEW i \in 1..3
        PROVE  /\ Decision[i] \in Nat
               /\ 4 * Decision[i] - 4 * x >= Threshold4(b) /\ Decision[i] >= 2 * x
    <3>1. PICK t \in target.times : trials[i].time = t + Sleep
      BY <2>1 DEF IInv, ValidTrialsSleep
    <3>2. t \in Nat /\ 2 * x <= t + Sleep
      BY TimeBasedAssumption DEF SleepAboveJitter, IInv, TypeOK, TargetKinds
    <3>3. Decision[i] = t + 50 /\ 2 * x <= t + 50
      BY <2>5, <3>1, <3>2 DEF Sleep
    <3> QED BY <2>4, <3>2, <3>3 DEF Threshold4, DelayFloor
  <2>7. Decision \in [1..3 -> Nat]
    <3>1. Decision = [i \in DOMAIN Decision |-> Decision[i]]
      BY DEF Decision
    <3> QED BY <2>5, <2>6, <3>1
  <2>8. Cardinality(1..3) = 3
    BY IndexFact
  <2>9. DelayedTrials(b) >= DelayedRequired
    <3>1. \A i \in 1..3 : Delayed(b, Decision[i])
      BY <2>4, <2>6 DEF Delayed
    <3>2. {i \in DOMAIN Decision : Delayed(b, Decision[i])} = 1..3
      BY <2>5, <3>1
    <3> QED BY <2>8, <3>2 DEF DelayedTrials, DelayedRequired
  <2>10. PICK i \in 1..3 : Median2(Decision) = 2 * Decision[i]
    BY <2>7, <2>8, OddMedian
  <2>11. Threshold4(b) \in Nat
    BY <2>4 DEF Threshold4, DelayFloor
  <2>12. AggregatePasses(b)
    BY <2>4, <2>6, <2>10, <2>11 DEF AggregatePasses
  <2> QED BY <2>2, <2>9, <2>12
<1> QED BY InvHolds, <1>1, PTL

=============================================================================
