----------------------- MODULE XssVerificationProofs -----------------------
(***************************************************************************)
(* What a reflected XSS verdict may be trusted for, whatever the           *)
(* application and the sessions do between two replays: proofs of TypeOK,  *)
(* OneLoginKept, TruePositiveRuns, FalsePositiveWhollyLost and             *)
(* DetectedWhenSessionHolds for every set of runs and any number of        *)
(* changes of mood.                                                        *)
(***************************************************************************)
EXTENDS XssVerification, FiniteSetTheorems, TLAPS

\* As long as nothing is remembered, every login was one that raised.
LoginsCounted == logins <= raised + 1 /\ (cache = "unasked" => logins = raised)

\* A verdict is the classifier's on all attempts of the finding at hand.
Classified ==
  /\ verdict # "NONE" => ~ Ended
  /\ verdict \notin {"NONE", "ERROR"} => verdict = Verdict(attempts)

\* Something else than the page never repeats a payload.
LostShowsNothing ==
  \A i \in lost : attempts[i].bucket \in {"ABSENT", "NONE"}

PageReply == [status |-> 200, page |-> Finding.page, policy |-> Finding.policy]

\* Every other attempt saw the page.
AnsweredShowsPage ==
  ~ Ended =>
    \A i \in DOMAIN attempts \ lost :
      attempts[i] = Attempt(Finding.payloads[i], PageReply)

IInv ==
  /\ TypeOK
  /\ LoginsCounted
  /\ Classified
  /\ LostShowsNothing
  /\ AnsweredShowsPage

-----------------------------------------------------------------------------
(* The rules for one reply. *)

\* A page's answers about a payload are at most two, and where they are one,
\* Bucket picks it.
LEMMA ResolutionsFact ==
  ASSUME NEW payload, NEW page
  PROVE  /\ IsFiniteSet(Resolutions(payload, page))
         /\ \A r \in Resolutions(payload, page) :
              Cardinality(Resolutions(payload, page)) = 1
                => Resolutions(payload, page) = {r}
         /\ Cardinality(Resolutions(payload, page)) = 1
              => Resolutions(payload, page) # {}
<1> DEFINE R == Resolutions(payload, page)
<1>1. IsFiniteSet({"EXECUTABLE", "INERT"})
  <2>1. IsFiniteSet({"EXECUTABLE"})
    BY FS_Singleton
  <2>2. IsFiniteSet({"EXECUTABLE"} \cup {"INERT"})
    BY <2>1, FS_AddElement
  <2>3. {"EXECUTABLE"} \cup {"INERT"} = {"EXECUTABLE", "INERT"}
    OBVIOUS
  <2>4. QED
    BY <2>2, <2>3
<1>2. R \in SUBSET {"EXECUTABLE", "INERT"}
  BY DEF Resolutions
<1>3. IsFiniteSet(R)
  BY <1>1, <1>2, FS_Subset
<1>4. Cardinality(R) = 1 => \E x : R = {x}
  BY <1>3, FS_Singleton
<1>5. QED
  BY <1>3, <1>4

\* What the rules can say of a payload in a page that shows it somewhere.
LEMMA BucketFact ==
  ASSUME NEW payload, NEW page, page.places # {}
  PROVE  \/ Bucket(payload, page) = "AMBIGUOUS"
         \/ /\ Bucket(payload, page) \in {"EXECUTABLE", "INERT"}
            /\ Resolutions(payload, page) = {Bucket(payload, page)}
<1> DEFINE R == Resolutions(payload, page)
<1>1. CASE Cardinality(R) = 1
  <2>1. PICK r \in R : TRUE
    BY <1>1, ResolutionsFact
  <2>2. R = {r}
    BY <1>1, <2>1, ResolutionsFact
  <2>3. (CHOOSE b \in R : TRUE) = r
    BY <2>2
  <2>4. Bucket(payload, page) = r
    BY <1>1, <2>3 DEF Bucket
  <2>5. r \in {"EXECUTABLE", "INERT"}
    BY <2>1 DEF Resolutions
  <2>6. QED
    BY <2>2, <2>4, <2>5
<1>2. CASE Cardinality(R) # 1
  BY <1>2 DEF Bucket
<1>3. QED
  BY <1>1, <1>2

\* Whatever the page, an attempt is one of Attempts.
LEMMA AttemptFact ==
  ASSUME NEW payload, NEW reply, reply.status \in Statuses
  PROVE  Attempt(payload, reply) \in Attempts
<1>1. Bucket(payload, reply.page) \in Buckets
  <2>1. CASE reply.page.places = {}
    BY <2>1 DEF Bucket, NotRepeated, Buckets
  <2>2. CASE reply.page.places # {}
    BY <2>2, BucketFact DEF Buckets
  <2>3. QED
    BY <2>1, <2>2
<1>2. Permits(reply.policy) \in BOOLEAN
  <2>1. CASE reply.policy.script \in {"missing", "empty"}
    <3>1. Permits(reply.policy) = (reply.policy.default \in Inline \cup {"missing"})
      BY <2>1 DEF Permits
    <3>2. (reply.policy.default \in Inline \cup {"missing"}) \in BOOLEAN
      BY DEF Inline
    <3>3. QED
      BY <3>1, <3>2
  <2>2. CASE reply.policy.script \notin {"missing", "empty"}
    <3>1. Permits(reply.policy) = (reply.policy.script \in Inline)
      BY <2>2 DEF Permits
    <3>2. (reply.policy.script \in Inline) \in BOOLEAN
      BY DEF Inline
    <3>3. QED
      BY <3>1, <3>2
  <2>3. QED
    BY <2>1, <2>2
<1>3. (IF reply.status \in {NoStatus, 500} THEN "NONE"
       ELSE Bucket(payload, reply.page)) \in Buckets
  BY <1>1 DEF Buckets
<1>4. QED
  BY <1>2, <1>3 DEF Attempt, Attempts

\* The classifier knows three verdicts.
LEMMA VerdictFact ==
  ASSUME NEW a
  PROVE  Verdict(a) \in {"TRUE_POSITIVE", "FALSE_POSITIVE", "INCONCLUSIVE"}
BY DEF Verdict

-----------------------------------------------------------------------------
(* The state machine. *)

\* The finding at hand is one of the run's.
LEMMA FindingFact ==
  ASSUME TypeOK, ~ Ended
  PROVE  /\ Finding \in Findings
         /\ position \in 1..Len(run)
         /\ Len(run) \in Nat
<1>1. run \in Seq(Findings)
  BY XssAssumption DEF TypeOK
<1>2. position \in 1..Len(run) /\ Len(run) \in Nat
  BY <1>1 DEF TypeOK, Ended
<1>3. QED
  BY <1>1, <1>2 DEF Finding

\* The application answers with the page, or with something that repeats nothing.
LEMMA ReplyFact ==
  ASSUME TypeOK, ~ Ended
  PROVE  /\ Reply.status \in Statuses
         /\ Answered => Reply = PageReply
         /\ ~ Answered => Reply.page = OtherPage
<1>1. Finding.lapsed \in {302, 401, 403}
  BY FindingFact DEF Findings
<1>2. mood \in {"calm", "throttling", "failing", "down"}
  BY DEF TypeOK, Moods
<1>3. CASE Answered
  <2>1. mood = "calm"
    BY <1>3 DEF Answered
  <2>2. Reply = PageReply
    BY <1>3, <2>1 DEF Reply, PageReply
  <2>3. QED
    BY <1>3, <2>2 DEF PageReply, Statuses
<1>4. CASE ~ Answered
  <2>1. PICK s \in Statuses : Reply = Other(s)
    BY <1>1, <1>2, <1>4 DEF Reply, Statuses, NoStatus
  <2>2. QED
    BY <1>4, <2>1 DEF Other
<1>5. QED
  BY <1>3, <1>4

\* A run begins with nothing done.
LEMMA InitIInv == Init => IInv
<1> SUFFICES ASSUME Init PROVE IInv
  OBVIOUS
<1>1. run \in Runs /\ run \in Seq(Findings) /\ Len(run) \in Nat
  BY XssAssumption DEF Init
<1>2. position \in 1..(Len(run) + 1)
  BY <1>1 DEF Init
<1>3. attempts \in Seq(Attempts) /\ Len(attempts) = 0
  BY DEF Init
<1>4. ~ Ended => Len(attempts) <= Len(Finding.payloads)
  <2> SUFFICES ASSUME ~ Ended PROVE 0 <= Len(Finding.payloads)
    BY <1>3
  <2>1. Finding \in Findings
    BY <1>1, <1>2 DEF Ended, Finding
  <2>2. Finding.payloads \in Seq(Payloads)
    BY <2>1 DEF Findings
  <2>3. QED
    BY <2>2
<1>5. /\ changes \in 0..MaxMoods /\ lost \subseteq DOMAIN attempts
      /\ logins \in Nat /\ raised \in Nat
  BY XssAssumption DEF Init
<1>6. TypeOK
  BY <1>1, <1>2, <1>3, <1>4, <1>5 DEF Init, TypeOK
<1>7. LoginsCounted /\ Classified /\ LostShowsNothing
  BY DEF Init, LoginsCounted, Classified, LostShowsNothing
<1>8. AnsweredShowsPage
  BY DEF Init, AnsweredShowsPage
<1>9. QED
  BY <1>6, <1>7, <1>8 DEF IInv

\* Neither the application nor the resolution of a session touches the finding
\* under verification, and only a login that was never asked for is counted.
LEMMA SessionIInv ==
  ASSUME IInv,
         \/ KeepCaptured \/ UseCached \/ Login \/ NoLogin
         \/ MoodChanges \/ SessionLapses \/ UNCHANGED vars
  PROVE  IInv'
<1> USE DEF IInv
<1>1. UNCHANGED <<givenVars, findingVars>>
  BY DEF KeepCaptured, UseCached, Login, NoLogin, MoodChanges, SessionLapses, vars
<1>2. /\ run' = run /\ credentials' = credentials /\ position' = position
      /\ attempts' = attempts /\ verdict' = verdict /\ lost' = lost
  BY <1>1 DEF givenVars, findingVars
<1>3. Finding' = Finding /\ Ended' = Ended
  BY <1>2 DEF Finding, Ended
<1>4. Classified' /\ LostShowsNothing'
  BY <1>2, <1>3 DEF Classified, LostShowsNothing
<1>5. AnsweredShowsPage'
  BY <1>2, <1>3 DEF AnsweredShowsPage, PageReply
<1>6. LoginsCounted' /\ logins' \in Nat /\ raised' \in Nat
  <2>1. CASE Login
    <3>1. \E cookie \in LoginCookies : cache' = Remembered(cookie)
      BY <2>1 DEF Login
    <3>2. cache' # "unasked"
      BY <3>1 DEF LoginCookies, Remembered
    <3>3. logins = raised /\ logins' = logins + 1 /\ raised' = raised
      BY <2>1 DEF Login, LoginsCounted
    <3>4. QED
      BY <3>2, <3>3 DEF LoginsCounted, TypeOK
  <2>2. CASE NoLogin
    BY <2>2 DEF NoLogin, Remembered, LoginsCounted, TypeOK
  <2>3. CASE KeepCaptured \/ UseCached \/ MoodChanges \/ SessionLapses \/ UNCHANGED vars
    <3>1. logins' = logins /\ raised' = raised /\ cache' = cache
      BY <2>3 DEF KeepCaptured, UseCached, MoodChanges, SessionLapses, sessionVars, vars
    <3>2. QED
      BY <3>1 DEF LoginsCounted, TypeOK
  <2>4. QED
    BY <2>1, <2>2, <2>3
<1>7. TypeOK'
  <2>1. /\ mood' \in Moods /\ changes' \in 0..MaxMoods
        /\ capturedSession' \in {"live", "lapsed"}
        /\ freshSession' \in {"none", "live", "lapsed"}
    <3>1. CASE Login
      BY <3>1 DEF Login, SessionOfLogin, TypeOK
    <3>2. CASE MoodChanges
      BY <3>2, XssAssumption DEF MoodChanges, TypeOK
    <3>3. CASE SessionLapses
      BY <3>3 DEF SessionLapses, TypeOK
    <3>4. CASE KeepCaptured \/ UseCached \/ NoLogin \/ UNCHANGED vars
      BY <3>4 DEF KeepCaptured, UseCached, NoLogin, applicationVars, vars, TypeOK
    <3>5. QED
      BY <3>1, <3>2, <3>3, <3>4
  <2>2. /\ cache' \in {"unasked", "none", "cookie"}
        /\ override' \in {"unresolved", "captured", "fresh"}
    <3>1. CASE Login
      <4>1. PICK cookie \in LoginCookies :
              cache' = Remembered(cookie) /\ override' = OverrideOf(cookie)
        BY <3>1 DEF Login
      <4>2. QED
        BY <4>1 DEF LoginCookies, Remembered, OverrideOf
    <3>2. CASE KeepCaptured \/ UseCached \/ NoLogin
      BY <3>2 DEF KeepCaptured, UseCached, NoLogin, Remembered, OverrideOf, TypeOK
    <3>3. CASE MoodChanges \/ SessionLapses \/ UNCHANGED vars
      BY <3>3 DEF MoodChanges, SessionLapses, sessionVars, vars, TypeOK
    <3>4. QED
      BY <3>1, <3>2, <3>3
  <2>3. QED
    BY <1>2, <1>3, <1>6, <2>1, <2>2 DEF TypeOK
<1>8. QED
  BY <1>4, <1>5, <1>6, <1>7

\* One replay preserves the invariant.
LEMMA ReplayIInv ==
  ASSUME IInv, Replay PROVE IInv'
<1> USE DEF IInv
<1> DEFINE i == Len(attempts) + 1
           a == Attempt(Finding.payloads[i], Reply)
<1>1. /\ ~ Ended /\ verdict = "NONE" /\ Len(attempts) < Len(Finding.payloads)
      /\ attempts' = Append(attempts, a)
      /\ lost' = IF Answered THEN lost ELSE lost \cup {i}
  BY DEF Replay, Ready
<1>2. UNCHANGED <<givenVars, applicationVars, sessionVars, position, verdict>>
  BY DEF Replay
<1>3. Finding' = Finding /\ Ended' = Ended /\ verdict' = verdict
  BY <1>2 DEF Finding, Ended, givenVars
<1>4. Finding.payloads \in Seq(Payloads) /\ Len(Finding.payloads) \in Nat
  BY <1>1, FindingFact DEF Findings
<1>5. attempts \in Seq(Attempts) /\ Len(attempts) \in Nat /\ lost \subseteq DOMAIN attempts
  BY DEF TypeOK
<1>6. a \in Attempts
  BY <1>1, ReplyFact, AttemptFact
<1>7. /\ attempts' \in Seq(Attempts)
      /\ Len(attempts') = i /\ DOMAIN attempts' = 1..i
      /\ DOMAIN attempts = 1..Len(attempts)
      /\ attempts'[i] = a
      /\ \A j \in DOMAIN attempts : attempts'[j] = attempts[j]
  BY <1>1, <1>5, <1>6
<1>8. i \notin DOMAIN attempts /\ DOMAIN attempts' = DOMAIN attempts \cup {i}
  BY <1>5, <1>7
<1>9. TypeOK'
  <2>1. lost' \subseteq DOMAIN attempts'
    BY <1>1, <1>5, <1>8
  <2>2. Len(attempts') <= Len(Finding.payloads)
    BY <1>1, <1>4, <1>5, <1>7
  <2>3. QED
    BY <1>2, <1>3, <1>7, <2>1, <2>2
       DEF TypeOK, givenVars, applicationVars, sessionVars
<1>10. LoginsCounted'
  BY <1>2 DEF LoginsCounted, sessionVars
<1>11. Classified'
  BY <1>1, <1>3 DEF Classified
<1>12. LostShowsNothing'
  <2>1. ~ Answered => a.bucket \in {"ABSENT", "NONE"}
    <3> SUFFICES ASSUME ~ Answered PROVE a.bucket \in {"ABSENT", "NONE"}
      OBVIOUS
    <3>1. Reply.page = OtherPage
      BY <1>1, ReplyFact
    <3>2. Bucket(Finding.payloads[i], Reply.page) = "ABSENT"
      BY <3>1 DEF OtherPage, Bucket, NotRepeated
    <3>3. QED
      BY <3>2 DEF Attempt
  <2>2. \A j \in lost : attempts'[j] = attempts[j]
    BY <1>5, <1>7
  <2>3. QED
    BY <1>1, <1>7, <2>1, <2>2 DEF LostShowsNothing
<1>13. AnsweredShowsPage'
  <2>1. PageReply' = PageReply
    BY <1>3 DEF PageReply
  <2>2. Answered => a = Attempt(Finding.payloads[i], PageReply)
    BY <1>1, ReplyFact
  <2>3. \A j \in DOMAIN attempts' \ lost' :
          attempts'[j] = Attempt(Finding.payloads[j], PageReply)
    <3> SUFFICES ASSUME NEW j \in DOMAIN attempts' \ lost'
                 PROVE  attempts'[j] = Attempt(Finding.payloads[j], PageReply)
      OBVIOUS
    <3>1. CASE j = i
      BY <1>1, <1>7, <2>2, <3>1
    <3>2. CASE j # i
      <4>1. j \in DOMAIN attempts \ lost
        BY <1>1, <1>8, <3>2
      <4>2. QED
        BY <1>1, <1>7, <4>1 DEF AnsweredShowsPage
    <3>3. QED
      BY <3>1, <3>2
  <2>4. QED
    BY <1>3, <2>1, <2>3 DEF AnsweredShowsPage
<1>14. QED
  BY <1>9, <1>10, <1>11, <1>12, <1>13

\* The verdict of a finding, its refusal, or the error of its login preserves the
\* invariant.
LEMMA VerdictIInv ==
  ASSUME IInv, Refuse \/ Classify \/ LoginRaises PROVE IInv'
<1> USE DEF IInv
<1>1. /\ ~ Ended
      /\ \/ verdict' = "ERROR"
         \/ verdict' = Verdict(attempts)
      /\ UNCHANGED <<givenVars, applicationVars, cache, override, position, attempts,
                     lost>>
  BY DEF Refuse, Classify, Ready, LoginRaises, Unresolved, sessionVars
<1>2. Finding' = Finding /\ Ended' = Ended /\ attempts' = attempts /\ lost' = lost
  BY <1>1 DEF Finding, Ended, givenVars
<1>3. verdict' \in {"NONE", "TRUE_POSITIVE", "FALSE_POSITIVE", "INCONCLUSIVE", "ERROR"}
  BY <1>1, VerdictFact
<1>4. LoginsCounted' /\ logins' \in Nat /\ raised' \in Nat
  <2>1. CASE LoginRaises
    <3>1. /\ cache = "unasked" /\ cache' = cache
          /\ logins' = logins + 1 /\ raised' = raised + 1
      BY <2>1 DEF LoginRaises
    <3>2. QED
      BY <3>1 DEF LoginsCounted, TypeOK
  <2>2. CASE Refuse \/ Classify
    <3>1. logins' = logins /\ raised' = raised /\ cache' = cache
      BY <2>2 DEF Refuse, Classify, sessionVars
    <3>2. QED
      BY <3>1 DEF LoginsCounted, TypeOK
  <2>3. QED
    BY <2>1, <2>2
<1>5. TypeOK' /\ LostShowsNothing'
  BY <1>1, <1>2, <1>3, <1>4
     DEF TypeOK, LostShowsNothing, givenVars, applicationVars
<1>6. Classified'
  BY <1>1, <1>2 DEF Classified
<1>7. AnsweredShowsPage'
  BY <1>2 DEF AnsweredShowsPage, PageReply
<1>8. QED
  BY <1>4, <1>5, <1>6, <1>7

\* Going on to the next finding preserves the invariant.
LEMMA NextFindingIInv ==
  ASSUME IInv, NextFinding PROVE IInv'
<1> USE DEF IInv
<1>1. /\ ~ Ended
      /\ position' = position + 1 /\ override' = "unresolved"
      /\ attempts' = <<>> /\ verdict' = "NONE" /\ lost' = {}
      /\ UNCHANGED <<givenVars, applicationVars, cache, logins, raised>>
  BY DEF NextFinding
<1>2. run' = run /\ run \in Seq(Findings) /\ run \in Runs
  BY <1>1, XssAssumption DEF TypeOK, givenVars
<1>3. position' \in 1..(Len(run') + 1)
  BY <1>1, <1>2, FindingFact
<1>4. Ended' \/ Len(attempts') <= Len(Finding'.payloads)
  <2> SUFFICES ASSUME ~ Ended' PROVE 0 <= Len(Finding'.payloads)
    BY <1>1
  <2>1. position' \in 1..Len(run')
    BY <1>2, <1>3 DEF Ended
  <2>2. Finding' \in Findings
    BY <1>2, <2>1 DEF Finding
  <2>3. Finding'.payloads \in Seq(Payloads)
    BY <2>2 DEF Findings
  <2>4. QED
    BY <2>3
<1>5. attempts' \in Seq(Attempts) /\ lost' \subseteq DOMAIN attempts'
  BY <1>1
<1>6. TypeOK'
  BY <1>1, <1>2, <1>3, <1>4, <1>5 DEF TypeOK, givenVars, applicationVars
<1>7. LoginsCounted' /\ Classified' /\ LostShowsNothing' /\ AnsweredShowsPage'
  BY <1>1 DEF LoginsCounted, Classified, LostShowsNothing, AnsweredShowsPage
<1>8. QED
  BY <1>6, <1>7

\* The inductive invariant holds in every behaviour.
LEMMA IInvHolds == Spec => []IInv
<1>1. IInv /\ [Next]_vars => IInv'
  BY SessionIInv, ReplayIInv, VerdictIInv, NextFindingIInv DEF Next
<1>2. QED
  BY InitIInv, <1>1, PTL DEF Spec

-----------------------------------------------------------------------------

\* Type correctness of the XSS verifications of a run.
THEOREM XssTypeCorrect == Spec => []TypeOK
<1>1. IInv => TypeOK
  BY DEF IInv
<1>2. QED
  BY <1>1, IInvHolds, PTL

\* A run logs in again only after a login whose cookies could not be read,
\* whatever the others gave and however many findings ask for one.
THEOREM XssOneLogin == Spec => []OneLoginKept
<1>1. IInv => OneLoginKept
  BY DEF IInv, LoginsCounted, OneLoginKept
<1>2. QED
  BY <1>1, IInvHolds, PTL

\* What confirms a verdict runs in a browser, but for what the code misjudges.
LEMMA ConfirmingRuns ==
  ASSUME IInv, ~ Ended, ~ Misjudged
  PROVE  Confirming(attempts) \in SUBSET Running
<1> SUFFICES ASSUME NEW i \in Confirming(attempts) PROVE i \in Running
  OBVIOUS
<1> USE DEF IInv
<1>1. /\ i \in DOMAIN attempts /\ attempts[i].permits
      /\ attempts[i].bucket = "EXECUTABLE"
  BY DEF Confirming
<1>2. i \notin lost
  BY <1>1 DEF LostShowsNothing
<1>3. attempts[i] = Attempt(Finding.payloads[i], PageReply)
  BY <1>1, <1>2 DEF AnsweredShowsPage
<1>4. /\ Bucket(Finding.payloads[i], Finding.page) = "EXECUTABLE"
      /\ Permits(Finding.policy)
  BY <1>1, <1>3 DEF Attempt, PageReply
<1>5. Finding.page.places # {}
  BY <1>4 DEF Bucket, NotRepeated
<1>6. "EXECUTABLE" \in Resolutions(Finding.payloads[i], Finding.page)
  BY <1>4, <1>5, BucketFact
<1>7. \E place \in Finding.page.places : RunsAt(Finding.payloads[i], place)
  <2>1. CASE "handler" \in Finding.page.places
    <3>1. i \in DOMAIN Finding.payloads
      <4>1. Finding.payloads \in Seq(Payloads) /\ attempts \in Seq(Attempts)
        BY FindingFact DEF Findings, TypeOK
      <4>2. Len(attempts) <= Len(Finding.payloads)
        BY DEF TypeOK
      <4>3. QED
        BY <1>1, <4>1, <4>2
    <3>2. Finding.payloads[i] = "code"
      BY <2>1, <3>1 DEF Misjudged
    <3>3. QED
      BY <2>1, <3>2 DEF RunsAt
  <2>2. CASE "handler" \notin Finding.page.places
    <3>1. Finding.payloads[i] = "script" /\ "markup" \in Finding.page.places
      BY <1>6, <2>2 DEF Resolutions, Misjudged
    <3>2. QED
      BY <3>1 DEF RunsAt
  <2>3. QED
    BY <2>1, <2>2
<1>8. BrowserPermits(Finding.policy)
  <2>1. Finding.policy \in Policies
    BY FindingFact DEF Findings
  <2>2. QED
    BY <1>4, <2>1 DEF Permits, BrowserPermits, Misjudged, Policies, Sources, Inline
<1>9. QED
  BY <1>1, <1>2, <1>7, <1>8 DEF Running

\* A TRUE_POSITIVE rests on two payloads that the page itself repeated, and a
\* browser runs two of them, but for what the code is known to misjudge.
THEOREM XssTruePositiveRuns == Spec => []TruePositiveRuns
<1>1. IInv => TruePositiveRuns
  <2> SUFFICES ASSUME IInv, verdict = "TRUE_POSITIVE"
               PROVE  /\ Cardinality(DOMAIN attempts \ lost) >= 2
                      /\ Misjudged \/ Cardinality(Running) >= 2
    BY DEF TruePositiveRuns
  <2> USE DEF IInv
  <2> DEFINE C == Confirming(attempts)
             A == DOMAIN attempts \ lost
  <2>1. ~ Ended /\ verdict = Verdict(attempts)
    BY DEF Classified
  <2>2. Cardinality(C) >= 2
    BY <2>1 DEF Verdict, IsTruePositive
  <2>3. C \in SUBSET A
    BY DEF Confirming, LostShowsNothing
  <2>4. IsFiniteSet(A)
    <3>1. attempts \in Seq(Attempts) /\ DOMAIN attempts = 1..Len(attempts)
          /\ Len(attempts) \in Nat
      BY DEF TypeOK
    <3>2. IsFiniteSet(DOMAIN attempts)
      BY <3>1, FS_Interval
    <3>3. A \in SUBSET DOMAIN attempts
      OBVIOUS
    <3>4. QED
      BY <3>2, <3>3, FS_Subset
  <2>5. ASSUME NEW B \in SUBSET A, C \in SUBSET B PROVE Cardinality(B) >= 2
    <3>1. IsFiniteSet(B)
      BY <2>4, FS_Subset
    <3>2. IsFiniteSet(C) /\ Cardinality(C) <= Cardinality(B)
      BY <2>5, <3>1, FS_Subset
    <3>3. Cardinality(C) \in Nat /\ Cardinality(B) \in Nat
      BY <3>1, <3>2, FS_CardinalityType
    <3>4. QED
      BY <2>2, <3>2, <3>3
  <2>6. Cardinality(A) >= 2
    BY <2>3, <2>5
  <2>7. CASE ~ Misjudged
    <3>1. C \in SUBSET Running
      BY <2>1, <2>7, ConfirmingRuns
    <3>2. Running \in SUBSET A
      BY DEF Running
    <3>3. Cardinality(Running) >= 2
      BY <2>5, <3>1, <3>2
    <3>4. QED
      BY <2>6, <3>3
  <2>8. QED
    BY <2>6, <2>7
<1>2. QED
  BY <1>1, IInvHolds, PTL

\* A page that runs a payload where the code looks for it, and that answered one
\* of the replays, is never given a FALSE_POSITIVE.
THEOREM XssFalsePositiveWhollyLost == Spec => []FalsePositiveWhollyLost
<1>1. IInv => FalsePositiveWhollyLost
  <2> SUFFICES ASSUME IInv, verdict = "FALSE_POSITIVE",
                      NEW i \in DOMAIN attempts,
                      \/ Finding.payloads[i] = "script"
                         /\ "markup" \in Finding.page.places
                      \/ Finding.payloads[i] = "code"
                         /\ "handler" \in Finding.page.places,
                      NEW j \in DOMAIN attempts \ lost
               PROVE  FALSE
    BY DEF FalsePositiveWhollyLost, IInv, TypeOK
  <2> USE DEF IInv
  <2>1. ~ Ended /\ verdict = Verdict(attempts)
    BY DEF Classified
  <2>2. IsFalsePositive(attempts)
    BY <2>1 DEF Verdict
  <2>3. PICK b \in {"ABSENT", "ENCODED", "INERT"} :
          \A k \in DOMAIN attempts : attempts[k].bucket = b
    BY <2>2 DEF IsFalsePositive, Neutralized, AllMatch
  <2>4. Finding.page.places # {}
    OBVIOUS
  <2>5. \A k \in DOMAIN attempts \ lost :
          attempts[k].bucket = Bucket(Finding.payloads[k], Finding.page)
    BY <2>1 DEF AnsweredShowsPage, Attempt, PageReply, NoStatus
  <2>6. b = "INERT"
    BY <2>3, <2>4, <2>5, BucketFact
  <2>7. i \notin lost
    BY <2>3, <2>6 DEF LostShowsNothing
  <2>8. Bucket(Finding.payloads[i], Finding.page) = "INERT"
    BY <2>3, <2>5, <2>6, <2>7
  <2>9. Resolutions(Finding.payloads[i], Finding.page) = {"INERT"}
    BY <2>4, <2>8, BucketFact
  <2>10. "EXECUTABLE" \in Resolutions(Finding.payloads[i], Finding.page)
    BY DEF Resolutions
  <2>11. QED
    BY <2>9, <2>10
<1>2. QED
  BY <1>1, IInvHolds, PTL
-----------------------------------------------------------------------------
(* The session the replays of a finding are given, from its resolution to   *)
(* the verdict.                                                             *)

NeverTroubled == changes = 0 /\ mood = "calm"

\* The session that the finding's replays are to use is good, still.
SessionHolds ==
  IF Finding.declares /\ credentials # "none"
  THEN credentials = "good" /\ Finding.freshWorks /\ freshSession = "live"
  ELSE capturedSession = "live"

\* What is remembered of the login is what came of it.
LoginRemembered ==
  /\ credentials = "none" => cache # "cookie"
  /\ NeverTroubled /\ credentials = "good" => cache # "none"

\* The cookie of the finding is the captured one, or what the login gave.
OverrideResolved ==
  ~ Ended /\ override # "unresolved" =>
    IF Finding.declares
    THEN cache # "unasked" /\ override = OverrideOf(cache)
    ELSE override = "captured"

\* Nothing is sent before the session is resolved, nothing is concluded before
\* every payload was sent.
InOrder ==
  ~ Ended =>
    /\ override = "unresolved" => lost = {} /\ verdict \in {"NONE", "ERROR"}
    /\ verdict \notin {"NONE", "ERROR"} => Len(attempts) = Len(Finding.payloads)

\* A session that is good now was good for every replay: none is renewed but
\* before the first.
NoneLostYet == ~ Ended /\ NeverTroubled /\ SessionHolds => lost = {}

HoldInv == LoginRemembered /\ OverrideResolved /\ InOrder /\ NoneLostYet

\* The resolution of a session finds nothing sent yet.
LEMMA ResolveHolds ==
  ASSUME IInv, HoldInv, KeepCaptured \/ UseCached \/ Login \/ NoLogin
  PROVE  HoldInv'
<1> USE DEF HoldInv, IInv
<1>1. /\ UNCHANGED <<givenVars, findingVars>> /\ Unresolved
      /\ mood' = mood /\ changes' = changes
  BY DEF KeepCaptured, UseCached, Login, NoLogin, applicationVars
<1>2. /\ Finding' = Finding /\ Ended' = Ended /\ ~ Ended
      /\ credentials' = credentials /\ attempts' = attempts
      /\ verdict' = verdict /\ lost' = lost
  BY <1>1 DEF Finding, Ended, givenVars, findingVars, Unresolved
<1>3. lost = {} /\ verdict = "NONE"
  BY <1>1 DEF InOrder, Unresolved
<1>4. InOrder' /\ NoneLostYet'
  BY <1>2, <1>3 DEF InOrder, NoneLostYet
<1>5. LoginRemembered' /\ OverrideResolved'
  <2>1. CASE KeepCaptured \/ UseCached
    BY <1>1, <1>2, <2>1
       DEF KeepCaptured, UseCached, LoginRemembered, OverrideResolved,
           NeverTroubled
  <2>2. CASE Login
    <3>1. PICK cookie \in LoginCookies :
            cache' = Remembered(cookie) /\ override' = OverrideOf(cookie)
      BY <2>2 DEF Login
    <3>2. Finding.declares /\ credentials # "none"
      BY <2>2 DEF Login
    <3>3. /\ cache' = cookie /\ cookie \in {"none", "cookie"}
          /\ NeverTroubled /\ credentials = "good" => cookie = "cookie"
      BY <3>1 DEF Remembered, LoginCookies, NeverTroubled
    <3> QED
      BY <1>1, <1>2, <3>1, <3>2, <3>3
         DEF LoginRemembered, OverrideResolved, NeverTroubled
  <2>3. CASE NoLogin
    BY <1>1, <1>2, <2>3
       DEF NoLogin, Remembered, OverrideOf, LoginRemembered, OverrideResolved,
           NeverTroubled
  <2> QED BY <2>1, <2>2, <2>3
<1> QED BY <1>4, <1>5

\* A change of mood ends the premise, and no session comes back.
LEMMA ApplicationHolds ==
  ASSUME IInv, HoldInv, MoodChanges \/ SessionLapses \/ UNCHANGED vars
  PROVE  HoldInv'
<1> USE DEF HoldInv, IInv
<1>1. /\ UNCHANGED <<givenVars, sessionVars, findingVars>>
      /\ NeverTroubled' => NeverTroubled
      /\ freshSession' = "live" => freshSession = "live"
      /\ capturedSession' = "live" => capturedSession = "live"
  <2>1. CASE MoodChanges
    <3>1. changes' # 0
      BY <2>1, XssAssumption DEF MoodChanges, TypeOK
    <3> QED BY <2>1, <3>1 DEF MoodChanges, NeverTroubled
  <2>2. CASE SessionLapses
    BY <2>2 DEF SessionLapses, NeverTroubled
  <2>3. CASE UNCHANGED vars
    BY <2>3 DEF vars, applicationVars, NeverTroubled
  <2> QED BY <2>1, <2>2, <2>3
<1>2. /\ Finding' = Finding /\ Ended' = Ended /\ credentials' = credentials
      /\ attempts' = attempts /\ verdict' = verdict /\ lost' = lost
      /\ cache' = cache /\ override' = override
  BY <1>1 DEF Finding, Ended, givenVars, sessionVars, findingVars
<1>3. SessionHolds' => SessionHolds
  BY <1>1, <1>2 DEF SessionHolds
<1>4. LoginRemembered' /\ OverrideResolved' /\ InOrder'
  BY <1>1, <1>2 DEF LoginRemembered, OverrideResolved, InOrder
<1>5. NoneLostYet'
  BY <1>1, <1>2, <1>3 DEF NoneLostYet
<1> QED BY <1>4, <1>5

\* A replay with the right session meets the page.
LEMMA ReplayHolds ==
  ASSUME IInv, HoldInv, Replay PROVE HoldInv'
<1> USE DEF HoldInv, IInv
<1>1. /\ UNCHANGED <<givenVars, applicationVars, sessionVars, position, verdict>>
      /\ ~ Ended /\ override # "unresolved" /\ verdict = "NONE"
      /\ Answered => lost' = lost
  BY DEF Replay, Ready
<1>2. /\ Finding' = Finding /\ Ended' = Ended /\ credentials' = credentials
      /\ verdict' = verdict /\ cache' = cache /\ override' = override
      /\ mood' = mood /\ changes' = changes /\ freshSession' = freshSession
      /\ capturedSession' = capturedSession
  BY <1>1 DEF Finding, Ended, givenVars, sessionVars, applicationVars
<1>3. LoginRemembered' /\ OverrideResolved' /\ InOrder'
  BY <1>1, <1>2 DEF LoginRemembered, OverrideResolved, InOrder, NeverTroubled
<1>4. NoneLostYet'
  <2> SUFFICES ASSUME NeverTroubled, SessionHolds PROVE lost' = {}
    BY <1>2 DEF NoneLostYet, NeverTroubled, SessionHolds
  <2>1. HasSession
    <3>1. CASE Finding.declares /\ credentials # "none"
      <4>1. credentials = "good" /\ Finding.freshWorks /\ freshSession = "live"
        BY <3>1 DEF SessionHolds
      <4>2. cache = "cookie"
        BY <1>1, <3>1, <4>1 DEF LoginRemembered, OverrideResolved, TypeOK
      <4>3. override = "fresh"
        BY <1>1, <3>1, <4>2 DEF OverrideResolved, OverrideOf
      <4> QED BY <4>1, <4>3 DEF HasSession
    <3>2. CASE ~ (Finding.declares /\ credentials # "none")
      <4>1. capturedSession = "live"
        BY <3>2 DEF SessionHolds
      <4>2. override = "captured"
        BY <1>1, <3>2 DEF LoginRemembered, OverrideResolved, OverrideOf
      <4> QED BY <4>1, <4>2 DEF HasSession
    <3> QED BY <3>1, <3>2
  <2>2. Answered
    BY <2>1 DEF Answered, NeverTroubled
  <2> QED BY <1>1, <2>2 DEF NoneLostYet
<1> QED BY <1>3, <1>4

\* A verdict comes after all replays, an error of the login before any; the next
\* finding begins anew.
LEMMA FindingHolds ==
  ASSUME IInv, HoldInv, Refuse \/ Classify \/ LoginRaises \/ NextFinding
  PROVE  HoldInv'
<1> USE DEF HoldInv, IInv
<1>1. CASE Refuse \/ Classify \/ LoginRaises
  <2>1. /\ UNCHANGED <<givenVars, applicationVars, cache, override, position,
                       attempts, lost>>
        /\ ~ Ended
        /\ \/ verdict' = "ERROR"
           \/ override # "unresolved" /\ Len(attempts) = Len(Finding.payloads)
    BY <1>1 DEF Refuse, Classify, Ready, LoginRaises, Unresolved, sessionVars
  <2>2. /\ Finding' = Finding /\ Ended' = Ended /\ credentials' = credentials
        /\ cache' = cache /\ override' = override /\ mood' = mood
        /\ changes' = changes /\ freshSession' = freshSession
        /\ capturedSession' = capturedSession
    BY <2>1 DEF Finding, Ended, givenVars, applicationVars
  <2>3. LoginRemembered' /\ OverrideResolved' /\ NoneLostYet'
    BY <2>1, <2>2 DEF LoginRemembered, OverrideResolved, NoneLostYet,
       NeverTroubled, SessionHolds
  <2>4. InOrder'
    BY <2>1, <2>2 DEF InOrder
  <2> QED BY <2>3, <2>4
<1>2. CASE NextFinding
  BY <1>2 DEF NextFinding, LoginRemembered, OverrideResolved, InOrder,
     NoneLostYet, NeverTroubled, givenVars, applicationVars
<1> QED BY <1>1, <1>2

\* Both invariants hold together.
LEMMA HoldsAlways == Spec => [](IInv /\ HoldInv)
<1>1. Init => HoldInv
  BY DEF Init, HoldInv, LoginRemembered, OverrideResolved, InOrder, NoneLostYet
<1>2. IInv /\ HoldInv /\ [Next]_vars => HoldInv'
  BY ResolveHolds, ApplicationHolds, ReplayHolds, FindingHolds DEF Next
<1> QED BY <1>1, <1>2, IInvHolds, PTL DEF Spec

\* An exploitable finding whose session held is found out, wherever in the run
\* it stands and whatever became of the others: the one login serves every
\* finding that declares a need, and no other.
THEOREM XssDetected == Spec => []DetectedWhenSessionHolds
<1>1. IInv /\ HoldInv => DetectedWhenSessionHolds
  <2> SUFFICES
        ASSUME IInv, HoldInv, ~ Ended, verdict \notin {"NONE", "ERROR"},
               NeverTroubled, SessionHolds, Permits(Finding.policy),
               \A i \in DOMAIN Finding.payloads :
                 Bucket(Finding.payloads[i], Finding.page) = "EXECUTABLE"
        PROVE  verdict = "TRUE_POSITIVE"
    BY DEF DetectedWhenSessionHolds, NeverTroubled, SessionHolds
  <2> USE DEF IInv, HoldInv
  <2>1. lost = {} /\ verdict = Verdict(attempts)
    BY DEF NoneLostYet, Classified
  <2>2. /\ run \in Runs /\ position \in 1..Len(run) /\ Len(run) \in Nat
        /\ Finding \in Findings
    BY FindingFact DEF TypeOK
  <2>3. /\ Finding.payloads \in Seq(Payloads) /\ Len(Finding.payloads) >= 2
        /\ Len(Finding.payloads) \in Nat
    <3>1. position \in DOMAIN run
      BY <2>2, XssAssumption
    <3> QED BY <2>2, <3>1, XssAssumption DEF Finding, Findings
  <2>4. /\ attempts \in Seq(Attempts) /\ DOMAIN attempts = 1..Len(attempts)
        /\ Len(attempts) = Len(Finding.payloads)
        /\ DOMAIN Finding.payloads = 1..Len(Finding.payloads)
    BY <2>3 DEF TypeOK, InOrder
  <2>5. \A i \in DOMAIN attempts :
          /\ attempts[i].status = 200 /\ attempts[i].permits
          /\ attempts[i].bucket = "EXECUTABLE"
    <3> SUFFICES ASSUME NEW i \in DOMAIN attempts
                 PROVE  /\ attempts[i].status = 200 /\ attempts[i].permits
                        /\ attempts[i].bucket = "EXECUTABLE"
      OBVIOUS
    <3>1. attempts[i] = Attempt(Finding.payloads[i], PageReply)
      BY <2>1 DEF AnsweredShowsPage
    <3>2. Bucket(Finding.payloads[i], Finding.page) = "EXECUTABLE"
      BY <2>4
    <3> QED BY <3>1, <3>2 DEF Attempt, PageReply, NoStatus
  <2>6. Confirming(attempts) = 1..Len(attempts)
    BY <2>4, <2>5 DEF Confirming
  <2>7. Cardinality(Confirming(attempts)) >= 2
    BY <2>3, <2>4, <2>6, FS_Interval
  <2> QED BY <2>1, <2>5, <2>7 DEF Verdict, Blocked, IsTruePositive
<1> QED BY <1>1, HoldsAlways, PTL
=============================================================================
