----------------------- MODULE CsrfVerificationProofs -----------------------
(***************************************************************************)
(* What the CSRF classifier may be trusted for, whatever the target does   *)
(* between two replays: proofs of TypeOK, TruePositiveTwice,               *)
(* FalsePositiveHasGuard, SteadyTruePositive and OriginRejectionIsOrigin for *)
(* every set of findings, triggers and targets.                            *)
(***************************************************************************)
EXTENDS CsrfVerification, TLAPS

\* A verdict is the classifier's on the evidence, and comes last.
Classified ==
  verdict # "NONE" =>
    /\ step = Len(Replays) + 1
    /\ verdict = Verdict(Context(evidence))

\* A replay still to be made has recorded nothing.
NothingRecordedYet ==
  \A i \in 1..6 : i >= step => reply[Replays[i]] = NoReply

Shown(s) == IF reply[s].shows THEN 1 ELSE 0

\* Every acceptance text seen was seen by a replay the application carried out,
\* and every such replay took a step.
ShownWasAccepted ==
  /\ accepted >= Shown("first") + Shown("second")
  /\ accepted < step

\* Nothing but a guard or a session lapsed into 403 answers 403 or 419.
RejectionHasCause ==
  \A s \in ReplayNames :
    reply[s].status \in {403, 419} => target.guards # {} \/ target.lapsed = 403

IInv ==
  /\ TypeOK
  /\ Classified
  /\ NothingRecordedYet
  /\ ShownWasAccepted
  /\ RejectionHasCause

-----------------------------------------------------------------------------

\* The six replays have six names.
LEMMA ReplaysFact ==
  /\ Len(Replays) = 6 /\ DOMAIN Replays = 1..6
  /\ \A i \in 1..6 : Replays[i] \in ReplayNames
  /\ \A i, j \in 1..6 : Replays[i] = Replays[j] => i = j
  /\ Replays[1] = "first" /\ Replays[2] = "second"
BY DEF Replays, ReplayNames

\* Whatever the target does, its answer is one execute_replay can record.
LEMMA AnswerFact ==
  ASSUME TypeOK, NEW s \in ReplayNames
  PROVE  /\ Answer(s) \in Replies
         /\ Answer(s).shows => CarriesOut(s)
         /\ Answer(s).status \in {403, 419} => target.guards # {} \/ target.lapsed = 403
<1>1. target \in TargetKinds
  BY CsrfAssumption DEF TypeOK
<1>2. target.denial \in {400, 403, 419} /\ target.lapsed \in {302, 401, 403}
      /\ target.shows \in BOOLEAN
  BY <1>1 DEF TargetKinds
<1>3. CarriesOut(s) \in BOOLEAN
  BY DEF CarriesOut
<1>4. (CarriesOut(s) /\ target.shows) \in BOOLEAN
  BY <1>2, <1>3
<1>5. Answer(s).shows => CarriesOut(s)
  BY DEF Answer
<1>6. Answer(s).status \in Statuses
  BY <1>2 DEF Answer, Statuses, NoStatus
<1>7. Answer(s) \in Replies
  BY <1>4, <1>6 DEF Answer, Replies
<1>8. ASSUME Answer(s).status \in {403, 419}
      PROVE  target.guards # {} \/ target.lapsed = 403
  <2>1. CASE health # "up" \/ Lapsed
    BY <1>2, <1>8, <2>1 DEF Answer, NoStatus, TypeOK
  <2>2. CASE health = "up" /\ ~ Lapsed
    <3>1. Refused(Carries[s])
      BY <1>8, <2>2 DEF Answer
    <3>2. QED
      BY <3>1 DEF Refused
  <2>3. QED
    BY <2>1, <2>2
<1>9. QED
  BY <1>5, <1>7, <1>8

\* The classifier knows three verdicts.
LEMMA VerdictFact ==
  ASSUME NEW c
  PROVE  Verdict(c) \in {"TRUE_POSITIVE", "FALSE_POSITIVE", "INCONCLUSIVE"}
BY DEF Verdict

\* A verification begins with nothing recorded.
LEMMA InitIInv == Init => IInv
<1> SUFFICES ASSUME Init PROVE IInv
  OBVIOUS
<1>1. NoReply \in Replies /\ NoReply.shows = FALSE /\ NoReply.status = 0
  BY DEF NoReply, Replies, Statuses, NoStatus
<1>2. reply \in [ReplayNames -> Replies]
  BY <1>1 DEF Init
<1>3. TypeOK
  <2>1. changes \in 0..MaxHealth /\ step \in 1..(Len(Replays) + 1)
        /\ accepted \in 0..Len(Replays)
    BY ReplaysFact, CsrfAssumption DEF Init
  <2>2. QED
    BY <1>2, <2>1 DEF Init, TypeOK
<1>4. Classified
  BY DEF Init, Classified
<1>5. NothingRecordedYet
  BY ReplaysFact DEF Init, NothingRecordedYet
<1>6. ShownWasAccepted
  BY <1>1 DEF Init, ShownWasAccepted, Shown, ReplayNames
<1>7. RejectionHasCause
  BY <1>1 DEF Init, RejectionHasCause
<1>8. QED
  BY <1>3, <1>4, <1>5, <1>6, <1>7 DEF IInv

\* One replay preserves the invariant.
LEMMA ReplayIInv ==
  ASSUME IInv, Replay PROVE IInv'
<1> USE DEF IInv
<1> DEFINE s == Replays[step]
<1>1. step \in 1..6 /\ s \in ReplayNames
  BY ReplaysFact DEF Replay
<1>2. /\ Answer(s) \in Replies
      /\ Answer(s).shows => CarriesOut(s)
      /\ Answer(s).status \in {403, 419} => target.guards # {} \/ target.lapsed = 403
  BY <1>1, AnswerFact
<1>3. /\ reply \in [ReplayNames -> Replies]
      /\ reply' = [reply EXCEPT ![s] = Answer(s)]
      /\ accepted' = IF CarriesOut(s) THEN accepted + 1 ELSE accepted
      /\ step' = step + 1
      /\ verdict' = verdict /\ target' = target
  BY DEF Replay, TypeOK
<1>4. reply' \in [ReplayNames -> Replies]
  BY <1>1, <1>2, <1>3
<1>5. \A r \in ReplayNames : reply'[r] = IF r = s THEN Answer(s) ELSE reply[r]
  BY <1>1, <1>3
<1>6. verdict = "NONE"
  BY <1>1, ReplaysFact DEF Classified
<1>7. accepted' \in 0..6 /\ accepted' < step' /\ step' \in 1..7
  BY <1>1, <1>3 DEF TypeOK, ShownWasAccepted
<1>8. TypeOK'
  <2>1. spent' \in BOOLEAN /\ lost' \subseteq ReplayNames
    BY <1>1 DEF Replay, TypeOK
  <2>2. QED
    BY <1>4, <1>7, <2>1, ReplaysFact DEF Replay, TypeOK
<1>9. Classified'
  BY <1>3, <1>6 DEF Classified
<1>10. NothingRecordedYet'
  <2>1. ASSUME NEW i \in 1..6, i >= step + 1
        PROVE  reply'[Replays[i]] = NoReply
    <3>1. Replays[i] # s /\ Replays[i] \in ReplayNames
      BY <1>1, <2>1, ReplaysFact
    <3>2. reply[Replays[i]] = NoReply
      BY <1>1, <2>1 DEF NothingRecordedYet
    <3>3. QED
      BY <1>5, <3>1, <3>2
  <2>2. QED
    BY <1>3, <2>1 DEF NothingRecordedYet
<1>11. accepted' >= Shown("first")' + Shown("second")'
  <2>1. \A r \in ReplayNames : reply[r].shows \in BOOLEAN /\ Answer(s).shows \in BOOLEAN
    BY <1>2, <1>3 DEF Replies
  <2>2. "first" \in ReplayNames /\ "second" \in ReplayNames
    BY DEF ReplayNames
  <2>3. reply[s].shows = FALSE
    BY <1>1 DEF NothingRecordedYet, NoReply
  <2>4. accepted \in Nat /\ accepted >= Shown("first") + Shown("second")
    BY DEF TypeOK, ShownWasAccepted
  <2>5. Answer(s).shows => accepted' = accepted + 1
    BY <1>2, <1>3
  <2>6. accepted' >= accepted /\ accepted' \in Nat
    BY <1>3, <2>4
  <2>7. CASE s = "first"
    BY <1>5, <2>1, <2>2, <2>3, <2>4, <2>5, <2>6, <2>7 DEF Shown
  <2>8. CASE s = "second"
    BY <1>5, <2>1, <2>2, <2>3, <2>4, <2>5, <2>6, <2>8 DEF Shown
  <2>9. CASE s # "first" /\ s # "second"
    BY <1>5, <2>2, <2>4, <2>6, <2>9 DEF Shown
  <2>10. QED
    BY <2>7, <2>8, <2>9
<1>12. RejectionHasCause'
  <2>1. \A r \in ReplayNames :
          reply'[r].status \in {403, 419} => target.guards # {} \/ target.lapsed = 403
    BY <1>2, <1>5 DEF RejectionHasCause
  <2>2. QED
    BY <1>3, <2>1 DEF RejectionHasCause
<1>13. QED
  BY <1>7, <1>8, <1>9, <1>10, <1>11, <1>12 DEF ShownWasAccepted

\* The steps that record nothing preserve the invariant: a test not asked for,
\* the classification, and what the application does by itself.
LEMMA OtherIInv ==
  ASSUME IInv, Skip \/ Classify \/ SessionLapses \/ HealthChanges \/ UNCHANGED vars
  PROVE  IInv'
<1> USE DEF IInv
<1>1. reply' = reply /\ target' = target /\ accepted' = accepted
      /\ finding' = finding /\ trigger' = trigger
  BY DEF Skip, Classify, SessionLapses, HealthChanges, vars, envVars
<1>2. RejectionHasCause'
  BY <1>1 DEF RejectionHasCause
<1>3. step' = step \/ (step' = step + 1 /\ step \in 1..6 /\ verdict' = verdict)
  BY ReplaysFact DEF Skip, Classify, SessionLapses, HealthChanges, vars
<1>4. step \in 1..7 /\ step' \in 1..7 /\ step' >= step
  BY <1>3, ReplaysFact DEF TypeOK
<1>5. NothingRecordedYet'
  BY <1>1, <1>4 DEF NothingRecordedYet
<1>6. ShownWasAccepted'
  BY <1>1, <1>4 DEF ShownWasAccepted, Shown, TypeOK
<1>7. evidence' = evidence
  BY <1>1 DEF evidence
<1>8. Classified'
  <2>1. CASE Classify
    BY <2>1, <1>7 DEF Classify, Classified
  <2>2. CASE Skip
    <3>1. verdict = "NONE" /\ verdict' = verdict
      BY <2>2, ReplaysFact DEF Skip, Classified
    <3>2. QED
      BY <3>1 DEF Classified
  <2>3. CASE SessionLapses \/ HealthChanges \/ UNCHANGED vars
    <3>1. step' = step /\ verdict' = verdict
      BY <2>3 DEF SessionLapses, HealthChanges, vars
    <3>2. QED
      BY <1>7, <3>1 DEF Classified
  <2>4. QED
    BY <2>1, <2>2, <2>3
<1>9. TypeOK'
  <2>1. CASE Classify
    <3>1. verdict' \in {"TRUE_POSITIVE", "FALSE_POSITIVE", "INCONCLUSIVE"}
      BY <2>1, VerdictFact DEF Classify
    <3>2. confidence' \in {25, 40, 85, 97}
      BY <2>1 DEF Classify, Confidence
    <3>3. QED
      BY <2>1, <3>1, <3>2 DEF Classify, TypeOK, envVars
  <2>2. CASE Skip
    BY <2>2, <1>4, ReplaysFact DEF Skip, TypeOK, envVars
  <2>3. CASE SessionLapses
    BY <2>3 DEF SessionLapses, TypeOK
  <2>4. CASE HealthChanges
    BY <2>4, CsrfAssumption DEF HealthChanges, TypeOK
  <2>5. CASE UNCHANGED vars
    BY <2>5 DEF vars, envVars, TypeOK
  <2>6. QED
    BY <2>1, <2>2, <2>3, <2>4, <2>5
<1>10. QED
  BY <1>2, <1>5, <1>6, <1>8, <1>9

\* The inductive invariant holds in every behaviour.
LEMMA IInvHolds == Spec => []IInv
<1>1. IInv /\ [Next]_vars => IInv'
  BY ReplayIInv, OtherIInv DEF Next
<1>2. QED
  BY InitIInv, <1>1, PTL DEF Spec

-----------------------------------------------------------------------------

\* Type correctness of one verification.
THEOREM CsrfTypeCorrect == Spec => []TypeOK
<1>1. IInv => TypeOK
  BY DEF IInv
<1>2. QED
  BY <1>1, IInvHolds, PTL

\* A TRUE_POSITIVE on an acceptance text rests on two forged replays that the
\* application carried out, whatever the target does between them.
THEOREM CsrfReproduced == Spec => []TruePositiveTwice
<1>1. IInv => TruePositiveTwice
  <2> SUFFICES ASSUME IInv, verdict = "TRUE_POSITIVE", trigger.indicator = "text"
               PROVE  accepted >= 2
    BY DEF TruePositiveTwice
  <2>1. verdict = Verdict(Context(evidence))
    BY DEF IInv, Classified
  <2>2. TruePositive(Context(evidence))
    BY <2>1 DEF Verdict
  <2>3. Reproducible(trigger, reply["first"], reply["second"]) = "yes"
    BY <2>2 DEF TruePositive, Context, evidence
  <2>4. Matched(trigger.indicator, reply["first"])
        /\ Matched(trigger.indicator, reply["second"])
    BY <2>3 DEF Reproducible, YesIf
  <2>5. reply["first"].shows /\ reply["second"].shows
    BY <2>4 DEF Matched
  <2>6. Shown("first") = 1 /\ Shown("second") = 1
    BY <2>5 DEF Shown
  <2>7. QED
    BY <2>6 DEF IInv, ShownWasAccepted, TypeOK
<1>2. QED
  BY <1>1, IInvHolds, PTL

\* A FALSE_POSITIVE is never given to an application without a guard, unless it
\* answers lapsed sessions with 403, or nothing but a captured form was ever
\* found: no scanner's report and no accepted replay.
THEOREM CsrfGuarded == Spec => []FalsePositiveHasGuard
<1>1. IInv => FalsePositiveHasGuard
  <2> SUFFICES ASSUME IInv, verdict = "FALSE_POSITIVE", target.lapsed # 403,
                      finding.har => StrongAcceptance(evidence)
               PROVE  target.guards # {}
    BY DEF FalsePositiveHasGuard
  <2>1. verdict = Verdict(Context(evidence))
    BY DEF IInv, Classified
  <2>2. FalsePositive(Context(evidence))
    BY <2>1 DEF Verdict
  <2>3. StateChanging(finding) # "no"
    BY DEF StateChanging, YesIf
  <2>4. DefenseEnforced(evidence) \/ OriginEnforced(evidence)
    BY <2>2, <2>3 DEF FalsePositive, Context, evidence
  <2>5. \/ reply["defModified"].status \in {403, 419}
        \/ reply["orgModified"].status \in {403, 419}
    BY <2>4 DEF DefenseEnforced, OriginEnforced, Attributable, RejectionObserved,
                evidence
  <2>6. "defModified" \in ReplayNames /\ "orgModified" \in ReplayNames
    BY DEF ReplayNames
  <2>7. QED
    BY <2>5, <2>6 DEF IInv, RejectionHasCause
<1>2. QED
  BY <1>1, IInvHolds, PTL

-----------------------------------------------------------------------------
(* What a single reply still says of the target when the verification ends.  *)
(* A token that is spent and a session that has lapsed stay so, and the       *)
(* first replay is always made: it spends a token that is good for one.       *)

\* The defense the replay itself leaves out or forges, whatever is spent.
LacksDefense(s) ==
  \/ "origin" \in target.guards /\ Carries[s].forged
  \/ "token" \in target.guards /\ ~ Carries[s].token

\* A replay that met a live session on a healthy application was carried out,
\* or a defense refused it.
AnswersExplained ==
  \A i \in 1..6 :
    i < step /\ Configured(Replays[i]) /\ Replays[i] \notin lost =>
      /\ reply[Replays[i]].status = 200 \/ Refused(Carries[Replays[i]])
      /\ LacksDefense(Replays[i]) => reply[Replays[i]].status = target.denial

FirstFailed == reply["first"].status \in {NoStatus, 500}

\* What is known of a token good for one request.
OneShotSpent ==
  /\ spent => target.oneShot
  /\ step = 1 => ~ spent
  /\ step > 1 /\ ~ FirstFailed => Lapsed \/ (target.oneShot => spent)
  /\ reply["first"].shows /\ target.oneShot => spent
  /\ reply["first"].shows /\ reply["second"].shows /\ target.oneShot
       => "token" \notin target.guards
  /\ reply["orgOriginal"].status \in 200..399 =>
       \/ Lapsed \/ FirstFailed
       \/ "token" \notin target.guards \/ ~ target.oneShot

\* A refusal after an accepted original is the forged origin's.
OriginRefusalExplained ==
  /\ reply["orgModified"].status \in {403, 419}
  /\ reply["orgOriginal"].status \in 200..399
  /\ target.lapsed # 403
  => "origin" \in target.guards \/ FirstFailed

AnswersInv == AnswersExplained /\ OneShotSpent /\ OriginRefusalExplained

\* One replay keeps the replies explained.
LEMMA ReplayAnswers ==
  ASSUME IInv, AnswersInv, Replay PROVE AnswersInv'
<1> USE DEF IInv, AnswersInv
<1> DEFINE s == Replays[step]
<1>1. step \in 1..6 /\ s \in ReplayNames /\ step' = step + 1
  BY ReplaysFact DEF Replay
<1>2. /\ reply' = [reply EXCEPT ![s] = Answer(s)]
      /\ spent' = (spent \/ (target.oneShot /\ CarriesOut(s) /\ Carries[s].token))
      /\ lost' = IF health # "up" \/ Lapsed THEN lost \cup {s} ELSE lost
      /\ target' = target /\ session' = session /\ trigger' = trigger
      /\ Configured(s)
  BY DEF Replay
<1>3. /\ target.denial \in {400, 403, 419} /\ target.lapsed \in {302, 401, 403}
      /\ target.oneShot \in BOOLEAN /\ target.needs \in BOOLEAN
      /\ spent \in BOOLEAN /\ health \in {"up", "down", "failing"}
  BY CsrfAssumption DEF TypeOK, TargetKinds
<1>4. \A r \in ReplayNames : reply'[r] = IF r = s THEN Answer(s) ELSE reply[r]
  BY <1>1, <1>2 DEF TypeOK
<1>5. /\ (Lapsed)' = Lapsed /\ Carries' = Carries
      /\ \A r \in ReplayNames : Configured(r)' <=> Configured(r)
      /\ \A r \in ReplayNames : LacksDefense(r)' <=> LacksDefense(r)
      /\ \A r \in ReplayNames : Refused(Carries[r]) => (Refused(Carries[r]))'
  BY <1>2 DEF Lapsed, Carries, Configured, LacksDefense, Refused
<1>6. /\ health = "up" /\ ~ Lapsed =>
           Answer(s).status = IF Refused(Carries[s]) THEN target.denial ELSE 200
      /\ health = "up" /\ Lapsed => Answer(s).status = target.lapsed
      /\ health # "up" => Answer(s).status \in {NoStatus, 500}
      /\ Answer(s).shows => CarriesOut(s)
  BY <1>3 DEF Answer
<1>7. /\ Carries[s].token = (s # "defModified" \/ trigger.defense # "token")
      /\ Carries[s].forged = (s = "orgModified")
      /\ LacksDefense(s) => Refused(Carries[s])
  BY <1>1 DEF Carries, LacksDefense, Refused
<1>8. /\ s = "first" <=> step = 1
      /\ s = "second" <=> step = 2
      /\ s = "orgOriginal" <=> step = 5
      /\ s = "orgModified" <=> step = 6
      /\ {"first", "second", "orgOriginal", "orgModified"} \subseteq ReplayNames
  BY <1>1 DEF Replays, ReplayNames
<1>9. AnswersExplained'
  <2> SUFFICES ASSUME NEW i \in 1..6, i < step + 1,
                      Configured(Replays[i])', Replays[i] \notin lost'
               PROVE  /\ \/ reply'[Replays[i]].status = 200
                         \/ (Refused(Carries[Replays[i]]))'
                      /\ LacksDefense(Replays[i])' =>
                           reply'[Replays[i]].status = target.denial
    BY <1>1, <1>2 DEF AnswersExplained
  <2>0. Replays[i] \in ReplayNames
    BY ReplaysFact
  <2>1. CASE i = step
    <3>1. health = "up" /\ ~ Lapsed
      BY <1>2, <2>1
    <3>2. reply'[s].status = IF Refused(Carries[s]) THEN target.denial ELSE 200
      BY <1>1, <1>4, <1>6, <3>1
    <3> QED BY <1>1, <1>5, <1>7, <2>1, <3>2
  <2>2. CASE i < step
    <3>1. Replays[i] # s /\ Replays[i] \notin lost
      BY <1>1, <1>2, <2>2, ReplaysFact
    <3>2. reply'[Replays[i]] = reply[Replays[i]]
      BY <1>4, <2>0, <3>1
    <3> QED BY <1>5, <2>0, <2>2, <3>1, <3>2 DEF AnswersExplained
  <2> QED BY <1>1, <2>1, <2>2
\* The first replay finds the token unspent.
<1>10. step = 1 /\ health = "up" /\ ~ Lapsed => CarriesOut(s)
  BY <1>7, <1>8 DEF OneShotSpent, CarriesOut, Refused
<1>11. /\ CarriesOut(s) /\ s # "defModified" /\ target.oneShot => spent'
       /\ spent => spent'
  BY <1>2, <1>7
\* An unmade replay has recorded nothing.
<1>12. \A i \in 1..6 : i > step =>
         reply'[Replays[i]].status = 0 /\ ~ reply'[Replays[i]].shows
  <2> SUFFICES ASSUME NEW i \in 1..6, i > step
               PROVE  reply'[Replays[i]] = NoReply
    BY DEF NoReply, NoStatus
  <2>1. Replays[i] # s /\ Replays[i] \in ReplayNames
    BY <1>1, ReplaysFact
  <2>2. reply[Replays[i]] = NoReply
    BY <1>1 DEF NothingRecordedYet
  <2> QED BY <1>4, <2>1, <2>2
<1>13. /\ Replays[2] = "second" /\ Replays[5] = "orgOriginal"
       /\ Replays[6] = "orgModified"
  BY DEF Replays
<1>14. OneShotSpent'
  <2>1. (spent => target.oneShot)'
    BY <1>2 DEF OneShotSpent
  <2>2. (step = 1 => ~ spent)'
    BY <1>1
  <2>3. (step > 1 /\ ~ FirstFailed => Lapsed \/ (target.oneShot => spent))'
    <3>1. CASE step = 1
      BY <1>2, <1>4, <1>5, <1>6, <1>8, <1>10, <1>11, <3>1 DEF FirstFailed
    <3>2. CASE step # 1
      BY <1>1, <1>2, <1>4, <1>5, <1>8, <1>11, <3>2
         DEF FirstFailed, OneShotSpent
    <3> QED BY <3>1, <3>2
  <2>4. (reply["first"].shows /\ target.oneShot => spent)'
    BY <1>2, <1>4, <1>6, <1>8, <1>11 DEF OneShotSpent
  <2>5. (reply["first"].shows /\ reply["second"].shows /\ target.oneShot
           => "token" \notin target.guards)'
    <3>1. CASE step = 1
      BY <1>12, <1>13, <3>1
    <3>2. CASE step = 2
      BY <1>2, <1>4, <1>6, <1>7, <1>8, <3>2
         DEF OneShotSpent, CarriesOut, Refused
    <3>3. CASE step \notin {1, 2}
      BY <1>2, <1>4, <1>8, <3>3 DEF OneShotSpent
    <3> QED BY <3>1, <3>2, <3>3
  <2>6. (reply["orgOriginal"].status \in 200..399 =>
           \/ Lapsed \/ FirstFailed
           \/ "token" \notin target.guards \/ ~ target.oneShot)'
    <3>1. CASE step < 5
      <4>1. reply'["orgOriginal"].status = 0
        BY <1>1, <1>12, <1>13, <3>1
      <4> QED BY <4>1
    <3>2. CASE step = 5
      <4> SUFFICES ASSUME reply'["orgOriginal"].status \in 200..399,
                          ~ Lapsed, ~ FirstFailed, target.oneShot
                   PROVE  "token" \notin target.guards
        BY <1>2, <1>4, <1>5, <1>8, <3>2 DEF FirstFailed
      <4>1. health = "up"
        BY <1>3, <1>4, <1>6, <1>8, <3>2 DEF NoStatus
      <4>2. ~ Refused(Carries[s])
        BY <1>3, <1>4, <1>6, <1>8, <3>2, <4>1
      <4>3. spent
        BY <3>2 DEF OneShotSpent
      <4> QED BY <4>2, <4>3 DEF Refused
    <3>3. CASE step > 5
      BY <1>2, <1>4, <1>5, <1>8, <3>3 DEF FirstFailed, OneShotSpent
    <3> QED BY <1>1, <3>1, <3>2, <3>3
  <2> QED BY <2>1, <2>2, <2>3, <2>4, <2>5, <2>6 DEF OneShotSpent
<1>15. OriginRefusalExplained'
  <2>1. CASE step < 6
    <3>1. reply'["orgModified"].status = 0
      BY <1>1, <1>12, <1>13, <2>1
    <3> QED BY <3>1 DEF OriginRefusalExplained
  <2>2. CASE step = 6
    <3> SUFFICES ASSUME reply'["orgModified"].status \in {403, 419},
                        reply["orgOriginal"].status \in 200..399,
                        target.lapsed # 403, ~ FirstFailed
                 PROVE  "origin" \in target.guards
      BY <1>2, <1>4, <1>8, <2>2 DEF OriginRefusalExplained, FirstFailed
    <3>1. health = "up" /\ ~ Lapsed
      BY <1>3, <1>4, <1>6, <1>8, <2>2 DEF NoStatus
    <3>2. Refused(Carries[s])
      BY <1>4, <1>6, <1>8, <2>2, <3>1
    <3>3. ASSUME "token" \in target.guards, spent PROVE FALSE
      BY <3>1, <3>3 DEF OneShotSpent
    <3> QED BY <1>7, <1>8, <2>2, <3>2, <3>3 DEF Refused
  <2> QED BY <1>1, <2>1, <2>2
<1> QED BY <1>9, <1>14, <1>15

\* The other steps keep them: nothing is recorded, and a session that lapses
\* only adds to what explains a reply.
LEMMA OtherAnswers ==
  ASSUME IInv, AnswersInv,
         Skip \/ Classify \/ SessionLapses \/ HealthChanges \/ UNCHANGED vars
  PROVE  AnswersInv'
<1> USE DEF IInv, AnswersInv
<1>1. /\ reply' = reply /\ target' = target /\ trigger' = trigger
      /\ spent' = spent /\ lost' = lost
      /\ Lapsed => (Lapsed)'
  BY DEF Skip, Classify, SessionLapses, HealthChanges, vars, envVars, Lapsed
<1>2. \/ step' = step
      \/ step' = step + 1 /\ step \in 1..6 /\ ~ Configured(Replays[step])
  BY ReplaysFact DEF Skip, Classify, SessionLapses, HealthChanges, vars
<1>3. /\ \A r \in ReplayNames : Configured(r)' <=> Configured(r)
      /\ \A r \in ReplayNames : LacksDefense(r)' <=> LacksDefense(r)
      /\ \A r \in ReplayNames : (Refused(Carries[r]))' <=> Refused(Carries[r])
      /\ FirstFailed' <=> FirstFailed
  BY <1>1 DEF Configured, LacksDefense, Refused, Carries, FirstFailed
<1>4. AnswersExplained'
  <2> SUFFICES ASSUME NEW i \in 1..6, i < step', Configured(Replays[i]),
                      Replays[i] \notin lost
               PROVE  /\ \/ reply[Replays[i]].status = 200
                         \/ Refused(Carries[Replays[i]])
                      /\ LacksDefense(Replays[i]) =>
                           reply[Replays[i]].status = target.denial
    BY <1>1, <1>3, ReplaysFact DEF AnswersExplained
  <2>1. i < step
    BY <1>2 DEF TypeOK
  <2> QED BY <2>1 DEF AnswersExplained
<1>5. OneShotSpent'
  <2>1. step' = step \/ step > 1
    <3>1. step = 1 => Configured(Replays[step])
      BY ReplaysFact DEF Configured
    <3> QED BY <1>2, <3>1
  <2>2. step' > 1 => step > 1
    BY <2>1
  <2>3. step' = 1 => step = 1
    BY <1>2
  <2> QED BY <1>1, <1>3, <2>2, <2>3 DEF OneShotSpent
<1>6. OriginRefusalExplained'
  BY <1>1, <1>3 DEF OriginRefusalExplained
<1> QED BY <1>4, <1>5, <1>6

\* The replies stay explained in every behaviour.
LEMMA AnswersHold == Spec => []AnswersInv
<1>1. Init => AnswersInv
  <2> SUFFICES ASSUME Init PROVE AnswersInv
    OBVIOUS
  <2>1. \A s \in ReplayNames : reply[s].status = 0 /\ ~ reply[s].shows
    BY DEF Init, NoReply, NoStatus
  <2>2. AnswersExplained
    BY DEF Init, AnswersExplained
  <2>3. OneShotSpent /\ OriginRefusalExplained
    BY <2>1 DEF Init, OneShotSpent, OriginRefusalExplained, FirstFailed,
       ReplayNames
  <2> QED BY <2>2, <2>3 DEF AnswersInv
<1>2. IInv /\ AnswersInv /\ [Next]_vars => AnswersInv'
  BY ReplayAnswers, OtherAnswers DEF Next
<1> QED BY <1>1, <1>2, IInvHolds, PTL DEF Spec

\* On a target whose session and health hold and whose guards refuse with 403
\* or 419, a TRUE_POSITIVE on an acceptance text means that no defense the
\* trigger tested exists, one-time tokens included.
THEOREM CsrfSteady == Spec => []SteadyTruePositive
<1>1. IInv /\ AnswersInv => SteadyTruePositive
  <2> SUFFICES ASSUME IInv, AnswersInv,
                      verdict = "TRUE_POSITIVE", trigger.indicator = "text",
                      lost = {}, target.denial \in {403, 419}
               PROVE  /\ trigger.defense = "token" => "token" \notin target.guards
                      /\ trigger.origin => "origin" \notin target.guards
    BY DEF SteadyTruePositive
  <2>1. step = 7 /\ verdict = Verdict(Context(evidence))
    BY ReplaysFact DEF IInv, Classified
  <2>2. TruePositive(Context(evidence))
    BY <2>1 DEF Verdict
  <2>3. Reproducible(trigger, reply["first"], reply["second"]) = "yes"
    BY <2>2 DEF TruePositive, Context, evidence
  <2>4. reply["first"].shows /\ reply["second"].shows
    BY <2>3 DEF Reproducible, YesIf, Matched
  <2>5. ~ DefenseEnforced(evidence) /\ ~ OriginEnforced(evidence)
    BY <2>2 DEF TruePositive, Context, DefenseAbsence
  \* The token is not spent where a guard looks at it.
  <2>6. "token" \in target.guards => ~ spent
    BY <2>4 DEF AnswersInv, OneShotSpent
  <2>7. \A i \in 1..6 : Configured(Replays[i]) =>
          /\ reply[Replays[i]].status = 200 \/ Refused(Carries[Replays[i]])
          /\ LacksDefense(Replays[i]) => reply[Replays[i]].status = target.denial
    BY <2>1 DEF AnswersInv, AnswersExplained
  <2>8. /\ Replays[3] = "defOriginal" /\ Replays[4] = "defModified"
        /\ Replays[5] = "orgOriginal" /\ Replays[6] = "orgModified"
    BY DEF Replays
  <2>9. ASSUME trigger.defense = "token", "token" \in target.guards
        PROVE  FALSE
    <3>1. Configured("defOriginal") /\ Configured("defModified")
      BY <2>9 DEF Configured
    <3>2. LacksDefense("defModified") /\ ~ Refused(Carries["defOriginal"])
      BY <2>6, <2>9 DEF LacksDefense, Refused, Carries, ReplayNames
    <3>3. reply["defOriginal"].status = 200
          /\ reply["defModified"].status = target.denial
      BY <2>7, <2>8, <3>1, <3>2
    <3> QED BY <2>5, <2>9, <3>3
            DEF DefenseEnforced, Attributable, RejectionObserved, evidence
  <2>10. ASSUME trigger.origin, "origin" \in target.guards
         PROVE  FALSE
    <3>1. Configured("orgOriginal") /\ Configured("orgModified")
      BY <2>10 DEF Configured
    <3>2. LacksDefense("orgModified") /\ ~ Refused(Carries["orgOriginal"])
      BY <2>6, <2>10 DEF LacksDefense, Refused, Carries, ReplayNames
    <3>3. reply["orgOriginal"].status = 200
          /\ reply["orgModified"].status = target.denial
      BY <2>7, <2>8, <3>1, <3>2
    <3> QED BY <2>5, <2>10, <3>3
            DEF OriginEnforced, Attributable, RejectionObserved, evidence
  <2> QED BY <2>9, <2>10
<1> QED BY <1>1, IInvHolds, AnswersHold, PTL

\* A FALSE_POSITIVE put down to the origin policy means there is one: a token
\* good for one request, and a session that lapses, are never mistaken for it.
THEOREM CsrfOrigin == Spec => []OriginRejectionIsOrigin
<1>1. IInv /\ AnswersInv => OriginRejectionIsOrigin
  <2> SUFFICES ASSUME IInv, AnswersInv, verdict = "FALSE_POSITIVE",
                      OriginEnforced(evidence), target.lapsed # 403
               PROVE  "origin" \in target.guards
    BY DEF OriginRejectionIsOrigin
  <2>1. ~ Inconclusive(Context(evidence))
    BY DEF IInv, Classified, Verdict
  <2>2. ~ FirstFailed
    <3>1. /\ ~ Context(evidence).targetGone
          /\ ~ Context(evidence).serverError
      BY <2>1 DEF Inconclusive
    <3>2. /\ reply["first"].status # NoStatus
          /\ reply["first"].status \notin 500..599
      BY <3>1 DEF Context, evidence
    <3> QED BY <3>2 DEF FirstFailed
  <2>3. /\ reply["orgModified"].status \in {403, 419}
        /\ reply["orgOriginal"].status \in 200..399
    BY DEF OriginEnforced, Attributable, RejectionObserved, evidence
  <2> QED BY <2>2, <2>3 DEF AnswersInv, OriginRefusalExplained
<1> QED BY <1>1, IInvHolds, AnswersHold, PTL
=============================================================================
