-------------------------- MODULE CsrfVerification --------------------------
(***************************************************************************)
(* One CSRF verification: _verify_csrf_finding replays the scanner's       *)
(* request against the target up to six times and classifies what came     *)
(* back.  The target is not under our control: between two replays a       *)
(* session may lapse, a one-time token is spent by the replay that carried *)
(* it, and the application may go down or answer with server errors.       *)
(***************************************************************************)
EXTENDS CsrfRules, Sequences

CONSTANTS
  Kinds,        \* the findings verified
  Configs,      \* the triggers they are verified with
  Targets,      \* how the targets behave
  MaxHealth     \* bound on the target's changes of health

\* guards: which defenses the application has; oneShot: a token is good for
\* one request; denial: the status of a request a guard refuses; lapsed: the
\* status of a request without a live session; shows: an accepted request is
\* answered with the text the trigger looks for; needs: it carries out nothing
\* without a session, whether or not the finding says so.
TargetKinds ==
  [guards : SUBSET {"token", "origin"}, oneShot : BOOLEAN, needs : BOOLEAN,
   denial : {400, 403, 419}, lapsed : {302, 401, 403}, shows : BOOLEAN]

ASSUME CsrfAssumption ==
  /\ Kinds \subseteq Findings /\ Configs \subseteq Triggers
  /\ Targets \subseteq TargetKinds
  /\ MaxHealth \in Nat

VARIABLES
  target, health, session, spent, changes,     \* the application
  finding, trigger,                            \* what is verified, and how
  reply, step, verdict, confidence,            \* locals of the verification
  accepted,    \* history: forged replays the application carried out
  lost         \* history: replays that met no live session

envVars == <<target, health, session, spent, changes>>
vars == <<envVars, finding, trigger, reply, step, verdict, confidence, accepted, lost>>

evidence == [finding |-> finding, trigger |-> trigger, reply |-> reply]

\* What each replay carries: the captured token, unless the defense test took
\* it out, and the attacker's Origin and Referer in the last one.
Carries ==
  [s \in ReplayNames |-> [token  |-> s # "defModified" \/ trigger.defense # "token",
                          forged |-> s = "orgModified"]]

\* Which replays the trigger asks for.
Configured(s) ==
  CASE s = "first" -> TRUE
    [] s = "second" -> trigger.indicator # "none"
    [] s \in {"defOriginal", "defModified"} -> trigger.defense # "none"
    [] s \in {"orgOriginal", "orgModified"} -> trigger.origin

\* The application's answer to a replay.
Refused(r) ==
  \/ "origin" \in target.guards /\ r.forged
  \/ "token" \in target.guards /\ (~ r.token \/ spent)

Lapsed == target.needs /\ session = "lapsed"

CarriesOut(s) == health = "up" /\ ~ Lapsed /\ ~ Refused(Carries[s])

Answer(s) ==
  [status |-> IF health = "down" THEN NoStatus
              ELSE IF health = "failing" THEN 500
              ELSE IF Lapsed THEN target.lapsed
              ELSE IF Refused(Carries[s]) THEN target.denial
              ELSE 200,
   shows |-> CarriesOut(s) /\ target.shows]

Init ==
  /\ target \in Targets
  /\ health = "up" /\ session = "live" /\ spent = FALSE /\ changes = 0
  /\ finding \in Kinds /\ trigger \in Configs
  /\ reply = [s \in ReplayNames |-> NoReply]
  /\ step = 1
  /\ verdict = "NONE" /\ confidence = 0
  /\ accepted = 0 /\ lost = {}

\* Variant: the second replay is answered from the first one's result.
ReplayReusingFirst ==
  /\ step \in DOMAIN Replays
  /\ LET s == Replays[step]
         sent == s # "second" IN
     /\ Configured(s)
     /\ reply' = [reply EXCEPT ![s] = IF sent THEN Answer(s)
                                     ELSE reply["first"]]
     /\ accepted' = IF sent /\ CarriesOut(s) THEN accepted + 1 ELSE accepted
     /\ spent' = (spent \/ (target.oneShot /\ sent /\ CarriesOut(s)
                             /\ Carries[s].token))
     /\ lost' = IF sent /\ (health # "up" \/ Lapsed) THEN lost \cup {s} ELSE lost
  /\ step' = step + 1
  /\ UNCHANGED <<target, health, session, changes, finding, trigger, verdict,
                 confidence>>

\* One execute_replay, in the order _verify_csrf_finding makes them.
Replay ==
  /\ step \in DOMAIN Replays
  /\ LET s == Replays[step] IN
     /\ Configured(s)
     /\ reply' = [reply EXCEPT ![s] = Answer(s)]
     /\ accepted' = IF CarriesOut(s) THEN accepted + 1 ELSE accepted
     /\ spent' = (spent \/ (target.oneShot /\ CarriesOut(s) /\ Carries[s].token))
     /\ lost' = IF health # "up" \/ Lapsed THEN lost \cup {s} ELSE lost
  /\ step' = step + 1
  /\ UNCHANGED <<target, health, session, changes, finding, trigger, verdict,
                 confidence>>

\* Variant: a test that is not configured takes the next step with it.
SkipTwo ==
  /\ step \in DOMAIN Replays
  /\ ~ Configured(Replays[step])
  /\ step' = step + 2
  /\ UNCHANGED <<envVars, finding, trigger, reply, verdict, confidence, accepted,
                 lost>>

\* A test the trigger does not configure is skipped.
Skip ==
  /\ step \in DOMAIN Replays
  /\ ~ Configured(Replays[step])
  /\ step' = step + 1
  /\ UNCHANGED <<envVars, finding, trigger, reply, verdict, confidence, accepted,
                 lost>>

\* finalize_csrf_verification.
Classify ==
  /\ step = Len(Replays) + 1 /\ verdict = "NONE"
  /\ verdict' = Verdict(Context(evidence))
  /\ confidence' = Confidence(evidence)
  /\ UNCHANGED <<envVars, finding, trigger, reply, step, accepted, lost>>

\* The application's own steps.
SessionLapses ==
  /\ session = "live" /\ verdict = "NONE"
  /\ session' = "lapsed"
  /\ UNCHANGED <<target, health, spent, changes, finding, trigger, reply, step,
                 verdict, confidence, accepted, lost>>

HealthChanges ==
  /\ changes < MaxHealth /\ verdict = "NONE"
  /\ health' \in {"up", "down", "failing"} \ {health}
  /\ changes' = changes + 1
  /\ UNCHANGED <<target, session, spent, finding, trigger, reply, step, verdict,
                 confidence, accepted, lost>>

Next == Replay \/ Skip \/ Classify \/ SessionLapses \/ HealthChanges

Spec == Init /\ [][Next]_vars

-----------------------------------------------------------------------------
(* Properties. *)

TypeOK ==
  /\ target \in Targets
  /\ health \in {"up", "down", "failing"}
  /\ session \in {"live", "lapsed"}
  /\ spent \in BOOLEAN
  /\ changes \in 0..MaxHealth
  /\ finding \in Kinds /\ trigger \in Configs
  /\ reply \in [ReplayNames -> Replies]
  /\ step \in 1..(Len(Replays) + 1)
  /\ verdict \in {"NONE", "TRUE_POSITIVE", "FALSE_POSITIVE", "INCONCLUSIVE"}
  /\ confidence \in {0, 25, 40, 85, 97}
  /\ accepted \in 0..Len(Replays)
  /\ lost \subseteq ReplayNames

\* A TRUE_POSITIVE rests on two replays the application really carried out:
\* "a single successful replay is never, by itself, treated as proof of
\* reproducibility" (_evaluate_csrf_reproducibility).
TruePositiveTwice ==
  verdict = "TRUE_POSITIVE" /\ trigger.indicator = "text" => accepted >= 2

\* On a target whose session and health hold throughout, and whose guards
\* refuse with 403 or 419, a TRUE_POSITIVE means that no defense the trigger
\* tested exists.
SteadyTruePositive ==
  /\ verdict = "TRUE_POSITIVE" /\ trigger.indicator = "text"
  /\ lost = {} /\ target.denial \in {403, 419}
  => /\ trigger.defense = "token" => "token" \notin target.guards
     /\ trigger.origin => "origin" \notin target.guards

\* Whatever lapses or fails meanwhile, a FALSE_POSITIVE is never given to an
\* undefended application, unless it refuses lapsed sessions as a guard would;
\* nor for a candidate from HAR traffic whose first replay was seen to be
\* accepted ("it also must not make TRUE_POSITIVE permanently unreachable").
FalsePositiveHasGuard ==
  /\ verdict = "FALSE_POSITIVE" /\ target.lapsed # 403
  /\ finding.har => StrongAcceptance(evidence)
  => target.guards # {}

\* A FALSE_POSITIVE put down to the origin policy means there is one.  A token
\* good for one request cannot be mistaken for it: the first replay spends it
\* before the origin test, whose own original replay is then refused as well.
OriginRejectionIsOrigin ==
  /\ verdict = "FALSE_POSITIVE" /\ OriginEnforced(evidence)
  /\ target.lapsed # 403
  => "origin" \in target.guards

=============================================================================
