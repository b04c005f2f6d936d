----------------------------- MODULE CsrfRules -----------------------------
(***************************************************************************)
(* How CSRF evidence becomes a verdict: the observations drawn from the    *)
(* replays, the verification context built from them, and the classifier.  *)
(* A reply is what execute_replay records of one replay.  Optional values  *)
(* of the code (bool | None) are "yes", "no" and "unknown".                *)
(***************************************************************************)
EXTENDS Naturals

Tri == {"yes", "no", "unknown"}
YesIf(b) == IF b THEN "yes" ELSE "unknown"

NoStatus == 0   \* status None: the request raised httpx.RequestError
Statuses == {NoStatus, 200, 302, 400, 401, 403, 419, 500}

\* "shows": the acceptance text the caller asked for is in the body.
Replies == [status : Statuses, shows : BOOLEAN]
NoReply == [status |-> NoStatus, shows |-> FALSE]

\* The acceptance indicator of a trigger: none, a text, or the empty string,
\* which CsrfStateCheckConfig accepts and which is in every body.
Indicators == {"none", "text", "empty"}

\* defense: the defense test takes out the captured token ("token"), or names
\* a field the request does not carry ("other"); origin and browser: the test
\* is asked for.  A state check without a text is an indicator "none".
Triggers == [defense : {"none", "token", "other"}, origin : BOOLEAN,
             indicator : Indicators, browser : BOOLEAN]

\* What the rules read of a finding: is its method unsafe (POST, PUT, PATCH,
\* DELETE) or GET or HEAD, does it require authentication or a session, was it
\* detected in HAR traffic.
Findings == [unsafe : BOOLEAN, authRequired : BOOLEAN, har : BOOLEAN]

Matched(indicator, reply) ==
  /\ indicator # "none"
  /\ reply.status # NoStatus
  /\ reply.shows \/ indicator = "empty"

RejectionObserved(modified) == modified.status \in {403, 419}

\* Variant: any client error counts as a rejection by the defense.
AttributableToAny(original, modified) ==
  original.status \in 200..399 /\ modified.status \in 400..499

\* Variant: the original replay is not looked at.
AttributableUnchecked(original, modified) == RejectionObserved(modified)

\* Variant: only Laravel's 419 counts as a rejection.
AttributableBy419(original, modified) ==
  modified.status = 419 /\ original.status \in 200..399

\* _controlled_rejection_is_attributable.
Attributable(original, modified) ==
  RejectionObserved(modified) /\ original.status \in 200..399

StateChanging(f) == YesIf(f.unsafe \/ f.har)

SessionUnavailable(f, reply) ==
  f.authRequired /\ (reply.status = 401 \/ reply.status \in 300..399)

\* _evaluate_csrf_reproducibility: two independent replays agree.
Reproducible(t, first, second) ==
  YesIf(Matched(t.indicator, first) /\ Matched(t.indicator, second))

Nondeterministic(t, first, second) ==
  Matched(t.indicator, first) # Matched(t.indicator, second)

\* The replays one verification may make, in their order.
Replays == <<"first", "second", "defOriginal", "defModified",
             "orgOriginal", "orgModified">>
ReplayNames == {"first", "second", "defOriginal", "defModified",
                "orgOriginal", "orgModified"}

\* Everything collected by one verification; a replay that was not asked for
\* has NoReply.
Evidence == [finding : Findings, trigger : Triggers,
             reply : [ReplayNames -> Replies]]

DefenseEnforced(e) ==
  /\ e.trigger.defense # "none"
  /\ Attributable(e.reply["defOriginal"], e.reply["defModified"])

OriginEnforced(e) ==
  e.trigger.origin /\ Attributable(e.reply["orgOriginal"], e.reply["orgModified"])

\* _derive_defense_absence: every configured test failed to find a defense.
DefenseAbsence(e) ==
  IF e.trigger.defense = "none" /\ ~ e.trigger.origin THEN "unknown"
  ELSE IF DefenseEnforced(e) \/ OriginEnforced(e) THEN "no"
  ELSE "yes"

StrongAcceptance(e) == Matched(e.trigger.indicator, e.reply["first"])

\* build_csrf_verification_context, as _verify_csrf_finding calls it: no
\* state before and after is observed, no browser check is executed, and the
\* evidence is always saved.
Context(e) ==
  [stateChanging    |-> StateChanging(e.finding),
   authRequired     |-> e.finding.authRequired,
   plausible        |-> YesIf(e.finding.authRequired),
   defenseAbsent    |-> DefenseAbsence(e),
   accepted         |-> YesIf(StrongAcceptance(e)),
   strongAcceptance |-> StrongAcceptance(e),
   reproducible     |-> Reproducible(e.trigger, e.reply["first"], e.reply["second"]),
   tokenEnforced    |-> DefenseEnforced(e),
   originRejected   |-> OriginEnforced(e),
   signalOnly       |-> e.finding.har /\ ~ StrongAcceptance(e),
   sessionGone      |-> \/ SessionUnavailable(e.finding, e.reply["first"])
                        \/ /\ e.trigger.indicator # "none"
                           /\ SessionUnavailable(e.finding, e.reply["second"]),
   targetGone       |-> e.reply["first"].status = NoStatus,
   browserMissing   |-> e.trigger.browser,
   serverError      |-> e.reply["first"].status \in 500..599,
   nondeterministic |-> /\ e.trigger.indicator # "none"
                        /\ Nondeterministic(e.trigger, e.reply["first"], e.reply["second"])]

Inconclusive(c) ==
  \/ c.sessionGone \/ c.targetGone \/ c.browserMissing
  \/ c.serverError \/ c.nondeterministic

FalsePositive(c) ==
  \/ c.stateChanging = "no"
  \/ c.tokenEnforced \/ c.originRejected \/ c.signalOnly

TruePositive(c) ==
  /\ c.stateChanging = "yes" /\ c.authRequired /\ c.plausible = "yes"
  /\ c.defenseAbsent = "yes" /\ c.accepted = "yes" /\ c.strongAcceptance
  /\ c.reproducible = "yes"

\* verify_csrf: reasons to be inconclusive come first, then reasons for a
\* false positive, then the requirements of a true positive.
Verdict(c) ==
  IF Inconclusive(c) THEN "INCONCLUSIVE"
  ELSE IF FalsePositive(c) THEN "FALSE_POSITIVE"
  ELSE IF TruePositive(c) THEN "TRUE_POSITIVE"
  ELSE "INCONCLUSIVE"

\* calculate_csrf_confidence, in hundredths; no state change is ever observed.
Confidence(e) ==
  IF DefenseEnforced(e) \/ OriginEnforced(e) THEN 97
  ELSE IF StrongAcceptance(e) THEN 85
  ELSE IF e.reply["first"].status # NoStatus THEN 40
  ELSE 25
=============================================================================
