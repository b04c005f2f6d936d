------------------------------ MODULE XssRules ------------------------------
(***************************************************************************)
(* How the replies to the payload variants of a reflected XSS verification *)
(* become a verdict: where in the page each payload was found, whether the *)
(* page's policy lets it run, and the classifier over all attempts.        *)
(***************************************************************************)
EXTENDS Integers, Sequences, FiniteSets

\* A payload is a <script> element of its own, as those of an automatic run are;
\* other markup that runs; or bare JavaScript, without any markup.
Payloads == {"script", "other", "code"}

\* Where a page repeats the payload as it is: as markup of its own, in an event
\* handler of EVENT_HANDLER_ATTRIBUTES or in one of the many others, in an
\* ordinary attribute, a comment, a <textarea> or <title>, a <style> or <script>
\* block that was there before, a javascript: URI.
Places == {"markup", "handler", "otherHandler", "attribute", "comment", "rcdata",
           "block", "uri"}

\* escaped: the page shows the payload with every special character escaped;
\* ownScript: it has a plain <script> element that is not the payload's.
Pages == [places : SUBSET Places, escaped : BOOLEAN, ownScript : BOOLEAN]

\* The sources of a policy's directive: it is missing, lists none, lists
\* 'unsafe-inline', lists that beside a nonce or a hash, or lists others only.
Sources == {"missing", "empty", "inline", "nonced", "others"}

\* unread: what the code does not look at (a second policy, a <meta> element,
\* script-src-elem and script-src-attr) refuses the payload.
Policies == [script : Sources, default : Sources, unread : BOOLEAN]

NoStatus == 0
Statuses == {NoStatus, 200, 302, 401, 403, 429, 500}

Buckets == {"ABSENT", "ENCODED", "INERT", "EXECUTABLE", "AMBIGUOUS", "NONE"}

\* What the rules keep of a replay: "NONE" is no observation at all.
Attempts == [status : Statuses, bucket : Buckets, permits : BOOLEAN]

-----------------------------------------------------------------------------
(* One reply. *)

\* Sources that name 'unsafe-inline'.
Inline == {"inline", "nonced"}

\* _csp_permits_inline_script: script-src counts when it lists something, and
\* default-src otherwise; a policy with neither permits everything.
Permits(policy) ==
  IF policy.script \in {"missing", "empty"}
  THEN policy.default \in Inline \cup {"missing"}
  ELSE policy.script \in Inline

\* A browser falls back to default-src only for a missing script-src, and makes
\* nothing of 'unsafe-inline' beside a nonce or a hash.
BrowserPermits(policy) ==
  /\ IF policy.script = "missing" THEN policy.default \in {"inline", "missing"}
     ELSE policy.script = "inline"
  /\ ~ policy.unread

\* A browser runs markup where it is markup, and JavaScript in any handler.
RunsAt(payload, place) ==
  \/ place = "markup" /\ payload \in {"script", "other"}
  \/ place \in {"handler", "otherHandler"} /\ payload = "code"

\* _MarkerLocator: what each place, read on its own, says of the payload.  A
\* plain <script> tag lies within any payload that opens one, whoever wrote it,
\* and a handler the code does not know is an attribute like any other.
Resolutions(payload, page) ==
  {b \in {"EXECUTABLE", "INERT"} :
     IF b = "EXECUTABLE"
     THEN \/ "handler" \in page.places
          \/ payload = "script" /\ ("markup" \in page.places \/ page.ownScript)
     ELSE page.places \cap {"attribute", "otherHandler", "comment", "rcdata"} # {}}

NotRepeated(page) == IF page.escaped THEN "ENCODED" ELSE "ABSENT"

\* analyze_reflected_xss_response: two different answers are none.
Bucket(payload, page) ==
  CASE page.places = {} -> NotRepeated(page)
    [] page.places # {} /\ Cardinality(Resolutions(payload, page)) = 1 ->
         CHOOSE b \in Resolutions(payload, page) : TRUE
    [] OTHER -> "AMBIGUOUS"

\* _build_reflected_attempt_observation: a reply without status or with a
\* server error is not looked at; any other is, refusals and redirects too.
Attempt(payload, reply) ==
  [status |-> reply.status,
   bucket |-> IF reply.status \in {NoStatus, 500} THEN "NONE"
              ELSE Bucket(payload, reply.page),
   permits |-> Permits(reply.policy)]

-----------------------------------------------------------------------------
(* All attempts: build_xss_verification_context, then classify_xss. *)

Completed(attempts) ==
  /\ attempts # <<>>
  /\ \A i \in DOMAIN attempts : attempts[i].status \notin {NoStatus, 500}

\* _derive_blocking_reason.  Its other reasons have no source in a replay.
Blocked(attempts) == \E i \in DOMAIN attempts : attempts[i].status = 500

\* The variants are distinct (validate_distinct_variant_ids).
Confirming(attempts) ==
  {i \in DOMAIN attempts : attempts[i].bucket = "EXECUTABLE" /\ attempts[i].permits}

\* Variant: one attempt of a bucket is enough.
AnyMatch(attempts, bucket) ==
  \E i \in DOMAIN attempts : attempts[i].bucket = bucket

\* _all_attempts_match.
AllMatch(attempts, bucket) ==
  attempts # <<>> /\ \A i \in DOMAIN attempts : attempts[i].bucket = bucket

Neutralized(attempts) ==
  \E bucket \in {"ABSENT", "ENCODED", "INERT"} : AllMatch(attempts, bucket)

\* Variant: one confirmation is enough.
TruePositiveOnOne(attempts) == Confirming(attempts) # {}

\* _is_true_positive, without a browser whose marker could fire.
IsTruePositive(attempts) == Cardinality(Confirming(attempts)) >= 2

\* _is_false_positive.
IsFalsePositive(attempts) ==
  Completed(attempts) /\ Len(attempts) >= 2 /\ Neutralized(attempts)

Verdict(attempts) ==
  CASE Blocked(attempts) -> "INCONCLUSIVE"
    [] ~ Blocked(attempts) /\ IsTruePositive(attempts) -> "TRUE_POSITIVE"
    [] /\ ~ Blocked(attempts) /\ ~ IsTruePositive(attempts)
       /\ IsFalsePositive(attempts) -> "FALSE_POSITIVE"
    [] OTHER -> "INCONCLUSIVE"

=============================================================================
