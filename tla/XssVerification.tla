-------------------------- MODULE XssVerification --------------------------
(***************************************************************************)
(* The findings of one run, as an automatic verification goes through      *)
(* them: the session each replay is given, with one login for the whole    *)
(* run, and the replays of a reflected XSS finding.  A manual verification *)
(* is a run of one finding.                                                *)
(***************************************************************************)
EXTENDS XssRules

CONSTANTS
  Runs,        \* the sequences of findings verified
  MaxMoods     \* bound on the changes of the application's mood

\* declares: the normalized context asks for authentication or a session;
\* needs: the page really wants one; freshWorks: the cookie the login gives is
\* all this finding's page needs (the same application, no other cookie);
\* usable: reflected, with its parameter in the URL once; lapsed: the status
\* without a session.
Findings ==
  [declares : BOOLEAN, needs : BOOLEAN, freshWorks : BOOLEAN, usable : BOOLEAN,
   lapsed : {302, 401, 403}, page : Pages, policy : Policies,
   payloads : Seq(Payloads)]

ASSUME XssAssumption ==
  /\ \A run \in Runs :
       run \in Seq(Findings) /\ \A i \in DOMAIN run : Len(run[i].payloads) >= 2
  /\ MaxMoods \in Nat

\* The credentials of the environment: none, accepted, or not.
Credentials == {"none", "good", "bad"}
Moods == {"calm", "throttling", "failing", "down"}

VARIABLES
  run, credentials,
  mood, changes, capturedSession, freshSession,    \* the applications
  cache,        \* session_cache: not asked yet, no cookie, a cookie
  position,     \* of the finding under verification
  override,     \* the cookie its replays carry
  attempts, verdict,
  logins,       \* history: logins of the run
  raised,       \* history: those whose cookies could not be read
  lost          \* history: attempts answered by something else than the page

applicationVars == <<mood, changes, capturedSession, freshSession>>
sessionVars == <<cache, override, logins, raised>>
findingVars == <<position, attempts, verdict, lost>>
givenVars == <<run, credentials>>
vars == <<givenVars, applicationVars, sessionVars, findingVars>>

Finding == run[position]
Ended == position > Len(run)

-----------------------------------------------------------------------------
(* The applications. *)

\* The replay carries a session that is good for the page.
HasSession ==
  IF override = "fresh" THEN Finding.freshWorks /\ freshSession = "live"
  ELSE capturedSession = "live"

OtherPage == [places |-> {}, escaped |-> FALSE, ownScript |-> FALSE]
NoPolicy == [script |-> "missing", default |-> "missing", unread |-> FALSE]
Other(status) == [status |-> status, page |-> OtherPage, policy |-> NoPolicy]

Answered == mood = "calm" /\ (Finding.needs => HasSession)

Reply ==
  CASE mood = "down" -> Other(NoStatus)
    [] mood = "failing" -> Other(500)
    [] mood = "throttling" -> Other(429)
    [] mood = "calm" /\ ~ Answered -> Other(Finding.lapsed)
    [] OTHER -> [status |-> 200, page |-> Finding.page, policy |-> Finding.policy]

Init ==
  /\ run \in Runs /\ credentials \in Credentials
  /\ mood \in Moods /\ changes = 0
  /\ capturedSession \in {"live", "lapsed"} /\ freshSession = "none"
  /\ cache = "unasked" /\ override = "unresolved"
  /\ position = 1 /\ attempts = <<>> /\ verdict = "NONE"
  /\ logins = 0 /\ raised = 0 /\ lost = {}

MoodChanges ==
  /\ ~ Ended /\ changes < MaxMoods
  /\ mood' \in Moods \ {mood} /\ changes' = changes + 1
  /\ UNCHANGED <<givenVars, capturedSession, freshSession, sessionVars, findingVars>>

SessionLapses ==
  /\ ~ Ended
  /\ \/ /\ capturedSession = "live"
        /\ capturedSession' = "lapsed" /\ UNCHANGED freshSession
     \/ /\ freshSession = "live"
        /\ freshSession' = "lapsed" /\ UNCHANGED capturedSession
  /\ UNCHANGED <<givenVars, mood, changes, sessionVars, findingVars>>

-----------------------------------------------------------------------------
(* The session of a finding: _resolve_cached_session_override. *)

Unresolved == ~ Ended /\ override = "unresolved" /\ verdict = "NONE"

OverrideOf(cookie) == IF cookie = "cookie" THEN "fresh" ELSE "captured"

\* A finding that declares no need keeps its captured cookie.
KeepCaptured ==
  /\ Unresolved /\ ~ Finding.declares
  /\ override' = "captured"
  /\ UNCHANGED <<givenVars, applicationVars, cache, logins, raised, findingVars>>

\* Variant: the login's cookie is for the finding that asked for it.
UseCaptured ==
  /\ Unresolved /\ Finding.declares /\ cache # "unasked"
  /\ override' = "captured"
  /\ UNCHANGED <<givenVars, applicationVars, cache, logins, raised, findingVars>>

\* The login was tried before, with or without success.
UseCached ==
  /\ Unresolved /\ Finding.declares /\ cache # "unasked"
  /\ override' = OverrideOf(cache)
  /\ UNCHANGED <<givenVars, applicationVars, cache, logins, raised, findingVars>>

\* refresh_session: refused with a status of 400 or more, or unreachable, there
\* is no cookie; an application may answer wrong credentials with an ordinary
\* page, and set the cookie of a session nobody is logged into.
LoginCookies ==
  IF mood # "calm" THEN {"none"}
  ELSE IF credentials = "good" THEN {"cookie"} ELSE {"none", "cookie"}

\* Variant: only a success is remembered.
RememberedSuccess(cookie) == IF cookie = "none" THEN "unasked" ELSE cookie

\* What comes of the login is kept, a failure too.
Remembered(cookie) == cookie

SessionOfLogin == IF credentials = "good" THEN "live" ELSE "lapsed"

\* The first finding of the run that declares a need logs in.
Login ==
  /\ Unresolved /\ Finding.declares /\ cache = "unasked" /\ credentials # "none"
  /\ \E cookie \in LoginCookies :
       /\ cache' = Remembered(cookie) /\ override' = OverrideOf(cookie)
       /\ freshSession' = IF cookie = "cookie" THEN SessionOfLogin ELSE freshSession
  /\ logins' = logins + 1
  /\ UNCHANGED <<givenVars, mood, changes, capturedSession, raised, findingVars>>

\* The login was answered, but two of its cookies share a name: response.cookies
\* raises CookieConflict, which refresh_session does not catch.  Nothing is
\* remembered, and the run lists the finding as an error.
LoginRaises ==
  /\ Unresolved /\ Finding.declares /\ cache = "unasked" /\ credentials # "none"
  /\ mood = "calm"
  /\ logins' = logins + 1 /\ raised' = raised + 1
  /\ verdict' = "ERROR"
  /\ UNCHANGED <<givenVars, applicationVars, cache, override, position, attempts, lost>>

\* There is no AuthSessionConfig.
NoLogin ==
  /\ Unresolved /\ Finding.declares /\ cache = "unasked" /\ credentials = "none"
  /\ cache' = Remembered("none") /\ override' = "captured"
  /\ UNCHANGED <<givenVars, applicationVars, logins, raised, findingVars>>

-----------------------------------------------------------------------------
(* The replays and the verdict: _verify_reflected_xss_finding. *)

Ready == ~ Ended /\ override # "unresolved" /\ verdict = "NONE"

\* Another subtype, or a parameter that cannot be replaced: HTTP 400, which a
\* run lists as an error.
Refuse ==
  /\ Ready /\ ~ Finding.usable
  /\ verdict' = "ERROR"
  /\ UNCHANGED <<givenVars, applicationVars, sessionVars, position, attempts, lost>>

\* One replay of collect_reflected_xss_variant_attempts.
Replay ==
  /\ Ready /\ Finding.usable /\ Len(attempts) < Len(Finding.payloads)
  /\ LET i == Len(attempts) + 1
     IN  /\ attempts' = Append(attempts, Attempt(Finding.payloads[i], Reply))
         /\ lost' = IF Answered THEN lost ELSE lost \cup {i}
  /\ UNCHANGED <<givenVars, applicationVars, sessionVars, position, verdict>>

Classify ==
  /\ Ready /\ Finding.usable /\ Len(attempts) = Len(Finding.payloads)
  /\ verdict' = Verdict(attempts)
  /\ UNCHANGED <<givenVars, applicationVars, sessionVars, position, attempts, lost>>

\* Variant: an error counts for the next finding too.
NextFindingSkips ==
  /\ ~ Ended /\ verdict # "NONE"
  /\ position' = position + (IF verdict = "ERROR" THEN 2 ELSE 1)
  /\ override' = "unresolved" /\ attempts' = <<>> /\ verdict' = "NONE" /\ lost' = {}
  /\ UNCHANGED <<givenVars, applicationVars, cache, logins, raised>>

\* The run goes on, whatever became of the finding.
NextFinding ==
  /\ ~ Ended /\ verdict # "NONE"
  /\ position' = position + 1
  /\ override' = "unresolved" /\ attempts' = <<>> /\ verdict' = "NONE" /\ lost' = {}
  /\ UNCHANGED <<givenVars, applicationVars, cache, logins, raised>>

Next ==
  \/ KeepCaptured \/ UseCached \/ Login \/ LoginRaises \/ NoLogin
  \/ Refuse \/ Replay \/ Classify \/ NextFinding
  \/ MoodChanges \/ SessionLapses

Spec == Init /\ [][Next]_vars

-----------------------------------------------------------------------------
(* Properties. *)

TypeOK ==
  /\ run \in Runs /\ credentials \in Credentials
  /\ mood \in Moods /\ changes \in 0..MaxMoods
  /\ capturedSession \in {"live", "lapsed"}
  /\ freshSession \in {"none", "live", "lapsed"}
  /\ cache \in {"unasked", "none", "cookie"}
  /\ override \in {"unresolved", "captured", "fresh"}
  /\ position \in 1..(Len(run) + 1)
  /\ attempts \in Seq(Attempts)
  /\ ~ Ended => Len(attempts) <= Len(Finding.payloads)
  /\ verdict \in {"NONE", "TRUE_POSITIVE", "FALSE_POSITIVE", "INCONCLUSIVE", "ERROR"}
  /\ logins \in Nat /\ raised \in Nat
  /\ lost \subseteq DOMAIN attempts

\* The attempts whose payload the page repeated and a browser runs.
Running ==
  {i \in DOMAIN attempts \ lost :
     /\ \E place \in Finding.page.places : RunsAt(Finding.payloads[i], place)
     /\ BrowserPermits(Finding.policy)}

\* What the code takes for running and a browser may not: a plain <script> of the
\* page's own (an AMBIGUOUS place is "never" to lead "toward a false TRUE_POSITIVE",
\* says the taxonomy, yet any such script makes it executable), markup as the text
\* of a handler, and a policy that it reads as
\* open (script-src without sources, 'unsafe-inline' beside a nonce, and what it
\* does not read).
Misjudged ==
  \/ Finding.page.ownScript
  \/ /\ "handler" \in Finding.page.places
     /\ \E i \in DOMAIN Finding.payloads : Finding.payloads[i] # "code"
  \/ Finding.policy.script \in {"empty", "nonced"}
  \/ Finding.policy.script = "missing" /\ Finding.policy.default = "nonced"
  \/ Finding.policy.unread

\* A TRUE_POSITIVE rests on two payloads that the page itself repeated, however
\* many of the replays met a lapsed session, a refusal or no answer at all; and a
\* browser runs two of them, but for what the code is known to misjudge.
TruePositiveRuns ==
  verdict = "TRUE_POSITIVE" =>
    /\ Cardinality(DOMAIN attempts \ lost) >= 2
    /\ Misjudged \/ Cardinality(Running) >= 2

\* A page that puts one of the payloads where it runs and the code looks for it
\* (a <script> as markup, JavaScript in a handler it knows), whatever its policy,
\* and that answered one of the replays is never given a FALSE_POSITIVE: absent
\* from some replies and present in others is not "absent" (_all_attempts_match),
\* nor is inert here and running there "inert" (_MarkerLocator).  The taxonomy
\* promises it of every page that runs a payload; a handler the list does not name,
\* and markup other than a script with one more copy in a comment, pass for inert.
FalsePositiveWhollyLost ==
  /\ verdict = "FALSE_POSITIVE"
  /\ \E i \in DOMAIN attempts :
       \/ Finding.payloads[i] = "script" /\ "markup" \in Finding.page.places
       \/ Finding.payloads[i] = "code" /\ "handler" \in Finding.page.places
  => lost = DOMAIN attempts

\* "the actual login network call ... happens at most once per scan run"
\* (_resolve_cached_session_override): not quite, for a run logs in again after a
\* login whose cookies raised.  Any other is kept, a failure too, and serves every
\* later finding of the run.
OneLoginKept == logins <= raised + 1

\* As long as nothing goes wrong with the session a finding's replays are given,
\* an exploitable finding is found out, whatever became of the captured one: the
\* one login serves every finding that declares a need and no other.
DetectedWhenSessionHolds ==
  /\ ~ Ended /\ verdict \notin {"NONE", "ERROR"}
  /\ changes = 0 /\ mood = "calm"
  /\ \A i \in DOMAIN Finding.payloads :
       Bucket(Finding.payloads[i], Finding.page) = "EXECUTABLE"
  /\ Permits(Finding.policy)
  /\ IF Finding.declares /\ credentials # "none"
     THEN credentials = "good" /\ Finding.freshWorks /\ freshSession = "live"
     ELSE capturedSession = "live"
  => verdict = "TRUE_POSITIVE"

=============================================================================
