------------------------ MODULE MCCsrfVerification ------------------------
(* Model-checking instances of CsrfVerification. *)
EXTENDS CsrfVerification

\* What the parsers produce: a scanner's alert on a POST, of which nothing says
\* that it needs a session; captured forms, submitted in the session in which
\* they were loaded or in none.
SomeFindings ==
  {[unsafe |-> TRUE, authRequired |-> FALSE, har |-> FALSE],
   [unsafe |-> FALSE, authRequired |-> TRUE, har |-> TRUE],
   [unsafe |-> TRUE, authRequired |-> TRUE, har |-> TRUE],
   [unsafe |-> TRUE, authRequired |-> FALSE, har |-> TRUE]}

\* Every combination of tests and indicators, a browser check once, and a
\* defense test that misses the token with and without the origin test.
SomeTriggers ==
  {t \in Triggers :
     /\ t.browser => t.origin /\ t.defense = "none" /\ t.indicator = "text"
     /\ t.defense = "other" => t.indicator = "text"}

\* One status for each way of refusing that the rules tell apart; targets that
\* differ only in what they never show are taken once.
SomeTargets ==
  {t \in TargetKinds :
     /\ t.denial \in {400, 403} /\ t.lapsed \in {302, 401, 403}
     /\ ~ t.needs => t.lapsed = 302
     /\ t.guards = {} => t.denial = 403
     /\ t.oneShot => "token" \in t.guards}
=============================================================================
