-------------------------- MODULE ScannerFindings --------------------------
(***************************************************************************)
(* What the parsers make of the alerts of a ZAP report and the issues of a *)
(* Burp report, and which of the findings a verification then accepts.     *)
(*                                                                         *)
(* The query of a URL is the sequence of its parameters' names.  A Burp    *)
(* location is one text, such as "/path [uid parameter]", of which matters *)
(* what names occur in it, in the path and in Burp's own words too; of an  *)
(* issue's name only the words that the parser looks for matter.           *)
(* The findings are a set: nothing reads them by their order.              *)
(***************************************************************************)
EXTENDS Naturals, Sequences, SequencesExt, FiniteSets

CONSTANTS
  Within      \* pairs of texts of which the first occurs in the second

NoText == ""

ASSUME ScannerAssumption == \A p \in Within : p \in STRING \X STRING

\* The plugins ZapParser knows, others, and none.
Plugins == {"40018", "40012", "other", "None"}

\* Substrings _map_category and map_burp_xss_subtype look for.
Words == {"sql injection", "csrf", "xss", "dom", "stored", "reflected"}

-----------------------------------------------------------------------------
(* ZAP alerts: one finding per instance of a classified alert. *)

\* _classify_alert: by plugin, or by the exact name of one of them.
ZapCategory(a) ==
  CASE a.plugin = "40018" -> "SQLI"
    [] a.plugin = "40012" \/ (a.plugin # "40018" /\ a.reflectedByName) -> "XSS"
    [] OTHER -> "NONE"

\* map_zap_xss_subtype, which has nothing but the plugin to go by.
ZapReflected(a) == a.plugin = "40012"

\* _build_normalized_finding; the parameter is in the query, or nowhere known.
ZapFinding(a, n) ==
  [category |-> ZapCategory(a), reflected |-> ZapReflected(a), item |-> n,
   parameter |-> a.param, inQuery |-> a.param # NoText /\ a.param \in Range(a.query),
   query |-> a.query]

\* Variant: alerts nobody classified are kept.
ZapFindingsOfAll(alerts) == {ZapFinding(alerts[n], n) : n \in DOMAIN alerts}

\* _parse_traditional_alerts.
ZapFindings(alerts) ==
  {f \in {ZapFinding(alerts[n], n) : n \in DOMAIN alerts} : f.category # "NONE"}

-----------------------------------------------------------------------------
(* Burp issues: every one becomes a finding. *)

\* _map_category: the first family whose words the name has.
BurpCategory(b) ==
  CASE "sql injection" \in b.words -> "SQLI"
    [] "csrf" \in b.words /\ "sql injection" \notin b.words -> "CSRF"
    [] "xss" \in b.words /\ b.words \cap {"sql injection", "csrf"} = {} -> "XSS"
    [] OTHER -> "OTHER"

\* map_burp_xss_subtype.
BurpReflected(b) == "reflected" \in b.words /\ b.words \cap {"dom", "stored"} = {}

\* Variant: the location is not looked at.
ParameterOfUrl(b) == IF b.query = <<>> THEN NoText ELSE b.query[1]

\* _extract_parameter: the first parameter of the query whose name occurs
\* anywhere in the location.
BurpParameter(b) ==
  LET i == SelectInSeq(b.query, LAMBDA p : <<p, b.location>> \in Within)
  IN IF i = 0 THEN NoText ELSE b.query[i]

\* _build_finding.
BurpFinding(b, n) ==
  [category |-> BurpCategory(b), reflected |-> BurpReflected(b), item |-> n,
   parameter |-> BurpParameter(b), inQuery |-> BurpParameter(b) # NoText,
   query |-> b.query]

BurpFindings(issues) == {BurpFinding(issues[n], n) : n \in DOMAIN issues}

-----------------------------------------------------------------------------
(* What becomes of a finding. *)

\* build_auto_trigger.
Attempted(f) == f.category \in {"SQLI", "CSRF", "XSS"}

\* _find_single_query_parameter, _replace_single_query_parameter.
OccursOnce(f) == Cardinality({i \in DOMAIN f.query : f.query[i] = f.parameter}) = 1

\* The checks a verification begins with: what fails them is refused by the
\* endpoint, and listed as an error by the automatic run.
Accepted(f) ==
  CASE f.category = "CSRF" -> TRUE
    [] f.category = "SQLI" -> f.parameter # NoText /\ f.inQuery /\ OccursOnce(f)
    [] f.category = "XSS" ->
         f.reflected /\ f.parameter # NoText /\ f.inQuery /\ OccursOnce(f)
    [] OTHER -> FALSE
=============================================================================
