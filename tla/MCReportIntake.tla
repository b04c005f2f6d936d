--------------------------- MODULE MCReportIntake ---------------------------
(* Model-checking instance of ReportIntake. *)
EXTENDS ReportIntake

Form(action, method, query, names) ==
  [action |-> action, method |-> method, query |-> query, names |-> names,
   buttons |-> IF method = "GET" THEN {"go"} ELSE {},
   multipart |-> action = "" /\ method = "POST", token |-> "csrf_token" \in names]

\* A page that changes something by GET, with a named button or without, and again
\* by POST, one whose form has a token and goes where the other's goes, and one
\* whose forms go to itself, with a query and, as multipart, with the page's.
SomePages ==
  [p \in {"/change", "/safe", "/step"} |->
    CASE p = "/change" -> <<Form("", "GET", {}, {"new", "again"}),
                            Form("/safe", "POST", {}, {"new"})>>
      [] p = "/safe" -> <<Form("/safe", "POST", {}, {"new", "csrf_token"})>>
      [] p = "/step" -> <<Form("/step", "POST", {"step"}, {"new"}),
                         Form("", "POST", {}, {"new"})>>]

\* A request that looks like a submission.
SomeCalls ==
  {[method |-> "GET", path |-> "/change", query |-> {"new"}]}

\* The locations of issues, with the parameter each is about.  The names "id" and
\* "p" also occur in another name, in the paths, and in the word parameter.
Locations ==
  [l \in {"/ids", "/page [q parameter]", "/page [uid parameter]", "/ids [uid parameter]",
          "/ids [p parameter]"} |->
    CASE l = "/ids" -> NoText
      [] l = "/page [q parameter]" -> "q"
      [] l = "/ids [p parameter]" -> "p"
      [] OTHER -> "uid"]
SomeWithin ==
  {<<Locations[l], l>> : l \in DOMAIN Locations \ {"/ids"}}
    \cup {<<"p", l>> : l \in DOMAIN Locations \ {"/ids"}}
    \cup {<<"id", l>> : l \in DOMAIN Locations \ {"/page [q parameter]"}}
Queries ==
  {<<>>, <<"q">>, <<"id", "uid">>, <<"uid", "q">>, <<"q", "q">>, <<"p", "uid">>,
   <<"uid", "p">>, <<"q", "p">>}

SomeAlerts ==
  [plugin : Plugins, reflectedByName : BOOLEAN, param : {"", "uid", "q"},
   query : Queries]

SomeIssues ==
  {[words |-> words, location |-> l, param |-> Locations[l], query |-> query] :
     words \in {{"sql injection"}, {"sql injection", "dom"}, {"csrf"},
                {"xss", "reflected"}, {"xss", "dom", "reflected"},
                {"xss", "stored"}, {"reflected"}},
     l \in DOMAIN Locations, query \in Queries}
=============================================================================
