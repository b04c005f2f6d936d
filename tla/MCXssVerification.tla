------------------------- MODULE MCXssVerification -------------------------
(* Model-checking instances of XssVerification. *)
EXTENDS XssVerification

Page(places, escaped, ownScript) ==
  [places |-> places, escaped |-> escaped, ownScript |-> ownScript]
Policy(script, default) ==
  [script |-> script, default |-> default, unread |-> FALSE]
Open == Policy("missing", "missing")

Of(declares, freshWorks, page, policy, payloads) ==
  [declares |-> declares, needs |-> TRUE, freshWorks |-> freshWorks,
   usable |-> TRUE, lapsed |-> 302, page |-> page, policy |-> policy,
   payloads |-> payloads]

\* The two payloads of an automatic run, and those of manual ones.
AutoPayloads == <<"script", "script">>
ManualPayloads == <<"script", "other", "script">>
MarkupPayloads == <<"other", "other">>
CodePayloads == <<"code", "script", "code">>

Executing == Page({"markup"}, FALSE, FALSE)
Plain == Of(TRUE, TRUE, Executing, Open, AutoPayloads)

\* Pages that run the payload, hold it harmlessly, escape it, or do not show it.
SomePages ==
  {Executing, Page({"handler"}, FALSE, FALSE), Page({"otherHandler"}, FALSE, FALSE),
   Page({"handler", "otherHandler"}, FALSE, FALSE),
   Page({"markup", "attribute"}, FALSE, FALSE), Page({"markup", "comment"}, FALSE, FALSE),
   Page({"uri"}, FALSE, FALSE), Page({"block"}, FALSE, TRUE),
   Page({"comment"}, FALSE, FALSE), Page({"rcdata"}, FALSE, TRUE),
   Page({}, TRUE, TRUE), Page({}, FALSE, FALSE)}

\* One finding: every page, every policy that matters, all payloads.
SingleRuns ==
  {<<Of(TRUE, TRUE, page, policy, payloads)>> :
     page \in SomePages,
     policy \in {Open, Policy("others", "inline"), Policy("missing", "others"),
                 Policy("inline", "others"), Policy("nonced", "missing")},
     payloads \in {AutoPayloads, ManualPayloads, MarkupPayloads, CodePayloads}}

\* Several findings: that declare a need and do not, of the login's application
\* and of another, one whose parameter cannot be replaced.
SharedRuns ==
  {<<Plain, [Plain EXCEPT !.lapsed = 403]>>,
   <<Plain, [Plain EXCEPT !.declares = FALSE], [Plain EXCEPT !.freshWorks = FALSE]>>,
   <<[Plain EXCEPT !.usable = FALSE], Plain, [Plain EXCEPT !.needs = FALSE]>>,
   <<[Plain EXCEPT !.policy = [Open EXCEPT !.unread = TRUE]]>>,
   <<[Plain EXCEPT !.usable = FALSE]>>}

SomeRuns == SingleRuns \cup SharedRuns
=============================================================================
