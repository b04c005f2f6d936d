--------------------------- MODULE HarCandidates ---------------------------
(***************************************************************************)
(* How CSRF candidates are found in captured traffic: every form without a *)
(* known anti-CSRF token is matched with the first later request that      *)
(* submits nothing but fields the form declares.                           *)
(*                                                                         *)
(* An entry is a request and the forms of its HTML response: the names in  *)
(* its query and in its body, how the capture kept the body, and which     *)
(* session's cookie it carried, if the cookie has one of the known names.  *)
(***************************************************************************)
EXTENDS Naturals, Sequences, SequencesExt, FiniteSets

NoSession == 0
Methods == {"GET", "POST"}

\* How postData was captured: not at all, as text, as a list of parameters
\* without the text, as text beside a list of parameters that is empty, or as the
\* text of a multipart message.
BodyKinds == {"none", "text", "params", "emptyParams", "multipart"}

\* A form's action, "" for the page itself, may come with a query; names: its
\* <input>, <select> and <textarea> elements; buttons: its <button> elements, which
\* _FormExtractor passes over; multipart: its enctype says so; token: one of its
\* hidden fields has one of the known names of tokens.
FormKinds(Paths, Names) ==
  [action : Paths \cup {""}, method : Methods, query : SUBSET Names,
   names : SUBSET Names, buttons : SUBSET Names, multipart : BOOLEAN,
   token : BOOLEAN]

\* What parse_qs makes of a multipart text is no field of any form.
Boundary == "boundary"

\* _request_parameter_names: a list of parameters counts even if it is empty.
RequestNames(e) ==
  e.query \cup CASE e.body \in {"none", "emptyParams"} -> {}
                 [] e.body = "multipart" -> {Boundary}
                 [] OTHER -> e.fields

\* _resolve_form_action: the query of the action is dropped.
ActionPath(form, page) == IF form.action = "" THEN page.path ELSE form.action

\* Variant: only a submission of every declared field is one.
SubmitsAll(form, page, e) ==
  /\ e.method = form.method /\ e.path = ActionPath(form, page)
  /\ RequestNames(e) = form.names

\* The conditions of _find_matching_request on one entry.
Submits(form, page, e) ==
  /\ e.method = form.method /\ e.path = ActionPath(form, page)
  /\ RequestNames(e) # {} /\ RequestNames(e) \subseteq form.names

\* _find_matching_request: the first of them after the form's own entry.
MatchOf(entries, i, form) ==
  SelectInSubSeq(entries, i + 1, Len(entries),
                 LAMBDA e : Submits(form, entries[i], e))

\* Every form of every page.
FormsOf(entries) ==
  UNION {{[source |-> i, form |-> k] : k \in DOMAIN entries[i].forms} :
           i \in DOMAIN entries}

\* Variant: a session cookie on both requests is enough, whatever its value.
BothHaveSession(loaded, sent) == NoSession \notin {loaded.session, sent.session}

\* _session_cookie_consistent: a known name, with the same value in both.
SessionConsistent(loaded, sent) ==
  sent.session # NoSession /\ sent.session = loaded.session

\* _extract_post_body: the text of the body, or nothing.
ReplayedNames(e) ==
  e.query \cup (IF e.body \in {"text", "emptyParams", "multipart"} THEN e.fields ELSE {})

\* CsrfCandidate, and the finding zap_har.py builds from it.
Candidate(entries, o) ==
  LET j == MatchOf(entries, o.source, entries[o.source].forms[o.form])
  IN [category |-> "CSRF", source |-> o.source, form |-> o.form, item |-> j,
      replayed |-> ReplayedNames(entries[j]),
      session |-> SessionConsistent(entries[o.source], entries[j])]

\* find_csrf_candidates; nothing depends on the order of the candidates.
Candidates(entries) ==
  {Candidate(entries, o) : o \in
    {o \in FormsOf(entries) : LET f == entries[o.source].forms[o.form] IN
       ~ f.token /\ f.names # {} /\ MatchOf(entries, o.source, f) # 0}}
=============================================================================
