------------------------- MODULE MCSqliErrorBased -------------------------
(* Model-checking instances of SqliErrorBased. *)
EXTENDS SqliErrorBased

Kind(vulnerable, emptyFails, pages, quotes, lapsed) ==
  [vulnerable |-> vulnerable, emptyFails |-> emptyFails, pages |-> pages,
   quotes |-> quotes, lapsed |-> lapsed,
   complaint |-> {"syntax"}, trouble |-> {"driver"}]

\* One signature matches the payload's error and that of a failing database, or
\* nothing is shown of the latter.
Sharing(kind) == [kind EXCEPT !.complaint = {"syntax", "driver"}]
Silent(kind) == [kind EXCEPT !.trouble = {}]

\* Stable and unstable pages, vulnerable and not, with and without errors that
\* are not the payload's; sessions that lapse into redirects or refusals.
SomeTargets ==
  {Kind(TRUE, FALSE, {0}, {}, 302), Kind(TRUE, FALSE, {0, 1}, {}, 401),
   Kind(TRUE, FALSE, {0, 1, 2}, {}, 403), Kind(TRUE, TRUE, {0}, {}, 302),
   Kind(TRUE, FALSE, {0}, {0}, 302), Kind(TRUE, FALSE, {0, 1}, {1}, 419),
   Kind(FALSE, FALSE, {0}, {}, 302), Kind(FALSE, FALSE, {0, 1}, {0, 1}, 302),
   Sharing(Kind(TRUE, FALSE, {0}, {}, 302)), Sharing(Kind(TRUE, TRUE, {0}, {}, 401)),
   Silent(Kind(TRUE, TRUE, {0}, {}, 302)), Silent(Kind(TRUE, FALSE, {0}, {0}, 403))}

\* The payload after the original value, alone, missing; the parameter twice.
SomeFindings ==
  {[occurrences |-> 1, payload |-> "appended"], [occurrences |-> 1, payload |-> "alone"],
   [occurrences |-> 2, payload |-> "elsewhere"]}
=============================================================================
