------------------------- MODULE MCScanVerification -------------------------
(* Model-checking instances of ScanVerification. *)
EXTENDS ScanVerification

CONSTANTS s1, s2, mainLoop

\* A report with two families, one with an unsupported family between two
\* supported ones, and the empty report.
MCReports == {<<"SQLI", "CSRF">>, <<"OTHER", "XSS">>, <<>>}
OneReport == {<<"SQLI", "CSRF">>}
=============================================================================
