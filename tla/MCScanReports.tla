--------------------------- MODULE MCScanReports ---------------------------
(* Model-checking instances of ScanReports. *)
EXTENDS ScanReports, TLC

CONSTANTS s1, mainLoop, c1, c2

\* Two findings of one family at one place, which are duplicates, or one a
\* verifier supports and one none does.
MCReports == {<<"SQLI", "SQLI">>, <<"OTHER", "XSS">>}
SamePlace == [i \in Idx |-> "place"]
MCSeverity == <<"CRITICAL", "UNKNOWN">>

\* Each finding alone, and a correction of the first.
MCBatches == {<<"TRUE_POSITIVE", NoLabel>>, <<NoLabel, "FALSE_POSITIVE">>,
              <<"FALSE_POSITIVE", NoLabel>>}

ClientSymmetry == Permutations(Clients)
=============================================================================
