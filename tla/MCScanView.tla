----------------------------- MODULE MCScanView -----------------------------
(* Model-checking instances of ScanView. *)
EXTENDS ScanView

CONSTANTS s1, s2, f1

OneEarlier == {s1}
TwoScans == {s1, s2}
OneFinding == {f1}
=============================================================================
