-------------------------- MODULE MCSqliTimeBased --------------------------
(* Model-checking instances of SqliTimeBased. *)
EXTENDS SqliTimeBased

\* A fast target and a slow one whose jitter is at the limit of a stable
\* baseline, vulnerable or not, with a lapsed session answered by a redirect or
\* by a refusal.
Fast == {4, 6}
Slow == {20, 25, 30}
SomeTargets ==
  {[vulnerable |-> TRUE, times |-> Fast, lapsed |-> 302],
   [vulnerable |-> TRUE, times |-> Slow, lapsed |-> 401],
   [vulnerable |-> FALSE, times |-> Fast, lapsed |-> 401],
   [vulnerable |-> FALSE, times |-> {20, 30}, lapsed |-> 302]}

\* The targets are among those the theorems are about.
ASSUME SomeTargetsAreSteady == JitterBelowDelay /\ SleepAboveJitter
=============================================================================
