---------------------------- MODULE MCLiveSession -----------------------------
(* Instances of LiveSession for TLC.                                       *)
EXTENDS LiveSession, TLC

CONSTANTS a, b, t1, t2, s1, s2

\* A prompt holds a value, or a token somebody typed; the model writes a token it was shown
\* or guesses one, or writes a value itself.
PromptsMC == {[reals |-> {a}, toks |-> {}], [reals |-> {b}, toks |-> {1}]}
RepliesMC == {[reals |-> {}, toks |-> {1, 2}], [reals |-> {a}, toks |-> {2}]}

\* Everything in place and a check that blocks; an interception point missing; the original
\* sent when it fails.
SetupsMC ==
  {[degraded |-> FALSE, closed |-> TRUE, blocks |-> TRUE],
   [degraded |-> TRUE, closed |-> TRUE, blocks |-> FALSE],
   [degraded |-> FALSE, closed |-> FALSE, blocks |-> FALSE]}

\* The threads are interchangeable, and so are the sessions.
LiveSymmetry == Permutations(Threads) \cup Permutations(Sessions)
===============================================================================
