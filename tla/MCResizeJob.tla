----------------------------- MODULE MCResizeJob -----------------------------
(***************************************************************************)
(* Instances of ResizeJob for TLC.  Two resource settings and two images   *)
(* tell every pair of templates the code compares apart; one more pod than *)
(* a rollout uses at once is never needed, since a deleted pod's identity  *)
(* is free again.                                                          *)
(***************************************************************************)
EXTENDS ResizeJob

CONSTANTS r1, r2, r3, i1, i2, p1, p2, w1, w2

TwoResources == {r1, r2}
ThreeResources == {r1, r2, r3}
OneImage     == {i1}
TwoImages    == {i1, i2}
OnePod       == {p1}
TwoPods      == {p1, p2}
OneWorker    == {w1}
TwoWorkers   == {w1, w2}

\* The engine's recommendations: always r2.
AllWantR2  == [w \in Worker |-> {r2}]
\* Two workers that are given the same object disagree.
WantThirdAndSecond == [w \in Worker |-> IF w = w1 THEN {r3} ELSE {r2}]
=============================================================================
