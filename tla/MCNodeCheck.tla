----------------------------- MODULE MCNodeCheck -----------------------------
(***************************************************************************)
(* Two workers and three nodes, so that most may be NotReady while some    *)
(* are not.  The deadline of a wait falls between two polls, waits overlap *)
(* in every way, and the cooldown is as long as a wait.                    *)
(***************************************************************************)
EXTENDS NodeCheck

CONSTANTS w1, w2, n1, n2, n3

TwoWorkers == {w1, w2}
ThreeNodes == {n1, n2, n3}
TwoAndOne  == [n \in ThreeNodes |-> IF n = n3 THEN "arm64" ELSE "amd64"]
AnyOrArm   == {"", "arm64"}
=============================================================================
