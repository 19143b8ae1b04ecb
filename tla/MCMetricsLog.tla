---------------------------- MODULE MCMetricsLog ----------------------------
(***************************************************************************)
(* TLC instance of MetricsLog: a full file, and a rotated one before it.   *)
(***************************************************************************)
EXTENDS MetricsLog, TLC

CONSTANTS w1, w2, w3, first, older, e1, e2, o1
MCThree == {w1, w2, w3}
MCOld == {e1, e2}
MCOlder == {o1}
Symmetry == Permutations(Writers)
=============================================================================
