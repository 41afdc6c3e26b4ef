----------------------------- MODULE MCCpuLoad -----------------------------
(***************************************************************************)
(* CpuLoad with two pools, whose workers wear one pid after the other.     *)
(***************************************************************************)
EXTENDS CpuLoad

CONSTANTS a, b, w1

Two == {a, b}
One == {w1}
Reused == {<<a, w1>>, <<b, w1>>}
=============================================================================
