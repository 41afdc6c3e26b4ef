---------------------------- MODULE MCPoolState -----------------------------
(* A pool whose workers are cheap or dear. *)
EXTENDS PoolState

CheapAndDear == {1, 3}
=============================================================================
