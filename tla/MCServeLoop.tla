---------------------------- MODULE MCServeLoop -----------------------------
(***************************************************************************)
(* One daemon, an apply command given the daemon's state file, another     *)
(* given a state file of its own, an enable-status, and two directories    *)
(* between which an upgrade moves the master.                              *)
(***************************************************************************)
EXTENDS ServeLoop

CONSTANTS sameState, otherState, enableStatus, main, other

Commands == {sameState, otherState}

StateFiles ==
    [p \in {Serve} \cup Applies |-> IF p = otherState THEN other ELSE main]
=============================================================================
