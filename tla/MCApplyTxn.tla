----------------------------- MODULE MCApplyTxn ------------------------------
(***************************************************************************)
(* ApplyTxn on small instances.  Pools and sizes are told apart only by    *)
(* equality, so they are model values and interchangeable.                 *)
(***************************************************************************)
EXTENDS ApplyTxn, TLC

(* Every failure the safety theorems allow: all but the unlink of the
   record, whose error the code drops. *)
Writes == {"backup", "record", "live", "restore"}

(* What a daemon survives: the failures that leave no record behind. *)
BeforeTheChange == {"backup", "live"}

(* A rejected change that cannot be put back. *)
Restores == {"restore"}

(* The service manager and other people's reloads do not wait for a run. *)
Supervisors == {"start", "reload"}

Interchangeable == Permutations(Pools) \cup Permutations(Sizes)
=============================================================================
