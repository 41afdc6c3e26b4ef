--------------------------- MODULE MCStatusDropIn ---------------------------
(***************************************************************************)
(* StatusDropIn with a daemon, an apply and an enable-status command.      *)
(***************************************************************************)
EXTENDS StatusDropIn

(* The operator adds and removes sites while a run is going on. *)
SitesRace == {"sites"}
=============================================================================
