------------------------------ MODULE MCSizing ------------------------------
(* Three pools on one host, whose workers do not cost the same. *)
EXTENDS Sizing

Three == 1 .. 3
Costs == <<1, 2, 3>>
Histories == {{}, {1, 2}, Three}
=============================================================================
