----------------------------- MODULE MCFleetScreen -----------------------------
(* The fleet screen over two clusters. *)
EXTENDS FleetScreen

MCFleet == <<"cloud", "stage">>

===============================================================================
