---------------------------- MODULE MCControllerAuth ----------------------------
(* ControllerAuth for TLC: three shares, three attempts, two rounds, two runs.   *)
EXTENDS ControllerAuth

===============================================================================
