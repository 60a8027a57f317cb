----------------------------- MODULE MCNodeRemove ------------------------------
(* NodeRemove on a cluster of two control-plane nodes of which one is named after *)
(* the other, as "cp" and "cp-b".                                                 *)
EXTENDS NodeRemove

MCNameExtends == {<<"cp", "cp-b">>}

===============================================================================
