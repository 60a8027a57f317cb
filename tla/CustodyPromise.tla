---------------------------- MODULE CustodyPromise ----------------------------
(*****************************************************************************)
(* What an OpenBao initialisation ceremony promises about the recovery       *)
(* material of the vault it creates, without saying how: the vault is born   *)
(* once, shares reach durable places and never leave the last one, and the   *)
(* ceremony is closed only over a complete set.                              *)
(*****************************************************************************)
CONSTANT Share

VARIABLES
  born,     \* the vault has its master key
  safe,     \* the shares with at least one durable copy
  closed    \* the cluster is marked as initialised for good

Init == born = FALSE /\ safe = {} /\ closed = FALSE

\* The vault splits its key; no share is anywhere yet.
Birth == ~born /\ born' = TRUE /\ UNCHANGED <<safe, closed>>

\* Shares reach durable places they were not in; none leaves its last one.
Preserve == /\ born
            /\ safe' \in SUBSET Share /\ safe \subseteq safe'
            /\ UNCHANGED <<born, closed>>

\* Closing needs the complete set.
Close == born /\ safe = Share /\ closed' = TRUE /\ UNCHANGED <<born, safe>>

Next == Birth \/ Preserve \/ Close

Spec == Init /\ [][Next]_<<born, safe, closed>>

===============================================================================
