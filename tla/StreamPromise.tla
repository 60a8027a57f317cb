----------------------------- MODULE StreamPromise -----------------------------
(*****************************************************************************)
(* What the adapter for fleet scripts promises the engines that drain it,    *)
(* without saying how: a run is concluded once, with success only when it was *)
(* followed to its end and a secret block it opened is in the engine's hands. *)
(*****************************************************************************)
EXTENDS Integers

NoResult == 0 - 1

VARIABLES
  opened,   \* the script has begun to print a secret block
  taken,    \* the engine's callback holds a payload
  left,     \* the run was given up while somebody still held its pipes
  result    \* what the engine was told, NoResult until then

Init == opened = FALSE /\ taken = FALSE /\ left = FALSE /\ result = NoResult

Concluded == result # NoResult

\* A script that is reported upon begins no block.
Open == ~Concluded /\ opened' = TRUE /\ UNCHANGED <<taken, left, result>>

\* Only a run that was given up delivers its payload after the report.
Take == /\ opened /\ (Concluded => left)
        /\ taken' = TRUE
        /\ UNCHANGED <<opened, left, result>>

GiveUp == ~Concluded /\ left' = TRUE /\ UNCHANGED <<opened, taken, result>>

Succeed == /\ ~Concluded /\ ~left /\ (opened => taken)
           /\ result' = 0
           /\ UNCHANGED <<opened, taken, left>>

\* 130 tells of a cancellation.
Fail == ~Concluded /\ result' \in {1, 130} /\ UNCHANGED <<opened, taken, left>>

Next == Open \/ Take \/ GiveUp \/ Succeed \/ Fail

Spec == Init /\ [][Next]_<<opened, taken, left, result>>

================================================================================
