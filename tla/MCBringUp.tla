------------------------------- MODULE MCBringUp -------------------------------
(* Four components of a cluster's bring-up that share no state, checked in one     *)
(* run: SetupInit picks the one that moves in a behaviour, the others stay at one  *)
(* of their initial states, so a property of a part holds here iff it holds for    *)
(* the part's own specification.  The cutover as in MCOidcCutover.                 *)
EXTENDS MCOidcCutover, FleetStarter, PlanReview, NodeInstall

VARIABLE part       \* the component that moves

\* What the tag may name: two starters, one that does not ignore the age key, and one
\* that is no starter.
MCArtifacts == [v \in {"v1", "v2", "bare", "broken"} |->
                  [sound |-> v # "broken", ignoresKey |-> v # "bare"]]

SetupInit ==
  /\ part \in {"cutover", "starter", "review", "install"}
  /\ Init
  /\ part # "cutover" => kubeconfig = {} /\ foreign = {} /\ found = [n \in Node |-> {}]
  /\ StarterInit
  /\ part # "starter" => ~ignores /\ ~stranger /\ gitDir = "none" /\ tag = "v1" /\ dir = NoEntries
  /\ ReviewInit
  /\ part # "review" => context = "none" /\ liveMode["ours"] = "install" /\ starter = 0
  /\ NodeInit
  /\ part # "install" => role = "server" /\ unit.state = "off"

\* All parts but p stay.
Others(p) ==
  /\ part = p /\ UNCHANGED part
  /\ p # "cutover" => UNCHANGED vars
  /\ p # "starter" => UNCHANGED starterVars
  /\ p # "review" => UNCHANGED reviewVars
  /\ p # "install" => UNCHANGED nodeVars

SetupNext ==
  \/ Others("cutover") /\ Next
  \/ Others("starter") /\ StarterNext
  \/ Others("review") /\ ReviewNext
  \/ Others("install") /\ NodeNext

SetupSpec == SetupInit /\ [][SetupNext]_<<part, vars, starterVars, reviewVars, nodeVars>>

===============================================================================
