------------------------------ MODULE MCOperations -----------------------------
(* Nine components of the operator's command line that share no state, checked    *)
(* in one run: Init picks the one that moves in a behaviour, the others stay at   *)
(* one of their initial states.  The behaviours of each part are exactly those of *)
(* its own specification, so a property of a part holds here iff it holds there.  *)
EXTENDS SealedWrite, FleetApply, GpuTransition, NodeRemove, CredentialCache, PodUnseal,
        Kubeconfig, ControllerAuth, BreakGlass

VARIABLE part       \* the component that moves

Parts == {"sealed", "fleet", "gpu", "remove", "cred", "unseal", "kube", "auth", "break"}

\* Both directions of the two transitions the repository documents.
MCChanges == {<<"pod-hami", "vm-passthrough">>, <<"vm-passthrough", "pod-hami">>,
              <<"pod-hami", "pod-hami-dra">>, <<"pod-hami-dra", "pod-hami">>}

Init ==
  /\ part \in Parts
  /\ SealedInit /\ FleetInit /\ GpuInit /\ RemoveInit /\ CredInit /\ UnsealInit
  /\ KubeInit /\ AuthInit /\ BreakInit
  /\ part # "sealed" => artifact = "registry" /\ final = NoFile
  /\ part # "cred" => ~rotates /\ \A p \in Paths : files[p] = File(Absent)
  /\ part # "unseal" => pods[0] = "sealed"
  /\ part # "kube" => kubefile.kind = "absent"

\* All parts but p stay.
Rest(p) ==
  /\ part = p /\ UNCHANGED part
  /\ p # "sealed" => UNCHANGED sealedVars
  /\ p # "fleet" => UNCHANGED fleetVars
  /\ p # "gpu" => UNCHANGED gpuVars
  /\ p # "remove" => UNCHANGED removeVars
  /\ p # "cred" => UNCHANGED credVars
  /\ p # "unseal" => UNCHANGED unsealVars
  /\ p # "kube" => UNCHANGED kubeVars
  /\ p # "auth" => UNCHANGED authVars
  /\ p # "break" => UNCHANGED breakVars

Next ==
  \/ Rest("sealed") /\ SealedNext
  \/ Rest("fleet") /\ FleetNext
  \/ Rest("gpu") /\ GpuNext
  \/ Rest("remove") /\ RemoveNext
  \/ Rest("cred") /\ CredNext
  \/ Rest("unseal") /\ UnsealNext
  \/ Rest("kube") /\ KubeNext
  \/ Rest("auth") /\ AuthNext
  \/ Rest("break") /\ BreakNext

vars == <<part, sealedVars, fleetVars, gpuVars, removeVars, credVars, unsealVars,
          kubeVars, authVars, breakVars>>

\* A writer of a sealed artifact that can go on does; nothing else is assumed.
Spec == /\ Init /\ [][Next]_vars
        /\ \A w \in Writers : WF_vars(Rest("sealed") /\ WriterStep(w))

===============================================================================
