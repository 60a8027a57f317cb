------------------------------ MODULE PlanReview ------------------------------
(* What `bootstrap init` shows the operator and what it then does:                *)
(* --dry-run and --apply-plan, the wizard and the direct apply                    *)
(* (bootstrap_init.go, clusterinit/plan.go), the mode probed and probed again     *)
(* (bootstrap_init_mode.go, mode.go), and the cluster the current context names   *)
(* (ssh_kubeconfig.go).  Between any two steps the fleet, the registry, the       *)
(* files the operator points at, the clusters and the current context may change. *)
(*                                                                                *)
(* Simplifications: each of these facts has a version; every run is given a       *)
(* certificate and a CA bundle, which are renewed together; the scaffold, the     *)
(* commit and the push are one step (FleetApply has theirs), so is the starter    *)
(* (FleetStarter), and a gate that refuses is a step that fails.                  *)
EXTENDS Naturals

CONSTANTS
  Pinnable,         \* the modes an operator passes with --mode
  MaxInvocations,   \* bound: invocations of the command
  MaxMoves          \* bound: moves of the environment

ClusterModes == {"install", "adopt", "resume"}

ASSUME ReviewAssumption ==
  Pinnable \subseteq ClusterModes /\ MaxInvocations \in Nat /\ MaxMoves \in Nat

Kinds == {"dry", "applyPlan", "wizard", "apply"}
Contexts == {"none", "ours", "other"}
Revisions == 0 .. MaxMoves + 1     \* 0: the tag itself, not pinned; or nothing
Facts == {"siblings", "tag", "tls"}

VARIABLES
  world,             \* Facts -> version: pins of the siblings, the tag, the TLS files
  context, liveMode,     \* the kubeconfig's current context; cluster -> its true mode
  planFile, reviewed, \* --plan-file and whether it is as written; the plan it was shown as
  task,              \* the running command
  overlay,           \* clusters/<name>/ in the fleet
  starter,           \* the version of the starter in --repo
  invocations, moves

reviewVars == <<world, context, liveMode, planFile, reviewed, task, overlay, starter,
                invocations, moves>>
written == <<overlay, starter>>
outside == <<world, liveMode, moves>>
files == <<planFile, reviewed>>

Plans == [fleet : {"existing", "new"}, ssh : BOOLEAN, mode : ClusterModes, ref : Revisions,
          tls : Revisions, pins : Revisions]
NoPlan == [fleet |-> "new", ssh |-> FALSE, mode |-> "install", ref |-> 0, tls |-> 0,
           pins |-> 0]
\* What --apply-plan hashes: the options, not what the fleet contributes.
Inputs == {"fleet", "ssh", "mode", "ref", "tls"}

Overlays == [pins : Revisions, cert : Revisions, ca : Revisions]
NoOverlay == [pins |-> 0, cert |-> 0, ca |-> 0]

TaskLabels == {"idle", "plan", "confirm", "target", "reprobe", "starter", "materials",
               "apply", "flux", "fetch", "finalize"}
\* plan: the options of this run until a plan is built or loaded.  switched, moved: the
\* context, or the mode of its cluster, changed since the run last looked.
Idle == [at |-> "idle", kind |-> "dry", auto |-> FALSE, plan |-> NoPlan,
         switched |-> FALSE, moved |-> FALSE]

ReviewTypeOK ==
  /\ world \in [Facts -> Revisions \ {0}]
  /\ context \in Contexts /\ liveMode \in [{"ours", "other"} -> ClusterModes]
  /\ planFile \in [plan : Plans, intact : BOOLEAN] /\ reviewed \in Plans
  /\ task \in [at : TaskLabels, kind : Kinds, auto : BOOLEAN, plan : Plans,
               switched : BOOLEAN, moved : BOOLEAN]
  /\ overlay \in Overlays /\ starter \in Revisions
  /\ invocations \in 0..MaxInvocations /\ moves \in 0..MaxMoves

\* A fresh fleet, or one with the overlay and the starter of an earlier install.
ReviewInit ==
  /\ world = [f \in Facts |-> 1]
  /\ context \in Contexts
  /\ liveMode \in [{"ours", "other"} -> {"install", "resume"}] /\ liveMode["other"] = "resume"
  /\ planFile = [plan |-> NoPlan, intact |-> FALSE] /\ reviewed = NoPlan
  /\ task = Idle
  /\ overlay \in {NoOverlay, [pins |-> 1, cert |-> 1, ca |-> 1]}
  /\ starter \in {overlay.pins, 1}
  /\ invocations = 0 /\ moves = 0

-----------------------------------------------------------------------------
TaskAt(at) == task.at = at
TaskGoto(at) == task' = [task EXCEPT !.at = at]

\* pinStarterDigest: the tag becomes a digest, or stays a tag when the registry does not
\* answer; a digest is kept.
Pinned(ref) == IF ref # 0 THEN {ref} ELSE {0, world["tag"]}

\* resolveAutoMode: the mode of the cluster the current context names.
Probed == {liveMode[c] : c \in {context} \ {"none"}}

\* RunE: --mode=auto is refused without a cluster to probe (a refused run changes nothing
\* and is no step); the files are read, their fingerprints become options, and the
\* starter is pinned.
Invoke ==
  /\ TaskAt("idle") /\ invocations < MaxInvocations /\ invocations' = invocations + 1
  /\ \E kind \in Kinds, auto \in BOOLEAN, fleet \in {"existing", "new"}, ssh \in BOOLEAN :
     \E mode \in IF auto THEN Probed ELSE Pinnable :
     \E ref \in Pinned(0) :
       task' = [Idle EXCEPT !.at = "plan", !.kind = kind, !.auto = auto,
                  !.plan = [fleet |-> fleet, ssh |-> ssh, mode |-> mode, ref |-> ref,
                            tls |-> world["tls"], pins |-> 0]]
  /\ UNCHANGED <<outside, context, files, written>>

\* discoverFleetState: only an existing fleet has siblings to inherit from.
Siblings == IF task.plan.fleet = "existing" THEN world["siblings"] ELSE 0

Built == [task.plan EXCEPT !.pins = Siblings]

\* WritePlanFile, LoadPlan: a file whose hash is not its own is refused.
Saved(plan) == [plan |-> plan, intact |-> TRUE]
Loads(file) == file.intact

DryRun ==
  /\ TaskAt("plan") /\ task.kind = "dry"
  /\ planFile' = Saved(Built) /\ reviewed' = Built
  /\ task' = Idle
  /\ UNCHANGED <<outside, context, written, invocations>>

\* The wizard shows a plan, asks, and builds it again.
ShowPlan ==
  /\ TaskAt("plan") /\ task.kind = "wizard" /\ TaskGoto("confirm")
  /\ UNCHANGED <<outside, context, files, written, invocations>>

BuildPlan ==
  /\ TaskAt("confirm") \/ (TaskAt("plan") /\ task.kind = "apply")
  /\ \E ref \in Pinned(task.plan.ref) :
       task' = [task EXCEPT !.at = "target", !.kind = "apply", !.plan = [Built EXCEPT !.ref = ref]]
  /\ UNCHANGED <<outside, context, files, written, invocations>>

\* Mutant: the plan file says what to apply, the options of this run do not matter.
VerifyNothing(plan, options) == TRUE

\* VerifyApplyPlanInput.
VerifyInput(plan, options) == \A f \in Inputs : plan[f] = options[f]

LoadReviewed ==
  /\ TaskAt("plan") /\ task.kind = "applyPlan"
  /\ task' = IF Loads(planFile) /\ VerifyInput(planFile.plan, task.plan)
             THEN [task EXCEPT !.at = "target",
                               !.plan = [planFile.plan EXCEPT !.ref = task.plan.ref]]
             ELSE Idle
  /\ UNCHANGED <<outside, context, files, written, invocations>>

-----------------------------------------------------------------------------
\* Mutant: the fetch is best-effort also when the context is another cluster's.
TargetWarns ==
  /\ TaskAt("target")
  /\ context' \in IF task.plan.ssh THEN {"ours", context} ELSE {context}
  /\ task' = [task EXCEPT !.at = "reprobe", !.switched = FALSE]
  /\ UNCHANGED <<outside, files, written, invocations>>

\* With --ssh-host the kubeconfig is fetched unless the current context is the cluster's
\* own; a failure is an error when it is another's.  Without --ssh-host nobody looks.
Target ==
  /\ TaskAt("target")
  /\ context' \in IF ~task.plan.ssh THEN {context}
                  ELSE IF context = "none" THEN {"ours", "none"} ELSE {"ours"}
  /\ task' = [task EXCEPT !.at = "reprobe", !.switched = FALSE]
  /\ UNCHANGED <<outside, files, written, invocations>>

\* reprobeModeAfterFetch, for a probed mode only; a cluster that does not answer is
\* refused.  The session needs a kubeconfig.
Reprobe ==
  /\ TaskAt("reprobe") /\ context # "none"
  /\ task' = IF task.auto /\ liveMode[context] # task.plan.mode THEN Idle
             ELSE [task EXCEPT !.moved = FALSE,
                               !.at = IF task.plan.fleet = "new" THEN "starter" ELSE "materials"]
  /\ UNCHANGED <<outside, context, files, written, invocations>>

\* A starter that is there is kept, whatever version the plan names.
EnsureStarter ==
  /\ TaskAt("starter")
  /\ starter' = IF starter # 0 THEN starter
                ELSE IF task.plan.ref # 0 THEN task.plan.ref ELSE world["tag"]
  /\ TaskGoto("materials")
  /\ UNCHANGED <<outside, context, files, overlay, invocations>>

\* The files are read again and must have the fingerprints of the plan.
ReloadMaterial ==
  /\ TaskAt("materials")
  /\ task' = IF task.plan.tls = world["tls"]
             THEN [task EXCEPT !.at = "apply"] ELSE Idle
  /\ UNCHANGED <<outside, context, files, written, invocations>>

Content(plan) == [pins |-> plan.pins, cert |-> plan.tls, ca |-> plan.tls]

\* Apply: a new overlay is scaffolded; on a resumed one only the certificate is rotated.
ApplyOverlay ==
  /\ TaskAt("apply")
  /\ overlay' = IF overlay = NoOverlay THEN Content(task.plan)
                ELSE [overlay EXCEPT !.cert = task.plan.tls]
  /\ TaskGoto("flux")
  /\ UNCHANGED <<outside, context, files, starter, invocations>>

\* flux-install.sh goes where the current context points when it runs.
FluxInstall ==
  /\ TaskAt("flux") /\ context # "none"
  /\ liveMode' = [liveMode EXCEPT ![context] = IF @ = "install" THEN "adopt" ELSE @]
  /\ TaskGoto("fetch")
  /\ UNCHANGED <<world, moves, context, files, written, invocations>>

\* "refusing to guess from the current context": no fetch, no finalizer.
Fetch ==
  /\ TaskAt("fetch")
  /\ context' = IF task.plan.ssh THEN "ours" ELSE context
  /\ task' = [task EXCEPT !.at = "finalize", !.switched = FALSE]
  /\ UNCHANGED <<outside, files, written, invocations>>

\* runPostApply: OpenBao and Keycloak on the cluster of the current context.
Finalize ==
  /\ TaskAt("finalize") /\ task' = Idle
  /\ UNCHANGED <<outside, context, files, written, invocations>>

\* Any step may fail or the operator say no: the run is over and what it wrote stays.
TaskFails ==
  /\ ~TaskAt("idle") /\ task' = Idle
  /\ UNCHANGED <<outside, context, files, written, invocations>>

-----------------------------------------------------------------------------
\* Not before the first run, ReviewInit is any state that leads to, nor after the last.
Moving ==
  /\ invocations \in 1..MaxInvocations - (IF TaskAt("idle") THEN 1 ELSE 0)
  /\ moves < MaxMoves /\ moves' = moves + 1
  /\ UNCHANGED <<written, invocations>>

\* A sibling is upgraded, the tag published again, a file renewed.
Drift ==
  /\ Moving /\ \E f \in Facts : world' = [world EXCEPT ![f] = @ + 1]
  /\ UNCHANGED <<context, liveMode, files, task>>

\* Somebody edits the plan file.
EditPlanFile ==
  /\ Moving /\ planFile.intact
  /\ planFile' = [plan |-> [planFile.plan EXCEPT !.pins = MaxMoves + 1], intact |-> FALSE]
  /\ UNCHANGED <<world, context, liveMode, reviewed, task>>

\* kubectl config use-context in another shell.
SwitchContext ==
  /\ Moving /\ context' \in Contexts \ {context}
  /\ task' = IF TaskAt("idle") THEN task ELSE [task EXCEPT !.switched = TRUE, !.moved = TRUE]
  /\ UNCHANGED <<world, liveMode, files>>

\* Somebody installs Flux, or Flux the manager.
ClusterAdvances ==
  /\ Moving
  /\ \E c \in DOMAIN liveMode : \E mode \in {"adopt", "resume"} \ {liveMode[c]} :
       liveMode[c] # "resume" /\ liveMode' = [liveMode EXCEPT ![c] = mode]
  /\ task' = IF TaskAt("idle") THEN task ELSE [task EXCEPT !.moved = TRUE]
  /\ UNCHANGED <<world, context, files>>

ReviewNext ==
  \/ Invoke \/ DryRun \/ ShowPlan \/ BuildPlan \/ LoadReviewed
  \/ Target \/ Reprobe \/ EnsureStarter \/ ReloadMaterial
  \/ ApplyOverlay \/ FluxInstall \/ Fetch \/ Finalize \/ TaskFails
  \/ Drift \/ EditPlanFile \/ SwitchContext \/ ClusterAdvances

ReviewSpec == ReviewInit /\ [][ReviewNext]_reviewVars

-----------------------------------------------------------------------------
\* "fleet-state changes between dry-run and apply do not influence what gets written"
\* (runInitApplyPlan): a run with --apply-plan writes the plan the dry run showed, its
\* certificate onto an overlay it resumes, and pulls the starter that plan pinned.
ReviewedIsApplied ==
  [][ /\ task.kind = "applyPlan" /\ overlay' # overlay =>
           overlay' = IF overlay = NoOverlay THEN Content(reviewed)
                      ELSE [overlay EXCEPT !.cert = reviewed.tls]
      /\ task.kind = "applyPlan" /\ starter' # starter =>
           reviewed.ref \in {0, starter'} ]_reviewVars

\* "the worst possible outcome of this command" (runApplyEngine) and "a plan must never
\* be applied over" a cluster of another mode (reprobeModeAfterFetch): with --ssh-host Flux
\* and the finalizer work on the cluster the run is about, and a probed mode is that of
\* the cluster Flux goes to, unless the context or the cluster changed since the run
\* looked last.
FluxLandsAsPlanned ==
  [][ /\ (TaskAt("flux") /\ task'.at = "fetch") \/ (TaskAt("fetch") /\ task'.at = "finalize")
           => (task.plan.ssh /\ ~task'.switched => context' = "ours")
      /\ TaskAt("flux") /\ task'.at = "fetch"
           => (task.auto /\ ~task.moved => liveMode[context] = task.plan.mode) ]_reviewVars

===============================================================================
