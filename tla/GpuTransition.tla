----------------------------- MODULE GpuTransition -----------------------------
(* The GPU ownership transition of one node: gputransition/transition.go (Run,    *)
(* targetReady), gputransition/nodefeature.go, the fleet transaction of           *)
(* cmd/kube-dc/bootstrap_gpu.go and the two cluster calls of                      *)
(* adapters/k8s/client.go, with what Flux, NFD, the plugin DaemonSets, other      *)
(* commands and the operator do around it.                                        *)
(*                                                                                *)
(* Simplifications: a history's mode is the one its last mode commit holds; a     *)
(* node that is not Ready, or runs NVIDIA's own device plugin, is the wait loop   *)
(* not seeing the target yet.                                                     *)
EXTENDS Integers, Sequences, FleetClone
LOCAL INSTANCE FiniteSetsExt

CONSTANTS Changes,      \* the <<from, to>> pairs operators ask for
          MaxGpuRuns    \* runs of the command

GpuModes == {"pod-hami", "pod-hami-dra", "vm-passthrough"}

ASSUME GpuAssumption ==
  /\ MaxGpuRuns \in Nat
  /\ Changes \subseteq {c \in GpuModes \X GpuModes : c[1] # c[2]}

VARIABLES gpuClone,     \* the fleet clone and its remote
          node,         \* the node: cordon, NFD labels, running plugins, holders
          gpu,          \* the command: label, options, what it has noted
          gpuRuns,      \* commands started
          lost          \* a push took effect and was answered as failed

gpuVars == <<gpuClone, node, gpu, gpuRuns, lost>>

GpuLabels == {"ended", "observe", "prepare", "cordon", "recheck", "apply", "push",
              "reset", "wait", "uncordon"}
Nodes == [unsched : BOOLEAN, active : GpuModes, expected : GpuModes,
          owners : SUBSET GpuModes, held : BOOLEAN]
GpuCommits == [by : {"operator", "gpu"}, run : 0..MaxGpuRuns,
               holds : SUBSET (GpuModes \cup {"other"})]

GpuTypeOK ==
  /\ gpuClone \in [tree : SUBSET (GpuModes \cup {"other"}), head : Seq(GpuCommits),
                   remote : Seq(GpuCommits)]
  /\ node \in Nodes
  /\ gpu \in [at : GpuLabels, from : GpuModes, to : GpuModes, resume : BOOLEAN,
              resumed : BOOLEAN, obs : Nodes, pre : Seq(GpuCommits)]
  /\ gpuRuns \in 0..MaxGpuRuns /\ lost \in BOOLEAN

Origin == <<[by |-> "operator", run |-> 0, holds |-> {"pod-hami"}]>>
Settled(m) == [unsched |-> FALSE, active |-> m, expected |-> m, owners |-> {m}, held |-> FALSE]
NoGpuRun == [at |-> "ended", from |-> "pod-hami", to |-> "pod-hami", resume |-> FALSE,
             resumed |-> FALSE, obs |-> Settled("pod-hami"), pre |-> Origin]

GpuInit ==
  /\ gpuClone = [tree |-> {}, head |-> Origin, remote |-> Origin]
  /\ node = Settled("pod-hami") /\ gpu = NoGpuRun /\ gpuRuns = 0 /\ lost = FALSE

ModeOf(h) == LET last == Max({i \in DOMAIN h : h[i].holds \cap GpuModes # {}}) IN
             CHOOSE m \in GpuModes : m \in h[last].holds

-----------------------------------------------------------------------------
GpuAt(at) == gpu.at = at
GpuGoto(at) == gpu' = [gpu EXCEPT !.at = at]
GpuReturns == gpu' = NoGpuRun

StartTransition(change, resume) ==
  /\ GpuAt("ended") /\ gpuRuns < MaxGpuRuns /\ gpuRuns' = gpuRuns + 1
  /\ gpu' = [NoGpuRun EXCEPT !.at = "observe", !.from = change[1], !.to = change[2],
                             !.resume = resume]
  /\ UNCHANGED <<gpuClone, node, lost>>

Observe ==
  /\ GpuAt("observe")
  /\ gpu' = [gpu EXCEPT !.at = "prepare", !.obs = node] \/ GpuReturns
  /\ UNCHANGED <<gpuClone, node, gpuRuns, lost>>

\* locateNodeRule knows these two; a rule for pod-hami-dra is "ownership drift".
Readable(m) == m \in {"pod-hami", "vm-passthrough"}

\* An applied target, or this workflow's own cordon with labels on the way.
Resumes(mode) ==
  LET n == gpu.obs IN
  /\ mode = gpu.to
  /\ \/ n.active = gpu.to /\ n.expected = gpu.to
     \/ n.unsched /\ gpu.resume /\ {n.active, n.expected} \subseteq {gpu.from, gpu.to}

OnlyPlugin(n, m) == n.owners = {m}

AlreadyThere(mode) ==
  LET n == gpu.obs IN
  mode = gpu.to /\ n.active = gpu.to /\ n.expected = gpu.to /\ ~n.unsched /\ OnlyPlugin(n, gpu.to)

\* Fleet.Prepare, then every refusal in terms of the state observed before it; the
\* run goes on to cordon, or straight to the re-observation of a cordoned node.
Preflight ==
  /\ GpuAt("prepare")
  /\ LET n == gpu.obs
         mode == ModeOf(gpuClone.head)
         passes == /\ Dirty(gpuClone) = {} /\ Readable(mode)
                   /\ Resumes(mode) \/ {n.active, n.expected, mode} = {gpu.from}
                   /\ ~n.held /\ (n.unsched => gpu.resume) /\ ~AlreadyThere(mode) IN
     \/ passes /\ gpu' = [gpu EXCEPT !.at = IF n.unsched THEN "recheck" ELSE "cordon",
                                     !.resumed = Resumes(mode), !.pre = gpuClone.head,
                                     !.obs = NoGpuRun.obs]
     \/ GpuReturns
  /\ UNCHANGED <<gpuClone, node, gpuRuns, lost>>

Cordon ==
  /\ GpuAt("cordon")
  /\ \/ node' = [node EXCEPT !.unsched = TRUE] /\ GpuGoto("recheck")
     \/ node' \in {node, [node EXCEPT !.unsched = TRUE]} /\ GpuReturns
  /\ UNCHANGED <<gpuClone, gpuRuns, lost>>

\* The state is observed again: cordoned, and no holders.  Every failure from here
\* on leaves the node cordoned (failCordoned).
RecheckCordon ==
  /\ GpuAt("recheck")
  /\ \/ node.unsched /\ ~node.held /\ GpuGoto(IF gpu.resumed THEN "wait" ELSE "apply")
     \/ GpuReturns
  /\ UNCHANGED <<gpuClone, node, gpuRuns, lost>>

\* Fleet.Apply: HEAD and tree as Prepare saw them, then the rule and the commit; a
\* failed commit leaves the rule to the rollback.
CommitMode ==
  /\ GpuAt("apply")
  /\ LET unmoved == gpuClone.head = gpu.pre /\ Dirty(gpuClone) = {}
         written == [gpuClone EXCEPT !.tree = {gpu.to}] IN
     \/ unmoved /\ gpuClone' = Committed(written, "gpu", gpuRuns) /\ GpuGoto("push")
     \/ unmoved /\ gpuClone' = written /\ GpuGoto("reset")
     \/ UNCHANGED gpuClone /\ GpuReturns
  /\ UNCHANGED <<node, gpuRuns, lost>>

PushMode ==
  /\ GpuAt("push") /\ CanPush(gpuClone)
  /\ gpuClone' = Pushed(gpuClone) /\ GpuGoto("wait")
  /\ UNCHANGED <<node, gpuRuns, lost>>

PushModeFails ==
  /\ GpuAt("push") /\ GpuGoto("reset")
  /\ \/ UNCHANGED <<gpuClone, lost>>
     \/ CanPush(gpuClone) /\ gpuClone' = Pushed(gpuClone) /\ lost' = TRUE
  /\ UNCHANGED <<node, gpuRuns>>

RollBackMode ==
  /\ GpuAt("reset") /\ GpuReturns
  /\ UNCHANGED gpuClone \/ (CanReset(gpuClone, gpu.pre) /\ gpuClone' = Reset(gpuClone, gpu.pre))
  /\ UNCHANGED <<node, gpuRuns, lost>>

\* Mutant: the labels alone are taken for the target runtime.
TargetReadyByLabels(n, m) == n.unsched /\ ~n.held /\ n.active = m /\ n.expected = m

TargetReady(n, m) ==
  n.unsched /\ ~n.held /\ n.active = m /\ n.expected = m /\ OnlyPlugin(n, m)

\* The poll loop sees the target, or its deadline passes.
WaitForTarget ==
  /\ GpuAt("wait")
  /\ (TargetReady(node, gpu.to) /\ GpuGoto("uncordon")) \/ GpuReturns
  /\ UNCHANGED <<gpuClone, node, gpuRuns, lost>>

Uncordon ==
  /\ GpuAt("uncordon") /\ GpuReturns
  /\ node' \in {node, [node EXCEPT !.unsched = FALSE]}
  /\ UNCHANGED <<gpuClone, gpuRuns, lost>>

KillTransition ==
  /\ ~GpuAt("ended") /\ GpuReturns
  /\ UNCHANGED <<gpuClone, node, gpuRuns, lost>>

-----------------------------------------------------------------------------
\* Flux and NFD bring either label to what the remote branch says.
LabelFollows ==
  /\ LET m == ModeOf(gpuClone.remote) IN
     \/ node.active # m /\ node' = [node EXCEPT !.active = m]
     \/ node.expected # m /\ node' = [node EXCEPT !.expected = m]
  /\ UNCHANGED <<gpuClone, gpu, gpuRuns, lost>>

\* The DaemonSet of the active mode starts; the others stop, in any order.
PluginMoves ==
  /\ \/ node.active \notin node.owners
        /\ node' = [node EXCEPT !.owners = @ \cup {node.active}]
     \/ \E m \in node.owners \ {node.active} : node' = [node EXCEPT !.owners = @ \ {m}]
  /\ UNCHANGED <<gpuClone, gpu, gpuRuns, lost>>

\* A workload comes or goes; a bound Pod may surface after the cordon.
HolderMoves ==
  /\ node' = [node EXCEPT !.held = ~@]
  /\ UNCHANGED <<gpuClone, gpu, gpuRuns, lost>>

SettledNow == LET m == ModeOf(gpuClone.remote) IN
              node.active = m /\ node.expected = m /\ node.owners = {m}

\* A human cordons, and uncordons a node that looks settled and whose fleet has
\* nothing pending, though not under a run that has verified the cordon.
HumanCordons ==
  /\ \/ ~node.unsched /\ node' = [node EXCEPT !.unsched = TRUE]
     \/ /\ node.unsched /\ SettledNow /\ ModeOf(gpuClone.head) = node.active
        /\ gpu.at \in {"ended", "observe", "prepare", "cordon", "recheck"}
        /\ node' = [node EXCEPT !.unsched = FALSE]
  /\ UNCHANGED <<gpuClone, gpu, gpuRuns, lost>>

\* Other work in the same clone: an edit, its commit, and a push of all of HEAD.
OtherWork ==
  /\ LET h == InHistory(gpuClone.head) IN
     \/ "other" \notin h /\ Dirty(gpuClone) = {}
        /\ gpuClone' = [gpuClone EXCEPT !.tree = {"other"}]
     \/ Dirty(gpuClone) = {"other"} /\ gpuClone' = Committed(gpuClone, "operator", 0)
     \/ CanPush(gpuClone) /\ gpuClone.head # gpuClone.remote
        /\ GpuAt("ended") /\ gpuClone' = Pushed(gpuClone)
     \/ Dirty(gpuClone) # {} /\ GpuAt("ended") /\ gpuClone' = [gpuClone EXCEPT !.tree = {}]
  /\ UNCHANGED <<node, gpu, gpuRuns, lost>>

TransitionStep ==
  \/ Observe \/ Preflight \/ Cordon \/ RecheckCordon \/ CommitMode \/ PushMode
  \/ PushModeFails \/ RollBackMode \/ WaitForTarget \/ Uncordon
GpuWorld == LabelFollows \/ PluginMoves \/ HolderMoves \/ HumanCordons \/ OtherWork

GpuNext ==
  \/ \E change \in Changes, resume \in BOOLEAN : StartTransition(change, resume)
  \/ TransitionStep \/ KillTransition \/ GpuWorld

GpuSpec == GpuInit /\ [][GpuNext]_gpuVars

-----------------------------------------------------------------------------
\* The workflow's order, "cordon -> recheck holders -> GitOps mode commit -> wait for
\* exact labels/plugin -> uncordon", over failures, kills, resumes and re-runs: a
\* schedulable node runs exactly the published mode.  After a push whose answer was
\* lost the clone no longer knows what is published and this is not claimed.
SchedulableIsSettled == ~lost /\ ~node.unsched => SettledNow

===============================================================================
