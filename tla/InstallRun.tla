------------------------------- MODULE InstallRun ------------------------------
(* `kube-dc bootstrap init` behind its install screen: the engine (runApplyEngine, *)
(* clusterinit.Apply, runPostApply, the reconcile watch) runs in a goroutine of    *)
(* its own and reports its milestones over a bounded channel; the Bubble Tea       *)
(* program draws a checklist from them and lets the operator abort.                *)
(*                                                                                 *)
(* The engine is a program: the sequence of instructions the source's control flow *)
(* leaves it to execute.  What a milestone does is its outcome; log lines only     *)
(* take room in the channel and are left out.                                      *)
EXTENDS Integers, SequencesExt

CONSTANTS
  InstallOptions,  \* the flag sets an install may be started with
  ChanCap,         \* room in the channel (1024 in the code)
  MaxLate,         \* bound: milestones that still succeed after a cancellation
  Signals          \* the signals the process may get while the program runs

Flags == {"starter", "noPrereqs", "adopt", "ssh", "pinnedCIDR", "gateway", "devices",
          "newRepo", "noCreateRepo", "noPush", "noCluster", "overlay", "gpu", "hami"}

ASSUME InstallAssumption ==
  /\ InstallOptions \subseteq SUBSET Flags
  /\ ChanCap \in Nat \ {0} /\ MaxLate \in Nat
  /\ Signals \subseteq {"SIGINT", "SIGTERM"}

VARIABLES
  opts,       \* the flags of this install
  todo,       \* what the engine still has to execute
  engine,     \* the engine goroutine
  reported,   \* history: the last event of each milestone reported before a cancellation
  ready,      \* the reconcile watch: Kustomizations last seen Ready
  completed,  \* GPU milestones the watch has already reported done
  late,       \* milestones that succeeded after the cancellation
  chan,       \* events under way to the screen
  cancelled,  \* the context is cancelled
  rows,       \* the checklist
  listening,  \* a waitForMsg command is outstanding
  finished,   \* the screen has seen the engine's result
  runErr,     \* the result it keeps
  aborting, forceQuit,
  program,    \* the Bubble Tea program, or what ended it
  transcript, \* the log file
  result      \* what RunWithOptions returned

engineVars == <<todo, engine, reported, ready, completed, late>>
screenVars == <<rows, listening, finished, runErr, aborting, forceQuit>>
exitVars == <<program, transcript, result>>
installVars == <<opts, engineVars, chan, cancelled, screenVars, exitVars>>

GpuRows(o) == IF "gpu" \notin o THEN {}
              ELSE {"gpu-inventory", "gpu-operator", "gpu-product"}
                   \cup (IF "hami" \in o THEN {"gpu-hami"} ELSE {})

\* The Kustomization that completes a GPU milestone.
TargetOf == [r \in {"gpu-inventory", "gpu-operator", "gpu-hami", "gpu-product"} |->
               CASE r = "gpu-inventory" -> "gpu-node-mode"
                 [] r = "gpu-operator"  -> "gpu-operator"
                 [] r = "gpu-hami"      -> "hami"
                 [] r = "gpu-product"   -> "platform"]

Kustomizations == {"platform", "gpu-node-mode", "gpu-operator", "hami"}

\* InstallSteps: the milestones announced before the run.
Planned(o) ==
  LET on(flag, ids) == IF flag \in o THEN ids ELSE {}
      off(flag, ids) == IF flag \in o THEN {} ELSE ids
  IN {"prepare", "dns", "kubevirt", "scaffold", "commit-push"}
     \cup on("starter", {"starter"}) \cup off("noPrereqs", {"prereqs"})
     \cup on("adopt", {"adopt-gate"})
     \cup on("ssh", {"nat-probe", "egress", "fetch-kubeconfig"} \cup on("devices", {"storage"}))
     \cup off("noPush", on("newRepo", {"remote"} \cup off("noCreateRepo", {"create-repo"})))
     \cup off("noPush", {"flux-install", "reconcile", "openbao", "keycloak"} \cup GpuRows(o))

Milestones == Planned(Flags) \cup Planned(Flags \ {"noPush", "noPrereqs", "noCreateRepo"})
              \cup {"ingress-nodes"}
Statuses == {"running", "done", "failed", "skipped"}

(* ----------------------------- the engine's program ----------------------------- *)
I(op, id) == [op |-> op, id |-> id]
When(cond, s) == IF cond THEN s ELSE <<>>

\* step() around a milestone whose error ends the install.
Gate(id) == <<I("running", id), I("gate", id)>>
\* ... around a probe that only warns.
Probe(id) == <<I("running", id), I("done", id)>>
\* ... around one whose error is kept and the install goes on.
Try(id) == <<I("running", id), I("try", id)>>
\* Work outside any milestone that may end the install.
Check == <<I("check", "prepare")>>

Preflight(o) ==
  When("ssh" \in o, Check) \o Check \o Gate("prepare")
  \o When("starter" \in o, Gate("starter")) \o Check
  \o When("noPrereqs" \notin o, Gate("prereqs"))
  \o Gate("dns") \o Gate("kubevirt") \o When("adopt" \in o, Gate("adopt-gate"))

Probes(o) ==
  When("ssh" \in o,
       Probe("nat-probe") \o When("pinnedCIDR" \notin o, Probe("nat-probe"))
       \o (IF "gateway" \in o THEN Probe("egress") ELSE <<I("skipped", "egress")>>)
       \o When("devices" \in o, Probe("storage")))

Repository(o) ==
  When({"newRepo", "noPush"} \cap o = {"newRepo"},
       When("noCreateRepo" \notin o, Gate("create-repo")) \o Gate("remote"))
  \o Check

\* clusterinit.Apply; the clone itself is FleetApply's.
ApplySteps(o) ==
  Check
  \o (IF {"noCluster", "noPush"} \cap o # {} THEN <<I("skipped", "ingress-nodes")>>
      ELSE Gate("ingress-nodes"))
  \o Gate("scaffold") \o When("overlay" \in o, Check)
  \o (IF {"overlay", "noPush"} \subseteq o THEN <<I("skipped", "commit-push")>>
      ELSE Gate("commit-push"))
  \o (IF "noPush" \in o THEN <<I("skipped", "flux-install")>> ELSE Gate("flux-install"))

\* One instruction per member of a set of milestones; their order does not matter.
Each(op, ids) == LET s == SetToSeq(ids) IN [i \in DOMAIN s |-> I(op, s[i])]

\* The milestones of runPostApply are skipped when there is no cluster to ask.
SkipPost(o) == <<I("skipped", "reconcile")>> \o Each("skipped", GpuRows(o))
               \o <<I("skipped", "openbao"), I("skipped", "keycloak")>>

PostApply(o) ==
  When("noPush" \notin o,
       <<I("session", "reconcile"), I("running", "reconcile")>> \o Each("running", GpuRows(o))
       \o <<I("watch", "reconcile")>> \o Try("openbao") \o Try("keycloak"))

Install(o) ==
  Preflight(o) \o Probes(o) \o Repository(o) \o ApplySteps(o)
  \o When("ssh" \in o, <<I("running", "fetch-kubeconfig"), I("fetch", "fetch-kubeconfig")>>)
  \o PostApply(o)

(* ----------------------------------- the engine ----------------------------------- *)
InstallInit ==
  /\ opts \in InstallOptions
  /\ todo = Install(opts) /\ engine = "plan"
  /\ reported = [i \in Milestones |-> "pending"]
  /\ ready = {} /\ completed = {} /\ late = 0
  /\ chan = <<>> /\ cancelled = FALSE
  /\ rows = [i \in Milestones |-> "absent"]
  /\ listening = TRUE /\ finished = FALSE /\ runErr = "nil"
  /\ aborting = FALSE /\ forceQuit = FALSE
  /\ program = "on" /\ transcript = "open" /\ result = "none"

\* Mutant: a full channel drops the event.
SendMsgLossy(m) == chan' = IF Len(chan) < ChanCap THEN Append(chan, m) ELSE chan

\* sendMsg: the event is queued, or dropped when the context is cancelled; with
\* neither possible the engine waits.
SendMsg(m) ==
  \/ Len(chan) < ChanCap /\ chan' = Append(chan, m)
  \/ cancelled /\ UNCHANGED chan

Report(id, status) ==
  /\ SendMsg([kind |-> "status", id |-> id, status |-> status])
  /\ reported' = IF cancelled THEN reported ELSE [reported EXCEPT ![id] = status]

\* A milestone succeeds; after the cancellation only one that never looks at it.
Succeeds == /\ cancelled => late < MaxLate
            /\ late' = IF cancelled THEN late + 1 ELSE late

At(op) == engine = "running" /\ todo # <<>> /\ Head(todo).op = op
Here == Head(todo).id

Plan ==
  /\ engine = "plan" /\ engine' = "running"
  /\ SendMsg([kind |-> "plan"])
  /\ UNCHANGED <<opts, todo, reported, ready, completed, late, cancelled, screenVars, exitVars>>

\* Start, Skip or a Done whose outcome is already known.
Emit ==
  /\ \E s \in Statuses : At(s) /\ Report(Here, s)
  /\ todo' = Tail(todo)
  /\ UNCHANGED <<opts, engine, ready, completed, late, cancelled, screenVars, exitVars>>

\* The install goes on after a milestone, whatever it says of it.
GoesOn(status) == Report(Here, status) /\ todo' = Tail(todo) /\ UNCHANGED engine

StepSucceeds ==
  /\ At("gate") \/ At("try") \/ At("fetch")
  /\ Succeeds /\ GoesOn("done")
  /\ UNCHANGED <<opts, ready, completed, cancelled, screenVars, exitVars>>

\* A milestone fails: a gate ends the install, OpenBao and Keycloak are put off.
StepFails ==
  /\ \/ At("gate") /\ Report(Here, "failed") /\ todo' = <<>> /\ engine' = "failing"
     \/ At("try") /\ GoesOn("failed")
  /\ UNCHANGED <<opts, ready, completed, late, cancelled, screenVars, exitVars>>

\* Without the fresh kubeconfig nothing is asked of whatever the context points at.
FetchFails ==
  /\ At("fetch") /\ Report(Here, "failed") /\ UNCHANGED engine
  /\ todo' = When("noPush" \notin opts, SkipPost(opts))
  /\ UNCHANGED <<opts, ready, completed, late, cancelled, screenVars, exitVars>>

SessionFails ==
  /\ At("session") /\ todo' = SkipPost(opts)
  /\ UNCHANGED <<opts, engine, reported, ready, completed, late, chan, cancelled, screenVars, exitVars>>

\* Work that reports nothing: a check, or the session of the finalize phase.
Passes ==
  /\ At("check") \/ At("session")
  /\ todo' = Tail(todo)
  /\ UNCHANGED <<opts, engine, reported, ready, completed, late, chan, cancelled, screenVars, exitVars>>

CheckRefuses ==
  /\ At("check") /\ todo' = <<>> /\ engine' = "failing"
  /\ UNCHANGED <<opts, reported, ready, completed, late, chan, cancelled, screenVars, exitVars>>

(* ------------------------------- the reconcile watch ------------------------------- *)
\* Mutant: only the platform Kustomization is waited for.
RequiredNone == {}

Required == {TargetOf[r] : r \in GpuRows(opts)}
Converged(seen) == "platform" \in seen /\ Required \subseteq seen

\* The watch is over: the milestone takes its result, and so does every GPU milestone
\* it has not reported yet.
WatchEnds(status, done) ==
  todo' = <<I(status, "reconcile")>> \o Each("failed", GpuRows(opts) \ done) \o Tail(todo)

\* A Kustomization is listed or changes; the first time it is Ready its row is done.
\* The watch ends on the event that makes all of them Ready.  Other Kustomizations are
\* only counted for the log.
KustomizationEvent(k) ==
  /\ At("watch") /\ k \in Required \cup {"platform"}
  /\ \E isReady \in BOOLEAN :
       LET seen == IF isReady THEN ready \cup {k} ELSE ready \ {k}
           news == {r \in GpuRows(opts) \ completed : isReady /\ TargetOf[r] = k}
       IN /\ ready' = seen /\ completed' = completed \cup news
          /\ IF news = {} THEN UNCHANGED <<chan, reported>>
             ELSE Report(CHOOSE r \in news : TRUE, "done")
          /\ IF Converged(seen) THEN WatchEnds("done", completed') ELSE UNCHANGED todo
  /\ UNCHANGED <<opts, engine, late, cancelled, screenVars, exitVars>>

\* The budget is over, the context is cancelled or both streams have closed.
WatchStops ==
  /\ At("watch") /\ WatchEnds("failed", completed)
  /\ UNCHANGED <<opts, engine, reported, ready, completed, late, chan, cancelled, screenVars, exitVars>>

(* ------------------------------- the end of the engine ------------------------------- *)
\* The engine returns and the line writer is flushed, which may fail on the file.
Return ==
  /\ todo = <<>> /\ engine \in {"running", "failing"}
  /\ \/ engine = "running" /\ engine' = "succeeded"
     \/ engine' = "failed"
  /\ UNCHANGED <<opts, todo, reported, ready, completed, late, chan, cancelled, screenVars, exitVars>>

\* The last event is sent without a look at the context.
SendFinished ==
  /\ engine \in {"succeeded", "failed"} /\ Len(chan) < ChanCap
  /\ chan' = Append(chan, [kind |-> "finished", ok |-> engine = "succeeded"])
  /\ engine' = "gone"
  /\ UNCHANGED <<opts, todo, reported, ready, completed, late, cancelled, screenVars, exitVars>>

(* ------------------------------------ the screen ------------------------------------ *)
\* setPlan starts over with the announced milestones; setStatus knows no others.  The
\* rows of an aborted run are not followed: no property tells them apart.
SetPlan == rows' = [i \in Milestones |-> IF i \in Planned(opts) THEN "pending" ELSE "absent"]
SetStatus(id, status) ==
  rows' = IF aborting \/ rows[id] = "absent" THEN rows ELSE [rows EXCEPT ![id] = status]

\* Mutant: a skipped milestone does not ask for the next event.
HandleMilestoneStops ==
  /\ program = "on" /\ listening /\ chan # <<>>
  /\ \/ Head(chan).kind = "plan" /\ SetPlan
     \/ Head(chan).kind = "status" /\ SetStatus(Head(chan).id, Head(chan).status)
  /\ chan' = Tail(chan)
  /\ listening' = (Head(chan).kind = "plan" \/ Head(chan).status # "skipped")
  /\ UNCHANGED <<opts, engineVars, cancelled, finished, runErr, aborting, forceQuit, exitVars>>

\* One event is handled; reading it and handling it are one step, for nothing else
\* looks at the event in between.
HandleMilestone ==
  /\ program = "on" /\ listening /\ chan # <<>>
  /\ \/ Head(chan).kind = "plan" /\ SetPlan
     \/ Head(chan).kind = "status" /\ SetStatus(Head(chan).id, Head(chan).status)
  /\ chan' = Tail(chan) /\ listening' = TRUE
  /\ UNCHANGED <<opts, engineVars, cancelled, finished, runErr, aborting, forceQuit, exitVars>>

\* finishRunning
Settled(status, err) ==
  IF status # "running" THEN status
  ELSE IF aborting THEN "skipped" ELSE IF err # "nil" THEN "failed" ELSE "running"

\* Nothing waits on the channel from here on.
HandleFinished ==
  /\ program = "on" /\ listening /\ chan # <<>> /\ Head(chan).kind = "finished"
  /\ chan' = Tail(chan) /\ listening' = FALSE /\ finished' = TRUE
  /\ runErr' = IF ~Head(chan).ok THEN "failed" ELSE IF aborting THEN "aborted" ELSE "nil"
  /\ rows' = [i \in Milestones |-> Settled(rows[i], runErr')]
  /\ UNCHANGED <<opts, engineVars, cancelled, aborting, forceQuit, exitVars>>

\* Mutant: an abort is only known by the error of the engine.
OutcomeByError(by) ==
  IF by = "SIGINT" THEN "interrupted" ELSE IF runErr # "nil" THEN "failed" ELSE "nil"

\* RunWithOptions after the program: the transcript, the result, the deferred cancel.
Outcome(by) ==
  IF by = "SIGINT" THEN "interrupted"
  ELSE IF aborting THEN "aborted" ELSE IF runErr # "nil" THEN "failed" ELSE "nil"

Exit(by, forced) ==
  /\ program' = by /\ cancelled' = TRUE
  /\ transcript' = IF forced THEN "left" ELSE "closed"
  /\ result' = Outcome(by)

\* q or ctrl+c: leave a finished run, ask a running one to stop, or leave it behind.
Leave ==
  /\ program = "on" /\ finished /\ Exit("key", forceQuit)
  /\ UNCHANGED <<opts, engineVars, chan, screenVars>>

Abort ==
  /\ program = "on" /\ ~finished /\ ~aborting
  /\ aborting' = TRUE /\ cancelled' = TRUE
  /\ UNCHANGED <<opts, engineVars, chan, rows, listening, finished, runErr, forceQuit, exitVars>>

ForceQuit ==
  /\ program = "on" /\ ~finished /\ aborting
  /\ forceQuit' = TRUE /\ Exit("key", TRUE)
  /\ UNCHANGED <<opts, engineVars, chan, rows, listening, finished, runErr, aborting>>

\* Bubble Tea's own handler: SIGINT ends Run with an error, SIGTERM without one.
Signal(s) ==
  /\ program = "on" /\ Exit(s, forceQuit)
  /\ UNCHANGED <<opts, engineVars, chan, screenVars>>

Engine == \/ Plan \/ Emit \/ StepSucceeds \/ StepFails \/ FetchFails \/ SessionFails
          \/ Passes \/ CheckRefuses \/ WatchStops \/ Return \/ SendFinished
          \/ \E k \in Kustomizations : KustomizationEvent(k)
Screen == HandleMilestone \/ HandleFinished
Operator == Leave \/ Abort \/ ForceQuit \/ \E s \in Signals : Signal(s)
InstallNext == Engine \/ Screen \/ Operator

\* The two goroutines are scheduled; the operator and the cluster owe nothing.  The
\* budget ends a watch, so its end is not left to the events.
InstallSpec == /\ InstallInit /\ [][InstallNext]_installVars
        /\ WF_installVars(Screen) /\ WF_installVars(SendFinished)

(* ------------------------------------ properties ------------------------------------ *)
InstallTypeOK ==
  /\ opts \in InstallOptions
  /\ todo \in Seq([op : Statuses \cup {"gate", "try", "fetch", "check", "session", "watch"},
                   id : Milestones])
  /\ engine \in {"plan", "running", "failing", "succeeded", "failed", "gone"}
  /\ reported \in [Milestones -> Statuses \cup {"pending"}]
  /\ ready \subseteq Kustomizations /\ completed \subseteq GpuRows(opts)
  /\ late \in 0 .. MaxLate
  /\ chan \in Seq([kind : {"plan"}] \cup [kind : {"status"}, id : Milestones, status : Statuses]
                  \cup [kind : {"finished"}, ok : BOOLEAN])
  /\ Len(chan) <= ChanCap
  /\ rows \in [Milestones -> Statuses \cup {"absent", "pending"}]
  /\ {cancelled, listening, finished, aborting, forceQuit} \subseteq BOOLEAN
  /\ runErr \in {"nil", "failed", "aborted"}
  /\ program \in {"on", "key", "SIGINT", "SIGTERM"}
  /\ transcript \in {"open", "closed", "left"}
  /\ result \in {"none", "nil", "failed", "aborted", "interrupted"}

\* installrun.go: all prior events are delivered before finishedMsg; reporter.go: every
\* Start is followed by a terminal event, and no path leaves planned rows pending.  What
\* the finished checklist shows of a milestone is the last thing the engine reported of
\* it, however far the screen lagged behind; no row runs on, and after a success none is
\* pending.
ScreenTellsTruth ==
  finished /\ ~aborting =>
    \A i \in Planned(opts) : /\ rows[i] = Settled(reported[i], runErr)
                             /\ rows[i] # "running"
                             /\ runErr = "nil" => rows[i] # "pending"

\* runReconcileWatchWithGPU: a reconcile shown as done has waited for every GPU layer,
\* in whatever order and how often the Kustomizations turned Ready and back.
ReconcileCoversGpu ==
  finished /\ ~aborting /\ rows["reconcile"] = "done" =>
    \A r \in GpuRows(opts) : rows[r] = "done"

\* The milestones whose failure the install survives.
BestEffort == {"fetch-kubeconfig", "reconcile", "openbao", "keycloak"} \cup GpuRows(opts)

\* "returns the engine's error": nil is returned only of an install whose gates have
\* all been passed.  SIGTERM breaks it: Bubble Tea then ends the program with no error.
NilMeansInstalled ==
  result = "nil" =>
    \A i \in Planned(opts) \ BestEffort : reported[i] \in {"done", "skipped"}

\* An engine that has returned is seen to have: the screen ends its run, or the operator
\* has left it, even when the channel was full.
EndIsShown == engine \in {"succeeded", "failed"} ~> finished \/ program # "on"

===============================================================================
