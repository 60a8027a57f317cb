# kube-dc: a TLA+ verification project

This project models the part of the kube-dc repository that carries its own
stateful logic: the Go command line under `cli/`, whose `bootstrap` commands
create and rebuild clusters.  The rest of the repository is Helm charts,
documentation, examples and shell tooling; the controllers the charts install
are built elsewhere.

All paths below are relative to `src/cli/internal/bootstrap/` unless they begin
with `cmd/`, `pkg/` or `internal/` (then under `src/cli/`).  `T` and `N` stand for the
threshold and the number of Shamir shares (3 and 5 in the code).

1. [The system](#1-the-system)
2. [Modules](#2-modules)
3. [Runs](#3-runs)
4. [Fairness](#4-fairness)
5. [Proofs](#5-proofs)
6. [Findings](#6-findings)
7. [What is not modelled](#7-what-is-not-modelled)
8. [Plan](#8-plan)

## 1. The system

Every bootstrap command is a short-lived process on an operator's laptop.  It
holds no daemon state; what it works on lives in five places that outlive it:

| Place | What it keeps | Who writes it |
|---|---|---|
| the fleet clone (git working tree, HEAD, remote) | `clusters/<name>/...`, encrypted `secrets.enc.yaml` | init, `openbao init`, GPU and upgrade commands, the operator |
| the OpenBao vault and `svc/openbao` annotations | seal state, tokens, auth mounts; `openbao-bootstrap-finalized`, `controller-auth-installed`, the policy generation | `openbao init`, `unseal`, `setup-controller-auth`, `generate-root`, the pods' own restarts |
| the control-plane nodes | `/etc/rancher/rke2/config.yaml`, its `.pre-oidc` copy, the running apiserver | `oidc-cutover`, `oidc-cutover --rollback`, the operator, the authenticator's init container |
| the laptop's disk | `~/.kube-dc/` write-ahead dumps, credential cache, kubeconfig | `openbao init`, login, the kubectl exec plugin |
| the cluster's API | nodes, etcd membership, labels | node removal, GPU transition, Flux |

The commands interact with these through *ports* (`ports/*.go`): a script
runner, a git client, an SSH client, an OpenBao client that runs `bao` through
pod exec, a Kubernetes client.  A port call can fail before or after it took
effect, and the process can be interrupted between any two calls; a re-run then
starts from what it finds.  That is what makes this code hard: none of it is a
long-running concurrent server (the script runner, with its goroutines and
process tree, is the exception), all of it is a protocol between an impatient
operator, a process that may die, and state that is changed by others.

### Components

**OpenBao initialisation ceremony** (`openbao/init.go`).  *State*: the share
buffer, the encrypted file in working tree / HEAD / remote, write-ahead dumps,
the `--openbao-shares-out` copy, the vault, its root token, two annotations.
*Operations*: pre-flight gates; the init script with its sentinel callback;
write-ahead dump; encrypt-and-verify each share; plaintext copy; commit; push;
removal of the dump; unseal; controller auth; annotate; deferred revoke.
*Hard*: from `bao operator init` on, the shares exist only where this process
puts them, and each later step may fail or never run.  *Correct when*: a share
written ahead never loses its last durable copy; nothing irreversible happens
before custody is complete; what an error tells the operator is true; the root
token does not outlive the command in silence.

**OpenBao unseal** (`openbao/unseal.go`).  *State*: of each pod, whether it is
there, initialised, sealed, and the shares it has been given.  *Operations*: list,
status, raft join of an uninitialised follower, three shares, next pod.  *Hard*: pods
restart or appear between the steps, two operators unseal at once, a share's exec
comes back empty.  *Correct when*: nil means the listed pods are unsealed.

**Controller auth** (`openbao/setup_controller_auth.go`,
`cmd/kube-dc/bootstrap_openbao_setup_controller_auth.go`).  *State*: auth mount,
policies and roles, annotations.  *Operations*: full and `--refresh-policy` set-up;
stamping.  *Hard*: each write is an exec whose answer may be lost, and success is
recognised by an echoed sentinel.  *Correct when*: a stamp means the writes behind
it, and the temporary root token is revoked or its survival reported.

**OpenBao exec adapter** (`adapters/openbao/client.go`).  *State*: the vault's one
generate-root ceremony (nonce, progress), attempt counters.  *Operations*: OTP,
`-cancel`, `-init`, share submission with silent-call recovery, the outer retry
over whole ceremonies, idempotent writes with retry and kubectl fallback,
`RevokeSelf`.  *Hard*: a stdin, output or exit status is lost; the ceremony ends
by itself when the threshold share lands.  *Correct when*: no share is skipped
or believed accepted that was not.

**Script runner** (`adapters/script/runner.go`, `ports/script.go`,
`ports/drain.go`).  *State*: a process tree holding two pipes, two drainer
goroutines, the `supervise` goroutine, a bounded Line channel, a one-slot error
channel.  *Operations*: start, drain, sentinel capture, cancel, escalate, close.
*Hard*: all interleavings of these, with grandchildren that keep the pipes open.
*Correct when*: the payload never travels on the channel, there is one final
exit record, a clean exit is never reported over a lost capture, and the channel
closes.

**OIDC cutover** (`oidccutover/run.go`, `config.go`,
`cmd/kube-dc/bootstrap_oidc_cutover.go`).  *State*: per node the config file,
its snapshot, the running apiserver and its flags; per run the result lists.
*Operations*: pre-flight, fetch, patch, port check, snapshot, put, restart,
wait, verify; rollback; dry run.  *Hard*: a run stops between the file and the
restart, is re-run, rolled back, raced by an editor.  *Correct when*: rollback
stays possible, no apiserver is sent to a webhook whose kubeconfig is missing,
what is reported as done is done.

**Cluster init and apply** (`clusterinit/apply.go`, `clusterinit/scaffold.go`).
*State*: the fleet clone and its remote.  *Operations*: gate on a clean tree, label
nodes, scaffold or resume, rotate TLS, commit, push, `ResetHard` on failure, install
Flux.  *Hard*: the clone is shared with other commands and with the operator; a push
may take effect and be answered as failed; a run may die at any step.  *Correct
when*: a failed run moves nothing, nobody else's work is lost, nothing in plaintext
is committed, and Flux is never pointed at a remote without the overlay.

**Fleet starter and age key** (`clusterinit/starter.go`,
`cmd/kube-dc/bootstrap_init_agekey.go`).  *State*: the directory `--repo`, its `.git`, the
tag at the registry, `age.key` and the recipients in `.sops.yaml`.  *Operations*: inspect,
clean up leftovers, pull, promote entry by entry, merge `.gitignore`, `git init`, commit;
generate or use the key, enrol it.  *Hard*: the process dies between two renames or between
the key and its enrolment, and the tag names another artifact at the next try.  *Correct
when*: what passes for a fleet is one artifact, and the private key is never committed.

**Plan review** (`cmd/kube-dc/bootstrap_init.go`, `bootstrap_init_mode.go`,
`clusterinit/plan.go`, `mode.go`, `ssh_kubeconfig.go`).  *State*: the plan file, the
options, the probed mode, the current context.  *Operations*: build, show and write a plan;
load and verify it; target the cluster, probe again, apply, install Flux, finalize.
*Hard*: siblings, the tag, the files, the plan file, the context and the clusters change
between the review and each use.  *Correct when*: what was reviewed is what is written, and
Flux lands on the cluster the run is about, in the mode the run planned for.

**Sealed secret writer** (`clusterinit/imageaccel.go`, `clusterinit/wildcardtls.go`,
`filelock_unix.go`; `dns01.go` has the same shape).  A flock per artifact, a sweep of
stale temporaries, a plaintext temporary encrypted in place, checks, a rename; for
TLS also the overlay patch and the recorded mode.  *Hard*: two scaffolds at once, a
crash in the plaintext window, an overlay edited between reading and writing.
*Correct when*: no writer loses its temporary to another, success leaves no plaintext
residue, and the completed-mode marker stands only over a finished overlay.

**Keycloak OIDC initialisation** (`keycloak/init.go`).  Runs a script that may
commit to the fleet clone, and pushes when HEAD has moved.  *Hard*: it leaves
commits that `apply` finds, and may be killed between commit and push.  *Correct
when*: `apply`'s rollback keeps what it left.

**Node removal** (`noderemove/remove.go`).  *State*: Node objects, etcd members,
machines.  *Operations*: list, find a peer pod and the member, remove the member,
cordon, drain, delete, tear down over SSH.  *Hard*: machines go down meanwhile, two
removals run side by side, each call's answer may be lost.  *Correct when*: quorum is
kept and no deleted node is still an etcd member.

**GPU mode transition** (`gputransition/`, `cmd/kube-dc/bootstrap_gpu.go`, with
`gpuupgrade` and `gpudra` beside it).  *State*: the mode in the fleet clone and on
its remote; the node's cordon, labels, plugins and holders.  *Operations*: observe,
pre-flight, cordon, recheck, commit, push, roll back, wait, uncordon, resume.
*Hard*: Flux, NFD and the plugins follow the remote in any order; a re-run resumes
from what it finds; others push the clone.  *Correct when*: a schedulable node runs
exactly the published mode.

**Credential plugin and cache** (`pkg/credential/exec.go`,
`internal/config/credentials.go`, login and logout in `cmd/kube-dc/main.go`).  Cached
tokens on disk, one file per realm beside a legacy file, refreshed by any number of
kubectl processes at once.  *Hard*: rotation of the refresh token, writes in place,
logout beside a refresh.  *Correct when*: a realm never gets another's token, the
newest token is the one kept, and logout removes every file.

**Kubeconfig management** (`internal/kubeconfig/manager.go`,
`clusterinit/ssh_kubeconfig.go`).  One file of clusters, users, contexts and the
current one.  *Operations*: login, use, ns, delete in the context screen,
`logout --remove-contexts`, `fetch-kubeconfig`.  *Hard*: each command rewrites the
whole file from the copy it read, nothing locks, and names join domain, identity and
project.  *Correct when*: references in a file that parses resolve, and a context
speaks for the identity and the server in its name.

**Install screen and engine** (`tui/screens/installrun/`, `clusterinit/reporter.go`,
`cmd/kube-dc/bootstrap_init*.go`, the milestones of `clusterinit/apply.go`).  *State*:
the engine goroutine and the milestones left to it, a bounded channel of events, the
checklist, a cancellable context, the transcript file.  *Operations*: plan, start,
done, skip, the reconcile watch with its GPU layers, the engine's last event, abort,
forced quit, signals.  *Hard*: the engine, the screen, the operator and signals
interleave; a cancelled context drops events; the watch sees Kustomizations turn Ready
and back in any order.  *Correct when*: the finished checklist is what the engine
reported, nil means installed, and nothing writes to a closed transcript.

**Alerts screen** (`cmd/kube-dc/main.go` `runAlerts`, `internal/alerts/portforward.go`,
`internal/alerts/tui/`).  *State*: three flags, loads and reconnects in flight, the
client, the `kubectl port-forward` process and the one `Stop` remembers.  *Hard*: loads
and reconnects answer in any order, the forward dies at any moment, the operator leaves
while one is being replaced.  *Correct when*: no flag outlives its work, one forward is
alive and it is ours, the client asks it, and it ends with the command.

**Fleet screen** (`tui/screens/fleet.go`, `tui/screens/root.go`).  *State*: the active
tab, the list with its selection, what is known of each cluster, panes, focus, the armed
reconcile; enumerations, probes, a timer and action results under way.  *Hard*: messages
go to whichever tab is active when they arrive, an old probe answers after a new one, the
list shrinks under the selection.  *Correct when*: the selection is in the list, what one
press will run was armed on this panel, and the screen catches up with the clusters.

**RKE2 install and join** (`rke2/install.go`, `join.go`, `install-server.sh`,
`install-agent.sh`).  *State*: the node's `config.yaml`, its service and the config that
was read, the staged CA bundle, the anchors, the trust store.  *Operations*: probe,
refuse over running VMs, push, run the script (trust, read the preserved block, write,
re-append, start, wait), restart.  *Hard*: the script outlives a lost session, dies or is
rebooted away at any line, and a re-run meets what it left.  *Correct when*: success means
a trusted bundle and a config that was read, and no re-install undoes the OIDC cutover.

**Break-glass** (`breakglass/breakglass.go`).  *State*: the token Secret, the encrypted
kubeconfig in the fleet, recovery shells.  *Operations*: adopt, use, rotate.  *Hard*: the
token controller fills the Secret in later, a rotate fails after its delete, two operators
overlap.  *Correct when*: after a success the file opens the cluster and a leaked token
does not.

The remaining components (SSH and git adapters;
read-only probes, discovery and rendering; presentation; mocks and wiring) are
listed in `PROJECT.json` with the reason each is modelled only through its
outcomes or not at all.  `PROJECT.json` also lists the hazards of this code line
by line, with the properties that cover them.

## 2. Modules

| Module | What it is |
|---|---|
| `CustodyPromise` | the abstract specification of an init ceremony: a vault is born, shares become durable and never cease to be, the vault is closed only over a complete set |
| `ShareCustody` | the init ceremony, its two follow-up commands, the operator's git steps, a process that may be killed; `Promise` is its refinement of `CustodyPromise` |
| `StreamPromise` | the abstract specification of a script run, as the engines see it: one report, success only of a run followed to its end with its secret block captured |
| `ScriptRunner` | one script run: process tree, drainers, supervise, context watcher, consumer; `KeepsPromise` is its refinement of `StreamPromise` |
| `OidcCutover` | the cutover command with rollback and dry run, re-runs, and the world around it |
| `ControllerAuth` | `setup-controller-auth` with the generate-root ceremony and the retried writes underneath |
| `FleetClone` | the fleet clone as a value: dirty paths, HEAD's history, the remote's; commit, push, reset |
| `FleetApply` | `apply` and `keycloak init` on the clone, beside `openbao init` and the operator's git |
| `FleetStarter` | `bootstrap init` making a directory a fleet repository with an age key, over any number of starts |
| `PlanReview` | dry run, `--apply-plan`, wizard and direct apply while the world moves |
| `NodeInstall` | `bootstrap install` and `join` on one node, with the scripts of earlier runs still alive |
| `BreakGlass` | `break-glass adopt`, `use` and `rotate` by several operators |
| `SealedWrite` | processes that scaffold one SOPS artifact |
| `GpuTransition` | the GPU mode transition of one node |
| `NodeRemove` | `remove-node` by several operators |
| `PodUnseal` | `openbao unseal` over the pods of the StatefulSet |
| `CredentialCache` | exec plugin, login and logout over the credential files |
| `Kubeconfig` | the commands that rewrite the kubeconfig file |
| `InstallRun` | the engine of `bootstrap init` as a program of milestones, its channel, the install screen, abort and signals |
| `AlertsScreen` | the alerts screen and its port-forward |
| `FleetScreen` | the fleet screen behind the root's tabs |
| `OpenBaoProofs` | theorems about `ShareCustody` and `PodUnseal` |
| `ScriptRunnerProofs` | theorems about `ScriptRunner` |
| `BringUpProofs` | theorems about `OidcCutover`, `NodeInstall` and `PlanReview` |
| `FleetProofs` | theorems about `SealedWrite`, `FleetApply` and `FleetStarter` |
| `OperationsProofs` | theorems about `ControllerAuth`, `NodeRemove`, `GpuTransition` and `BreakGlass` |
| `AccessProofs` | theorems about `Kubeconfig` and `CredentialCache` |
| `InstallRunProofs` | theorems about `InstallRun` |
| `ScreenProofs` | theorems about `AlertsScreen` and `FleetScreen` |
| `MCShareCustody`, `MCScriptRunner`, `MCOidcCutover`, `MCControllerAuth`, `MCFleetScreen` | instances for TLC |
| `MCBringUp` | `OidcCutover`, `FleetStarter`, `PlanReview` and `NodeInstall` in one run |
| `MCOperations` | `SealedWrite` to `Kubeconfig` (with `FleetApply`), `BreakGlass` and `ControllerAuth` in one run |
| `MCScreens` | `InstallRun` and `AlertsScreen` in one run |
| `MCNodeRemove` | node removal where one node is named after another |

Each component module is a state machine of its own.  Two compose by
abstraction: `ShareCustody` takes the script runner's result as one of "nothing
came", "a payload was captured and the stream ended badly", "a payload was
captured and the exit was clean", which is what `StreamPromise` allows and
`ScriptRunner` implements (`KeepsPromise`); and it takes
`setup-controller-auth` as one step whose effects (`SetupAuthCommand`) are those
`ControllerAuth` shows step by step: a stamp with or without the writes, a failure
with or without them.  `FleetApply` and `GpuTransition` share `FleetClone`, which is
what `adapters/git/client.go` makes of the clone, and `FleetApply` takes
`openbao init` as one step whose outcomes are those `ShareCustody` shows.  `InstallRun`
takes each of Apply's phases as a milestone with its outcome; what the phase does to the
clone is `FleetApply`'s.  `FleetStarter` and `PlanReview` meet `FleetApply` in the same
way: the scaffold and its commit are one step there.  `NodeInstall` takes the cutover of its
node as one step (`CutoverNode`); what happens inside it is `OidcCutover`'s.

Definitions marked "Mutant" are plausible bugs kept beside the definition they
break; nothing in the specifications refers to them.

### ShareCustody

A share is its number; each place shares can be is the set of numbers found
there: `buf` (the `secrets.Buffer`), `dump` (write-ahead files by candidate
name), `outFile`, `tree`, `head`, `remote`.  `pc` names the next step of
`Init` in `openbao/init.go`:

| Labels | Code | Actions |
|---|---|---|
| `gate` | Phase A pre-flights | `GateRefuses`, `GatePasses` |
| `script`, `payload`, `dump`, `drain` | `runner.Run` with the sentinel callback, `loadBufferFromJSON`, `emergencyDumpShares`, `ports.Drain`, the checks after it | `ScriptFails`, `ScriptInitialises`, `PayloadLost`, `Capture`, `DumpSucceeds/Fails`, `DrainPasses/Fails` |
| `encrypt`, `sharesOut`, `commit`, `push`, `dropDump` | `writeAndVerifyShares`, `--openbao-shares-out`, `Git.Commit` / `CommitAndPush`, removal of the dump | one action each, with its failure |
| `unseal`, `setupAuth`, `annotate`, `revoke` | Phase C and the deferred `RevokeSelf` | one action each, with its failure |

`ReturnCustody` is the `custody` closure, whose message depends on whether the
write-ahead dump worked.  A failure may leave the call's effect in place wherever
the code cannot tell (push, unseal, annotations, the writes of controller auth).
`Kill` is possible at every label.  Around the process: `unseal`,
`setup-controller-auth`, pod restarts (a vault comes up sealed), and the
operator's edit, checkout, commit and push.

`kept` is a history variable: the shares a dump file has ever held.  Two exits of
the ceremony are in the model and deliberately outside `RootTokenRevoked`: the
return of a failed post-commit unseal, which precedes the `defer RevokeSelf`
(`openbao/init.go:511-515`) and leaves init's root token live without a word, and
a kill.  Shares of a payload with a hole before its last entry are rendered only
up to `ShareCount()` (`Rendered`): a share past the hole is lost with the buffer.

### ScriptRunner

`alive` is the set of processes that hold the write ends of the pipes: the
script, a `helper` in its process group, a `daemon` that called setsid; `stubborn`
ones ignore SIGTERM.  `drainer[s]` is a goroutine at its read, at its send, in
the callback (stdout only) or done.  `sup` is the position of `supervise`:
`select` (Phase 1), `killed` (the sentinel branch), `grace`/`grace2`/`notice` (the
cancellation branch and its two timers), `wait` (Phase 2, `cmd.Wait`),
`settle`/`report`/`exit`/`close` (Phase 3).  `Send` blocks on a full channel and
panics on a closed one.  `Watcher` is os/exec's goroutine: SIGTERM to the group by
`cmd.Cancel`, and the kill of the direct child after `WaitDelay`.  Timers may
fire at any time, which covers every relative speed.  `got` is what the
consumer, `ports.Drain`, has seen.

### OidcCutover

A node's config file is the set of flags that matter, with `"malformed"` for a
file `PatchConfig` refuses; `live` is the set of nodes whose *running* apiserver
carries the flag, which changes only in `ApiserverReturns`.  `pc` follows `Run`,
`preflight` and `rollback`; `todo` is what is left of the node list, `body` the
patched-from copy fetched earlier (an edit in between is overwritten by
`PutConfig`, as in the code).  `StepFails` is a failed call with or without its
effect.  The world: apiservers return once :6443 is free, the authenticator's
init container writes kubeconfigs (never removing one), other workloads take the
port, the operator edits.

`found` never changes; it is kept to say which nodes got the flag from the
command.  `KubeconfigFirst` and `RollbackStaysPossible` speak of those: a node
found with the flag was set up by somebody else.

### ControllerAuth

`ceremony` is the vault's one generate-root ceremony: none, `fresh` (started with
this round's OTP) or `stale`, and its progress.  The labels `otp` .. `again` follow
`GenerateRoot` and `generateRootOnce`: `submit` is one exec of a share,
`verify` the `-status` after a silent call, `recheck` the one before a retry,
`again` the outer loop's `-cancel` and next round.  `write` and `stamp` follow
`SetupControllerAuth` in both modes through `execIdempotentWriteWithRetry`;
`revoke` is the deferred `RevokeSelf`.  Every call may lose its stdin, output or
status; the four kinds of lost answer (`NoAnswer`) are those the code tells apart.
`Checked` names the writes whose shell wrapper runs under `set -eu`: only
the role's does.

A token whose answer was lost (the threshold share landed, the output did not
come back) is live in the vault and known to nobody; no command can revoke it, and
`TokenAccounted` speaks only of tokens the command decoded.

### FleetClone and FleetApply

A clone is the set of paths that differ from HEAD (`tree`), HEAD's history and the
remote's, each a sequence of commits.  A history also stands for its hash, so "an
ancestor of" is "a prefix of".  A commit takes *all* of `tree`, as `commitLocal` does;
a push needs a fast-forward; a reset needs an ancestor.

| Labels of `cmd` | Code | Actions |
|---|---|---|
| `gate`, `label` | Phases 1 to 2b of `Apply` | `Gate`, `LabelIngressNodes` |
| `scaffold`, `rest`, `cleanup` | `Scaffold` with `add-cluster.sh`, its writers, its `RemoveAll` | `ResumeOverlay`, `RunAddCluster`, `ScaffoldRest`, `RemoveClusterDir` |
| `rotate`, `rotateCommit` | Phase 3b | `RotateTLS`, `CommitRotation` |
| `commit`, `push`, `reset`, `flux` | Phases 4 and 5, the rollback | `CommitOverlay`, `PushOverlay`, `PushFails`, `RollBack`, `InstallFlux` |
| `script`, `compare`, `publish` | `keycloak/init.go` | `KeycloakScript`, `KeycloakCompare`, `KeycloakPush` |

`pre` is the SHA noted at the start.  `PushFails` has both outcomes of a lost
answer.  Between commands the operator edits, commits, pushes, pulls and cleans.
Commands take turns: two that overlap inside the clone are not modelled (section 7).

### FleetStarter

| Labels of `engine` | Code | Actions |
|---|---|---|
| `inspect` | `StarterShapePresent` and the guards after it | `SkipPull`, `RefusePopulated`, `CleanLeftovers` |
| `pull`, `promote`, `ignore` | pull into a scratch directory, checks, the rename loop, `gitignoreExcludesAgeKey` | `PullArtifact`, `PromoteEntry`, `CheckIgnore` |
| `init`, `commit` | `git init`, the first commit | `GitInit`, `CommitStarter` |
| `key`, `recipients`, `enrol` | `autoGenerateAgeKey`, its script, the commit of `.sops.yaml` | `UseKey`, `GenerateKey`, `WriteRecipients`, `CommitEnrolment` |
| `gate`, `scaffold` | Apply's clean-tree gate and its commit | `CleanTreeGate`, `CommitScaffold` |

`dir[e]` says whose a top-level entry is: nobody's, the operator's own, a checkout's, or an
artifact's, by version.  `EngineFails` at any label stands for an error and for a kill.  The
tag moves at any time.  `ignores` is whether `.gitignore` lists `age.key`; a commit takes
everything that is not ignored, the key included if nothing ignores it.

### PlanReview

Each fact of the world (pins of the sibling clusters, the tag, the TLS files) is a version
that `Drift` raises.  A plan holds the versions it was built from; `Inputs` are the fields
its hash covers.  `reviewed` is a history variable: the plan the last dry run showed.

| Labels of `task` | Code | Actions |
|---|---|---|
| `plan`, `confirm` | `runInitDryRun`, the wizard's two builds, `runInitApplyPlan` | `DryRun`, `ShowPlan`, `BuildPlan`, `LoadReviewed` |
| `target`, `reprobe` | the fetch of the kubeconfig and `reprobeModeAfterFetch` | `Target`, `Reprobe` |
| `starter`, `materials`, `apply` | `EnsureStarter`, the fingerprints, Apply | `EnsureStarter`, `ReloadMaterial`, `ApplyOverlay` |
| `flux`, `fetch`, `finalize` | `flux-install.sh`, the second fetch, `runPostApply` | `FluxInstall`, `Fetch`, `Finalize` |

`switched` and `moved` record that the context, or the cluster behind it, changed since the
run last looked: no code can promise anything over such a change, and
`FluxLandsAsPlanned` excuses exactly those runs.

### SealedWrite

`writer[w].at` follows `ensureRegistryDepotSecret` or `WriteWildcardTLS`: `stage`
(TLS phase 1), `check`, then `sopsEncryptToFile` as `lock`, `sweep`, `create`,
`encrypt`, `verify`, `rename`, then TLS phase 3 as `patch`, `write`, `mark`.  A
temporary or the artifact is plain, `leaky` (SOPS metadata over cleartext values, what
a mis-scoped creation rule gives) or sealed.  sops may do any of these and exit 0.
`Die` at any label drops the flock, as the kernel does, and leaves the temporary.

### GpuTransition

`gpu.at` follows `Run`: `observe`, `prepare` (with every refusal of the pre-flight),
`cordon`, `recheck`, `apply`/`push`/`reset` (the fleet transaction of
`bootstrap_gpu.go`), `wait`, `uncordon`.  Everything from `recheck` on fails cordoned.
The world: each label follows the published mode by itself, plugins start and stop in
any order, workloads come and go, a human cordons and uncordons, other work is committed
and pushed from the same clone.  `lost` says that a push took effect and was reported
as failed; from then on the clone does not know what is published.

### NodeRemove

`remover[r].at` is the step of `Remove`, one action each, by any number of operators.
`EtcdAnswers` is what an `etcdctl` call through the chosen peer needs; a removal is
refused by etcd when the rest would be without a majority.  `NameExtends` says which
names are others followed by a dash: `MemberMatches` is the code's prefix test.

### PodUnseal

`pods[p]` is absent, fresh, sealed or unsealed; `progress[p]` the shares it holds.
`unsealer[u]` is one run: the pods it listed, the first of them as the leader, the pod
and share in hand.  `ShareDropped` is the exec that returned neither output nor error.
`clean` is the set of runs that met no restart and no dropped share; the promise is
made for those only.

### CredentialCache

`files` has one entry per realm and one for the legacy file: absent, empty (truncated,
not yet written), garbled, or a record.  A client is a plugin call (`load`, `fallback`,
`have`, `refresh`, `truncate`, `write`), a login or a logout (`all`, `legacy`, `list`,
`unlink`).  Keycloak issues tokens by number and, where it `rotates`, spends the
refreshed one.  `unsaved` names realms whose newest token never reached a file, which
is nobody's fault but the process's death or a failed write; `since` is what a
logout may have missed because a save began after it.

### Kubeconfig

A configuration is three functions (clusters to servers, users to what authenticates
them, contexts to references) and the current context.  Names are tuples of what the
code joins into a string: `<<domain, identity>>` for clusters and users, with the
project for contexts.  Every command is `load` (a copy, changed in the process's
memory: `out`), `truncate`, `write`; login and logout repeat that for each context or
server; the fetch loads and renames.  `Loaded` drops client certificates, because the
manager's `User` has no field for them.  A file two writers overlaid is the later
one's or `torn`.  A command that held the file open when a rename replaced it writes to
no file (`void`).

### NodeInstall

`command` is the process on the laptop, `scripts[r]` the script its `r`-th run started,
which is a process of the node: `Abandon` ends the one and leaves the other.  `conf` is
which run wrote `config.yaml` and whether the webhook flag is in its
`kube-apiserver-arg` block, `unit` the service with the config its process has read.
`SkipTrust` to `VerifyStore` follow `install_node_trusted_ca`, where `anchors` and `store`
each hold a bundle or none; `ReadBlock`, `WriteConfig` and `ReappendBlock` are the three
steps around the rewritten file.  `ProbeService` loses its answer as the code does:
`serviceActive` drops the SSH error and takes it for "not active".  The history variables
say what the properties exempt: `torn` that a script died or was overtaken between reading
the block and putting it back, `missed` that the run took for down a unit that was not.

### BreakGlass

Tokens are numbered as the controller mints them; `secret` is the Secret (absent, not yet
filled in, or its token) and `keyFile` the token in the encrypted kubeconfig.  A keeper is
one process; `shell` is a recovery shell with the token it was opened with.  `alone` says
that no other adopt or rotate was at work during this one.

### InstallRun

`Install(opts)` is the sequence of instructions that the flags leave of
`runApplyEngine`, `Apply` and `runPostApply`; `todo` is what is left of it.

| Instruction | Code | Actions |
|---|---|---|
| `running`, `done`, `skipped`, `failed` | `reporter.Start`, `Done`, `Skip` | `Emit` |
| `gate` | a milestone whose error is returned | `StepSucceeds`, `StepFails` |
| `try` | OpenBao, Keycloak: the error is kept, the install goes on | `StepSucceeds`, `StepFails` |
| `fetch` | the kubeconfig of the new cluster; without it the finalize phase is skipped | `StepSucceeds`, `FetchFails` |
| `check`, `session` | work between milestones | `Passes`, `CheckRefuses`, `SessionFails` |
| `watch` | `runReconcileWatchWithGPU` | `KustomizationEvent`, `WatchStops` |

`sendMsg` queues an event, or drops it once the context is cancelled; the last event is
sent without a look at the context (`SendFinished`).  `rows` is the checklist of
`installrun/model.go`; `Exit` is what `RunWithOptions` does after the program.
`reported` is a history variable.  After a cancellation a milestone may still succeed
`MaxLate` times, since not every one looks at the context.

### AlertsScreen

`loads[s]` and `reconnects[s]` count the commands in flight at each stage, for the
commands are alike.  A forward is its local port: `procs` the kubectl processes alive,
`forward` the one `PortForward` remembers, `client` the one the Alertmanager client
asks.  `Spawn`, `Forwarding`, `StartFails` and `Stop` are the steps of
`PortForward.Start` and `Stop`; each handler of `Update` is one action.

### FleetScreen

`lists`, `answers` and `results` are the enumerations, probes and action results under
way, each with what it has seen; `ticking` is the refresh timer.  The root hands every
message to the active tab, so `Dropped` takes one away while another is active.  A
cluster is `calm` or in `drift`, which is what decides what Enter and `R` do.  `armed` is
the first press of `R`; `panel.confirm` says whether the panel's text shows it.
`pressed` is a history variable.

## 3. Runs

| Run | Question | Instance | Distinct states |
|---|---|---|---|
| `custody` | does the ceremony keep its custody promises and implement `CustodyPromise`? | N=3, T=2, 2 dump names, 2 ceremonies, 6 payloads | 456,554 |
| `custody_resume` | do the commands named for resuming finish Phase C? (no) | same | violation |
| `runner` | does a run keep what the engines build on (`StreamPromise`), and does its channel close? | `<<plain, begin, secret, end>>`, helper and daemon, channel and pipe of one line, one child line | 275,196 |
| `runner_cancel` | does a cancellation always close the channel? (no) | helper only, no child line | violation |
| `runner_close` | are the drainers gone when the channel closes? (no) | as `runner` | violation |
| `cutover` | the cutover's snapshots, kubeconfig order, truth of "wired"; is a starter whole and the key private; is what was reviewed what is done; does a successful install mean a node that is set up? | cutover: 2 nodes, 2 runs, 1 edit, partial node lists, RKE2 may drop the flag; starter: four artifacts, 3 starts; review: `--mode=install` or `auto`, 2 invocations, 2 moves; install: a fresh node or an installed one, 2 bundles, 2 runs, 1 reboot | 3,661,787 |
| `cutover_rerun` | is a skipped node a finished one? (no) | 2 nodes, 2 runs, no edit, full lists, the flag is never dropped | violation |
| `auth_stamp` | does the install stamp mean all four writes? (no) | T=3, 3 tries, 2 rounds, 2 runs | violation |
| `operations` | do the other nine components keep their promises? | see below | 690,223 |
| `remove_names` | does removal take the right etcd member whatever the names? (no) | nodes `cp`, `cp-b` | violation |
| `screens` | do checklist, channel and result tell the truth about the engine; is there one port-forward, and does it come back? | install: five flag sets, channel of one event, one late success, SIGINT; alerts: three ports, two loads in flight | 435,808 |
| `fleet` | selection, arming, and that the screen catches up | two clusters, one load in flight, one change of the world | 1,154,688 |

`operations` bundles nine components that share no variable.  `Init` chooses `part`,
the one that moves; the others rest at an initial state.  Each part's behaviours are
exactly those of its own specification, so the bundle decides for each what a run of
its own would.  Instances: 2 writers with 2 tries each and 1 edit; 2 runs of `apply`
and `keycloak init`; 2 GPU runs over both directions of the two documented changes;
3 control-plane nodes and a worker, 2 operators, 1 machine down; 2 realms, 2
clients, 3 commands, 2 tokens per realm; 3 pods, 2 unsealers, 2 faults; 2 domains, 2
Organizations, 2 projects, 2 shells, 2 commands, from no file or from one an earlier
login and fetch left; a threshold of 3 shares, 3 tries, 2 rounds, 2 runs for controller
auth; 2 break-glass keepers with 3 commands each.  `screens` bundles two screens in the
same way, choosing `screen`, and `cutover` (`MCBringUp`) the cutover, the starter, the plan
review and the RKE2 install, choosing `part`.

Properties of the passing runs:

- `custody`.  `CapturedSharesDurable`: a share once written ahead is in HEAD, in
  the `--openbao-shares-out` file or in a dump file for ever after, through
  failures, kills, re-runs, checkouts and the removal of the dump.
  `CustodyBeforeIrreversible`: Phase C, its outcomes and the finalized stamp only
  over a full commit (and push, unless `--no-push`).  `RootTokenRevoked`: a run that went
  through the deferred revoke leaves a live root token only with a warning or on
  a revocation `RevokeSelf` claimed.  `Promise`: refinement.
- `runner`.  `KeepsPromise`: the consumer gets one report; it is 0 only when the run was not
  abandoned and a block that was begun has been captured; after it no block is begun, and
  the callback accepts a payload only if the drainers were abandoned.  Under fairness `RunEnds`.  What the code
  loses when it abandons its drainers (`ExitIsFinal`, section 5) is qualified by
  `abandoned`; `runner_close` shows the unqualified form fail.
- `cutover`, cutover.  `RollbackStaysPossible`: a node that got the flag from the command
  has a snapshot without it.  `KubeconfigFirst`: its file has the flag only where the
  webhook's kubeconfig is there.  `WiredIsServing`: a node reported as wired runs an
  apiserver that had the flag.
- `cutover`, starter.  `StarterIsWhole`: a directory that passes for a fleet, and a commit
  with starter trees, hold the trees of one artifact, whatever was killed and pulled again
  under a moving tag.  `KeyNeverCommitted`: nor does any run commit the private key, though
  a run that failed the `.gitignore` check leaves a directory the next run takes for a
  complete one.
- `cutover`, review.  `ReviewedIsApplied`: a run with `--apply-plan` writes the pins, the
  certificate and the starter of the plan that was shown.  `FluxLandsAsPlanned`: Flux and
  the finalizer reach the run's own cluster, in the mode that was probed.
- `cutover`, install.  `WebhookKept`: a re-install of a node that was cut over leaves the
  flag in `config.yaml` or in the memory of the script that is about to put it back.
  `InstalledIsReady`: after a success the store has the bundle, also over the anchors of a
  run that died before `update-ca-certificates`, and the service has read the file on disk.
- `operations`, controller auth.  `TokenAccounted`: a decoded token is revoked, warned about, or claimed revoked.

- `operations`, sealed writer.  `LiveTempIsSafe`: a writer between create and rename
  finds its temporary, whoever sweeps, dies or fails.
  `MarkerMeansSealed`: the marker stands only over a leak-free artifact and a patched
  overlay.  `CrashNeverWedges` (liveness): a writer at the lock gets past it.
- `operations`, fleet.  `FluxHasOverlay`, `FailedApplyMovesNothing`,
  `OthersWorkKept`: no step of `apply` loses what the operator or another command
  left.  `NoPlaintextCommitted`: what a killed scaffold leaves is in no later commit
  of any command.
- `operations`, GPU.  `SchedulableIsSettled`: unless a push's answer was lost, a
  schedulable node runs exactly the published mode, so that mode changes only under a
  cordon, whoever pushes the commit.
- `operations`, node removal.  `NoStrandedMember`: no deleted node is an etcd member.
- `operations`, credentials.  `QualifiedIsRight`: a call that names a realm gets that
  realm's token or none.  `SpentIsReplaced`: a file holds a spent token only while its
  successor is on the way or was lost.  `LogoutIsComplete`: a file that is there after
  a logout was opened by a save since the logout began.
- `operations`, break-glass.  `RotationTakesHold`: a success that no other command
  overlapped leaves the live token in the file, and after a rotate with no open shell,
  whatever died half way before.
- `operations`, unseal.  `NilMeansUnsealed`: a clean run that returned nil left every
  pod it listed unsealed.
- `operations`, kubeconfig.  `FileHoldsTogether`: every reference in a file that parses
  resolves.  `ContextKeepsIdentity`: a context's server and realm are those of its
  name.

- `screens`, install.  `ScreenTellsTruth`: however far the screen lagged, the finished
  checklist shows of each milestone the last thing the engine reported; no row runs on
  after the end and after a success none is pending, on every path of the engine, the
  skipped and the failed ones included.  `ReconcileCoversGpu`: a reconcile shown as done
  has waited for every GPU layer, however the Kustomizations flapped.
  `NilMeansInstalled`: nil only of an install whose gates all passed, unless it was
  SIGTERM that ended it (section 6).  `EndIsShown` (liveness): an engine that returned is
  seen to have, over a full channel too.
- `screens`, alerts.  `ForwardIsOwned`: two reconnects never pass each other.
  `ForwardComesBack` (liveness): a forward that died comes back without a key, so no flag
  that keeps ticks from starting work outlives that work.
- `fleet`.  `ArmedByThisPanel`: the selection is in the list, over lists that grow and
  shrink between two keys, and what one press would run was armed by a press on the panel
  that is open.  `StatusCatchesUp` (liveness): while the
  tab stays active the screen shows, for good at last, what is there, although old probes
  answer after new ones.

The passing runs check the liveness properties, which are beyond TLAPS, and of what it has
proved the properties that matter most: an instance where they hold with every action
taken is also evidence that the theorems are not about nothing.  The type invariants of
all modules, and `EarlierDumpsSurvive` (no step touches another ceremony's dump),
`NoRawPayload` (no payload line is sent on the channel), `PreservedFileExists`,
`ExitIsFinal`, `SharesInStep`, `RolesBeforeStamp`, `RemovalKeepsQuorum` and
`SuccessLeavesNoResidue` (the step that puts an artifact in place leaves no temporary of
any earlier crash), rest on their proofs alone (section 5).

### Bounds, and why they are enough

- *Shares.*  N=3, T=2 keeps the three cases the code tells apart: below the
  threshold, at it, complete.  The proofs remove the bound.
- *Payloads.*  One for each branch of `loadBufferFromJSON` and `renderSharesYAML`:
  complete, no token, a hole, too short, too long, nothing.
- *Names and runs.*  Two names give "first free", "second free because of an
  earlier vault" and "all taken"; two runs give every re-run after every ending.
- *Runner.*  Capacity one makes every send and every write able to block, which
  the larger real capacities only make rarer; the program has a line of each
  kind; the helper is reachable by the group kill, the daemon is not.
- *Cutover.*  Two nodes give a first and a last, and a done and an undone one; two
  runs give apply after failed apply, rollback after apply, apply after rollback.
- *Starter.*  Two sound artifacts give a mixture, `bare` one that lacks the `.gitignore`
  line, `broken` one that fails its checks; three starts give a failed run, a run over its
  leftovers and a run over what that one left.
- *Review.*  Two invocations give a dry run and the apply of its plan, or an install and a
  re-run over it; two moves give one between them and one within a run, or two within.
  The environment does not move before the first invocation (the initial states cover
  that) nor after the last.
- *Install.*  Two runs give a script of an abandoned run beside the next command, and a
  re-run over every state a first one can leave; two bundles a rotation of the CA and a
  staged file that is not one's own.  Three runs with one bundle hold as well.
- *Auth.*  Three tries give first, middle and last; two rounds give one to retry
  and a last one.

- *Operations.*  Two processes give every pair of steps side by side, two tries or
  runs every re-run after every ending; three control-plane nodes are the smallest
  cluster that tolerates one machine down, and a worker takes the other path; two
  realms give "the only file" and "one of two", two tokens a spent and a newer one;
  three pods give a leader, a middle and a last follower; two domains, Organizations
  and projects give every sharing of a cluster, a user or a domain between contexts.
  Two kubeconfig commands overlap at every pair of steps; a third would need three at
  once, which the proof covers.  Three commands of each break-glass keeper give a use
  before, during and after a rotate that failed.
- *Install screen.*  The five flag sets hold each milestone and each branch of the engine at
  least once.  A channel of one event makes every send able to wait and the cancelled
  one able to drop.
- *Alerts.*  Three ports are the port of a forward that is dying, of its successor and
  one more; two loads answer in both orders.  More loads add answers of the same three
  kinds.
- *Fleet.*  Two clusters give a selected and another one, a list that shrinks to one and
  to none; one change of the world gives a probe from before it and one from after, and
  an enumeration of either list.

Deadlock is checked in `custody`, where a pod restart can always happen.  It is
switched off for `runner` (a script run ends), for `cutover`, `auth_stamp`, `operations` and `remove_names` (commands are started a
bounded number of times, after which nothing need move), and for `screens` and `fleet`,
whose program ends or whose bounded world may come to rest.

## 4. Fairness

`ScriptRunner`, `SealedWrite` and the three screens have liveness properties.

In `ScriptRunner`, `Fairness` is weak fairness of each
goroutine (the two drainers, the callback, supervise), of os/exec's watcher and
of the consumer: the Go scheduler runs a goroutine that can run, timers fire, and
`ScriptRunner`'s contract makes the caller drain the channel (the engines use
`ports.Drain`, the age-key command a `range` over the channel).  Nothing is assumed of processes: a
script or a child may print, stay silent or live for ever.  The operator need
never cancel.  Weak fairness suffices because each goroutine is one sequential
thread: it stays enabled until it moves.

`RunEnds` says that a run whose process tree is gone ends, and that a cancellation seen by
supervise's `select` ends it even with a holder of the pipes that no signal of the code can
reach.

In `operations`, each writer of a sealed artifact is weakly fair: a live process goes
on, and `sops` and the system calls under it return.  A writer may die at any step
(dying is not fair, and a dead writer is out of `lock` too).  Weak fairness is enough
for `CrashNeverWedges` because every holder releases the flock by returning or dying
and the number of tries is bounded, so a waiting writer's step is enabled for good at
last.  Nothing is assumed of starting a command, of Flux, of Keycloak, of pods or
machines.  The other components promise nothing under fairness: each ends
in an error when the world does not move.

In `InstallRun` the screen's handler and the goroutine that sends the last event are
weakly fair: both are goroutines the scheduler runs, and Bubble Tea reads the next event
whenever a `waitForMsg` is outstanding.  The engine's milestones, the operator and the
cluster owe nothing.

In `AlertsScreen` each command and each handler is weakly fair and the 30 s timer fires.
Spawning kubectl and its saying that it forwards are strongly fair, the one thing
assumed of the world: a kubectl that is started again and again is once allowed to
forward.  Without it `ForwardComesBack` cannot hold, and the code claims nothing else;
it retries for ever.

In `FleetScreen` each probe's answer is weakly fair (a probe has a deadline of eight
seconds and its message is handed on) and so is the timer.  Keys and changes are not,
and `StatusCatchesUp` asks for the fleet tab to stay active.

## 5. Proofs

Every safety property that a run checks, invariant or action property, is a theorem, and so
is the type invariant of every component.  `tlapm` proves them for every value of the
constants that satisfies the modules' assumptions:

- sizes and bounds are naturals (a threshold, a channel, the tokens or the loads in flight
  not zero), switches are Booleans, payloads, files and artifacts are of their types, and
  the sets a choice is made from are not empty (`SharesAssumption`, `PayloadsAssumption`,
  `RunnerAssumption`, `CutoverAssumption`, `FoundAssumption`, `ControllerAuthAssumption`,
  `RemoveAssumption`, `UnsealAssumption`, `FleetAssumption`, `GpuAssumption`, `KeeperAssumption`,
  `ReviewAssumption`, `AlertsAssumption`, and `InstallAssumption` of `InstallRun`);
- a word with a meaning of its own is not the name of a thing: not a writer's
  (`SealedAssumption`), an Organization's or a project's (`KubeAssumption`), a realm's
  (`CredAssumption`: `legacy`, `unqualified`, `none`), a version's (`StarterAssumption`:
  `none`, `mine`, `checkout`, `tag`) or a bundle's (`InstallAssumption` of `NodeInstall`:
  `none`).  In the code these are no names at all but a file, a flag or nil;
- the fleet's list, in the order `ListClusters` sorts it, is a sequence of clusters with at
  least one (`FleetScreenAssumption`).

Six theorems carry a hypothesis of their own, named in the table; what each stands for in the
code, and what is lost without it, is said below and in section 6.  TLC evaluates every assumption on every
run of its module.

| Module | Theorem | Property |
|---|---|---|
| `OpenBaoProofs` | `TypeCorrect` | `TypeOK` of `ShareCustody` |
| | `WriteAheadCustody` | `CapturedSharesDurable` |
| | `CustodyFirst` | `CustodyBeforeIrreversible` |
| | `CustodyMessageHolds` | `PreservedFileExists` |
| | `EarlierDumpsKept` | `EarlierDumpsSurvive` |
| | `RootTokenIsRevoked` | `RootTokenRevoked` |
| | `CeremonyKeepsPromise` | `Promise` (refinement of `CustodyPromise`) |
| | `UnsealTypes` | `UnsealTypeOK` |
| | `NilUnsealed` | `NilMeansUnsealed` |
| `ScriptRunnerProofs` | `RunnerTypeCorrect` | `TypeOK` of `ScriptRunner` |
| | `ExitRecordFinal` | `ExitIsFinal` |
| | `CleanExitCaptured` | `CleanExitMeansCaptured` |
| | `RunnerKeepsPromise` | `KeepsPromise` (refinement of `StreamPromise`) |
| | `PayloadNeverSent` | `NoRawPayload`, when `PayloadFramed` |
| `BringUpProofs` | `CutoverTypeCorrect` | `TypeOK` of `OidcCutover` |
| | `RollbackPossible` | `RollbackStaysPossible` |
| | `KubeconfigBeforeFlag` | `KubeconfigFirst` |
| | `WiredNodesServe` | `WiredIsServing` |
| | `NodeTypesKept` | `NodeTypeOK` |
| | `NodeWebhookKept` | `WebhookKept` |
| | `NodeInstalled` | `InstalledIsReady` |
| | `ReviewTypesKept` | `ReviewTypeOK` |
| | `ReviewApplied` | `ReviewedIsApplied` (action property) |
| | `ReviewLands` | `FluxLandsAsPlanned` (action property) |
| `FleetProofs` | `SealedTypes` | `SealedTypeOK` |
| | `LiveTempSafe` | `LiveTempIsSafe` |
| | `MarkerSealed` | `MarkerMeansSealed` |
| | `NoResidue` | `SuccessLeavesNoResidue` |
| | `FleetTypes` | `FleetTypeOK` |
| | `FluxIsBehind` | `FluxHasOverlay` |
| | `PlaintextStaysOut` | `NoPlaintextCommitted` |
| | `FailureIsUndone` | `FailedApplyMovesNothing` (action property) |
| | `WorkIsKept` | `OthersWorkKept` (action property) |
| | `StarterTypesKept` | `StarterTypeOK` |
| | `StarterWhole` | `StarterIsWhole` |
| | `StarterKeyStays` | `KeyNeverCommitted` |
| `OperationsProofs` | `AuthTypeCorrect` | `AuthTypeOK` |
| | `SharesStayInStep` | `SharesInStep` |
| | `StampAfterRoles` | `RolesBeforeStamp`, when `"role" \in Checked` |
| | `TokenIsAccounted` | `TokenAccounted` |
| | `RemoveTypes` | `RemoveTypeOK`, when `NameExtends = {}` |
| | `NoMemberStranded` | `NoStrandedMember`, when `NameExtends = {}` |
| | `QuorumKept` | `RemovalKeepsQuorum`, when `NameExtends = {}` |
| | `GpuTypesKept` | `GpuTypeOK` |
| | `GpuSettles` | `SchedulableIsSettled` |
| | `BreakTypesKept` | `BreakTypeOK` |
| | `BreakTakesHold` | `RotationTakesHold` (action property) |
| `AccessProofs` | `KubeTypes` | `KubeTypeOK` |
| | `FileSound` | `FileHoldsTogether` |
| | `IdentityKept` | `ContextKeepsIdentity` |
| | `CredTypes` | `CredTypeOK` |
| | `CredQualified` | `QualifiedIsRight` |
| | `CredSpent` | `SpentIsReplaced` |
| | `CredLogout` | `LogoutIsComplete` |
| `InstallRunProofs` | `InstallTypesKept` | `InstallTypeOK` |
| | `ChecklistIsTrue` | `ScreenTellsTruth` |
| | `ReconcileWaits` | `ReconcileCoversGpu` |
| | `NilIsInstalled` | `NilMeansInstalled`, when `"SIGTERM" \notin Signals` |
| `ScreenProofs` | `AlertsTypesKept` | `AlertsTypeOK` |
| | `ForwardKept` | `ForwardIsOwned` |
| | `ListTypesKept` | `ListTypeOK` |
| | `PanelArmed` | `ArmedByThisPanel` |

*Custody.*  `CapturedSharesDurable` is not inductive: that removing the dump is
harmless depends on the commit being complete, which depends on the tree being
complete, which depends on the loop over the shares and on the buffer.
`CustodyInv` says so label by label: `RepoInv` (remote within HEAD within tree, so
a checkout loses nothing committed), `BirthInv` (no share before the vault, one
vault), `ProgressInv` (each place is complete before the run goes on), `DumpInv`
(the dump of this run stays ours until `dropDump`).  The refinement needs the
invariant for one step only: that `Durable` never shrinks.

*Script runner.*  Three invariants, each relating the drainer's position and the
sentinel's state to supervise's label.  `FinalInv`: past `wait` the drainers are done or
abandoned, so that only supervise sends.  `CaptureInv`: a block that was opened is on its
way (in the pipe, in the drainer, in the callback), captured, or a sentinel error on
record, and once the error could still be missed the drainer is done and the error is in
the slot that `Settle` reads; an abandoned drainer implies a cancellation.  `CleanInv`
then follows at `SendExit`, and stays, since an exit record in the channel means a dead
script that opens no further block.  The refinement of `StreamPromise` adds `ReportInv`: what
the drainer deals with was begun, there is one exit record at most, in the channel or with
the consumer, and one of 0 is of a run that was not abandoned, since only a cancelled run is
and `ExitCode` is then 130 or 1.  `SecretInv`: every payload line in the pipe will
meet the drainer inside a block.  `PayloadFramed` is what `openbao-init.sh` promises and
`MCProgram` satisfies: payload only between BEGIN and END, of a kind that has markers.

*Cutover.*  `CutoverInv` adds to the three properties what the command knows at
each label: `ModeInv` (only an apply run writes, only a rollback restores),
`OrderInv` (the node in hand is still to do, what is wired is not), `SnapInv` (a
snapshot without the flag is there before the file changes), `PreflightInv` (what
pre-flight saw stays so, since kubeconfigs are only added).

*Controller auth.*  The invariant ties the ceremony's progress to the share loop
and the attempt counter to its label, and ties the stamp to the role write.
`StampAfterRoles` assumes `"role" \in Checked`, which is how
`adapters/openbao/client.go` wraps that write; `auth_stamp` shows why the same
cannot be said of the other three.

*Sealed writer.*  The invariant adds `LockHeld` (a writer inside
`sopsEncryptToFile` holds the lock), `Solo` (between create and rename the only
temporary is the holder's own, because its sweep succeeded, and it is sealed once
verified) and `Settles` (past `patch` the artifact is sealed, past `write` the overlay
is patched, and neither is taken back).  Without `Solo` neither the safety of a live temporary nor the absence of residue
at the rename follows.

*Node removal.*  `RightMember`: the member found is the target's own.  `MemberGone`:
past the removal, and for ever after since nothing adds members, the target is no
member.  So the step that deletes strands nobody, and the
tear-down stops a machine whose etcd no longer counts; the removal itself is guarded
by etcd.  The theorems assume that no node's name is another's followed by a dash;
`remove_names` shows why.

*Unseal.*  `Progressed(u)` for each clean run: the pods before the one in hand that it
listed are unsealed, and the pod in hand is, or holds at least the shares this run has
given it.  Other runs may add shares or open the pod, never take one away, and a
restart ends cleanness.

*Kubeconfig.*  The properties speak of the file; commands write copies they loaded
earlier, so the invariant is about every configuration in the file and in every
command's hands: each is `Sound`, that is, clusters are named by their server's domain,
users other than fetched ones by their realm, and contexts refer to the entries of their own name, which are
there.  `Sound` is kept by each of the code's transformations of a configuration, so
the interleaving does not matter: a lost update loses entries, never their coherence.

*Node install.*  `BlockHeld`: on a server that was cut over, the flag is in `config.yaml` or
in the hands of a script about to re-append it, and a script about to write has seen it; the
script that is overtaken is what `torn` records.  `OneScript`: a run that began alone has
one script at most, its own.  `RunProgress`: that script has, at each of its labels, done
what the labels before it do (anchor, store, file, start), so the service has read what is
on disk when the run reports success.

*Plan review.*  `ReviewKept`: an intact plan file is the reviewed plan, and what an apply
has loaded stays so; revisions only grow.  That gives `ReviewedIsApplied`, step by step.
`ContextKept` is about the world instead: unless something moved since the run looked, the
context is the run's own, or there is none, and its mode is the planned one.

*Fleet clone.*  `HeadOK` says of each label that HEAD is where the run found it, or one
commit of its own further (`OwnHead`), `TreeOK` which work may be in the tree, and
`OverlayOK` where the overlay and the TLS material have got to.  A failed run then has at most its own commit
to take back, which is why `ResetHard` to the noted HEAD loses nothing of others.  The two
action properties need one more fact: a step that starts a command is not one of a command
under way.  The proof is about any history, as a sequence of commits, not about the length
a run reaches.

*Starter.*  `Promoted`: entries come one after another from one verified pull, into a
directory that had no starter tree, so what is before the next entry is its artifact's and
what is behind it is missing; whatever a kill leaves is either incomplete, which
`ShapePresent` sees, or whole.  `KeyKept`: the key is younger than the first commit, and a
later commit goes through the gate that sees whether git ignores it.

*GPU.*  `Agrees` relates five things: the mode at the clone's HEAD and at the remote, the
mode the run noted, the node, and the run's label.  A node behind the clone is cordoned and
still labelled as published; a schedulable one is settled; past the recheck the node is
cordoned until the uncordon.  After a push whose answer was lost nobody knows the published
mode, and the invariant, like the property, is silent (`lost`).  Histories enter by
the last commit that holds a mode only (`EndsIn`, `ModeIsLast`).

*Break-glass.*  No token is newer than the controller's last (`TokensMinted`).  A
rotation nobody is beside has, past its deletion of the Secret, either no token to read or one
that is in no file and no shell (`Reached`).

*Credentials.*  The three properties need one fact about rotation: a token that a refresh
brought and no file holds yet is in no other hands (`Alone`), so it cannot be spent
before it is saved.  A spent token in a file then has its successor in the hands of a
command about to save it, or one that was lost (`OnItsWay`).

*Install screen.*  The engine is a program of instructions, a sequence that the code's
branches cut and extend, and the invariant is about what is left of it.  `Closed`: what is
started is ended later.  `Ended`: the milestones it still ends.  `Ordered`: behind the fetch
of the kubeconfig, and behind the watch, only certain milestones come, so that cutting there skips
no other.  `ProgramOK` ties the three to what was reported: a milestone that is pending or
running is still ended by the program, and reconcile is done only when every GPU layer was
seen.  Lemmas say how each of them fares when programs are joined (`JoinClosed`,
`JoinOrdered`, `PieceJoin`) and when the first instruction is done (`TailKeeps`, `Advance`);
`InstallIs` then shows that the install of every set of flags ends its whole plan.  The
screen's half is `EventsOK`: of every milestone the last event in the channel, or the row if
there is none, is what was reported last.  When `finishedMsg` arrives the channel is
empty, and what the rows show is the engine's own account (`Final`).  `NilIsInstalled` needs
that no SIGTERM comes: Bubble Tea makes of it an end without an error (section 6).

*Alerts.*  At most one reconnect is under way, and the flag tells: no two can pass each other,
and between one's stop and its start no kubectl of the screen is alive.

*Fleet screen.*  Each key that opens or closes a panel disarms it, and every list that
arrives brings the selection back into it.  That what arrives is a list of clusters at all
(`ListedType`) is a fact about the recursive function `Listed` walks the fleet with; that
such a function exists (`FoundExists`) and what it returns are both proved by induction over
its index (`SetInduction`).

*What the proofs changed in the models.*  `CASE` with two guards that both hold has no
determined value in TLA+, though TLC takes the first: the proofs of `PlanReview` and
`InstallRun` failed where the code's `switch` relies on the order of its cases, and those
expressions are `IF`s now.  The three assumptions on words above, and the fleet's list in its
sorted order (`Listed`), were implicit in the instances before.

*Only model-checked*: the liveness properties `RunEnds`, `CrashNeverWedges`, `EndIsShown`,
`ForwardComesBack` and `StatusCatchesUp`, which need fairness and ENABLED, and the refuted
statements of section 6.  No module uses RECURSIVE operators.  The library's induction
theorems take an operator as their argument, which the provers here cannot instantiate;
where induction is needed it is over a set of naturals (`SetInduction` in `ScreenProofs`,
from the well-foundedness of `<`), or avoided by invariants over positions.

## 6. Findings

Each is a run that TLC must find violated; `PROJECT.json` quotes the lines.

- `ResumeReachesReady` (`openbao/init.go:507`).  After a failure in Phase C the
  comment and the message send the operator to `setup-controller-auth` and
  `unseal`, which "resume from where init's Phase C left off".  Neither writes
  `openbao-bootstrap-finalized`, so status never becomes `FullyReady`.
- `CancelCloses` (`adapters/script/runner.go:353`).  The sentinel branch waits for
  the drainers without looking at the context; a child that keeps the pipe and
  ignores SIGTERM holds the channel open for ever.
- `NoSendAfterClose` (`adapters/script/runner.go:378`).  When the pipes are still
  held after the group SIGKILL, supervise closes the channel with drainers alive;
  one that is blocked in a send panics.
- `AlreadyWiredIsLive` (`oidccutover/run.go:101`).  A run that stops between the
  file and the restart leaves a node every re-run skips as finished, with an
  apiserver that never read the flag.
- `StampIsTruthful` (`adapters/openbao/client.go:850`).  Three write wrappers and
  the revoke's print the success sentinel whatever `bao` said; controller auth is
  stamped installed with a write missing.

- `NoStrandedMember` (`noderemove/remove.go:274`).  The member is found by the prefix
  `<node>-`, so removing `cp` beside `cp-b` may take the wrong member, delete `cp` and
  leave its own member stranded, which the package says cannot happen.

Met while modelling, each visible in the definitions of the models but stated by no run:

- *Fleet clone.*  A push whose answer is lost leaves the remote with the commit the
  rollback removes, against "Remote is untouched" (`clusterinit/apply.go:41,52`).  A
  killed scaffold leaves a dirty tree that the next run's gate refuses.  The registry
  secret is outside the cluster directory and survives the clean-up of a failed
  scaffold; `RemoveAll` also deletes committed files the operator had placed there.
  A Keycloak re-run after a kill between commit and push finds HEAD unmoved, reports
  success and pushes nothing.  A GPU resume after the same kill waits for labels of a
  mode nobody published.
- *Starter.*  The check that `.gitignore` excludes `age.key`
  (`clusterinit/starter.go:322`) comes when the trees are in place; after it failed, the
  re-run finds the shape, skips it and generates the key in a directory that does not
  ignore it, and only the clean-tree gate keeps the key from a commit.  Where the shape is
  incomplete, entries with the starter's names are removed as leftovers
  (`starterOwnedEntries`), an operator's own `scripts/` included, against "refused loudly"
  (40-42).  A kill between the age key and the commit of `.sops.yaml` trips the clean-tree
  gate at every retry until somebody commits by hand; one after the promotion loses the
  record of the ref the tree came from.
- *Plan review.*  `--apply-plan` onto a resumed overlay writes the TLS material only
  (`clusterinit/apply.go:388`): the reviewed pins and CA are not applied, although the
  command says "applying plan verbatim" (`cmd/kube-dc/bootstrap_init.go:940`), and a
  starter that is there is kept whatever version the plan pins.  The wizard builds its plan
  again after the confirmation, where `clusterinit/plan.go:245-248` says that `BuildPlan`
  is called once and reused.  Without `--ssh-host` nobody checks which cluster the current
  context names before `flux-install.sh` runs.  `NoPush` is said to be left out of the
  input hash (`plan.go:402-405`) and is in it (663), so a plan reviewed with one setting
  cannot be applied with the other.  The consent cache of `--no-tty` (`options.go:645-650`)
  is written and never looked up outside tests.
- *GPU.*  A rule in `pod-hami-dra` mode is unreadable to `locateNodeRule`
  (`gputransition/nodefeature.go:106`), so a DRA node can be entered but not left, or
  resumed, by this command.
- *Node removal.*  A re-run after the member is gone stops at `ErrEtcdMemberMissing`.
- *OpenBao.*  `unseal` returns nil when the transport drops a share; an
  uninitialised pod 0 makes every run fail.  A lost answer of the threshold share
  in `generate-root` leaves a live root token nobody holds.
- *Cutover.*  After a failure at the first node the summary says no node was
  changed (`cmd/kube-dc/bootstrap_oidc_cutover.go:224`), though its file or apiserver
  may be.
- *RKE2 install.*  A unit that is still activating, or whose probe was lost (`rke2/join.go:261`
  drops the error, so the error path of `rke2/install.go:277` is dead), is not restarted:
  the run reports success with a config the service never read, where 337-338 say that its
  "first start already loaded the new config".  After a restart call that was
  lost under `--force`, a re-run without it says "already active — nothing to do".  The VM gate looks
  once, minutes before the restart.  A kill between an anchor and
  `update-ca-certificates` leaves a node where every re-run fails at the verification,
  since an unchanged anchor never rebuilds the store (`rke2/install-server.sh:405`).  A kill
  between `config.yaml` and its re-appended block (562-692), or a script of an abandoned
  run in that window, loses the webhook flag for good; the next run finds nothing to
  preserve, against "OIDC cutover survives this re-install" (693).
- *Break-glass.*  `Rotate` has no kubectl-context fallback (`breakglass/breakglass.go:347`),
  unlike `Adopt` (187), and writes an empty server when neither the flag nor
  `KUBE_API_EXTERNAL_URL` is set.  Overlapping commands may leave a dead token in the file.
  A killed process leaves its `bg-encrypt-*` temporary, or the session's kubeconfig, behind
  in the clear: both are removed by `defer`, which a signal does not run, against "shell exit OR
  signal" (238).
- *Script runner.*  A line over 1 MiB ends the plain drainer (`runner.go:448`); the
  script then blocks on a full pipe.
- *Credentials.*  `Load` answers an unqualified call from the only realm file
  (`credentials.go:79-85`), where its comment (59-63) and `exec.go:106-108` say it fails
  closed.  A record loaded from the legacy file is saved to its realm's file, so the
  legacy file goes stale, against 217-220.  A refresh beside a logout brings the
  credentials back; `logout --all` skips servers none of whose files parses.  A write
  that breaks off leaves a file that no call accepts.
- *Kubeconfig.*  Every save by the manager drops client certificates, tokens and unknown
  fields of entries that are not kube-dc's (`manager.go:57`), against "preserves all
  non-Kube-DC entries" (139).  `RemoveKubeDCContexts` takes a server but removes every
  server's contexts and tenant users (385), and leaves admin users and other servers'
  clusters behind.  Overlapping commands lose each other's updates, and a file caught
  truncated reads as an empty configuration.  `ns` writes to whichever context is
  current after its round trip.  A `KUBECONFIG` of several files is one path to the
  manager and a list to its neighbours.
- *OpenBao initialisation.*  A failed write-ahead dump does not stop the ceremony, but
  makes every later custody error say the vault "is unrecoverable and must be re-created"
  (`openbao/init.go:375-379`), with all shares encrypted in the tree.
- *Install screen.*  The program is created without `tea.WithoutSignalHandler`, so on
  SIGTERM Bubble Tea ends it without an error and `RunWithOptions` returns nil of an
  install that is still running (`tui/screens/installrun/installrun.go:101-126`), against
  "returns the engine's error" (65-68); with SIGTERM in `Signals`, `NilMeansInstalled`
  fails.  A signal closes the transcript under the engine that writes to it.  Apply
  reports the ingress-nodes milestone (`clusterinit/apply.go:256-299`), which
  `InstallSteps` never announces, so the checklist drops it, a failure included, against
  "the full ordered milestone set" (`clusterinit/reporter.go:17-18`).
- *Alerts screen.*  An operator who leaves while a reconnect is between `Stop` and `Start`
  (`internal/alerts/tui/model.go:208`) leaves a kubectl that nobody stops.
- *Fleet screen.*  The fleet tab's messages go to the tab that is active
  (`tui/screens/root.go:214`): a list that arrives behind the Contexts tab, where
  `bootstrap context` starts, leaves the tab loading, and a tick that does ends the
  refresh, against "keeps the inactive tab 'warm'" (117-119).  With the drift panel of one
  cluster open and another one selected, the first `R` arms the reconcile without drawing
  the warning (`tui/screens/fleet.go:417-424`, 699).
- *Contexts screen.*  `deleteSelected` (`tui/screens/context.go:545-565`) removes whichever
  context is selected, against "never modifies external contexts"
  (`cmd/kube-dc/bootstrap_context.go:37-39`).

## 7. What is not modelled

- Within the modelled components: the wording of output; `--rollback --dry-run`,
  which only prints; process handling on Windows (`procgroup_windows.go`); a second
  operator running the same ceremony at once.  Shell scripts, `sops`, `git` and `bao`
  are their outcomes.
- Two commands at the same moment inside one fleet clone: `FleetApply` lets them take
  turns, and `openbao init` is one step there.  No lock of the code keeps an overlap
  out; what it would lose is whatever a `ResetHard` or a commit of everything takes.
- The text of the overlays and of `config.yaml`: patching is a flag
  (`SealedWrite`) or a set of flags (`OidcCutover`).  `dns01.go` writes as
  `wildcardtls.go` does and has no module of its own.
- Of the starter and the age key: how the key's path is resolved, `--create-repo`, and
  what the artifact holds beyond its top-level entries.  Of the plan review: the presets and
  the options themselves (data and validation of single values), and the consent marker.
- Of the install: two commands at one node at the same moment (their scripts are in the
  model), the sizing of the kubelet, DNS, registries.yaml, the reading of the join token,
  bundles of several certificates.  Of break-glass: the server a kubeconfig names, the
  temporaries, clones that are not in step.
- `gpuupgrade` and `gpudra`: computations of versions and manifests.
- The names that `bootstrap kubeconfig` gives (the fleet's, not the domain's), the
  browser flow of login and the parsing of tokens.
- `generate-root` and `reveal` as commands: straight sequences around what
  `ControllerAuth` models of the adapter.
- Of the screens: drawing and wording; the contexts screen's list and the New Cluster
  form; quitting the fleet screen.  A probe is one step with its reading of the cluster
  (one that reads late is one that starts late).  The rows of an aborted install are not
  followed.
- Components that are pure I/O, rendering, single-call wrappers, data or
  scaffolding: listed in `PROJECT.json` with the reason.  These are most of the
  repository's lines: presets and options of `bootstrap init`, how the terminal
  interface draws, discovery and its reports.

## 8. Plan

Done: `ShareCustody` over `CustodyPromise`, `ScriptRunner` over `StreamPromise`, `OidcCutover`,
`ControllerAuth`; `FleetApply`, `SealedWrite`, `GpuTransition`, `NodeRemove`,
`CredentialCache`, `PodUnseal`, `Kubeconfig`; `FleetStarter`, `PlanReview`, `NodeInstall`,
`BreakGlass`; `InstallRun`, `AlertsScreen`, `FleetScreen`; proofs of every safety property
and type invariant of all of them.

Next, model:

1. Two commands inside the fleet clone at once, composing `FleetApply`'s steps with the
   git steps of `ShareCustody`; property: which of the other's work survives.
2. `generate-root` and `reveal`, with the audit write that fails after the ceremony.
3. `PatchConfig` as a function on lines, checked against the set of flags that
   `OidcCutover` uses; at most one apiserver down at a time across runs.
4. The names of `bootstrap kubeconfig` and how the exec plugin and `secrets.go` read a
   realm out of a context's name.
5. The contexts screen: its list beside the kubeconfig that other commands rewrite
   (`Kubeconfig`).

Then prove:

1. A specification of the stamp alone ("installed implies written, once") that
   `ControllerAuth` with all writes checked implements.
2. A specification of the fleet repository alone ("published work only grows, and Flux
   follows the overlay") that `FleetApply` implements, on the invariant it has.
3. What a checklist promises, as a state machine of rows, and `InstallRun` as its
   implementation.
