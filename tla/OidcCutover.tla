------------------------------ MODULE OidcCutover ------------------------------
(*****************************************************************************)
(* `kube-dc bootstrap oidc-cutover`: pointing every control-plane apiserver  *)
(* at the OIDC webhook, one node at a time over SSH, its --rollback, and its *)
(* re-runs (cli/internal/bootstrap/oidccutover and the command around it).   *)
(*                                                                           *)
(* A node's /etc/rancher/rke2/config.yaml is the set of flags that matter:   *)
(* the two the command owns ("webhook", "ttl"), the retired one it removes   *)
(* ("legacy"), one of the operator's own ("audit"), and "malformed" for a    *)
(* file PatchConfig refuses.  What the RUNNING apiserver carries is a state  *)
(* of its own: it changes only when the apiserver comes back from a restart. *)
(*                                                                           *)
(* Any remote call may fail, with or without having taken effect, and the    *)
(* command may be killed between two calls.  Around it an operator edits the *)
(* files, the authenticator's init container writes the webhook kubeconfigs  *)
(* and other workloads take port 6443.  Apiservers stop only when restarted, *)
(* and a restart has stopped the old one before /readyz is polled.           *)
(*****************************************************************************)
EXTENDS Integers

CONSTANTS
  NumNodes,      \* control-plane nodes, in the order the command visits them
  MaxRuns,       \* bound: how many times the command is started
  MaxEdits,      \* bound: how many edits the operator makes
  Found,         \* the files the nodes may start with
  AllowPartial,  \* the operator may name fewer nodes than there are
  FlagsMayDrop   \* RKE2 may silently ignore the flag in the file

ASSUME CutoverAssumption == /\ NumNodes \in Nat \ {0}
                            /\ MaxRuns \in Nat /\ MaxEdits \in Nat
                            /\ AllowPartial \in BOOLEAN /\ FlagsMayDrop \in BOOLEAN

Node == 1..NumNodes
NoNode == 0
Flags == {"webhook", "ttl", "legacy", "audit", "malformed"}
Managed == {"webhook", "ttl"}
File == SUBSET Flags

ASSUME FoundAssumption == Found \subseteq File

\* A backup file: absent, or a copy of a config.yaml.
NoSnapshot == [taken |-> FALSE, file |-> {}]
Snapshot == [taken : BOOLEAN, file : File]

Modes == {"apply", "dryRun", "rollback"}
Labels == {"idle", "preflight", "fetch", "port", "snapshot", "put", "restart",
           "ready", "verify", "restore"}
AtNode == {"port", "snapshot", "put", "restart", "ready", "verify"}

VARIABLES
  file, snap,         \* node -> config.yaml, and config.yaml.pre-oidc
  up, live,           \* nodes whose apiserver serves; those carrying the flag
  kubeconfig,         \* nodes with the authenticator's webhook kubeconfig
  foreign,            \* nodes where another process holds :6443
  found,              \* node -> the file before any command (never changes)
  pc, mode, todo, cur, body,    \* the running command
  wired, already,               \* its Result
  report,                       \* how the last command ended
  runs, edits

nodes == <<file, snap, up, live>>
env == <<kubeconfig, foreign, found, edits>>
result == <<wired, already>>
vars == <<nodes, env, pc, mode, todo, cur, body, result, report, runs>>

TypeOK ==
  /\ file \in [Node -> File] /\ snap \in [Node -> Snapshot] /\ found \in [Node -> File]
  /\ up \subseteq Node /\ live \subseteq Node
  /\ kubeconfig \subseteq Node /\ foreign \subseteq Node
  /\ pc \in Labels /\ mode \in Modes
  /\ todo \subseteq Node /\ cur \in Node \cup {NoNode} /\ body \in File
  /\ pc \in AtNode => cur \in Node
  /\ wired \subseteq Node /\ already \subseteq Node
  /\ report \in {"none", "refused", "failed", "ok", "killed"}
  /\ runs \in 0..MaxRuns /\ edits \in 0..MaxEdits

Init ==
  /\ found \in [Node -> Found] /\ file = found
  /\ snap = [n \in Node |-> NoSnapshot]
  /\ up = Node /\ live = {n \in Node : "webhook" \in file[n]}
  /\ kubeconfig \in SUBSET Node /\ foreign \in SUBSET Node
  /\ pc = "idle" /\ mode = "apply" /\ todo = {} /\ cur = NoNode /\ body = {}
  /\ wired = {} /\ already = {} /\ report = "none"
  /\ runs = 0 /\ edits = 0

-----------------------------------------------------------------------------
\* PatchConfig: the managed flags exactly once, the retired one gone, the rest
\* as it was.
Patched(f) == (f \ {"legacy"}) \cup Managed
IsFirst(n, S) == n \in S /\ \A m \in S : n <= m

Return(r) == pc' = "idle" /\ report' = r /\ UNCHANGED <<mode, todo, cur, body, result, runs>>
Goto(label) == pc' = label /\ UNCHANGED <<mode, todo, cur, body, result, report, runs>>

\* The loop's `continue` or its last statement: the next node, or the end.
NextNode ==
  /\ todo' = todo \ {cur}
  /\ IF todo' = {} THEN pc' = "idle" /\ report' = "ok"
                   ELSE pc' = (IF mode = "rollback" THEN "restore" ELSE "fetch")
                        /\ UNCHANGED report
  /\ UNCHANGED <<mode, body, runs>>

\* resolveCutoverNodes: the whole control plane, or the hosts the operator named
\* (fewer with --allow-partial, or when the cluster cannot be asked).
Start ==
  /\ pc = "idle" /\ runs < MaxRuns
  /\ runs' = runs + 1
  /\ mode' \in Modes
  /\ todo' \in IF AllowPartial THEN SUBSET Node \ {{}} ELSE {Node}
  /\ cur' = NoNode /\ body' = {} /\ wired' = {} /\ already' = {}
  /\ pc' = (IF mode' = "rollback" THEN "restore" ELSE "preflight")
  /\ report' = "none"
  /\ UNCHANGED <<nodes, env>>

\* Mutant: the kubeconfig is looked for on the first node only.
PreflightFirstNodeOnly ==
  /\ pc = "preflight" /\ \E n \in todo : IsFirst(n, todo) /\ n \in kubeconfig
  /\ Goto("fetch")
  /\ UNCHANGED <<nodes, env>>

\* preflight: the authenticator's pods are listed (an error listing them is a
\* warning) and EVERY target has the webhook kubeconfig.
PreflightPasses ==
  /\ pc = "preflight" /\ todo \subseteq kubeconfig
  /\ Goto("fetch")
  /\ UNCHANGED <<nodes, env>>

PreflightRefuses ==
  /\ pc = "preflight"
  /\ Return("refused")
  /\ UNCHANGED <<nodes, env>>

\* Fetch the file and patch the copy; nothing to change means nothing is done.
FetchNode ==
  /\ pc = "fetch"
  /\ \E n \in todo :
       /\ IsFirst(n, todo) /\ "malformed" \notin file[n]
       /\ cur' = n /\ body' = file[n]
  /\ pc' = "port"
  /\ body' # Patched(body')
  /\ UNCHANGED <<nodes, env, mode, todo, result, report, runs>>

AlreadyWired ==
  /\ pc = "fetch"
  /\ \E n \in todo :
       /\ IsFirst(n, todo) /\ "malformed" \notin file[n] /\ file[n] = Patched(file[n])
       /\ already' = already \cup {n}
       /\ todo' = todo \ {n} /\ cur' = n
  /\ IF todo' = {} THEN pc' = "idle" /\ report' = "ok" ELSE UNCHANGED <<pc, report>>
  /\ UNCHANGED <<nodes, env, mode, body, wired, runs>>

\* foreignPortOwner: refuse when another process is on :6443; a dry run ends here.
PortFree ==
  /\ pc = "port" /\ cur \notin foreign
  /\ \/ mode = "apply" /\ Goto("snapshot")
     \/ mode = "dryRun" /\ wired' = wired \cup {cur} /\ NextNode /\ UNCHANGED <<cur, already>>
  /\ UNCHANGED <<nodes, env>>

\* Mutant: `cp` without -n.
TakeSnapshotClobbers ==
  /\ pc = "snapshot"
  /\ snap' = [snap EXCEPT ![cur] = [taken |-> TRUE, file |-> file[cur]]]
  /\ Goto("put")
  /\ UNCHANGED <<file, up, live, env>>

\* `cp -n`: the file as it is NOW, unless there is a snapshot already.
TakeSnapshot ==
  /\ pc = "snapshot"
  /\ snap' = IF snap[cur].taken THEN snap
             ELSE [snap EXCEPT ![cur] = [taken |-> TRUE, file |-> file[cur]]]
  /\ Goto("put")
  /\ UNCHANGED <<file, up, live, env>>

\* SSH.Put writes the patched copy over whatever the file has become.
PutConfig ==
  /\ pc = "put"
  /\ file' = [file EXCEPT ![cur] = Patched(body)]
  /\ Goto("restart")
  /\ UNCHANGED <<snap, up, live, env>>

\* `systemctl restart rke2-server`: the apiserver is gone until it comes back.
RestartNode ==
  /\ pc = "restart"
  /\ up' = up \ {cur}
  /\ Goto("ready")
  /\ UNCHANGED <<file, snap, live, env>>

\* waitAPIServerReady: /readyz answered "ok" on the node.
NodeReady ==
  /\ pc = "ready" /\ cur \in up
  /\ \/ mode = "apply" /\ Goto("verify")
     \/ mode = "rollback" /\ NextNode /\ UNCHANGED <<cur, result>>
  /\ UNCHANGED <<nodes, env>>

\* Mutant: the flag is looked for in the file.
VerifyFlagInFile ==
  /\ pc = "verify" /\ "webhook" \in file[cur]
  /\ wired' = wired \cup {cur}
  /\ NextNode
  /\ UNCHANGED <<nodes, env, cur, already>>

\* verifyFlagLive: the running process carries the flag.
VerifyFlag ==
  /\ pc = "verify" /\ cur \in live
  /\ wired' = wired \cup {cur}
  /\ NextNode
  /\ UNCHANGED <<nodes, env, cur, already>>

\* rollback: the snapshot over the file, a restart, the wait; nodes in the same
\* order as the cutover.
RestoreSnapshot ==
  /\ pc = "restore"
  /\ \E n \in todo :
       /\ IsFirst(n, todo) /\ snap[n].taken
       /\ file' = [file EXCEPT ![n] = snap[n].file]
       /\ cur' = n
  /\ pc' = "restart"
  /\ UNCHANGED <<snap, up, live, env, mode, todo, body, result, report, runs>>

\* A refusal, an unreachable node, a timeout, a failed check: the first one ends
\* the command.  The failing call may have taken effect.
StepFails ==
  /\ pc \notin {"idle", "preflight"}
  /\ \/ UNCHANGED nodes
     \/ /\ pc = "snapshot" /\ ~snap[cur].taken
        /\ snap' = [snap EXCEPT ![cur] = [taken |-> TRUE, file |-> file[cur]]]
        /\ UNCHANGED <<file, up, live>>
     \/ /\ pc = "put"
        /\ file' = [file EXCEPT ![cur] = Patched(body)]
        /\ UNCHANGED <<snap, up, live>>
     \/ /\ pc = "restart"
        /\ up' = up \ {cur}
        /\ UNCHANGED <<file, snap, live>>
     \/ /\ pc = "restore"
        /\ \E n \in todo : /\ IsFirst(n, todo) /\ snap[n].taken
                          /\ file' = [file EXCEPT ![n] = snap[n].file]
        /\ UNCHANGED <<snap, up, live>>
  /\ Return("failed")
  /\ UNCHANGED env

Kill ==
  /\ pc # "idle"
  /\ Return("killed")
  /\ UNCHANGED <<nodes, env>>

-----------------------------------------------------------------------------
\* Around the command.

\* A restarted apiserver binds :6443 and reads its file.
ApiserverReturns ==
  /\ \E n \in Node \ (up \cup foreign) :
       /\ up' = up \cup {n}
       /\ live' \in {live \ {n}} \cup
                    (IF "webhook" \in file[n] THEN {live \cup {n}} ELSE {})
       /\ "webhook" \in file[n] /\ ~FlagsMayDrop => n \in live'
  /\ UNCHANGED <<file, snap, env, pc, mode, todo, cur, body, result, report, runs>>

\* The authenticator's init container writes the kubeconfig of one more node.
KubeconfigWritten ==
  /\ \E n \in Node \ kubeconfig : kubeconfig' = kubeconfig \cup {n}
  /\ UNCHANGED <<nodes, foreign, found, edits, pc, mode, todo, cur, body, result, report, runs>>

\* A hostNetwork pod takes or leaves :6443.
PortChangesHands ==
  /\ \E n \in Node : foreign' \in {foreign \cup {n}, foreign \ {n}} \ {foreign}
  /\ UNCHANGED <<nodes, kubeconfig, found, edits, pc, mode, todo, cur, body, result, report, runs>>

\* The operator adds or removes a flag of their own, or drops the cache TTL.
EditFile ==
  /\ edits < MaxEdits /\ edits' = edits + 1
  /\ \E n \in Node, f \in {"audit", "ttl"} :
       /\ f = "ttl" => f \in file[n]
       /\ file' = [file EXCEPT ![n] = IF f \in @ THEN @ \ {f} ELSE @ \cup {f}]
  /\ UNCHANGED <<snap, up, live, kubeconfig, foreign, found, pc, mode, todo, cur, body,
                 result, report, runs>>

Command == \/ Start \/ PreflightPasses \/ PreflightRefuses \/ FetchNode \/ AlreadyWired
           \/ PortFree \/ TakeSnapshot \/ PutConfig \/ RestartNode \/ NodeReady
           \/ VerifyFlag \/ RestoreSnapshot \/ StepFails \/ Kill
World == ApiserverReturns \/ KubeconfigWritten \/ PortChangesHands \/ EditFile

Next == Command \/ World

Spec == Init /\ [][Next]_vars

-----------------------------------------------------------------------------
\* "Never clobber an existing pre-oidc backup ... or the rollback path restores
\* the wrong thing" (Run): however often the command fails, is killed, is re-run
\* or rolled back, a node whose file carries a webhook flag it was not found
\* with has a snapshot without it.
RollbackStaysPossible ==
  \A n \in Node : "webhook" \in file[n] \ found[n] =>
                    snap[n].taken /\ "webhook" \notin snap[n].file

\* "An apiserver configured to call a webhook that does not exist ... rejects
\* EVERY token" (preflight): no file names the webhook before its kubeconfig is
\* on that node, and no apiserver carries the flag without it.
KubeconfigFirst ==
  \A n \in Node : "webhook" \notin found[n] /\ ("webhook" \in file[n] \/ n \in live)
                    => n \in kubeconfig

\* "A node that looks done and still 401s" (verifyFlagLive): a node this command
\* reports as wired is back and its RUNNING apiserver carries the flag, while the
\* command works on the nodes after it.
WiredIsServing == mode = "apply" => wired \subseteq up \cap live

\* "A re-run must skip a finished node" (IsCutOver); the summary of a run that
\* changed nothing says "Nothing to do: all nodes already wired", then logins
\* work: those apiservers run with the flag.
AlreadyWiredIsLive == report = "ok" /\ mode = "apply" => already \subseteq live

-----------------------------------------------------------------------------
\* Why it holds: what the command has established at each label.

BeforePut == {"fetch", "port", "snapshot", "put"}

\* Only an apply run passes the snapshot, and only a rollback restores.
ModeInv == /\ pc \in {"preflight", "verify"} \cup BeforePut => mode # "rollback"
           /\ pc \in {"snapshot", "put", "verify"} => mode = "apply"
           /\ pc = "restore" => mode = "rollback"

\* The node in hand is still to do; what is wired is done.
OrderInv == /\ pc \in AtNode => cur \in todo
            /\ pc # "idle" /\ mode = "apply" => wired \cap todo = {}
            /\ pc = "verify" => cur \in up

\* A snapshot is older than the flag.
SnapInv == /\ \A n \in Node : snap[n].taken /\ "webhook" \notin found[n]
                              => "webhook" \notin snap[n].file
           /\ pc = "put" => snap[cur].taken

\* What preflight saw stays so.
PreflightInv == pc \in BeforePut \cup {"restart", "ready", "verify"} /\ mode # "rollback"
                  => todo \subseteq kubeconfig

CutoverInv == /\ ModeInv /\ OrderInv /\ SnapInv /\ PreflightInv
              /\ RollbackStaysPossible /\ KubeconfigFirst /\ WiredIsServing

=============================================================================
