------------------------------ MODULE FleetApply ------------------------------
(* The commands that write the cluster's overlay into the shared fleet clone:    *)
(* clusterinit/apply.go (Apply), clusterinit/scaffold.go and keycloak/init.go,   *)
(* beside `openbao init` (modelled in ShareCustody, one step here) and the       *)
(* operator's own git.  Commands take turns; a process may die at any step.      *)
(*                                                                               *)
(* Simplifications: a path is one of the few whose fate differs; labelling the   *)
(* ingress nodes touches only the cluster and appears as a step that may fail.   *)
EXTENDS Integers, Sequences, FleetClone
LOCAL INSTANCE SequencesExt

CONSTANT MaxRuns          \* runs of apply and keycloak init together

ASSUME FleetAssumption == MaxRuns \in Nat

VARIABLES clone,          \* the fleet clone and its remote
          cmd,            \* the command: label, options, what it has noted
          runs,           \* commands started
          flux            \* flux-install succeeded

fleetVars == <<clone, cmd, runs, flux>>

\* docs: pre-placed by the operator in clusters/<name>/; plaintext: an unencrypted
\* secrets.enc.yaml or a temporary of one; depot: the registry secret the scaffold
\* writes under platform/, outside clusters/<name>/.
Work == {"docs", "overlay", "plaintext", "tls", "depot", "oidc", "shares", "note"}
ClusterDir == {"docs", "overlay", "plaintext", "tls", "oidc", "shares"}
Others == {"docs", "oidc", "shares", "note"}

CmdLabels == {"ended", "gate", "label", "scaffold", "rest", "cleanup", "rotate",
           "rotateCommit", "commit", "push", "reset", "flux", "script", "compare", "publish"}
CmdResults == {"none", "ok", "refused", "failed", "stuck", "killed"}
Authors == {"operator", "apply", "keycloak", "openbao"}
Commits == [by : Authors, run : 0..MaxRuns, holds : SUBSET Work]

FleetTypeOK ==
  /\ clone \in [tree : SUBSET Work, head : Seq(Commits), remote : Seq(Commits)]
  /\ cmd \in [kind : {"apply", "keycloak"}, at : CmdLabels, noPush : BOOLEAN, tls : BOOLEAN,
              pre : Seq(Commits), resuming : BOOLEAN, rotated : BOOLEAN, result : CmdResults]
  /\ runs \in 0..MaxRuns /\ flux \in BOOLEAN

NoCommand == [kind |-> "apply", at |-> "ended", noPush |-> FALSE, tls |-> FALSE, pre |-> <<>>,
         resuming |-> FALSE, rotated |-> FALSE, result |-> "none"]
Starter == <<[by |-> "operator", run |-> 0, holds |-> {"docs"}]>>

FleetInit ==
  /\ clone = [tree |-> {}, head |-> Starter, remote |-> Starter]
  /\ cmd = NoCommand /\ runs = 0 /\ flux = FALSE

-----------------------------------------------------------------------------
CmdAt(at) == cmd.at = at
CmdGoto(at) == cmd' = [cmd EXCEPT !.at = at]
CmdReturns(result) == cmd' = [cmd EXCEPT !.at = "ended", !.result = result]
CloneKept == UNCHANGED <<clone, runs, flux>>

StartCommand(kind, noPush, tls) ==
  /\ CmdAt("ended") /\ runs < MaxRuns /\ runs' = runs + 1
  /\ cmd' = [NoCommand EXCEPT !.kind = kind, !.noPush = noPush, !.tls = tls, !.pre = clone.head,
                         !.at = IF kind = "apply" THEN "gate" ELSE "script"]
  /\ UNCHANGED <<clone, flux>>

\* Mutant: apply starts over whatever is uncommitted.
GateIgnoresTree ==
  /\ CmdAt("gate")
  /\ CmdGoto("label") \/ CmdReturns("refused")
  /\ CloneKept

\* Phases 1 and 2: HEAD is captured, a dirty tree refused (or the tree unreadable).
Gate ==
  /\ CmdAt("gate")
  /\ (Dirty(clone) = {} /\ CmdGoto("label")) \/ CmdReturns("refused")
  /\ CloneKept

\* Phase 2b, before anything is written; skipped under --no-push.
LabelIngressNodes ==
  /\ CmdAt("label")
  /\ CmdGoto("scaffold") \/ (~cmd.noPush /\ CmdReturns("refused"))
  /\ CloneKept

\* Phase 3 meets the overlay of an earlier run: a different front door is refused,
\* otherwise the run resumes.
ResumeOverlay ==
  /\ CmdAt("scaffold") /\ "overlay" \in Contents(clone)
  /\ \/ cmd' = [cmd EXCEPT !.resuming = TRUE, !.at = IF cmd.tls THEN "rotate" ELSE "push"]
     \/ CmdReturns("refused")
  /\ CloneKept

\* add-cluster.sh writes the overlay, wholly or in part, and without sops leaves
\* the secrets in plaintext; verifySOPSEncrypted then refuses them.
RunAddCluster ==
  /\ CmdAt("scaffold") /\ "overlay" \notin Contents(clone)
  /\ \E wrote \in SUBSET {"overlay", "plaintext"} :
       /\ clone' = [clone EXCEPT !.tree = @ \cup wrote]
       /\ CmdGoto("cleanup") \/ (wrote = {"overlay"} /\ CmdGoto("rest"))
  /\ UNCHANGED <<runs, flux>>

\* The rest of Scaffold: registry secret, TLS material, the other writers.
ScaffoldRest ==
  /\ CmdAt("rest")
  /\ LET wanted == {"depot"} \cup IF cmd.tls THEN {"tls"} ELSE {} IN
     \/ /\ clone' = [clone EXCEPT !.tree = @ \cup (wanted \ InHistory(clone.head))]
        /\ CmdGoto("commit")
     \/ /\ \E wrote \in SUBSET wanted :
             clone' = [clone EXCEPT !.tree = @ \cup (wrote \ InHistory(clone.head))]
        /\ CmdGoto("cleanup")
  /\ UNCHANGED <<runs, flux>>

\* os.RemoveAll(clusterDir): what HEAD holds there becomes a deletion.
RemoveClusterDir ==
  /\ CmdAt("cleanup")
  /\ \/ clone' = [clone EXCEPT !.tree = (@ \ ClusterDir)
                                          \cup (ClusterDir \cap InHistory(clone.head))]
     \/ UNCHANGED clone
  /\ CmdReturns("failed")
  /\ UNCHANGED <<runs, flux>>

\* Phase 3b: the TLS writers on a resumed overlay; unchanged material writes nothing.
RotateTLS ==
  /\ CmdAt("rotate")
  /\ \/ /\ clone' = [clone EXCEPT !.tree = @ \cup ({"tls"} \ InHistory(clone.head))]
        /\ CmdGoto("rotateCommit")
     \/ /\ \E wrote \in SUBSET ({"tls", "plaintext"} \ InHistory(clone.head)) :
             clone' = [clone EXCEPT !.tree = @ \cup wrote]
        /\ CmdReturns("failed")
  /\ UNCHANGED <<runs, flux>>

CommitRotation ==
  /\ CmdAt("rotateCommit")
  /\ \/ /\ Dirty(clone) = {} /\ CmdGoto("push") /\ UNCHANGED clone
     \/ /\ CanCommit(clone) /\ clone' = Committed(clone, "apply", runs)
        /\ cmd' = [cmd EXCEPT !.rotated = TRUE, !.at = "push"]
     \/ CmdReturns("failed") /\ UNCHANGED clone
  /\ UNCHANGED <<runs, flux>>

\* Phase 4 of a fresh scaffold.
CommitOverlay ==
  /\ CmdAt("commit")
  /\ \/ CanCommit(clone) /\ clone' = Committed(clone, "apply", runs) /\ CmdGoto("push")
     \/ CmdGoto("reset") /\ UNCHANGED clone
  /\ UNCHANGED <<runs, flux>>

\* Mutant: a resume takes the clean tree as proof that the overlay is published.
PushOverlayUnlessResuming ==
  /\ CmdAt("push")
  /\ \/ cmd.noPush /\ CmdReturns("ok") /\ UNCHANGED clone
     \/ ~cmd.noPush /\ cmd.resuming /\ ~cmd.rotated /\ CmdGoto("flux") /\ UNCHANGED clone
     \/ ~cmd.noPush /\ CanPush(clone) /\ clone' = Pushed(clone) /\ CmdGoto("flux")
  /\ UNCHANGED <<runs, flux>>

\* --no-push is local only; otherwise HEAD is pushed, on a resume too.
PushOverlay ==
  /\ CmdAt("push")
  /\ \/ cmd.noPush /\ CmdReturns("ok") /\ UNCHANGED clone
     \/ ~cmd.noPush /\ CanPush(clone) /\ clone' = Pushed(clone) /\ CmdGoto("flux")
  /\ UNCHANGED <<runs, flux>>

\* Mutant: a resumed run never rolls back.
PushFailsKeepsRotation ==
  /\ CmdAt("push") /\ ~cmd.noPush
  /\ UNCHANGED clone \/ (CanPush(clone) /\ clone' = Pushed(clone))
  /\ IF cmd.resuming THEN CmdReturns("failed") ELSE CmdGoto("reset")
  /\ UNCHANGED <<runs, flux>>

\* The push fails, or only its answer is lost; this run's own commit goes.
PushFails ==
  /\ CmdAt("push") /\ ~cmd.noPush
  /\ UNCHANGED clone \/ (CanPush(clone) /\ clone' = Pushed(clone))
  /\ IF cmd.resuming /\ ~cmd.rotated THEN CmdReturns("failed") ELSE CmdGoto("reset")
  /\ UNCHANGED <<runs, flux>>

\* Mutant: git reset --hard HEAD~1.
RollBackOneCommit ==
  /\ CmdAt("reset")
  /\ LET parent == SubSeq(clone.head, 1, Len(clone.head) - 1) IN
     clone' = Reset(clone, parent)
  /\ CmdReturns("failed")
  /\ UNCHANGED <<runs, flux>>

\* ResetHard(preSHA); when it fails too, "manual recovery needed".
RollBack ==
  /\ CmdAt("reset")
  /\ \/ CanReset(clone, cmd.pre) /\ clone' = Reset(clone, cmd.pre) /\ CmdReturns("failed")
     \/ UNCHANGED clone /\ CmdReturns("stuck")
  /\ UNCHANGED <<runs, flux>>

\* Phase 5; its failure is not rolled back.
InstallFlux ==
  /\ CmdAt("flux")
  /\ \/ flux' = TRUE /\ CmdReturns("ok")
     \/ flux' \in {flux, TRUE} /\ CmdReturns("failed")
  /\ UNCHANGED <<clone, runs>>

-----------------------------------------------------------------------------
\* setup-keycloak-oidc.sh commits its own files when they changed; it may fail
\* before, between and after.
KeycloakScript ==
  /\ CmdAt("script")
  /\ LET written == [clone EXCEPT !.tree = @ \cup ({"oidc"} \ InHistory(clone.head))]
         committed == [Committed([written EXCEPT !.tree = @ \cap {"oidc"}], "keycloak", runs)
                         EXCEPT !.tree = written.tree \ {"oidc"}]
         done == IF "oidc" \in written.tree THEN committed ELSE clone IN
     \/ clone' = done /\ CmdGoto("compare")
     \/ clone' \in {clone, written, done} /\ CmdReturns("failed")
  /\ UNCHANGED <<runs, flux>>

\* HEAD before against HEAD after: nothing new, nothing to push.
KeycloakCompare ==
  /\ CmdAt("compare")
  /\ \/ (cmd.noPush \/ clone.head = cmd.pre) /\ CmdReturns("ok")
     \/ ~cmd.noPush /\ clone.head # cmd.pre /\ CmdGoto("publish")
     \/ ~cmd.noPush /\ CmdReturns("failed")
  /\ CloneKept

\* The local commit is kept when the push fails.
KeycloakPush ==
  /\ CmdAt("publish")
  /\ \/ CanPush(clone) /\ clone' = Pushed(clone) /\ CmdReturns("ok")
     \/ (UNCHANGED clone \/ (CanPush(clone) /\ clone' = Pushed(clone))) /\ CmdReturns("failed")
  /\ UNCHANGED <<runs, flux>>

-----------------------------------------------------------------------------
KillCommand ==
  /\ ~CmdAt("ended") /\ CmdReturns("killed")
  /\ CloneKept

\* Between commands.
Elsewhere(next) == CmdAt("ended") /\ clone' = next /\ UNCHANGED <<cmd, runs, flux>>

\* openbao init: its own clean-tree gate, then shares that a failed commit or push
\* leaves where they are.
OpenbaoInit ==
  /\ Dirty(clone) = {} /\ "overlay" \in Contents(clone) /\ "shares" \notin Contents(clone)
  /\ LET written == [clone EXCEPT !.tree = {"shares"}]
         committed == Committed(written, "openbao", 0) IN
     \/ \E next \in {written, committed} : Elsewhere(next)
     \/ CanPush(committed) /\ Elsewhere(Pushed(committed))

EditNote == "note" \notin Contents(clone)
            /\ Elsewhere([clone EXCEPT !.tree = @ \cup {"note"}])
\* The operator commits what is theirs to commit ...
CommitByHand == Dirty(clone) \in {{"note"}, {"shares"}, {"oidc"}}
                /\ Elsewhere(Committed(clone, "operator", 0))
PushByHand == CanPush(clone) /\ Elsewhere(Pushed(clone))
\* ... takes over what only the remote has, and throws away what a command left.
PullByHand == /\ Dirty(clone) = {} /\ clone.head # clone.remote
              /\ IsPrefix(clone.head, clone.remote)
              /\ Elsewhere([clone EXCEPT !.head = clone.remote])
CleanByHand == Dirty(clone) # {} /\ "shares" \notin Dirty(clone)
               /\ Elsewhere([clone EXCEPT !.tree = {}])

ApplyStep ==
  \/ Gate \/ LabelIngressNodes \/ ResumeOverlay \/ RunAddCluster \/ ScaffoldRest
  \/ RemoveClusterDir \/ RotateTLS \/ CommitRotation \/ CommitOverlay \/ PushOverlay
  \/ PushFails \/ RollBack \/ InstallFlux
KeycloakStep == KeycloakScript \/ KeycloakCompare \/ KeycloakPush
Operator == EditNote \/ CommitByHand \/ PushByHand \/ PullByHand \/ CleanByHand

FleetNext ==
  \/ \E noPush, tls \in BOOLEAN : StartCommand("apply", noPush, tls)
  \/ \E noPush \in BOOLEAN : StartCommand("keycloak", noPush, FALSE)
  \/ ApplyStep \/ KeycloakStep \/ KillCommand \/ OpenbaoInit \/ Operator

FleetSpec == FleetInit /\ [][FleetNext]_fleetVars

-----------------------------------------------------------------------------
\* "skipping the push would point flux-install at a remote missing the cluster"
\* (ports/git.go): after any sequence of runs, kills and lost answers, Flux was
\* installed only over a remote with the overlay, and an apply that reports success
\* without --no-push has its overlay and its TLS material there.
FluxHasOverlay ==
  /\ flux => "overlay" \in Published(clone)
  /\ cmd.kind = "apply" /\ cmd.result = "ok" /\ ~cmd.noPush
       => {"overlay"} \cup (IF cmd.tls THEN {"tls"} ELSE {}) \subseteq Published(clone)

\* "rolls back ... so the operator's repo looks like Apply was never called": an
\* apply that returns an error, and does not ask for manual recovery, leaves HEAD
\* where it found it, or everything HEAD has is published (flux-install failed).
FailedApplyMovesNothing ==
  [][cmd.kind = "apply" /\ ~CmdAt("ended") /\ cmd'.result = "failed"
       => clone'.head \in {cmd.pre, clone'.remote}]_fleetVars

\* "Never HEAD~1 (a foreign commit on top of yours would be silently discarded)":
\* no step of apply, whatever failed before it, loses what the operator or another
\* command left in the clone.
OthersWorkKept ==
  [][cmd.kind = "apply" /\ ~CmdAt("ended")
       => Others \cap Contents(clone) \subseteq Contents(clone')]_fleetVars

\* "the caller MUST not commit a plaintext credential file": a plaintext left by a
\* killed or failed scaffold is in no commit of any later command.
NoPlaintextCommitted == "plaintext" \notin InHistory(clone.head) \cup Published(clone)

===============================================================================
