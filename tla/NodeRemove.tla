------------------------------ MODULE NodeRemove ------------------------------
(* kube-dc bootstrap remove-node: noderemove/remove.go (Remove).  Any number of   *)
(* operators may run it at once, on any nodes; each kubectl call may fail with or *)
(* without effect, a process may die, machines go down and come back.             *)
(*                                                                                *)
(* Simplifications: cordon and drain change only scheduling, which nothing here   *)
(* reads, so only their failures appear; etcd refuses a removal that would leave  *)
(* the started members without a majority (its strict reconfiguration check), and *)
(* the etcd of a removed member stops.                                            *)
EXTENDS Integers, FiniteSets

CONSTANTS Cluster,       \* node names
          ControlPlane,  \* those with an etcd, control-plane or master label
          NameExtends,   \* <<a, b>>: b is named a-something
          Removers,      \* processes of the command
          MaxRemovals,   \* runs of each
          MaxOutages     \* machines that go down

ASSUME RemoveAssumption ==
  /\ Cluster # {} /\ IsFiniteSet(Cluster) /\ ControlPlane \subseteq Cluster
  /\ NameExtends \subseteq Cluster \X Cluster
  /\ MaxRemovals \in Nat /\ MaxOutages \in Nat

VARIABLES nodes,         \* Node objects
          members,       \* nodes whose etcd is a member
          up,            \* machines whose rke2 runs
          outages,       \* machines that have gone down
          remover        \* the processes

removeVars == <<nodes, members, up, outages, remover>>

RemoveLabels == {"ended", "list", "peer", "member", "remove", "cordon", "drain", "delete",
                 "teardown"}

RemoveTypeOK ==
  /\ nodes \subseteq Cluster /\ members \subseteq ControlPlane /\ up \subseteq Cluster
  /\ outages \in 0..MaxOutages
  /\ remover \in [Removers -> [at : RemoveLabels, target : Cluster, peer : Cluster,
                               member : Cluster, force : BOOLEAN, skipDrain : BOOLEAN,
                               runs : 0..MaxRemovals]]

Somebody == CHOOSE n \in Cluster : TRUE

NoRemoval == [at |-> "ended", target |-> Somebody, peer |-> Somebody, member |-> Somebody,
              force |-> FALSE, skipDrain |-> FALSE, runs |-> 0]

RemoveInit ==
  /\ nodes = Cluster /\ members = ControlPlane /\ up = Cluster /\ outages = 0
  /\ remover = [r \in Removers |-> NoRemoval]

Majority(live, all) == 2 * Cardinality(live \cap all) > Cardinality(all)

\* RKE2 names a member <node>-<hash>; the code takes the first of the list whose
\* name is the node's or begins with the node's name and a dash.
MemberMatches(m, n) == m = n \/ <<n, m>> \in NameExtends

\* etcdctl runs in the peer's etcd container and needs a cluster that answers.
EtcdAnswers(peer) == peer \in up \cap members /\ Majority(up, members)

-----------------------------------------------------------------------------
RmAt(r, at) == remover[r].at = at
RmTo(r, at) == remover' = [remover EXCEPT ![r].at = at]
RmReturns(r) == remover' = [remover EXCEPT ![r] = [NoRemoval EXCEPT !.runs = remover[r].runs]]
ClusterKept == UNCHANGED <<nodes, members, up, outages>>

StartRemove(r, n, force, skipDrain) ==
  /\ RmAt(r, "ended") /\ remover[r].runs < MaxRemovals
  /\ remover' = [remover EXCEPT ![r] = [@ EXCEPT !.at = "list", !.target = n, !.force = force,
                                                 !.skipDrain = skipDrain,
                                                 !.runs = remover[r].runs + 1]]
  /\ ClusterKept

AfterEtcd(r) == IF remover[r].skipDrain THEN "delete" ELSE "cordon"

\* An unknown node and the last control-plane node (by label) are refused.
ListNodes(r) ==
  /\ RmAt(r, "list")
  /\ LET n == remover[r].target IN
     \/ n \in nodes \ ControlPlane /\ RmTo(r, AfterEtcd(r))
     \/ /\ n \in nodes \cap ControlPlane /\ Cardinality(nodes \cap ControlPlane) > 1
        /\ RmTo(r, "peer")
     \/ RmReturns(r)
  /\ ClusterKept

\* The first etcd pod on another node; whether it runs is not asked.
FindEtcdPeerPod(r) ==
  /\ RmAt(r, "peer")
  /\ \/ \E p \in (nodes \cap ControlPlane) \ {remover[r].target} :
          remover' = [remover EXCEPT ![r] = [@ EXCEPT !.at = "member", !.peer = p]]
     \/ RmReturns(r)
  /\ ClusterKept

FindEtcdMemberID(r) ==
  /\ RmAt(r, "member")
  /\ \/ /\ EtcdAnswers(remover[r].peer)
        /\ \E m \in members :
             /\ MemberMatches(m, remover[r].target)
             /\ remover' = [remover EXCEPT ![r] = [@ EXCEPT !.at = "remove", !.member = m]]
     \/ RmReturns(r)
  /\ ClusterKept

\* etcd takes the removal; its answer may be lost.
Removed(r) ==
  /\ EtcdAnswers(remover[r].peer) /\ remover[r].member \in members
  /\ Majority(up, members \ {remover[r].member})
  /\ members' = members \ {remover[r].member}

\* Mutant: a refused member removal does not stop the command.
RemoveMemberBestEffort(r) ==
  /\ RmAt(r, "remove")
  /\ \/ Removed(r) /\ RmTo(r, AfterEtcd(r))
     \/ UNCHANGED members /\ RmTo(r, AfterEtcd(r))
  /\ UNCHANGED <<nodes, up, outages>>

\* FIRST, while the member is still healthy.
RemoveMember(r) ==
  /\ RmAt(r, "remove")
  /\ \/ Removed(r) /\ RmTo(r, AfterEtcd(r))
     \/ (UNCHANGED members \/ Removed(r)) /\ RmReturns(r)
  /\ UNCHANGED <<nodes, up, outages>>

CordonNode(r) ==
  /\ RmAt(r, "cordon")
  /\ RmTo(r, "drain") \/ RmReturns(r)
  /\ ClusterKept

\* A failed drain ends the run unless --force.
DrainNode(r) ==
  /\ RmAt(r, "drain")
  /\ RmTo(r, "delete") \/ (~remover[r].force /\ RmReturns(r))
  /\ ClusterKept

DeleteNode(r) ==
  /\ RmAt(r, "delete")
  /\ \/ nodes' = nodes \ {remover[r].target} /\ RmTo(r, "teardown")
     \/ nodes' \in {nodes, nodes \ {remover[r].target}} /\ RmReturns(r)
  /\ UNCHANGED <<members, up, outages>>

\* Best effort: rke2-killall.sh over SSH.
TearDown(r) ==
  /\ RmAt(r, "teardown") /\ RmReturns(r)
  /\ up' \in {up, up \ {remover[r].target}}
  /\ UNCHANGED <<nodes, members, outages>>

KillRemove(r) ==
  /\ ~RmAt(r, "ended") /\ RmReturns(r)
  /\ ClusterKept

-----------------------------------------------------------------------------
MachineFails ==
  /\ outages < MaxOutages /\ outages' = outages + 1
  /\ \E n \in up : up' = up \ {n}
  /\ UNCHANGED <<nodes, members, remover>>

MachineReturns ==
  /\ \E n \in nodes \ up : up' = up \cup {n}
  /\ UNCHANGED <<nodes, members, outages, remover>>

RemoveStep(r) ==
  \/ ListNodes(r) \/ FindEtcdPeerPod(r) \/ FindEtcdMemberID(r) \/ RemoveMember(r)
  \/ CordonNode(r) \/ DrainNode(r) \/ DeleteNode(r) \/ TearDown(r)

RemoveNext ==
  \/ \E r \in Removers : \/ RemoveStep(r) \/ KillRemove(r)
                         \/ \E n \in Cluster, force, skipDrain \in BOOLEAN :
                              StartRemove(r, n, force, skipDrain)
  \/ MachineFails \/ MachineReturns

RemoveSpec == RemoveInit /\ [][RemoveNext]_removeVars

-----------------------------------------------------------------------------
\* "deleting a control-plane node/VM without first removing its etcd member strands
\* the member ... remove-node encodes that so operators can't trip it" (package doc):
\* whatever fails, dies, is re-run or runs beside it, no deleted node is a member.
NoStrandedMember == members \subseteq nodes

\* "in the order that protects etcd quorum": no step of the command takes the
\* majority from a cluster that has it, with machines down and removals side by side.
RemovalKeepsQuorum ==
  [][remover' # remover /\ Majority(up, members) => Majority(up', members')]_removeVars

===============================================================================
