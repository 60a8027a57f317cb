------------------------------ MODULE PodUnseal ------------------------------
(* kube-dc bootstrap openbao unseal over the pods of the StatefulSet:             *)
(* openbao/unseal.go (Unseal) and the Status, RaftJoin and Unseal calls of        *)
(* adapters/openbao/client.go.  Commands may run side by side; pods restart, come *)
(* back empty or appear late; a call fails, or is dropped by the exec transport   *)
(* with an empty answer and no error.                                             *)
(*                                                                                *)
(* Simplification: the file holds the three threshold shares (ShareCustody says   *)
(* when it does); a share is its number.                                          *)
EXTENDS Integers, FiniteSets

CONSTANTS Replicas,    \* of the StatefulSet: pods 0..Replicas-1
          Unsealers,   \* processes of the command
          MaxFaults    \* restarts, empty volumes and dropped calls

ASSUME UnsealAssumption == Replicas \in Nat \ {0} /\ MaxFaults \in Nat

VARIABLES pods,        \* the pods: absent, fresh (uninitialised), sealed or unsealed
          progress,    \* shares each has been given since it was last sealed
          faults,
          unsealer,    \* the processes
          clean        \* those whose run has met no fault

unsealVars == <<pods, progress, faults, unsealer, clean>>

Ordinals == 0..(Replicas - 1)
Threshold == 1..3
UnsealLabels == {"idle", "list", "status", "join", "share", "done", "failed"}

UnsealTypeOK ==
  /\ pods \in [Ordinals -> {"absent", "fresh", "sealed", "unsealed"}]
  /\ progress \in [Ordinals -> SUBSET Threshold]
  /\ faults \in 0..MaxFaults
  /\ unsealer \in [Unsealers -> [at : UnsealLabels, listed : SUBSET Ordinals, leader : Ordinals,
                                 pod : Ordinals, share : Threshold]]
  /\ clean \subseteq Unsealers

NoUnseal == [at |-> "idle", listed |-> {}, leader |-> 0, pod |-> 0, share |-> 1]

\* After openbao init: pod 0 holds the barrier, sealed or not; the others are
\* created when it is ready (OrderedReady).
UnsealInit ==
  /\ pods \in [Ordinals -> {"absent", "sealed", "unsealed"}]
  /\ pods[0] # "absent" /\ \A p \in Ordinals \ {0} : pods[p] = "absent"
  /\ progress = [p \in Ordinals |-> {}] /\ faults = 0
  /\ unsealer = [u \in Unsealers |-> NoUnseal] /\ clean = {}

UnsAt(u, at) == unsealer[u].at = at
UnsTo(u, at) == unsealer' = [unsealer EXCEPT ![u].at = at]
PodsKept == UNCHANGED <<pods, progress, faults>>
Fault == faults < MaxFaults /\ faults' = faults + 1

-----------------------------------------------------------------------------
StartUnseal(u) ==
  /\ unsealer[u].at \in {"idle", "failed"}
  /\ unsealer' = [unsealer EXCEPT ![u] = [NoUnseal EXCEPT !.at = "list"]]
  /\ clean' = clean \cup {u}
  /\ PodsKept

\* The pods by name; the first is taken for the leader, whatever its state.
PodList(u) ==
  /\ UnsAt(u, "list")
  /\ LET there == {p \in Ordinals : pods[p] # "absent"} IN
     \/ \E leader \in there :
          /\ \A p \in there : leader <= p
          /\ unsealer' = [unsealer EXCEPT ![u] = [@ EXCEPT !.at = "status", !.listed = there,
                                                  !.leader = leader, !.pod = leader]]
     \/ UnsTo(u, "failed")
  /\ PodsKept /\ UNCHANGED clean

\* The loop goes on to the next listed pod, or the command returns nil.
Advance(u) ==
  LET later == {p \in unsealer[u].listed : p > unsealer[u].pod} IN
  \/ later = {} /\ UnsTo(u, "done")
  \/ \E next \in later :
       /\ \A p \in later : next <= p
       /\ unsealer' = [unsealer EXCEPT ![u] = [@ EXCEPT !.at = "status", !.share = 1,
                                                       !.pod = next]]

PodStatus(u) ==
  /\ UnsAt(u, "status")
  /\ LET p == unsealer[u].pod IN
     \/ pods[p] = "unsealed" /\ Advance(u)
     \/ pods[p] = "fresh" /\ p # unsealer[u].leader /\ UnsTo(u, "join")
     \/ /\ pods[p] = "sealed" \/ (pods[p] = "fresh" /\ p = unsealer[u].leader)
        /\ UnsTo(u, "share")
     \/ UnsTo(u, "failed")
  /\ PodsKept /\ UNCHANGED clean

\* The follower takes the leader's barrier; one that already has it is left alone.
RaftJoin(u) ==
  /\ UnsAt(u, "join")
  /\ LET p == unsealer[u].pod IN
     \/ /\ pods[p] = "fresh" /\ pods[unsealer[u].leader] = "unsealed"
        /\ pods' = [pods EXCEPT ![p] = "sealed"] /\ UnsTo(u, "share")
     \/ pods[p] \in {"sealed", "unsealed"} /\ UNCHANGED pods /\ UnsTo(u, "share")
     \/ UNCHANGED pods /\ UnsTo(u, "failed")
  /\ UNCHANGED <<progress, faults, clean>>

\* The barrier opens with the third distinct share.
Shares(p, s) ==
  LET given == progress[p] \cup {s} IN
  IF given = Threshold
  THEN pods' = [pods EXCEPT ![p] = "unsealed"] /\ progress' = [progress EXCEPT ![p] = {}]
  ELSE UNCHANGED pods /\ progress' = [progress EXCEPT ![p] = given]

\* Mutant: the loop stops one share short of the threshold.
GivenTwo(u) ==
  \/ unsealer[u].share < 2 /\ unsealer' = [unsealer EXCEPT ![u].share = @ + 1]
  \/ unsealer[u].share = 2 /\ Advance(u)

\* After a share: the next one, or the next pod.
Given(u) ==
  \/ unsealer[u].share < 3 /\ unsealer' = [unsealer EXCEPT ![u].share = @ + 1]
  \/ unsealer[u].share = 3 /\ Advance(u)

SubmitShare(u) ==
  /\ UnsAt(u, "share")
  /\ LET p == unsealer[u].pod IN
     \/ pods[p] = "sealed" /\ Shares(p, unsealer[u].share) /\ Given(u)
     \/ pods[p] = "unsealed" /\ UNCHANGED <<pods, progress>> /\ Given(u)
     \/ UNCHANGED <<pods, progress>> /\ UnsTo(u, "failed")
  /\ UNCHANGED <<faults, clean>>

\* Dropped with an empty answer and no error: Unseal returns nil.
ShareDropped(u) ==
  /\ UnsAt(u, "share") /\ Fault
  /\ Given(u) /\ clean' = clean \ {u}
  /\ UNCHANGED <<pods, progress>>

KillUnseal(u) ==
  /\ unsealer[u].at \notin {"idle", "done", "failed"}
  /\ UnsTo(u, "failed") /\ PodsKept /\ UNCHANGED clean

-----------------------------------------------------------------------------
\* OrderedReady: a pod is created when those before it are ready.
PodAppears ==
  /\ \E p \in Ordinals : /\ pods[p] = "absent" /\ \A q \in 0..(p - 1) : pods[q] = "unsealed"
                         /\ pods' = [pods EXCEPT ![p] = "fresh"]
  /\ UNCHANGED <<progress, faults, unsealer, clean>>

\* A restarted pod is sealed and forgets the shares; without its volume it comes
\* back uninitialised.
PodRestarts ==
  /\ Fault
  /\ \E p \in Ordinals :
       \/ pods[p] \in {"sealed", "unsealed"} /\ pods' = [pods EXCEPT ![p] = "sealed"]
          /\ progress' = [progress EXCEPT ![p] = {}]
       \/ pods[p] # "absent" /\ pods' = [pods EXCEPT ![p] = "fresh"]
          /\ progress' = [progress EXCEPT ![p] = {}]
  /\ clean' = {} /\ UNCHANGED unsealer

UnsealStep(u) == PodList(u) \/ PodStatus(u) \/ RaftJoin(u) \/ SubmitShare(u) \/ ShareDropped(u)

UnsealNext == \/ \E u \in Unsealers : StartUnseal(u) \/ UnsealStep(u) \/ KillUnseal(u)
              \/ PodAppears \/ PodRestarts

UnsealSpec == UnsealInit /\ [][UnsealNext]_unsealVars

-----------------------------------------------------------------------------
\* "Returns nil on success (including when no pods needed unsealing)" (Unseal): when
\* it returned nil and no pod restarted and none of its shares was dropped since it
\* started, every pod it listed is unsealed - late empty followers included, whatever
\* other runs of the command fed to the same pods in between.
NilMeansUnsealed ==
  \A u \in Unsealers : UnsAt(u, "done") /\ u \in clean =>
    \A p \in unsealer[u].listed : pods[p] = "unsealed"

===============================================================================
