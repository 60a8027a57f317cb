--------------------------- MODULE BringUpProofs ----------------------------
(*****************************************************************************)
(* Theorems about what brings a node and its cluster up: the OIDC cutover of *)
(* the API servers (OidcCutover), the install script on one node (NodeInstall)*)
(* and the reviewed plan that an init applies (PlanReview).                  *)
(*****************************************************************************)
EXTENDS OidcCutover, NodeInstall, PlanReview, TLAPS

-----------------------------------------------------------------------------
(*****************************************************************************)
(* OidcCutover, for every number of control-plane nodes, runs and edits.     *)
(*                                                                           *)
(* The argument: a node is snapshotted before its file is written, and the   *)
(* snapshot is never rewritten, so a webhook flag the node was not found     *)
(* with is always younger than its snapshot; preflight's answer stays true   *)
(* while the run lasts, so the flag is younger than the kubeconfig too.      *)
(*****************************************************************************)

USE DEF nodes, env, result

-----------------------------------------------------------------------------
\* The words of the model, cited where the sets themselves are not needed.
LEMMA Vocabulary ==
  /\ {"idle", "preflight", "fetch", "port", "snapshot", "put", "restart", "ready",
      "verify", "restore"} \subseteq Labels
  /\ {"apply", "dryRun", "rollback"} \subseteq Modes
  /\ NoSnapshot \in Snapshot
  BY DEF Labels, Modes, NoSnapshot, Snapshot, File

\* What PatchConfig returns is a file, with the webhook flag.
LEMMA PatchedFile == ASSUME NEW f \in File
                     PROVE  Patched(f) \in File /\ "webhook" \in Patched(f)
  BY DEF Patched, File, Flags, Managed

LEMMA TypeInit == Init => TypeOK
  <1> SUFFICES ASSUME Init PROVE TypeOK
    OBVIOUS
  <1>1. file \in [Node -> File] /\ found \in [Node -> File]
    BY FoundAssumption DEF Init
  <1>2. snap \in [Node -> Snapshot]
    BY Vocabulary DEF Init
  <1>3. up \subseteq Node /\ live \subseteq Node /\ kubeconfig \subseteq Node
        /\ foreign \subseteq Node
    BY DEF Init
  <1>4. pc \in Labels /\ mode \in Modes /\ todo \subseteq Node
        /\ cur \in Node \cup {NoNode} /\ body \in File
        /\ wired \subseteq Node /\ already \subseteq Node /\ pc \notin AtNode
    BY Vocabulary DEF Init, File, AtNode
  <1>5. report \in {"none", "refused", "failed", "ok", "killed"}
        /\ runs \in 0..MaxRuns /\ edits \in 0..MaxEdits
    BY CutoverAssumption DEF Init
  <1> QED
    BY <1>1, <1>2, <1>3, <1>4, <1>5 DEF TypeOK

\* A step of the loop keeps the types.
LEMMA TypeNextNode ==
  ASSUME TypeOK, NextNode
  PROVE  pc' \in Labels /\ todo' \subseteq Node /\ mode' \in Modes /\ body' \in File
         /\ report' \in {"none", "refused", "failed", "ok", "killed"}
         /\ runs' \in 0..MaxRuns /\ pc' \notin AtNode
  <1>1. pc' \in {"idle", "restore", "fetch"}
        /\ (report' = "ok" \/ report' = report)
        /\ todo' = todo \ {cur} /\ mode' = mode /\ body' = body /\ runs' = runs
    BY DEF NextNode
  <1> QED
    BY <1>1, Vocabulary DEF TypeOK, AtNode

LEMMA TypeCommand == TypeOK /\ Command => TypeOK'
  <1> SUFFICES ASSUME TypeOK, Command PROVE TypeOK'
    OBVIOUS
  <1>1. CASE Start
    <2>1. todo' \subseteq Node /\ mode' \in Modes /\ pc' \in {"restore", "preflight"}
      BY <1>1 DEF Start
    <2>2. runs' \in 0..MaxRuns
      BY <1>1, CutoverAssumption DEF Start, TypeOK
    <2> QED
      BY <1>1, <2>1, <2>2, Vocabulary DEF Start, TypeOK, File, AtNode
  <1>2. CASE PreflightPasses
    BY <1>2, Vocabulary DEF PreflightPasses, Goto, TypeOK, AtNode
  <1>3. CASE PreflightRefuses
    BY <1>3, Vocabulary DEF PreflightRefuses, Return, TypeOK, AtNode
  <1>4. CASE FetchNode
    BY <1>4, Vocabulary DEF FetchNode, TypeOK
  <1>5. CASE AlreadyWired
    <2>1. /\ pc' \in {"idle", "fetch"} /\ (report' = "ok" \/ report' = report)
          /\ already' \subseteq Node /\ todo' \subseteq Node /\ cur' \in Node
      BY <1>5 DEF AlreadyWired, TypeOK
    <2> QED
      BY <1>5, <2>1, Vocabulary DEF AlreadyWired, TypeOK, AtNode
  <1>6. CASE PortFree
    <2>1. CASE mode = "apply" /\ Goto("snapshot")
      BY <1>6, <2>1, Vocabulary DEF PortFree, Goto, TypeOK, AtNode
    <2>2. CASE mode = "dryRun" /\ wired' = wired \cup {cur} /\ NextNode
               /\ UNCHANGED <<cur, already>>
      <3>1. cur \in Node
        BY <1>6 DEF PortFree, TypeOK, AtNode
      <3> QED
        BY <1>6, <2>2, <3>1, TypeNextNode DEF PortFree, TypeOK
    <2> QED
      BY <1>6, <2>1, <2>2 DEF PortFree
  <1>7. CASE TakeSnapshot
    <2>1. cur \in Node /\ pc' = "put"
      BY <1>7 DEF TakeSnapshot, Goto, TypeOK, AtNode
    <2>2. [taken |-> TRUE, file |-> file[cur]] \in Snapshot
      BY <2>1 DEF TypeOK, Snapshot
    <2>3. snap' \in [Node -> Snapshot]
      BY <1>7, <2>1, <2>2 DEF TakeSnapshot, TypeOK
    <2> QED
      BY <1>7, <2>1, <2>3, Vocabulary DEF TakeSnapshot, Goto, TypeOK
  <1>8. CASE PutConfig
    <2>1. cur \in Node /\ pc' = "restart"
      BY <1>8 DEF PutConfig, Goto, TypeOK, AtNode
    <2>2. file' \in [Node -> File]
      BY <1>8, <2>1, PatchedFile DEF PutConfig, TypeOK
    <2> QED
      BY <1>8, <2>1, <2>2, Vocabulary DEF PutConfig, Goto, TypeOK
  <1>9. CASE RestartNode
    BY <1>9, Vocabulary DEF RestartNode, Goto, TypeOK, AtNode
  <1>10. CASE NodeReady
    <2>1. CASE mode = "apply" /\ Goto("verify")
      BY <1>10, <2>1, Vocabulary DEF NodeReady, Goto, TypeOK, AtNode
    <2>2. CASE mode = "rollback" /\ NextNode /\ UNCHANGED <<cur, result>>
      BY <1>10, <2>2, TypeNextNode DEF NodeReady, TypeOK
    <2> QED
      BY <1>10, <2>1, <2>2 DEF NodeReady
  <1>11. CASE VerifyFlag
    <2>1. wired' \subseteq Node
      BY <1>11 DEF VerifyFlag, TypeOK, AtNode
    <2> QED
      BY <1>11, <2>1, TypeNextNode DEF VerifyFlag, TypeOK
  <1>12. CASE RestoreSnapshot
    <2>1. file' \in [Node -> File] /\ cur' \in Node
      BY <1>12 DEF RestoreSnapshot, TypeOK, Snapshot
    <2> QED
      BY <1>12, <2>1, Vocabulary DEF RestoreSnapshot, TypeOK
  <1>13. CASE StepFails
    <2>1. file' \in [Node -> File] /\ snap' \in [Node -> Snapshot]
          /\ up' \subseteq Node /\ live' = live
      <3>1. CASE UNCHANGED nodes
        BY <3>1 DEF TypeOK
      <3>2. CASE pc = "snapshot"
                 /\ snap' = [snap EXCEPT ![cur] = [taken |-> TRUE, file |-> file[cur]]]
                 /\ UNCHANGED <<file, up, live>>
        <4>1. cur \in Node
          BY <3>2 DEF TypeOK, AtNode
        <4>2. [taken |-> TRUE, file |-> file[cur]] \in Snapshot
          BY <4>1 DEF TypeOK, Snapshot
        <4> QED
          BY <3>2, <4>1, <4>2 DEF TypeOK
      <3>3. CASE file' = [file EXCEPT ![cur] = Patched(body)]
                 /\ UNCHANGED <<snap, up, live>>
        BY <3>3, PatchedFile DEF TypeOK
      <3>4. CASE up' = up \ {cur} /\ UNCHANGED <<file, snap, live>>
        BY <3>4 DEF TypeOK
      <3>5. CASE (\E n \in todo : /\ IsFirst(n, todo) /\ snap[n].taken
                                  /\ file' = [file EXCEPT ![n] = snap[n].file])
                 /\ UNCHANGED <<snap, up, live>>
        BY <3>5 DEF TypeOK, Snapshot
      <3> QED
        BY <1>13, <3>1, <3>2, <3>3, <3>4, <3>5 DEF StepFails
    <2> QED
      BY <1>13, <2>1, Vocabulary DEF StepFails, Return, TypeOK, AtNode
  <1>14. CASE Kill
    BY <1>14, Vocabulary DEF Kill, Return, TypeOK, AtNode
  <1> QED
    BY <1>1, <1>2, <1>3, <1>4, <1>5, <1>6, <1>7, <1>8, <1>9, <1>10, <1>11, <1>12,
       <1>13, <1>14 DEF Command

LEMMA TypeWorld == TypeOK /\ World => TypeOK'
  <1> SUFFICES ASSUME TypeOK, World PROVE TypeOK'
    OBVIOUS
  <1>1. CASE ApiserverReturns
    BY <1>1 DEF ApiserverReturns, TypeOK
  <1>2. CASE KubeconfigWritten
    BY <1>2 DEF KubeconfigWritten, TypeOK
  <1>3. CASE PortChangesHands
    BY <1>3 DEF PortChangesHands, TypeOK
  <1>4. CASE EditFile
    <2>1. file' \in [Node -> File]
      BY <1>4 DEF EditFile, TypeOK, File, Flags
    <2>2. edits' \in 0..MaxEdits
      BY <1>4, CutoverAssumption DEF EditFile, TypeOK
    <2> QED
      BY <1>4, <2>1, <2>2 DEF EditFile, TypeOK
  <1> QED
    BY <1>1, <1>2, <1>3, <1>4 DEF World

\* Every variable of the model keeps its type.
THEOREM CutoverTypeCorrect == Spec => []TypeOK
  <1>1. TypeOK /\ [Next]_vars => TypeOK'
    <2>1. TypeOK /\ UNCHANGED vars => TypeOK'
      BY DEF TypeOK, vars
    <2> QED
      BY <2>1, TypeCommand, TypeWorld DEF Next
  <1> QED
    BY <1>1, TypeInit, PTL DEF Spec

-----------------------------------------------------------------------------
\* The inductive invariant.
LEMMA CutoverInit == Init => CutoverInv
  BY DEF Init, CutoverInv, ModeInv, OrderInv, SnapInv, PreflightInv, NoSnapshot,
         RollbackStaysPossible, KubeconfigFirst, WiredIsServing, AtNode, BeforePut

LEMMA CutoverCommand == TypeOK /\ CutoverInv /\ Command => CutoverInv'
  <1> SUFFICES ASSUME TypeOK, CutoverInv, Command PROVE CutoverInv'
    OBVIOUS
  <1>0. /\ ModeInv /\ OrderInv /\ SnapInv /\ PreflightInv
        /\ RollbackStaysPossible /\ KubeconfigFirst /\ WiredIsServing
    BY DEF CutoverInv
  <1>1. CASE Start
    <2>1. ModeInv' /\ OrderInv' /\ PreflightInv'
      BY <1>0, <1>1 DEF Start, ModeInv, OrderInv, PreflightInv, AtNode,
         BeforePut
    <2>2. SnapInv' /\ RollbackStaysPossible' /\ KubeconfigFirst'
      BY <1>0, <1>1 DEF Start, SnapInv, RollbackStaysPossible, KubeconfigFirst
    <2>3. WiredIsServing'
      BY <1>0, <1>1 DEF Start, WiredIsServing
    <2> QED
      BY <2>1, <2>2, <2>3 DEF CutoverInv
  <1>2. CASE PreflightPasses
    <2>1. ModeInv' /\ OrderInv' /\ PreflightInv'
      BY <1>0, <1>2 DEF PreflightPasses, Goto, ModeInv, OrderInv,
         PreflightInv, AtNode, BeforePut
    <2>2. SnapInv' /\ RollbackStaysPossible' /\ KubeconfigFirst'
      BY <1>0, <1>2 DEF PreflightPasses, Goto, SnapInv, RollbackStaysPossible,
         KubeconfigFirst
    <2>3. WiredIsServing'
      BY <1>0, <1>2 DEF PreflightPasses, Goto, WiredIsServing
    <2> QED
      BY <2>1, <2>2, <2>3 DEF CutoverInv
  <1>3. CASE PreflightRefuses
    <2>1. ModeInv' /\ OrderInv' /\ PreflightInv'
      BY <1>0, <1>3 DEF PreflightRefuses, Return, ModeInv, OrderInv,
         PreflightInv, AtNode, BeforePut
    <2>2. SnapInv' /\ RollbackStaysPossible' /\ KubeconfigFirst'
      BY <1>0, <1>3 DEF PreflightRefuses, Return, SnapInv,
         RollbackStaysPossible, KubeconfigFirst
    <2>3. WiredIsServing'
      BY <1>0, <1>3 DEF PreflightRefuses, Return, WiredIsServing
    <2> QED
      BY <2>1, <2>2, <2>3 DEF CutoverInv
  <1>4. CASE FetchNode
    <2>1. ModeInv' /\ OrderInv' /\ PreflightInv'
      BY <1>0, <1>4 DEF FetchNode, ModeInv, OrderInv, PreflightInv, AtNode,
         BeforePut
    <2>2. SnapInv' /\ RollbackStaysPossible' /\ KubeconfigFirst'
      BY <1>0, <1>4 DEF FetchNode, SnapInv, RollbackStaysPossible,
         KubeconfigFirst
    <2>3. WiredIsServing'
      BY <1>0, <1>4 DEF FetchNode, WiredIsServing
    <2> QED
      BY <2>1, <2>2, <2>3 DEF CutoverInv
  <1>5. CASE AlreadyWired
    <2>1. ModeInv' /\ OrderInv' /\ PreflightInv'
      BY <1>0, <1>5 DEF AlreadyWired, ModeInv, OrderInv, PreflightInv, AtNode,
         BeforePut
    <2>2. SnapInv' /\ RollbackStaysPossible' /\ KubeconfigFirst'
      BY <1>0, <1>5 DEF AlreadyWired, SnapInv, RollbackStaysPossible,
         KubeconfigFirst
    <2>3. WiredIsServing'
      BY <1>0, <1>5 DEF AlreadyWired, WiredIsServing
    <2> QED
      BY <2>1, <2>2, <2>3 DEF CutoverInv
  <1>6. CASE PortFree
    <2>1. ModeInv' /\ OrderInv' /\ PreflightInv'
      BY <1>0, <1>6 DEF PortFree, Goto, NextNode, ModeInv, OrderInv,
         PreflightInv, AtNode, BeforePut
    <2>2. SnapInv' /\ RollbackStaysPossible' /\ KubeconfigFirst'
      BY <1>0, <1>6 DEF PortFree, Goto, NextNode, SnapInv,
         RollbackStaysPossible, KubeconfigFirst
    <2>3. WiredIsServing'
      BY <1>0, <1>6 DEF PortFree, Goto, NextNode, WiredIsServing
    <2> QED
      BY <2>1, <2>2, <2>3 DEF CutoverInv
  <1>7. CASE TakeSnapshot
    <2>1. ModeInv' /\ OrderInv' /\ PreflightInv'
      BY <1>0, <1>7 DEF TakeSnapshot, Goto, ModeInv, OrderInv, PreflightInv,
         AtNode, BeforePut
    <2>2. SnapInv' /\ RollbackStaysPossible' /\ KubeconfigFirst'
      BY <1>0, <1>7 DEF TakeSnapshot, Goto, SnapInv, RollbackStaysPossible,
         KubeconfigFirst, AtNode, TypeOK
    <2>3. WiredIsServing'
      BY <1>0, <1>7 DEF TakeSnapshot, Goto, WiredIsServing
    <2> QED
      BY <2>1, <2>2, <2>3 DEF CutoverInv
  <1>8. CASE PutConfig
    <2>1. ModeInv' /\ OrderInv' /\ PreflightInv'
      BY <1>0, <1>8 DEF PutConfig, Goto, ModeInv, OrderInv, PreflightInv,
         AtNode, BeforePut
    <2>2. SnapInv' /\ RollbackStaysPossible' /\ KubeconfigFirst'
      BY <1>0, <1>8 DEF PutConfig, Goto, ModeInv, OrderInv, PreflightInv,
         SnapInv, RollbackStaysPossible, KubeconfigFirst, AtNode, BeforePut,
         TypeOK
    <2>3. WiredIsServing'
      BY <1>0, <1>8 DEF PutConfig, Goto, WiredIsServing
    <2> QED
      BY <2>1, <2>2, <2>3 DEF CutoverInv
  <1>9. CASE RestartNode
    <2>1. ModeInv' /\ OrderInv' /\ PreflightInv'
      BY <1>0, <1>9 DEF RestartNode, Goto, ModeInv, OrderInv, PreflightInv,
         AtNode, BeforePut
    <2>2. SnapInv' /\ RollbackStaysPossible' /\ KubeconfigFirst'
      BY <1>0, <1>9 DEF RestartNode, Goto, SnapInv, RollbackStaysPossible,
         KubeconfigFirst
    <2>3. WiredIsServing'
      BY <1>0, <1>9 DEF RestartNode, Goto, OrderInv, WiredIsServing, AtNode
    <2> QED
      BY <2>1, <2>2, <2>3 DEF CutoverInv
  <1>10. CASE NodeReady
    <2>1. ModeInv' /\ OrderInv' /\ PreflightInv'
      BY <1>0, <1>10 DEF NodeReady, Goto, NextNode, ModeInv, OrderInv,
         PreflightInv, AtNode, BeforePut
    <2>2. SnapInv' /\ RollbackStaysPossible' /\ KubeconfigFirst'
      BY <1>0, <1>10 DEF NodeReady, Goto, NextNode, SnapInv,
         RollbackStaysPossible, KubeconfigFirst
    <2>3. WiredIsServing'
      BY <1>0, <1>10 DEF NodeReady, Goto, NextNode, WiredIsServing
    <2> QED
      BY <2>1, <2>2, <2>3 DEF CutoverInv
  <1>11. CASE VerifyFlag
    <2>1. ModeInv' /\ OrderInv' /\ PreflightInv'
      BY <1>0, <1>11 DEF VerifyFlag, NextNode, ModeInv, OrderInv,
         PreflightInv, AtNode, BeforePut
    <2>2. SnapInv' /\ RollbackStaysPossible' /\ KubeconfigFirst'
      BY <1>0, <1>11 DEF VerifyFlag, NextNode, SnapInv, RollbackStaysPossible,
         KubeconfigFirst
    <2>3. WiredIsServing'
      BY <1>0, <1>11 DEF VerifyFlag, NextNode, OrderInv, WiredIsServing
    <2> QED
      BY <2>1, <2>2, <2>3 DEF CutoverInv
  <1>12. CASE RestoreSnapshot
    <2>1. ModeInv' /\ OrderInv' /\ PreflightInv'
      BY <1>0, <1>12 DEF RestoreSnapshot, ModeInv, OrderInv, PreflightInv,
         AtNode, BeforePut
    <2>2. SnapInv' /\ RollbackStaysPossible' /\ KubeconfigFirst'
      BY <1>0, <1>12 DEF RestoreSnapshot, SnapInv, RollbackStaysPossible,
         KubeconfigFirst, TypeOK
    <2>3. WiredIsServing'
      BY <1>0, <1>12 DEF RestoreSnapshot, WiredIsServing
    <2> QED
      BY <2>1, <2>2, <2>3 DEF CutoverInv
  <1>13. CASE StepFails
    <2>1. ModeInv' /\ OrderInv' /\ PreflightInv'
      BY <1>0, <1>13 DEF StepFails, Return, ModeInv, OrderInv, PreflightInv,
         AtNode, BeforePut
    <2>2. SnapInv' /\ RollbackStaysPossible' /\ KubeconfigFirst'
      BY <1>0, <1>13 DEF StepFails, Return, ModeInv, OrderInv, PreflightInv,
         SnapInv, RollbackStaysPossible, KubeconfigFirst, AtNode, BeforePut,
         TypeOK
    <2>3. WiredIsServing'
      BY <1>0, <1>13 DEF StepFails, Return, OrderInv, WiredIsServing, AtNode
    <2> QED
      BY <2>1, <2>2, <2>3 DEF CutoverInv
  <1>14. CASE Kill
    <2>1. ModeInv' /\ OrderInv' /\ PreflightInv'
      BY <1>0, <1>14 DEF Kill, Return, ModeInv, OrderInv, PreflightInv,
         AtNode, BeforePut
    <2>2. SnapInv' /\ RollbackStaysPossible' /\ KubeconfigFirst'
      BY <1>0, <1>14 DEF Kill, Return, SnapInv, RollbackStaysPossible,
         KubeconfigFirst
    <2>3. WiredIsServing'
      BY <1>0, <1>14 DEF Kill, Return, WiredIsServing
    <2> QED
      BY <2>1, <2>2, <2>3 DEF CutoverInv
  <1> QED
    BY <1>1, <1>2, <1>3, <1>4, <1>5, <1>6, <1>7,
       <1>8, <1>9, <1>10, <1>11, <1>12, <1>13, <1>14 DEF Command

LEMMA CutoverWorld == TypeOK /\ CutoverInv /\ World => CutoverInv'
  <1> SUFFICES ASSUME TypeOK, CutoverInv, World PROVE CutoverInv'
    OBVIOUS
  <1>0. /\ ModeInv /\ OrderInv /\ SnapInv /\ PreflightInv
        /\ RollbackStaysPossible /\ KubeconfigFirst /\ WiredIsServing
    BY DEF CutoverInv
  <1>1. CASE ApiserverReturns
    <2>1. ModeInv' /\ OrderInv' /\ SnapInv' /\ PreflightInv'
      BY <1>0, <1>1 DEF ApiserverReturns, ModeInv, OrderInv, SnapInv, PreflightInv
    <2>2. KubeconfigFirst'
      BY <1>0, <1>1 DEF ApiserverReturns, KubeconfigFirst
    <2>3. RollbackStaysPossible' /\ WiredIsServing'
      BY <1>0, <1>1 DEF ApiserverReturns, RollbackStaysPossible, WiredIsServing
    <2> QED
      BY <2>1, <2>2, <2>3 DEF CutoverInv
  <1>2. CASE KubeconfigWritten
    BY <1>0, <1>2 DEF KubeconfigWritten, CutoverInv, ModeInv, OrderInv, SnapInv,
                      PreflightInv, RollbackStaysPossible, KubeconfigFirst, WiredIsServing
  <1>3. CASE PortChangesHands
    BY <1>0, <1>3 DEF PortChangesHands, CutoverInv, ModeInv, OrderInv, SnapInv,
                      PreflightInv, RollbackStaysPossible, KubeconfigFirst, WiredIsServing
  <1>4. CASE EditFile
    <2>1. \A n \in Node : "webhook" \in file'[n] => "webhook" \in file[n]
      BY <1>4 DEF EditFile, TypeOK
    <2>2. ModeInv' /\ OrderInv' /\ SnapInv' /\ PreflightInv' /\ WiredIsServing'
      BY <1>0, <1>4 DEF EditFile, ModeInv, OrderInv, SnapInv, PreflightInv, WiredIsServing
    <2>3. RollbackStaysPossible' /\ KubeconfigFirst'
      BY <1>0, <1>4, <2>1 DEF EditFile, RollbackStaysPossible, KubeconfigFirst
    <2> QED
      BY <2>2, <2>3 DEF CutoverInv
  <1> QED
    BY <1>1, <1>2, <1>3, <1>4 DEF World

LEMMA CutoverInductive == Spec => [](TypeOK /\ CutoverInv)
  <1>1. Init => TypeOK /\ CutoverInv
    BY TypeInit, CutoverInit
  <1>2. TypeOK /\ CutoverInv /\ [Next]_vars => (TypeOK /\ CutoverInv)'
    <2>1. TypeOK /\ CutoverInv /\ UNCHANGED vars => (TypeOK /\ CutoverInv)'
      BY DEF vars, TypeOK, CutoverInv, ModeInv, OrderInv, SnapInv, PreflightInv,
             RollbackStaysPossible, KubeconfigFirst, WiredIsServing
    <2> QED
      BY <2>1, TypeCommand, TypeWorld, CutoverCommand, CutoverWorld DEF Next
  <1> QED
    BY <1>1, <1>2, PTL DEF Spec

\* Whatever fails, is killed or re-run, a node given the webhook flag has a
\* snapshot without it (the `cp -n` of Run).
THEOREM RollbackPossible == Spec => []RollbackStaysPossible
  BY CutoverInductive, PTL DEF CutoverInv

\* No file, and no running apiserver, gets the flag before the node has the
\* kubeconfig it names (preflight).
THEOREM KubeconfigBeforeFlag == Spec => []KubeconfigFirst
  BY CutoverInductive, PTL DEF CutoverInv

\* A node reported as wired serves, with the flag in the running process
\* (waitAPIServerReady, verifyFlagLive).
THEOREM WiredNodesServe == Spec => []WiredIsServing
  BY CutoverInductive, PTL DEF CutoverInv

HIDE DEF nodes, env, result

-----------------------------------------------------------------------------
(*****************************************************************************)
(* NodeInstall, for any bundles and any number of installs and reboots.      *)
(*                                                                           *)
(* The argument: the webhook block is in the config or in the hands of a     *)
(* script about to re-append it, and a script about to write has seen it     *)
(* (BlockHeld); and the script of a run that began alone has, at each of its *)
(* stages, done what the stages before it do (OneScript, RunProgress).       *)
(*****************************************************************************)

\* Every preserved block is on its way back: the config has the flag or a script that is
\* about to re-append holds it, and a script about to write has seen it.
BlockHeld ==
  /\ cutOver => role = "server"
  /\ cutOver /\ ~torn =>
       /\ conf.webhook \/ \E r \in Installs : HoldsBlock(r)
       /\ \A r \in Installs : ScriptAt(r, "write") => scripts[r].kept

BundleInStore ==
  command.bundle # "none" => anchors = command.bundle /\ store = command.bundle

\* What the script of the current run has done when nothing else runs beside it.
TrustStage(s) ==
  /\ s.at = "trust" => s.bundle = command.bundle
  /\ s.at \in {"update", "verify"} => command.bundle # "none" /\ anchors = command.bundle
  /\ s.at \in {"read", "write", "append", "start", "wait", "done"} => BundleInStore
ReadStage(s) ==
  ~command.active /\ ~command.missed =>
    /\ s.at \in {"append", "start"} => unit.state = "off"
    /\ s.at \in {"wait", "done"} => unit.read = conf

OneScript ==
  /\ \A r \in Installs : r > command.run => scripts[r].at = "none"
  /\ command.at # "ended" => command.run \in Installs /\ command.outcome = "none"
  /\ command.at \in {"probe", "gate", "stage", "run"} => scripts[command.run].at = "none"
  /\ command.alone /\ (command.at # "ended" \/ command.outcome = "installed") =>
       \A r \in Installs : Alive(r) => r = command.run /\ command.at = "await"

RunProgress ==
  command.alone =>
    /\ command.at = "await" => TrustStage(scripts[command.run]) /\ ReadStage(scripts[command.run])
    /\ command.at = "restart" => BundleInStore
    /\ command.outcome = "installed" =>
         BundleInStore /\ (~command.missed => unit.read = conf)

NodeInv == NodeTypeOK /\ BlockHeld /\ OneScript /\ RunProgress

USE InstallAssumption DEF Installs, Anchor, Config, trustVars, confVars, worldVars

CommandRecord == [at : CommandLabels, run : 0..MaxInstalls, force : BOOLEAN, active : BOOLEAN,
                  bundle : Anchor, alone : BOOLEAN, missed : BOOLEAN,
                  outcome : {"none", "failed", "skipped", "installed"}]
ScriptRecord == [at : AliveLabels \union {"none", "done", "failed"},
                 kept : BOOLEAN, bundle : Anchor, backup : Anchor]

UnitRecord == [state : {"off", "activating", "active"}, read : Config]

\* The type invariant spelled out, in the old state and in the new one.
LEMMA NodeTypes ==
  NodeTypeOK <=>
    /\ role \in {"server", "agent"} /\ command \in CommandRecord
    /\ scripts \in [Installs -> ScriptRecord] /\ conf \in Config /\ unit \in UnitRecord
    /\ staged \in Anchor /\ anchors \in Anchor /\ store \in Anchor
    /\ cutOver \in BOOLEAN /\ torn \in BOOLEAN /\ reboots \in 0..MaxReboots
  BY DEF NodeTypeOK, CommandRecord, ScriptRecord, UnitRecord

LEMMA NodeTypesNext ==
  ASSUME role' \in {"server", "agent"}, command' \in CommandRecord,
         scripts' \in [Installs -> ScriptRecord], conf' \in Config, unit' \in UnitRecord,
         staged' \in Anchor, anchors' \in Anchor, store' \in Anchor,
         cutOver' \in BOOLEAN, torn' \in BOOLEAN, reboots' \in 0..MaxReboots
  PROVE  NodeTypeOK'
  BY DEF NodeTypeOK, CommandRecord, ScriptRecord, UnitRecord

\* What the helpers of the actions return.
LEMMA ForgetfulOK ==
  \A at \in AliveLabels \union {"none", "done", "failed"} :
    Forgetful(at) \in ScriptRecord /\ Forgetful(at).at = at
  BY DEF Forgetful, ScriptRecord

LEMMA ReturnedOK ==
  \A run \in 0..MaxInstalls, outcome \in {"none", "failed", "skipped", "installed"} :
    /\ Returned(run, outcome) \in CommandRecord
    /\ Returned(run, outcome).at = "ended" /\ Returned(run, outcome).run = run
    /\ Returned(run, outcome).outcome = outcome
  BY DEF Returned, CommandRecord, CommandLabels

LEMMA UnitOK ==
  \A state \in {"off", "activating", "active"}, read \in Config :
    LET u == [state |-> state, read |-> read] IN u \in UnitRecord /\ u.state = state /\ u.read = read
  BY DEF UnitRecord

LEMMA ScriptSet ==
  ASSUME scripts \in [Installs -> ScriptRecord], NEW r \in Installs, NEW k \in ScriptRecord,
         scripts' = [scripts EXCEPT ![r] = k]
  PROVE  /\ scripts' \in [Installs -> ScriptRecord] /\ scripts'[r] = k
         /\ \A o \in Installs \ {r} : scripts'[o] = scripts[o]
  OBVIOUS

\* A step of a script that moves its label alone, or starts its record over.
LEMMA ScriptMoves ==
  ASSUME NodeTypeOK, NEW r \in Installs,
         NEW at \in AliveLabels \union {"none", "done", "failed"},
         ScriptTo(r, at) \/ ScriptForgets(r, at)
  PROVE  /\ scripts' \in [Installs -> ScriptRecord] /\ scripts'[r].at = at
         /\ \A o \in Installs \ {r} : scripts'[o] = scripts[o]
  <1>1. scripts \in [Installs -> ScriptRecord]
    BY NodeTypes
  <1>2. CASE ScriptTo(r, at)
    BY <1>1, <1>2 DEF ScriptTo, ScriptRecord
  <1>3. CASE ScriptForgets(r, at)
    BY <1>1, <1>3, ForgetfulOK DEF ScriptForgets
  <1> QED
    BY <1>2, <1>3

\* What the trust part of the script can do.
LEMMA AnchorMoves ==
  ASSUME NodeTypeOK, NEW r \in Installs, InstallAnchor(r)
  PROVE  /\ scripts' \in [Installs -> ScriptRecord] /\ staged' \in Anchor /\ anchors' \in Anchor
         /\ \A o \in Installs \ {r} : scripts'[o] = scripts[o]
         /\ UNCHANGED <<command, unit, conf, cutOver, torn, role, reboots, store>>
         /\ ScriptAt(r, "trust")
         /\ \/ scripts[r].bundle = "none" /\ ScriptAt(r, "read")' /\ UNCHANGED anchors
            \/ ScriptAt(r, "failed")' /\ UNCHANGED anchors
            \/ /\ scripts[r].bundle # "none" /\ anchors' = scripts[r].bundle
               /\ scripts'[r].at \in {"update", "verify"}
  <1>1. /\ scripts \in [Installs -> ScriptRecord] /\ staged \in Anchor /\ anchors \in Anchor
        /\ UNCHANGED <<command, unit, conf, cutOver, torn, role, reboots>> /\ ScriptAt(r, "trust")
    BY NodeTypes DEF InstallAnchor
  <1>2. CASE SkipTrust(r)
    BY <1>1, <1>2, ScriptMoves DEF SkipTrust, ScriptAt, AliveLabels
  <1>3. CASE RefuseStaged(r)
    BY <1>1, <1>3, ScriptMoves DEF RefuseStaged, ScriptAt
  <1>4. CASE WriteAnchor(r)
    <2> DEFINE k == [scripts[r] EXCEPT !.at = "update", !.backup = anchors]
    <2>1. k \in ScriptRecord /\ k.at = "update"
      BY <1>1 DEF ScriptRecord, AliveLabels
    <2>2. scripts' = [scripts EXCEPT ![r] = k]
      BY <1>4 DEF WriteAnchor
    <2> HIDE DEF k
    <2> QED
      BY <1>1, <1>4, <2>1, <2>2, ScriptSet DEF WriteAnchor, ScriptAt
  <1>5. CASE AnchorIsThere(r, "verify")
    BY <1>1, <1>5, ScriptMoves DEF AnchorIsThere, ScriptAt, AliveLabels
  <1> QED
    BY <1>2, <1>3, <1>4, <1>5 DEF InstallAnchor

LEMMA EndOK ==
  ASSUME command \in CommandRecord, InstallerFails \/ InstallerSucceeds
  PROVE  /\ command' \in CommandRecord /\ command'.at = "ended" /\ command'.run = command.run
         /\ InstallerFails => command'.outcome = "failed"
         /\ InstallerSucceeds =>
              /\ command'.outcome = "installed" /\ command'.bundle = command.bundle
              /\ command'.alone = command.alone /\ command'.missed = command.missed
  <1>1. /\ command.run \in 0..MaxInstalls /\ command.bundle \in Anchor
        /\ command.alone \in BOOLEAN /\ command.missed \in BOOLEAN
    BY DEF CommandRecord
  <1>2. CASE InstallerFails
    <2>1. command' = Returned(command.run, "failed")
      BY <1>2 DEF InstallerFails
    <2>2. command'.outcome = "failed" /\ ~InstallerSucceeds
      <3>1. command'.outcome = "failed"
        BY <1>1, <2>1, ReturnedOK
      <3>2. InstallerSucceeds => command'.outcome = "installed"
        BY <1>1 DEF InstallerSucceeds, Returned
      <3> QED
        BY <3>1, <3>2
    <2> QED
      BY <1>1, <2>1, <2>2, ReturnedOK
  <1>3. CASE InstallerSucceeds
    <2> DEFINE k == Returned(command.run, "installed")
    <2>1. /\ k \in CommandRecord /\ k.at = "ended" /\ k.run = command.run
          /\ k.outcome = "installed"
      BY <1>1, ReturnedOK
    <2>2. command' = [k EXCEPT !.bundle = command.bundle, !.alone = command.alone,
                               !.missed = command.missed]
      BY <1>3 DEF InstallerSucceeds
    <2> HIDE DEF k
    <2>3. /\ command' \in CommandRecord /\ command'.at = "ended" /\ command'.run = command.run
          /\ command'.outcome = "installed" /\ command'.bundle = command.bundle
          /\ command'.alone = command.alone /\ command'.missed = command.missed
      BY <1>1, <2>1, <2>2 DEF CommandRecord
    <2>4. ~InstallerFails
      BY <1>1, <2>3, ReturnedOK DEF InstallerFails
    <2> QED
      BY <2>3, <2>4
  <1> QED
    BY <1>2, <1>3

\* Each part of the invariant over a step of the node.
LEMMA TypeStep == ASSUME NodeTypeOK, NodeNext PROVE NodeTypeOK'
  <1>1. ASSUME NEW force \in BOOLEAN, NEW bundle \in Anchor, StartInstall(force, bundle)
        PROVE  NodeTypeOK'
    BY <1>1 DEF StartInstall, CommandLabels, NodeTypeOK
  <1>2. CASE ProbeService
    <2>1. PICK active \in BOOLEAN :
            command' = IF active /\ ~command.force THEN Returned(command.run, "skipped")
                       ELSE [command EXCEPT !.active = active,
                                            !.at = IF active THEN "gate" ELSE AfterGate]
      BY <1>2 DEF ProbeService
    <2>2. command \in CommandRecord /\ UNCHANGED <<scripts, unit, trustVars, confVars, worldVars>>
      BY <1>2, NodeTypes DEF ProbeService
    <2>3. command' \in CommandRecord
      BY <2>1, <2>2, ReturnedOK DEF CommandRecord, CommandLabels, AfterGate
    <2> QED
      BY <2>2, <2>3, NodeTypes, NodeTypesNext
  <1>3. CASE EnsureNoRunningVMs
    BY <1>3 DEF EnsureNoRunningVMs, InstallerTo, AfterGate, CommandLabels, NodeTypeOK
  <1>4. CASE PushBundle
    <2>1. command' = [command EXCEPT !.at = "run"] /\ command \in CommandRecord
      BY <1>4, NodeTypes DEF PushBundle, InstallerTo
    <2>2. command' \in CommandRecord
      BY <2>1 DEF CommandRecord, CommandLabels
    <2>3. staged' \in Anchor
      BY <1>4, <2>1 DEF PushBundle, CommandRecord
    <2> QED
      BY <1>4, <2>2, <2>3, NodeTypes, NodeTypesNext DEF PushBundle
  <1>5. CASE RunScript
    <2> DEFINE k == [scripts[command.run] EXCEPT !.at = "trust", !.bundle = command.bundle]
    <2>1. /\ command \in CommandRecord /\ command' = [command EXCEPT !.at = "await"]
          /\ scripts \in [Installs -> ScriptRecord]
          /\ scripts' = [scripts EXCEPT ![command.run] = k]
          /\ UNCHANGED <<unit, trustVars, confVars, worldVars>>
      BY <1>5, NodeTypes DEF RunScript, InstallerTo
    <2>2. command' \in CommandRecord
      BY <2>1 DEF CommandRecord, CommandLabels
    <2>3. scripts' \in [Installs -> ScriptRecord]
      <3>1. CASE command.run \in Installs
        <4>1. k \in ScriptRecord
          <5>1. scripts[command.run] \in ScriptRecord /\ command.bundle \in Anchor
            BY <2>1, <3>1 DEF CommandRecord
          <5> QED
            BY <5>1 DEF ScriptRecord, AliveLabels
        <4> HIDE DEF k
        <4> QED
          BY <2>1, <3>1, <4>1, ScriptSet
      <3>2. CASE command.run \notin Installs
        BY <2>1, <3>2
      <3> QED
        BY <3>1, <3>2
    <2> QED
      BY <2>1, <2>2, <2>3, NodeTypes, NodeTypesNext
  <1>6. CASE ScriptReturns
    <2>1. command \in CommandRecord /\ UNCHANGED <<scripts, unit, trustVars, confVars, worldVars>>
      BY <1>6, NodeTypes DEF ScriptReturns
    <2>2. \/ command' = [command EXCEPT !.at = "restart"] \/ InstallerFails \/ InstallerSucceeds
      BY <1>6 DEF ScriptReturns, InstallerTo
    <2>3. command' \in CommandRecord
      BY <2>1, <2>2, EndOK DEF CommandRecord, CommandLabels
    <2> QED
      BY <2>1, <2>3, NodeTypes, NodeTypesNext
  <1>7. CASE RestartService
    <2>1. /\ command \in CommandRecord /\ conf \in Config
          /\ UNCHANGED <<scripts, trustVars, confVars, worldVars>>
      BY <1>7, NodeTypes DEF RestartService
    <2>2. unit' \in UnitRecord /\ command' \in CommandRecord
      BY <1>7, <2>1, UnitOK, EndOK DEF RestartService
    <2> QED
      BY <2>1, <2>2, NodeTypes, NodeTypesNext
  <1>8. CASE Abandon
    BY <1>8, ReturnedOK DEF Abandon, InstallerFails, NodeTypeOK, CommandRecord
  <1>9. CASE ServiceUp
    <2>1. unit' \in UnitRecord
      BY <1>9, NodeTypes DEF ServiceUp, UnitRecord
    <2> QED
      BY <1>9, <2>1, NodeTypes, NodeTypesNext DEF ServiceUp
  <1>10. CASE ServiceRestarts
    BY <1>10 DEF ServiceRestarts, NodeTypeOK
  <1>11. CASE Reboot
    BY <1>11, ForgetfulOK DEF Reboot, NodeTypeOK, ScriptRecord
  <1>12. CASE CutoverNode
    BY <1>12 DEF CutoverNode, NodeTypeOK
  <1>13. ASSUME NEW r \in Installs, InstallAnchor(r)
        PROVE  NodeTypeOK'
    BY <1>13, AnchorMoves, NodeTypes, NodeTypesNext
  <1>14. ASSUME NEW r \in Installs, UpdateStore(r)
        PROVE  NodeTypeOK'
    <2>1. scripts[r].backup \in Anchor
      BY NodeTypes DEF ScriptRecord
    <2>2. scripts' \in [Installs -> ScriptRecord]
      BY <1>14, ScriptMoves DEF UpdateStore, AliveLabels
    <2>3. staged' \in Anchor /\ anchors' \in Anchor /\ store' \in Anchor
      BY <1>14, <2>1, NodeTypes, NodeTypesNext DEF UpdateStore
    <2> QED
      BY <1>14, <2>2, <2>3, NodeTypes, NodeTypesNext DEF UpdateStore
  <1>15. ASSUME NEW r \in Installs, VerifyStore(r)
        PROVE  NodeTypeOK'
    BY <1>15, ForgetfulOK DEF VerifyStore, ScriptForgets, AliveLabels, NodeTypeOK,
       ScriptRecord
  <1>16. ASSUME NEW r \in Installs, ReadBlock(r)
        PROVE  NodeTypeOK'
    <2> DEFINE k == [scripts[r] EXCEPT !.at = "write",
                                      !.kept = role = "server" /\ conf.webhook]
    <2>1. k \in ScriptRecord
      <3>1. scripts[r] \in ScriptRecord /\ (role = "server" /\ conf.webhook) \in BOOLEAN
        BY NodeTypes
      <3> QED
        BY <3>1 DEF ScriptRecord, AliveLabels
    <2>2. scripts' = [scripts EXCEPT ![r] = k]
      BY <1>16 DEF ReadBlock
    <2> HIDE DEF k
    <2>3. scripts' \in [Installs -> ScriptRecord]
      BY <2>1, <2>2, ScriptSet, NodeTypes
    <2>4. torn' \in BOOLEAN
      BY <1>16 DEF ReadBlock
    <2> QED
      BY <1>16, <2>3, <2>4, NodeTypes, NodeTypesNext DEF ReadBlock
  <1>17. ASSUME NEW r \in Installs, WriteConfig(r)
        PROVE  NodeTypeOK'
    <2>1. command' \in CommandRecord
      BY <1>17, NodeTypes DEF WriteConfig, CommandRecord
    <2>2. scripts' \in [Installs -> ScriptRecord]
      BY <1>17, ScriptMoves DEF WriteConfig, AliveLabels
    <2>3. conf' \in Config
      BY <1>17 DEF WriteConfig
    <2> QED
      BY <1>17, <2>1, <2>2, <2>3, NodeTypes, NodeTypesNext DEF WriteConfig
  <1>18. ASSUME NEW r \in Installs, ReappendBlock(r)
        PROVE  NodeTypeOK'
    <2>1. scripts' \in [Installs -> ScriptRecord]
      BY <1>18, ScriptMoves DEF ReappendBlock, AliveLabels
    <2>2. conf' \in Config
      BY <1>18, NodeTypes DEF ReappendBlock, ScriptRecord
    <2> QED
      BY <1>18, <2>1, <2>2, NodeTypes, NodeTypesNext DEF ReappendBlock
  <1>19. ASSUME NEW r \in Installs, StartService(r)
        PROVE  NodeTypeOK'
    <2>1. scripts' \in [Installs -> ScriptRecord]
      BY <1>19, ScriptMoves DEF StartService, AliveLabels
    <2>2. unit' \in UnitRecord
      BY <1>19, UnitOK, NodeTypes DEF StartService
    <2> QED
      BY <1>19, <2>1, <2>2, NodeTypes, NodeTypesNext DEF StartService
  <1>20. ASSUME NEW r \in Installs, AwaitService(r)
        PROVE  NodeTypeOK'
    BY <1>20, ForgetfulOK DEF AwaitService, ScriptForgets, NodeTypeOK, ScriptRecord
  <1>21. ASSUME NEW r \in Installs, ScriptEnds(r)
        PROVE  NodeTypeOK'
    BY <1>21, ForgetfulOK DEF ScriptEnds, ScriptForgets, NodeTypeOK, ScriptRecord
  <1> QED
    BY <1>1, <1>2, <1>3, <1>4, <1>5, <1>6, <1>7, <1>8, <1>9, <1>10, <1>11, <1>12, <1>13,
       <1>14, <1>15, <1>16, <1>17, <1>18, <1>19, <1>20, <1>21 DEF NodeNext

LEMMA BlockStep == ASSUME NodeTypeOK, OneScript, BlockHeld, NodeNext PROVE BlockHeld'
  <1>1. ASSUME NEW force \in BOOLEAN, NEW bundle \in Anchor, StartInstall(force, bundle)
        PROVE  BlockHeld'
    BY <1>1 DEF StartInstall, ScriptAt, BlockHeld, HoldsBlock
  <1>2. CASE ProbeService
    BY <1>2 DEF ProbeService, ScriptAt, BlockHeld, HoldsBlock
  <1>3. CASE EnsureNoRunningVMs
    BY <1>3 DEF EnsureNoRunningVMs, ScriptAt, BlockHeld, HoldsBlock
  <1>4. CASE PushBundle
    BY <1>4 DEF PushBundle, ScriptAt, BlockHeld, HoldsBlock
  <1>5. CASE RunScript
    <2>1. command.run \in Installs /\ scripts[command.run].at = "none"
      BY <1>5 DEF RunScript, InstallerAt, OneScript
    <2>2. /\ scripts'[command.run].at = "trust"
          /\ \A o \in Installs \ {command.run} : scripts'[o] = scripts[o]
          /\ UNCHANGED <<conf, cutOver, torn, role>>
      BY <1>5, <2>1, NodeTypes DEF RunScript, ScriptRecord, confVars, worldVars
    <2> QED
      BY <2>1, <2>2 DEF BlockHeld, HoldsBlock, ScriptAt
  <1>6. CASE ScriptReturns
    BY <1>6 DEF ScriptReturns, ScriptAt, BlockHeld, HoldsBlock
  <1>7. CASE RestartService
    BY <1>7 DEF RestartService, ScriptAt, BlockHeld, HoldsBlock
  <1>8. CASE Abandon
    BY <1>8 DEF Abandon, ScriptAt, BlockHeld, HoldsBlock
  <1>9. CASE ServiceUp
    BY <1>9 DEF ServiceUp, ScriptAt, BlockHeld, HoldsBlock
  <1>10. CASE ServiceRestarts
    BY <1>10 DEF ServiceRestarts, ScriptAt, BlockHeld, HoldsBlock
  <1>11. CASE Reboot
    BY <1>11, ForgetfulOK DEF Reboot, ScriptAt, NodeTypeOK, BlockHeld
  <1>12. CASE CutoverNode
    BY <1>12 DEF CutoverNode, ScriptAt, BlockHeld
  <1>13. ASSUME NEW r \in Installs, InstallAnchor(r)
        PROVE  BlockHeld'
    <2>1. /\ scripts[r].at = "trust" /\ scripts'[r].at \notin {"write", "append"}
          /\ \A o \in Installs \ {r} : scripts'[o] = scripts[o]
          /\ UNCHANGED <<conf, cutOver, torn, role>>
      BY <1>13, AnchorMoves DEF ScriptAt
    <2> QED
      BY <2>1 DEF BlockHeld, HoldsBlock, ScriptAt
  <1>14. ASSUME NEW r \in Installs, UpdateStore(r)
        PROVE  BlockHeld'
    <2>1. /\ scripts[r].at = "update" /\ scripts'[r].at \notin {"write", "append"}
          /\ \A o \in Installs \ {r} : scripts'[o] = scripts[o]
          /\ UNCHANGED <<conf, cutOver, torn, role>>
      BY <1>14, ScriptMoves DEF UpdateStore, ScriptAt, AliveLabels
    <2> QED
      BY <2>1 DEF BlockHeld, HoldsBlock, ScriptAt
  <1>15. ASSUME NEW r \in Installs, VerifyStore(r)
        PROVE  BlockHeld'
    BY <1>15, ForgetfulOK DEF VerifyStore, ScriptAt, ScriptForgets, AliveLabels,
       BlockHeld, HoldsBlock
  <1>16. ASSUME NEW r \in Installs, ReadBlock(r)
        PROVE  BlockHeld'
    BY <1>16 DEF ReadBlock, ScriptAt, NodeTypeOK, BlockHeld
  <1>17. ASSUME NEW r \in Installs, WriteConfig(r)
        PROVE  BlockHeld'
    BY <1>17 DEF WriteConfig, ScriptAt, ScriptTo, NodeTypeOK, BlockHeld, HoldsBlock
  <1>18. ASSUME NEW r \in Installs, ReappendBlock(r)
        PROVE  BlockHeld'
    BY <1>18, ForgetfulOK DEF ReappendBlock, ScriptAt, ScriptForgets, AliveLabels,
       NodeTypeOK, BlockHeld, HoldsBlock
  <1>19. ASSUME NEW r \in Installs, StartService(r)
        PROVE  BlockHeld'
    BY <1>19 DEF StartService, ScriptAt, ScriptTo, BlockHeld, HoldsBlock
  <1>20. ASSUME NEW r \in Installs, AwaitService(r)
        PROVE  BlockHeld'
    BY <1>20, ForgetfulOK DEF AwaitService, ScriptAt, ScriptForgets, BlockHeld,
       HoldsBlock
  <1>21. ASSUME NEW r \in Installs, ScriptEnds(r)
        PROVE  BlockHeld'
    BY <1>21, ForgetfulOK DEF ScriptEnds, ScriptAt, ScriptForgets, NodeTypeOK,
       BlockHeld, HoldsBlock
  <1> QED
    BY <1>1, <1>2, <1>3, <1>4, <1>5, <1>6, <1>7, <1>8, <1>9, <1>10, <1>11, <1>12, <1>13,
       <1>14, <1>15, <1>16, <1>17, <1>18, <1>19, <1>20, <1>21 DEF NodeNext

LEMMA OneStep == ASSUME NodeTypeOK, OneScript, NodeNext PROVE OneScript'
  <1>1. ASSUME NEW force \in BOOLEAN, NEW bundle \in Anchor, StartInstall(force, bundle)
        PROVE  OneScript'
    BY <1>1 DEF StartInstall, Alive, NodeTypeOK, OneScript
  <1>2. CASE ProbeService
    BY <1>2, ReturnedOK DEF ProbeService, InstallerAt, Alive, OneScript
  <1>3. CASE EnsureNoRunningVMs
    BY <1>3 DEF EnsureNoRunningVMs, InstallerAt, InstallerTo, Alive, OneScript
  <1>4. CASE PushBundle
    BY <1>4 DEF PushBundle, InstallerAt, InstallerTo, Alive, OneScript
  <1>5. CASE RunScript
    BY <1>5 DEF RunScript, InstallerAt, InstallerTo, Alive, OneScript
  <1>6. CASE ScriptReturns
    <2>1. /\ command \in CommandRecord /\ command.at = "await" /\ UNCHANGED scripts
          /\ scripts[command.run].at \in {"failed", "done"}
      BY <1>6, NodeTypes DEF ScriptReturns, InstallerAt
    <2>2. CASE command' = [command EXCEPT !.at = "restart"]
      BY <2>1, <2>2 DEF OneScript, CommandRecord, Alive, AliveLabels
    <2>3. CASE InstallerFails \/ InstallerSucceeds
      BY <2>1, <2>3, EndOK DEF OneScript, Alive, AliveLabels
    <2> QED
      BY <1>6, <2>2, <2>3 DEF ScriptReturns, InstallerTo
  <1>7. CASE RestartService
    BY <1>7, EndOK, NodeTypes DEF RestartService, InstallerAt, OneScript, Alive
  <1>8. CASE Abandon
    BY <1>8, ReturnedOK DEF Abandon, InstallerFails, NodeTypeOK, OneScript
  <1>9. CASE ServiceUp
    BY <1>9 DEF ServiceUp, Alive, OneScript
  <1>10. CASE ServiceRestarts
    BY <1>10 DEF ServiceRestarts, Alive, OneScript
  <1>11. CASE Reboot
    BY <1>11 DEF Reboot, Alive, AliveLabels, OneScript
  <1>12. CASE CutoverNode
    BY <1>12 DEF CutoverNode, Alive, OneScript
  <1>13. ASSUME NEW r \in Installs, InstallAnchor(r)
        PROVE  OneScript'
    <2>1. /\ scripts[r].at = "trust"
          /\ \A o \in Installs \ {r} : scripts'[o] = scripts[o]
          /\ UNCHANGED command
      BY <1>13, AnchorMoves DEF ScriptAt
    <2> QED
      BY <2>1 DEF OneScript, Alive, AliveLabels
  <1>14. ASSUME NEW r \in Installs, UpdateStore(r)
        PROVE  OneScript'
    BY <1>14 DEF UpdateStore, ScriptAt, ScriptForgets, Alive, AliveLabels, NodeTypeOK,
       OneScript
  <1>15. ASSUME NEW r \in Installs, VerifyStore(r)
        PROVE  OneScript'
    BY <1>15 DEF VerifyStore, ScriptAt, ScriptForgets, Alive, NodeTypeOK, OneScript
  <1>16. ASSUME NEW r \in Installs, ReadBlock(r)
        PROVE  OneScript'
    BY <1>16 DEF ReadBlock, ScriptAt, Alive, NodeTypeOK, OneScript
  <1>17. ASSUME NEW r \in Installs, WriteConfig(r)
        PROVE  OneScript'
    BY <1>17 DEF WriteConfig, ScriptAt, ScriptTo, Alive, NodeTypeOK, OneScript
  <1>18. ASSUME NEW r \in Installs, ReappendBlock(r)
        PROVE  OneScript'
    BY <1>18 DEF ReappendBlock, ScriptAt, ScriptForgets, Alive, NodeTypeOK, OneScript
  <1>19. ASSUME NEW r \in Installs, StartService(r)
        PROVE  OneScript'
    BY <1>19 DEF StartService, ScriptAt, ScriptTo, Alive, NodeTypeOK, OneScript
  <1>20. ASSUME NEW r \in Installs, AwaitService(r)
        PROVE  OneScript'
    BY <1>20 DEF AwaitService, ScriptAt, ScriptForgets, Alive, NodeTypeOK, OneScript
  <1>21. ASSUME NEW r \in Installs, ScriptEnds(r)
        PROVE  OneScript'
    BY <1>21 DEF ScriptEnds, ScriptForgets, Alive, AliveLabels, OneScript
  <1> QED
    BY <1>1, <1>2, <1>3, <1>4, <1>5, <1>6, <1>7, <1>8, <1>9, <1>10, <1>11, <1>12, <1>13,
       <1>14, <1>15, <1>16, <1>17, <1>18, <1>19, <1>20, <1>21 DEF NodeNext

LEMMA ProgressStep == ASSUME NodeTypeOK, OneScript, RunProgress, NodeNext PROVE RunProgress'
  <1>1. ASSUME NEW force \in BOOLEAN, NEW bundle \in Anchor, StartInstall(force, bundle)
        PROVE  RunProgress'
    BY <1>1 DEF StartInstall, RunProgress
  <1>2. CASE ProbeService
    BY <1>2, ReturnedOK DEF ProbeService, AfterGate, NodeTypeOK, RunProgress,
       BundleInStore
  <1>3. CASE EnsureNoRunningVMs
    BY <1>3 DEF EnsureNoRunningVMs, InstallerTo, AfterGate, RunProgress, BundleInStore
  <1>4. CASE PushBundle
    BY <1>4 DEF PushBundle, InstallerTo, RunProgress, BundleInStore
  <1>5. CASE RunScript
    BY <1>5 DEF RunScript, InstallerAt, InstallerTo, OneScript, RunProgress, TrustStage,
       ReadStage
  <1>6. CASE ScriptReturns
    <2>1. /\ command \in CommandRecord /\ command.at = "await" /\ command.outcome = "none"
          /\ UNCHANGED <<scripts, unit, conf, anchors, store>>
      BY <1>6, NodeTypes DEF ScriptReturns, InstallerAt, OneScript
    <2>2. CASE InstallerFails
      BY <2>1, <2>2, EndOK DEF RunProgress
    <2>3. CASE /\ scripts[command.run].at = "done" /\ command.active
               /\ command' = [command EXCEPT !.at = "restart"]
      BY <2>1, <2>3 DEF RunProgress, TrustStage, BundleInStore, CommandRecord
    <2>4. CASE scripts[command.run].at = "done" /\ ~command.active /\ InstallerSucceeds
      BY <2>1, <2>4, EndOK DEF RunProgress, TrustStage, ReadStage, BundleInStore
    <2> QED
      BY <1>6, <2>2, <2>3, <2>4 DEF ScriptReturns, InstallerTo
  <1>7. CASE RestartService
    <2>1. /\ command \in CommandRecord /\ command.at = "restart"
          /\ UNCHANGED <<conf, anchors, store>>
      BY <1>7, NodeTypes DEF RestartService, InstallerAt
    <2>2. InstallerFails \/ (InstallerSucceeds /\ unit'.read = conf)
      BY <1>7 DEF RestartService
    <2> QED
      BY <2>1, <2>2, EndOK DEF RunProgress, BundleInStore
  <1>8. CASE Abandon
    BY <1>8, ReturnedOK DEF Abandon, InstallerFails, NodeTypeOK, RunProgress
  <1>9. CASE ServiceUp
    BY <1>9 DEF ServiceUp, RunProgress, TrustStage, ReadStage, BundleInStore
  <1>10. CASE ServiceRestarts
    BY <1>10 DEF ServiceRestarts, RunProgress, TrustStage, ReadStage, BundleInStore
  <1>11. CASE Reboot
    BY <1>11, ForgetfulOK DEF Reboot, OneScript, RunProgress, TrustStage, ReadStage,
       BundleInStore
  <1>12. CASE CutoverNode
    BY <1>12 DEF CutoverNode, RunProgress, TrustStage, ReadStage, BundleInStore
  <1>13. ASSUME NEW r \in Installs, InstallAnchor(r)
        PROVE  RunProgress'
    <2> SUFFICES ASSUME command.alone
                 PROVE  RunProgress'
      BY <1>13, AnchorMoves DEF RunProgress
    <2>1. /\ UNCHANGED <<command, unit, conf, store>> /\ scripts[r].at = "trust"
          /\ \/ /\ scripts[r].bundle = "none" /\ UNCHANGED anchors /\ scripts'[r].at = "read"
             \/ scripts'[r].at = "failed" /\ UNCHANGED anchors
             \/ /\ scripts[r].bundle # "none" /\ anchors' = scripts[r].bundle
                /\ scripts'[r].at \in {"update", "verify"}
      BY <1>13, AnchorMoves DEF ScriptAt
    <2>2. CASE command.at = "ended" /\ command.outcome # "installed"
      BY <2>1, <2>2 DEF RunProgress
    <2>3. CASE command.at # "ended" \/ command.outcome = "installed"
      <3>1. r = command.run /\ command.at = "await" /\ command.outcome = "none"
        BY <2>1, <2>3 DEF OneScript, Alive, AliveLabels
      <3> QED
        BY <2>1, <3>1 DEF RunProgress, TrustStage, ReadStage, BundleInStore
    <2> QED
      BY <2>2, <2>3
  <1>14. ASSUME NEW r \in Installs, UpdateStore(r)
        PROVE  RunProgress'
    BY <1>14, ForgetfulOK DEF UpdateStore, ScriptAt, ScriptForgets, Alive, AliveLabels,
       NodeTypeOK, OneScript, RunProgress, TrustStage, ReadStage
  <1>15. ASSUME NEW r \in Installs, VerifyStore(r)
        PROVE  RunProgress'
    BY <1>15, ForgetfulOK DEF VerifyStore, ScriptAt, ScriptForgets, AliveLabels,
       RunProgress, TrustStage, ReadStage, BundleInStore
  <1>16. ASSUME NEW r \in Installs, ReadBlock(r)
        PROVE  RunProgress'
    BY <1>16 DEF ReadBlock, ScriptAt, RunProgress, TrustStage, ReadStage, BundleInStore
  <1>17. ASSUME NEW r \in Installs, WriteConfig(r)
        PROVE  RunProgress'
    BY <1>17 DEF WriteConfig, ScriptAt, ScriptTo, Alive, NodeTypeOK, OneScript,
       RunProgress, TrustStage, ReadStage, BundleInStore
  <1>18. ASSUME NEW r \in Installs, ReappendBlock(r)
        PROVE  RunProgress'
    BY <1>18, ForgetfulOK DEF ReappendBlock, ScriptAt, ScriptForgets, Alive,
       AliveLabels, OneScript, RunProgress, TrustStage, ReadStage, BundleInStore
  <1>19. ASSUME NEW r \in Installs, StartService(r)
        PROVE  RunProgress'
    BY <1>19 DEF StartService, ScriptAt, ScriptTo, Alive, AliveLabels, NodeTypeOK,
       OneScript, RunProgress, TrustStage, ReadStage, BundleInStore
  <1>20. ASSUME NEW r \in Installs, AwaitService(r)
        PROVE  RunProgress'
    BY <1>20, ForgetfulOK DEF AwaitService, ScriptAt, ScriptForgets, RunProgress,
       TrustStage, ReadStage, BundleInStore
  <1>21. ASSUME NEW r \in Installs, ScriptEnds(r)
        PROVE  RunProgress'
    BY <1>21, ForgetfulOK DEF ScriptEnds, ScriptForgets, RunProgress, TrustStage,
       ReadStage, BundleInStore
  <1> QED
    BY <1>1, <1>2, <1>3, <1>4, <1>5, <1>6, <1>7, <1>8, <1>9, <1>10, <1>11, <1>12, <1>13,
       <1>14, <1>15, <1>16, <1>17, <1>18, <1>19, <1>20, <1>21 DEF NodeNext

\* The initial states, the steps, and with them every behaviour.
LEMMA NodeInitInv == NodeInit => NodeInv
  <1> SUFFICES ASSUME NodeInit
               PROVE  NodeInv
    OBVIOUS
  <1>1. /\ command = Returned(0, "none") /\ command.at = "ended" /\ command.outcome = "none"
        /\ command.run = 0 /\ command \in CommandRecord
    BY ReturnedOK DEF NodeInit
  <1>a. role \in {"server", "agent"} /\ cutOver \in {FALSE, role = "server"}
    BY DEF NodeInit
  <1>b. cutOver \in BOOLEAN /\ (cutOver => role = "server")
    BY <1>a
  <1>c. conf = [by |-> 0, webhook |-> cutOver]
    BY DEF NodeInit, NoConfig
  <1>d. conf \in Config /\ conf.webhook = cutOver
    BY <1>b, <1>c
  <1>e. unit \in UnitRecord
    BY <1>b, <1>d DEF NodeInit, UnitRecord
  <1>2. /\ scripts = [r \in Installs |-> Forgetful("none")] /\ conf.webhook = cutOver
        /\ conf \in Config /\ unit \in UnitRecord /\ cutOver \in BOOLEAN
        /\ cutOver => role = "server"
    BY <1>b, <1>d, <1>e DEF NodeInit
  <1>3. \A r \in Installs : scripts[r] \in ScriptRecord /\ scripts[r].at = "none"
    <2>1. Forgetful("none") \in ScriptRecord /\ Forgetful("none").at = "none"
      BY ForgetfulOK
    <2> QED
      BY <1>2, <2>1
  <1>4. NodeTypeOK
    <2>1. scripts \in [Installs -> ScriptRecord]
      BY <1>2, <1>3
    <2>2. /\ staged = "none" /\ anchors = "none" /\ store = "none" /\ torn = FALSE
          /\ reboots = 0 /\ reboots \in 0..MaxReboots
      BY DEF NodeInit
    <2> QED
      BY <1>1, <1>2, <1>a, <2>1, <2>2, NodeTypes
  <1>5. BlockHeld
    BY <1>2, <1>3 DEF BlockHeld, ScriptAt
  <1>6. OneScript /\ RunProgress
    BY <1>1, <1>3 DEF OneScript, RunProgress, Alive, AliveLabels
  <1> QED
    BY <1>4, <1>5, <1>6 DEF NodeInv

LEMMA NodeNextInv == NodeInv /\ [NodeNext]_nodeVars => NodeInv'
  <1> SUFFICES ASSUME NodeInv, [NodeNext]_nodeVars
               PROVE  NodeInv'
    OBVIOUS
  <1>1. CASE NodeNext
    BY <1>1, TypeStep, BlockStep, OneStep, ProgressStep DEF NodeInv
  <1>2. CASE UNCHANGED nodeVars
    BY <1>2 DEF NodeInv, nodeVars, NodeTypeOK, BlockHeld, OneScript, RunProgress,
       HoldsBlock, ScriptAt, Alive, TrustStage, ReadStage, BundleInStore
  <1> QED
    BY <1>1, <1>2

LEMMA NodeInvariant == NodeSpec => []NodeInv
  BY NodeInitInv, NodeNextInv, PTL DEF NodeSpec

LEMMA NodeImplies == NodeInv => NodeTypeOK /\ WebhookKept /\ InstalledIsReady
  BY DEF NodeInv, WebhookKept, InstalledIsReady, BlockHeld, RunProgress, BundleInStore

\* Installs, re-installs, cutovers and reboots leave every part of the node in its shape.
THEOREM NodeTypesKept == NodeSpec => []NodeTypeOK
  BY NodeInvariant, NodeImplies, PTL

\* The preserved block: a re-install of a node that was cut over keeps the webhook flag.
THEOREM NodeWebhookKept == NodeSpec => []WebhookKept
  BY NodeInvariant, NodeImplies, PTL

\* Install: success means the bundle is trusted and the service has read its config.
THEOREM NodeInstalled == NodeSpec => []InstalledIsReady
  BY NodeInvariant, NodeImplies, PTL

HIDE InstallAssumption DEF Installs, Anchor, Config, trustVars, confVars, worldVars

-----------------------------------------------------------------------------
(*****************************************************************************)
(* PlanReview, for any revisions of what an init reads, and any number of    *)
(* moves of the world outside between its steps.                             *)
(*                                                                           *)
(* The argument: an intact plan file is the one that was reviewed, and what  *)
(* an apply of it has loaded stays so (ReviewKept); while nothing outside    *)
(* moves, the context an ssh run was switched to, and the mode an automatic  *)
(* one was derived from, are still the plan's (ContextKept).                 *)
(*****************************************************************************)

TaskRecord == [at : TaskLabels, kind : Kinds, auto : BOOLEAN, plan : Plans,
               switched : BOOLEAN, moved : BOOLEAN]

\* An intact plan file is the reviewed plan, and so is what a run has loaded from it.
ReviewKept ==
  /\ \A f \in Facts : world[f] <= moves + 1
  /\ planFile.intact => planFile.plan = reviewed
  /\ TaskAt("confirm") => task.kind = "wizard"
  /\ task.kind = "applyPlan" /\ task.at \notin {"idle", "plan"} => task.plan = reviewed

\* Where the current context and the mode of its cluster stand while nothing outside moves.
ContextKept ==
  /\ task.plan.ssh /\ ~task.switched
       /\ task.at \in {"reprobe", "starter", "materials", "apply", "flux"} =>
       context \in {"ours", "none"}
  /\ task.auto /\ ~task.moved /\ task.at \in {"starter", "materials", "apply", "flux"} =>
       context # "none" /\ liveMode[context] = task.plan.mode

ReviewInv == ReviewTypeOK /\ ReviewKept /\ ContextKept

USE ReviewAssumption DEF written, outside, files

\* The type invariant spelled out, in the old state and in the new one.
LEMMA ReviewTypes ==
  ReviewTypeOK <=>
    /\ world \in [Facts -> Revisions \ {0}]
    /\ context \in Contexts /\ liveMode \in [{"ours", "other"} -> ClusterModes]
    /\ planFile \in [plan : Plans, intact : BOOLEAN] /\ reviewed \in Plans
    /\ task \in TaskRecord
    /\ overlay \in Overlays /\ starter \in Revisions
    /\ invocations \in 0..MaxInvocations /\ moves \in 0..MaxMoves
  BY DEF ReviewTypeOK, TaskRecord

LEMMA ReviewTypesNext ==
  ASSUME world' \in [Facts -> Revisions \ {0}],
         context' \in Contexts, liveMode' \in [{"ours", "other"} -> ClusterModes],
         planFile' \in [plan : Plans, intact : BOOLEAN], reviewed' \in Plans,
         task' \in TaskRecord, overlay' \in Overlays, starter' \in Revisions,
         invocations' \in 0..MaxInvocations, moves' \in 0..MaxMoves
  PROVE  ReviewTypeOK'
  BY DEF ReviewTypeOK, TaskRecord

\* What the helpers of the actions return.
LEMMA IdleOK == /\ Idle \in TaskRecord /\ NoPlan \in Plans
                /\ Idle.at = "idle" /\ Idle.kind = "dry" /\ Idle.auto = FALSE
  BY DEF Idle, TaskRecord, NoPlan, Plans, TaskLabels, Kinds, ClusterModes, Revisions

LEMMA GotoOK ==
  ASSUME task \in TaskRecord, NEW at \in TaskLabels, TaskGoto(at)
  PROVE  /\ task' \in TaskRecord /\ task'.at = at /\ task'.kind = task.kind
         /\ task'.auto = task.auto /\ task'.plan = task.plan
         /\ task'.switched = task.switched /\ task'.moved = task.moved
  BY DEF TaskGoto, TaskRecord

LEMMA BuiltOK ==
  ASSUME ReviewTypeOK
  PROVE  Built \in Plans /\ Built.ref = task.plan.ref
  <1>1. task.plan \in Plans /\ world["siblings"] \in Revisions
    BY ReviewTypes DEF TaskRecord, Facts
  <1>2. Siblings \in Revisions
    BY <1>1 DEF Siblings, Revisions
  <1> QED
    BY <1>1, <1>2 DEF Built, Plans

LEMMA MovingOK ==
  ASSUME ReviewTypeOK, Moving
  PROVE  /\ moves \in Nat /\ moves' = moves + 1 /\ moves < MaxMoves /\ moves' \in 0..MaxMoves
         /\ UNCHANGED <<overlay, starter, invocations>>
  BY ReviewTypes DEF Moving

\* Each part of the invariant over a step of a run or of the world.
LEMMA ReviewTypeStep == ASSUME ReviewTypeOK, ReviewKept, ReviewNext PROVE ReviewTypeOK'
  <1>1. CASE Invoke
    <2>1. PICK kind \in Kinds, auto \in BOOLEAN, fleet \in {"existing", "new"}, ssh \in BOOLEAN,
               asMode \in ClusterModes, ref \in Revisions :
            task' = [Idle EXCEPT !.at = "plan", !.kind = kind, !.auto = auto,
                       !.plan = [fleet |-> fleet, ssh |-> ssh, mode |-> asMode, ref |-> ref,
                                 tls |-> world["tls"], pins |-> 0]]
      <3>1. \A c \in {context} \ {"none"} : liveMode[c] \in ClusterModes
        BY ReviewTypes DEF Contexts
      <3>2. Probed \subseteq ClusterModes /\ Pinnable \subseteq ClusterModes
        BY <3>1 DEF Probed
      <3>3. Pinned(0) \subseteq Revisions
        BY ReviewTypes DEF Pinned, Facts, Revisions
      <3> QED
        <4>1. PICK kind \in Kinds, auto \in BOOLEAN, fleet \in {"existing", "new"}, ssh \in BOOLEAN :
                \E asMode \in IF auto THEN Probed ELSE Pinnable : \E ref \in Pinned(0) :
                  task' = [Idle EXCEPT !.at = "plan", !.kind = kind, !.auto = auto,
                             !.plan = [fleet |-> fleet, ssh |-> ssh, mode |-> asMode, ref |-> ref,
                                       tls |-> world["tls"], pins |-> 0]]
          BY <1>1 DEF Invoke
        <4>2. (IF auto THEN Probed ELSE Pinnable) \subseteq ClusterModes
          BY <3>2
        <4>3. PICK asMode \in ClusterModes, ref \in Revisions :
                task' = [Idle EXCEPT !.at = "plan", !.kind = kind, !.auto = auto,
                           !.plan = [fleet |-> fleet, ssh |-> ssh, mode |-> asMode, ref |-> ref,
                                     tls |-> world["tls"], pins |-> 0]]
          BY <3>3, <4>1, <4>2
        <4> QED
          BY <4>3
    <2>2. [fleet |-> fleet, ssh |-> ssh, mode |-> asMode, ref |-> ref,
           tls |-> world["tls"], pins |-> 0] \in Plans
      BY ReviewTypes DEF Plans, Facts, Revisions
    <2>3. task' \in TaskRecord
      BY <2>1, <2>2, IdleOK DEF TaskRecord, TaskLabels
    <2> QED
      BY <1>1, <2>3, ReviewTypes, ReviewTypesNext DEF Invoke
  <1>2. CASE DryRun
    BY <1>2, BuiltOK, IdleOK, ReviewTypes, ReviewTypesNext DEF DryRun, Saved
  <1>3. CASE ShowPlan
    BY <1>3, GotoOK, ReviewTypes, ReviewTypesNext DEF ShowPlan, TaskLabels
  <1>4. CASE BuildPlan
    <2>1. PICK ref \in Revisions : task' = [task EXCEPT !.at = "target", !.kind = "apply",
                                                        !.plan = [Built EXCEPT !.ref = ref]]
      <3>1. Pinned(task.plan.ref) \subseteq Revisions
        BY ReviewTypes DEF Pinned, Facts, Revisions, TaskRecord, Plans
      <3> QED
        BY <1>4, <3>1 DEF BuildPlan
    <2>2. [Built EXCEPT !.ref = ref] \in Plans
      BY BuiltOK DEF Plans
    <2>3. task' \in TaskRecord
      BY <2>1, <2>2, ReviewTypes DEF TaskRecord, TaskLabels, Kinds
    <2> QED
      BY <1>4, <2>3, ReviewTypes, ReviewTypesNext DEF BuildPlan
  <1>5. CASE LoadReviewed
    <2>1. planFile.plan \in Plans /\ task.plan \in Plans
      BY ReviewTypes DEF TaskRecord
    <2>2. [planFile.plan EXCEPT !.ref = task.plan.ref] \in Plans
      BY <2>1 DEF Plans
    <2>3. task' \in TaskRecord
      BY <1>5, <2>2, IdleOK, ReviewTypes DEF LoadReviewed, TaskRecord, TaskLabels
    <2> QED
      BY <1>5, <2>3, ReviewTypes, ReviewTypesNext DEF LoadReviewed
  <1>6. CASE Target
    <2>1. task' \in TaskRecord
      BY <1>6, ReviewTypes DEF Target, TaskRecord, TaskLabels
    <2>2. context' \in Contexts
      BY <1>6, ReviewTypes DEF Target, Contexts
    <2> QED
      BY <1>6, <2>1, <2>2, ReviewTypes, ReviewTypesNext DEF Target
  <1>7. CASE Reprobe
    <2>1. task' \in TaskRecord
      BY <1>7, IdleOK, ReviewTypes DEF Reprobe, TaskRecord, TaskLabels
    <2> QED
      BY <1>7, <2>1, ReviewTypes, ReviewTypesNext DEF Reprobe
  <1>8. CASE EnsureStarter
    <2>1. starter' \in Revisions
      BY <1>8, ReviewTypes DEF EnsureStarter, TaskRecord, Plans, Facts
    <2>2. task' \in TaskRecord
      BY <1>8, GotoOK, ReviewTypes DEF EnsureStarter, TaskLabels
    <2> QED
      BY <1>8, <2>1, <2>2, ReviewTypes, ReviewTypesNext DEF EnsureStarter
  <1>9. CASE ReloadMaterial
    <2>1. task' \in TaskRecord
      BY <1>9, IdleOK, ReviewTypes DEF ReloadMaterial, TaskRecord, TaskLabels
    <2> QED
      BY <1>9, <2>1, ReviewTypes, ReviewTypesNext DEF ReloadMaterial
  <1>10. CASE ApplyOverlay
    <2>1. task.plan \in Plans
      BY ReviewTypes DEF TaskRecord
    <2>2. overlay' \in Overlays
      BY <1>10, <2>1, ReviewTypes DEF ApplyOverlay, Overlays, Content, Plans
    <2>3. task' \in TaskRecord
      BY <1>10, GotoOK, ReviewTypes DEF ApplyOverlay, TaskLabels
    <2> QED
      BY <1>10, <2>2, <2>3, ReviewTypes, ReviewTypesNext DEF ApplyOverlay
  <1>11. CASE FluxInstall
    <2>1. liveMode' \in [{"ours", "other"} -> ClusterModes]
      BY <1>11, ReviewTypes DEF FluxInstall, ClusterModes
    <2>2. task' \in TaskRecord
      BY <1>11, GotoOK, ReviewTypes DEF FluxInstall, TaskLabels
    <2> QED
      BY <1>11, <2>1, <2>2, ReviewTypes, ReviewTypesNext DEF FluxInstall
  <1>12. CASE Fetch
    <2>1. task' \in TaskRecord
      BY <1>12, ReviewTypes DEF Fetch, TaskRecord, TaskLabels
    <2>2. context' \in Contexts
      BY <1>12, ReviewTypes DEF Fetch, Contexts
    <2> QED
      BY <1>12, <2>1, <2>2, ReviewTypes, ReviewTypesNext DEF Fetch
  <1>13. CASE Finalize
    <2>1. task' \in TaskRecord
      BY <1>13, IdleOK, ReviewTypes DEF Finalize, TaskRecord, TaskLabels
    <2> QED
      BY <1>13, <2>1, ReviewTypes, ReviewTypesNext DEF Finalize
  <1>14. CASE TaskFails
    <2>1. task' \in TaskRecord
      BY <1>14, IdleOK, ReviewTypes DEF TaskFails, TaskRecord, TaskLabels
    <2> QED
      BY <1>14, <2>1, ReviewTypes, ReviewTypesNext DEF TaskFails
  <1>15. CASE Drift
    <2>1. moves \in Nat /\ moves < MaxMoves /\ moves' = moves + 1
      BY <1>15, ReviewTypes DEF Drift, Moving
    <2>2. PICK f \in Facts : world' = [world EXCEPT ![f] = @ + 1]
      BY <1>15 DEF Drift
    <2>3. world[f] + 1 \in Revisions \ {0}
      BY <2>1, ReviewTypes DEF ReviewKept, Revisions
    <2>4. world' \in [Facts -> Revisions \ {0}]
      BY <2>2, <2>3, ReviewTypes
    <2> QED
      BY <1>15, <2>1, <2>4, ReviewTypes, ReviewTypesNext DEF Drift, Moving
  <1>16. CASE EditPlanFile
    <2>1. planFile.plan \in Plans /\ MaxMoves + 1 \in Revisions
      BY ReviewTypes DEF Revisions
    <2>2. [planFile.plan EXCEPT !.pins = MaxMoves + 1] \in Plans
      BY <2>1 DEF Plans
    <2>3. planFile' \in [plan : Plans, intact : BOOLEAN]
      BY <1>16, <2>2 DEF EditPlanFile
    <2>4. moves' \in 0..MaxMoves
      BY <1>16, ReviewTypes DEF EditPlanFile, Moving
    <2> QED
      BY <1>16, <2>3, <2>4, ReviewTypes, ReviewTypesNext DEF EditPlanFile, Moving
  <1>17. CASE SwitchContext
    <2>1. task' \in TaskRecord
      <3>1. task \in TaskRecord
        BY ReviewTypes
      <3> QED
        BY <1>17, <3>1 DEF SwitchContext, TaskRecord
    <2>a. moves' \in 0..MaxMoves /\ UNCHANGED <<overlay, starter, invocations>>
      BY <1>17, MovingOK DEF SwitchContext
    <2> QED
      BY <1>17, <2>a, <2>1, ReviewTypes, ReviewTypesNext DEF SwitchContext
  <1>18. CASE ClusterAdvances
    <2>1. task' \in TaskRecord
      <3>1. task \in TaskRecord
        BY ReviewTypes
      <3> QED
        BY <1>18, <3>1 DEF ClusterAdvances, TaskRecord
    <2>a. moves' \in 0..MaxMoves /\ UNCHANGED <<overlay, starter, invocations>>
      BY <1>18, MovingOK DEF ClusterAdvances
    <2>2. liveMode' \in [{"ours", "other"} -> ClusterModes]
      BY <1>18, ReviewTypes DEF ClusterAdvances, ClusterModes
    <2> QED
      BY <1>18, <2>a, <2>1, <2>2, ReviewTypes, ReviewTypesNext DEF ClusterAdvances
  <1> QED
    BY <1>1, <1>2, <1>3, <1>4, <1>5, <1>6, <1>7, <1>8, <1>9, <1>10, <1>11, <1>12, <1>13,
       <1>14, <1>15, <1>16, <1>17, <1>18 DEF ReviewNext

LEMMA ReviewStep == ASSUME ReviewTypeOK, ReviewKept, ReviewNext PROVE ReviewKept'
  <1>1. CASE Invoke
    BY <1>1 DEF Invoke, TaskAt, ReviewKept
  <1>2. CASE DryRun
    BY <1>2, IdleOK, BuiltOK DEF DryRun, Saved, ReviewKept, TaskAt
  <1>3. CASE ShowPlan
    BY <1>3 DEF ShowPlan, TaskGoto, ReviewKept
  <1>4. CASE BuildPlan
    BY <1>4 DEF BuildPlan, TaskAt, ReviewKept
  <1>5. CASE LoadReviewed
    <2>1. /\ planFile.plan \in Plans /\ task \in TaskRecord
          /\ UNCHANGED <<world, moves, planFile, reviewed>>
      BY <1>5, ReviewTypes DEF LoadReviewed
    <2>2. CASE task' = Idle
      BY <2>1, <2>2, IdleOK DEF ReviewKept, TaskAt
    <2>3. CASE /\ Loads(planFile) /\ VerifyInput(planFile.plan, task.plan)
               /\ task' = [task EXCEPT !.at = "target",
                                       !.plan = [planFile.plan EXCEPT !.ref = task.plan.ref]]
      <3>1. planFile.plan = reviewed /\ planFile.plan.ref = task.plan.ref
        BY <2>3 DEF ReviewKept, Loads, VerifyInput, Inputs
      <3>2. [planFile.plan EXCEPT !.ref = task.plan.ref] = planFile.plan
        BY <2>1, <3>1 DEF Plans
      <3>3. task'.at = "target" /\ task'.plan = reviewed
        BY <2>1, <2>3, <3>1, <3>2 DEF TaskRecord
      <3> QED
        BY <2>1, <3>3 DEF ReviewKept, TaskAt
    <2> QED
      BY <1>5, <2>2, <2>3 DEF LoadReviewed
  <1>6. CASE Target
    BY <1>6 DEF Target, TaskAt, ReviewKept
  <1>7. CASE Reprobe
    BY <1>7, IdleOK DEF Reprobe, TaskAt, ReviewKept
  <1>8. CASE EnsureStarter
    BY <1>8 DEF EnsureStarter, TaskAt, TaskGoto, ReviewKept
  <1>9. CASE ReloadMaterial
    BY <1>9, IdleOK DEF ReloadMaterial, TaskAt, ReviewKept
  <1>10. CASE ApplyOverlay
    BY <1>10 DEF ApplyOverlay, TaskAt, TaskGoto, ReviewKept
  <1>11. CASE FluxInstall
    BY <1>11 DEF FluxInstall, TaskAt, TaskGoto, ReviewKept
  <1>12. CASE Fetch
    BY <1>12 DEF Fetch, TaskAt, ReviewKept
  <1>13. CASE Finalize
    BY <1>13, IdleOK DEF Finalize, TaskAt, ReviewKept
  <1>14. CASE TaskFails
    BY <1>14, IdleOK DEF TaskFails, TaskAt, ReviewKept
  <1>15. CASE Drift
    <2>1. moves \in Nat /\ moves' = moves + 1
      BY <1>15, MovingOK DEF Drift
    <2>2. PICK f \in Facts : world' = [world EXCEPT ![f] = @ + 1]
      BY <1>15 DEF Drift
    <2>3. world \in [Facts -> Nat] /\ UNCHANGED <<planFile, reviewed, task>>
      BY <1>15, ReviewTypes DEF Drift, Revisions
    <2>4. \A g \in Facts : world'[g] <= moves' + 1
      BY <2>1, <2>2, <2>3 DEF ReviewKept
    <2> QED
      BY <2>3, <2>4 DEF ReviewKept, TaskAt
  <1>16. CASE EditPlanFile
    <2>1. moves \in Nat /\ moves' = moves + 1 /\ UNCHANGED world
      BY <1>16, MovingOK DEF EditPlanFile
    <2>2. world \in [Facts -> Nat]
      BY ReviewTypes DEF Revisions
    <2>3. \A g \in Facts : world'[g] <= moves' + 1
      BY <2>1, <2>2 DEF ReviewKept
    <2> QED
      BY <1>16, <2>3 DEF EditPlanFile, ReviewKept, TaskAt
  <1>17. CASE SwitchContext
    <2>1. moves \in Nat /\ moves' = moves + 1 /\ UNCHANGED world
      BY <1>17, MovingOK DEF SwitchContext
    <2>2. world \in [Facts -> Nat]
      BY ReviewTypes DEF Revisions
    <2>3. \A g \in Facts : world'[g] <= moves' + 1
      BY <2>1, <2>2 DEF ReviewKept
    <2>4. /\ UNCHANGED <<planFile, reviewed>> /\ task'.at = task.at /\ task'.kind = task.kind
          /\ task'.plan = task.plan
      <3>1. task \in TaskRecord
        BY ReviewTypes
      <3> QED
        BY <1>17, <3>1 DEF SwitchContext, TaskRecord
    <2> QED
      BY <2>3, <2>4 DEF ReviewKept, TaskAt
  <1>18. CASE ClusterAdvances
    <2>1. moves \in Nat /\ moves' = moves + 1 /\ UNCHANGED world
      BY <1>18, MovingOK DEF ClusterAdvances
    <2>2. world \in [Facts -> Nat]
      BY ReviewTypes DEF Revisions
    <2>3. \A g \in Facts : world'[g] <= moves' + 1
      BY <2>1, <2>2 DEF ReviewKept
    <2>4. /\ UNCHANGED <<planFile, reviewed>> /\ task'.at = task.at /\ task'.kind = task.kind
          /\ task'.plan = task.plan
      <3>1. task \in TaskRecord
        BY ReviewTypes
      <3> QED
        BY <1>18, <3>1 DEF ClusterAdvances, TaskRecord
    <2> QED
      BY <2>3, <2>4 DEF ReviewKept, TaskAt
  <1> QED
    BY <1>1, <1>2, <1>3, <1>4, <1>5, <1>6, <1>7, <1>8, <1>9, <1>10, <1>11, <1>12, <1>13,
       <1>14, <1>15, <1>16, <1>17, <1>18 DEF ReviewNext

LEMMA ContextStep == ASSUME ReviewTypeOK, ContextKept, ReviewNext PROVE ContextKept'
  <1>1. CASE Invoke
    BY <1>1 DEF Invoke, ContextKept
  <1>2. CASE DryRun
    BY <1>2, IdleOK DEF DryRun, ContextKept
  <1>3. CASE ShowPlan
    BY <1>3 DEF ShowPlan, TaskGoto, ContextKept
  <1>4. CASE BuildPlan
    BY <1>4 DEF BuildPlan, ContextKept
  <1>5. CASE LoadReviewed
    BY <1>5, IdleOK DEF LoadReviewed, ContextKept
  <1>6. CASE Target
    BY <1>6 DEF Target, ContextKept
  <1>7. CASE Reprobe
    BY <1>7, IdleOK DEF Reprobe, TaskAt, ContextKept
  <1>8. CASE EnsureStarter
    BY <1>8 DEF EnsureStarter, TaskAt, TaskGoto, ContextKept
  <1>9. CASE ReloadMaterial
    BY <1>9, IdleOK DEF ReloadMaterial, TaskAt, ContextKept
  <1>10. CASE ApplyOverlay
    BY <1>10 DEF ApplyOverlay, TaskAt, TaskGoto, ContextKept
  <1>11. CASE FluxInstall
    BY <1>11 DEF FluxInstall, TaskGoto, ContextKept
  <1>12. CASE Fetch
    BY <1>12 DEF Fetch, ContextKept
  <1>13. CASE Finalize
    BY <1>13, IdleOK DEF Finalize, ContextKept
  <1>14. CASE TaskFails
    BY <1>14, IdleOK DEF TaskFails, ContextKept
  <1>15. CASE Drift
    BY <1>15 DEF Drift, ContextKept
  <1>16. CASE EditPlanFile
    BY <1>16 DEF EditPlanFile, ContextKept
  <1>17. CASE SwitchContext
    BY <1>17 DEF SwitchContext, TaskAt, ContextKept
  <1>18. CASE ClusterAdvances
    BY <1>18 DEF ClusterAdvances, TaskAt, ContextKept
  <1> QED
    BY <1>1, <1>2, <1>3, <1>4, <1>5, <1>6, <1>7, <1>8, <1>9, <1>10, <1>11, <1>12, <1>13,
       <1>14, <1>15, <1>16, <1>17, <1>18 DEF ReviewNext

\* The initial states, the steps, and with them every behaviour.
LEMMA ReviewInitInv == ReviewInit => ReviewInv
  <1> SUFFICES ASSUME ReviewInit
               PROVE  ReviewInv
    OBVIOUS
  <1>1. /\ 0 \in Revisions /\ 1 \in Revisions /\ 1 \in Revisions \ {0}
        /\ 0 \in 0..MaxInvocations /\ 0 \in 0..MaxMoves
    BY DEF Revisions
  <1>2. overlay \in Overlays /\ starter \in Revisions
    BY <1>1 DEF ReviewInit, NoOverlay, Overlays
  <1>3. ReviewTypeOK
    BY <1>1, <1>2, IdleOK, ReviewTypes DEF ReviewInit, ClusterModes
  <1>4. ReviewKept /\ ContextKept
    BY IdleOK DEF ReviewInit, ReviewKept, ContextKept, TaskAt
  <1> QED
    BY <1>3, <1>4 DEF ReviewInv

LEMMA ReviewNextInv == ReviewInv /\ [ReviewNext]_reviewVars => ReviewInv'
  <1> SUFFICES ASSUME ReviewInv, [ReviewNext]_reviewVars
               PROVE  ReviewInv'
    OBVIOUS
  <1>1. CASE ReviewNext
    BY <1>1, ReviewTypeStep, ReviewStep, ContextStep DEF ReviewInv
  <1>2. CASE UNCHANGED reviewVars
    BY <1>2 DEF ReviewInv, reviewVars, ReviewTypeOK, ReviewKept, ContextKept, TaskAt
  <1> QED
    BY <1>1, <1>2

LEMMA ReviewInvariant == ReviewSpec => []ReviewInv
  BY ReviewInitInv, ReviewNextInv, PTL DEF ReviewSpec

\* EnsureStarter and ApplyOverlay are the only steps that write.
LEMMA AppliedStep ==
  ASSUME ReviewInv, ReviewNext, task.kind = "applyPlan"
  PROVE  /\ overlay' # overlay => overlay' = IF overlay = NoOverlay THEN Content(reviewed)
                                             ELSE [overlay EXCEPT !.cert = reviewed.tls]
         /\ starter' # starter => reviewed.ref \in {0, starter'}
  <1>1. CASE EnsureStarter
    BY <1>1 DEF EnsureStarter, TaskAt, ReviewInv, ReviewKept
  <1>2. CASE ApplyOverlay
    BY <1>2 DEF ApplyOverlay, TaskAt, ReviewInv, ReviewKept
  <1>3. CASE UNCHANGED <<overlay, starter>>
    BY <1>3
  <1> QED
    BY <1>1, <1>2, <1>3 DEF ReviewNext, Invoke, DryRun, ShowPlan, BuildPlan,
       LoadReviewed, Target, Reprobe, ReloadMaterial, FluxInstall, Fetch, Finalize,
       TaskFails, Drift, EditPlanFile, SwitchContext, ClusterAdvances, Moving

\* flux-install and the fetch of an ssh run are of the context and mode of the plan.
LEMMA LandsStep ==
  ASSUME ReviewInv, ReviewNext, task'.at \in {"fetch", "finalize"}, task'.at # task.at
  PROVE  /\ TaskAt("flux") \/ TaskAt("fetch") => (task.plan.ssh /\ ~task'.switched => context' = "ours")
         /\ TaskAt("flux") /\ task'.at = "fetch" =>
              (task.auto /\ ~task.moved => liveMode[context] = task.plan.mode)
  <1>1. CASE FluxInstall
    BY <1>1, GotoOK, ReviewTypes DEF FluxInstall, TaskAt, ReviewInv, ContextKept,
       TaskLabels
  <1>2. CASE Fetch
    BY <1>2 DEF Fetch, TaskAt
  <1>3. CASE Invoke \/ DryRun \/ ShowPlan \/ BuildPlan \/ LoadReviewed \/ Target \/ Reprobe
             \/ EnsureStarter \/ ReloadMaterial \/ ApplyOverlay
    BY <1>3 DEF Invoke, DryRun, ShowPlan, BuildPlan, LoadReviewed, Target, Reprobe,
       EnsureStarter, ReloadMaterial, ApplyOverlay, TaskAt
  <1>4. CASE Finalize \/ TaskFails \/ Drift \/ EditPlanFile \/ SwitchContext \/ ClusterAdvances
    BY <1>4, IdleOK, ReviewTypes DEF Finalize, TaskFails, Drift, EditPlanFile,
       SwitchContext, ClusterAdvances, ReviewInv, TaskRecord
  <1> QED
    BY <1>1, <1>2, <1>3, <1>4 DEF ReviewNext

\* Runs, failures and whatever moves outside keep every part in its shape.
THEOREM ReviewTypesKept == ReviewSpec => []ReviewTypeOK
  BY ReviewInvariant, PTL DEF ReviewInv

\* runInitApplyPlan: what --apply-plan writes is what the dry run showed.
THEOREM ReviewApplied == ReviewSpec => ReviewedIsApplied
  <1>1. ReviewInv /\ [ReviewNext]_reviewVars =>
          [ /\ task.kind = "applyPlan" /\ overlay' # overlay =>
                 overlay' = IF overlay = NoOverlay THEN Content(reviewed)
                            ELSE [overlay EXCEPT !.cert = reviewed.tls]
            /\ task.kind = "applyPlan" /\ starter' # starter =>
                 reviewed.ref \in {0, starter'} ]_reviewVars
    BY AppliedStep
  <1> QED
    BY <1>1, ReviewInvariant, PTL DEF ReviewSpec, ReviewedIsApplied

\* runApplyEngine, reprobeModeAfterFetch: Flux and the finalizer reach the planned
\* cluster, and a probed mode is still its mode.
THEOREM ReviewLands == ReviewSpec => FluxLandsAsPlanned
  <1>1. ReviewInv /\ [ReviewNext]_reviewVars =>
          [ /\ (TaskAt("flux") /\ task'.at = "fetch") \/ (TaskAt("fetch") /\ task'.at = "finalize")
                 => (task.plan.ssh /\ ~task'.switched => context' = "ours")
            /\ TaskAt("flux") /\ task'.at = "fetch"
                 => (task.auto /\ ~task.moved => liveMode[context] = task.plan.mode) ]_reviewVars
    BY LandsStep DEF TaskAt
  <1> QED
    BY <1>1, ReviewInvariant, PTL DEF ReviewSpec, FluxLandsAsPlanned

HIDE ReviewAssumption DEF written, outside, files

=============================================================================
