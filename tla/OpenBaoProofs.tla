--------------------------- MODULE OpenBaoProofs ----------------------------
(*****************************************************************************)
(* Theorems about the OpenBao ceremony (ShareCustody) and the unseal command *)
(* (PodUnseal), for every number of shares, payloads, pods, commands, runs and*)
(* faults.                                                                   *)
(*****************************************************************************)
EXTENDS ShareCustody, PodUnseal, FiniteSetTheorems, TLAPS

-----------------------------------------------------------------------------
(*****************************************************************************)
(* ShareCustody, for every number of shares, threshold, number of write-ahead*)
(* names, set of payloads and number of runs.                                *)
(*                                                                           *)
(* The argument: the shares move buffer -> write-ahead file -> working tree  *)
(* -> commit, and each later place is complete before an earlier one may     *)
(* go.  CustodyInv says how far along the run is for each label of the       *)
(* process.                                                                  *)
(*****************************************************************************)

USE DEF vault, stamps, disk, repo, proc, seen

-----------------------------------------------------------------------------
\* renderSharesYAML only ever writes shares the buffer holds.
LEMMA RenderedSubset == ASSUME NEW b \in SUBSET Share
                        PROVE  Rendered(b) \in SUBSET Share /\ Rendered(b) \subseteq b
  BY DEF Rendered

\* A complete buffer is rendered completely: ShareCount() is N, and no share
\* number exceeds it.
LEMMA RenderedComplete == Rendered(Share) = Share
  <1>1. N \in Nat
    BY SharesAssumption
  <1>2. Cardinality(1..N) = N
    BY <1>1, FS_Interval
  <1> QED
    BY <1>1, <1>2 DEF Rendered, Share

-----------------------------------------------------------------------------
\* Type correctness, phase by phase.
LEMMA TypeInit == Init => TypeOK
  <1> SUFFICES ASSUME Init PROVE TypeOK
    OBVIOUS
  <1>1. dump \in [Names -> File]
    BY DEF Init, File, FreeName, OtherVault
  <1>2. opt \in Options
    BY DEF Init, Options
  <1>3. /\ wah \in Names \cup {NoName} /\ k \in 1..(N + 1) /\ runs \in 0..MaxRuns
        /\ pc \in Labels /\ pending \in Reports /\ report \in Reports
        /\ revocation \in Revocations
    BY SharesAssumption DEF Init, Labels, Reports, Revocations
  <1>4. /\ initialized \in BOOLEAN /\ unsealed \in BOOLEAN
        /\ rootLive \in BOOLEAN /\ authInstalled \in BOOLEAN
        /\ finalized \in BOOLEAN /\ installed \in BOOLEAN
        /\ dirty \in BOOLEAN /\ token \in BOOLEAN /\ parsed \in BOOLEAN
    BY DEF Init
  <1>5. /\ outFile \in SUBSET Share /\ tree \in SUBSET Share /\ head \in SUBSET Share
        /\ remote \in SUBSET Share /\ buf \in SUBSET Share /\ kept \in SUBSET Share
        /\ repaired \in SUBSET {"unseal", "setupAuth"}
    BY DEF Init
  <1> QED
    BY <1>1, <1>2, <1>3, <1>4, <1>5 DEF TypeOK

\* Where the process may go and what a run may report.
LEMMA Vocabulary ==
  /\ {"idle", "gate", "script", "payload", "dump", "drain", "encrypt", "sharesOut",
      "commit", "push", "dropDump", "unseal", "setupAuth", "annotate", "revoke"}
       \subseteq Labels
  /\ {"none", "refused", "plain", "preserved", "unrecoverable", "postCommit", "ok",
      "killed"} \subseteq Reports
  /\ {"none", "gone", "warned", "claimed"} \subseteq Revocations
  BY DEF Labels, Reports, Revocations

LEMMA TypeReturn ==
  ASSUME TypeOK, NEW r \in Reports, Return(r)
  PROVE  /\ pc' \in Labels /\ report' \in Reports
         /\ buf' \in SUBSET Share /\ token' \in BOOLEAN
         /\ opt' \in Options /\ parsed' \in BOOLEAN
         /\ wah' \in Names \cup {NoName} /\ k' \in 1..(N + 1) /\ pending' \in Reports
  BY Vocabulary DEF TypeOK, Return

LEMMA TypePhaseA == TypeOK /\ PhaseA => TypeOK'
  <1> SUFFICES ASSUME TypeOK, PhaseA PROVE TypeOK'
    OBVIOUS
  <1> USE Vocabulary
  <1>1. CASE StartInit
    <2>1. runs' \in 0..MaxRuns /\ k' \in 1..(N + 1)
      BY <1>1, SharesAssumption DEF StartInit, TypeOK
    <2> QED
      BY <1>1, <2>1 DEF StartInit, TypeOK
  <1>2. CASE GateRefuses
    BY <1>2, TypeReturn DEF GateRefuses, TypeOK
  <1>3. CASE GatePasses
    BY <1>3 DEF GatePasses, Goto, TypeOK
  <1>4. CASE ScriptFails
    BY <1>4, TypeReturn DEF ScriptFails, TypeOK
  <1>5. CASE ScriptInitialises
    BY <1>5 DEF ScriptInitialises, Goto, TypeOK
  <1>6. CASE PayloadLost
    BY <1>6, TypeReturn DEF PayloadLost, TypeOK
  <1>7. CASE Capture
    BY <1>7, PayloadsAssumption DEF Capture, Goto, Payload, ParsesInto, TypeOK
  <1>8. CASE DumpSucceeds
    BY <1>8, RenderedSubset DEF DumpSucceeds, Goto, File, TypeOK
  <1>9. CASE DumpFails
    BY <1>9 DEF DumpFails, Goto, TypeOK
  <1>10. CASE DrainFails
    BY <1>10, TypeReturn DEF DrainFails, ReturnCustody, TypeOK
  <1>11. CASE DrainPasses
    BY <1>11, SharesAssumption DEF DrainPasses, Goto, TypeOK
  <1> QED
    BY <1>1, <1>2, <1>3, <1>4, <1>5, <1>6, <1>7, <1>8, <1>9, <1>10, <1>11 DEF PhaseA

LEMMA TypePhaseB == TypeOK /\ PhaseB => TypeOK'
  <1> SUFFICES ASSUME TypeOK, PhaseB PROVE TypeOK'
    OBVIOUS
  <1> USE Vocabulary
  <1>1. CASE EncryptShare
    <2>1. k \in Share /\ k' \in 1..(N + 1)
      BY <1>1, SharesAssumption DEF EncryptShare, TypeOK, Share
    <2> QED
      BY <1>1, <2>1 DEF EncryptShare, Goto, TypeOK
  <1>2. CASE EncryptFails
    BY <1>2, TypeReturn DEF EncryptFails, ReturnCustody, TypeOK
  <1>3. CASE WriteSharesOut
    BY <1>3, RenderedSubset DEF WriteSharesOut, Goto, TypeOK
  <1>4. CASE Commit
    BY <1>4 DEF Commit, Goto, TypeOK
  <1>5. CASE CommitFails
    BY <1>5, TypeReturn DEF CommitFails, ReturnCustody, TypeOK
  <1>6. CASE Push
    BY <1>6 DEF Push, Goto, TypeOK
  <1>7. CASE PushFails
    BY <1>7, TypeReturn DEF PushFails, ReturnCustody, TypeOK
  <1>8. CASE DropDump
    BY <1>8 DEF DropDump, Goto, FreeName, File, TypeOK
  <1> QED
    BY <1>1, <1>2, <1>3, <1>4, <1>5, <1>6, <1>7, <1>8 DEF PhaseB

LEMMA TypePhaseC == TypeOK /\ PhaseC => TypeOK'
  <1> SUFFICES ASSUME TypeOK, PhaseC PROVE TypeOK'
    OBVIOUS
  <1> USE Vocabulary
  <1>1. CASE PostInitUnseal
    BY <1>1 DEF PostInitUnseal, Goto, TypeOK
  <1>2. CASE PostInitUnsealFails
    BY <1>2, TypeReturn DEF PostInitUnsealFails, TypeOK
  <1>3. CASE SetupAuth
    BY <1>3 DEF SetupAuth, Goto, TypeOK
  <1>4. CASE SetupAuthFails
    <2>1. authInstalled' \in BOOLEAN /\ installed' \in BOOLEAN
      BY <1>4 DEF SetupAuthFails, AuthWritesFail, TypeOK
    <2> QED
      BY <1>4, <2>1 DEF SetupAuthFails, Defer, Goto, TypeOK
  <1>5. CASE Annotate
    BY <1>5 DEF Annotate, StampBoth, Defer, Goto, TypeOK
  <1>6. CASE AnnotateFails
    <2>1. finalized' \in BOOLEAN /\ installed' \in BOOLEAN
      BY <1>6 DEF AnnotateFails, StampBoth, TypeOK
    <2> QED
      BY <1>6, <2>1 DEF AnnotateFails, Defer, Goto, TypeOK
  <1>7. CASE Revoke
    BY <1>7, TypeReturn, ZenonT(60) DEF Revoke, TypeOK
  <1> QED
    BY <1>1, <1>2, <1>3, <1>4, <1>5, <1>6, <1>7 DEF PhaseC

LEMMA TypeWorld == TypeOK /\ World => TypeOK'
  <1> SUFFICES ASSUME TypeOK, World PROVE TypeOK'
    OBVIOUS
  <1> USE Vocabulary
  <1>1. CASE Kill
    BY <1>1, TypeReturn DEF Kill, TypeOK
  <1>2. CASE UnsealCommand
    BY <1>2, ZenonT(60) DEF UnsealCommand, TypeOK
  <1>3. CASE SetupAuthCommand
    BY <1>3, ZenonT(60) DEF SetupAuthCommand, AuthWritesFail, TypeOK
  <1>4. CASE PodRestart
    BY <1>4 DEF PodRestart, TypeOK
  <1>5. CASE EditFleet
    BY <1>5 DEF EditFleet, TypeOK
  <1>6. CASE GitCheckout
    BY <1>6 DEF GitCheckout, TypeOK
  <1>7. CASE CommitByHand
    BY <1>7 DEF CommitByHand, TypeOK
  <1>8. CASE PushByHand
    BY <1>8 DEF PushByHand, TypeOK
  <1> QED
    BY <1>1, <1>2, <1>3, <1>4, <1>5, <1>6, <1>7, <1>8 DEF World

\* Every reachable state has its type, whatever the constants.
THEOREM TypeCorrect == Spec => []TypeOK
  <1>1. TypeOK /\ [Next]_vars => TypeOK'
    <2>1. CASE UNCHANGED vars
      BY <2>1 DEF vars, TypeOK
    <2> QED
      BY <2>1, TypePhaseA, TypePhaseB, TypePhaseC, TypeWorld DEF Next
  <1> QED
    BY <1>1, TypeInit, PTL DEF Spec

-----------------------------------------------------------------------------
\* Which steps can touch a durable copy.

\* Copies only come: commits grow, files stay.
LEMMA DurableGrows ==
  ASSUME TypeOK, head \subseteq head', outFile \subseteq outFile',
         \A n \in Names : dump[n].owner = "this" =>
           dump'[n].owner = "this" /\ dump[n].shares \subseteq dump'[n].shares
  PROVE  Durable \subseteq Durable'
  BY DEF Durable, InDump

\* A complete commit is durable by itself.
LEMMA CompleteIsDurable ==
  ASSUME head = Share PROVE Durable = Share
  BY DEF Durable

\* No durable place is touched.
LEMMA DurableSame ==
  ASSUME UNCHANGED <<head, outFile, dump>> PROVE Durable' = Durable
  BY DEF Durable, InDump

\* A return changes no copy; what it reports must agree with them.
LEMMA CustodyReturn ==
  ASSUME TypeOK, CustodyInv, NEW r \in {"refused", "plain", "killed"}, pc # "idle",
         Return(r), UNCHANGED <<vault, stamps, disk, repo, kept>>
  PROVE  CustodyInv'
  <1>1. BirthInv'
    BY DEF CustodyInv, BirthInv, Return
  <1>2. ProgressInv'
    BY DEF CustodyInv, ProgressInv, Return, Committed, InPhaseC
  <1>3. DumpInv'
    BY DEF CustodyInv, DumpInv, Return
  <1> QED
    BY <1>1, <1>2, <1>3, DurableSame DEF CustodyInv, RepoInv, CapturedSharesDurable

\* A custody return reports the write-ahead file, which holds the shares.
LEMMA CustodyReturnCustody ==
  ASSUME TypeOK, CustodyInv, ReturnCustody,
         pc \in {"drain", "encrypt", "commit", "push"},
         UNCHANGED <<vault, stamps, disk, head, kept>>,
         tree \subseteq tree', remote' \in {remote, head}, initialized
  PROVE  CustodyInv'
  <1> DEFINE r == IF wah # NoName THEN "preserved" ELSE "unrecoverable"
  <1>1. Return(r)
    BY DEF ReturnCustody
  <1>2. RepoInv'
    BY DEF CustodyInv, RepoInv
  <1>3. BirthInv'
    BY <1>1 DEF BirthInv, Return
  <1>4. ProgressInv'
    BY <1>1 DEF CustodyInv, ProgressInv, Return, Committed, InPhaseC
  <1>5. DumpInv'
    BY <1>1 DEF CustodyInv, DumpInv, HoldsDump, Return
  <1> QED
    BY <1>2, <1>3, <1>4, <1>5, DurableSame DEF CustodyInv, CapturedSharesDurable

LEMMA CustodyInit == Init => CustodyInv
  BY DEF Init, CustodyInv, RepoInv, BirthInv, ProgressInv, DumpInv, Committed, InPhaseC,
     CapturedSharesDurable

\* Phase A: the write-ahead file appears before anything else knows the shares.
LEMMA CustodyPhaseA == TypeOK /\ CustodyInv /\ PhaseA => CustodyInv'
  <1> SUFFICES ASSUME TypeOK, CustodyInv, PhaseA PROVE CustodyInv'
    OBVIOUS
  <1> USE DEF CustodyInv, RepoInv, BirthInv, ProgressInv, DumpInv, HoldsDump, Committed,
              InPhaseC, CapturedSharesDurable
  <1>1. CASE StartInit
    BY <1>1, DurableSame DEF StartInit
  <1>2. CASE GateRefuses
    BY <1>2, CustodyReturn DEF GateRefuses
  <1>3. CASE GatePasses
    BY <1>3, DurableSame DEF GatePasses, Goto
  <1>4. CASE ScriptFails
    BY <1>4, CustodyReturn DEF ScriptFails
  <1>5. CASE ScriptInitialises
    BY <1>5, DurableSame DEF ScriptInitialises, Goto
  <1>6. CASE PayloadLost
    BY <1>6, CustodyReturn DEF PayloadLost
  <1>7. CASE Capture
    BY <1>7, DurableSame DEF Capture, Goto, ParsesInto
  <1>8. CASE DumpSucceeds
    <2>1. PICK n \in Names :
            /\ IsFirstFree(n)
            /\ dump' = [dump EXCEPT ![n] = [owner |-> "this", shares |-> Rendered(buf)]]
            /\ wah' = n
      BY <1>8 DEF DumpSucceeds
    <2>2. /\ dump'[n].owner = "this" /\ dump'[n].shares = Rendered(buf)
          /\ kept' = Rendered(buf)
      BY <1>8, <2>1 DEF DumpSucceeds, TypeOK
    <2>3. Rendered(buf) \subseteq Share
      BY RenderedSubset DEF TypeOK
    <2>4. CapturedSharesDurable'
      BY <2>2, <2>3 DEF Durable, InDump
    <2> QED
      BY <1>8, <2>1, <2>2, <2>4 DEF DumpSucceeds, Goto
  <1>9. CASE DumpFails
    BY <1>9, DurableSame DEF DumpFails, Goto
  <1>10. CASE DrainFails
    BY <1>10, CustodyReturnCustody DEF DrainFails
  <1>11. CASE DrainPasses
    BY <1>11, DurableSame DEF DrainPasses, Goto
  <1> QED
    BY <1>1, <1>2, <1>3, <1>4, <1>5, <1>6, <1>7, <1>8, <1>9, <1>10, <1>11 DEF PhaseA

\* Phase B: the file goes only when the commit is complete.
LEMMA CustodyPhaseB == TypeOK /\ CustodyInv /\ PhaseB => CustodyInv'
  <1> SUFFICES ASSUME TypeOK, CustodyInv, PhaseB PROVE CustodyInv'
    OBVIOUS
  <1> USE DEF CustodyInv, RepoInv, BirthInv, ProgressInv, DumpInv, HoldsDump, Committed,
              InPhaseC, CapturedSharesDurable
  <1>1. CASE EncryptShare
    <2>1. 1..k \subseteq tree'
      BY <1>1, SharesAssumption DEF EncryptShare, TypeOK, Share
    <2>2. k = N => tree' = Share
      BY <1>1, <2>1 DEF EncryptShare, TypeOK, Share
    <2>3. 1..(k' - 1) \subseteq tree'
      BY <1>1, <2>1, SharesAssumption DEF EncryptShare, TypeOK, Share
    <2> QED
      BY <1>1, <2>2, <2>3, DurableSame DEF EncryptShare, Goto
  <1>2. CASE EncryptFails
    <2>1. tree \subseteq tree'
      BY <1>2 DEF EncryptFails
    <2> QED
      BY <1>2, <2>1, CustodyReturnCustody DEF EncryptFails
  <1>3. CASE WriteSharesOut
    <2>1. outFile \subseteq outFile'
      BY <1>3, RenderedComplete DEF WriteSharesOut, TypeOK
    <2>2. Durable \subseteq Durable'
      BY <1>3, <2>1, DurableGrows DEF WriteSharesOut
    <2> QED
      BY <1>3, <2>2 DEF WriteSharesOut, Goto
  <1>4. CASE Commit
    <2>1. Durable \subseteq Durable'
      BY <1>4, DurableGrows DEF Commit
    <2> QED
      BY <1>4, <2>1 DEF Commit, Goto
  <1>5. CASE CommitFails
    BY <1>5, CustodyReturnCustody DEF CommitFails
  <1>6. CASE Push
    BY <1>6, DurableSame DEF Push, Goto
  <1>7. CASE PushFails
    BY <1>7, CustodyReturnCustody DEF PushFails
  <1>8. CASE DropDump
    <2>1. Durable' = Share
      BY <1>8 DEF DropDump, Durable
    <2> QED
      BY <1>8, <2>1 DEF DropDump, Goto, TypeOK
  <1> QED
    BY <1>1, <1>2, <1>3, <1>4, <1>5, <1>6, <1>7, <1>8 DEF PhaseB

\* Phase C touches no copy of a share.
LEMMA CustodyPhaseC == TypeOK /\ CustodyInv /\ PhaseC => CustodyInv'
  <1> SUFFICES ASSUME TypeOK, CustodyInv, PhaseC PROVE CustodyInv'
    OBVIOUS
  <1> USE DEF CustodyInv, RepoInv, BirthInv, ProgressInv, DumpInv, HoldsDump, Committed,
              InPhaseC, CapturedSharesDurable
  <1>1. CASE PostInitUnseal
    BY <1>1, DurableSame DEF PostInitUnseal, Goto
  <1>2. CASE PostInitUnsealFails
    BY <1>2, DurableSame DEF PostInitUnsealFails, Return
  <1>3. CASE SetupAuth
    BY <1>3, DurableSame DEF SetupAuth, Goto
  <1>4. CASE SetupAuthFails
    BY <1>4, DurableSame DEF SetupAuthFails, Defer, Goto
  <1>5. CASE Annotate
    BY <1>5, DurableSame DEF Annotate, StampBoth, Defer, Goto
  <1>6. CASE AnnotateFails
    BY <1>6, DurableSame DEF AnnotateFails, StampBoth, Defer, Goto
  <1>7. CASE Revoke
    BY <1>7, DurableSame DEF Revoke, Return
  <1> QED
    BY <1>1, <1>2, <1>3, <1>4, <1>5, <1>6, <1>7 DEF PhaseC

\* The world: a checkout restores the commit, the operator's commits only add.
LEMMA CustodyWorld == TypeOK /\ CustodyInv /\ World => CustodyInv'
  <1> SUFFICES ASSUME TypeOK, CustodyInv, World PROVE CustodyInv'
    OBVIOUS
  <1> USE DEF CustodyInv, RepoInv, BirthInv, ProgressInv, DumpInv, HoldsDump, Committed,
              InPhaseC, CapturedSharesDurable
  <1>1. CASE Kill
    BY <1>1, CustodyReturn DEF Kill
  <1>2. CASE UnsealCommand
    BY <1>2, DurableSame DEF UnsealCommand
  <1>3. CASE SetupAuthCommand
    BY <1>3, DurableSame DEF SetupAuthCommand
  <1>4. CASE PodRestart
    BY <1>4, DurableSame DEF PodRestart
  <1>5. CASE EditFleet
    BY <1>5, DurableSame DEF EditFleet
  <1>6. CASE GitCheckout
    BY <1>6, DurableSame DEF GitCheckout
  <1>7. CASE CommitByHand
    <2>1. Durable \subseteq Durable'
      BY <1>7, DurableGrows DEF CommitByHand
    <2>2. head = Share => head' = Share
      BY <1>7 DEF CommitByHand, TypeOK
    <2> QED
      BY <1>7, <2>1, <2>2 DEF CommitByHand
  <1>8. CASE PushByHand
    BY <1>8, DurableSame DEF PushByHand
  <1> QED
    BY <1>1, <1>2, <1>3, <1>4, <1>5, <1>6, <1>7, <1>8 DEF World

-----------------------------------------------------------------------------
\* The inductive invariant, once and for all.
LEMMA CustodyInductive == Spec => [](TypeOK /\ CustodyInv)
  <1>1. TypeOK /\ CustodyInv /\ [Next]_vars => CustodyInv'
    <2> SUFFICES ASSUME TypeOK, CustodyInv, [Next]_vars PROVE CustodyInv'
      OBVIOUS
    <2>1. CASE UNCHANGED vars
      BY <2>1, DurableSame
      DEF vars, CustodyInv, RepoInv, BirthInv, ProgressInv, DumpInv, HoldsDump, Committed,
          InPhaseC, CapturedSharesDurable
    <2> QED
      BY <2>1, CustodyPhaseA, CustodyPhaseB, CustodyPhaseC, CustodyWorld DEF Next
  <1> QED
    BY <1>1, CustodyInit, TypeCorrect, PTL DEF Spec

\* Once written ahead, a share always has a durable copy: through every failure,
\* kill, re-run, git step of the operator and removal of the write-ahead file.
THEOREM WriteAheadCustody == Spec => []CapturedSharesDurable
  BY CustodyInductive, PTL DEF CustodyInv

\* Phase C and the finalized stamp come only after complete custody.
THEOREM CustodyFirst == Spec => []CustodyBeforeIrreversible
  <1>1. TypeOK /\ CustodyInv => CustodyBeforeIrreversible
    BY DEF CustodyInv, ProgressInv, CustodyBeforeIrreversible, Committed, InPhaseC
  <1> QED
    BY <1>1, CustodyInductive, PTL

\* A custody error that names a file names one that holds the shares.
THEOREM CustodyMessageHolds == Spec => []PreservedFileExists
  <1>1. TypeOK /\ CustodyInv => PreservedFileExists
    BY DEF CustodyInv, DumpInv, HoldsDump, PreservedFileExists, TypeOK
  <1> QED
    BY <1>1, CustodyInductive, PTL

\* A file of another ceremony is never touched: a new dump takes a free name,
\* and only our own file is dropped.
THEOREM EarlierDumpsKept == Spec => EarlierDumpsSurvive
  <1> DEFINE Untouched == \A n \in Names : dump[n].owner = "other" => dump'[n] = dump[n]
  <1>1. TypeOK /\ CustodyInv /\ [Next]_vars => [Untouched]_vars
    <2> SUFFICES ASSUME TypeOK, CustodyInv, Next PROVE Untouched
      BY DEF vars
    <2>1. CASE DumpSucceeds
      BY <2>1 DEF DumpSucceeds, IsFirstFree, TypeOK
    <2>2. CASE DropDump
      BY <2>2 DEF DropDump, CustodyInv, DumpInv, HoldsDump, TypeOK
    <2>3. CASE UNCHANGED dump
      BY <2>3
    <2>4. PhaseA => DumpSucceeds \/ UNCHANGED dump
      BY DEF PhaseA, StartInit, GateRefuses, GatePasses, ScriptFails, ScriptInitialises,
             PayloadLost, Capture, DumpFails, DrainFails, DrainPasses
    <2>5. PhaseB => DropDump \/ UNCHANGED dump
      BY DEF PhaseB, EncryptShare, EncryptFails, WriteSharesOut, Commit, CommitFails, Push,
             PushFails
    <2>6. PhaseC => UNCHANGED dump
      BY DEF PhaseC, PostInitUnseal, PostInitUnsealFails, SetupAuth, SetupAuthFails,
             Annotate, AnnotateFails, Revoke
    <2>7. World => UNCHANGED dump
      BY DEF World, Kill, UnsealCommand, SetupAuthCommand, PodRestart, EditFleet,
             GitCheckout, CommitByHand, PushByHand
    <2> QED
      BY <2>1, <2>2, <2>3, <2>4, <2>5, <2>6, <2>7 DEF Next
  <1> QED
    BY <1>1, CustodyInductive, PTL DEF Spec, EarlierDumpsSurvive

\* A run that got as far as the root token revoked it, or said it could not.
THEOREM RootTokenIsRevoked == Spec => []RootTokenRevoked
  <1>1. Init => RootTokenRevoked
    BY DEF Init, RootTokenRevoked, Deferred
  <1>2. TypeOK /\ CustodyInv /\ RootTokenRevoked /\ [Next]_vars => RootTokenRevoked'
    <2> SUFFICES ASSUME TypeOK, CustodyInv, RootTokenRevoked, [Next]_vars
                 PROVE  RootTokenRevoked'
      OBVIOUS
    <2> USE DEF RootTokenRevoked, Deferred
    <2>1. CASE UNCHANGED vars
      BY <2>1 DEF vars
    <2>2. PhaseA => report' \notin {"ok", "postCommit"}
      BY DEF PhaseA, StartInit, GateRefuses, GatePasses, ScriptFails, ScriptInitialises,
             PayloadLost, Capture, DumpSucceeds, DumpFails, DrainFails, DrainPasses, Goto,
             Return, ReturnCustody, CustodyInv, ProgressInv
    <2>3. PhaseB => report' \notin {"ok", "postCommit"}
      BY DEF PhaseB, EncryptShare, EncryptFails, WriteSharesOut, Commit, CommitFails, Push,
             PushFails, DropDump, Goto, Return, ReturnCustody, CustodyInv, ProgressInv
    <2>4. CASE PhaseC
      <3>1. CASE Revoke
        BY <3>1 DEF Revoke
      <3>2. CASE PostInitUnsealFails
        BY <3>2 DEF PostInitUnsealFails, Return, CustodyInv, ProgressInv
      <3> QED
        BY <2>4, <3>1, <3>2 DEF PhaseC, PostInitUnseal, SetupAuth, SetupAuthFails, Annotate,
           AnnotateFails, Defer, Goto, CustodyInv, ProgressInv
    <2>5. CASE World
      BY <2>5 DEF World, Kill, UnsealCommand, SetupAuthCommand, PodRestart, EditFleet,
         GitCheckout, CommitByHand, PushByHand, Return
    <2> QED
      BY <2>1, <2>2, <2>3, <2>4, <2>5 DEF Next
  <1> QED
    BY <1>1, <1>2, CustodyInductive, PTL DEF Spec

-----------------------------------------------------------------------------
\* The ceremony implements CustodyPromise: what is durable only grows, and the
\* finalized stamp closes a complete set.
THEOREM CeremonyKeepsPromise == Spec => Promise
  <1>1. Init => CP!Init
    BY DEF Init, CP!Init, Durable, InDump, OtherVault, FreeName, Names
  <1>2. TypeOK /\ CustodyInv /\ [Next]_vars => [CP!Next]_<<initialized, Durable, finalized>>
    <2> SUFFICES ASSUME TypeOK, CustodyInv, Next
                 PROVE  CP!Next \/ UNCHANGED <<initialized, Durable, finalized>>
      BY DurableSame DEF vars
    <2>1. Durable' \subseteq Share
      BY DEF Durable
    <2>2. CASE ScriptInitialises
      BY <2>2, DurableSame DEF ScriptInitialises, CP!Next, CP!Birth
    <2>3. CASE DumpSucceeds
      <3>1. Durable \subseteq Durable'
        BY <2>3, DurableGrows DEF DumpSucceeds, IsFirstFree, TypeOK
      <3> QED
        BY <2>1, <2>3, <3>1 DEF DumpSucceeds, CustodyInv, BirthInv, TypeOK, CP!Next,
           CP!Preserve
    <2>4. CASE WriteSharesOut
      <3>1. Durable \subseteq Durable'
        BY <2>4, RenderedComplete, DurableGrows DEF WriteSharesOut, CustodyInv, ProgressInv,
           TypeOK
      <3> QED
        BY <2>1, <2>4, <3>1 DEF WriteSharesOut, CustodyInv, BirthInv, TypeOK, CP!Next,
           CP!Preserve
    <2>5. CASE Commit
      <3>1. Durable \subseteq Durable'
        BY <2>5, DurableGrows DEF Commit, CustodyInv, RepoInv
      <3> QED
        BY <2>1, <2>5, <3>1 DEF Commit, CustodyInv, BirthInv, TypeOK, CP!Next, CP!Preserve
    <2>6. CASE CommitByHand
      <3>1. Durable \subseteq Durable'
        BY <2>6, DurableGrows DEF CommitByHand, CustodyInv, RepoInv
      <3>2. CASE initialized
        BY <2>1, <2>6, <3>1, <3>2 DEF CommitByHand, CP!Next, CP!Preserve
      <3>3. CASE ~initialized
        <4>1. head' = head
          BY <2>6, <3>3 DEF CommitByHand, CustodyInv, BirthInv, RepoInv
        <4> QED
          BY <2>6, <4>1, DurableSame DEF CommitByHand
      <3> QED
        BY <3>2, <3>3
    <2>7. CASE DropDump
      <3>1. Durable = Share /\ Durable' = Share
        BY <2>7, CompleteIsDurable DEF DropDump, CustodyInv, ProgressInv, Committed, Durable
      <3> QED
        BY <2>7, <3>1 DEF DropDump
    <2>8. CASE Annotate \/ AnnotateFails
      <3>1. Durable = Share /\ initialized
        BY <2>8, CompleteIsDurable DEF Annotate, AnnotateFails, CustodyInv, ProgressInv,
           BirthInv, Committed, TypeOK
      <3>2. Durable' = Durable
        BY <2>8, DurableSame DEF Annotate, AnnotateFails
      <3> QED
        BY <2>8, <3>1, <3>2 DEF Annotate, AnnotateFails, StampBoth, CP!Next, CP!Close
    <2>9. CASE UNCHANGED <<initialized, head, outFile, dump, finalized>>
      BY <2>9, DurableSame
    <2>10. PhaseA => ScriptInitialises \/ DumpSucceeds
                     \/ UNCHANGED <<initialized, head, outFile, dump, finalized>>
      BY DEF PhaseA, StartInit, GateRefuses, GatePasses, ScriptFails, PayloadLost, Capture,
             DumpFails, DrainFails, DrainPasses
    <2>11. PhaseB => WriteSharesOut \/ Commit \/ DropDump
                     \/ UNCHANGED <<initialized, head, outFile, dump, finalized>>
      BY DEF PhaseB, EncryptShare, EncryptFails, CommitFails, Push, PushFails
    <2>12. PhaseC => Annotate \/ AnnotateFails
                     \/ UNCHANGED <<initialized, head, outFile, dump, finalized>>
      BY DEF PhaseC, PostInitUnseal, PostInitUnsealFails, SetupAuth, SetupAuthFails, Revoke
    <2>13. World => CommitByHand
                    \/ UNCHANGED <<initialized, head, outFile, dump, finalized>>
      BY DEF World, Kill, UnsealCommand, SetupAuthCommand, PodRestart, EditFleet,
             GitCheckout, PushByHand
    <2> QED
      BY <2>2, <2>3, <2>4, <2>5, <2>6, <2>7, <2>8, <2>9, <2>10, <2>11, <2>12, <2>13 DEF Next
  <1> QED
    BY <1>1, <1>2, CustodyInductive, PTL DEF Spec, Promise, CP!Spec

HIDE DEF vault, stamps, disk, repo, proc, seen

-----------------------------------------------------------------------------
(*****************************************************************************)
(* PodUnseal, for any number of pods, commands and faults.                   *)
(*****************************************************************************)

\* How far a run no fault has met has come: the pods behind it are unsealed, the one
\* it is at has every share it handed over or does not need it any more.
Progressed(u) ==
  LET p == unsealer[u].pod IN
  /\ unsealer[u].at \in {"list", "status", "join"} => unsealer[u].share = 1
  /\ unsealer[u].at \in {"status", "join", "share"} =>
       \A q \in unsealer[u].listed : q < p => pods[q] = "unsealed"
  /\ unsealer[u].at = "share" =>
       pods[p] = "unsealed" \/ \A s \in Threshold : s < unsealer[u].share => s \in progress[p]
  /\ unsealer[u].at = "done" => \A q \in unsealer[u].listed : pods[q] = "unsealed"

UnsealInv == UnsealTypeOK /\ \A u \in clean : Progressed(u)

USE UnsealAssumption DEF Ordinals, Threshold, UnsealLabels

UnsealerType == [Unsealers -> [at : UnsealLabels, listed : SUBSET Ordinals, leader : Ordinals,
                               pod : Ordinals, share : Threshold]]

LEMMA UnsealInitInv == UnsealInit => UnsealInv
  BY DEF UnsealInit, UnsealInv, UnsealTypeOK, NoUnseal

\* Without a restart no pod loses its unsealed state, and none a share it still needs.
Holds == \A p \in Ordinals :
  /\ pods[p] = "unsealed" => pods'[p] = "unsealed"
  /\ pods'[p] = "unsealed" \/ progress[p] \subseteq progress'[p]

LEMMA StaysProgressed ==
  ASSUME UnsealTypeOK, Holds, NEW v \in Unsealers, Progressed(v), unsealer'[v] = unsealer[v]
  PROVE  Progressed(v)'
  BY DEF UnsealTypeOK, Holds, Progressed

\* One run moves: what is left to show is its own progress.
LEMMA RunMoves ==
  ASSUME UnsealInv, UnsealTypeOK', Holds, NEW u \in Unsealers, clean' \subseteq clean \cup {u},
         \A v \in Unsealers \ {u} : unsealer'[v] = unsealer[v],
         u \in clean' => Progressed(u)'
  PROVE  UnsealInv'
  <1>1. ASSUME NEW v \in clean' PROVE Progressed(v)'
    <2>1. CASE v = u
      BY <1>1, <2>1
    <2>2. CASE v # u
      BY <1>1, <2>2, StaysProgressed DEF UnsealInv, UnsealTypeOK
    <2> QED
      BY <2>1, <2>2
  <1> QED
    BY <1>1 DEF UnsealInv

LEMMA UnsMoves ==
  ASSUME UnsealTypeOK, NEW u \in Unsealers, NEW at \in UnsealLabels, UnsTo(u, at)
  PROVE  /\ unsealer' \in UnsealerType
         /\ unsealer'[u].at = at /\ unsealer'[u].listed = unsealer[u].listed
         /\ unsealer'[u].pod = unsealer[u].pod /\ unsealer'[u].share = unsealer[u].share
         /\ \A v \in Unsealers \ {u} : unsealer'[v] = unsealer[v]
  BY DEF UnsealTypeOK, UnsTo, UnsealerType

-----------------------------------------------------------------------------
\* The loop goes on from a pod that is unsealed.
LEMMA AdvanceMoves ==
  ASSUME UnsealTypeOK, NEW u \in Unsealers, Advance(u)
  PROVE  /\ unsealer' \in UnsealerType
         /\ \A v \in Unsealers \ {u} : unsealer'[v] = unsealer[v]
         /\ unsealer'[u].at = "done" \/ (unsealer'[u].at = "status" /\ unsealer'[u].share = 1)
         /\ unsealer'[u].listed = unsealer[u].listed
         /\ \A q \in unsealer[u].listed :
              q > unsealer[u].pod => unsealer'[u].at = "status" /\ q >= unsealer'[u].pod
  <1>1. CASE {p \in unsealer[u].listed : p > unsealer[u].pod} = {} /\ UnsTo(u, "done")
    <2>1. \A q \in unsealer[u].listed : ~(q > unsealer[u].pod)
      BY <1>1
    <2>2. /\ unsealer' \in UnsealerType /\ unsealer'[u].at = "done"
          /\ unsealer'[u].listed = unsealer[u].listed
          /\ \A v \in Unsealers \ {u} : unsealer'[v] = unsealer[v]
      BY <1>1, UnsMoves
    <2> QED
      BY <2>1, <2>2
  <1>2. ASSUME NEW next \in unsealer[u].listed,
               \A p \in unsealer[u].listed : p > unsealer[u].pod => next <= p,
               unsealer' = [unsealer EXCEPT ![u] = [@ EXCEPT !.at = "status", !.share = 1,
                                                             !.pod = next]]
        PROVE  /\ unsealer' \in UnsealerType
               /\ \A v \in Unsealers \ {u} : unsealer'[v] = unsealer[v]
               /\ unsealer'[u].at = "done"
                    \/ (unsealer'[u].at = "status" /\ unsealer'[u].share = 1)
               /\ unsealer'[u].listed = unsealer[u].listed
               /\ \A q \in unsealer[u].listed :
                    q > unsealer[u].pod => unsealer'[u].at = "status" /\ q >= unsealer'[u].pod
    <2>1. next \in Ordinals
      BY <1>2 DEF UnsealTypeOK
    <2>2. unsealer' \in UnsealerType
      <3> DEFINE moved == [unsealer[u] EXCEPT !.at = "status", !.share = 1, !.pod = next]
      <3>1. moved \in [at : UnsealLabels, listed : SUBSET Ordinals, leader : Ordinals,
                       pod : Ordinals, share : Threshold]
        <4>1. unsealer[u] \in [at : UnsealLabels, listed : SUBSET Ordinals, leader : Ordinals,
                               pod : Ordinals, share : Threshold]
          BY DEF UnsealTypeOK
        <4>2. 1 \in Threshold /\ "status" \in UnsealLabels
          OBVIOUS
        <4> HIDE DEF Ordinals, Threshold, UnsealLabels
        <4> QED
          BY <2>1, <4>1, <4>2
      <3>2. unsealer' = [unsealer EXCEPT ![u] = moved]
        BY <1>2
      <3> HIDE DEF moved
      <3> QED
        BY <3>1, <3>2 DEF UnsealTypeOK, UnsealerType
    <2>3. unsealer'[u].at = "status" /\ unsealer'[u].listed = unsealer[u].listed
          /\ unsealer'[u].pod = next /\ unsealer'[u].share = 1
      BY <1>2 DEF UnsealTypeOK
    <2>4. \A q \in unsealer[u].listed : q \in Ordinals
      BY DEF UnsealTypeOK
    <2> QED
      BY <1>2, <2>1, <2>2, <2>3, <2>4 DEF UnsealTypeOK
  <1> QED
    BY <1>1, <1>2 DEF Advance

LEMMA AdvanceProgresses ==
  ASSUME UnsealTypeOK, Holds, NEW u \in Unsealers, Advance(u), pods'[unsealer[u].pod] = "unsealed",
         \A q \in unsealer[u].listed : q < unsealer[u].pod => pods[q] = "unsealed"
  PROVE  Progressed(u)'
  <1>1. /\ unsealer[u].pod \in Ordinals /\ unsealer[u].listed \subseteq Ordinals
        /\ \A q \in Ordinals : q \in Int
    BY DEF UnsealTypeOK
  <1>2. \A q \in unsealer[u].listed :
          q > unsealer[u].pod \/ pods'[q] = "unsealed"
    BY <1>1 DEF Holds
  <1>3. /\ unsealer'[u].at = "done" \/ (unsealer'[u].at = "status" /\ unsealer'[u].share = 1)
        /\ unsealer'[u].listed = unsealer[u].listed
        /\ unsealer'[u].pod \in Ordinals
        /\ \A q \in unsealer[u].listed :
             q > unsealer[u].pod => unsealer'[u].at = "status" /\ q >= unsealer'[u].pod
    BY AdvanceMoves DEF UnsealerType
  <1>4. \A q \in unsealer[u].listed : unsealer'[u].at = "status" /\ q < unsealer'[u].pod
                                        => pods'[q] = "unsealed"
    BY <1>1, <1>2, <1>3
  <1> QED
    BY <1>2, <1>3, <1>4 DEF Progressed

\* After a share the pod has got, or does not need.
LEMMA GivenMoves ==
  ASSUME UnsealTypeOK, NEW u \in Unsealers, Given(u)
  PROVE  /\ unsealer' \in UnsealerType
         /\ \A v \in Unsealers \ {u} : unsealer'[v] = unsealer[v]
  <1>1. CASE unsealer[u].share < 3 /\ unsealer' = [unsealer EXCEPT ![u].share = @ + 1]
    <2>1. unsealer[u].share \in 1..3
      BY DEF UnsealTypeOK
    <2>2. unsealer[u].share + 1 \in Threshold
      BY <1>1, <2>1
    <2> QED
      BY <1>1, <2>2 DEF UnsealTypeOK, UnsealerType
  <1>2. CASE Advance(u)
    BY <1>2, AdvanceMoves
  <1> QED
    BY <1>1, <1>2 DEF Given

LEMMA GivenProgresses ==
  ASSUME UnsealTypeOK, NEW u \in Unsealers, Progressed(u), Holds, UnsAt(u, "share"), Given(u),
         pods'[unsealer[u].pod] = "unsealed"
           \/ /\ unsealer[u].share \in progress'[unsealer[u].pod]
              /\ progress'[unsealer[u].pod] # Threshold
              /\ progress'[unsealer[u].pod] \subseteq Threshold
  PROVE  Progressed(u)'
  <1> DEFINE p == unsealer[u].pod
  <1>1. /\ p \in Ordinals /\ unsealer[u].listed \subseteq Ordinals
        /\ \A q \in unsealer[u].listed : q < p => pods[q] = "unsealed"
        /\ pods[p] = "unsealed" \/ \A s \in Threshold : s < unsealer[u].share => s \in progress[p]
    BY DEF UnsealTypeOK, Progressed, UnsAt
  <1>2. \A q \in unsealer[u].listed : q < p => pods'[q] = "unsealed"
    BY <1>1 DEF Holds
  <1>3. \/ pods'[p] = "unsealed"
        \/ \A s \in Threshold : s <= unsealer[u].share => s \in progress'[p]
    BY <1>1 DEF Holds, UnsealTypeOK
  <1>4. CASE unsealer[u].share < 3 /\ unsealer' = [unsealer EXCEPT ![u].share = @ + 1]
    <2>1. /\ unsealer'[u].at = "share" /\ unsealer'[u].listed = unsealer[u].listed
          /\ unsealer'[u].pod = p /\ unsealer'[u].share = unsealer[u].share + 1
      BY <1>4 DEF UnsealTypeOK, UnsAt
    <2>2. unsealer[u].share \in Threshold
      BY DEF UnsealTypeOK
    <2>3. \A s \in Threshold : s < unsealer'[u].share => s <= unsealer[u].share
      BY <2>1, <2>2
    <2> QED
      BY <1>2, <1>3, <2>1, <2>3 DEF Progressed
  <1>5. CASE unsealer[u].share = 3 /\ Advance(u)
    <2>1. pods'[p] = "unsealed"
      BY <1>3, <1>5
    <2> QED
      BY <1>1, <1>5, <2>1, AdvanceProgresses
  <1> QED
    BY <1>4, <1>5 DEF Given

-----------------------------------------------------------------------------
\* A step of one run that leaves the pods alone and fails.
LEMMA EndsInv ==
  ASSUME UnsealInv, NEW u \in Unsealers, UnsTo(u, "failed"), PodsKept,
         clean' \subseteq clean
  PROVE  UnsealInv'
  <1>1. UnsealTypeOK /\ Holds
    BY DEF UnsealInv, PodsKept, Holds
  <1>2. UnsealTypeOK'
    BY <1>1, UnsMoves DEF UnsealTypeOK, UnsealerType, PodsKept
  <1>3. Progressed(u)'
    BY <1>1, UnsMoves DEF Progressed
  <1> QED
    BY <1>1, <1>2, <1>3, UnsMoves, RunMoves

LEMMA ListInv ==
  ASSUME UnsealInv, NEW u \in Unsealers, StartUnseal(u) \/ PodList(u) \/ KillUnseal(u)
  PROVE  UnsealInv'
  <1>1. UnsealTypeOK /\ Holds
    BY DEF UnsealInv, StartUnseal, PodList, KillUnseal, PodsKept, Holds
  <1>2. CASE StartUnseal(u)
    <2>1. UnsealTypeOK'
      BY <1>1, <1>2 DEF StartUnseal, NoUnseal, PodsKept, UnsealTypeOK
    <2>2. /\ unsealer'[u].at = "list" /\ unsealer'[u].share = 1 /\ \A v \in Unsealers \ {u} : unsealer'[v] = unsealer[v]
          /\ clean' \subseteq clean \cup {u}
      BY <1>1, <1>2 DEF StartUnseal, NoUnseal, UnsealTypeOK
    <2>3. Progressed(u)'
      BY <2>2 DEF Progressed
    <2> QED
      BY <1>1, <2>1, <2>2, <2>3, RunMoves
  <1>3. CASE PodList(u)
    <2>1. CASE UnsTo(u, "failed")
      BY <1>3, <2>1, EndsInv DEF PodList
    <2>2. ASSUME NEW there \in SUBSET Ordinals, NEW leader \in there,
                 \A p \in there : leader <= p,
                 unsealer' = [unsealer EXCEPT ![u] =
                   [@ EXCEPT !.at = "status", !.listed = there, !.leader = leader,
                             !.pod = leader]]
          PROVE  UnsealInv'
      <3>1. UnsealTypeOK'
        BY <1>1, <1>3, <2>2, ZenonT(60) DEF PodList, PodsKept, UnsealTypeOK
      <3>2. /\ unsealer'[u].at = "status" /\ unsealer'[u].listed = there
            /\ unsealer'[u].pod = leader /\ clean' = clean
            /\ unsealer'[u].share = unsealer[u].share /\ unsealer[u].at = "list"
            /\ \A v \in Unsealers \ {u} : unsealer'[v] = unsealer[v]
        BY <1>1, <1>3, <2>2 DEF PodList, UnsealTypeOK, UnsAt
      <3>3. \A q \in there : ~(q < leader)
        BY <2>2
      <3>4. u \in clean' => Progressed(u)'
        BY <3>2, <3>3 DEF Progressed, UnsealInv
      <3> QED
        BY <1>1, <3>1, <3>2, <3>4, RunMoves
    <2>3. {p \in Ordinals : pods[p] # "absent"} \in SUBSET Ordinals
      OBVIOUS
    <2> QED
      BY <1>3, <2>1, <2>2, <2>3 DEF PodList
  <1>4. CASE KillUnseal(u)
    BY <1>4, EndsInv DEF KillUnseal
  <1> QED
    BY <1>2, <1>3, <1>4

LEMMA StatusInv ==
  ASSUME UnsealInv, NEW u \in Unsealers, PodStatus(u)
  PROVE  UnsealInv'
  <1>1. /\ UnsealTypeOK /\ Holds /\ PodsKept /\ UNCHANGED clean /\ unsealer[u].at = "status"
        /\ u \in clean => Progressed(u)
    BY DEF UnsealInv, PodStatus, PodsKept, Holds, UnsAt
  <1>2. CASE UnsTo(u, "failed")
    BY <1>1, <1>2, EndsInv
  <1>3. CASE pods[unsealer[u].pod] = "unsealed" /\ Advance(u)
    <2>1. UnsealTypeOK'
      BY <1>1, <1>3, AdvanceMoves DEF UnsealTypeOK, UnsealerType, PodsKept
    <2>2. u \in clean' => Progressed(u)'
      BY <1>1, <1>3, AdvanceProgresses DEF Progressed, PodsKept
    <2> QED
      BY <1>1, <1>3, <2>1, <2>2, AdvanceMoves, RunMoves
  <1>4. ASSUME NEW at \in {"join", "share"}, UnsTo(u, at)
        PROVE  UnsealInv'
    <2>1. UnsealTypeOK'
      BY <1>1, <1>4, UnsMoves DEF UnsealTypeOK, UnsealerType, PodsKept
    <2>2. u \in clean' => Progressed(u)'
      BY <1>1, <1>4, UnsMoves DEF Progressed, PodsKept
    <2> QED
      BY <1>1, <1>4, <2>1, <2>2, UnsMoves, RunMoves
  <1> QED
    BY <1>1, <1>2, <1>3, <1>4 DEF PodStatus

\* RaftJoin gives the follower its leader's barrier: nobody has handed it a share.
LEMMA JoinInv ==
  ASSUME UnsealInv, NEW u \in Unsealers, RaftJoin(u)
  PROVE  UnsealInv'
  <1> DEFINE p == unsealer[u].pod
  <1>1. /\ UnsealTypeOK /\ UNCHANGED <<progress, faults, clean>> /\ unsealer[u].at = "join"
        /\ p \in Ordinals /\ (u \in clean => Progressed(u))
    BY DEF UnsealInv, UnsealTypeOK, RaftJoin, UnsAt
  <1>2. Holds /\ pods' \in [Ordinals -> {"absent", "fresh", "sealed", "unsealed"}]
    BY <1>1 DEF RaftJoin, Holds, UnsealTypeOK
  <1>3. ASSUME NEW at \in {"share", "failed"}, UnsTo(u, at) PROVE UnsealInv'
    <2>1. UnsealTypeOK'
      BY <1>1, <1>2, <1>3, UnsMoves DEF UnsealTypeOK, UnsealerType
    <2>2. u \in clean' => Progressed(u)'
      <3>1. \A q \in unsealer[u].listed : q \in Ordinals
        BY <1>1 DEF UnsealTypeOK
      <3> QED
        <4> SUFFICES ASSUME u \in clean PROVE Progressed(u)'
          BY <1>1
        <4>1. unsealer[u].share = 1 /\ \A q \in unsealer[u].listed : q < p => pods'[q] = "unsealed"
          BY <1>1, <1>2, <3>1 DEF Progressed, Holds
        <4>2. /\ unsealer'[u].at = at /\ unsealer'[u].listed = unsealer[u].listed
              /\ unsealer'[u].pod = p /\ unsealer'[u].share = 1
          BY <1>1, <1>3, <4>1, UnsMoves
        <4> QED
          BY <1>3, <4>1, <4>2 DEF Progressed
    <2> QED
      BY <1>1, <1>2, <1>3, <2>1, <2>2, UnsMoves, RunMoves
  <1> QED
    BY <1>3 DEF RaftJoin

\* A share reaches the pod, is of no use to an unsealed one, or fails.
LEMMA SubmitInv ==
  ASSUME UnsealInv, NEW u \in Unsealers, SubmitShare(u)
  PROVE  UnsealInv'
  <1> DEFINE p == unsealer[u].pod
             s == unsealer[u].share
  <1>1. /\ UnsealTypeOK /\ UNCHANGED <<faults, clean>> /\ UnsAt(u, "share")
        /\ p \in Ordinals /\ s \in Threshold /\ (u \in clean => Progressed(u))
    BY DEF UnsealInv, UnsealTypeOK, SubmitShare
  <1>2. CASE UNCHANGED <<pods, progress>> /\ UnsTo(u, "failed")
    BY <1>1, <1>2, EndsInv DEF PodsKept
  <1>3. CASE pods[p] = "unsealed" /\ UNCHANGED <<pods, progress>> /\ Given(u)
    <2>1. Holds /\ UnsealTypeOK'
      BY <1>1, <1>3, GivenMoves DEF Holds, UnsealTypeOK, UnsealerType
    <2>2. u \in clean' => Progressed(u)'
      <3> SUFFICES ASSUME u \in clean PROVE Progressed(u)'
        BY <1>1
      <3>1. Progressed(u) /\ pods'[p] = "unsealed"
        BY <1>1, <1>3
      <3> QED
        BY <1>1, <1>3, <2>1, <3>1, GivenProgresses
    <2> QED
      BY <1>1, <1>3, <2>1, <2>2, GivenMoves, RunMoves
  <1>4. CASE pods[p] = "sealed" /\ Shares(p, s) /\ Given(u)
    <2>1. progress[p] \subseteq Threshold /\ progress[p] \cup {s} \subseteq Threshold
      BY <1>1 DEF UnsealTypeOK
    <2>2. CASE progress[p] \cup {s} = Threshold
      <3>1. /\ pods' = [pods EXCEPT ![p] = "unsealed"]
            /\ progress' = [progress EXCEPT ![p] = {}]
        BY <1>4, <2>2 DEF Shares
      <3>2. Holds /\ UnsealTypeOK' /\ pods'[p] = "unsealed"
        BY <1>1, <1>4, <3>1, GivenMoves DEF Holds, UnsealTypeOK, UnsealerType
      <3>3. u \in clean' => Progressed(u)'
        <4> SUFFICES ASSUME u \in clean PROVE Progressed(u)'
          BY <1>1
        <4>1. Progressed(u)
          BY <1>1
        <4> QED
          BY <1>1, <1>4, <3>2, <4>1, GivenProgresses
      <3> QED
        BY <1>1, <1>4, <3>2, <3>3, GivenMoves, RunMoves
    <2>3. CASE progress[p] \cup {s} # Threshold
      <3>1. UNCHANGED pods /\ progress' = [progress EXCEPT ![p] = progress[p] \cup {s}]
        BY <1>4, <2>3 DEF Shares
      <3>2. Holds /\ UnsealTypeOK' /\ progress'[p] = progress[p] \cup {s}
        BY <1>1, <1>4, <2>1, <3>1, GivenMoves DEF Holds, UnsealTypeOK, UnsealerType
      <3>3. u \in clean' => Progressed(u)'
        <4> SUFFICES ASSUME u \in clean PROVE Progressed(u)'
          BY <1>1
        <4>1. /\ Progressed(u) /\ s \in progress'[p] /\ progress'[p] # Threshold
              /\ progress'[p] \subseteq Threshold
          BY <1>1, <2>1, <2>3, <3>2
        <4> QED
          BY <1>1, <1>4, <3>2, <4>1, GivenProgresses
      <3> QED
        BY <1>1, <1>4, <3>2, <3>3, GivenMoves, RunMoves
    <2> QED
      BY <2>2, <2>3
  <1> QED
    BY <1>2, <1>3, <1>4 DEF SubmitShare

\* The run whose share was dropped is no longer clean; the others do not notice.
LEMMA DroppedInv ==
  ASSUME UnsealInv, NEW u \in Unsealers, ShareDropped(u)
  PROVE  UnsealInv'
  <1>1. /\ UnsealTypeOK /\ Holds /\ clean' = clean \ {u} /\ Given(u)
        /\ UNCHANGED <<pods, progress>> /\ faults' \in 0..MaxFaults
    BY DEF UnsealInv, ShareDropped, Holds, Fault, UnsealTypeOK
  <1>2. UnsealTypeOK'
    BY <1>1, GivenMoves DEF UnsealTypeOK, UnsealerType
  <1> QED
    BY <1>1, <1>2, GivenMoves, RunMoves

LEMMA UnsealNextInv == UnsealInv /\ [UnsealNext]_unsealVars => UnsealInv'
  <1> SUFFICES ASSUME UnsealInv, [UnsealNext]_unsealVars PROVE UnsealInv'
    OBVIOUS
  <1>1. ASSUME NEW u \in Unsealers, StartUnseal(u) \/ UnsealStep(u) \/ KillUnseal(u)
        PROVE  UnsealInv'
    BY <1>1, ListInv, StatusInv, JoinInv, SubmitInv, DroppedInv DEF UnsealStep
  <1>2. CASE PodAppears
    <2>1. /\ UnsealTypeOK /\ UnsealTypeOK' /\ Holds /\ UNCHANGED <<unsealer, clean>>
      BY <1>2 DEF PodAppears, UnsealInv, UnsealTypeOK, Holds
    <2> QED
      BY <2>1, StaysProgressed DEF UnsealInv, UnsealTypeOK
  <1>3. CASE PodRestarts
    BY <1>3, SMTT(40) DEF PodRestarts, Fault, UnsealInv, UnsealTypeOK
  <1>4. CASE UNCHANGED unsealVars
    <2>1. UnsealTypeOK /\ UnsealTypeOK' /\ Holds /\ UNCHANGED <<unsealer, clean>>
      BY <1>4 DEF unsealVars, UnsealInv, UnsealTypeOK, Holds
    <2> QED
      BY <2>1, StaysProgressed DEF UnsealInv, UnsealTypeOK
  <1> QED
    BY <1>1, <1>2, <1>3, <1>4 DEF UnsealNext

-----------------------------------------------------------------------------
\* The inductive invariant of openbao unseal (unseal.go, client.go).
THEOREM UnsealInvariant == UnsealSpec => []UnsealInv
  BY UnsealInitInv, UnsealNextInv, PTL DEF UnsealSpec

\* Every variable of the unseal command keeps its type.
THEOREM UnsealTypes == UnsealSpec => []UnsealTypeOK
  <1>1. UnsealInv => UnsealTypeOK
    BY DEF UnsealInv
  <1> QED
    BY <1>1, UnsealInvariant, PTL

\* "Returns nil on success" (Unseal): a nil over fault-free pods means that every pod
\* it listed is unsealed, for any number of replicas and of commands side by side.
THEOREM NilUnsealed == UnsealSpec => []NilMeansUnsealed
  <1>1. UnsealInv => NilMeansUnsealed
    BY DEF UnsealInv, NilMeansUnsealed, Progressed, UnsAt
  <1> QED
    BY <1>1, UnsealInvariant, PTL

HIDE UnsealAssumption DEF Ordinals, Threshold, UnsealLabels

=============================================================================
