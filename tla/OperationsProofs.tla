-------------------------- MODULE OperationsProofs --------------------------
(*****************************************************************************)
(* Theorems about the operations on a running cluster: the auth ceremony of  *)
(* the controller (ControllerAuth), the removal of a node (NodeRemove), the  *)
(* change of a GPU node's mode (GpuTransition) and break-glass (BreakGlass). *)
(*****************************************************************************)
EXTENDS ControllerAuth, NodeRemove, GpuTransition, BreakGlass, TLAPS
LOCAL INSTANCE FiniteSetsExt

-----------------------------------------------------------------------------
(*****************************************************************************)
(* ControllerAuth, for every threshold, every number of attempts, rounds and *)
(* runs.                                                                     *)
(*                                                                           *)
(* The ceremony argument: a round starts with no ceremony of its own OTP, so *)
(* a fresh one starts at zero, and a share is passed over only when its      *)
(* answer or -status showed that it had landed.  The setup argument: the     *)
(* role is the last write of both modes, and its wrapper is the checked one. *)
(*****************************************************************************)

USE DEF vault, token, place, ended

\* The labels and reports the actions use are the declared ones.
LEMMA AuthVocabulary ==
  /\ {"idle", "otp", "clear", "init", "submit", "verify", "recheck", "again", "write",
      "stamp", "revoke"} \subseteq AuthLabels
  /\ {"enable", "config", "policy", "role"} = Writes
  /\ NoCeremony \in Ceremony
  /\ \A c \in Ceremony : [c EXCEPT !.state = "stale"] \in Ceremony
  /\ [state |-> "fresh", progress |-> 0] \in Ceremony
  BY ControllerAuthAssumption DEF AuthLabels, Writes, NoCeremony, Ceremony

\* Both programs are short lists of writes that end with the role.
LEMMA ProgramShape ==
  ASSUME mode \in {"full", "refresh"}
  PROVE  /\ Len(Program) \in 1..4 /\ Program[Len(Program)] = "role"
         /\ \A i \in 1..Len(Program) : Program[i] \in Writes
  BY DEF Program, Writes

\* The step of the program is always one of its steps while writing.
StepInProgram == pc = "write" => step \in 1..Len(Program)

AuthTypeInv == AuthTypeOK /\ StepInProgram

LEMMA AuthTypeInit == AuthInit => AuthTypeInv
  <1> SUFFICES ASSUME AuthInit PROVE AuthTypeInv
    OBVIOUS
  <1>1. ceremony \in Ceremony /\ written \subseteq Writes /\ pc \in AuthLabels
    BY AuthVocabulary DEF AuthInit
  <1>2. round \in 1..Ceremonies /\ share \in 1..T /\ try \in 1..(Tries + 1)
        /\ step \in 1..4 /\ authRuns \in 0..MaxAuthRuns
    BY ControllerAuthAssumption DEF AuthInit
  <1> QED
    BY <1>1, <1>2 DEF AuthInit, AuthTypeInv, AuthTypeOK, StepInProgram

\* The rounds of the ceremony keep the types; a landed share below the threshold
\* leaves room for the next.
LEMMA AuthTypeGenerate == AuthTypeInv /\ Generate => AuthTypeInv'
  <1> SUFFICES ASSUME AuthTypeInv, Generate PROVE AuthTypeInv'
    OBVIOUS
  <1> USE AuthVocabulary, ControllerAuthAssumption
          DEF AuthTypeInv, AuthTypeOK, StepInProgram, Return, Goto
  <1>1. Landed => share < T
    BY DEF Landed, Ceremony
  <1>2. \A r : ErrorReply(r) => \/ Retry /\ try < Tries
                                \/ Goto("again") \/ Return("failed")
    BY DEF ErrorReply
  <1>3. \A r : Reply(r) => \/ Retry /\ try < Tries
                           \/ Goto("again") \/ Return("failed") \/ Goto("verify")
    BY <1>2 DEF Reply
  <1>4. NotLanded => (Retry /\ try < Tries) \/ Goto("again")
    BY DEF NotLanded
  <1>5. CASE Start
    BY <1>5 DEF Start, Program
  <1>6. CASE GenerateOtp \/ OtpFails \/ CancelSeen \/ CancelNotSeen
    BY <1>6 DEF GenerateOtp, OtpFails, CancelSeen, CancelNotSeen
  <1>7. CASE InitCeremony \/ InitFails
    BY <1>7, SMTT(40) DEF InitCeremony, InitFails, Started
  <1>8. CASE ShareLands
    <2>1. ceremony' \in Ceremony
      BY <1>8 DEF ShareLands, Ceremony
    <2> QED
      BY <1>3, <1>8, <2>1, SMTT(40) DEF ShareLands, Accept, Retry
  <1>9. CASE ThresholdLands
    BY <1>3, <1>9, ProgramShape DEF ThresholdLands, Retry, Program
  <1>10. CASE ShareRepeated
    BY <1>4, <1>10, SMTT(40) DEF ShareRepeated, Retry
  <1>11. CASE ShareRefused
    BY <1>3, <1>11, SMTT(40) DEF ShareRefused, Retry
  <1>12. CASE VerifyLanded \/ RecheckLanded
    BY <1>1, <1>12 DEF VerifyLanded, RecheckLanded, Accept
  <1>13. CASE VerifyAutoCleared \/ RecheckResubmits
    BY <1>13 DEF VerifyAutoCleared, RecheckResubmits
  <1>14. CASE VerifyNotLanded
    BY <1>4, <1>14, SMTT(40) DEF VerifyNotLanded, Retry
  <1>15. CASE NextRound \/ Interrupted
    BY <1>15, SMTT(40) DEF NextRound, Interrupted
  <1> QED
    BY <1>5, <1>6, <1>7, <1>8, <1>9, <1>10, <1>11, <1>12, <1>13, <1>14, <1>15 DEF Generate

\* Going on from a write: the next step of the program, or the stamps.
LEMMA AuthNextWrite ==
  ASSUME AuthTypeInv, pc = "write", NextWrite
  PROVE  /\ pc' \in {"write", "stamp"} /\ step' \in 1..4 /\ try' \in 1..(Tries + 1)
         /\ mode' = mode
         /\ pc' = "write" => step' \in 1..Len(Program)
         /\ round' = round /\ share' = share /\ UNCHANGED ended
  <1>1. Len(Program) \in 1..4
    BY ProgramShape DEF AuthTypeInv, AuthTypeOK
  <1>2. step \in 1..Len(Program) /\ 1 \in 1..(Tries + 1)
    BY ControllerAuthAssumption DEF AuthTypeInv, StepInProgram
  <1>3. CASE step < Len(Program)
    <2>1. /\ pc' = "write" /\ step' = step + 1 /\ try' = 1
          /\ UNCHANGED <<mode, round, share, ended>>
      BY <1>3 DEF NextWrite
    <2>2. \A n \in 1..4 : \A i \in 1..n : i < n => i + 1 \in 1..4 /\ i + 1 \in 1..n
      OBVIOUS
    <2>3. step + 1 \in 1..4 /\ step + 1 \in 1..Len(Program)
      BY <1>1, <1>2, <1>3, <2>2, Zenon
    <2> QED
      BY <1>2, <2>1, <2>3
  <1>4. CASE ~(step < Len(Program))
    BY <1>4 DEF NextWrite, Goto, AuthTypeInv, AuthTypeOK
  <1> QED
    BY <1>3, <1>4

\* After a write, whatever became of it: the next step, another attempt or the end.
LEMMA AuthAfterWrite ==
  ASSUME AuthTypeInv, pc = "write", NextWrite \/ RetryWrite \/ Finish("failed")
  PROVE  /\ pc' \in AuthLabels /\ mode' \in {"full", "refresh"} /\ round' \in 1..Ceremonies
         /\ share' \in 1..T /\ try' \in 1..(Tries + 1) /\ step' \in 1..4
         /\ pending' \in {"none", "failed", "ok"} /\ authRuns' \in 0..MaxAuthRuns
         /\ report' \in {"none", "failed", "exhausted", "ok", "killed"}
         /\ StepInProgram'
  <1> USE DEF AuthTypeInv, AuthTypeOK, StepInProgram
  <1>1. CASE NextWrite
    <2>1. mode' = mode => Len(Program') = Len(Program)
      BY DEF Program
    <2>2. {"write", "stamp"} \subseteq AuthLabels
      BY AuthVocabulary
    <2> QED
      BY <1>1, <2>1, <2>2, AuthNextWrite
  <1>2. CASE RetryWrite /\ pc' = "write"
    <2>1. try' = try + 1 /\ try <= Tries /\ UNCHANGED <<mode, round, share, step, ended>>
      BY <1>2 DEF RetryWrite, Finish
    <2>2. try' \in 1..(Tries + 1)
      BY <2>1, ControllerAuthAssumption
    <2>3. Program' = Program
      BY <2>1 DEF Program
    <2> QED
      BY <1>2, <2>1, <2>2, <2>3
  <1>3. CASE Finish("failed")
    BY <1>3, AuthVocabulary DEF Finish
  <1> QED
    BY <1>1, <1>2, <1>3 DEF RetryWrite

\* The privileged writes keep the types.
LEMMA AuthTypeSetup == AuthTypeInv /\ (Setup \/ Kill) => AuthTypeInv'
  <1> SUFFICES ASSUME AuthTypeInv, Setup \/ Kill PROVE AuthTypeInv'
    OBVIOUS
  <1> USE AuthVocabulary, ControllerAuthAssumption DEF AuthTypeInv, AuthTypeOK, StepInProgram
  <1>1. pc = "write" => Kind \in Writes
    BY ProgramShape DEF Kind
  <1>2. CASE WriteTaken
    <2>1. written' \subseteq Writes
      BY <1>1, <1>2 DEF WriteTaken
    <2>2. pc = "write" /\ (NextWrite \/ RetryWrite)
          /\ UNCHANGED <<ceremony, installed, generation, token>>
      BY <1>2 DEF WriteTaken
    <2> QED
      BY <2>1, <2>2, AuthAfterWrite
  <1>3. CASE WriteRefused \/ WriteFails
    <2>1. /\ pc = "write" /\ (NextWrite \/ RetryWrite \/ Finish("failed"))
          /\ UNCHANGED <<vault, token>>
      BY <1>3 DEF WriteRefused, WriteFails
    <2> QED
      BY <2>1, AuthAfterWrite
  <1>4. CASE Stamp \/ StampFails
    <2>1. installed' \in BOOLEAN /\ generation' \in BOOLEAN
      BY <1>4 DEF Stamp, StampFails, StampService
    <2> QED
      BY <1>4, <2>1 DEF Stamp, StampFails, Finish
  <1>5. CASE RevokeSelf
    BY <1>5 DEF RevokeSelf, Return
  <1>6. CASE Kill
    BY <1>6 DEF Kill, Return
  <1> QED
    BY <1>2, <1>3, <1>4, <1>5, <1>6 DEF Setup

LEMMA AuthTypeInvariant == AuthSpec => []AuthTypeInv
  <1>1. AuthTypeInv /\ [AuthNext]_authVars => AuthTypeInv'
    <2>1. ASSUME AuthTypeInv, UNCHANGED authVars PROVE AuthTypeInv'
      BY <2>1 DEF authVars, AuthTypeInv, AuthTypeOK, StepInProgram, Program
    <2> QED
      BY <2>1, AuthTypeGenerate, AuthTypeSetup DEF AuthNext
  <1> QED
    BY <1>1, AuthTypeInit, PTL DEF AuthSpec

\* Every reachable state has its type, whatever the constants.
THEOREM AuthTypeCorrect == AuthSpec => []AuthTypeOK
  BY AuthTypeInvariant, PTL DEF AuthTypeInv

-----------------------------------------------------------------------------
\* Where the ceremony can be while a round of its own is being driven.
StepInv ==
  /\ pc \in {"clear", "init"} => ceremony.state # "fresh"
  /\ SharesInStep

\* The rounds keep it: a share is passed only once it has landed.
LEMMA StepGenerate == AuthTypeInv /\ StepInv /\ Generate => StepInv'
  <1> SUFFICES ASSUME AuthTypeInv, StepInv, Generate PROVE StepInv'
    OBVIOUS
  <1> USE DEF AuthTypeInv, AuthTypeOK, Ceremony, StepInv, SharesInStep, Return, Goto
  <1>1. CASE Start \/ OtpFails \/ CancelNotSeen
    BY <1>1 DEF Start, OtpFails, CancelNotSeen
  <1>2. CASE GenerateOtp
    BY <1>2 DEF GenerateOtp, NoCeremony
  <1>3. CASE CancelSeen
    BY <1>3 DEF CancelSeen, NoCeremony
  <1>4. CASE InitCeremony
    BY <1>4 DEF InitCeremony, Started
  <1>5. CASE InitFails
    BY <1>5 DEF InitFails
  <1>6. CASE ShareLands
    <2>1. ceremony'.state = ceremony.state /\ ceremony'.progress = ceremony.progress + 1
      BY <1>6 DEF ShareLands
    <2>2. ceremony'.state = "fresh" => ceremony'.progress = share
      BY <1>6, <2>1 DEF ShareLands
    <2>3. CASE Accept
      BY <2>2, <2>3 DEF Accept
    <2>4. CASE \E r \in NoAnswer \ {"exitText"} : Reply(r)
      BY <2>2, <2>4 DEF Reply, ErrorReply, Retry
    <2> QED
      BY <1>6, <2>3, <2>4 DEF ShareLands
  <1>7. CASE ThresholdLands
    BY <1>7 DEF ThresholdLands, NoCeremony
  <1>8. CASE ShareRepeated \/ VerifyNotLanded
    BY <1>8 DEF ShareRepeated, VerifyNotLanded, NotLanded, Retry
  <1>9. CASE ShareRefused
    BY <1>9 DEF ShareRefused, Reply, ErrorReply, Retry
  <1>10. CASE VerifyLanded \/ RecheckLanded
    BY <1>10 DEF VerifyLanded, RecheckLanded, Landed, Accept
  <1>11. CASE VerifyAutoCleared \/ RecheckResubmits
    BY <1>11 DEF VerifyAutoCleared, RecheckResubmits
  <1>12. CASE NextRound \/ Interrupted
    BY <1>12 DEF NextRound, Interrupted
  <1> QED
    BY <1>1, <1>2, <1>3, <1>4, <1>5, <1>6, <1>7, <1>8, <1>9, <1>10, <1>11, <1>12
    DEF Generate

\* Nothing after the ceremony goes back into it.
LEMMA StepSetup == AuthTypeInv /\ StepInv /\ (Setup \/ Kill) => StepInv'
  <1>1. Setup \/ Kill => pc' \in {"idle", "write", "stamp", "revoke"}
    BY DEF Setup, Kill, WriteTaken, WriteRefused, WriteFails, Stamp, StampFails, RevokeSelf,
           NextWrite, RetryWrite, Finish, Return, Goto
  <1> QED
    BY <1>1 DEF StepInv, SharesInStep

\* Whatever answers are lost, no share of the running ceremony is skipped: it is
\* at the share in hand or one behind.
THEOREM SharesStayInStep == AuthSpec => []SharesInStep
  <1>1. AuthInit => StepInv
    BY DEF AuthInit, StepInv, SharesInStep
  <1>2. AuthTypeInv /\ StepInv /\ [AuthNext]_authVars => StepInv'
    <2>1. ASSUME StepInv, UNCHANGED authVars PROVE StepInv'
      BY <2>1 DEF authVars, StepInv, SharesInStep
    <2> QED
      BY <2>1, StepGenerate, StepSetup DEF AuthNext
  <1>3. StepInv => SharesInStep
    BY DEF StepInv
  <1> QED
    BY <1>1, <1>2, <1>3, AuthTypeInvariant, PTL DEF AuthSpec

-----------------------------------------------------------------------------
\* At the stamps, the mount and the role are in the vault.
StampInv ==
  /\ pc = "stamp" => {"enable", "role"} \subseteq written
  /\ RolesBeforeStamp

\* A role that was passed was taken.
LEMMA RolePassed ==
  ASSUME AuthTypeInv, pc = "write", NextWrite, pc' = "stamp"
  PROVE  Kind = "role"
  BY ProgramShape DEF AuthTypeInv, AuthTypeOK, StepInProgram, NextWrite, Kind

\* With the role's wrapper checked, as in the code, the generation stamp is set
\* only over a mount and a role that are there.
THEOREM StampAfterRoles == ASSUME "role" \in Checked PROVE AuthSpec => []RolesBeforeStamp
  <1>1. AuthInit => StampInv
    BY DEF AuthInit, StampInv, RolesBeforeStamp
  <1>2. AuthTypeInv /\ StampInv /\ [AuthNext]_authVars => StampInv'
    <2> SUFFICES ASSUME AuthTypeInv, StampInv, [AuthNext]_authVars PROVE StampInv'
      OBVIOUS
    <2> USE DEF StampInv, RolesBeforeStamp
    <2>1. CASE Generate
      <3>1. UNCHANGED <<written, generation>> /\ pc' # "stamp"
        BY <2>1 DEF Generate, Start, GenerateOtp, OtpFails, CancelSeen, CancelNotSeen,
           InitCeremony, InitFails, ShareLands, ThresholdLands, ShareRepeated,
           ShareRefused, VerifyLanded, VerifyAutoCleared, VerifyNotLanded,
           RecheckLanded, RecheckResubmits, Interrupted, NextRound, Accept, Reply,
           ErrorReply, NotLanded, Retry, Goto, Return
      <3> QED
        BY <3>1
    <2>2. CASE WriteTaken
      <3>1. UNCHANGED generation /\ written' = written \cup {Kind}
        BY <2>2 DEF WriteTaken
      <3>2. pc' = "stamp" => {"enable", "role"} \subseteq written'
        BY <2>2, <3>1, RolePassed DEF WriteTaken, Writable, RetryWrite, Finish
      <3> QED
        BY <3>1, <3>2
    <2>3. CASE WriteRefused
      <3>1. pc' # "stamp"
        BY <2>3, RolePassed DEF WriteRefused, RetryWrite, Finish
      <3> QED
        BY <2>3, <3>1 DEF WriteRefused
    <2>4. CASE Stamp \/ StampFails
      BY <2>4 DEF Stamp, StampFails, StampService, Finish
    <2>5. CASE WriteFails \/ RevokeSelf \/ Kill
      BY <2>5 DEF WriteFails, RevokeSelf, Kill, Finish, Return
    <2>6. CASE UNCHANGED authVars
      BY <2>6 DEF authVars
    <2> QED
      BY <2>1, <2>2, <2>3, <2>4, <2>5, <2>6 DEF AuthNext, Setup
  <1>3. StampInv => RolesBeforeStamp
    BY DEF StampInv
  <1> QED
    BY <1>1, <1>2, <1>3, AuthTypeInvariant, PTL DEF AuthSpec

-----------------------------------------------------------------------------
\* A live token belongs to a run that is still going to revoke it, or has.
TokenInv ==
  /\ held = "live" /\ pc # "idle" => pc \in {"write", "stamp", "revoke"}
  /\ TokenAccounted

\* The deferred revoke is on every way out but a kill.
THEOREM TokenIsAccounted == AuthSpec => []TokenAccounted
  <1>1. AuthInit => TokenInv
    BY DEF AuthInit, TokenInv, TokenAccounted
  <1>2. AuthTypeInv /\ TokenInv /\ [AuthNext]_authVars => TokenInv'
    <2> SUFFICES ASSUME AuthTypeInv, TokenInv, [AuthNext]_authVars PROVE TokenInv'
      OBVIOUS
    <2> USE DEF TokenInv, TokenAccounted
    <2>1. CASE Start \/ ThresholdLands
      BY <2>1 DEF Start, ThresholdLands, Reply, ErrorReply, Retry, Goto, Return
    <2>2. CASE Generate /\ ~Start /\ ~ThresholdLands
      <3>1. UNCHANGED token /\ pc \notin {"idle", "write", "stamp", "revoke"}
        BY <2>2 DEF Generate, GenerateOtp, OtpFails, CancelSeen, CancelNotSeen,
           InitCeremony, InitFails, ShareLands, ShareRepeated, ShareRefused, VerifyLanded,
           VerifyAutoCleared, VerifyNotLanded, RecheckLanded, RecheckResubmits, Interrupted,
           NextRound
      <3> QED
        BY <3>1
    <2>3. CASE WriteTaken \/ WriteRefused \/ WriteFails
      <3>1. UNCHANGED token /\ pc' \in {"write", "stamp", "revoke"}
        BY <2>3 DEF WriteTaken, WriteRefused, WriteFails, NextWrite, RetryWrite, Finish,
           Goto
      <3> QED
        BY <3>1
    <2>4. CASE Stamp \/ StampFails
      BY <2>4 DEF Stamp, StampFails, Finish
    <2>5. CASE RevokeSelf
      BY <2>5 DEF RevokeSelf, Return
    <2>6. CASE Kill
      BY <2>6 DEF Kill, Return
    <2>7. CASE UNCHANGED authVars
      BY <2>7 DEF authVars
    <2> QED
      BY <2>1, <2>2, <2>3, <2>4, <2>5, <2>6, <2>7 DEF AuthNext, Setup
  <1>3. TokenInv => TokenAccounted
    BY DEF TokenInv
  <1> QED
    BY <1>1, <1>2, <1>3, AuthTypeInvariant, PTL DEF AuthSpec

HIDE DEF vault, token, place, ended

-----------------------------------------------------------------------------
(*****************************************************************************)
(* NodeRemove, for any cluster, any number of operators and any outages.  Both*)
(* theorems need that no control-plane node is named as another one with a   *)
(* suffix: FindEtcdMemberID's prefix match would take the wrong member.      *)
(*****************************************************************************)

\* The member that was looked up is the target's.
RightMember == \A r \in Removers : RmAt(r, "remove") => remover[r].member = remover[r].target

\* Past the etcd steps the target is no member (any more); members never return.
MemberGone ==
  \A r \in Removers : remover[r].at \in {"cordon", "drain", "delete", "teardown"} =>
    remover[r].target \notin members

RemoveInv == RemoveTypeOK /\ RightMember /\ MemberGone /\ NoStrandedMember

USE RemoveAssumption DEF RemoveLabels

RemoverType == [Removers -> [at : RemoveLabels, target : Cluster, peer : Cluster,
                             member : Cluster, force : BOOLEAN, skipDrain : BOOLEAN,
                             runs : 0..MaxRemovals]]

LEMMA SomebodyThere == Somebody \in Cluster
  BY DEF Somebody

LEMMA RemoveInitInv == RemoveInit => RemoveInv
  BY SomebodyThere DEF RemoveInit, RemoveInv, RemoveTypeOK, RightMember, MemberGone,
     NoStrandedMember, NoRemoval, RmAt

\* What RmTo changes.
LEMMA RmMoves ==
  ASSUME RemoveTypeOK, NEW r \in Removers, NEW at \in RemoveLabels, RmTo(r, at)
  PROVE  /\ remover' \in RemoverType
         /\ remover'[r].at = at /\ remover'[r].target = remover[r].target
         /\ remover'[r].member = remover[r].member
         /\ \A q \in Removers \ {r} : remover'[q] = remover[q]
  BY DEF RemoveTypeOK, RmTo, RemoverType

LEMMA RmEnds ==
  ASSUME RemoveTypeOK, NEW r \in Removers, RmReturns(r)
  PROVE  /\ remover' \in RemoverType /\ remover'[r].at = "ended"
         /\ \A q \in Removers \ {r} : remover'[q] = remover[q]
  BY SomebodyThere DEF RemoveTypeOK, RmReturns, NoRemoval, RemoverType

\* A run that goes on and leaves the cluster alone.
LEMMA GoesOnInv ==
  ASSUME RemoveInv, NEW r \in Removers, NEW at \in RemoveLabels \ {"remove"}, RmTo(r, at),
         at \in {"cordon", "drain", "delete", "teardown"} => remover[r].target \notin members,
         ClusterKept
  PROVE  RemoveInv'
  <1>1. RemoveTypeOK'
    BY RmMoves DEF RemoveInv, RemoveTypeOK, ClusterKept, RemoverType
  <1>2. RightMember' /\ MemberGone' /\ NoStrandedMember'
    BY RmMoves DEF RemoveInv, RightMember, MemberGone, NoStrandedMember, ClusterKept, RmAt
  <1> QED
    BY <1>1, <1>2 DEF RemoveInv

\* A run that returns, whatever it did to the machines, to its own member or to a
\* node that is no member.
LEMMA ReturnsInv ==
  ASSUME RemoveInv, NEW r \in Removers, RmReturns(r),
         members' \subseteq members, members' \subseteq nodes', nodes' \subseteq nodes,
         up' \subseteq up, UNCHANGED outages
  PROVE  RemoveInv'
  <1>1. RemoveTypeOK'
    BY RmEnds DEF RemoveInv, RemoveTypeOK, RemoverType
  <1>2. RightMember' /\ MemberGone' /\ NoStrandedMember'
    BY RmEnds DEF RemoveInv, RightMember, MemberGone, NoStrandedMember, RmAt
  <1> QED
    BY <1>1, <1>2 DEF RemoveInv

LEMMA AfterEtcdLabel ==
  ASSUME NEW r \in Removers
  PROVE  AfterEtcd(r) \in {"cordon", "delete"}
  BY DEF AfterEtcd

-----------------------------------------------------------------------------
LEMMA StartsInv ==
  ASSUME RemoveInv, NEW r \in Removers, NEW n \in Cluster, NEW force \in BOOLEAN,
         NEW skipDrain \in BOOLEAN, StartRemove(r, n, force, skipDrain)
  PROVE  RemoveInv'
  <1>0. RemoveTypeOK
    BY DEF RemoveInv
  <1>1. RemoveTypeOK'
    <2> DEFINE started == [remover[r] EXCEPT !.at = "list", !.target = n, !.force = force,
                                             !.skipDrain = skipDrain,
                                             !.runs = remover[r].runs + 1]
    <2>1. remover[r].runs + 1 \in 0..MaxRemovals
      BY <1>0 DEF StartRemove, RemoveTypeOK
    <2>2. started \in [at : RemoveLabels, target : Cluster, peer : Cluster, member : Cluster,
                       force : BOOLEAN, skipDrain : BOOLEAN, runs : 0..MaxRemovals]
      BY <1>0, <2>1 DEF RemoveTypeOK
    <2>3. remover' = [remover EXCEPT ![r] = started] /\ ClusterKept
      BY DEF StartRemove, started
    <2> HIDE DEF started
    <2> QED
      BY <1>0, <2>2, <2>3 DEF RemoveTypeOK, ClusterKept
  <1>2. /\ remover'[r].at = "list" /\ \A q \in Removers \ {r} : remover'[q] = remover[q]
        /\ ClusterKept
    BY DEF StartRemove, RemoveInv, RemoveTypeOK
  <1>3. RightMember' /\ MemberGone' /\ NoStrandedMember'
    BY <1>2 DEF RemoveInv, RightMember, MemberGone, NoStrandedMember, ClusterKept, RmAt
  <1> QED
    BY <1>1, <1>3 DEF RemoveInv

\* Up to the member's removal; only here do the names matter.
LEMMA EtcdStepsInv ==
  ASSUME RemoveInv, NameExtends = {}, NEW r \in Removers,
         ListNodes(r) \/ FindEtcdPeerPod(r) \/ FindEtcdMemberID(r) \/ RemoveMember(r)
  PROVE  RemoveInv'
  <1>0. RemoveTypeOK /\ NoStrandedMember
    BY DEF RemoveInv
  <1>r. ASSUME RmReturns(r), ClusterKept PROVE RemoveInv'
    BY <1>0, <1>r, ReturnsInv DEF ClusterKept, NoStrandedMember
  <1>1. CASE ListNodes(r)
    <2>1. CASE remover[r].target \in nodes \ ControlPlane /\ RmTo(r, AfterEtcd(r))
      <3>1. remover[r].target \notin members
        BY <1>0, <2>1 DEF RemoveTypeOK
      <3> QED
        BY <1>1, <2>1, <3>1, AfterEtcdLabel, GoesOnInv DEF ListNodes
    <2>2. CASE RmTo(r, "peer")
      BY <1>1, <2>2, GoesOnInv DEF ListNodes
    <2> QED
      BY <1>1, <1>r, <2>1, <2>2 DEF ListNodes
  <1>2. CASE FindEtcdPeerPod(r)
    <2>1. ASSUME NEW p \in (nodes \cap ControlPlane) \ {remover[r].target},
                 remover' = [remover EXCEPT ![r] = [@ EXCEPT !.at = "member", !.peer = p]]
          PROVE  RemoveInv'
      <3>1. RemoveTypeOK' /\ ClusterKept
        BY <1>0, <1>2, <2>1, ZenonT(60) DEF FindEtcdPeerPod, ClusterKept, RemoveTypeOK
      <3>2. remover'[r].at = "member" /\ \A q \in Removers \ {r} : remover'[q] = remover[q]
        BY <1>0, <2>1 DEF RemoveTypeOK
      <3>3. RightMember' /\ MemberGone' /\ NoStrandedMember'
        BY <3>1, <3>2 DEF RemoveInv, RightMember, MemberGone, NoStrandedMember,
           ClusterKept, RmAt
      <3> QED
        BY <3>1, <3>3 DEF RemoveInv
    <2> QED
      BY <1>2, <1>r, <2>1 DEF FindEtcdPeerPod
  <1>3. CASE FindEtcdMemberID(r)
    <2>1. ASSUME NEW m \in members, MemberMatches(m, remover[r].target),
                 remover' = [remover EXCEPT ![r] = [@ EXCEPT !.at = "remove", !.member = m]]
          PROVE  RemoveInv'
      <3>1. RemoveTypeOK' /\ ClusterKept
        BY <1>0, <1>3, <2>1, ZenonT(60) DEF FindEtcdMemberID, ClusterKept, RemoveTypeOK
      <3>2. /\ remover'[r].at = "remove" /\ remover'[r].target = remover[r].target
            /\ remover'[r].member = m /\ m = remover[r].target
            /\ \A q \in Removers \ {r} : remover'[q] = remover[q]
        BY <1>0, <2>1 DEF RemoveTypeOK, MemberMatches
      <3>3. RightMember' /\ MemberGone' /\ NoStrandedMember'
        BY <3>1, <3>2 DEF RemoveInv, RightMember, MemberGone, NoStrandedMember,
           ClusterKept, RmAt
      <3> QED
        BY <3>1, <3>3 DEF RemoveInv
    <2> QED
      BY <1>3, <1>r, <2>1 DEF FindEtcdMemberID
  <1>4. CASE RemoveMember(r)
    <2>1. remover[r].member = remover[r].target /\ UNCHANGED <<nodes, up, outages>>
      BY <1>4 DEF RemoveMember, RemoveInv, RightMember
    <2>2. members' \subseteq members
      BY <1>4 DEF RemoveMember, Removed
    <2>3. CASE Removed(r) /\ RmTo(r, AfterEtcd(r))
      <3>1. remover[r].target \notin members'
        BY <2>1, <2>3 DEF Removed
      <3>2. RemoveTypeOK'
        BY <1>0, <2>1, <2>2, <2>3, AfterEtcdLabel, RmMoves DEF RemoveTypeOK, RemoverType
      <3>3. RightMember' /\ MemberGone' /\ NoStrandedMember'
        BY <1>0, <2>1, <2>2, <2>3, <3>1, AfterEtcdLabel, RmMoves
        DEF RemoveInv, RightMember, MemberGone, NoStrandedMember, RmAt
      <3> QED
        BY <3>2, <3>3 DEF RemoveInv
    <2>4. CASE RmReturns(r)
      BY <1>0, <2>1, <2>2, <2>4, ReturnsInv DEF NoStrandedMember
    <2> QED
      BY <1>4, <2>3, <2>4 DEF RemoveMember
  <1> QED
    BY <1>1, <1>2, <1>3, <1>4

\* After it; the node that goes is no member.
LEMMA NodeStepsInv ==
  ASSUME RemoveInv, NEW r \in Removers,
         CordonNode(r) \/ DrainNode(r) \/ DeleteNode(r) \/ TearDown(r) \/ KillRemove(r)
  PROVE  RemoveInv'
  <1>0. RemoveTypeOK /\ NoStrandedMember /\ MemberGone
    BY DEF RemoveInv
  <1>r. ASSUME RmReturns(r), ClusterKept PROVE RemoveInv'
    BY <1>0, <1>r, ReturnsInv DEF ClusterKept, NoStrandedMember
  <1>1. CASE CordonNode(r)
    BY <1>0, <1>1, <1>r, GoesOnInv DEF CordonNode, MemberGone, RmAt
  <1>2. CASE DrainNode(r)
    BY <1>0, <1>2, <1>r, GoesOnInv DEF DrainNode, MemberGone, RmAt
  <1>3. CASE DeleteNode(r)
    <2>1. /\ remover[r].target \notin members /\ nodes' \subseteq nodes
          /\ nodes \ {remover[r].target} \subseteq nodes' /\ UNCHANGED <<members, up, outages>>
      BY <1>0, <1>3 DEF DeleteNode, MemberGone, RmAt
    <2>2. members' \subseteq nodes'
      BY <1>0, <2>1 DEF NoStrandedMember
    <2>3. CASE RmTo(r, "teardown")
      <3>1. RemoveTypeOK'
        BY <1>0, <2>1, <2>3, RmMoves DEF RemoveTypeOK, RemoverType
      <3>2. RightMember' /\ MemberGone' /\ NoStrandedMember'
        BY <1>0, <2>1, <2>2, <2>3, RmMoves
        DEF RemoveInv, RightMember, MemberGone, NoStrandedMember, RmAt
      <3> QED
        BY <3>1, <3>2 DEF RemoveInv
    <2>4. CASE RmReturns(r)
      BY <2>1, <2>2, <2>4, ReturnsInv
    <2> QED
      BY <1>3, <2>3, <2>4 DEF DeleteNode
  <1>4. CASE TearDown(r)
    <2>1. RmReturns(r) /\ up' \subseteq up /\ UNCHANGED <<nodes, members, outages>>
      BY <1>4 DEF TearDown
    <2> QED
      BY <1>0, <2>1, ReturnsInv DEF NoStrandedMember
  <1>5. CASE KillRemove(r)
    BY <1>5, <1>r DEF KillRemove
  <1> QED
    BY <1>1, <1>2, <1>3, <1>4, <1>5

LEMMA RemoveNextInv ==
  ASSUME NameExtends = {}
  PROVE  RemoveInv /\ [RemoveNext]_removeVars => RemoveInv'
  <1> SUFFICES ASSUME RemoveInv, [RemoveNext]_removeVars PROVE RemoveInv'
    OBVIOUS
  <1>1. ASSUME NEW r \in Removers, RemoveStep(r) \/ KillRemove(r) PROVE RemoveInv'
    BY <1>1, EtcdStepsInv, NodeStepsInv DEF RemoveStep
  <1>2. ASSUME NEW r \in Removers, NEW n \in Cluster, NEW force \in BOOLEAN,
               NEW skipDrain \in BOOLEAN, StartRemove(r, n, force, skipDrain)
        PROVE  RemoveInv'
    BY <1>2, StartsInv
  <1>3. CASE MachineFails
    BY <1>3 DEF MachineFails, RemoveInv, RemoveTypeOK, RightMember, MemberGone,
       NoStrandedMember, RmAt
  <1>4. CASE MachineReturns
    BY <1>4 DEF MachineReturns, RemoveInv, RemoveTypeOK, RightMember, MemberGone,
       NoStrandedMember, RmAt
  <1>5. CASE UNCHANGED removeVars
    BY <1>5 DEF removeVars, RemoveInv, RemoveTypeOK, RightMember, MemberGone,
       NoStrandedMember, RmAt
  <1> QED
    BY <1>1, <1>2, <1>3, <1>4, <1>5 DEF RemoveNext

\* No step of the command takes the majority: a member goes only if etcd keeps it,
\* and the machine that is torn down is no member.
LEMMA StepKeepsQuorum ==
  ASSUME RemoveInv, [RemoveNext]_removeVars, remover' # remover, Majority(up, members)
  PROVE  Majority(up', members')
  <1>1. ASSUME NEW r \in Removers, RemoveStep(r) PROVE Majority(up', members')
    <2>1. CASE RemoveMember(r)
      BY <2>1 DEF RemoveMember, Removed
    <2>2. CASE TearDown(r)
      <3>1. remover[r].target \notin members /\ UNCHANGED members
        BY <2>2 DEF TearDown, RmAt, RemoveInv, MemberGone
      <3>2. up' \cap members = up \cap members
        BY <2>2, <3>1 DEF TearDown
      <3> QED
        BY <3>1, <3>2 DEF Majority
    <2>3. CASE UNCHANGED <<members, up>>
      BY <2>3
    <2> QED
      BY <1>1, <2>1, <2>2, <2>3 DEF RemoveStep, ListNodes, FindEtcdPeerPod,
         FindEtcdMemberID, CordonNode, DrainNode, DeleteNode, ClusterKept
  <1>2. CASE UNCHANGED <<members, up>>
    BY <1>2
  <1> QED
    BY <1>1, <1>2 DEF RemoveNext, KillRemove, StartRemove, ClusterKept, MachineFails,
       MachineReturns, removeVars

-----------------------------------------------------------------------------
\* The inductive invariant of Remove (remove.go).
THEOREM RemoveInvariant == ASSUME NameExtends = {} PROVE RemoveSpec => []RemoveInv
  <1>1. RemoveInv /\ [RemoveNext]_removeVars => RemoveInv'
    BY RemoveNextInv
  <1> QED
    BY RemoveInitInv, <1>1, PTL DEF RemoveSpec

\* Every variable of the node removal keeps its type.
THEOREM RemoveTypes == ASSUME NameExtends = {} PROVE RemoveSpec => []RemoveTypeOK
  <1>1. RemoveSpec => []RemoveInv
    BY RemoveInvariant
  <1>2. RemoveInv => RemoveTypeOK
    BY DEF RemoveInv
  <1> QED
    BY <1>1, <1>2, PTL

\* "a control-plane node whose etcd member is not removed first strands the member":
\* with any number of operators, refused, half-done and re-run removals.
THEOREM NoMemberStranded == ASSUME NameExtends = {} PROVE RemoveSpec => []NoStrandedMember
  <1>1. RemoveSpec => []RemoveInv
    BY RemoveInvariant
  <1>2. RemoveInv => NoStrandedMember
    BY DEF RemoveInv
  <1> QED
    BY <1>1, <1>2, PTL

\* "in the order that protects etcd quorum": no step of any run costs the majority.
THEOREM QuorumKept == ASSUME NameExtends = {} PROVE RemoveSpec => RemovalKeepsQuorum
  <1>1. RemoveSpec => []RemoveInv
    BY RemoveInvariant
  <1>2. RemoveInv /\ [RemoveNext]_removeVars =>
          [remover' # remover /\ Majority(up, members) => Majority(up', members')]_removeVars
    BY StepKeepsQuorum
  <1> QED
    BY <1>1, <1>2, PTL DEF RemoveSpec, RemovalKeepsQuorum

HIDE RemoveAssumption DEF RemoveLabels

-----------------------------------------------------------------------------
(*****************************************************************************)
(* GpuTransition, for any number of runs, resumes and kills and any moves of the*)
(* node, its labels, its plugin and its GPU holders.                         *)
(*                                                                           *)
(* The argument: a schedulable node is labelled, owned and committed as the  *)
(* published history says, a node behind the clone is cordoned, and each label*)
(* of a run adds what it has observed (Agrees); the histories enter only by  *)
(* the last mode they hold (EndsIn).                                         *)
(*****************************************************************************)

GpuCloneRecord == [tree : SUBSET (GpuModes \cup {"other"}), head : Seq(GpuCommits),
                   remote : Seq(GpuCommits)]
GpuRunRecord == [at : GpuLabels, from : GpuModes, to : GpuModes, resume : BOOLEAN,
                 resumed : BOOLEAN, obs : Nodes, pre : Seq(GpuCommits)]

\* The last commit of h that holds a mode holds m alone.
EndsIn(h, m) ==
  \E i \in DOMAIN h : /\ h[i].holds \cap GpuModes = {m}
                      /\ \A j \in DOMAIN h : j > i => h[j].holds \cap GpuModes = {}
HasMode(h) == \E m \in GpuModes : EndsIn(h, m)

\* What a run whose clone is at mode h, whose remote is at r and which found the clone
\* at p relies on: a node behind the clone is cordoned and labelled as published, a
\* schedulable one is settled, and each label of the run adds what it has established.
Agrees(h, r, p, n, g) ==
  /\ h # r => n.unsched /\ n.active = r /\ n.expected = r
  /\ ~n.unsched => n.active = r /\ n.expected = r /\ n.owners = {r} /\ h = r
  /\ g.at = "prepare" =>
       /\ g.obs.active = r => n.active = r
       /\ g.obs.expected = r => n.expected = r
       /\ h # r => g.obs.active = r /\ g.obs.expected = r
  /\ g.at \in {"cordon", "recheck"} /\ g.resumed => h = g.to
  /\ g.at \in {"cordon", "recheck", "apply"} /\ ~g.resumed =>
       h = r /\ r = g.from /\ p = g.from /\ n.active = g.from /\ n.expected = g.from
  /\ g.at = "apply" => ~g.resumed
  /\ g.at \in {"push", "reset"} =>
       r = g.from /\ p = g.from /\ n.active = g.from /\ n.expected = g.from
  /\ g.at \in {"push", "wait", "uncordon"} => h = g.to
  /\ g.at \in {"apply", "push", "reset", "wait", "uncordon"} => n.unsched
  /\ g.at = "uncordon" => r = g.to /\ n.active = g.to /\ n.expected = g.to /\ n.owners = {g.to}

GpuInv ==
  /\ gpuClone \in GpuCloneRecord /\ node \in Nodes /\ gpu \in GpuRunRecord
  /\ gpuRuns \in 0..MaxGpuRuns /\ lost \in BOOLEAN
  /\ HasMode(gpuClone.head) /\ HasMode(gpuClone.remote) /\ HasMode(gpu.pre)
  /\ ~lost => Agrees(ModeOf(gpuClone.head), ModeOf(gpuClone.remote), ModeOf(gpu.pre), node, gpu)

USE GpuAssumption

-----------------------------------------------------------------------------
\* The mode of a history is that of its last commit with one.
LEMMA ModeIsLast ==
  ASSUME NEW h \in Seq(GpuCommits), NEW m \in GpuModes, EndsIn(h, m)
  PROVE  ModeOf(h) = m
  <1> DEFINE S == {i \in DOMAIN h : h[i].holds \cap GpuModes # {}}
  <1>1. PICK i \in DOMAIN h : /\ h[i].holds \cap GpuModes = {m}
                              /\ \A j \in DOMAIN h : j > i => h[j].holds \cap GpuModes = {}
    BY DEF EndsIn
  <1>2. DOMAIN h \subseteq Int
    OBVIOUS
  <1>3. i \in S /\ \A j \in S : i >= j
    BY <1>1, <1>2
  <1>4. \A k \in S : (\A j \in S : k >= j) => k = i
    BY <1>2, <1>3
  <1>5. Max(S) = i
    <2> HIDE DEF S
    <2> QED
      BY <1>3, <1>4 DEF Max
  <1>6. ModeOf(h) = CHOOSE k \in GpuModes : k \in h[i].holds
    BY <1>5 DEF ModeOf
  <1>7. \A k \in GpuModes : k \in h[i].holds <=> k = m
    BY <1>1
  <1> QED
    BY <1>6, <1>7

\* A commit with a mode is the last one; any other leaves the mode.
LEMMA ModeAppend ==
  ASSUME NEW h \in Seq(GpuCommits), NEW c \in GpuCommits
  PROVE  /\ Append(h, c) \in Seq(GpuCommits)
         /\ \A m \in GpuModes : c.holds \cap GpuModes = {m} => EndsIn(Append(h, c), m)
         /\ \A m \in GpuModes :
              c.holds \cap GpuModes = {} /\ EndsIn(h, m) => EndsIn(Append(h, c), m)
  <1> DEFINE a == Append(h, c)
  <1>1. /\ a \in Seq(GpuCommits) /\ DOMAIN a = 1..(Len(h) + 1) /\ DOMAIN h = 1..Len(h)
        /\ a[Len(h) + 1] = c /\ (\A i \in 1..Len(h) : a[i] = h[i]) /\ Len(h) \in Nat
    OBVIOUS
  <1> HIDE DEF a
  <1>2. ASSUME NEW m \in GpuModes, c.holds \cap GpuModes = {m} PROVE EndsIn(a, m)
    BY <1>1, <1>2 DEF EndsIn
  <1>3. ASSUME NEW m \in GpuModes, c.holds \cap GpuModes = {}, EndsIn(h, m)
        PROVE  EndsIn(a, m)
    <2>1. PICK i \in 1..Len(h) :
            /\ h[i].holds \cap GpuModes = {m}
            /\ \A j \in 1..Len(h) : j > i => h[j].holds \cap GpuModes = {}
      BY <1>1, <1>3 DEF EndsIn
    <2>2. i \in DOMAIN a /\ a[i].holds \cap GpuModes = {m}
      BY <1>1, <2>1
    <2>3. ASSUME NEW j \in DOMAIN a, j > i PROVE a[j].holds \cap GpuModes = {}
      <3>1. CASE j = Len(h) + 1
        BY <1>1, <1>3, <3>1
      <3>2. CASE j \in 1..Len(h)
        BY <1>1, <2>1, <2>3, <3>2
      <3> QED
        BY <1>1, <3>1, <3>2
    <2> QED
      BY <2>2, <2>3 DEF EndsIn
  <1> QED
    BY <1>1, <1>2, <1>3 DEF a

\* A commit of the whole tree moves the mode to what the tree holds, if it holds one.
LEMMA ModeCommitted ==
  ASSUME NEW c \in GpuCloneRecord, HasMode(c.head),
         NEW by \in {"operator", "gpu"}, NEW run \in 0..MaxGpuRuns
  PROVE  LET n == Committed(c, by, run) IN
         /\ n \in GpuCloneRecord /\ n.remote = c.remote /\ n.tree = {}
         /\ \A m \in GpuModes : c.tree = {m} => HasMode(n.head) /\ ModeOf(n.head) = m
         /\ c.tree = {"other"} => HasMode(n.head) /\ ModeOf(n.head) = ModeOf(c.head)
  <1> DEFINE k == [by |-> by, run |-> run, holds |-> c.tree]
             n == Committed(c, by, run)
  <1>1. k \in GpuCommits /\ k.holds = c.tree /\ c.head \in Seq(GpuCommits)
    BY DEF GpuCommits, GpuCloneRecord
  <1>2. n = [c EXCEPT !.tree = {}, !.head = Append(c.head, k)]
    BY DEF Committed
  <1> HIDE DEF k, n
  <1>3. Append(c.head, k) \in Seq(GpuCommits)
    BY <1>1, ModeAppend
  <1>4. n \in GpuCloneRecord /\ n.remote = c.remote /\ n.tree = {} /\ n.head = Append(c.head, k)
    BY <1>2, <1>3 DEF GpuCloneRecord
  <1>5. ASSUME NEW m \in GpuModes, c.tree = {m} PROVE HasMode(n.head) /\ ModeOf(n.head) = m
    <2>1. EndsIn(n.head, m)
      BY <1>1, <1>4, <1>5, ModeAppend
    <2> QED
      BY <1>3, <1>4, <2>1, ModeIsLast DEF HasMode
  <1>6. ASSUME c.tree = {"other"} PROVE HasMode(n.head) /\ ModeOf(n.head) = ModeOf(c.head)
    <2>1. PICK m \in GpuModes : EndsIn(c.head, m)
      BY DEF HasMode
    <2>2. k.holds \cap GpuModes = {}
      BY <1>1, <1>6 DEF GpuModes
    <2>3. EndsIn(n.head, m)
      BY <1>1, <1>4, <2>1, <2>2, ModeAppend
    <2> QED
      BY <1>1, <1>3, <1>4, <2>1, <2>3, ModeIsLast DEF HasMode
  <1> QED
    BY <1>4, <1>5, <1>6 DEF n

\* The invariant's shapes, and those of the initial clone and run.
LEMMA GpuTypes ==
  ASSUME GpuInv
  PROVE  /\ gpuClone \in GpuCloneRecord /\ gpuClone.tree \in SUBSET (GpuModes \cup {"other"})
         /\ gpuClone.head \in Seq(GpuCommits) /\ gpuClone.remote \in Seq(GpuCommits)
         /\ node \in Nodes /\ gpu \in GpuRunRecord /\ gpuRuns \in 0..MaxGpuRuns
         /\ lost \in BOOLEAN /\ gpu.from \in GpuModes /\ gpu.to \in GpuModes
         /\ gpu.pre \in Seq(GpuCommits) /\ gpu.obs \in Nodes
         /\ HasMode(gpuClone.head) /\ HasMode(gpuClone.remote) /\ HasMode(gpu.pre)
  BY DEF GpuInv, GpuCloneRecord, GpuRunRecord

LEMMA OriginOK == Origin \in Seq(GpuCommits) /\ HasMode(Origin) /\ ModeOf(Origin) = "pod-hami"
  <1> DEFINE c == [by |-> "operator", run |-> 0, holds |-> {"pod-hami"}]
  <1>1. c \in GpuCommits /\ c.holds = {"pod-hami"} /\ "pod-hami" \in GpuModes
    BY DEF GpuCommits, GpuModes
  <1>2. Origin = <<c>>
    BY DEF Origin
  <1> HIDE DEF c
  <1>3. Origin \in Seq(GpuCommits) /\ DOMAIN Origin = {1} /\ Origin[1] = c
    BY <1>1, <1>2
  <1>4. EndsIn(Origin, "pod-hami")
    BY <1>1, <1>3 DEF EndsIn
  <1> QED
    BY <1>1, <1>3, <1>4, ModeIsLast DEF HasMode

LEMMA NoRunOK == NoGpuRun \in GpuRunRecord /\ NoGpuRun.at = "ended" /\ HasMode(NoGpuRun.pre)
  <1>1. NoGpuRun.pre = Origin
    BY DEF NoGpuRun
  <1>2. Settled("pod-hami") \in Nodes
    BY DEF Settled, Nodes, GpuModes
  <1> QED
    BY <1>1, <1>2, OriginOK DEF NoGpuRun, GpuRunRecord, GpuLabels, GpuModes

\* The run moves on, or the node does, and the clone stays.
LEMMA CloneStays ==
  ASSUME GpuInv, UNCHANGED <<gpuClone, lost>>, node' \in Nodes, gpu' \in GpuRunRecord,
         gpuRuns' \in 0..MaxGpuRuns, HasMode(gpu'.pre),
         ASSUME ~lost,
                Agrees(ModeOf(gpuClone.head), ModeOf(gpuClone.remote), ModeOf(gpu.pre), node, gpu)
         PROVE  Agrees(ModeOf(gpuClone.head), ModeOf(gpuClone.remote), ModeOf(gpu'.pre), node', gpu')
  PROVE  GpuInv'
  BY DEF GpuInv

\* A run that returns gives up nothing the node relies on.
LEMMA ReturnsOK ==
  ASSUME NEW h, NEW r, NEW p, NEW q, NEW n, NEW g, NEW e, Agrees(h, r, p, n, g), e.at = "ended"
  PROVE  Agrees(h, r, q, n, e)
  BY DEF Agrees

\* What GpuGoto leaves alone.
LEMMA RunMoves ==
  ASSUME gpu \in GpuRunRecord, NEW at \in GpuLabels, GpuGoto(at)
  PROVE  /\ gpu' \in GpuRunRecord /\ gpu'.at = at /\ gpu'.from = gpu.from /\ gpu'.to = gpu.to
         /\ gpu'.resumed = gpu.resumed /\ gpu'.pre = gpu.pre
  BY DEF GpuGoto, GpuRunRecord

LEMMA ReturnInv ==
  ASSUME GpuInv, GpuReturns, UNCHANGED <<gpuClone, node, gpuRuns, lost>>
  PROVE  GpuInv'
  BY GpuTypes, NoRunOK, ReturnsOK, CloneStays DEF GpuReturns

\* Each step of a transition.
LEMMA StartGpuInv ==
  ASSUME GpuInv, NEW change \in Changes, NEW resume \in BOOLEAN, StartTransition(change, resume)
  PROVE  GpuInv'
  <1>1. change[1] \in GpuModes /\ change[2] \in GpuModes
    OBVIOUS
  <1>2. gpu' \in GpuRunRecord /\ gpu'.at = "observe" /\ gpu'.pre = NoGpuRun.pre
    BY <1>1, NoRunOK DEF StartTransition, GpuRunRecord, GpuLabels
  <1>3. UNCHANGED <<gpuClone, node, lost>> /\ gpuRuns' \in 0..MaxGpuRuns
    BY GpuTypes DEF StartTransition
  <1>4. ASSUME NEW h, NEW r, NEW q, Agrees(h, r, q, node, gpu)
        PROVE  Agrees(h, r, ModeOf(gpu'.pre), node', gpu')
    BY <1>2, <1>3, <1>4 DEF Agrees
  <1> QED
    BY <1>2, <1>3, <1>4, GpuTypes, NoRunOK, CloneStays

LEMMA ObserveInv == ASSUME GpuInv, Observe PROVE GpuInv'
  <1>1. UNCHANGED <<gpuClone, node, gpuRuns, lost>>
    BY DEF Observe
  <1>2. CASE gpu' = [gpu EXCEPT !.at = "prepare", !.obs = node]
    <2>1. gpu' \in GpuRunRecord /\ gpu'.at = "prepare" /\ gpu'.obs = node /\ gpu'.pre = gpu.pre
      BY <1>2, GpuTypes DEF GpuRunRecord, GpuLabels
    <2>2. ASSUME NEW h, NEW r, NEW q, Agrees(h, r, q, node, gpu)
          PROVE  Agrees(h, r, q, node', gpu')
      BY <1>1, <2>1, <2>2 DEF Agrees
    <2> QED
      BY <1>1, <2>1, <2>2, GpuTypes, CloneStays
  <1> QED
    BY <1>1, <1>2, ReturnInv DEF Observe

LEMMA PreflightInv == ASSUME GpuInv, Preflight PROVE GpuInv'
  <1> DEFINE n == gpu.obs
             atMode == ModeOf(gpuClone.head)
             passes == /\ Dirty(gpuClone) = {} /\ Readable(atMode)
                       /\ Resumes(atMode) \/ {n.active, n.expected, atMode} = {gpu.from}
                       /\ ~n.held /\ (n.unsched => gpu.resume) /\ ~AlreadyThere(atMode)
  <1>1. UNCHANGED <<gpuClone, node, gpuRuns, lost>> /\ gpu.at = "prepare"
    BY DEF Preflight, GpuAt
  <1>2. CASE passes /\ gpu' = [gpu EXCEPT !.at = IF n.unsched THEN "recheck" ELSE "cordon",
                                          !.resumed = Resumes(atMode), !.pre = gpuClone.head,
                                          !.obs = NoGpuRun.obs]
    <2>1. NoGpuRun.obs \in Nodes
      BY NoRunOK DEF GpuRunRecord
    <2>2. Resumes(atMode) \in BOOLEAN
      BY DEF Resumes
    <2>3. /\ gpu' \in GpuRunRecord /\ gpu'.at \in {"cordon", "recheck"}
          /\ gpu'.from = gpu.from /\ gpu'.to = gpu.to
          /\ gpu'.resumed = Resumes(atMode) /\ gpu'.pre = gpuClone.head
      BY <1>2, <2>1, <2>2, GpuTypes DEF GpuRunRecord, GpuLabels
    <2>4. Resumes(atMode) => atMode = gpu.to
      BY DEF Resumes
    <2>5. ~Resumes(atMode) => n.active = gpu.from /\ n.expected = gpu.from /\ atMode = gpu.from
      BY <1>2
    <2>6. ASSUME NEW r, NEW q, Agrees(atMode, r, q, node, gpu)
          PROVE  Agrees(atMode, r, atMode, node', gpu')
      <3> HIDE DEF atMode
      <3> QED
        BY <1>1, <2>3, <2>4, <2>5, <2>6 DEF Agrees
    <2> QED
      BY <1>1, <2>3, <2>6, GpuTypes, CloneStays
  <1> QED
    BY <1>1, <1>2, ReturnInv DEF Preflight

LEMMA CordonInv == ASSUME GpuInv, Cordon PROVE GpuInv'
  <1>1. /\ UNCHANGED <<gpuClone, gpuRuns, lost>> /\ gpu.at = "cordon"
        /\ node' \in {node, [node EXCEPT !.unsched = TRUE]}
    BY DEF Cordon, GpuAt
  <1>2. /\ node' \in Nodes /\ node'.active = node.active /\ node'.expected = node.expected
        /\ node'.owners = node.owners /\ (node.unsched => node'.unsched)
        /\ (~node'.unsched => node' = node)
    BY <1>1, GpuTypes DEF Nodes
  <1>3. CASE GpuGoto("recheck")
    <2>1. /\ gpu' \in GpuRunRecord /\ gpu'.at = "recheck" /\ gpu'.from = gpu.from
          /\ gpu'.to = gpu.to /\ gpu'.resumed = gpu.resumed /\ gpu'.pre = gpu.pre
      BY <1>3, GpuTypes, RunMoves DEF GpuLabels
    <2>2. ASSUME NEW h, NEW r, NEW q, Agrees(h, r, q, node, gpu)
          PROVE  Agrees(h, r, q, node', gpu')
      BY <1>1, <1>2, <2>1, <2>2 DEF Agrees
    <2> QED
      BY <1>1, <1>2, <2>1, <2>2, GpuTypes, CloneStays
  <1>4. CASE GpuReturns
    <2>1. gpu' \in GpuRunRecord /\ gpu'.at = "ended" /\ HasMode(gpu'.pre)
      BY <1>4, NoRunOK DEF GpuReturns
    <2>2. ASSUME NEW h, NEW r, NEW q, Agrees(h, r, q, node, gpu)
          PROVE  Agrees(h, r, ModeOf(gpu'.pre), node', gpu')
      BY <1>2, <2>1, <2>2 DEF Agrees
    <2> QED
      BY <1>1, <1>2, <2>1, <2>2, GpuTypes, CloneStays
  <1> QED
    BY <1>3, <1>4 DEF Cordon

LEMMA RecheckInv == ASSUME GpuInv, RecheckCordon PROVE GpuInv'
  <1>1. UNCHANGED <<gpuClone, node, gpuRuns, lost>> /\ gpu.at = "recheck"
    BY DEF RecheckCordon, GpuAt
  <1>2. CASE node.unsched /\ GpuGoto(IF gpu.resumed THEN "wait" ELSE "apply")
    <2>1. PICK at \in {"wait", "apply"} :
            GpuGoto(at) /\ at = (IF gpu.resumed THEN "wait" ELSE "apply")
      BY <1>2
    <2>2. /\ gpu' \in GpuRunRecord /\ gpu'.at = at /\ gpu'.from = gpu.from
          /\ gpu'.to = gpu.to /\ gpu'.resumed = gpu.resumed /\ gpu'.pre = gpu.pre
      BY <2>1, GpuTypes, RunMoves DEF GpuLabels
    <2>3. gpu.resumed \in BOOLEAN
      BY GpuTypes DEF GpuRunRecord
    <2>4. ASSUME NEW h, NEW r, NEW q, Agrees(h, r, q, node, gpu)
          PROVE  Agrees(h, r, q, node', gpu')
      BY <1>1, <1>2, <2>1, <2>2, <2>3, <2>4 DEF Agrees
    <2> QED
      BY <1>1, <2>2, <2>4, GpuTypes, CloneStays
  <1> QED
    BY <1>1, <1>2, ReturnInv DEF RecheckCordon

\* The tree alone is written, by a command or by others.
LEMMA TreeWritten ==
  ASSUME NEW c \in GpuCloneRecord, NEW t \in SUBSET (GpuModes \cup {"other"})
  PROVE  LET n == [c EXCEPT !.tree = t]
         IN  n \in GpuCloneRecord /\ n.tree = t /\ n.head = c.head /\ n.remote = c.remote
  BY DEF GpuCloneRecord

\* The clone and the run move, the node stays.
LEMMA NodeStays ==
  ASSUME GpuInv, UNCHANGED <<node, gpuRuns>>, lost' \in BOOLEAN, ~lost' => ~lost,
         gpuClone' \in GpuCloneRecord, HasMode(gpuClone'.head), HasMode(gpuClone'.remote),
         gpu' \in GpuRunRecord, HasMode(gpu'.pre),
         ASSUME ~lost',
                Agrees(ModeOf(gpuClone.head), ModeOf(gpuClone.remote), ModeOf(gpu.pre), node, gpu)
         PROVE  Agrees(ModeOf(gpuClone'.head), ModeOf(gpuClone'.remote), ModeOf(gpu'.pre), node, gpu')
  PROVE  GpuInv'
  BY DEF GpuInv

LEMMA CommitInv == ASSUME GpuInv, CommitMode PROVE GpuInv'
  <1> DEFINE worked == [gpuClone EXCEPT !.tree = {gpu.to}]
  <1>1. UNCHANGED <<node, gpuRuns, lost>> /\ gpu.at = "apply"
    BY DEF CommitMode, GpuAt
  <1>2. /\ worked \in GpuCloneRecord /\ worked.tree = {gpu.to}
        /\ worked.head = gpuClone.head /\ worked.remote = gpuClone.remote
    BY GpuTypes, TreeWritten
  <1>3. CASE UNCHANGED gpuClone /\ GpuReturns
    BY <1>1, <1>3, ReturnInv
  <1> HIDE DEF worked
  <1>4. CASE gpuClone' = Committed(worked, "gpu", gpuRuns) /\ GpuGoto("push")
    <2>1. /\ gpu' \in GpuRunRecord /\ gpu'.at = "push" /\ gpu'.from = gpu.from
          /\ gpu'.to = gpu.to /\ gpu'.resumed = gpu.resumed /\ gpu'.pre = gpu.pre
      BY <1>4, GpuTypes, RunMoves DEF GpuLabels
    <2>2. gpuRuns \in 0..MaxGpuRuns /\ gpu.to \in GpuModes /\ HasMode(worked.head)
      BY <1>2, GpuTypes
    <2>3. /\ gpuClone' \in GpuCloneRecord /\ gpuClone'.remote = gpuClone.remote
          /\ HasMode(gpuClone'.head) /\ ModeOf(gpuClone'.head) = gpu.to
      BY <1>2, <1>4, <2>2, ModeCommitted
    <2>4. ASSUME NEW h, NEW r, NEW q, Agrees(h, r, q, node, gpu)
          PROVE  Agrees(gpu.to, r, q, node, gpu')
      BY <1>1, <2>1, <2>4 DEF Agrees
    <2> QED
      BY <1>1, <2>1, <2>3, <2>4, GpuTypes, NodeStays
  <1>5. CASE gpuClone' = worked /\ GpuGoto("reset")
    <2>1. /\ gpu' \in GpuRunRecord /\ gpu'.at = "reset" /\ gpu'.from = gpu.from
          /\ gpu'.to = gpu.to /\ gpu'.resumed = gpu.resumed /\ gpu'.pre = gpu.pre
      BY <1>5, GpuTypes, RunMoves DEF GpuLabels
    <2>2. ASSUME NEW h, NEW r, NEW q, Agrees(h, r, q, node, gpu)
          PROVE  Agrees(h, r, q, node, gpu')
      BY <1>1, <2>1, <2>2 DEF Agrees
    <2> QED
      BY <1>1, <1>2, <1>5, <2>1, <2>2, GpuTypes, NodeStays
  <1> QED
    BY <1>3, <1>4, <1>5 DEF CommitMode, worked

LEMMA GpuPushed ==
  ASSUME GpuInv, gpuClone' = Pushed(gpuClone)
  PROVE  /\ gpuClone' \in GpuCloneRecord /\ gpuClone'.head = gpuClone.head
         /\ gpuClone'.remote = gpuClone.head
  BY GpuTypes DEF Pushed, GpuCloneRecord

LEMMA PushModeInv == ASSUME GpuInv, PushMode PROVE GpuInv'
  <1>1. /\ UNCHANGED <<node, gpuRuns, lost>> /\ gpu.at = "push" /\ GpuGoto("wait")
        /\ gpuClone' = Pushed(gpuClone)
    BY DEF PushMode, GpuAt
  <1>2. /\ gpu' \in GpuRunRecord /\ gpu'.at = "wait" /\ gpu'.from = gpu.from
        /\ gpu'.to = gpu.to /\ gpu'.resumed = gpu.resumed /\ gpu'.pre = gpu.pre
    BY <1>1, GpuTypes, RunMoves DEF GpuLabels
  <1>3. ASSUME NEW h, NEW r, NEW q, Agrees(h, r, q, node, gpu)
        PROVE  Agrees(h, h, q, node, gpu')
    BY <1>1, <1>2, <1>3 DEF Agrees
  <1> QED
    BY <1>1, <1>2, <1>3, GpuPushed, GpuTypes, NodeStays

LEMMA PushModeFailsInv == ASSUME GpuInv, PushModeFails PROVE GpuInv'
  <1>1. UNCHANGED <<node, gpuRuns>> /\ gpu.at = "push" /\ GpuGoto("reset")
    BY DEF PushModeFails, GpuAt
  <1>2. /\ gpu' \in GpuRunRecord /\ gpu'.at = "reset" /\ gpu'.from = gpu.from
        /\ gpu'.to = gpu.to /\ gpu'.resumed = gpu.resumed /\ gpu'.pre = gpu.pre
    BY <1>1, GpuTypes, RunMoves DEF GpuLabels
  <1>3. CASE UNCHANGED <<gpuClone, lost>>
    <2>1. ASSUME NEW h, NEW r, NEW q, Agrees(h, r, q, node, gpu)
          PROVE  Agrees(h, r, q, node, gpu')
      BY <1>1, <1>2, <2>1 DEF Agrees
    <2> QED
      BY <1>1, <1>2, <1>3, <2>1, GpuTypes, NodeStays
  <1>4. CASE gpuClone' = Pushed(gpuClone) /\ lost' = TRUE
    BY <1>1, <1>2, <1>4, GpuPushed, GpuTypes, NodeStays
  <1> QED
    BY <1>3, <1>4 DEF PushModeFails

LEMMA RollBackModeInv == ASSUME GpuInv, RollBackMode PROVE GpuInv'
  <1>1. UNCHANGED <<node, gpuRuns, lost>> /\ gpu.at = "reset" /\ GpuReturns
    BY DEF RollBackMode, GpuAt
  <1>2. CASE UNCHANGED gpuClone
    BY <1>1, <1>2, ReturnInv
  <1>3. CASE gpuClone' = Reset(gpuClone, gpu.pre)
    <2>1. /\ gpuClone' \in GpuCloneRecord /\ gpuClone'.head = gpu.pre
          /\ gpuClone'.remote = gpuClone.remote
      BY <1>3, GpuTypes DEF Reset, GpuCloneRecord
    <2>2. gpu' \in GpuRunRecord /\ gpu'.at = "ended" /\ HasMode(gpu'.pre)
      BY <1>1, NoRunOK DEF GpuReturns
    <2>3. ASSUME NEW h, NEW r, NEW q, Agrees(h, r, q, node, gpu)
          PROVE  Agrees(q, r, ModeOf(gpu'.pre), node, gpu')
      BY <1>1, <2>2, <2>3 DEF Agrees
    <2> QED
      BY <1>1, <2>1, <2>2, <2>3, GpuTypes, NodeStays
  <1> QED
    BY <1>2, <1>3 DEF RollBackMode

LEMMA WaitInv == ASSUME GpuInv, WaitForTarget PROVE GpuInv'
  <1>1. UNCHANGED <<gpuClone, node, gpuRuns, lost>> /\ gpu.at = "wait"
    BY DEF WaitForTarget, GpuAt
  <1>2. CASE TargetReady(node, gpu.to) /\ GpuGoto("uncordon")
    <2>1. /\ gpu' \in GpuRunRecord /\ gpu'.at = "uncordon" /\ gpu'.from = gpu.from
          /\ gpu'.to = gpu.to /\ gpu'.resumed = gpu.resumed /\ gpu'.pre = gpu.pre
      BY <1>2, GpuTypes, RunMoves DEF GpuLabels
    <2>2. /\ node.unsched /\ node.active = gpu.to /\ node.expected = gpu.to
          /\ node.owners = {gpu.to}
      BY <1>2 DEF TargetReady, OnlyPlugin
    <2>3. ASSUME NEW h, NEW r, NEW q, Agrees(h, r, q, node, gpu)
          PROVE  Agrees(h, r, q, node', gpu')
      BY <1>1, <2>1, <2>2, <2>3 DEF Agrees
    <2> QED
      BY <1>1, <2>1, <2>3, GpuTypes, CloneStays
  <1> QED
    BY <1>1, <1>2, ReturnInv DEF WaitForTarget

LEMMA UncordonInv == ASSUME GpuInv, Uncordon PROVE GpuInv'
  <1>1. /\ UNCHANGED <<gpuClone, gpuRuns, lost>> /\ gpu.at = "uncordon"
        /\ node' \in {node, [node EXCEPT !.unsched = FALSE]}
    BY DEF Uncordon, GpuAt
  <1>2. /\ node' \in Nodes /\ node'.active = node.active /\ node'.expected = node.expected
        /\ node'.owners = node.owners
    BY <1>1, GpuTypes DEF Nodes
  <1>3. gpu' \in GpuRunRecord /\ gpu'.at = "ended" /\ HasMode(gpu'.pre)
    BY NoRunOK DEF Uncordon, GpuReturns
  <1>4. ASSUME NEW h, NEW r, NEW q, Agrees(h, r, q, node, gpu)
        PROVE  Agrees(h, r, ModeOf(gpu'.pre), node', gpu')
    BY <1>1, <1>2, <1>3, <1>4 DEF Agrees
  <1> QED
    BY <1>1, <1>2, <1>3, <1>4, GpuTypes, CloneStays

-----------------------------------------------------------------------------
\* Each step of the world.
LEMMA LabelsInv == ASSUME GpuInv, LabelFollows PROVE GpuInv'
  <1> DEFINE m == ModeOf(gpuClone.remote)
  <1>1. /\ UNCHANGED <<gpuClone, gpu, gpuRuns, lost>>
        /\ \/ node.active # m /\ node' = [node EXCEPT !.active = m]
           \/ node.expected # m /\ node' = [node EXCEPT !.expected = m]
    BY DEF LabelFollows
  <1>2. m \in GpuModes
    BY GpuTypes, ModeIsLast DEF HasMode
  <1> HIDE DEF m
  <1>3. /\ node' \in Nodes /\ node'.unsched = node.unsched /\ node'.owners = node.owners
        /\ node'.active \in {node.active, m} /\ node'.expected \in {node.expected, m}
        /\ node.active # m \/ node.expected # m
    BY <1>1, <1>2, GpuTypes DEF Nodes
  <1>4. ASSUME NEW h, NEW q, Agrees(h, m, q, node, gpu)
        PROVE  Agrees(h, m, q, node', gpu')
    BY <1>1, <1>3, <1>4 DEF Agrees
  <1> QED
    BY <1>1, <1>3, <1>4, GpuTypes, CloneStays DEF m

LEMMA PluginsInv == ASSUME GpuInv, PluginMoves PROVE GpuInv'
  <1>1. /\ UNCHANGED <<gpuClone, gpu, gpuRuns, lost>> /\ node.owners # {node.active}
        /\ \E o \in SUBSET GpuModes : node' = [node EXCEPT !.owners = o]
    BY GpuTypes DEF PluginMoves, Nodes
  <1>2. /\ node' \in Nodes /\ node'.unsched = node.unsched /\ node'.active = node.active
        /\ node'.expected = node.expected
    BY <1>1, GpuTypes DEF Nodes
  <1>3. ASSUME NEW h, NEW r, NEW q, Agrees(h, r, q, node, gpu)
        PROVE  Agrees(h, r, q, node', gpu')
    BY <1>1, <1>2, <1>3 DEF Agrees
  <1> QED
    BY <1>1, <1>2, <1>3, GpuTypes, CloneStays

LEMMA HolderInv == ASSUME GpuInv, HolderMoves PROVE GpuInv'
  <1>1. UNCHANGED <<gpuClone, gpu, gpuRuns, lost>> /\ node' = [node EXCEPT !.held = ~@]
    BY DEF HolderMoves
  <1>2. /\ node' \in Nodes /\ node'.unsched = node.unsched /\ node'.active = node.active
        /\ node'.expected = node.expected /\ node'.owners = node.owners
    BY <1>1, GpuTypes DEF Nodes
  <1>3. ASSUME NEW h, NEW r, NEW q, Agrees(h, r, q, node, gpu)
        PROVE  Agrees(h, r, q, node', gpu')
    BY <1>1, <1>2, <1>3 DEF Agrees
  <1> QED
    BY <1>1, <1>2, <1>3, GpuTypes, CloneStays

LEMMA HumanInv == ASSUME GpuInv, HumanCordons PROVE GpuInv'
  <1>1. /\ UNCHANGED <<gpuClone, gpu, gpuRuns, lost>>
        /\ \E b \in BOOLEAN : node' = [node EXCEPT !.unsched = b]
    BY DEF HumanCordons
  <1>2. /\ node' \in Nodes /\ node'.active = node.active
        /\ node'.expected = node.expected /\ node'.owners = node.owners
    BY <1>1, GpuTypes DEF Nodes
  <1>3. \/ ~node.unsched /\ node'.unsched
        \/ /\ SettledNow /\ ModeOf(gpuClone.head) = node.active /\ ~node'.unsched
           /\ gpu.at \in {"ended", "observe", "prepare", "cordon", "recheck"}
    BY GpuTypes DEF HumanCordons, Nodes
  <1>4. ASSUME Agrees(ModeOf(gpuClone.head), ModeOf(gpuClone.remote), ModeOf(gpu.pre), node, gpu)
        PROVE  Agrees(ModeOf(gpuClone.head), ModeOf(gpuClone.remote), ModeOf(gpu.pre), node', gpu')
    BY <1>1, <1>2, <1>3, <1>4 DEF Agrees, SettledNow
  <1> QED
    BY <1>1, <1>2, <1>4, GpuTypes, CloneStays

LEMMA OthersInv == ASSUME GpuInv, OtherWork PROVE GpuInv'
  <1>1. UNCHANGED <<node, gpu, gpuRuns, lost>>
    BY DEF OtherWork
  <1>2. CASE \E t \in {{}, {"other"}} : gpuClone' = [gpuClone EXCEPT !.tree = t]
    <2>1. /\ gpuClone' \in GpuCloneRecord /\ gpuClone'.head = gpuClone.head
          /\ gpuClone'.remote = gpuClone.remote
      BY <1>2, GpuTypes DEF GpuCloneRecord
    <2> QED
      BY <1>1, <2>1, GpuTypes, NodeStays
  <1>3. CASE Dirty(gpuClone) = {"other"} /\ gpuClone' = Committed(gpuClone, "operator", 0)
    <2>1. /\ gpuClone' \in GpuCloneRecord /\ gpuClone'.remote = gpuClone.remote
          /\ HasMode(gpuClone'.head) /\ ModeOf(gpuClone'.head) = ModeOf(gpuClone.head)
      BY <1>3, GpuTypes, ModeCommitted DEF Dirty
    <2> QED
      BY <1>1, <2>1, GpuTypes, NodeStays
  <1>4. CASE GpuAt("ended") /\ gpuClone' = Pushed(gpuClone)
    <2>1. ASSUME NEW h, NEW r, NEW q, Agrees(h, r, q, node, gpu)
          PROVE  Agrees(h, h, q, node, gpu')
      BY <1>1, <1>4, <2>1 DEF Agrees, GpuAt
    <2> QED
      BY <1>1, <1>4, <2>1, GpuPushed, GpuTypes, NodeStays
  <1> QED
    BY <1>2, <1>3, <1>4 DEF OtherWork

\* The initial states, the steps, and with them every behaviour.
LEMMA GpuInitInv == GpuInit => GpuInv
  <1> SUFFICES ASSUME GpuInit PROVE GpuInv
    OBVIOUS
  <1>1. /\ gpuClone \in GpuCloneRecord /\ gpuClone.head = Origin /\ gpuClone.remote = Origin
        /\ gpu = NoGpuRun /\ gpuRuns \in 0..MaxGpuRuns /\ lost \in BOOLEAN
    <2>1. gpuClone = [tree |-> {}, head |-> Origin, remote |-> Origin]
      BY DEF GpuInit
    <2>2. gpuClone \in GpuCloneRecord /\ gpuClone.head = Origin /\ gpuClone.remote = Origin
      BY <2>1, OriginOK DEF GpuCloneRecord
    <2>3. gpu = NoGpuRun /\ gpuRuns \in 0..MaxGpuRuns /\ lost \in BOOLEAN
      <3>1. MaxGpuRuns \in Nat
        BY DEF GpuAssumption
      <3>2. gpuRuns = 0
        BY DEF GpuInit
      <3>3. gpuRuns \in 0..MaxGpuRuns
        BY <3>1, <3>2
      <3>4. gpu = NoGpuRun /\ lost \in BOOLEAN
        BY DEF GpuInit
      <3> QED
        BY <3>3, <3>4
    <2> QED
      BY <2>2, <2>3
  <1>3. /\ node \in Nodes /\ ~node.unsched
        /\ node.active = "pod-hami" /\ node.expected = "pod-hami" /\ node.owners = {"pod-hami"}
    BY DEF GpuInit, Settled, Nodes, GpuModes
  <1>2. Agrees("pod-hami", "pod-hami", ModeOf(gpu.pre), node, gpu)
    BY <1>1, <1>3, NoRunOK DEF Agrees
  <1> QED
    BY <1>1, <1>2, <1>3, NoRunOK, OriginOK DEF GpuInv

LEMMA GpuNextInv == GpuInv /\ [GpuNext]_gpuVars => GpuInv'
  <1> SUFFICES ASSUME GpuInv, [GpuNext]_gpuVars PROVE GpuInv'
    OBVIOUS
  <1>1. CASE UNCHANGED gpuVars
    BY <1>1 DEF gpuVars, GpuInv
  <1>2. CASE \E change \in Changes, resume \in BOOLEAN : StartTransition(change, resume)
    BY <1>2, StartGpuInv
  <1>3. CASE TransitionStep
    BY <1>3, ObserveInv, PreflightInv, CordonInv, RecheckInv, CommitInv, PushModeInv,
       PushModeFailsInv, RollBackModeInv, WaitInv, UncordonInv DEF TransitionStep
  <1>4. CASE KillTransition
    BY <1>4, ReturnInv DEF KillTransition
  <1>5. CASE GpuWorld
    BY <1>5, LabelsInv, PluginsInv, HolderInv, HumanInv, OthersInv DEF GpuWorld
  <1> QED
    BY <1>1, <1>2, <1>3, <1>4, <1>5 DEF GpuNext

\* Whatever a transition is killed at and whoever cordons, labels or commits beside it,
\* each label of a run stands on what it has observed.
THEOREM GpuInvariant == GpuSpec => []GpuInv
  BY GpuInitInv, GpuNextInv, PTL DEF GpuSpec

\* The node, the clone and the run keep their shapes.
THEOREM GpuTypesKept == GpuSpec => []GpuTypeOK
  <1>1. GpuInv => GpuTypeOK
    BY DEF GpuInv, GpuTypeOK, GpuCloneRecord, GpuRunRecord
  <1> QED
    BY <1>1, GpuInvariant, PTL

\* Uncordon comes after WaitForTarget, and a resumed run re-observes: until an answer to a
\* push is lost a schedulable node runs exactly the published mode.
THEOREM GpuSettles == GpuSpec => []SchedulableIsSettled
  <1>1. GpuInv => SchedulableIsSettled
    BY DEF GpuInv, SchedulableIsSettled, Agrees, SettledNow
  <1> QED
    BY <1>1, GpuInvariant, PTL

HIDE GpuAssumption

-----------------------------------------------------------------------------
(*****************************************************************************)
(* BreakGlass, for any number of commands side by side.                      *)
(*                                                                           *)
(* The argument: no token anywhere is newer than the controller's last, and a*)
(* rotation nobody is beside goes on only with a token that was minted after *)
(* it deleted the Secret (Reached).                                          *)
(*****************************************************************************)

KeeperRecord == [at : {"ended", "delete", "apply", "wait", "encrypt", "decrypt", "shell"},
                 kind : {"none", "adopt", "use", "rotate"}, token : Int,
                 alone : BOOLEAN, ok : BOOLEAN, left : 0..MaxKeyCommands]

\* No token is newer than the controller's last.
TokensMinted ==
  /\ secret <= minted /\ keyFile <= minted
  /\ \A k \in Keepers : keeper[k].token <= minted

\* What a command that nobody is beside has reached.
Reached(k) ==
  /\ KeeperAt(k, "encrypt") => secret = keeper[k].token /\ secret > Unfilled
  /\ keeper[k].kind = "rotate" =>
       /\ KeeperAt(k, "apply") => secret = NoSecret
       /\ keeper[k].at \in {"wait", "encrypt"} /\ secret > Unfilled =>
            /\ keyFile # secret
            /\ \A o \in Keepers : KeeperAt(o, "shell") => keeper[o].token # secret

AloneAtWork(k) ==
  AtWork(k) /\ keeper[k].alone => Reached(k) /\ \A o \in Keepers \ {k} : ~AtWork(o)

BreakInv == BreakTypeOK /\ TokensMinted /\ \A k \in Keepers : AloneAtWork(k)

USE KeeperAssumption

\* The type invariant spelled out, in the old state and in the new one.
LEMMA BreakTypes ==
  BreakTypeOK <=> /\ secret \in Int /\ minted \in Nat /\ keyFile \in Int
                  /\ keeper \in [Keepers -> KeeperRecord]
  BY DEF BreakTypeOK, KeeperRecord

LEMMA BreakTypesNext ==
  ASSUME secret' \in Int, minted' \in Nat, keyFile' \in Int, keeper' \in [Keepers -> KeeperRecord]
  PROVE  BreakTypeOK'
  BY DEF BreakTypeOK, KeeperRecord

\* A step of one process, which stays the same command, or of nobody.
LEMMA KeeperMoves ==
  ASSUME BreakInv, NEW k \in Keepers, NEW r \in KeeperRecord,
         keeper' = [keeper EXCEPT ![k] = r], r.kind = keeper[k].kind,
         r.alone = keeper[k].alone, secret' \in Int, keyFile' \in Int, minted' = minted,
         secret' <= minted, keyFile' <= minted, r.token <= minted,
         r.at \in {"shell", "ended"} \/ AtWork(k),
         AtWork(k) \/ (secret' = secret /\ keyFile' = keyFile),
         keeper[k].alone => Reached(k)' \/ r.at \in {"shell", "ended"},
         r.at = "shell" => r.token = keyFile /\ ~AtWork(k)
  PROVE  BreakInv'
  <1>1. /\ keeper \in [Keepers -> KeeperRecord] /\ keeper'[k] = r
        /\ \A o \in Keepers \ {k} : keeper'[o] = keeper[o]
        /\ keeper' \in [Keepers -> KeeperRecord]
    BY BreakTypes DEF BreakInv
  <1>2. BreakTypeOK'
    BY <1>1, BreakTypesNext, BreakTypes DEF BreakInv
  <1>3. TokensMinted'
    BY <1>1 DEF BreakInv, TokensMinted
  <1>4. ASSUME NEW o \in Keepers
        PROVE  AloneAtWork(o)'
    <2> SUFFICES ASSUME AtWork(o)', keeper'[o].alone
                 PROVE  Reached(o)' /\ \A p \in Keepers \ {o} : ~AtWork(p)'
      BY DEF AloneAtWork
    <2>1. CASE o = k
      <3>1. AtWork(k) /\ keeper[k].alone /\ r.at \notin {"shell", "ended"}
        BY <1>1, <2>1 DEF AtWork
      <3> QED
        BY <1>1, <2>1, <3>1 DEF BreakInv, AloneAtWork, AtWork
    <2>2. CASE o # k
      <3>1. /\ AtWork(o) /\ keeper[o].alone /\ ~AtWork(k) /\ Reached(o)
            /\ \A p \in Keepers \ {o} : ~AtWork(p)
        BY <1>1, <2>2 DEF BreakInv, AloneAtWork, AtWork
      <3>2. secret' = secret /\ keyFile' = keyFile /\ r.at \in {"shell", "ended"}
        BY <3>1
      <3>3. \A p \in Keepers \ {o} : ~AtWork(p)'
        BY <1>1, <3>1, <3>2 DEF AtWork
      <3>4. Reached(o)'
        BY <1>1, <2>2, <3>1, <3>2 DEF Reached, KeeperAt
      <3> QED
        BY <3>3, <3>4
    <2> QED
      BY <2>1, <2>2
  <1> QED
    BY <1>2, <1>3, <1>4 DEF BreakInv

\* The record a step leaves, and what a step of one command at work must show.
LEMMA DeleteInv == ASSUME BreakInv, NEW k \in Keepers, DeleteSecret(k) PROVE BreakInv'
  <1> DEFINE r == [keeper[k] EXCEPT !.at = "apply"]
  <1>1. keeper[k] \in KeeperRecord /\ AtWork(k) /\ keeper[k].token <= minted /\ keyFile <= minted
        /\ minted \in Nat /\ keyFile \in Int
    BY BreakTypes DEF BreakInv, TokensMinted, DeleteSecret, KeeperAt, AtWork
  <1>2. /\ r \in KeeperRecord /\ r.at = "apply" /\ r.kind = keeper[k].kind
        /\ r.alone = keeper[k].alone /\ r.token = keeper[k].token
    BY <1>1 DEF KeeperRecord
  <1>3. keeper' = [keeper EXCEPT ![k] = r] /\ secret' = NoSecret /\ UNCHANGED <<minted, keyFile>>
    BY DEF DeleteSecret, KeeperTo
  <1> HIDE DEF r
  <1>4. keeper'[k] = r
    BY <1>3, BreakTypes DEF BreakInv
  <1>5. Reached(k)'
    BY <1>2, <1>3, <1>4 DEF Reached, KeeperAt
  <1>6. NoSecret \in Int /\ NoSecret <= minted
    BY <1>1 DEF NoSecret
  <1> QED
    BY <1>1, <1>2, <1>3, <1>5, <1>6, KeeperMoves

LEMMA ApplyInv == ASSUME BreakInv, NEW k \in Keepers, ApplyManifest(k) PROVE BreakInv'
  <1> DEFINE r == [keeper[k] EXCEPT !.at = "wait"]
  <1>1. /\ keeper[k] \in KeeperRecord /\ AtWork(k) /\ keeper[k].token <= minted /\ keyFile <= minted
        /\ minted \in Nat /\ keyFile \in Int /\ secret \in Int /\ secret <= minted
        /\ keeper[k].at = "apply"
    BY BreakTypes DEF BreakInv, TokensMinted, ApplyManifest, KeeperAt, AtWork
  <1>2. /\ r \in KeeperRecord /\ r.at = "wait" /\ r.kind = keeper[k].kind
        /\ r.alone = keeper[k].alone /\ r.token = keeper[k].token
    BY <1>1 DEF KeeperRecord
  <1>3. /\ keeper' = [keeper EXCEPT ![k] = r] /\ UNCHANGED <<minted, keyFile>>
        /\ secret' = IF secret = NoSecret THEN Unfilled ELSE secret
    BY DEF ApplyManifest, KeeperTo
  <1> HIDE DEF r
  <1>4. keeper'[k] = r
    BY <1>3, BreakTypes DEF BreakInv
  <1>5. keeper[k].alone /\ keeper[k].kind = "rotate" => secret' = Unfilled
    BY <1>1, <1>3 DEF BreakInv, AloneAtWork, Reached, KeeperAt
  <1>6. keeper[k].alone => Reached(k)'
    BY <1>2, <1>4, <1>5 DEF Reached, KeeperAt, Unfilled
  <1>7. secret' \in Int /\ secret' <= minted
    BY <1>1, <1>3 DEF Unfilled
  <1> QED
    BY <1>1, <1>2, <1>3, <1>6, <1>7, KeeperMoves

LEMMA TokenWaitInv == ASSUME BreakInv, NEW k \in Keepers, WaitForToken(k) PROVE BreakInv'
  <1> DEFINE r == [keeper[k] EXCEPT !.at = "encrypt", !.token = secret]
  <1>1. /\ keeper[k] \in KeeperRecord /\ AtWork(k) /\ keyFile <= minted
        /\ minted \in Nat /\ keyFile \in Int /\ secret \in Int /\ secret <= minted
        /\ secret > Unfilled /\ keeper[k].at = "wait"
    BY BreakTypes DEF BreakInv, TokensMinted, WaitForToken, KeeperAt, AtWork
  <1>2. /\ r \in KeeperRecord /\ r.at = "encrypt" /\ r.kind = keeper[k].kind
        /\ r.alone = keeper[k].alone /\ r.token = secret
    BY <1>1 DEF KeeperRecord
  <1>3. keeper' = [keeper EXCEPT ![k] = r] /\ UNCHANGED <<secret, minted, keyFile>>
    BY DEF WaitForToken
  <1> HIDE DEF r
  <1>4. keeper'[k] = r /\ \A o \in Keepers \ {k} : keeper'[o] = keeper[o]
    BY <1>3, BreakTypes DEF BreakInv
  <1>5. keeper[k].alone => Reached(k)'
    <2> SUFFICES ASSUME keeper[k].alone
                 PROVE  Reached(k)'
      OBVIOUS
    <2>1. Reached(k)
      BY <1>1 DEF BreakInv, AloneAtWork
    <2> QED
      BY <1>1, <1>2, <1>3, <1>4, <2>1 DEF Reached, KeeperAt
  <1> QED
    BY <1>1, <1>2, <1>3, <1>5, KeeperMoves

\* The steps that end a command, and the opening of a shell.
LEMMA EndsOK ==
  ASSUME BreakInv, NEW k \in Keepers, NEW ok \in BOOLEAN, KeeperEnds(k, ok)
  PROVE  \E r \in KeeperRecord :
           /\ keeper' = [keeper EXCEPT ![k] = r] /\ r.at = "ended" /\ r.kind = keeper[k].kind
           /\ r.alone = keeper[k].alone /\ r.token = keeper[k].token /\ r.ok = ok
  <1> DEFINE r == [keeper[k] EXCEPT !.at = "ended", !.ok = ok]
  <1>1. keeper[k] \in KeeperRecord /\ keeper \in [Keepers -> KeeperRecord]
    BY BreakTypes DEF BreakInv
  <1>2. /\ r \in KeeperRecord /\ r.at = "ended" /\ r.kind = keeper[k].kind
        /\ r.alone = keeper[k].alone /\ r.token = keeper[k].token /\ r.ok = ok
    BY <1>1 DEF KeeperRecord
  <1>3. keeper' = [keeper EXCEPT ![k] = r]
    BY <1>1 DEF KeeperEnds
  <1> HIDE DEF r
  <1> QED
    BY <1>2, <1>3

\* A command ends; what it leaves is a key file of a token that was minted.
LEMMA EndInv ==
  ASSUME BreakInv, NEW k \in Keepers, SopsEncryptToFile(k) \/ ShellExits(k) \/ KeeperFails(k)
  PROVE  BreakInv'
  <1>1. PICK r \in KeeperRecord :
          /\ keeper' = [keeper EXCEPT ![k] = r] /\ r.at = "ended" /\ r.kind = keeper[k].kind
          /\ r.alone = keeper[k].alone /\ r.token = keeper[k].token
    BY EndsOK DEF SopsEncryptToFile, ShellExits, KeeperFails
  <1>2. /\ keeper[k].token \in Int /\ keeper[k].token <= minted /\ minted \in Nat
        /\ secret \in Int /\ keyFile \in Int /\ secret <= minted /\ keyFile <= minted
    BY BreakTypes DEF BreakInv, TokensMinted, KeeperRecord
  <1>3. UNCHANGED <<secret, minted>> /\ (keyFile' = keyFile \/ (AtWork(k) /\ keyFile' = keeper[k].token))
    BY DEF SopsEncryptToFile, ShellExits, KeeperFails, KeeperAt, AtWork
  <1> QED
    BY <1>1, <1>2, <1>3, KeeperMoves

LEMMA DecryptInv == ASSUME BreakInv, NEW k \in Keepers, SopsDecryptToFile(k) PROVE BreakInv'
  <1> DEFINE r == [keeper[k] EXCEPT !.at = "shell", !.token = keyFile]
  <1>1. /\ keeper[k] \in KeeperRecord /\ ~AtWork(k) /\ keyFile <= minted /\ keeper[k].at = "decrypt"
        /\ minted \in Nat /\ keyFile \in Int /\ secret \in Int /\ secret <= minted
    BY BreakTypes DEF BreakInv, TokensMinted, SopsDecryptToFile, KeeperAt, AtWork
  <1>2. /\ r \in KeeperRecord /\ r.at = "shell" /\ r.kind = keeper[k].kind
        /\ r.alone = keeper[k].alone /\ r.token = keyFile
    BY <1>1 DEF KeeperRecord
  <1>3. keeper' = [keeper EXCEPT ![k] = r] /\ UNCHANGED <<secret, minted, keyFile>>
    BY DEF SopsDecryptToFile
  <1> HIDE DEF r
  <1> QED
    BY <1>1, <1>2, <1>3, KeeperMoves

LEMMA PopulateInv == ASSUME BreakInv, Populate PROVE BreakInv'
  <1>1. /\ secret = Unfilled /\ minted' = minted + 1 /\ secret' = minted + 1
        /\ UNCHANGED <<keyFile, keeper>> /\ minted \in Nat /\ keyFile \in Int /\ keyFile <= minted
        /\ keeper \in [Keepers -> KeeperRecord]
    BY BreakTypes DEF Populate, BreakInv, TokensMinted
  <1>2. \A k \in Keepers : keeper[k].token \in Int /\ keeper[k].token <= minted
    BY <1>1 DEF BreakInv, TokensMinted, KeeperRecord
  <1>3. BreakTypeOK' /\ TokensMinted'
    BY <1>1, <1>2, BreakTypesNext DEF TokensMinted
  <1>4. ASSUME NEW k \in Keepers
        PROVE  AloneAtWork(k)'
    <2>1. AloneAtWork(k)
      BY DEF BreakInv
    <2>2. AtWork(k)' <=> AtWork(k)
      BY <1>1 DEF AtWork
    <2>3. \A o \in Keepers : AtWork(o)' <=> AtWork(o)
      BY <1>1 DEF AtWork
    <2>4. Reached(k) => Reached(k)'
      BY <1>1, <1>2 DEF Reached, KeeperAt, Unfilled, NoSecret
    <2> QED
      BY <1>1, <2>1, <2>2, <2>3, <2>4 DEF AloneAtWork
  <1> QED
    BY <1>3, <1>4 DEF BreakInv

\* A command starts, alone or beside others.
LEMMA BeginInv ==
  ASSUME BreakInv, NEW k \in Keepers, NEW kind \in {"adopt", "use", "rotate"},
         NEW at \in {"apply", "delete", "decrypt"}, Begin(k, kind, at),
         kind = "use" <=> at = "decrypt", kind = "rotate" => at = "delete"
  PROVE  BreakInv'
  <1>1. /\ UNCHANGED <<secret, minted, keyFile>> /\ ~AtWork(k)
        /\ keeper \in [Keepers -> KeeperRecord] /\ keeper[k].left > 0
    BY BreakTypes DEF BreakInv, Begin, KeeperAt, AtWork
  <1>2. /\ keeper'[k] = [at |-> at, kind |-> kind, token |-> NoSecret, ok |-> FALSE,
                         alone |-> \A p \in Keepers : ~AtWork(p), left |-> keeper[k].left - 1]
        /\ keeper' = [o \in Keepers |-> keeper'[o]]
    BY DEF Begin
  <1>3. keeper'[k] \in KeeperRecord
    <2>1. keeper[k].left - 1 \in 0..MaxKeyCommands
      BY <1>1 DEF KeeperRecord
    <2>2. (\A p \in Keepers : ~AtWork(p)) \in BOOLEAN /\ NoSecret \in Int
      BY DEF NoSecret
    <2> QED
      BY <1>2, <2>1, <2>2 DEF KeeperRecord
  <1>4. ASSUME NEW o \in Keepers \ {k}
        PROVE  /\ keeper'[o] \in KeeperRecord /\ keeper'[o].at = keeper[o].at
               /\ keeper'[o].kind = keeper[o].kind /\ keeper'[o].token = keeper[o].token
               /\ keeper'[o].alone => keeper[o].alone /\ kind = "use"
    <2>1. keeper'[o] = [keeper[o] EXCEPT !.alone = @ /\ kind = "use"]
      BY DEF Begin
    <2>2. keeper[o] \in KeeperRecord
      BY <1>1
    <2>3. (keeper[o].alone /\ kind = "use") \in BOOLEAN
      OBVIOUS
    <2> QED
      BY <2>1, <2>2, <2>3 DEF KeeperRecord
  <1>5. BreakTypeOK'
    <2>1. keeper' \in [Keepers -> KeeperRecord]
      BY <1>2, <1>3, <1>4
    <2> QED
      BY <1>1, <2>1, BreakTypes, BreakTypesNext DEF BreakInv
  <1>6. TokensMinted'
    <2>1. keeper'[k].token = NoSecret /\ NoSecret <= minted
      BY <1>2, BreakTypes DEF NoSecret, BreakInv
    <2> QED
      BY <1>1, <1>4, <2>1 DEF BreakInv, TokensMinted
  <1>7. ASSUME NEW o \in Keepers
        PROVE  AloneAtWork(o)'
    <2>1. CASE o = k
      <3>1. keeper'[k].alone => \A p \in Keepers : ~AtWork(p)
        BY <1>2
      <3>2. Reached(k)'
        BY <1>2 DEF Reached, KeeperAt
      <3> QED
        BY <1>4, <2>1, <3>1, <3>2 DEF AloneAtWork, AtWork
    <2>2. CASE o # k
      <3> SUFFICES ASSUME AtWork(o)', keeper'[o].alone
                   PROVE  Reached(o)' /\ \A p \in Keepers \ {o} : ~AtWork(p)'
        BY DEF AloneAtWork
      <3>1. /\ AtWork(o) /\ keeper[o].alone /\ at = "decrypt" /\ keeper'[k].at = "decrypt"
            /\ keeper'[o].at = keeper[o].at /\ keeper'[o].kind = keeper[o].kind
            /\ keeper'[o].token = keeper[o].token
        BY <1>2, <1>4, <2>2 DEF AtWork
      <3>2. Reached(o) /\ \A p \in Keepers \ {o} : ~AtWork(p)
        BY <3>1 DEF BreakInv, AloneAtWork
      <3>3. \A p \in Keepers \ {o} : ~AtWork(p)'
        BY <1>4, <3>1, <3>2 DEF AtWork
      <3>4. Reached(o)'
        BY <1>1, <1>4, <3>1, <3>2 DEF Reached, KeeperAt
      <3> QED
        BY <3>3, <3>4
    <2> QED
      BY <2>1, <2>2
  <1> QED
    BY <1>5, <1>6, <1>7 DEF BreakInv

\* The initial states, the steps, and with them every behaviour.
LEMMA BreakInitInv == BreakInit => BreakInv
  <1> SUFFICES ASSUME BreakInit
               PROVE  BreakInv
    OBVIOUS
  <1> DEFINE r == [at |-> "ended", kind |-> "none", token |-> NoSecret,
                   alone |-> FALSE, ok |-> FALSE, left |-> MaxKeyCommands]
  <1>a. NoSecret \in Int /\ MaxKeyCommands \in 0..MaxKeyCommands
    BY DEF NoSecret
  <1>b. r \in KeeperRecord /\ r.at = "ended" /\ r.token = NoSecret
    BY <1>a DEF KeeperRecord
  <1>c. keeper = [k \in Keepers |-> r]
    BY DEF BreakInit
  <1> HIDE DEF r
  <1>1. \A k \in Keepers : /\ keeper[k] \in KeeperRecord /\ keeper[k].at = "ended"
                           /\ keeper[k].token = NoSecret
    BY <1>b, <1>c
  <1>2. BreakTypeOK
    BY <1>a, <1>b, <1>c, BreakTypes DEF BreakInit
  <1>3. TokensMinted /\ \A k \in Keepers : AloneAtWork(k)
    BY <1>1 DEF BreakInit, NoSecret, TokensMinted, AloneAtWork, AtWork
  <1> QED
    BY <1>2, <1>3 DEF BreakInv

LEMMA BreakNextInv == BreakInv /\ [BreakNext]_breakVars => BreakInv'
  <1> SUFFICES ASSUME BreakInv, [BreakNext]_breakVars
               PROVE  BreakInv'
    OBVIOUS
  <1>1. ASSUME NEW k \in Keepers, Adopt(k) \/ Rotate(k) \/ Use(k)
        PROVE  BreakInv'
    BY <1>1, BeginInv DEF Adopt, Rotate, Use
  <1>2. CASE UNCHANGED breakVars
    BY <1>2 DEF breakVars, BreakInv, BreakTypeOK, TokensMinted, AloneAtWork, AtWork,
       Reached, KeeperAt
  <1> QED
    BY <1>1, <1>2, PopulateInv, DeleteInv, ApplyInv, TokenWaitInv, EndInv, DecryptInv
       DEF BreakNext

LEMMA BreakInvariant == BreakSpec => []BreakInv
  BY BreakInitInv, BreakNextInv, PTL DEF BreakSpec

\* Only the encryption ends an adopt or a rotate with success.
LEMMA TakesHoldStep ==
  ASSUME BreakInv, BreakNext, NEW k \in Keepers, KeeperSucceeds(k), keeper[k].alone
  PROVE  /\ secret' > Unfilled /\ keyFile' = secret'
         /\ keeper[k].kind = "rotate" =>
              \A o \in Keepers : keeper[o].at = "shell" => keeper[o].token # secret'
  <1>1. /\ keeper \in [Keepers -> KeeperRecord] /\ keeper[k].at # "ended" /\ keeper'[k].at = "ended"
        /\ keeper'[k].ok /\ AtWork(k)
    BY BreakTypes DEF BreakInv, KeeperSucceeds, AtWork
  <1>2. SopsEncryptToFile(k)
    <2>1. ASSUME NEW o \in Keepers, NEW kind, NEW at, Begin(o, kind, at)
          PROVE  FALSE
      <3>1. o # k
        BY <1>1, <2>1 DEF Begin, KeeperAt
      <3>2. keeper'[k] = [keeper[k] EXCEPT !.alone = @ /\ kind = "use"]
        BY <2>1, <3>1 DEF Begin
      <3> QED
        BY <1>1, <3>2 DEF KeeperRecord
    <2>2. ~Populate
      BY <1>1 DEF Populate
    <2>3. ASSUME NEW o \in Keepers, NEW at, KeeperTo(o, at), at # "ended"
          PROVE  FALSE
      BY <1>1, <2>3 DEF KeeperTo, KeeperRecord
    <2>4. ASSUME NEW o \in Keepers, WaitForToken(o) \/ SopsDecryptToFile(o)
          PROVE  FALSE
      BY <1>1, <2>4 DEF WaitForToken, SopsDecryptToFile, KeeperRecord
    <2>5. ASSUME NEW o \in Keepers, ShellExits(o)
          PROVE  FALSE
      BY <1>1, <2>5 DEF ShellExits, KeeperAt, KeeperEnds, AtWork
    <2>6. ASSUME NEW o \in Keepers, KeeperFails(o)
          PROVE  FALSE
      BY <1>1, <2>6 DEF KeeperFails, KeeperEnds, KeeperRecord
    <2>7. ASSUME NEW o \in Keepers, SopsEncryptToFile(o), o # k
          PROVE  FALSE
      BY <1>1, <2>7 DEF SopsEncryptToFile, KeeperEnds
    <2> QED
      BY <2>1, <2>2, <2>3, <2>4, <2>5, <2>6, <2>7
         DEF BreakNext, Adopt, Rotate, Use, DeleteSecret, ApplyManifest
  <1>3. Reached(k) /\ keeper[k].at = "encrypt" /\ keyFile' = keeper[k].token /\ secret' = secret
    BY <1>1, <1>2 DEF BreakInv, AloneAtWork, SopsEncryptToFile, KeeperAt
  <1> QED
    BY <1>3 DEF Reached, KeeperAt

\* Commands that fail half way and run beside each other keep the shape of the parts.
THEOREM BreakTypesKept == BreakSpec => []BreakTypeOK
  BY BreakInvariant, PTL DEF BreakInv

\* Adopt and Rotate: success with nobody beside it leaves the live token in the file, and
\* after a rotate in no recovery shell.
THEOREM BreakTakesHold == BreakSpec => RotationTakesHold
  <1>1. BreakInv /\ [BreakNext]_breakVars =>
          [\A k \in Keepers : KeeperSucceeds(k) /\ keeper[k].alone =>
             /\ secret' > Unfilled /\ keyFile' = secret'
             /\ keeper[k].kind = "rotate" =>
                  \A o \in Keepers : keeper[o].at = "shell" => keeper[o].token # secret']_breakVars
    BY TakesHoldStep
  <1> QED
    BY <1>1, BreakInvariant, PTL DEF BreakSpec, RotationTakesHold

HIDE KeeperAssumption

=============================================================================
