---------------------------- MODULE FleetProofs -----------------------------
(*****************************************************************************)
(* Theorems about the fleet repository: the sealed secret of the scaffold    *)
(* (SealedWrite), the commits and pushes of an apply (FleetApply) and the    *)
(* starter trees with the age key (FleetStarter).                            *)
(*****************************************************************************)
EXTENDS SealedWrite, FleetApply, FleetStarter, TLAPS
LOCAL INSTANCE SequencesExt

-----------------------------------------------------------------------------
(*****************************************************************************)
(* SealedWrite, for any number of writers and runs: the flock keeps a temporary*)
(* its own writer's, and what follows from it.                               *)
(*****************************************************************************)

\* A writer between lock and release is the holder.
LockHeld == \A w \in Writers : writer[w].at \in Held => lock = w

\* From the sweep to the rename there is no temporary but the holder's own, and the
\* one about to be renamed has been verified.
Solo ==
  \A w \in Writers :
    /\ writer[w].at = "create" => temps = {}
    /\ writer[w].at \in {"encrypt", "verify", "rename"} =>
         \E t \in temps : /\ temps = {t} /\ t.by = w /\ t.try = writer[w].try
                          /\ writer[w].at = "rename" => t.text = "sealed"

\* What a writer has seen or done to the artifact and the overlay stays so.
Settles ==
  /\ overlay.mode => overlay.patched /\ final.text = "sealed"
  /\ \A w \in Writers :
       /\ writer[w].at = "idle" \/ writer[w].try >= 1
       /\ writer[w].at \in {"patch", "write", "mark"} => final.text = "sealed"
       /\ writer[w].at = "done" => final.text \in {"sealed", "leaky"}
       /\ writer[w].patched => overlay.patched
       /\ writer[w].at = "mark" => overlay.patched

SealedInv == SealedTypeOK /\ LockHeld /\ Solo /\ Settles

USE SealedAssumption DEF Held, NoWriter, WriterLabels, Texts, WriterAt

LEMMA SealedInitInv == SealedInit => SealedInv
  BY DEF SealedInit, SealedInv, SealedTypeOK, LockHeld, Solo, Settles, NoFile

WriterType == [Writers -> [at : WriterLabels, try : 0..MaxTries, patched : BOOLEAN,
                           rev : 0..MaxEdits]]

\* What a move of one writer changes.
LEMMA Moves ==
  ASSUME SealedTypeOK, NEW w \in Writers, NEW at \in WriterLabels, WriterTo(w, at)
  PROVE  /\ writer' \in WriterType
         /\ writer'[w].at = at /\ writer'[w].try = writer[w].try
         /\ writer'[w].patched = writer[w].patched
         /\ \A v \in Writers \ {w} : writer'[v] = writer[v]
  BY DEF SealedTypeOK, WriterTo, WriterType

\* A step that moves one writer, outside the locked section before and after, and
\* leaves lock, temporaries, artifact and overlay alone.
LEMMA OutsideInv ==
  ASSUME SealedInv, NEW w \in Writers, NEW at \in WriterLabels \ Held, WriterTo(w, at),
         at \in {"patch", "write", "mark"} => final.text = "sealed",
         at = "done" => final.text \in {"sealed", "leaky"},
         at = "mark" => overlay.patched, writer[w].at # "idle",
         UNCHANGED <<artifact, lock, temps, final, overlay>>
  PROVE  SealedInv'
  <1>1. SealedTypeOK
    BY DEF SealedInv
  <1>2. SealedTypeOK'
    BY <1>1, Moves DEF SealedTypeOK, WriterType
  <1>3. LockHeld' /\ Solo'
    BY <1>1, Moves DEF SealedInv, LockHeld, Solo
  <1>4. Settles'
    BY <1>1, Moves DEF SealedInv, Settles
  <1> QED
    BY <1>2, <1>3, <1>4 DEF SealedInv

\* What the writer does before it takes the lock.
LEMMA BeforeLockInv ==
  ASSUME SealedInv, NEW w \in Writers,
         StartWriter(w) \/ Stage(w) \/ CheckKeeps(w) \/ CheckRefuses(w) \/ CheckWrites(w)
  PROVE  SealedInv'
  <1>1. CASE StartWriter(w)
    BY <1>1 DEF StartWriter, Resting, SealedInv, SealedTypeOK, LockHeld, Solo, Settles
  <1>2. CASE Stage(w)
    <2>1. /\ writer' \in WriterType
          /\ writer'[w].at = "check" /\ writer'[w].patched = overlay.patched
          /\ \A v \in Writers \ {w} : writer'[v] = writer[v]
          /\ writer[w].at = "stage" /\ writer'[w].try = writer[w].try
          /\ UNCHANGED <<artifact, lock, temps, final, overlay>>
      BY <1>2 DEF Stage, WriterAt, SealedInv, SealedTypeOK, WriterType
    <2>2. SealedTypeOK'
      BY <2>1 DEF SealedInv, SealedTypeOK, WriterType
    <2>3. LockHeld' /\ Solo'
      BY <2>1 DEF SealedInv, LockHeld, Solo
    <2>4. Settles'
      BY <2>1 DEF SealedInv, Settles
    <2> QED
      BY <2>2, <2>3, <2>4 DEF SealedInv
  <1>3. CASE CheckKeeps(w)
    <2>1. final.text \in {"sealed", "leaky"} /\ (artifact = "tls" => final.text = "sealed")
      BY <1>3 DEF CheckKeeps, Keeps, SealedInv, SealedTypeOK
    <2>2. CASE WriterTo(w, "patch") /\ artifact = "tls"
      BY <1>3, <2>1, <2>2, OutsideInv DEF CheckKeeps
    <2>3. CASE WriterTo(w, "done")
      BY <1>3, <2>1, <2>3, OutsideInv DEF CheckKeeps
    <2> QED
      BY <1>3, <2>2, <2>3 DEF CheckKeeps
  <1>4. CASE CheckRefuses(w)
    <2>1. WriterTo(w, "failed") /\ UNCHANGED <<artifact, lock, temps, final, overlay>>
         /\ writer[w].at = "check"
      BY <1>4 DEF CheckRefuses, WriterAt
    <2> QED
      BY <2>1, OutsideInv
  <1>5. CASE CheckWrites(w)
    <2>1. WriterTo(w, "lock") /\ UNCHANGED <<artifact, lock, temps, final, overlay>>
         /\ writer[w].at = "check"
      BY <1>5 DEF CheckWrites, WriterAt
    <2> QED
      BY <2>1, OutsideInv
  <1> QED
    BY <1>1, <1>2, <1>3, <1>4, <1>5

-----------------------------------------------------------------------------
\* A locked section that is left in failure, whatever became of its own temporary.
LEMMA LeavesInv ==
  ASSUME SealedInv, NEW w \in Writers, writer[w].at \in Held, ReturnFrom(w, "failed"),
         temps' \subseteq temps, UNCHANGED <<artifact, final, overlay>>
  PROVE  SealedInv'
  <1>1. SealedTypeOK /\ WriterTo(w, "failed") /\ lock = w /\ lock' = NoWriter
    BY DEF SealedInv, LockHeld, ReturnFrom
  <1>2. SealedTypeOK'
    BY <1>1, Moves DEF SealedTypeOK, WriterType
  <1>3. \A v \in Writers : writer'[v].at \notin Held
    BY <1>1, Moves DEF SealedInv, LockHeld
  <1>4. LockHeld' /\ Solo'
    BY <1>3 DEF LockHeld, Solo
  <1>5. Settles'
    BY <1>1, Moves DEF SealedInv, Settles
  <1> QED
    BY <1>2, <1>4, <1>5 DEF SealedInv

\* The holder's temporary is the only one, before and after its own step on it.
LEMMA HoldsInv ==
  ASSUME SealedInv, NEW w \in Writers, writer[w].at \in Held, NEW text \in Texts,
         NEW at \in {"encrypt", "verify", "rename"}, at = "rename" => text = "sealed",
         temps' = {[by |-> w, try |-> writer[w].try, text |-> text]},
         WriterTo(w, at), UNCHANGED <<artifact, lock, final, overlay>>
  PROVE  SealedInv'
  <1>1. SealedTypeOK /\ lock = w /\ writer[w].try \in 1..MaxTries
    BY DEF SealedInv, SealedTypeOK, LockHeld, Settles
  <1>2. SealedTypeOK'
    BY <1>1, Moves DEF SealedTypeOK, WriterType
  <1>3. LockHeld'
    BY <1>1, Moves DEF SealedInv, LockHeld
  <1>4. \A v \in Writers \ {w} : writer'[v].at \notin Held
    BY <1>1, Moves DEF SealedInv, LockHeld
  <1>5. Solo'
    BY <1>1, <1>4, Moves DEF Solo
  <1>6. Settles'
    BY <1>1, Moves DEF SealedInv, Settles
  <1> QED
    BY <1>2, <1>3, <1>5, <1>6 DEF SealedInv

\* sopsEncryptToFile under the lock: whoever else is in it would be the holder too.
LEMMA LockedInv ==
  ASSUME SealedInv, NEW w \in Writers,
         TakeLock(w) \/ Sweep(w) \/ CreateTemp(w) \/ SopsEncrypts(w) \/ Verify(w) \/ Rename(w)
  PROVE  SealedInv'
  <1>1. CASE TakeLock(w)
    BY <1>1 DEF TakeLock, SealedInv, SealedTypeOK, LockHeld, Solo, Settles, ReturnFrom,
       WriterTo
  <1>2. CASE Sweep(w)
    BY <1>2 DEF Sweep, SealedInv, SealedTypeOK, LockHeld, Solo, Settles, ReturnFrom,
       WriterTo
  <1>3. CASE CreateTemp(w)
    <2>1. /\ SealedTypeOK /\ writer[w].at = "create" /\ temps = {}
          /\ UNCHANGED <<artifact, final, overlay>>
      BY <1>3 DEF CreateTemp, WriterAt, SealedInv, Solo
    <2>2. CASE UNCHANGED temps /\ ReturnFrom(w, "failed")
      BY <2>1, <2>2, LeavesInv
    <2>3. CASE /\ temps' = temps \cup {[by |-> w, try |-> writer[w].try, text |-> "plain"]}
               /\ WriterTo(w, "encrypt") /\ UNCHANGED lock
      BY <2>1, <2>3, HoldsInv
    <2> QED
      BY <1>3, <2>2, <2>3 DEF CreateTemp
  <1>4. CASE SopsEncrypts(w)
    <2>1. /\ SealedTypeOK /\ writer[w].at = "encrypt" /\ UNCHANGED <<artifact, final, overlay>>
      BY <1>4 DEF SopsEncrypts, WriterAt, SealedInv
    <2>2. CASE Cleanup(w) /\ ReturnFrom(w, "failed")
      <3>1. temps' \subseteq temps
        BY <2>2 DEF Cleanup
      <3> QED
        BY <2>1, <2>2, <3>1, LeavesInv
    <2>3. ASSUME NEW text \in Texts,
                 temps' = (temps \ OwnTemps(w))
                            \cup {[t EXCEPT !.text = text] : t \in OwnTemps(w)},
                 WriterTo(w, "verify"), UNCHANGED lock
          PROVE  SealedInv'
      <3>1. PICK t \in temps : temps = {t} /\ t.by = w /\ t.try = writer[w].try
        BY <2>1 DEF SealedInv, Solo
      <3>2. OwnTemps(w) = {t}
        BY <3>1 DEF OwnTemps
      <3>3. t \in [by : Writers, try : 1..MaxTries, text : Texts]
        BY <2>1, <3>1 DEF SealedTypeOK
      <3>4. [t EXCEPT !.text = text] = [by |-> w, try |-> writer[w].try, text |-> text]
        BY <3>1, <3>3
      <3>5. temps' = {[by |-> w, try |-> writer[w].try, text |-> text]}
        BY <2>3, <3>1, <3>2, <3>4
      <3> QED
        BY <2>1, <2>3, <3>5, HoldsInv
    <2> QED
      BY <1>4, <2>2, <2>3 DEF SopsEncrypts
  <1>5. CASE Verify(w)
    BY <1>5 DEF Verify, Verified, Cleanup, OwnTemps, SealedInv, SealedTypeOK, LockHeld,
       Solo, Settles, ReturnFrom, WriterTo
  <1>6. CASE Rename(w)
    BY <1>6, SMTT(40) DEF Rename, Cleanup, OwnTemps, NoFile, SealedInv, SealedTypeOK,
       LockHeld, Solo, Settles, ReturnFrom, WriterTo
  <1> QED
    BY <1>1, <1>2, <1>3, <1>4, <1>5, <1>6

-----------------------------------------------------------------------------
\* The overlay is patched, then the mode recorded.
LEMMA OverlayInv ==
  ASSUME SealedInv, NEW w \in Writers, Recheck(w) \/ WriteOverlay(w) \/ RecordMode(w)
  PROVE  SealedInv'
  <1>1. CASE Recheck(w)
    <2>1. final.text = "sealed" /\ (writer[w].patched => overlay.patched)
      BY <1>1 DEF Recheck, SealedInv, Settles
    <2>2. \/ WriterTo(w, "mark") /\ writer[w].patched
          \/ WriterTo(w, "write")
          \/ WriterTo(w, "failed")
      BY <1>1 DEF Recheck
    <2>3. UNCHANGED <<artifact, lock, temps, final, overlay>> /\ writer[w].at = "patch"
      BY <1>1 DEF Recheck, WriterAt
    <2> QED
      BY <2>1, <2>2, <2>3, OutsideInv
  <1>2. CASE WriteOverlay(w)
    <2>1. CASE UNCHANGED overlay /\ WriterTo(w, "failed")
      BY <1>2, <2>1, OutsideInv DEF WriteOverlay
    <2>2. CASE overlay' = [overlay EXCEPT !.patched = TRUE, !.rev = writer[w].rev]
               /\ WriterTo(w, "mark")
      <3>1. /\ SealedTypeOK /\ final.text = "sealed" /\ writer[w].at = "write"
            /\ UNCHANGED <<artifact, lock, temps, final>>
        BY <1>2 DEF WriteOverlay, SealedInv, Settles
      <3>2. overlay' \in [patched : BOOLEAN, rev : 0..MaxEdits, mode : BOOLEAN]
            /\ overlay'.patched = TRUE /\ overlay'.mode = overlay.mode
        BY <2>2, <3>1 DEF SealedTypeOK
      <3>3. SealedTypeOK'
        BY <2>2, <3>1, <3>2, Moves DEF SealedTypeOK, WriterType
      <3>4. LockHeld' /\ Solo'
        BY <1>2, <2>2, <3>1, Moves DEF WriteOverlay, SealedInv, LockHeld, Solo
      <3>5. Settles'
        BY <2>2, <3>1, <3>2, Moves DEF SealedInv, Settles
      <3> QED
        BY <3>3, <3>4, <3>5 DEF SealedInv
    <2> QED
      BY <1>2, <2>1, <2>2 DEF WriteOverlay
  <1>3. CASE RecordMode(w)
    <2>1. CASE UNCHANGED overlay /\ WriterTo(w, "failed")
      BY <1>3, <2>1, OutsideInv DEF RecordMode
    <2>2. CASE overlay' = [overlay EXCEPT !.mode = TRUE] /\ WriterTo(w, "done")
      <3>1. SealedTypeOK /\ final.text = "sealed" /\ overlay.patched
            /\ UNCHANGED <<artifact, lock, temps, final>> /\ writer[w].at = "mark"
        BY <1>3 DEF RecordMode, SealedInv, Settles
      <3>2. overlay' \in [patched : BOOLEAN, rev : 0..MaxEdits, mode : BOOLEAN]
            /\ overlay'.patched = overlay.patched
        BY <2>2, <3>1 DEF SealedTypeOK
      <3>3. SealedTypeOK'
        BY <2>2, <3>1, <3>2, Moves DEF SealedTypeOK, WriterType
      <3>4. LockHeld' /\ Solo'
        BY <1>3, <2>2, <3>1, Moves DEF RecordMode, SealedInv, LockHeld, Solo
      <3>5. Settles'
        BY <2>2, <3>1, <3>2, Moves DEF SealedInv, Settles
      <3> QED
        BY <3>3, <3>4, <3>5 DEF SealedInv
    <2> QED
      BY <1>3, <2>1, <2>2 DEF RecordMode
  <1> QED
    BY <1>1, <1>2, <1>3

LEMMA SealedNextInv == SealedInv /\ [SealedNext]_sealedVars => SealedInv'
  <1> SUFFICES ASSUME SealedInv, [SealedNext]_sealedVars PROVE SealedInv'
    OBVIOUS
  <1>1. ASSUME NEW w \in Writers, StartWriter(w) \/ WriterStep(w) PROVE SealedInv'
    BY <1>1, BeforeLockInv, LockedInv, OverlayInv DEF WriterStep
  <1>2. ASSUME NEW w \in Writers, Die(w) PROVE SealedInv'
    BY <1>2 DEF Die, ReturnFrom, WriterTo, Resting, SealedInv, SealedTypeOK, LockHeld, Solo,
       Settles
  <1>3. CASE EditOverlay
    BY <1>3 DEF EditOverlay, SealedInv, SealedTypeOK, LockHeld, Solo, Settles
  <1>4. CASE UNCHANGED sealedVars
    BY <1>4 DEF sealedVars, SealedInv, SealedTypeOK, LockHeld, Solo, Settles
  <1> QED
    BY <1>1, <1>2, <1>3, <1>4 DEF SealedNext

-----------------------------------------------------------------------------
\* The inductive invariant.
THEOREM SealedInvariant == SealedSpec => []SealedInv
  BY SealedInitInv, SealedNextInv, PTL DEF SealedSpec

\* The types of the writers, their lock and files.
THEOREM SealedTypes == SealedSpec => []SealedTypeOK
  <1>1. SealedInv => SealedTypeOK
    BY DEF SealedInv
  <1> QED
    BY <1>1, SealedInvariant, PTL

\* The flock of sopsEncryptToFile does what its comment says it is for: nobody's
\* sweep, death or failure takes a writer's live temporary.
THEOREM LiveTempSafe == SealedSpec => []LiveTempIsSafe
  <1>1. SealedInv => LiveTempIsSafe
    BY DEF SealedInv, Solo, LiveTempIsSafe, OwnTemps
  <1> QED
    BY <1>1, SealedInvariant, PTL

\* WriteWildcardTLS's marker is last: it stands for a patched overlay and an
\* artifact without a leak, and a returned success for an encrypted artifact.
THEOREM MarkerSealed == SealedSpec => []MarkerMeansSealed
  <1>1. SealedInv => MarkerMeansSealed
    BY DEF SealedInv, Settles, MarkerMeansSealed
  <1> QED
    BY <1>1, SealedInvariant, PTL

\* A sops write that succeeds leaves no plaintext residue of any run beside it.
THEOREM NoResidue == SealedSpec => SuccessLeavesNoResidue
  <1>1. SealedInv /\ [SealedNext]_sealedVars => [final' # final => temps' = {}]_sealedVars
    <2> SUFFICES ASSUME SealedInv, SealedNext, final' # final PROVE temps' = {}
      OBVIOUS
    <2>1. PICK w \in Writers : Rename(w)
      BY DEF SealedNext, StartWriter, WriterStep, Stage, CheckKeeps, CheckRefuses,
         CheckWrites, TakeLock, Sweep, CreateTemp, SopsEncrypts, Verify, Recheck,
         WriteOverlay, RecordMode, Die, EditOverlay
    <2> QED
      BY <2>1 DEF Rename, OwnTemps, SealedInv, Solo
  <1> QED
    BY <1>1, SealedInvariant, PTL DEF SealedSpec, SuccessLeavesNoResidue

HIDE SealedAssumption DEF Held, NoWriter, WriterLabels, Texts, WriterAt

-----------------------------------------------------------------------------
(*****************************************************************************)
(* FleetApply, for any number of runs, of other clones' commits, kills and   *)
(* failed pushes.                                                            *)
(*                                                                           *)
(* The argument: at each label a run of apply knows what is in its working   *)
(* tree, and that HEAD is where it found it or one commit of its own further *)
(* (HeadOK, TreeOK); what others left in the clone is therefore in the part  *)
(* of it that no commit, reset or clean of the run reaches.                  *)
(*****************************************************************************)

CloneRecord == [tree : SUBSET Work, head : Seq(Commits), remote : Seq(Commits)]
CommandRecord == [kind : {"apply", "keycloak"}, at : CmdLabels, noPush : BOOLEAN, tls : BOOLEAN,
                  pre : Seq(Commits), resuming : BOOLEAN, rotated : BOOLEAN, result : CmdResults]

Wanted(k) == {"overlay"} \cup (IF k.tls THEN {"tls"} ELSE {})

\* HEAD is where the run found it, or one commit of its own further.
OwnHead(c, k) ==
  \/ c.head = k.pre
  \/ \E m \in Commits : c.head = Append(k.pre, m) /\ m.holds \cap Others = {}

\* What a run of apply has in the tree, in HEAD and on the remote at each of its labels.
HeadOK(c, k) ==
  /\ k.at # "ended" => k.result = "none"
  /\ k.at \in {"script", "compare", "publish"} => k.kind = "keycloak"
  /\ k.at \in {"gate", "label", "scaffold", "rest", "cleanup", "rotate", "rotateCommit", "commit"}
       => c.head = k.pre
  /\ k.at \in {"gate", "label", "scaffold", "rest", "cleanup", "commit"} => ~k.resuming
  /\ k.at \in {"push", "reset"} => OwnHead(c, k)
  /\ k.at = "push" /\ k.resuming /\ ~k.rotated => c.head = k.pre
  /\ k.at = "flux" => c.head = c.remote
TreeOK(c, k) ==
  /\ k.at \in {"label", "scaffold", "rotate", "push"} => c.tree = {}
  /\ k.at = "rest" => c.tree = {"overlay"}
  /\ k.at = "commit" => c.tree \subseteq {"overlay", "depot", "tls"}
  /\ k.at = "rotateCommit" => c.tree \subseteq {"tls"}
  /\ k.at \in {"cleanup", "reset"} => c.tree \cap Others = {}
OverlayOK(c, k) ==
  /\ k.at \in {"commit", "rotateCommit"} => Wanted(k) \subseteq c.tree \cup InHistory(c.head)
  /\ k.at = "rotate" => "overlay" \in InHistory(c.head)
  /\ k.at = "push" => Wanted(k) \subseteq InHistory(c.head)
  /\ k.at = "flux" => Wanted(k) \subseteq InHistory(c.remote)

FleetInv ==
  /\ clone \in CloneRecord /\ cmd \in CommandRecord /\ runs \in 0..MaxRuns /\ flux \in BOOLEAN
  /\ HeadOK(clone, cmd) /\ TreeOK(clone, cmd) /\ OverlayOK(clone, cmd)
  /\ FluxHasOverlay /\ NoPlaintextCommitted

USE FleetAssumption

\* What a history and a longer one hold.
LEMMA HistoryAppend ==
  ASSUME NEW h \in Seq(Commits), NEW c \in Commits
  PROVE  /\ Append(h, c) \in Seq(Commits)
         /\ InHistory(Append(h, c)) = InHistory(h) \cup c.holds
  <1> DEFINE a == Append(h, c)
  <1>1. /\ a \in Seq(Commits) /\ DOMAIN a = 1..(Len(h) + 1) /\ DOMAIN h = 1..Len(h)
        /\ a[Len(h) + 1] = c /\ \A i \in 1..Len(h) : a[i] = h[i]
    OBVIOUS
  <1>2. Len(h) \in Nat
    OBVIOUS
  <1> HIDE DEF a
  <1>3. InHistory(a) = InHistory(h) \cup c.holds
    BY <1>1, <1>2 DEF InHistory
  <1> QED
    BY <1>1, <1>3 DEF a

LEMMA HistoryPrefix ==
  ASSUME NEW s \in Seq(Commits), NEW t \in Seq(Commits), IsPrefix(s, t)
  PROVE  InHistory(s) \subseteq InHistory(t)
  BY DEF InHistory, IsPrefix

\* What a push, a commit, a write and a reset make of a clone.
LEMMA PushedOK ==
  ASSUME NEW c \in CloneRecord, CanPush(c)
  PROVE  /\ Pushed(c) \in CloneRecord /\ Pushed(c).tree = c.tree /\ Pushed(c).head = c.head
         /\ Pushed(c).remote = c.head /\ InHistory(c.remote) \subseteq InHistory(c.head)
  BY HistoryPrefix DEF CanPush, Pushed, CloneRecord

LEMMA CommittedOK ==
  ASSUME NEW c \in CloneRecord, NEW by \in Authors, NEW run \in 0..MaxRuns
  PROVE  /\ Committed(c, by, run) \in CloneRecord /\ Committed(c, by, run).tree = {}
         /\ Committed(c, by, run).remote = c.remote
         /\ InHistory(Committed(c, by, run).head) = InHistory(c.head) \cup c.tree
         /\ \E m \in Commits : Committed(c, by, run).head = Append(c.head, m) /\ m.holds = c.tree
  <1> DEFINE m == [by |-> by, run |-> run, holds |-> c.tree]
  <1>1. m \in Commits /\ m.holds = c.tree /\ c.head \in Seq(Commits)
    BY DEF Commits, CloneRecord
  <1>2. Committed(c, by, run) = [c EXCEPT !.tree = {}, !.head = Append(c.head, m)]
    BY DEF Committed
  <1> HIDE DEF m
  <1>3. /\ Append(c.head, m) \in Seq(Commits)
        /\ InHistory(Append(c.head, m)) = InHistory(c.head) \cup m.holds
    BY <1>1, HistoryAppend
  <1>4. /\ Committed(c, by, run) \in CloneRecord /\ Committed(c, by, run).tree = {}
        /\ Committed(c, by, run).remote = c.remote
        /\ Committed(c, by, run).head = Append(c.head, m)
    BY <1>2, <1>3 DEF CloneRecord
  <1> QED
    BY <1>1, <1>3, <1>4

LEMMA TreeMoves ==
  ASSUME NEW c \in CloneRecord, NEW t \in SUBSET Work
  PROVE  LET n == [c EXCEPT !.tree = t]
         IN  n \in CloneRecord /\ n.tree = t /\ n.head = c.head /\ n.remote = c.remote
  BY DEF CloneRecord

LEMMA ResetOK ==
  ASSUME NEW c \in CloneRecord, NEW pre \in Seq(Commits)
  PROVE  /\ Reset(c, pre) \in CloneRecord /\ Reset(c, pre).tree = {} /\ Reset(c, pre).head = pre
         /\ Reset(c, pre).remote = c.remote
  BY DEF CloneRecord, Reset

\* What CmdGoto and CmdReturn leave alone.
LEMMA CmdMoves ==
  ASSUME cmd \in CommandRecord, NEW at \in CmdLabels, CmdGoto(at)
  PROVE  /\ cmd' \in CommandRecord /\ cmd'.at = at /\ cmd'.kind = cmd.kind
         /\ cmd'.noPush = cmd.noPush /\ cmd'.tls = cmd.tls /\ cmd'.pre = cmd.pre
         /\ cmd'.resuming = cmd.resuming /\ cmd'.rotated = cmd.rotated /\ cmd'.result = cmd.result
  BY DEF CmdGoto, CommandRecord

LEMMA CmdEnds ==
  ASSUME cmd \in CommandRecord, NEW result \in CmdResults, CmdReturns(result)
  PROVE  /\ cmd' \in CommandRecord /\ cmd'.at = "ended" /\ cmd'.kind = cmd.kind
         /\ cmd'.noPush = cmd.noPush /\ cmd'.tls = cmd.tls /\ cmd'.result = result
  BY DEF CmdReturns, CommandRecord, CmdLabels

\* A step of a command that ends it, or leaves it at a label with its options.
LEMMA StepOK ==
  ASSUME FleetInv, clone' \in CloneRecord, cmd' \in CommandRecord,
         runs' \in 0..MaxRuns, flux' \in BOOLEAN,
         HeadOK(clone', cmd'), TreeOK(clone', cmd'), OverlayOK(clone', cmd'),
         InHistory(clone.remote) \subseteq InHistory(clone'.remote),
         "plaintext" \notin InHistory(clone'.head) \cup InHistory(clone'.remote),
         flux' => flux \/ "overlay" \in InHistory(clone'.remote),
         cmd'.result = "ok" /\ cmd'.kind = "apply" /\ ~cmd'.noPush =>
           \/ Wanted(cmd') \subseteq InHistory(clone'.remote)
           \/ cmd = cmd'
  PROVE  FleetInv'
  <1>1. FluxHasOverlay'
    BY DEF FleetInv, FluxHasOverlay, Published, Wanted
  <1>2. NoPlaintextCommitted'
    BY DEF FleetInv, NoPlaintextCommitted, Published
  <1> QED
    BY <1>1, <1>2 DEF FleetInv

\* A command that ends leaves nothing to keep.
LEMMA EndedOK ==
  ASSUME NEW c, NEW k, k.at = "ended"
  PROVE  HeadOK(c, k) /\ TreeOK(c, k) /\ OverlayOK(c, k)
  BY DEF HeadOK, TreeOK, OverlayOK

\* The invariant's shapes, for the steps below.
LEMMA Types ==
  ASSUME FleetInv
  PROVE  /\ clone \in CloneRecord /\ clone.tree \in SUBSET Work /\ clone.head \in Seq(Commits)
         /\ clone.remote \in Seq(Commits) /\ cmd \in CommandRecord /\ cmd.pre \in Seq(Commits)
         /\ runs \in 0..MaxRuns /\ flux \in BOOLEAN
         /\ HeadOK(clone, cmd) /\ TreeOK(clone, cmd) /\ OverlayOK(clone, cmd)
         /\ "plaintext" \notin InHistory(clone.head)
         /\ "plaintext" \notin InHistory(clone.remote)
  BY DEF FleetInv, CloneRecord, CommandRecord, NoPlaintextCommitted, Published

\* A step that ends the command and touches the tree alone.
LEMMA EndsInTree ==
  ASSUME FleetInv, NEW t \in SUBSET Work, clone' = [clone EXCEPT !.tree = t] \/ clone' = clone,
         NEW result \in CmdResults \ {"ok"}, CmdReturns(result), UNCHANGED runs,
         flux' \in BOOLEAN, flux' => flux \/ "overlay" \in InHistory(clone.remote)
  PROVE  FleetInv'
  <1>1. clone' \in CloneRecord /\ clone'.head = clone.head /\ clone'.remote = clone.remote
    <2>1. CASE clone' = [clone EXCEPT !.tree = t]
      BY <2>1, Types, TreeMoves
    <2>2. CASE clone' = clone
      BY <2>2, Types
    <2> QED
      BY <2>1, <2>2
  <1>2. cmd' \in CommandRecord /\ cmd'.at = "ended" /\ cmd'.result = result
    BY Types, CmdEnds
  <1> QED
    BY <1>1, <1>2, Types, EndedOK, StepOK

\* A step to a label that touches the tree alone.
LEMMA GoesInTree ==
  ASSUME FleetInv, NEW t \in SUBSET Work, clone' = [clone EXCEPT !.tree = t] \/ (clone' = clone /\ t = clone.tree),
         NEW at \in CmdLabels, CmdGoto(at), cmd.at # "ended", UNCHANGED <<runs, flux>>,
         [tree |-> t, head |-> clone.head, remote |-> clone.remote] = clone' =>
           HeadOK(clone', cmd') /\ TreeOK(clone', cmd') /\ OverlayOK(clone', cmd')
  PROVE  FleetInv'
  <1>1. /\ clone' \in CloneRecord /\ clone'.head = clone.head /\ clone'.remote = clone.remote
        /\ clone' = [tree |-> t, head |-> clone.head, remote |-> clone.remote]
    BY Types, TreeMoves DEF CloneRecord
  <1>2. cmd' \in CommandRecord /\ cmd'.result = "none"
    BY Types, CmdMoves DEF HeadOK
  <1> QED
    BY <1>1, <1>2, Types, StepOK

\* Each step of apply.
LEMMA GateInv == ASSUME FleetInv, Gate PROVE FleetInv'
  <1>1. CASE Dirty(clone) = {} /\ CmdGoto("label")
    BY <1>1, Types, CmdMoves, GoesInTree
       DEF Gate, CmdAt, CloneKept, Dirty, CmdLabels, HeadOK, TreeOK, OverlayOK
  <1>2. CASE CmdReturns("refused")
    BY <1>2, Types, EndsInTree DEF Gate, CloneKept, CmdResults
  <1> QED
    BY <1>1, <1>2 DEF Gate

LEMMA LabelInv == ASSUME FleetInv, LabelIngressNodes PROVE FleetInv'
  <1>1. CASE CmdGoto("scaffold")
    BY <1>1, Types, CmdMoves, GoesInTree
       DEF LabelIngressNodes, CmdAt, CloneKept, CmdLabels, HeadOK, TreeOK, OverlayOK
  <1>2. CASE CmdReturns("refused")
    BY <1>2, Types, EndsInTree DEF LabelIngressNodes, CloneKept, CmdResults
  <1> QED
    BY <1>1, <1>2 DEF LabelIngressNodes

LEMMA ResumeInv == ASSUME FleetInv, ResumeOverlay PROVE FleetInv'
  <1>1. CASE CmdReturns("refused")
    BY <1>1, Types, EndsInTree DEF ResumeOverlay, CloneKept, CmdResults
  <1>2. CASE cmd' = [cmd EXCEPT !.resuming = TRUE, !.at = IF cmd.tls THEN "rotate" ELSE "push"]
    <2>1. /\ cmd' \in CommandRecord /\ cmd'.at = (IF cmd.tls THEN "rotate" ELSE "push")
          /\ cmd'.pre = cmd.pre /\ cmd'.tls = cmd.tls /\ cmd'.result = cmd.result
          /\ cmd'.kind = cmd.kind
      BY <1>2, Types DEF CommandRecord, CmdLabels
    <2>2. /\ UNCHANGED <<clone, runs, flux>> /\ cmd.at = "scaffold" /\ clone.tree = {}
          /\ "overlay" \in InHistory(clone.head) /\ clone.head = cmd.pre /\ cmd.result = "none"
      BY Types DEF ResumeOverlay, CmdAt, CloneKept, Contents, TreeOK, HeadOK
    <2>3. HeadOK(clone', cmd') /\ TreeOK(clone', cmd') /\ OverlayOK(clone', cmd')
      BY <2>1, <2>2 DEF HeadOK, TreeOK, OverlayOK, OwnHead, Wanted
    <2> QED
      BY <2>1, <2>2, <2>3, Types, StepOK
  <1> QED
    BY <1>1, <1>2 DEF ResumeOverlay

LEMMA AddClusterInv == ASSUME FleetInv, RunAddCluster PROVE FleetInv'
  <1>1. PICK wrote \in SUBSET {"overlay", "plaintext"} :
          /\ clone' = [clone EXCEPT !.tree = @ \cup wrote]
          /\ CmdGoto("cleanup") \/ (wrote = {"overlay"} /\ CmdGoto("rest"))
    BY DEF RunAddCluster
  <1>2. /\ clone' = [clone EXCEPT !.tree = wrote] /\ wrote \in SUBSET Work /\ cmd.at = "scaffold"
        /\ UNCHANGED <<runs, flux>> /\ clone.head = cmd.pre /\ cmd.result = "none"
        /\ ~cmd.resuming
    BY <1>1, Types DEF RunAddCluster, CmdAt, TreeOK, HeadOK, Work
  <1>3. PICK at \in {"cleanup", "rest"} : CmdGoto(at) /\ (at = "rest" => wrote = {"overlay"})
    BY <1>1
  <1>4. /\ cmd'.at = at /\ cmd'.pre = cmd.pre /\ cmd'.result = "none" /\ ~cmd'.resuming
    BY <1>2, <1>3, Types, CmdMoves DEF CmdLabels
  <1>6. clone'.tree = wrote /\ clone'.head = clone.head
    BY <1>2, Types, TreeMoves
  <1>5. HeadOK(clone', cmd') /\ TreeOK(clone', cmd') /\ OverlayOK(clone', cmd')
    BY <1>2, <1>3, <1>4, <1>6 DEF HeadOK, TreeOK, OverlayOK, Others
  <1> QED
    BY <1>2, <1>3, <1>5, GoesInTree DEF CmdLabels

LEMMA RestInv == ASSUME FleetInv, ScaffoldRest PROVE FleetInv'
  <1> DEFINE wanted == {"depot"} \cup (IF cmd.tls THEN {"tls"} ELSE {})
  <1>1. PICK wrote \in SUBSET wanted, at \in {"commit", "cleanup"} :
          /\ clone' = [clone EXCEPT !.tree = @ \cup (wrote \ InHistory(clone.head))]
          /\ CmdGoto(at) /\ (at = "commit" => wrote = wanted)
    <2>1. wanted \in SUBSET wanted
      OBVIOUS
    <2> QED
      BY <2>1 DEF ScaffoldRest
  <1> DEFINE t == {"overlay"} \cup (wrote \ InHistory(clone.head))
  <1>2. /\ clone' = [clone EXCEPT !.tree = t] /\ t \in SUBSET Work /\ cmd.at = "rest"
        /\ UNCHANGED <<runs, flux>> /\ clone.head = cmd.pre /\ cmd.result = "none"
        /\ ~cmd.resuming
    BY <1>1, Types DEF ScaffoldRest, CmdAt, TreeOK, HeadOK, Work
  <1>3. /\ cmd'.at = at /\ cmd'.pre = cmd.pre /\ cmd'.result = "none" /\ cmd'.tls = cmd.tls
        /\ ~cmd'.resuming
    BY <1>1, <1>2, Types, CmdMoves DEF CmdLabels
  <1>7. clone'.tree = t /\ clone'.head = clone.head
    <2> HIDE DEF t
    <2> QED
      BY <1>2, Types, TreeMoves
  <1>4. at = "commit" => Wanted(cmd') \subseteq t \cup InHistory(clone.head)
    BY <1>1, <1>3 DEF Wanted
  <1>5. t \subseteq {"overlay", "depot", "tls"}
    OBVIOUS
  <1> HIDE DEF t, wanted
  <1>6. HeadOK(clone', cmd') /\ TreeOK(clone', cmd') /\ OverlayOK(clone', cmd')
    BY <1>2, <1>3, <1>4, <1>5, <1>7 DEF HeadOK, TreeOK, OverlayOK, Others
  <1> QED
    BY <1>1, <1>2, <1>6, GoesInTree DEF CmdLabels

LEMMA RemoveInv == ASSUME FleetInv, RemoveClusterDir PROVE FleetInv'
  <1> DEFINE t == (clone.tree \ ClusterDir) \cup (ClusterDir \cap InHistory(clone.head))
  <1>1. t \in SUBSET Work
    BY Types DEF ClusterDir, Work
  <1>2. /\ clone' = [clone EXCEPT !.tree = t] \/ clone' = clone
        /\ UNCHANGED <<runs, flux>> /\ CmdReturns("failed") /\ "failed" \in CmdResults \ {"ok"}
    BY DEF RemoveClusterDir, CmdResults
  <1> HIDE DEF t
  <1> QED
    BY <1>1, <1>2, Types, EndsInTree

LEMMA RotateInv == ASSUME FleetInv, RotateTLS PROVE FleetInv'
  <1>1. ASSUME NEW wrote \in SUBSET ({"tls", "plaintext"} \ InHistory(clone.head)),
               clone' = [clone EXCEPT !.tree = @ \cup wrote], CmdReturns("failed")
        PROVE  FleetInv'
    <2>1. clone.tree \cup wrote \in SUBSET Work /\ "failed" \in CmdResults \ {"ok"}
      BY Types DEF Work, CmdResults
    <2> QED
      BY <1>1, <2>1, Types, EndsInTree DEF RotateTLS
  <1>2. CASE /\ clone' = [clone EXCEPT !.tree = @ \cup ({"tls"} \ InHistory(clone.head))]
             /\ CmdGoto("rotateCommit")
    <2> DEFINE t == {"tls"} \ InHistory(clone.head)
    <2>1. /\ clone' = [clone EXCEPT !.tree = t] /\ t \in SUBSET Work /\ cmd.at = "rotate"
          /\ UNCHANGED <<runs, flux>> /\ clone.head = cmd.pre /\ cmd.result = "none"
          /\ "overlay" \in InHistory(clone.head)
      BY <1>2, Types DEF RotateTLS, CmdAt, TreeOK, HeadOK, OverlayOK, Work
    <2>2. cmd'.at = "rotateCommit" /\ cmd'.pre = cmd.pre /\ cmd'.result = "none"
      BY <1>2, <2>1, Types, CmdMoves DEF CmdLabels
    <2>3. t \subseteq {"tls"} /\ Wanted(cmd') \subseteq t \cup InHistory(clone.head)
      BY <2>1 DEF Wanted
    <2> HIDE DEF t
    <2>5. clone'.tree = t /\ clone'.head = clone.head
      BY <2>1, Types, TreeMoves
    <2>4. HeadOK(clone', cmd') /\ TreeOK(clone', cmd') /\ OverlayOK(clone', cmd')
      BY <2>1, <2>2, <2>3, <2>5 DEF HeadOK, TreeOK, OverlayOK
    <2> QED
      BY <1>2, <2>1, <2>4, GoesInTree DEF CmdLabels
  <1> QED
    BY <1>1, <1>2 DEF RotateTLS

LEMMA ApplyCommits ==
  ASSUME FleetInv, clone' = Committed(clone, "apply", runs)
  PROVE  /\ clone' \in CloneRecord /\ clone'.tree = {} /\ clone'.remote = clone.remote
         /\ InHistory(clone'.head) = InHistory(clone.head) \cup clone.tree
         /\ \E m \in Commits : clone'.head = Append(clone.head, m) /\ m.holds = clone.tree
  <1>1. "apply" \in Authors
    BY DEF Authors
  <1>2. clone \in CloneRecord /\ runs \in 0..MaxRuns
    BY Types
  <1> QED
    BY <1>1, <1>2, CommittedOK

LEMMA CommitRotationInv == ASSUME FleetInv, CommitRotation PROVE FleetInv'
  <1>1. /\ cmd.at = "rotateCommit" /\ UNCHANGED <<runs, flux>> /\ clone.tree \subseteq {"tls"}
        /\ Wanted(cmd) \subseteq clone.tree \cup InHistory(clone.head) /\ clone.head = cmd.pre
        /\ cmd.result = "none"
    BY Types DEF CommitRotation, CmdAt, TreeOK, OverlayOK, HeadOK
  <1>2. CASE Dirty(clone) = {} /\ CmdGoto("push") /\ UNCHANGED clone
    <2>1. /\ cmd' \in CommandRecord /\ cmd'.at = "push" /\ cmd'.pre = cmd.pre
          /\ cmd'.tls = cmd.tls /\ cmd'.result = "none"
      BY <1>1, <1>2, Types, CmdMoves DEF CmdLabels
    <2>2. HeadOK(clone', cmd') /\ TreeOK(clone', cmd') /\ OverlayOK(clone', cmd')
      BY <1>1, <1>2, <2>1 DEF HeadOK, TreeOK, OverlayOK, OwnHead, Dirty, Wanted
    <2> QED
      BY <1>1, <1>2, <2>1, <2>2, Types, StepOK
  <1>3. CASE /\ clone' = Committed(clone, "apply", runs)
             /\ cmd' = [cmd EXCEPT !.rotated = TRUE, !.at = "push"]
    <2>1. /\ cmd' \in CommandRecord /\ cmd'.at = "push" /\ cmd'.pre = cmd.pre /\ cmd'.rotated
          /\ cmd'.tls = cmd.tls /\ cmd'.result = "none" /\ cmd'.kind = cmd.kind
      BY <1>1, <1>3, Types DEF CommandRecord, CmdLabels
    <2>2. /\ clone' \in CloneRecord /\ clone'.tree = {} /\ clone'.remote = clone.remote
          /\ InHistory(clone'.head) = InHistory(clone.head) \cup clone.tree
          /\ \E m \in Commits : clone'.head = Append(clone.head, m) /\ m.holds = clone.tree
      BY <1>3, ApplyCommits
    <2>3. OwnHead(clone', cmd')
      BY <1>1, <2>1, <2>2 DEF OwnHead, Others
    <2>4. HeadOK(clone', cmd') /\ TreeOK(clone', cmd') /\ OverlayOK(clone', cmd')
      BY <1>1, <2>1, <2>2, <2>3 DEF HeadOK, TreeOK, OverlayOK, Wanted
    <2> QED
      BY <1>1, <2>1, <2>2, <2>4, Types, StepOK
  <1>4. CASE CmdReturns("failed") /\ UNCHANGED clone
    BY <1>1, <1>4, Types, EndsInTree DEF CmdResults
  <1> QED
    BY <1>2, <1>3, <1>4 DEF CommitRotation

LEMMA CommitOverlayInv == ASSUME FleetInv, CommitOverlay PROVE FleetInv'
  <1>1. /\ cmd.at = "commit" /\ UNCHANGED <<runs, flux>>
        /\ clone.tree \subseteq {"overlay", "depot", "tls"}
        /\ Wanted(cmd) \subseteq clone.tree \cup InHistory(clone.head) /\ clone.head = cmd.pre
        /\ cmd.result = "none" /\ ~cmd.resuming
    BY Types DEF CommitOverlay, CmdAt, TreeOK, OverlayOK, HeadOK
  <1>2. CASE CmdGoto("reset") /\ UNCHANGED clone
    <2>1. /\ cmd' \in CommandRecord /\ cmd'.at = "reset" /\ cmd'.pre = cmd.pre
          /\ cmd'.result = "none"
      BY <1>1, <1>2, Types, CmdMoves DEF CmdLabels
    <2>2. HeadOK(clone', cmd') /\ TreeOK(clone', cmd') /\ OverlayOK(clone', cmd')
      BY <1>1, <1>2, <2>1 DEF HeadOK, TreeOK, OverlayOK, OwnHead, Others
    <2> QED
      BY <1>1, <1>2, <2>1, <2>2, Types, StepOK
  <1>3. CASE clone' = Committed(clone, "apply", runs) /\ CmdGoto("push")
    <2>1. /\ cmd' \in CommandRecord /\ cmd'.at = "push" /\ cmd'.pre = cmd.pre
          /\ cmd'.tls = cmd.tls /\ cmd'.result = "none" /\ cmd'.resuming = cmd.resuming
      BY <1>1, <1>3, Types, CmdMoves DEF CmdLabels
    <2>2. /\ clone' \in CloneRecord /\ clone'.tree = {} /\ clone'.remote = clone.remote
          /\ InHistory(clone'.head) = InHistory(clone.head) \cup clone.tree
          /\ \E m \in Commits : clone'.head = Append(clone.head, m) /\ m.holds = clone.tree
      BY <1>3, ApplyCommits
    <2>3. OwnHead(clone', cmd')
      BY <1>1, <2>1, <2>2 DEF OwnHead, Others
    <2>4. HeadOK(clone', cmd') /\ TreeOK(clone', cmd') /\ OverlayOK(clone', cmd')
      BY <1>1, <2>1, <2>2, <2>3 DEF HeadOK, TreeOK, OverlayOK, Wanted
    <2> QED
      BY <1>1, <2>1, <2>2, <2>4, Types, StepOK
  <1> QED
    BY <1>2, <1>3 DEF CommitOverlay

\* A push, or one that was refused or never reached the remote.
LEMMA PublishesOrKeeps ==
  ASSUME FleetInv, UNCHANGED clone \/ (CanPush(clone) /\ clone' = Pushed(clone))
  PROVE  /\ clone' \in CloneRecord /\ clone'.tree = clone.tree /\ clone'.head = clone.head
         /\ clone'.remote \in {clone.remote, clone.head}
         /\ InHistory(clone.remote) \subseteq InHistory(clone'.remote)
         /\ "plaintext" \notin InHistory(clone'.head) \cup InHistory(clone'.remote)
  <1>1. CASE UNCHANGED clone
    BY <1>1, Types
  <1>2. CASE CanPush(clone) /\ clone' = Pushed(clone)
    BY <1>2, Types, PushedOK
  <1> QED
    BY <1>1, <1>2

LEMMA PushInv == ASSUME FleetInv, PushOverlay PROVE FleetInv'
  <1>1. /\ cmd.at = "push" /\ UNCHANGED <<runs, flux>> /\ cmd.result = "none"
        /\ Wanted(cmd) \subseteq InHistory(clone.head)
    BY Types DEF PushOverlay, CmdAt, HeadOK, OverlayOK
  <1>2. CASE cmd.noPush /\ CmdReturns("ok") /\ UNCHANGED clone
    <2>1. cmd' \in CommandRecord /\ cmd'.at = "ended" /\ cmd'.noPush
      BY <1>2, Types, CmdEnds DEF CmdResults
    <2> QED
      BY <1>1, <1>2, <2>1, Types, EndedOK, StepOK
  <1>3. CASE CanPush(clone) /\ clone' = Pushed(clone) /\ CmdGoto("flux")
    <2>1. /\ cmd' \in CommandRecord /\ cmd'.at = "flux" /\ cmd'.tls = cmd.tls
          /\ cmd'.result = "none"
      BY <1>1, <1>3, Types, CmdMoves DEF CmdLabels
    <2>2. clone'.remote = clone.head /\ clone'.head = clone.head
      BY <1>3, Types, PushedOK
    <2>3. HeadOK(clone', cmd') /\ TreeOK(clone', cmd') /\ OverlayOK(clone', cmd')
      BY <1>1, <2>1, <2>2 DEF HeadOK, TreeOK, OverlayOK, Wanted
    <2> QED
      BY <1>1, <1>3, <2>1, <2>3, PublishesOrKeeps, Types, StepOK
  <1> QED
    BY <1>2, <1>3 DEF PushOverlay

LEMMA PushFailsInv == ASSUME FleetInv, PushFails PROVE FleetInv'
  <1>1. /\ cmd.at = "push" /\ UNCHANGED <<runs, flux>> /\ cmd.result = "none"
        /\ clone.tree = {} /\ OwnHead(clone, cmd)
        /\ UNCHANGED clone \/ (CanPush(clone) /\ clone' = Pushed(clone))
    BY Types DEF PushFails, CmdAt, HeadOK, TreeOK
  <1>2. CASE CmdReturns("failed")
    <2>1. cmd' \in CommandRecord /\ cmd'.at = "ended" /\ cmd'.result = "failed"
      BY <1>2, Types, CmdEnds DEF CmdResults
    <2> QED
      BY <1>1, <2>1, PublishesOrKeeps, Types, EndedOK, StepOK
  <1>3. CASE CmdGoto("reset")
    <2>1. /\ cmd' \in CommandRecord /\ cmd'.at = "reset" /\ cmd'.pre = cmd.pre
          /\ cmd'.result = "none"
      BY <1>1, <1>3, Types, CmdMoves DEF CmdLabels
    <2>2. clone'.tree = {} /\ clone'.head = clone.head
      BY <1>1, PublishesOrKeeps
    <2>3. HeadOK(clone', cmd') /\ TreeOK(clone', cmd') /\ OverlayOK(clone', cmd')
      BY <1>1, <2>1, <2>2 DEF HeadOK, TreeOK, OverlayOK, OwnHead
    <2> QED
      BY <1>1, <2>1, <2>3, PublishesOrKeeps, Types, StepOK
  <1> QED
    BY <1>2, <1>3 DEF PushFails

LEMMA RollBackInv == ASSUME FleetInv, RollBack PROVE FleetInv'
  <1>1. CASE UNCHANGED clone /\ CmdReturns("stuck")
    BY <1>1, Types, EndsInTree DEF RollBack, CmdResults
  <1>2. CASE CanReset(clone, cmd.pre) /\ clone' = Reset(clone, cmd.pre) /\ CmdReturns("failed")
    <2>1. cmd' \in CommandRecord /\ cmd'.at = "ended" /\ cmd'.result = "failed"
      BY <1>2, Types, CmdEnds DEF CmdResults
    <2>2. clone' \in CloneRecord /\ clone'.head = cmd.pre /\ clone'.remote = clone.remote
      BY <1>2, Types, ResetOK
    <2>3. InHistory(cmd.pre) \subseteq InHistory(clone.head)
      BY <1>2, Types, HistoryPrefix DEF CanReset
    <2> QED
      BY <2>1, <2>2, <2>3, Types, EndedOK, StepOK DEF RollBack
  <1> QED
    BY <1>1, <1>2 DEF RollBack

LEMMA FluxInv == ASSUME FleetInv, InstallFlux PROVE FleetInv'
  <1>1. /\ UNCHANGED <<clone, runs>> /\ flux' \in BOOLEAN
        /\ Wanted(cmd) \subseteq InHistory(clone.remote)
    BY Types DEF InstallFlux, CmdAt, OverlayOK
  <1>2. PICK result \in {"ok", "failed"} : CmdReturns(result)
    BY DEF InstallFlux
  <1>3. cmd' \in CommandRecord /\ cmd'.at = "ended" /\ cmd'.tls = cmd.tls
    BY <1>2, Types, CmdEnds DEF CmdResults
  <1>4. Wanted(cmd') = Wanted(cmd) /\ "overlay" \in Wanted(cmd)
    BY <1>3 DEF Wanted
  <1> QED
    BY <1>1, <1>3, <1>4, Types, EndedOK, StepOK

\* A command starts on any clone.
LEMMA StartInv ==
  ASSUME FleetInv, NEW kind \in {"apply", "keycloak"}, NEW noPush \in BOOLEAN,
         NEW tls \in BOOLEAN, StartCommand(kind, noPush, tls)
  PROVE  FleetInv'
  <1>1. UNCHANGED <<clone, flux>> /\ runs' \in 0..MaxRuns
    BY Types DEF StartCommand
  <1>2. /\ cmd' \in CommandRecord /\ cmd'.pre = clone.head /\ cmd'.result = "none"
        /\ cmd'.kind = kind /\ cmd'.at = (IF kind = "apply" THEN "gate" ELSE "script")
        /\ ~cmd'.resuming
    <2>1. NoCommand \in CommandRecord /\ NoCommand.result = "none" /\ ~NoCommand.resuming
      BY DEF NoCommand, CommandRecord, CmdLabels, CmdResults
    <2>2. {"gate", "script"} \subseteq CmdLabels
      BY DEF CmdLabels
    <2> QED
      BY <2>1, <2>2, Types DEF StartCommand, CommandRecord
  <1>3. HeadOK(clone', cmd') /\ TreeOK(clone', cmd') /\ OverlayOK(clone', cmd')
    BY <1>1, <1>2 DEF HeadOK, TreeOK, OverlayOK
  <1> QED
    BY <1>1, <1>2, <1>3, Types, StepOK

\* What the Keycloak script has done to the clone, wholly or in part.
LEMMA ScriptWrites ==
  ASSUME FleetInv, KeycloakScript
  PROVE  /\ clone' \in CloneRecord /\ clone'.remote = clone.remote
         /\ InHistory(clone'.head) \subseteq InHistory(clone.head) \cup {"oidc"}
  <1> DEFINE t == clone.tree \cup ({"oidc"} \ InHistory(clone.head))
             written == [clone EXCEPT !.tree = t]
             staged == [written EXCEPT !.tree = t \cap {"oidc"}]
             base == Committed(staged, "keycloak", runs)
             committed == [base EXCEPT !.tree = t \ {"oidc"}]
  <1>1. t \in SUBSET Work /\ "keycloak" \in Authors
    BY Types DEF Work, Authors
  <1>2. /\ written \in CloneRecord /\ written.tree = t /\ written.head = clone.head
        /\ written.remote = clone.remote
    <2> HIDE DEF t
    <2> QED
      BY <1>1, Types, TreeMoves
  <1>3. /\ staged \in CloneRecord /\ staged.tree \subseteq {"oidc"} /\ staged.head = clone.head
        /\ staged.remote = clone.remote
    <2>1. t \cap {"oidc"} \in SUBSET Work
      BY <1>1
    <2> HIDE DEF t, written
    <2> QED
      BY <1>2, <2>1, TreeMoves
  <1>4. /\ base \in CloneRecord /\ base.remote = clone.remote
        /\ InHistory(base.head) \subseteq InHistory(clone.head) \cup {"oidc"}
    <2> HIDE DEF staged
    <2>1. runs \in 0..MaxRuns
      BY Types
    <2>2. /\ base \in CloneRecord /\ base.remote = staged.remote
          /\ InHistory(base.head) = InHistory(staged.head) \cup staged.tree
      BY <1>1, <1>3, <2>1, CommittedOK
    <2> QED
      BY <1>3, <2>2
  <1>5. /\ committed \in CloneRecord /\ committed.remote = clone.remote
        /\ InHistory(committed.head) \subseteq InHistory(clone.head) \cup {"oidc"}
    <2>1. t \ {"oidc"} \in SUBSET Work
      BY <1>1
    <2> HIDE DEF base, t
    <2> QED
      BY <1>4, <2>1, TreeMoves
  <1>6. clone' \in {clone, written, committed}
    BY <1>2 DEF KeycloakScript
  <1> HIDE DEF committed, written
  <1> QED
    BY <1>2, <1>5, <1>6, Types

\* keycloak-init, the ceremony, the operator and a kill beside it.
LEMMA KeycloakInv == ASSUME FleetInv, KeycloakStep PROVE FleetInv'
  <1>1. /\ cmd.at \in {"script", "compare", "publish"} /\ cmd.kind = "keycloak"
        /\ UNCHANGED <<runs, flux>> /\ cmd.result = "none"
    BY Types DEF KeycloakStep, KeycloakScript, KeycloakCompare, KeycloakPush, CmdAt,
       CloneKept, HeadOK
  <1>2. /\ clone' \in CloneRecord /\ InHistory(clone.remote) \subseteq InHistory(clone'.remote)
        /\ "plaintext" \notin InHistory(clone'.head) \cup InHistory(clone'.remote)
    <2>1. CASE KeycloakScript
      BY <2>1, ScriptWrites, Types
    <2>2. CASE KeycloakCompare \/ KeycloakPush
      BY <2>2, PublishesOrKeeps DEF KeycloakCompare, KeycloakPush, CloneKept
    <2> QED
      BY <2>1, <2>2 DEF KeycloakStep
  <1>3. ASSUME NEW result \in {"ok", "failed"}, CmdReturns(result)
        PROVE  FleetInv'
    <2>1. cmd' \in CommandRecord /\ cmd'.at = "ended" /\ cmd'.kind = "keycloak"
      BY <1>1, <1>3, Types, CmdEnds DEF CmdResults
    <2> QED
      BY <1>1, <1>2, <2>1, Types, EndedOK, StepOK
  <1>4. ASSUME NEW at \in {"compare", "publish"}, CmdGoto(at)
        PROVE  FleetInv'
    <2>1. /\ cmd' \in CommandRecord /\ cmd'.at = at /\ cmd'.kind = "keycloak"
          /\ cmd'.result = "none"
      BY <1>1, <1>4, Types, CmdMoves DEF CmdLabels
    <2>2. HeadOK(clone', cmd') /\ TreeOK(clone', cmd') /\ OverlayOK(clone', cmd')
      BY <2>1 DEF HeadOK, TreeOK, OverlayOK
    <2> QED
      BY <1>1, <1>2, <2>1, <2>2, Types, StepOK
  <1> QED
    BY <1>3, <1>4 DEF KeycloakStep, KeycloakScript, KeycloakCompare, KeycloakPush

\* Between commands nothing but the clone moves, and no plaintext is committed.
LEMMA ElsewhereOK ==
  ASSUME FleetInv, NEW next \in CloneRecord, Elsewhere(next),
         InHistory(clone.remote) \subseteq InHistory(next.remote),
         "plaintext" \notin InHistory(next.head) \cup InHistory(next.remote)
  PROVE  FleetInv'
  <1>1. clone' = next /\ cmd.at = "ended" /\ UNCHANGED <<cmd, runs, flux>>
    BY DEF Elsewhere, CmdAt
  <1> QED
    BY <1>1, Types, EndedOK, StepOK

LEMMA SharesCommitted ==
  ASSUME NEW w \in CloneRecord
  PROVE  LET n == Committed(w, "openbao", 0) IN
         /\ n \in CloneRecord /\ n.remote = w.remote
         /\ InHistory(n.head) = InHistory(w.head) \cup w.tree
  <1>1. "openbao" \in Authors /\ 0 \in 0..MaxRuns
    BY DEF Authors
  <1> QED
    BY <1>1, CommittedOK

LEMMA SharesInv == ASSUME FleetInv, OpenbaoInit PROVE FleetInv'
  <1> DEFINE w == [clone EXCEPT !.tree = {"shares"}]
             done == Committed(w, "openbao", 0)
  <1>1. \/ Elsewhere(w) \/ Elsewhere(done)
        \/ CanPush(done) /\ Elsewhere(Pushed(done))
    BY DEF OpenbaoInit
  <1>2. w \in CloneRecord /\ w.tree = {"shares"} /\ w.head = clone.head /\ w.remote = clone.remote
    <2>1. {"shares"} \in SUBSET Work
      BY DEF Work
    <2> QED
      BY <2>1, Types, TreeMoves
  <1> HIDE DEF w
  <1>3. /\ done \in CloneRecord /\ done.remote = clone.remote
        /\ InHistory(done.head) = InHistory(clone.head) \cup {"shares"}
    BY <1>2, SharesCommitted
  <1> HIDE DEF done
  <1>4. CASE Elsewhere(w)
    BY <1>2, <1>4, Types, ElsewhereOK
  <1>5. CASE Elsewhere(done)
    BY <1>3, <1>5, Types, ElsewhereOK
  <1>6. CASE CanPush(done) /\ Elsewhere(Pushed(done))
    <2>1. /\ Pushed(done) \in CloneRecord /\ Pushed(done).head = done.head
          /\ Pushed(done).remote = done.head
          /\ InHistory(clone.remote) \subseteq InHistory(done.head)
      BY <1>3, <1>6, PushedOK
    <2> QED
      BY <1>3, <1>6, <2>1, Types, ElsewhereOK
  <1> QED
    BY <1>1, <1>4, <1>5, <1>6

LEMMA OperatorInv == ASSUME FleetInv, Operator PROVE FleetInv'
  <1>1. CASE EditNote \/ CleanByHand
    <2>1. PICK t \in SUBSET Work : Elsewhere([clone EXCEPT !.tree = t])
      BY <1>1, Types DEF EditNote, CleanByHand, Work
    <2> QED
      BY <2>1, Types, TreeMoves, ElsewhereOK
  <1>2. CASE CommitByHand
    <2>1. "operator" \in Authors /\ 0 \in 0..MaxRuns /\ "plaintext" \notin clone.tree
      BY <1>2 DEF CommitByHand, Authors, Dirty
    <2>2. /\ Committed(clone, "operator", 0) \in CloneRecord
          /\ Committed(clone, "operator", 0).remote = clone.remote
          /\ "plaintext" \notin InHistory(Committed(clone, "operator", 0).head)
      BY <2>1, Types, CommittedOK
    <2> QED
      BY <1>2, <2>2, Types, ElsewhereOK DEF CommitByHand
  <1>3. CASE PushByHand
    <2>1. CanPush(clone) /\ Elsewhere(Pushed(clone))
      BY <1>3 DEF PushByHand
    <2>2. /\ Pushed(clone) \in CloneRecord /\ Pushed(clone).head = clone.head
          /\ Pushed(clone).remote = clone.head
          /\ InHistory(clone.remote) \subseteq InHistory(clone.head)
      BY <2>1, Types, PushedOK
    <2> QED
      BY <2>1, <2>2, Types, ElsewhereOK
  <1>4. CASE PullByHand
    <2> DEFINE next == [clone EXCEPT !.head = clone.remote]
    <2>1. next \in CloneRecord /\ next.head = clone.remote /\ next.remote = clone.remote
      BY Types DEF CloneRecord
    <2>2. Elsewhere(next)
      BY <1>4 DEF PullByHand
    <2> HIDE DEF next
    <2> QED
      BY <2>1, <2>2, Types, ElsewhereOK
  <1> QED
    BY <1>1, <1>2, <1>3, <1>4 DEF Operator

LEMMA KillInv == ASSUME FleetInv, KillCommand PROVE FleetInv'
  BY Types, EndsInTree DEF KillCommand, CloneKept, CmdResults

LEMMA ApplyInv == ASSUME FleetInv, ApplyStep PROVE FleetInv'
  BY GateInv, LabelInv, ResumeInv, AddClusterInv, RestInv, RemoveInv, RotateInv,
     CommitRotationInv, CommitOverlayInv, PushInv, PushFailsInv, RollBackInv, FluxInv
  DEF ApplyStep

\* The initial states, the steps, and with them every behaviour.
LEMMA FleetInitInv == FleetInit => FleetInv
  <1> SUFFICES ASSUME FleetInit PROVE FleetInv
    OBVIOUS
  <1> DEFINE m == [by |-> "operator", run |-> 0, holds |-> {"docs"}]
  <1>1. m \in Commits /\ "plaintext" \notin m.holds
    BY DEF Commits, Authors, Work
  <1>2. Starter = <<m>>
    BY DEF Starter
  <1> HIDE DEF m
  <1>3. Starter \in Seq(Commits) /\ "plaintext" \notin InHistory(Starter)
    BY <1>1, <1>2 DEF InHistory
  <1>4. /\ clone \in CloneRecord /\ clone.head = Starter /\ clone.remote = Starter
        /\ runs \in 0..MaxRuns /\ flux = FALSE
    BY <1>3 DEF FleetInit, CloneRecord
  <1>5. cmd \in CommandRecord /\ cmd.at = "ended" /\ cmd.result = "none"
    BY DEF FleetInit, NoCommand, CommandRecord, CmdLabels, CmdResults
  <1> QED
    BY <1>3, <1>4, <1>5, EndedOK
    DEF FleetInv, FluxHasOverlay, NoPlaintextCommitted, Published

LEMMA FleetNextInv == FleetInv /\ [FleetNext]_fleetVars => FleetInv'
  <1> SUFFICES ASSUME FleetInv, [FleetNext]_fleetVars PROVE FleetInv'
    OBVIOUS
  <1>1. CASE UNCHANGED fleetVars
    BY <1>1 DEF fleetVars, FleetInv, FluxHasOverlay, NoPlaintextCommitted
  <1>2. CASE \/ \E noPush, tls \in BOOLEAN : StartCommand("apply", noPush, tls)
             \/ \E noPush \in BOOLEAN : StartCommand("keycloak", noPush, FALSE)
    BY <1>2, StartInv
  <1>3. CASE ApplyStep \/ KeycloakStep \/ KillCommand \/ OpenbaoInit \/ Operator
    BY <1>3, ApplyInv, KeycloakInv, KillInv, SharesInv, OperatorInv
  <1> QED
    BY <1>1, <1>2, <1>3 DEF FleetNext

\* Whatever runs of apply and of keycloak, other clones, the operator and kills do to
\* the clone and its remote, a run knows at each label what it will commit and push.
THEOREM FleetInvariant == FleetSpec => []FleetInv
  BY FleetInitInv, FleetNextInv, PTL DEF FleetSpec

\* Histories, trees and runs keep their shapes, at any number of commits.
THEOREM FleetTypes == FleetSpec => []FleetTypeOK
  <1>1. FleetInv => FleetTypeOK
    BY DEF FleetInv, FleetTypeOK, CloneRecord, CommandRecord
  <1> QED
    BY <1>1, FleetInvariant, PTL

\* Apply: flux-install follows a push that published the overlay, and a success without
\* --no-push has its overlay and TLS material on the remote.
THEOREM FluxIsBehind == FleetSpec => []FluxHasOverlay
  <1>1. FleetInv => FluxHasOverlay
    BY DEF FleetInv
  <1> QED
    BY <1>1, FleetInvariant, PTL

\* The scaffold's plaintext is removed or found by the gate before anything is staged,
\* so no commit of any command ever holds one.
THEOREM PlaintextStaysOut == FleetSpec => []NoPlaintextCommitted
  <1>1. FleetInv => NoPlaintextCommitted
    BY DEF FleetInv
  <1> QED
    BY <1>1, FleetInvariant, PTL

\* A running command has not returned: only its own return sets a result.
LEMMA OnlyReturnsFail ==
  ASSUME FleetInv, FleetNext, ~CmdAt("ended"), cmd.kind = "apply"
  PROVE  KillCommand \/ ApplyStep
  BY Types DEF FleetNext, StartCommand, KeycloakStep, KeycloakScript, KeycloakCompare,
     KeycloakPush, OpenbaoInit, Operator, EditNote, CommitByHand, PushByHand, PullByHand,
     CleanByHand, Elsewhere, CmdAt, HeadOK

\* RollbackAndExplain: an apply that fails before its push is certain resets HEAD to where
\* it found it, since at most one commit, its own, is on top.
THEOREM FailureIsUndone == FleetSpec => FailedApplyMovesNothing
  <1>1. ASSUME FleetInv, FleetNext, cmd.kind = "apply", ~CmdAt("ended"), cmd'.result = "failed"
        PROVE  clone'.head \in {cmd.pre, clone'.remote}
    <2>1. cmd.result = "none" /\ HeadOK(clone, cmd) /\ cmd \in CommandRecord
      BY <1>1, Types DEF HeadOK, CmdAt
    <2>2. ~(\E at \in CmdLabels : CmdGoto(at))
      BY <1>1, <2>1, CmdMoves
    <2>3. ~(\E result \in CmdResults \ {"failed"} : CmdReturns(result))
      BY <1>1, <2>1, CmdEnds
    <2>4. CASE RemoveClusterDir
      <3>1. cmd.at = "cleanup" /\ clone'.head = clone.head
        BY <2>4, <1>1, Types DEF RemoveClusterDir, CmdAt, CloneRecord
      <3> QED
        BY <2>1, <3>1 DEF HeadOK
    <2>5. CASE RotateTLS
      <3>1. cmd.at = "rotate" /\ clone'.head = clone.head
        BY <2>5, <1>1, Types DEF RotateTLS, CmdAt, CloneRecord
      <3> QED
        BY <2>1, <3>1 DEF HeadOK
    <2>6. CASE CommitRotation
      <3>1. cmd.at = "rotateCommit" /\ (UNCHANGED clone \/ cmd' = [cmd EXCEPT !.rotated = TRUE, !.at = "push"])
        BY <2>6 DEF CommitRotation, CmdAt
      <3>2. cmd' # [cmd EXCEPT !.rotated = TRUE, !.at = "push"]
        BY <1>1, <2>1 DEF CommandRecord
      <3> QED
        BY <2>1, <3>1, <3>2 DEF HeadOK
    <2>7. CASE PushFails
      <3>1. cmd.at = "push" /\ cmd.resuming /\ ~cmd.rotated
        BY <2>7, <2>2 DEF PushFails, CmdAt, CmdLabels
      <3>2. clone'.head = clone.head
        BY <1>1, <2>7, PublishesOrKeeps DEF PushFails
      <3> QED
        BY <2>1, <3>1, <3>2 DEF HeadOK
    <2>8. CASE RollBack
      <3>1. clone' = Reset(clone, cmd.pre)
        BY <2>8, <2>3 DEF RollBack, CmdResults
      <3> QED
        BY <1>1, <3>1, Types, ResetOK
    <2>9. CASE InstallFlux
      BY <2>1, <2>9 DEF InstallFlux, HeadOK, CmdAt
    <2>10. ~(Gate \/ LabelIngressNodes \/ RunAddCluster \/ ScaffoldRest \/ CommitOverlay \/ PushOverlay \/ KillCommand)
      BY <2>2, <2>3 DEF Gate, LabelIngressNodes, RunAddCluster, ScaffoldRest, CommitOverlay,
         PushOverlay, KillCommand, CmdLabels, CmdResults
    <2>11. ~ResumeOverlay
      <3>1. cmd' # [cmd EXCEPT !.resuming = TRUE, !.at = IF cmd.tls THEN "rotate" ELSE "push"]
        BY <1>1, <2>1 DEF CommandRecord
      <3> QED
        BY <2>3, <3>1 DEF ResumeOverlay, CmdResults
    <2> QED
      BY <1>1, <2>4, <2>5, <2>6, <2>7, <2>8, <2>9, <2>10, <2>11, OnlyReturnsFail
         DEF ApplyStep
  <1>2. ASSUME UNCHANGED fleetVars, FleetInv, ~CmdAt("ended") PROVE cmd'.result # "failed"
    BY <1>2, Types DEF fleetVars, HeadOK, CmdAt
  <1>3. FleetInv /\ [FleetNext]_fleetVars =>
          [cmd.kind = "apply" /\ ~CmdAt("ended") /\ cmd'.result = "failed"
             => clone'.head \in {cmd.pre, clone'.remote}]_fleetVars
    BY <1>1, <1>2
  <1> QED
    BY <1>3, FleetInvariant, PTL DEF FleetSpec, FailedApplyMovesNothing

\* A step that keeps HEAD and what others have in the tree keeps their work.
LEMMA WorkStays ==
  ASSUME clone'.head = clone.head, Others \cap clone.tree \subseteq clone'.tree
  PROVE  Others \cap Contents(clone) \subseteq Contents(clone')
  BY DEF Contents

\* git add by pathspec and reset to the saved head: no step of apply loses what others
\* have in the clone.
THEOREM WorkIsKept == FleetSpec => OthersWorkKept
  <1>1. ASSUME FleetInv, FleetNext, cmd.kind = "apply", ~CmdAt("ended")
        PROVE  Others \cap Contents(clone) \subseteq Contents(clone')
    <2>1. CASE UNCHANGED clone
      BY <2>1, WorkStays
    <2>2. CASE \E t \in SUBSET Work : clone' = [clone EXCEPT !.tree = clone.tree \cup t]
      <3>1. PICK t \in SUBSET Work : clone' = [clone EXCEPT !.tree = clone.tree \cup t]
        BY <2>2
      <3>2. clone.tree \cup t \in SUBSET Work
        BY <1>1, Types
      <3>3. clone'.head = clone.head /\ clone'.tree = clone.tree \cup t
        BY <1>1, <3>1, <3>2, Types, TreeMoves
      <3> QED
        BY <3>3, WorkStays
    <2>3. CASE RemoveClusterDir
      <3>1. clone'.head = clone.head /\ clone.tree \cap Others = {}
        BY <2>3, <1>1, Types DEF RemoveClusterDir, CmdAt, CloneRecord, TreeOK
      <3> QED
        BY <3>1, WorkStays
    <2>4. CASE clone' = Committed(clone, "apply", runs)
      <3>1. InHistory(clone'.head) = InHistory(clone.head) \cup clone.tree
        BY <1>1, <2>4, ApplyCommits
      <3> QED
        BY <3>1 DEF Contents
    <2>5. CASE clone' = Pushed(clone)
      BY <1>1, <2>5, Types, WorkStays DEF Pushed, CloneRecord
    <2>6. CASE RollBack /\ clone' = Reset(clone, cmd.pre)
      <3>1. clone.tree \cap Others = {} /\ OwnHead(clone, cmd) /\ clone'.head = cmd.pre
        BY <1>1, <2>6, Types, ResetOK DEF RollBack, CmdAt, TreeOK, HeadOK
      <3>2. Others \cap InHistory(clone.head) \subseteq InHistory(cmd.pre)
        <4>1. CASE clone.head = cmd.pre
          BY <4>1
        <4>2. ASSUME NEW m \in Commits, clone.head = Append(cmd.pre, m), m.holds \cap Others = {}
              PROVE  Others \cap InHistory(clone.head) \subseteq InHistory(cmd.pre)
          <5>1. InHistory(clone.head) = InHistory(cmd.pre) \cup m.holds
            BY <1>1, <4>2, Types, HistoryAppend
          <5> QED
            BY <4>2, <5>1
        <4> QED
          BY <3>1, <4>1, <4>2 DEF OwnHead
      <3> QED
        BY <3>1, <3>2 DEF Contents
    <2>7. CASE RunAddCluster \/ ScaffoldRest \/ RotateTLS
      <3>1. \E t \in SUBSET Work : clone' = [clone EXCEPT !.tree = clone.tree \cup t]
        <4>1. {"overlay", "plaintext", "depot", "tls"} \in SUBSET Work
          BY DEF Work
        <4> QED
          BY <2>7, <4>1 DEF RunAddCluster, ScaffoldRest, RotateTLS
      <3> QED
        BY <2>2, <3>1
    <2> QED
      BY <1>1, <2>1, <2>3, <2>4, <2>5, <2>6, <2>7, OnlyReturnsFail
      DEF ApplyStep, Gate, LabelIngressNodes, ResumeOverlay, CommitRotation, CommitOverlay,
          PushOverlay, PushFails, RollBack, InstallFlux, KillCommand, CloneKept
  <1>2. FleetInv /\ [FleetNext]_fleetVars =>
          [cmd.kind = "apply" /\ ~CmdAt("ended")
             => Others \cap Contents(clone) \subseteq Contents(clone')]_fleetVars
    BY <1>1
  <1> QED
    BY <1>2, FleetInvariant, PTL DEF FleetSpec, OthersWorkKept

HIDE FleetAssumption

-----------------------------------------------------------------------------
(*****************************************************************************)
(* FleetStarter, for any artifact versions, any number of runs and kills, and a*)
(* tag that moves at any time.                                               *)
(*                                                                           *)
(* The argument: entries are promoted from one verified pull, in order, into a*)
(* directory without starter trees, so those before the next one are its     *)
(* artifact's and those after it are missing (Promoted); and HEAD is behind a*)
(* .gitignore that names the key before the key is there (KeyKept).          *)
(*****************************************************************************)

\* Trees that pass for the starter's are of one artifact, wherever a run stopped.
OneArtifact(d) ==
  \A t, u \in Trees : d[t] \in Versions \cup {"checkout"} /\ d[u] \in Versions \cup {"checkout"}
                        => d[t] = d[u]

\* The tree at place i is promoted once next is beyond it.
Promoted ==
  /\ engine.next <= Len(Promotion)
  /\ \A t \in Trees : dir[t] \in {"none", engine.got}
  /\ \A i \in DOMAIN Promotion :
       Promotion[i] \in Trees /\ i < engine.next => dir[Promotion[i]] = engine.got

Late == {"ignore", "init", "commit", "key", "recipients", "enrol", "gate", "scaffold"}

TreesKept ==
  /\ OneArtifact(dir)
  /\ engine.at \in {"inspect", "pull"} => engine.next = 1
  /\ EngineAt("pull") => \A t \in Trees : dir[t] = "none"
  /\ EngineAt("promote") => Promoted
  /\ engine.at \in Late => ShapePresent(dir)
  /\ (\E t \in Trees : headTree[t] \in Versions) => \A t, u \in Trees : headTree[t] = headTree[u]

\* The key is younger than the first commit, and a later commit is behind a .gitignore
\* that names it.
KeyKept ==
  /\ key => gitDir = "born"
  /\ engine.at \in {"init", "commit", "scaffold"} => ignores \/ ~key
  /\ engine.at \in {"key", "recipients", "enrol", "gate", "scaffold"} => gitDir = "born"
  /\ ~keyInHead

StarterInv == StarterTypeOK /\ TreesKept /\ KeyKept

USE StarterAssumption DEF repoVars, gitVars, keyVars

EngineRecord == [at : EngineLabels, ref : Versions \cup {MutableTag}, got : Versions,
                 next : 1..Len(Promotion) + 1, result : {"none", "ok", "failed", "refused"}]

LEMMA Places ==
  /\ Len(Promotion) = 7 /\ DOMAIN Promotion = 1..7
  /\ Promotion[1] = "gitignore" /\ Promotion[2] = "version" /\ Promotion[3] = "readme"
  /\ Promotion[4] = "addons" /\ Promotion[5] = "bootstrap" /\ Promotion[6] = "clusters"
  /\ Promotion[7] = "scripts"
  BY DEF Promotion

LEMMA EntryNames ==
  /\ Entries = {"gitignore", "version", "readme", "addons", "bootstrap", "clusters", "scripts"}
  /\ Trees \subseteq Entries /\ StarterOwned = Trees \cup {"version"}
  BY Places DEF Entries, Trees, StarterOwned

LEMMA EngineTypes ==
  ASSUME engine \in EngineRecord, NEW at \in EngineLabels, NEW result \in {"none", "ok", "failed", "refused"},
         EngineGoto(at) \/ (at = "ended" /\ EngineReturns(result))
  PROVE  /\ engine' \in EngineRecord /\ engine'.at = at /\ engine'.got = engine.got
         /\ engine'.next = engine.next
  BY DEF EngineGoto, EngineReturns, EngineRecord
LEMMA StarterTypes ==
  StarterTypeOK <=>
    /\ dir \in [Entries -> Owners] /\ headTree \in [Entries -> Owners]
    /\ gitDir \in {"none", "unborn", "born"} /\ tag \in Versions
    /\ ignores \in BOOLEAN /\ stranger \in BOOLEAN /\ keyInHead \in BOOLEAN
    /\ key \in BOOLEAN /\ enrolled \in BOOLEAN /\ enrolledHead \in BOOLEAN
    /\ engine \in EngineRecord /\ starts \in 0..MaxStarts
  BY DEF StarterTypeOK, EngineRecord

LEMMA StarterTypesNext ==
  ASSUME dir' \in [Entries -> Owners], headTree' \in [Entries -> Owners],
         gitDir' \in {"none", "unborn", "born"}, tag' \in Versions,
         ignores' \in BOOLEAN, stranger' \in BOOLEAN, keyInHead' \in BOOLEAN,
         key' \in BOOLEAN, enrolled' \in BOOLEAN, enrolledHead' \in BOOLEAN,
         engine' \in EngineRecord, starts' \in 0..MaxStarts
  PROVE  StarterTypeOK'
  BY DEF StarterTypeOK, EngineRecord

LEMMA TreesStay ==
  ASSUME TreesKept, UNCHANGED <<dir, headTree>>,
         engine'.at = "ended" \/ (engine.at \in Late /\ engine'.at \in Late)
  PROVE  TreesKept'
  BY DEF TreesKept, EngineAt, Late

LEMMA StarterTypeStep == ASSUME StarterTypeOK, TreesKept, StarterNext PROVE StarterTypeOK'
  <1>1. CASE StartEngine
    <2>1. PICK ref \in {tag, MutableTag} :
            engine' = [engine EXCEPT !.at = "inspect", !.ref = ref, !.next = 1, !.result = "none"]
      BY <1>1 DEF StartEngine
    <2>2. engine' \in EngineRecord
      <3>1. engine \in EngineRecord /\ ref \in Versions \cup {MutableTag}
        BY <2>1, StarterTypes
      <3>2. 1 \in 1..Len(Promotion) + 1 /\ "inspect" \in EngineLabels
        BY Places DEF EngineLabels
      <3> QED
        BY <2>1, <3>1, <3>2 DEF EngineRecord
    <2> QED
      BY <1>1, <2>2, StarterTypes, StarterTypesNext DEF StartEngine
  <1>2. CASE SkipPull
    BY <1>2 DEF SkipPull, EngineGoto, EngineLabels, StarterTypeOK
  <1>3. CASE RefusePopulated
    BY <1>3 DEF RefusePopulated, EngineReturns, EngineLabels, StarterTypeOK
  <1>4. CASE CleanLeftovers
    <2>1. PICK gone \in SUBSET StarterOwned :
            /\ dir' = [e \in Entries |-> IF e \in gone THEN "none" ELSE dir[e]]
            /\ EngineGoto("pull") \/ EngineReturns("failed")
      BY <1>4 DEF CleanLeftovers
    <2>2. dir' \in [Entries -> Owners]
      BY <2>1, StarterTypes DEF Owners
    <2>3. engine' \in EngineRecord
      BY <2>1, StarterTypes, EngineTypes DEF EngineLabels
    <2> QED
      BY <1>4, <2>2, <2>3, StarterTypes, StarterTypesNext DEF CleanLeftovers
  <1>5. CASE PullArtifact
    BY <1>5 DEF PullArtifact, EngineReturns, EngineLabels, StarterTypeOK
  <1>6. CASE PromoteEntry
    <2>1. engine.got \in Owners /\ engine.next \in 1..8 /\ engine \in EngineRecord
      BY Places, StarterTypes DEF EngineRecord, Owners
    <2>2. dir' \in [Entries -> Owners]
      <3>1. dir \in [Entries -> Owners]
        BY StarterTypes
      <3>2. PICK e : dir' = [dir EXCEPT ![e] = IF @ = "none" THEN engine.got ELSE @]
        BY <1>6 DEF PromoteEntry
      <3> QED
        BY <2>1, <3>1, <3>2
    <2>3. ignores' \in BOOLEAN
      BY <1>6, StarterTypes DEF PromoteEntry, Merged
    <2>4. engine' \in EngineRecord
      <3>1. engine.at = "promote" /\ engine.next \in 1..7
        BY <1>6, <2>1, Places DEF PromoteEntry, TreesKept, Promoted, EngineAt
      <3>2. PICK at \in EngineLabels :
              engine' = [engine EXCEPT !.next = engine.next + 1, !.at = at]
        BY <1>6 DEF PromoteEntry, EngineLabels
      <3>3. engine.next + 1 \in 1..Len(Promotion) + 1
        BY <3>1, Places
      <3> QED
        BY <2>1, <3>2, <3>3 DEF EngineRecord
    <2> QED
      BY <1>6, <2>2, <2>3, <2>4, StarterTypes, StarterTypesNext DEF PromoteEntry
  <1>7. CASE CheckIgnore
    BY <1>7, Places DEF CheckIgnore, EngineGoto, EngineReturns, EngineLabels,
       StarterTypeOK
  <1>8. CASE GitInit
    BY <1>8 DEF GitInit, EngineGoto, EngineLabels, StarterTypeOK
  <1>9. CASE CommitStarter
    BY <1>9 DEF CommitStarter, EngineGoto, CommitAll, EngineLabels, StarterTypeOK
  <1>10. CASE UseKey
    BY <1>10, Places DEF UseKey, EngineGoto, EngineReturns, EngineLabels, StarterTypeOK
  <1>11. CASE GenerateKey
    BY <1>11 DEF GenerateKey, EngineGoto, EngineLabels, StarterTypeOK
  <1>12. CASE WriteRecipients
    BY <1>12 DEF WriteRecipients, EngineGoto, EngineLabels, StarterTypeOK
  <1>13. CASE CommitEnrolment
    BY <1>13 DEF CommitEnrolment, EngineGoto, EngineLabels, StarterTypeOK
  <1>14. CASE CleanTreeGate
    BY <1>14, Places DEF CleanTreeGate, EngineGoto, EngineReturns, EngineLabels,
       StarterTypeOK
  <1>15. CASE CommitScaffold
    BY <1>15 DEF CommitScaffold, EngineReturns, CommitAll, EngineLabels, StarterTypeOK
  <1>16. CASE EngineFails
    BY <1>16 DEF EngineFails, EngineReturns, EngineLabels, StarterTypeOK
  <1>17. CASE MoveTag
    BY <1>17 DEF MoveTag, StarterTypeOK
  <1>18. CASE CommitRecipientsByHand
    BY <1>18 DEF CommitRecipientsByHand, StarterTypeOK
  <1> QED
    BY <1>1, <1>2, <1>3, <1>4, <1>5, <1>6, <1>7, <1>8, <1>9, <1>10, <1>11, <1>12, <1>13,
       <1>14, <1>15, <1>16, <1>17, <1>18 DEF StarterNext

LEMMA TreesStep == ASSUME StarterTypeOK, TreesKept, StarterNext PROVE TreesKept'
  <1>1. CASE StartEngine
    BY <1>1 DEF StartEngine, EngineAt, TreesKept, Late
  <1>2. CASE SkipPull
    BY <1>2 DEF SkipPull, EngineAt, EngineGoto, StarterTypeOK, TreesKept
  <1>3. CASE RefusePopulated
    BY <1>3 DEF RefusePopulated, EngineAt, EngineReturns, TreesKept, Late
  <1>4. CASE CleanLeftovers
    <2>1. PICK gone \in SUBSET StarterOwned :
            /\ dir' = [e \in Entries |-> IF e \in gone THEN "none" ELSE dir[e]]
            /\ (gone = StarterOwned /\ EngineGoto("pull")) \/ EngineReturns("failed")
      BY <1>4 DEF CleanLeftovers
    <2>2. \A t \in Trees : dir'[t] = IF t \in gone THEN "none" ELSE dir[t]
      BY <2>1, EntryNames
    <2>3. OneArtifact(dir)'
      BY <2>2 DEF TreesKept, OneArtifact
    <2>4. UNCHANGED headTree /\ engine'.at \in {"pull", "ended"}
      BY <1>4, <2>1, StarterTypes, EngineTypes DEF CleanLeftovers, EngineLabels
    <2>5. engine'.at = "pull" => gone = StarterOwned
      BY <2>1, StarterTypes, EngineTypes DEF EngineLabels
    <2>6. engine'.next = engine.next
      BY <2>1, StarterTypes, EngineTypes DEF EngineLabels
    <2> QED
      BY <1>4, <2>2, <2>3, <2>4, <2>5, <2>6, EntryNames DEF TreesKept, EngineAt, Late,
         CleanLeftovers
  <1>5. CASE PullArtifact
    <2>1. UNCHANGED <<dir, headTree>> /\ engine.at = "pull" /\ engine \in EngineRecord
      BY <1>5, StarterTypes DEF PullArtifact, EngineAt
    <2>2. ASSUME NEW v \in Versions, engine' = [engine EXCEPT !.at = "promote", !.got = v]
          PROVE  TreesKept'
      <3>1. \A t \in Trees : dir[t] = "none"
        BY <2>1 DEF TreesKept, EngineAt
      <3>2. engine.next = 1
        BY <2>1 DEF TreesKept
      <3>3. engine'.at = "promote" /\ engine'.next = 1
        BY <2>1, <2>2, <3>2 DEF EngineRecord
      <3>4. Promoted'
        BY <2>1, <3>1, <3>3, Places DEF Promoted
      <3> QED
        BY <2>1, <3>3, <3>4 DEF TreesKept, EngineAt, Late
    <2>3. CASE EngineReturns("failed")
      BY <2>1, <2>3, TreesStay, EngineTypes DEF EngineLabels
    <2>4. (IF engine.ref = MutableTag THEN tag ELSE engine.ref) \in Versions
      BY <2>1, StarterTypes DEF EngineRecord
    <2> QED
      BY <1>5, <2>2, <2>3, <2>4 DEF PullArtifact
  <1>6. CASE PromoteEntry
    <2> DEFINE n == engine.next
               e == Promotion[n]
    <2>1. /\ engine \in EngineRecord /\ n \in 1..7 /\ engine.got \in Versions
          /\ UNCHANGED headTree /\ dir \in [Entries -> Owners] /\ e \in Entries
      BY <1>6, StarterTypes, Places, EntryNames DEF PromoteEntry, TreesKept, Promoted,
         EngineRecord
    <2>2. /\ e \in Trees => dir[e] = "none"
          /\ dir'[e] = IF dir[e] = "none" THEN engine.got ELSE dir[e]
          /\ \A f \in Entries \ {e} : dir'[f] = dir[f]
      BY <1>6, <2>1 DEF PromoteEntry, Trees
    <2>3. /\ engine'.got = engine.got /\ engine'.next = n + 1
          /\ engine'.at = IF n < 7 THEN "promote" ELSE "ignore"
      BY <1>6, <2>1, Places DEF PromoteEntry, EngineAt
    <2>4. /\ \A t \in Trees : dir'[t] \in {"none", engine.got}
          /\ \A i \in 1..7 : Promotion[i] \in Trees /\ i < n + 1 => dir'[Promotion[i]] = engine.got
      BY <1>6, <2>1, <2>2, Places DEF TreesKept, Promoted, PromoteEntry
    <2>5. OneArtifact(dir)'
      BY <2>1, <2>4 DEF OneArtifact
    <2>6. n < 7 => Promoted'
      BY <2>1, <2>3, <2>4, Places DEF Promoted
    <2>7. n = 7 => ShapePresent(dir)'
      BY <2>1, <2>4, Places DEF ShapePresent, Trees
    <2> QED
      BY <2>1, <2>3, <2>5, <2>6, <2>7 DEF TreesKept, EngineAt, Late
  <1>7. CASE CheckIgnore
    BY <1>7, StarterTypes, EngineTypes, TreesStay DEF CheckIgnore, EngineAt,
       EngineLabels, Late
  <1>8. CASE GitInit
    BY <1>8, StarterTypes, EngineTypes, TreesStay DEF GitInit, EngineAt, EngineLabels,
       Late
  <1>9. CASE CommitStarter
    BY <1>9 DEF CommitStarter, EngineAt, EngineGoto, CommitAll, TreesKept, OneArtifact,
       ShapePresent, Late
  <1>10. CASE UseKey
    BY <1>10, StarterTypes, EngineTypes, TreesStay DEF UseKey, EngineAt, EngineLabels,
       Late
  <1>11. CASE GenerateKey
    BY <1>11, StarterTypes, EngineTypes, TreesStay DEF GenerateKey, EngineAt,
       EngineLabels, Late
  <1>12. CASE WriteRecipients
    BY <1>12, StarterTypes, EngineTypes, TreesStay DEF WriteRecipients, EngineAt,
       EngineLabels, Late
  <1>13. CASE CommitEnrolment
    BY <1>13, StarterTypes, EngineTypes, TreesStay DEF CommitEnrolment, EngineAt,
       EngineLabels, Late
  <1>14. CASE CleanTreeGate
    BY <1>14, StarterTypes, EngineTypes, TreesStay DEF CleanTreeGate, EngineAt,
       EngineLabels, Late
  <1>15. CASE CommitScaffold
    BY <1>15 DEF CommitScaffold, EngineAt, EngineReturns, CommitAll, TreesKept,
       OneArtifact, ShapePresent, Late
  <1>16. CASE EngineFails
    BY <1>16 DEF EngineFails, EngineAt, EngineReturns, TreesKept, Late
  <1>17. CASE MoveTag
    BY <1>17 DEF MoveTag, EngineAt, TreesKept, Promoted
  <1>18. CASE CommitRecipientsByHand
    BY <1>18 DEF CommitRecipientsByHand, EngineAt, TreesKept
  <1> QED
    BY <1>1, <1>2, <1>3, <1>4, <1>5, <1>6, <1>7, <1>8, <1>9, <1>10, <1>11, <1>12, <1>13,
       <1>14, <1>15, <1>16, <1>17, <1>18 DEF StarterNext

LEMMA KeyStep == ASSUME StarterTypeOK, KeyKept, StarterNext PROVE KeyKept'
  <1>1. CASE StartEngine
    BY <1>1 DEF StartEngine, KeyKept
  <1>2. CASE SkipPull
    BY <1>2 DEF SkipPull, EngineGoto, StarterTypeOK, KeyKept
  <1>3. CASE RefusePopulated
    BY <1>3 DEF RefusePopulated, EngineReturns, KeyKept
  <1>4. CASE CleanLeftovers
    BY <1>4 DEF CleanLeftovers, EngineGoto, EngineReturns, StarterTypeOK, KeyKept
  <1>5. CASE PullArtifact
    BY <1>5 DEF PullArtifact, EngineReturns, StarterTypeOK, KeyKept
  <1>6. CASE PromoteEntry
    BY <1>6 DEF PromoteEntry, KeyKept
  <1>7. CASE CheckIgnore
    <2>1. UNCHANGED <<ignores, gitVars, keyVars>> /\ engine.at = "ignore"
      BY <1>7 DEF CheckIgnore, EngineAt
    <2>2. engine'.at \in {"init", "ended"} /\ (engine'.at = "init" => ignores)
      BY <1>7, StarterTypes, EngineTypes DEF CheckIgnore, EngineLabels
    <2> QED
      BY <2>1, <2>2 DEF KeyKept
  <1>8. CASE GitInit
    BY <1>8 DEF GitInit, EngineAt, EngineGoto, KeyKept
  <1>9. CASE CommitStarter
    BY <1>9 DEF CommitStarter, EngineAt, CommitAll, KeyKept
  <1>10. CASE UseKey
    BY <1>10 DEF UseKey, EngineGoto, EngineReturns, StarterTypeOK, KeyKept
  <1>11. CASE GenerateKey
    BY <1>11 DEF GenerateKey, EngineAt, EngineGoto, KeyKept
  <1>12. CASE WriteRecipients
    BY <1>12 DEF WriteRecipients, EngineAt, EngineGoto, KeyKept
  <1>13. CASE CommitEnrolment
    BY <1>13 DEF CommitEnrolment, EngineAt, EngineGoto, KeyKept
  <1>14. CASE CleanTreeGate
    BY <1>14 DEF CleanTreeGate, EngineAt, EngineReturns, StarterTypeOK, KeyKept
  <1>15. CASE CommitScaffold
    BY <1>15 DEF CommitScaffold, EngineAt, CommitAll, KeyKept
  <1>16. CASE EngineFails
    BY <1>16 DEF EngineFails, EngineReturns, KeyKept
  <1>17. CASE MoveTag
    BY <1>17 DEF MoveTag, KeyKept
  <1>18. CASE CommitRecipientsByHand
    BY <1>18 DEF CommitRecipientsByHand, KeyKept
  <1> QED
    BY <1>1, <1>2, <1>3, <1>4, <1>5, <1>6, <1>7, <1>8, <1>9, <1>10, <1>11, <1>12, <1>13,
       <1>14, <1>15, <1>16, <1>17, <1>18 DEF StarterNext

LEMMA StarterInitInv == StarterInit => StarterInv
  <1> SUFFICES ASSUME StarterInit
               PROVE  StarterInv
    OBVIOUS
  <1>1. /\ engine = [at |-> "ended", ref |-> MutableTag, got |-> tag, next |-> 1, result |-> "none"]
        /\ tag \in Versions /\ key = FALSE /\ keyInHead = FALSE
        /\ headTree = IF gitDir = "born" THEN dir ELSE NoEntries
    BY DEF StarterInit
  <1>2. engine \in EngineRecord /\ engine.at = "ended"
    BY <1>1 DEF EngineRecord, EngineLabels
  <1>3. dir \in [Entries -> {"none", "mine", "checkout"}]
    BY DEF StarterInit
  <1>4. headTree \in [Entries -> {"none", "mine", "checkout"}]
    BY <1>1, <1>3 DEF NoEntries
  <1>5. StarterTypeOK
    <2>1. dir \in [Entries -> Owners] /\ headTree \in [Entries -> Owners]
      BY <1>3, <1>4 DEF Owners
    <2>2. /\ gitDir \in {"none", "unborn", "born"} /\ ignores \in BOOLEAN /\ stranger \in BOOLEAN
          /\ enrolled = FALSE /\ enrolledHead = FALSE /\ starts = 0
      BY DEF StarterInit
    <2>3. starts \in 0..MaxStarts
      BY <2>2
    <2> QED
      BY <1>1, <1>2, <2>1, <2>2, <2>3, StarterTypes
  <1>6. \A t, u \in Trees : dir[t] = "checkout" /\ dir[u] = "checkout" => dir[t] = dir[u]
    OBVIOUS
  <1>7. TreesKept
    BY <1>2, <1>3, <1>4, EntryNames DEF TreesKept, OneArtifact, EngineAt, Late
  <1>8. KeyKept
    BY <1>1, <1>2 DEF KeyKept
  <1> QED
    BY <1>5, <1>7, <1>8 DEF StarterInv

LEMMA StarterNextInv == StarterInv /\ [StarterNext]_starterVars => StarterInv'
  <1> SUFFICES ASSUME StarterInv, [StarterNext]_starterVars
               PROVE  StarterInv'
    OBVIOUS
  <1>1. CASE StarterNext
    BY <1>1, StarterTypeStep, TreesStep, KeyStep DEF StarterInv
  <1>2. CASE UNCHANGED starterVars
    BY <1>2 DEF StarterInv, starterVars, StarterTypeOK, TreesKept, KeyKept, EngineAt,
       Promoted
  <1> QED
    BY <1>1, <1>2

LEMMA StarterInvariant == StarterSpec => []StarterInv
  BY StarterInitInv, StarterNextInv, PTL DEF StarterSpec

LEMMA StarterImplies == StarterInv => StarterTypeOK /\ StarterIsWhole /\ KeyNeverCommitted
  BY DEF StarterInv, StarterIsWhole, KeyNeverCommitted, TreesKept, KeyKept, OneArtifact,
     ShapePresent

\* Whatever a run is killed at and whatever the tag names by then, the directory, the
\* commit and the key keep their shapes.
THEOREM StarterTypesKept == StarterSpec => []StarterTypeOK
  BY StarterInvariant, StarterImplies, PTL

\* EnsureStarter: trees of two artifacts never pass for one fleet, in the directory or
\* in a commit, since entries are promoted from one verified pull into a directory
\* without starter trees.
THEOREM StarterWhole == StarterSpec => []StarterIsWhole
  BY StarterInvariant, StarterImplies, PTL

\* autoGenerateAgeKey: the key is younger than the first commit, and the scaffold's is
\* behind the gate that sees an age.key git does not ignore.
THEOREM StarterKeyStays == StarterSpec => []KeyNeverCommitted
  BY StarterInvariant, StarterImplies, PTL

HIDE StarterAssumption DEF repoVars, gitVars, keyVars

=============================================================================
