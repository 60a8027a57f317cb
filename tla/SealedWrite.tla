----------------------------- MODULE SealedWrite -----------------------------
(* One SOPS artifact of the fleet clone and the processes that write it:         *)
(* clusterinit/imageaccel.go (ensureRegistryDepotSecret, sopsEncryptToFile),     *)
(* clusterinit/wildcardtls.go (WriteWildcardTLS) and the flock of                *)
(* clusterinit/filelock_unix.go.                                                 *)
(*                                                                               *)
(* The registry credential is minted once: an artifact that exists is kept.  The *)
(* TLS material is rotated: an artifact that decrypts to it is kept, any other   *)
(* is rewritten; then the overlay is patched and TLS_MODE recorded.              *)
(*                                                                               *)
(* Simplifications: the overlay files a TLS writer patches are one file with a   *)
(* revision; a directory that cannot be listed (the sweep is then skipped) and   *)
(* an artifact that is not a regular file are left out.                          *)
EXTENDS Integers, FiniteSets

CONSTANTS Writers,     \* processes that scaffold on this clone
          MaxTries,    \* runs of each
          MaxEdits     \* edits of the overlay by somebody else

ASSUME SealedAssumption == MaxTries \in Nat /\ MaxEdits \in Nat /\ "nobody" \notin Writers

VARIABLES artifact,    \* "registry" or "tls"
          writer,      \* the processes: position, run, what was staged
          lock,        \* holder of the artifact's flock
          temps,       \* base.tmp-*.enc.yaml beside the artifact
          final,       \* the artifact itself
          overlay      \* the patched file: has the patch, revision, TLS_MODE set

sealedVars == <<artifact, writer, lock, temps, final, overlay>>

NoWriter == "nobody"
NoFile == [of |-> NoWriter, text |-> "none"]
Texts == {"plain", "leaky", "sealed"}   \* leaky: SOPS metadata over cleartext values
Held == {"sweep", "create", "encrypt", "verify", "rename"}
WriterLabels == Held \cup {"idle", "stage", "check", "lock", "patch", "write", "mark",
                     "done", "failed", "dead"}
Resting == {"idle", "done", "failed", "dead"}

SealedTypeOK ==
  /\ artifact \in {"registry", "tls"}
  /\ writer \in [Writers -> [at : WriterLabels, try : 0..MaxTries, patched : BOOLEAN,
                             rev : 0..MaxEdits]]
  /\ lock \in Writers \cup {NoWriter}
  /\ temps \subseteq [by : Writers, try : 1..MaxTries, text : Texts]
  /\ final \in {NoFile} \cup [of : Writers \cup {NoWriter}, text : Texts]
  /\ overlay \in [patched : BOOLEAN, rev : 0..MaxEdits, mode : BOOLEAN]

\* An existing clone may hold an artifact, somebody else's or of the same material.
SealedInit ==
  /\ artifact \in {"registry", "tls"}
  /\ writer = [w \in Writers |-> [at |-> "idle", try |-> 0, patched |-> FALSE, rev |-> 0]]
  /\ lock = NoWriter /\ temps = {}
  /\ final \in {NoFile} \cup [of : Writers \cup {NoWriter}, text : Texts]
  /\ overlay = [patched |-> FALSE, rev |-> 0, mode |-> FALSE]

WriterAt(w, at) == writer[w].at = at
WriterTo(w, at) == writer' = [writer EXCEPT ![w].at = at]
OwnTemps(w) == {t \in temps : t.by = w /\ t.try = writer[w].try}

-----------------------------------------------------------------------------
StartWriter(w) ==
  /\ writer[w].at \in Resting /\ writer[w].try < MaxTries
  /\ writer' = [writer EXCEPT ![w].at = IF artifact = "tls" THEN "stage" ELSE "check",
                              ![w].try = @ + 1]
  /\ UNCHANGED <<artifact, lock, temps, final, overlay>>

\* Phase 1: the target is read and its patch computed in memory.
Stage(w) ==
  /\ WriterAt(w, "stage")
  /\ writer' = [writer EXCEPT ![w] = [@ EXCEPT !.at = "check", !.patched = overlay.patched,
                                               !.rev = overlay.rev]]
  /\ UNCHANGED <<artifact, lock, temps, final, overlay>>

\* Mutant: an artifact that decrypts to the material is kept, leaks and all.
KeepsLeaky(w) == /\ final.text \in {"sealed", "leaky"}
                 /\ artifact = "tls" => final.of = w

\* The artifact is kept: any that looks encrypted for the registry; for TLS one
\* that decrypts to exactly this material and passes the checks of a fresh one.
Keeps(w) == IF artifact = "registry" THEN final.text \in {"sealed", "leaky"}
                                     ELSE final.text = "sealed" /\ final.of = w

CheckKeeps(w) ==
  /\ WriterAt(w, "check") /\ Keeps(w)
  /\ WriterTo(w, IF artifact = "tls" THEN "patch" ELSE "done")
  /\ UNCHANGED <<artifact, lock, temps, final, overlay>>

\* A registry file that does not look encrypted is refused.
CheckRefuses(w) ==
  /\ WriterAt(w, "check") /\ artifact = "registry" /\ final.text = "plain"
  /\ WriterTo(w, "failed")
  /\ UNCHANGED <<artifact, lock, temps, final, overlay>>

CheckWrites(w) ==
  /\ WriterAt(w, "check") /\ ~Keeps(w)
  /\ artifact = "tls" \/ final = NoFile
  /\ WriterTo(w, "lock")
  /\ UNCHANGED <<artifact, lock, temps, final, overlay>>

-----------------------------------------------------------------------------
\* sopsEncryptToFile.

\* Mutant: without the lock.
TakeNoLock(w) ==
  /\ WriterAt(w, "lock")
  /\ lock' = w /\ WriterTo(w, "sweep")
  /\ UNCHANGED <<artifact, temps, final, overlay>>

TakeLock(w) ==
  /\ WriterAt(w, "lock") /\ lock = NoWriter
  /\ lock' = w /\ WriterTo(w, "sweep")
  /\ UNCHANGED <<artifact, temps, final, overlay>>

\* Every return of sopsEncryptToFile closes the lock's handle.
ReturnFrom(w, at) == WriterTo(w, at) /\ lock' = IF lock = w THEN NoWriter ELSE lock

\* Every temporary of the artifact goes, or the write fails.
Sweep(w) ==
  /\ WriterAt(w, "sweep")
  /\ \/ temps' = {} /\ WriterTo(w, "create") /\ UNCHANGED lock
     \/ /\ \E rest \in SUBSET temps \ {{}} : temps' = rest
        /\ ReturnFrom(w, "failed")
  /\ UNCHANGED <<artifact, final, overlay>>

\* The plaintext goes to a fresh temporary; a failed write removes it.
CreateTemp(w) ==
  /\ WriterAt(w, "create")
  /\ \/ /\ temps' = temps \cup {[by |-> w, try |-> writer[w].try, text |-> "plain"]}
        /\ WriterTo(w, "encrypt") /\ UNCHANGED lock
     \/ UNCHANGED temps /\ ReturnFrom(w, "failed")
  /\ UNCHANGED <<artifact, final, overlay>>

\* cleanup: the removal's own failure is ignored.
Cleanup(w) == temps' \in {temps, temps \ OwnTemps(w)}

\* sops encrypts in place, leaves cleartext under a mis-scoped rule, does nothing
\* and says so, or does nothing and exits 0.
SopsEncrypts(w) ==
  /\ WriterAt(w, "encrypt")
  /\ \/ /\ \E text \in Texts :
             temps' = (temps \ OwnTemps(w))
                        \cup {[t EXCEPT !.text = text] : t \in OwnTemps(w)}
        /\ WriterTo(w, "verify") /\ UNCHANGED lock
     \/ Cleanup(w) /\ ReturnFrom(w, "failed")
  /\ UNCHANGED <<artifact, final, overlay>>

Verified(t) == t.text = "sealed"

\* The output must carry metadata and none of the secrets in cleartext.
Verify(w) ==
  /\ WriterAt(w, "verify")
  /\ \/ /\ OwnTemps(w) # {} /\ \A t \in OwnTemps(w) : Verified(t)
        /\ WriterTo(w, "rename") /\ UNCHANGED <<temps, lock>>
     \/ Cleanup(w) /\ ReturnFrom(w, "failed")
  /\ UNCHANGED <<artifact, final, overlay>>

\* The final path appears by an atomic rename.
Rename(w) ==
  /\ WriterAt(w, "rename")
  /\ \/ /\ \E t \in OwnTemps(w) :
             temps' = temps \ {t} /\ final' = [of |-> w, text |-> t.text]
        /\ ReturnFrom(w, IF artifact = "tls" THEN "patch" ELSE "done")
     \/ Cleanup(w) /\ ReturnFrom(w, "failed") /\ UNCHANGED final
  /\ UNCHANGED <<artifact, overlay>>

-----------------------------------------------------------------------------
\* Phase 3: the target is read again and must be what phase 1 saw.
Recheck(w) ==
  /\ WriterAt(w, "patch")
  /\ LET same == overlay.rev = writer[w].rev /\ overlay.patched = writer[w].patched IN
     WriterTo(w, IF writer[w].patched THEN "mark" ELSE IF same THEN "write" ELSE "failed")
  /\ UNCHANGED <<artifact, lock, temps, final, overlay>>

\* os.WriteFile of the staged content; an edit since the re-read is overwritten.
WriteOverlay(w) ==
  /\ WriterAt(w, "write")
  /\ \/ overlay' = [overlay EXCEPT !.patched = TRUE, !.rev = writer[w].rev] /\ WriterTo(w, "mark")
     \/ UNCHANGED overlay /\ WriterTo(w, "failed")
  /\ UNCHANGED <<artifact, lock, temps, final>>

\* TLS_MODE in cluster-config.env, last.
RecordMode(w) ==
  /\ WriterAt(w, "mark")
  /\ \/ overlay' = [overlay EXCEPT !.mode = TRUE] /\ WriterTo(w, "done")
     \/ UNCHANGED overlay /\ WriterTo(w, "failed")
  /\ UNCHANGED <<artifact, lock, temps, final>>

-----------------------------------------------------------------------------
\* Mutant: a lock that its holder's death does not release (an O_EXCL file).
DieHoldingLock(w) ==
  /\ writer[w].at \notin Resting
  /\ WriterTo(w, "dead") /\ UNCHANGED lock
  /\ UNCHANGED <<artifact, temps, final, overlay>>

\* The process dies anywhere; the kernel drops its flock, its temporary stays.
Die(w) ==
  /\ writer[w].at \notin Resting
  /\ ReturnFrom(w, "dead")
  /\ UNCHANGED <<artifact, temps, final, overlay>>

\* A cooperating writer or the operator edits the overlay.
EditOverlay ==
  /\ overlay.rev < MaxEdits
  /\ overlay' = [overlay EXCEPT !.rev = @ + 1]
  /\ UNCHANGED <<artifact, writer, lock, temps, final>>

WriterStep(w) ==
  \/ Stage(w) \/ CheckKeeps(w) \/ CheckRefuses(w) \/ CheckWrites(w)
  \/ TakeLock(w) \/ Sweep(w) \/ CreateTemp(w) \/ SopsEncrypts(w) \/ Verify(w)
  \/ Rename(w) \/ Recheck(w) \/ WriteOverlay(w) \/ RecordMode(w)

SealedNext == \/ \E w \in Writers : StartWriter(w) \/ WriterStep(w) \/ Die(w)
              \/ EditOverlay

SealedSpec == SealedInit /\ [][SealedNext]_sealedVars

-----------------------------------------------------------------------------
\* "without the lock, one process's stale-temp sweep can delete ANOTHER process's
\* live temp" (sopsEncryptToFile): a writer between create and rename finds its
\* temporary where it left it, whoever else sweeps, dies or fails.
LiveTempIsSafe ==
  \A w \in Writers : writer[w].at \in {"encrypt", "verify", "rename"} => OwnTemps(w) # {}

\* "proceeding would leave known plaintext residue behind a success": the write
\* that puts the artifact in place leaves no temporary of any earlier crash.
SuccessLeavesNoResidue == [][final' # final => temps' = {}]_sealedVars

\* What a writer returns success over is encrypted; the TLS writer's completed-mode
\* marker is there only with a leak-free artifact and a patched overlay, so no
\* interleaving or crash leaves a mixed overlay behind the marker.
MarkerMeansSealed ==
  /\ overlay.mode => overlay.patched /\ final.text = "sealed"
  /\ (\E w \in Writers : WriterAt(w, "done")) => final.text \in {"sealed", "leaky"}

\* "flock releases on process death, so a crash never wedges later runs".
CrashNeverWedges == \A w \in Writers : WriterAt(w, "lock") ~> ~WriterAt(w, "lock")

=============================================================================
