------------------------------ MODULE ShareCustody ------------------------------
(*****************************************************************************)
(* The OpenBao initialisation ceremony of `kube-dc bootstrap openbao init`   *)
(* (cli/internal/bootstrap/openbao/init.go), with the two commands an        *)
(* operator is told to resume it with (`unseal`, `setup-controller-auth`),   *)
(* the git steps the error messages ask for, and a process that may be       *)
(* killed between any two steps.                                             *)
(*                                                                           *)
(* Running the init script is the point of no return: from then on the       *)
(* vault can only be opened with its Shamir shares, and the shares exist     *)
(* only where this program puts them.  The model keeps, for every place the  *)
(* shares can be, the SET of share numbers found there:                      *)
(*                                                                           *)
(*   buf     the secrets.Buffer of the running process (lost when it ends)   *)
(*   dump    the write-ahead files ~/.kube-dc/openbao-emergency-shares-*     *)
(*   outFile the --openbao-shares-out copy                                   *)
(*   tree    clusters/<name>/secrets.enc.yaml in the fleet working tree      *)
(*   head    the same file in the local HEAD commit                          *)
(*   remote  the same file on the git remote                                 *)
(*                                                                           *)
(* Simplifications.  One init process runs at a time and the operator's own  *)
(* git steps happen between runs.  A share is its number: the wrong value    *)
(* under the right key is the share's absence.  The contents of the script,  *)
(* of `sops` and of git are their outcomes.                                  *)
(*****************************************************************************)
EXTENDS Integers, FiniteSets

CONSTANTS
  N,          \* shares the vault is split into (5 in the code)
  T,          \* shares that open it (3 in the code)
  MaxNames,   \* emergencyDumpMaxAttempts: candidate names of a write-ahead file
  MaxRuns,    \* bound: how many times the operator starts the ceremony
  Payloads,   \* what the script may print between the sentinels
  StampUnreadable  \* whether reading the finalized stamp may fail

ASSUME SharesAssumption == /\ N \in Nat \ {0}
                           /\ T \in 1..N
                           /\ MaxNames \in Nat \ {0}
                           /\ MaxRuns \in Nat
                           /\ StampUnreadable \in BOOLEAN

Share == 1..N
Names == 1..MaxNames
NoName == 0

\* A JSON payload: the non-empty entries of unseal_keys_b64 that fit the
\* buffer, whether the array has N entries, and whether root_token is there.
Payload == [shares : SUBSET Share, sized : BOOLEAN, token : BOOLEAN]

ASSUME PayloadsAssumption == Payloads \subseteq Payload

\* Flags of the command line the ceremony branches on.
Options == [noPush : BOOLEAN, sharesOut : BOOLEAN, skipAuth : BOOLEAN]

\* A dump file: free name, left by the ceremony of another vault, or this one's.
File == [owner : {"none", "other", "this"}, shares : SUBSET Share]
FreeName == [owner |-> "none", shares |-> {}]
OtherVault == [owner |-> "other", shares |-> {}]

Labels == {"idle", "gate", "script", "payload", "dump", "drain", "encrypt",
           "sharesOut", "commit", "push", "dropDump", "unseal", "setupAuth",
           "annotate", "revoke"}

\* How a run ended: refused by a pre-flight gate; failed with no claim about
\* shares; a custody error naming the file; a custody error declaring the vault
\* lost; ErrPostCommitIrreversible; success; the process was killed.
Reports == {"none", "refused", "plain", "preserved", "unrecoverable",
            "postCommit", "ok", "killed"}

\* The deferred RevokeSelf: not run in this run of the ceremony, done, warned of a
\* failure, or reported done with the token as it was (its wrapper prints the
\* success sentinel whatever `bao token revoke` said).
Revocations == {"none", "gone", "warned", "claimed"}

VARIABLES
  initialized, unsealed, rootLive, authInstalled,     \* the vault
  finalized, installed,                               \* svc/openbao annotations
  dump, outFile,                                      \* the operator's disk
  tree, dirty, head, remote,                          \* the fleet repository
  pc, opt, buf, token, parsed, wah, k, pending,       \* the running process
  runs, report, revocation, repaired,                 \* what the operator saw
  kept                                                \* shares a dump file once held

vault == <<initialized, unsealed, rootLive, authInstalled>>
stamps == <<finalized, installed>>
disk == <<dump, outFile>>
repo == <<tree, dirty, head, remote>>
proc == <<opt, buf, token, parsed, wah, k, pending>>
seen == <<runs, revocation, repaired, kept>>
vars == <<vault, stamps, disk, repo, pc, proc, report, seen>>

TypeOK ==
  /\ initialized \in BOOLEAN /\ unsealed \in BOOLEAN
  /\ rootLive \in BOOLEAN /\ authInstalled \in BOOLEAN
  /\ finalized \in BOOLEAN /\ installed \in BOOLEAN
  /\ dump \in [Names -> File] /\ outFile \in SUBSET Share
  /\ tree \in SUBSET Share /\ dirty \in BOOLEAN
  /\ head \in SUBSET Share /\ remote \in SUBSET Share
  /\ pc \in Labels /\ opt \in Options
  /\ buf \in SUBSET Share /\ token \in BOOLEAN /\ parsed \in BOOLEAN
  /\ wah \in Names \cup {NoName} /\ k \in 1..(N + 1) /\ pending \in Reports
  /\ runs \in 0..MaxRuns /\ report \in Reports /\ revocation \in Revocations
  /\ repaired \in SUBSET {"unseal", "setupAuth"}
  /\ kept \in SUBSET Share

-----------------------------------------------------------------------------
\* Helpers of the code.

\* renderSharesYAML walks the first ShareCount() slots and skips empty ones.
Rendered(b) == {i \in b : i <= Cardinality(b)}

\* loadBufferFromJSON stores what is there, then reports what is missing.
ParsesInto(p) == p.sized /\ p.shares = Share /\ p.token

\* emergencyDumpShares takes the first name nobody owns.
IsFirstFree(n) == /\ dump[n].owner = "none"
                  /\ \A m \in Names : m < n => dump[m].owner # "none"

\* extractThresholdShares wants keys 1..T, whatever else the file holds.
ThresholdInTree == 1..T \subseteq tree

\* Every return of Init runs `defer buf.Scrub()`.
Return(r) == /\ pc' = "idle" /\ report' = r
             /\ buf' = {} /\ token' = FALSE
             /\ UNCHANGED <<opt, parsed, wah, k, pending>>

\* The closure `custody`: the error names the write-ahead file, or, when the
\* write-ahead dump failed, declares the vault unrecoverable.
ReturnCustody == Return(IF wah # NoName THEN "preserved" ELSE "unrecoverable")

Goto(label) == pc' = label /\ UNCHANGED report

-----------------------------------------------------------------------------
Init ==
  /\ initialized = FALSE /\ unsealed = FALSE /\ rootLive = FALSE
  /\ authInstalled = FALSE /\ finalized = FALSE /\ installed = FALSE
  \* files of earlier ceremonies for the same cluster name hold the first names
  /\ \E m \in 0..MaxNames :
       dump = [n \in Names |-> IF n <= m THEN OtherVault ELSE FreeName]
  /\ outFile = {} /\ tree = {} /\ dirty \in BOOLEAN /\ head = {} /\ remote = {}
  /\ pc = "idle"
  /\ opt = [noPush |-> FALSE, sharesOut |-> FALSE, skipAuth |-> FALSE]
  /\ buf = {} /\ token = FALSE /\ parsed = FALSE /\ wah = NoName /\ k = 1
  /\ pending = "none"
  /\ runs = 0 /\ report = "none" /\ revocation = "none" /\ repaired = {} /\ kept = {}

\* The operator runs `kube-dc bootstrap openbao init`.
StartInit ==
  /\ pc = "idle" /\ runs < MaxRuns
  /\ runs' = runs + 1
  /\ opt' \in Options
  /\ buf' = {} /\ token' = FALSE /\ parsed' = FALSE /\ wah' = NoName /\ k' = 1
  /\ pending' = "none" /\ revocation' = "none" /\ repaired' = {}
  /\ pc' = "gate" /\ report' = "none"
  /\ UNCHANGED <<vault, stamps, disk, repo, kept>>

\* Phase A, refused: no secrets file, shares-out inside a git tree, a dirty
\* tree, the finalized stamp, no HEAD.  Nothing has been touched.
GateRefuses ==
  /\ pc = "gate"
  /\ Return("refused")
  /\ UNCHANGED <<vault, stamps, disk, repo, seen>>

\* Phase A, passed.  An ERROR reading the stamp counts as its absence.
GatePasses ==
  /\ pc = "gate" /\ ~dirty
  /\ finalized => StampUnreadable
  /\ Goto("script")
  /\ UNCHANGED <<vault, stamps, disk, repo, proc, seen>>

\* The script ends without printing shares: it did not start, it exited
\* non-zero (always so on an initialised vault), or it printed no sentinel.
ScriptFails ==
  /\ pc = "script"
  /\ Return("plain")
  /\ UNCHANGED <<vault, stamps, disk, repo, seen>>

\* `bao operator init` takes effect in the vault.
ScriptInitialises ==
  /\ pc = "script" /\ ~initialized
  /\ initialized' = TRUE /\ rootLive' = TRUE
  /\ Goto("payload")
  /\ UNCHANGED <<unsealed, authInstalled, stamps, disk, repo, proc, seen>>

\* The script dies between BEGIN and END: the callback never runs.
PayloadLost ==
  /\ pc = "payload"
  /\ Return("plain")
  /\ UNCHANGED <<vault, stamps, disk, repo, seen>>

\* The sentinel callback stores the payload in the buffer ...
Capture ==
  /\ pc = "payload"
  /\ \E p \in Payloads :
       buf' = p.shares /\ token' = p.token /\ parsed' = ParsesInto(p)
  /\ Goto("dump")
  /\ UNCHANGED <<vault, stamps, disk, repo, opt, wah, k, pending, seen>>

\* ... and writes it ahead to the first free name, fsynced, never clobbering.
DumpSucceeds ==
  /\ pc = "dump" /\ Rendered(buf) # {}
  /\ \E n \in Names :
       /\ IsFirstFree(n)
       /\ dump' = [dump EXCEPT ![n] = [owner |-> "this", shares |-> Rendered(buf)]]
       /\ wah' = n
  /\ kept' = kept \cup Rendered(buf)
  /\ Goto("drain")
  /\ UNCHANGED <<vault, stamps, outFile, repo, opt, buf, token, parsed, k, pending,
                 runs, revocation, repaired>>

\* No home directory, no share to write, a full disk, every name taken.
DumpFails ==
  /\ pc = "dump"
  /\ wah' = NoName
  /\ Goto("drain")
  /\ UNCHANGED <<vault, stamps, disk, repo, opt, buf, token, parsed, k, pending, seen>>

\* The payload did not parse, the stream broke, or the script exited non-zero
\* after printing the payload.
DrainFails ==
  /\ pc = "drain"
  /\ ReturnCustody
  /\ UNCHANGED <<vault, stamps, disk, repo, seen>>

\* A clean exit with N shares and a token; a failed dump does NOT stop here.
DrainPasses ==
  /\ pc = "drain" /\ parsed /\ Cardinality(buf) = N /\ token
  /\ k' = 1
  /\ Goto("encrypt")
  /\ UNCHANGED <<vault, stamps, disk, repo, opt, buf, token, parsed, wah, pending, seen>>

\* writeAndVerifyShares: sops sets key k and a decrypt finds the share there.
EncryptShare ==
  /\ pc = "encrypt" /\ k \in buf
  /\ tree' = tree \cup {k} /\ dirty' = TRUE
  /\ k' = k + 1
  /\ Goto(IF k = N THEN "sharesOut" ELSE "encrypt")
  /\ UNCHANGED <<vault, stamps, disk, head, remote, opt, buf, token, parsed, wah,
                 pending, seen>>

\* sops failed (file as it was), or the check after it did (file rewritten).
EncryptFails ==
  /\ pc = "encrypt" /\ k \in Share
  /\ \/ UNCHANGED <<tree, dirty>>
     \/ tree' \in {tree, tree \cup {k}} /\ dirty' = TRUE
  /\ ReturnCustody
  /\ UNCHANGED <<vault, stamps, disk, head, remote, seen>>

\* Mutant: the write-ahead file goes once the shares are encrypted in the tree.
WriteSharesOutDropsDump ==
  /\ pc = "sharesOut"
  /\ outFile' = IF opt.sharesOut THEN Rendered(buf) ELSE outFile
  /\ dump' = IF wah # NoName THEN [dump EXCEPT ![wah] = FreeName] ELSE dump
  /\ Goto("commit")
  /\ UNCHANGED <<vault, stamps, repo, proc, seen>>

\* The optional plaintext copy; its failure is a warning.
WriteSharesOut ==
  /\ pc = "sharesOut"
  /\ \/ opt.sharesOut /\ outFile' = Rendered(buf)
     \/ UNCHANGED outFile
  /\ Goto("commit")
  /\ UNCHANGED <<vault, stamps, dump, repo, proc, seen>>

\* Git.Commit, or the first half of Git.CommitAndPush: add everything, commit.
Commit ==
  /\ pc = "commit"
  /\ head' = tree /\ dirty' = FALSE
  /\ Goto(IF opt.noPush THEN "dropDump" ELSE "push")
  /\ UNCHANGED <<vault, stamps, disk, tree, remote, proc, seen>>

\* The commit fails: nothing is rolled back.
CommitFails ==
  /\ pc = "commit"
  /\ ReturnCustody
  /\ UNCHANGED <<vault, stamps, disk, repo, seen>>

Push ==
  /\ pc = "push"
  /\ remote' = head
  /\ Goto("dropDump")
  /\ UNCHANGED <<vault, stamps, disk, tree, dirty, head, proc, seen>>

\* Mutant: a failed push is a warning.
PushFailsIgnored ==
  /\ pc = "push"
  /\ remote' \in {remote, head}
  /\ Goto("dropDump")
  /\ UNCHANGED <<vault, stamps, disk, tree, dirty, head, proc, seen>>

\* Mutant: a failed push rolls the commit back, as Apply does for its own.
PushFailsResets ==
  /\ pc = "push"
  /\ head' = remote /\ tree' = remote /\ dirty' = FALSE
  /\ ReturnCustody
  /\ UNCHANGED <<vault, stamps, disk, remote, seen>>

\* The push fails, or its answer is lost, with the commit in place: nothing is
\* rolled back.
PushFails ==
  /\ pc = "push"
  /\ remote' \in {remote, head}
  /\ ReturnCustody
  /\ UNCHANGED <<vault, stamps, disk, tree, dirty, head, seen>>

\* The write-ahead file is removed; a failure to remove it is a warning.
DropDump ==
  /\ pc = "dropDump"
  /\ \/ wah # NoName /\ dump' = [dump EXCEPT ![wah] = FreeName]
     \/ UNCHANGED dump
  /\ Goto("unseal")
  /\ UNCHANGED <<vault, stamps, outFile, repo, proc, seen>>

\* Phase C: T shares from the buffer open the first pod.
PostInitUnseal ==
  /\ pc = "unseal" /\ 1..T \subseteq buf
  /\ unsealed' = TRUE
  /\ Goto(IF opt.skipAuth THEN "annotate" ELSE "setupAuth")
  /\ UNCHANGED <<initialized, rootLive, authInstalled, stamps, disk, repo, proc, seen>>

\* The pod refuses a share, or its answer is lost.  The return here comes
\* BEFORE `defer RevokeSelf` is registered.
PostInitUnsealFails ==
  /\ pc = "unseal"
  /\ unsealed' \in {unsealed, TRUE}
  /\ Return("postCommit")
  /\ UNCHANGED <<initialized, rootLive, authInstalled, stamps, disk, repo, seen>>

\* Mutant: the deferred RevokeSelf is missing.
DeferNothing(r) == /\ pending' = r /\ pc' = "idle" /\ report' = r

\* From here on every return goes through the deferred RevokeSelf.
Defer(r) == pending' = r /\ Goto("revoke")

\* SetupControllerAuth in Full mode ends with its own stamp.  Writes refused by
\* bao under a wrapper that prints the sentinel all the same go unnoticed.
SetupAuth ==
  /\ pc = "setupAuth"
  /\ authInstalled' \in {authInstalled, TRUE} /\ installed' = TRUE
  /\ Goto("annotate")
  /\ UNCHANGED <<initialized, unsealed, rootLive, finalized, disk, repo, proc, seen>>

\* A write fails before the stamp, or the stamp does with all writes in place.
AuthWritesFail ==
  /\ authInstalled' \in {authInstalled, TRUE}
  /\ installed' \in {installed, TRUE}

SetupAuthFails ==
  /\ pc = "setupAuth"
  /\ AuthWritesFail
  /\ Defer("postCommit")
  /\ UNCHANGED <<initialized, unsealed, rootLive, finalized, disk, repo, opt, buf,
                 token, parsed, wah, k, seen>>

\* postInitAnnotateBoth: one patch with both markers.
StampBoth == finalized' = TRUE /\ installed' = (installed \/ ~opt.skipAuth)

Annotate ==
  /\ pc = "annotate"
  /\ StampBoth
  /\ Defer("ok")
  /\ UNCHANGED <<vault, disk, repo, opt, buf, token, parsed, wah, k, seen>>

\* The patch is refused, or its answer is lost.
AnnotateFails ==
  /\ pc = "annotate"
  /\ StampBoth \/ UNCHANGED stamps
  /\ Defer("postCommit")
  /\ UNCHANGED <<vault, disk, repo, opt, buf, token, parsed, wah, k, seen>>

\* The deferred RevokeSelf: done; a warning, done or not; a success that is none.
Revoke ==
  /\ pc = "revoke"
  /\ \/ rootLive' = FALSE /\ revocation' = "gone"
     \/ rootLive' \in {FALSE, rootLive} /\ revocation' = "warned"
     \/ UNCHANGED rootLive /\ revocation' = "claimed"
  /\ Return(pending)
  /\ UNCHANGED <<initialized, unsealed, authInstalled, stamps, disk, repo, runs,
                 repaired, kept>>

\* The process is killed between two steps: the buffer is gone, files stay.
Kill ==
  /\ pc # "idle"
  /\ Return("killed")
  /\ UNCHANGED <<vault, stamps, disk, repo, seen>>

-----------------------------------------------------------------------------
\* The world around the ceremony.

\* `kube-dc bootstrap openbao unseal`, from the working tree's encrypted file.
UnsealCommand ==
  /\ pc = "idle" /\ initialized /\ ThresholdInTree
  /\ \/ unsealed' = TRUE /\ repaired' = repaired \cup {"unseal"}
     \/ unsealed' \in {unsealed, TRUE} /\ UNCHANGED repaired
  /\ UNCHANGED <<initialized, rootLive, authInstalled, stamps, disk, repo, pc, proc,
                 report, runs, revocation, kept>>

\* `kube-dc bootstrap openbao setup-controller-auth`: generate-root with the
\* tree's shares, SetupControllerAuth in Full mode, revoke of that new token.
SetupAuthCommand ==
  /\ pc = "idle" /\ unsealed /\ ThresholdInTree
  /\ \/ authInstalled' \in {authInstalled, TRUE} /\ installed' = TRUE
        /\ repaired' = repaired \cup {"setupAuth"}
     \/ AuthWritesFail /\ UNCHANGED repaired
  /\ UNCHANGED <<initialized, unsealed, rootLive, finalized, disk, repo, pc, proc,
                 report, runs, revocation, kept>>

\* The pod restarts: a vault comes up sealed.
PodRestart ==
  /\ unsealed
  /\ unsealed' = FALSE
  /\ UNCHANGED <<initialized, rootLive, authInstalled, stamps, disk, repo, pc, proc,
                 report, seen>>

\* The operator edits the fleet, discards the edits, or finishes by hand.
EditFleet ==
  /\ pc = "idle" /\ ~dirty
  /\ dirty' = TRUE
  /\ UNCHANGED <<vault, stamps, disk, tree, head, remote, pc, proc, report, seen>>

GitCheckout ==
  /\ pc = "idle" /\ dirty
  /\ tree' = head /\ dirty' = FALSE
  /\ UNCHANGED <<vault, stamps, disk, head, remote, pc, proc, report, seen>>

CommitByHand ==
  /\ pc = "idle" /\ dirty
  /\ head' = tree /\ dirty' = FALSE
  /\ UNCHANGED <<vault, stamps, disk, tree, remote, pc, proc, report, seen>>

PushByHand ==
  /\ pc = "idle" /\ remote # head
  /\ remote' = head
  /\ UNCHANGED <<vault, stamps, disk, tree, dirty, head, pc, proc, report, seen>>

PhaseA == \/ StartInit \/ GateRefuses \/ GatePasses
          \/ ScriptFails \/ ScriptInitialises \/ PayloadLost \/ Capture
          \/ DumpSucceeds \/ DumpFails \/ DrainFails \/ DrainPasses

PhaseB == \/ EncryptShare \/ EncryptFails \/ WriteSharesOut
          \/ Commit \/ CommitFails \/ Push \/ PushFails \/ DropDump

PhaseC == \/ PostInitUnseal \/ PostInitUnsealFails \/ SetupAuth \/ SetupAuthFails
          \/ Annotate \/ AnnotateFails \/ Revoke

World == \/ Kill \/ UnsealCommand \/ SetupAuthCommand \/ PodRestart
         \/ EditFleet \/ GitCheckout \/ CommitByHand \/ PushByHand

Next == PhaseA \/ PhaseB \/ PhaseC \/ World

Spec == Init /\ [][Next]_vars

-----------------------------------------------------------------------------
\* What the ceremony promises.

Committed == {"push", "dropDump", "unseal", "setupAuth", "annotate", "revoke"}
InPhaseC == {"unseal", "setupAuth", "annotate", "revoke"}

\* Where a share survives this process, this laptop's next `git checkout`, and
\* the failure of everything that has not happened yet.
InDump(i) == \E n \in Names : dump[n].owner = "this" /\ i \in dump[n].shares
Durable == {i \in Share : i \in head \/ i \in outFile \/ InDump(i)}

\* Write-ahead custody (the header of emergencyDumpShares and step 6a of Init):
\* once a share has been written ahead, no failure, kill, warning, re-run or
\* clean-up of the write-ahead file leaves it with no durable copy.
CapturedSharesDurable == kept \subseteq Durable

\* "From here on failing costs recovery material": Phase C is entered, and the
\* vault stamped finalized, only with every share in the commit, and on the
\* remote unless --no-push (Init, Phase C preamble; ErrPostCommitIrreversible's
\* "shares are safely encrypted + committed").
CustodyBeforeIrreversible ==
  /\ pc \in InPhaseC => head = Share /\ (opt.noPush \/ remote = Share)
  /\ report \in {"postCommit", "ok"} => head = Share
  /\ finalized => head = Share

\* What a custody error tells the operator is true: "its captured share(s) were
\* preserved at <path>" names a file that holds what was written ahead.
PreservedFileExists ==
  report = "preserved" =>
    /\ wah \in Names /\ dump[wah].owner = "this"
    /\ kept \subseteq dump[wah].shares

\* emergencyDumpShares "never overwrites": a file of another ceremony, perhaps
\* of a vault nobody has recovered yet, is never touched.
EarlierDumpsSurvive ==
  [][\A n \in Names : dump[n].owner = "other" => dump'[n] = dump[n]]_vars

\* `defer RevokeSelf` is registered the moment the token is read, "so any
\* subsequent failure still revokes": a run that returned with the vault
\* stamped or controller auth tried has called it, and the token lives on only
\* when RevokeSelf warned, or claimed a revocation it had not made.
Deferred == report = "ok" \/ (report = "postCommit" /\ pending # "none")
RootTokenRevoked == Deferred => ~rootLive \/ revocation \in {"warned", "claimed"}

\* `unseal` and `setup-controller-auth` "resume from where init's Phase C left
\* off" (init.go, Phase C preamble): with both done after a Phase C failure, the
\* service carries the two stamps StatusResult.FullyReady wants.
ResumeReachesReady ==
  report = "postCommit" /\ repaired = {"unseal", "setupAuth"}
    => finalized /\ installed

-----------------------------------------------------------------------------
\* Why it holds: how far custody has come at each label of the process.

\* Nothing discards an encrypted share but a checkout of what is not committed.
RepoInv == remote \subseteq head /\ head \subseteq tree

\* No share exists before the vault, and a vault is created at most once.
BirthInv ==
  /\ ~initialized => tree = {} /\ kept = {} /\ pc \in {"idle", "gate", "script"}
  /\ pc \in {"payload", "dump"} => kept = {}

\* Each later place is complete before the run goes on.
ProgressInv ==
  /\ pc \in {"dump", "drain"} => (parsed => buf = Share)
  /\ pc = "encrypt" => buf = Share /\ 1..(k - 1) \subseteq tree
  /\ pc \in {"sharesOut", "commit"} => buf = Share /\ tree = Share
  /\ pc \in Committed => head = Share
  /\ pc \in InPhaseC \cup {"dropDump"} => opt.noPush \/ remote = Share
  /\ report \in {"postCommit", "ok"} \/ finalized => head = Share
  /\ pc # "idle" => report = "none"
  /\ pc \notin {"idle", "revoke"} => pending = "none"
  /\ pc = "revoke" => pending \in {"postCommit", "ok"}

\* The write-ahead file stays ours, with all it was given, until it is dropped.
HoldsDump == wah # NoName =>
               dump[wah].owner = "this" /\ kept \subseteq dump[wah].shares
DumpInv ==
  /\ pc \in {"drain", "encrypt", "sharesOut", "commit", "push", "dropDump"} => HoldsDump
  /\ report = "preserved" => wah # NoName /\ HoldsDump

CustodyInv == RepoInv /\ BirthInv /\ ProgressInv /\ DumpInv /\ CapturedSharesDurable

\* The promise of CustodyPromise, kept by what is durable and by the stamp that
\* closes the ceremony.
CP == INSTANCE CustodyPromise WITH born <- initialized, safe <- Durable,
                                   closed <- finalized
Promise == CP!Spec

=============================================================================
