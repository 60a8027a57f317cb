------------------------------- MODULE BreakGlass ------------------------------
(* kube-dc bootstrap break-glass: breakglass/breakglass.go (Adopt, Use, Rotate).  *)
(* Any number of operators run it from clones of one fleet that they keep in      *)
(* step, so the encrypted kubeconfig is one file.  Each call may fail, before or  *)
(* after its effect, and each process may die.                                    *)
(*                                                                                *)
(* Simplifications: a kubeconfig is its token (which server it names, and the     *)
(* temporaries a dead process leaves, are in the README); the sops call hides the *)
(* token or the file is not promoted; a dry run and status change nothing.        *)
EXTENDS Integers

CONSTANTS Keepers,         \* processes of the command
          MaxKeyCommands   \* commands each of them runs

ASSUME KeeperAssumption == MaxKeyCommands \in Nat

VARIABLES secret,   \* Secret break-glass-token: NoSecret, Unfilled or its token
          minted,   \* tokens the controller has minted
          keyFile,  \* break-glass-kubeconfig.enc.yaml: its token, NoSecret if it is not there
          keeper    \* the processes

breakVars == <<secret, minted, keyFile, keeper>>

NoSecret == -1
Unfilled == 0

BreakTypeOK ==
  /\ secret \in Int /\ minted \in Nat /\ keyFile \in Int
  /\ keeper \in [Keepers -> [at : {"ended", "delete", "apply", "wait", "encrypt",
                                    "decrypt", "shell"},
                             kind : {"none", "adopt", "use", "rotate"}, token : Int,
                             alone : BOOLEAN, ok : BOOLEAN, left : 0..MaxKeyCommands]]

BreakInit ==
  /\ secret = NoSecret /\ minted = 0 /\ keyFile = NoSecret
  /\ keeper = [k \in Keepers |-> [at |-> "ended", kind |-> "none", token |-> NoSecret,
                                  alone |-> FALSE, ok |-> FALSE, left |-> MaxKeyCommands]]

KeeperAt(k, at) == keeper[k].at = at
KeeperTo(k, at) == keeper' = [keeper EXCEPT ![k].at = at]
KeeperEnds(k, ok) == keeper' = [keeper EXCEPT ![k].at = "ended", ![k].ok = ok]

\* alone: no other adopt or rotate is at work from its start to its end.
AtWork(k) == keeper[k].at \notin {"ended", "decrypt", "shell"}
Begin(k, kind, at) ==
  /\ KeeperAt(k, "ended") /\ keeper[k].left > 0
  /\ keeper' = [o \in Keepers |->
       IF o # k THEN [keeper[o] EXCEPT !.alone = @ /\ kind = "use"]
       ELSE [at |-> at, kind |-> kind, token |-> NoSecret, ok |-> FALSE,
             alone |-> \A p \in Keepers : ~AtWork(p), left |-> keeper[k].left - 1]]
  /\ UNCHANGED <<secret, minted, keyFile>>

Adopt(k) == Begin(k, "adopt", "apply")

\* Mutant: the Secret is not deleted, only applied again.
RotateInPlace(k) == keyFile # NoSecret /\ Begin(k, "rotate", "apply")

Rotate(k) == keyFile # NoSecret /\ Begin(k, "rotate", "delete")

Use(k) == keyFile # NoSecret /\ Begin(k, "use", "decrypt")

DeleteSecret(k) ==
  /\ KeeperAt(k, "delete") /\ KeeperTo(k, "apply") /\ secret' = NoSecret
  /\ UNCHANGED <<minted, keyFile>>

\* kubectl apply leaves the data of a Secret that is there alone.
ApplyManifest(k) ==
  /\ KeeperAt(k, "apply") /\ KeeperTo(k, "wait")
  /\ secret' = IF secret = NoSecret THEN Unfilled ELSE secret
  /\ UNCHANGED <<minted, keyFile>>

\* The token controller fills the Secret in.
Populate ==
  /\ secret = Unfilled /\ minted' = minted + 1 /\ secret' = minted + 1
  /\ UNCHANGED <<keyFile, keeper>>

WaitForToken(k) ==
  /\ KeeperAt(k, "wait") /\ secret > Unfilled
  /\ keeper' = [keeper EXCEPT ![k].at = "encrypt", ![k].token = secret]
  /\ UNCHANGED <<secret, minted, keyFile>>

\* The temporary is encrypted and renamed over the file.
SopsEncryptToFile(k) ==
  /\ KeeperAt(k, "encrypt") /\ KeeperEnds(k, TRUE) /\ keyFile' = keeper[k].token
  /\ UNCHANGED <<secret, minted>>

SopsDecryptToFile(k) ==
  /\ KeeperAt(k, "decrypt")
  /\ keeper' = [keeper EXCEPT ![k].at = "shell", ![k].token = keyFile]
  /\ UNCHANGED <<secret, minted, keyFile>>

ShellExits(k) ==
  /\ KeeperAt(k, "shell") /\ KeeperEnds(k, TRUE) /\ UNCHANGED <<secret, minted, keyFile>>

\* A call fails or times out, or the process dies.
KeeperFails(k) ==
  /\ ~KeeperAt(k, "ended") /\ KeeperEnds(k, FALSE) /\ UNCHANGED <<secret, minted, keyFile>>

BreakNext ==
  \/ Populate
  \/ \E k \in Keepers :
       \/ Adopt(k) \/ Rotate(k) \/ Use(k) \/ DeleteSecret(k) \/ ApplyManifest(k)
       \/ WaitForToken(k) \/ SopsEncryptToFile(k) \/ SopsDecryptToFile(k) \/ ShellExits(k)
       \/ KeeperFails(k)

BreakSpec == BreakInit /\ [][BreakNext]_breakVars

-----------------------------------------------------------------------------
\* When an adopt or a rotate returns success and no other was at work meanwhile, the
\* committed file holds the live token, and after a rotate no recovery shell that is
\* open then does ("Use after every session": the token such a session may have leaked
\* must be dead), whatever earlier commands failed half way.
KeeperSucceeds(k) == AtWork(k) /\ keeper'[k].at = "ended" /\ keeper'[k].ok

RotationTakesHold ==
  [][\A k \in Keepers : KeeperSucceeds(k) /\ keeper[k].alone =>
       /\ secret' > Unfilled /\ keyFile' = secret'
       /\ keeper[k].kind = "rotate" =>
            \A o \in Keepers : keeper[o].at = "shell" => keeper[o].token # secret']_breakVars
===============================================================================
