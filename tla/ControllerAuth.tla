----------------------------- MODULE ControllerAuth -----------------------------
(*****************************************************************************)
(* `kube-dc bootstrap openbao setup-controller-auth`: a temporary root token *)
(* from the generate-root ceremony, the privileged writes of controller auth,*)
(* the stamps on svc/openbao, and the deferred revoke - all of it over       *)
(* `kubectl exec`-style calls whose stdin, output or exit status get lost    *)
(* (cli/internal/bootstrap/adapters/openbao/client.go and                    *)
(* cli/internal/bootstrap/openbao/setup_controller_auth.go).                 *)
(*                                                                           *)
(* The vault runs at most one ceremony: "fresh" when started with the OTP    *)
(* this round holds, "stale" with another one.  The threshold share mints a  *)
(* root token, answers with it encoded, and ends the ceremony; a lost answer *)
(* is a live token nobody can decode.                                        *)
(*                                                                           *)
(* Simplifications.  One operator.  The three policy/role pairs are one pair.*)
(* A query (-status) answers the truth or not at all.  The kubectl fallback  *)
(* is one more attempt.                                                      *)
(*****************************************************************************)
EXTENDS Integers, Sequences

CONSTANTS
  T,           \* shares submitted, the threshold (3 in the code)
  Tries,       \* attempts for one share, or one write (6)
  Ceremonies,  \* outerAttempts of GenerateRoot (5)
  Checked,     \* writes whose wrapper runs under `set -eu` ({"role"})
  MaxAuthRuns  \* bound: how many times the command is started

Writes == {"enable", "config", "policy", "role"}

ASSUME ControllerAuthAssumption ==
  /\ T \in Nat \ {0} /\ Tries \in Nat \ {0} /\ Ceremonies \in Nat \ {0}
  /\ Checked \subseteq Writes /\ MaxAuthRuns \in Nat

AuthLabels == {"idle", "otp", "clear", "init", "submit", "verify", "recheck", "again",
           "write", "stamp", "revoke"}
Ceremony == [state : {"none", "stale", "fresh"}, progress : 0..(T - 1)]
NoCeremony == [state |-> "none", progress |-> 0]

\* A call that brought no parseable answer: nothing at all; a non-zero exit with
\* no output, or with text; a broken stream.
NoAnswer == {"silent", "exitEmpty", "exitText", "stream"}

VARIABLES
  ceremony, written, installed, generation,  \* the vault and svc/openbao
  pc, mode, round, share, try, step,         \* the command
  held,        \* its token: "none", "live", "garbage" (wrong OTP), "revoked"
  revocation,  \* "none"; RevokeSelf did it, warned, or only claimed to
  pending, report, authRuns

vault == <<ceremony, written, installed, generation>>
token == <<held, revocation>>
place == <<mode, round, share, try, step>>
ended == <<pending, report, authRuns>>
authVars == <<vault, token, pc, place, ended>>

AuthTypeOK ==
  /\ ceremony \in Ceremony /\ written \subseteq Writes
  /\ installed \in BOOLEAN /\ generation \in BOOLEAN
  /\ pc \in AuthLabels /\ mode \in {"full", "refresh"}
  /\ round \in 1..Ceremonies /\ share \in 1..T /\ try \in 1..(Tries + 1)
  /\ step \in 1..4
  /\ held \in {"none", "live", "garbage", "revoked"}
  /\ revocation \in {"none", "gone", "warned", "claimed"}
  /\ pending \in {"none", "failed", "ok"}
  /\ report \in {"none", "failed", "exhausted", "ok", "killed"}
  /\ authRuns \in 0..MaxAuthRuns

AuthInit ==
  /\ ceremony = NoCeremony /\ written = {} /\ installed = FALSE /\ generation = FALSE
  /\ pc = "idle" /\ mode = "full" /\ round = 1 /\ share = 1 /\ try = 1 /\ step = 1
  /\ held = "none" /\ revocation = "none"
  /\ pending = "none" /\ report = "none" /\ authRuns = 0

\* SetupControllerAuth's steps; --refresh-policy skips the first two.
Program == IF mode = "full" THEN <<"enable", "config", "policy", "role">>
                            ELSE <<"policy", "role">>

Return(r) == pc' = "idle" /\ report' = r /\ UNCHANGED <<place, pending, authRuns>>
Goto(label) == pc' = label /\ UNCHANGED <<place, ended>>

-----------------------------------------------------------------------------
\* GenerateRoot and generateRootOnce.

Start ==
  /\ pc = "idle" /\ authRuns < MaxAuthRuns
  /\ authRuns' = authRuns + 1
  /\ mode' \in {"full", "refresh"}
  /\ round' = 1 /\ share' = 1 /\ try' = 1 /\ step' = 1
  /\ held' = "none" /\ revocation' = "none"
  /\ pending' = "none" /\ report' = "none" /\ pc' = "otp"
  /\ UNCHANGED vault

\* A new OTP, then -cancel: its answer is ignored, and it may not have arrived.
GenerateOtp ==
  /\ pc = "otp"
  /\ ceremony' \in {NoCeremony} \cup (IF ceremony.state = "none" THEN {}
                                      ELSE {[ceremony EXCEPT !.state = "stale"]})
  /\ Goto("clear")
  /\ UNCHANGED <<written, installed, generation, token>>

\* No OTP after the retries (retryable), no active pod, the file backend.
OtpFails ==
  /\ pc = "otp"
  /\ Goto("again") \/ Return("failed")
  /\ UNCHANGED <<vault, token>>

\* -status shows it cleared, or never answers: `pre.Started` is then still the
\* zero value, and the ceremony goes on.
CancelSeen ==
  /\ pc = "clear"
  /\ \/ ceremony.state = "none" /\ UNCHANGED ceremony
     \/ ceremony' \in {ceremony, NoCeremony}
  /\ Goto("init")
  /\ UNCHANGED <<written, installed, generation, token>>

\* Three times it shows the old one; the last -cancel may still end it.
CancelNotSeen ==
  /\ pc = "clear" /\ ceremony.state # "none"
  /\ ceremony' \in {ceremony, NoCeremony}
  /\ Return("failed")
  /\ UNCHANGED <<written, installed, generation, token>>

\* -init, then the nonce from -status: an init refused because a ceremony is in
\* progress leaves that ceremony, whose nonce is then adopted.
Started == IF ceremony.state = "none" THEN [state |-> "fresh", progress |-> 0] ELSE ceremony

InitCeremony ==
  /\ pc = "init"
  /\ ceremony' = Started
  /\ pc' = "submit" /\ share' = 1 /\ try' = 1
  /\ UNCHANGED <<written, installed, generation, token, mode, round, step, ended>>

InitFails ==
  /\ pc = "init"
  /\ ceremony' \in {ceremony, Started}
  /\ Return("failed")
  /\ UNCHANGED <<written, installed, generation, token>>

\* A share is accepted: on to the next one.
Accept == /\ pc' = "submit" /\ share' = share + 1 /\ try' = 1
          /\ UNCHANGED <<mode, round, step, ended>>

\* Errors of one share: the next attempt re-reads -status first; the last one
\* ends the ceremony, retryable only as "exited ... ()" with an empty body.
Retry == pc' = "recheck" /\ try' = try + 1 /\ UNCHANGED <<mode, round, share, step, ended>>
ErrorReply(r) == IF try < Tries THEN Retry
                 ELSE IF r = "exitEmpty" THEN Goto("again") ELSE Return("failed")

\* An attempt that did not land, without an error.
NotLanded == IF try < Tries THEN Retry ELSE Goto("again")

\* A silent call is looked up in -status before anything else.
Reply(r) == IF r = "silent" THEN Goto("verify") ELSE ErrorReply(r)

\* A share reaches the ceremony; its answer may be lost on the way back.
ShareLands ==
  /\ pc = "submit" /\ share < T
  /\ ceremony.state # "none" /\ ceremony.progress < share
  /\ ceremony' = [ceremony EXCEPT !.progress = @ + 1]
  /\ Accept \/ \E r \in NoAnswer \ {"exitText"} : Reply(r)
  /\ UNCHANGED <<written, installed, generation, token>>

\* The threshold share: the token is minted and the ceremony is over.
ThresholdLands ==
  /\ pc = "submit" /\ share = T
  /\ ceremony.state # "none" /\ ceremony.progress = T - 1
  /\ ceremony' = NoCeremony
  /\ \/ /\ held' = IF ceremony.state = "fresh" THEN "live" ELSE "garbage"
        /\ pc' = "write" /\ try' = 1 /\ step' = 1
        /\ UNCHANGED <<mode, round, share, ended>>
     \/ /\ UNCHANGED held
        /\ \E r \in NoAnswer \ {"exitText"} : Reply(r)
  /\ UNCHANGED <<written, installed, generation, revocation>>

\* "already been provided": the loop goes round without the last-attempt check.
ShareRepeated ==
  /\ pc = "submit" /\ ceremony.state # "none" /\ ceremony.progress >= share
  /\ NotLanded
  /\ UNCHANGED <<vault, token>>

\* The share does not arrive, or there is no ceremony to take it.
ShareRefused ==
  /\ pc = "submit"
  /\ \E r \in NoAnswer : Reply(r)
  /\ UNCHANGED <<vault, token>>

Landed == ceremony.state # "none" /\ ceremony.progress >= share

\* After a silent call -status decides ...
VerifyLanded ==
  /\ pc = "verify" /\ Landed
  /\ Accept
  /\ UNCHANGED <<vault, token>>

\* ... "auto-cleared (threshold response lost)" ...
VerifyAutoCleared ==
  /\ pc = "verify" /\ share = T /\ ceremony.state = "none"
  /\ Goto("again")
  /\ UNCHANGED <<vault, token>>

\* ... or it did not land, or -status did not answer.
VerifyNotLanded ==
  /\ pc = "verify"
  /\ NotLanded
  /\ UNCHANGED <<vault, token>>

RecheckLanded ==
  /\ pc = "recheck" /\ Landed
  /\ Accept
  /\ UNCHANGED <<vault, token>>

RecheckResubmits ==
  /\ pc = "recheck"
  /\ Goto("submit")
  /\ UNCHANGED <<vault, token>>

\* ctx is cancelled in one of the pauses.
Interrupted ==
  /\ pc \in {"clear", "init", "submit", "verify", "recheck", "again"}
  /\ Return("failed")
  /\ UNCHANGED <<vault, token>>

\* The outer loop: -cancel, then another round, if there is one left.
NextRound ==
  /\ pc = "again"
  /\ ceremony' \in {ceremony, NoCeremony}
  /\ \/ /\ round < Ceremonies /\ round' = round + 1 /\ pc' = "otp"
        /\ UNCHANGED <<mode, share, try, step, ended>>
     \/ round = Ceremonies /\ Return("exhausted")
  /\ UNCHANGED <<written, installed, generation, token>>

-----------------------------------------------------------------------------
\* SetupControllerAuth through execIdempotentWriteWithRetry, with the token.

\* Mutant: no revoke is deferred.
FinishAtOnce(r) == Return(r)

\* Every return from here on goes through the deferred RevokeSelf.
Finish(r) == pc' = "revoke" /\ pending' = r /\ UNCHANGED <<place, report, authRuns>>

Kind == Program[step]
NextWrite ==
  IF step < Len(Program)
  THEN pc' = "write" /\ step' = step + 1 /\ try' = 1 /\ UNCHANGED <<mode, round, share, ended>>
  ELSE Goto("stamp")

\* No sentinel: try again, and once more through kubectl.
RetryWrite ==
  IF try <= Tries
  THEN pc' = "write" /\ try' = try + 1 /\ UNCHANGED <<mode, round, share, step, ended>>
  ELSE Finish("failed")

\* A config or a role needs its mount.
Writable == held = "live" /\ (Kind \in {"config", "role"} => "enable" \in written)

\* bao takes the write; the sentinel arrives or is lost.
WriteTaken ==
  /\ pc = "write" /\ Writable
  /\ written' = written \cup {Kind}
  /\ NextWrite \/ RetryWrite
  /\ UNCHANGED <<ceremony, installed, generation, token>>

\* bao refuses it (no token on stdin, a token that is not one, no mount, its own
\* error).  Under `set -eu` the wrapper stops there; the others print the
\* sentinel all the same.
WriteRefused ==
  /\ pc = "write"
  /\ IF Kind \in Checked THEN Finish("failed") \/ RetryWrite
                         ELSE NextWrite \/ RetryWrite
  /\ UNCHANGED <<vault, token>>

\* No active pod, no CA bundle to configure with, the command interrupted.
WriteFails ==
  /\ pc = "write"
  /\ Finish("failed")
  /\ UNCHANGED <<vault, token>>

\* SetAnnotations: the generation always, the install stamp in full mode.
StampService == generation' = TRUE /\ installed' = (installed \/ mode = "full")

Stamp ==
  /\ pc = "stamp"
  /\ StampService
  /\ Finish("ok")
  /\ UNCHANGED <<ceremony, written, token>>

StampFails ==
  /\ pc = "stamp"
  /\ StampService \/ UNCHANGED <<installed, generation>>
  /\ Finish("failed")
  /\ UNCHANGED <<ceremony, written, token>>

\* The deferred RevokeSelf, by the same retries and an unchecked wrapper: done;
\* nothing revoked and the sentinel printed; or a warning, done or not.
RevokeSelf ==
  /\ pc = "revoke"
  /\ \/ held = "live" /\ held' = "revoked" /\ revocation' = "gone"
     \/ UNCHANGED held /\ revocation' = "claimed"
     \/ held' \in {held, IF held = "live" THEN "revoked" ELSE held} /\ revocation' = "warned"
  /\ Return(pending)
  /\ UNCHANGED vault

Kill ==
  /\ pc # "idle"
  /\ Return("killed")
  /\ UNCHANGED <<vault, token>>

Generate == \/ Start \/ GenerateOtp \/ OtpFails \/ CancelSeen \/ CancelNotSeen
            \/ InitCeremony \/ InitFails \/ ShareLands \/ ThresholdLands \/ ShareRepeated
            \/ ShareRefused \/ VerifyLanded \/ VerifyAutoCleared \/ VerifyNotLanded
            \/ RecheckLanded \/ RecheckResubmits \/ Interrupted \/ NextRound
Setup == \/ WriteTaken \/ WriteRefused \/ WriteFails \/ Stamp \/ StampFails \/ RevokeSelf

AuthNext == Generate \/ Setup \/ Kill

AuthSpec == AuthInit /\ [][AuthNext]_authVars

-----------------------------------------------------------------------------
\* "We check -status FIRST before re-submitting" (generateRootOnce): whatever is
\* lost, this round's ceremony is at the share in hand or one behind it, so no
\* share is skipped and the threshold is reached with the last one.
SharesInStep ==
  pc \in {"submit", "verify", "recheck"} /\ ceremony.state = "fresh"
    => ceremony.progress \in {share - 1, share}

\* Controller auth is stamped (installed, or its policy generation) only when the
\* mount and the roles are really there, however many calls were lost and
\* whichever wrappers hide a refusal: the checked role write needs the mount.
RolesBeforeStamp == generation => {"enable", "role"} \subseteq written

\* "Defer RevokeSelf IMMEDIATELY so any subsequent error unwinds with revocation":
\* a run that ended by itself and leaves its token live has said so, or was told
\* by RevokeSelf that it is gone.
TokenAccounted ==
  pc = "idle" /\ held = "live" => revocation \in {"warned", "claimed"} \/ report = "killed"

\* "All call sites pass a wrapper that ends with `echo KUBE_DC_WRITE_OK` AFTER the
\* bao write succeeds" (execIdempotentWriteWithRetry): what is stamped installed
\* has all four writes in place.
StampIsTruthful == installed => written = Writes

=============================================================================
