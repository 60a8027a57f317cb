--------------------------- MODULE CredentialCache ---------------------------
(* The credential files of one API server and the commands that read and write    *)
(* them, each a process of its own: the exec plugin that kubectl starts for every *)
(* call (pkg/credential/exec.go), login and logout (cmd/kube-dc/main.go) over     *)
(* internal/config/credentials.go.  Nothing locks; a save truncates the file and  *)
(* then writes it.                                                                *)
(*                                                                                *)
(* Simplifications: a refresh token is a number of its realm, a session without   *)
(* one fails as a refused refresh does; Keycloak may rotate (spend the token it   *)
(* refreshes) or not; no two realms share a slug; listing the directory and       *)
(* reading the one match is one step; logout --all deletes the files once.        *)
EXTENDS Integers, FiniteSets

CONSTANTS Realms, Clients, MaxCommands, MaxTokens

ASSUME CredAssumption ==
  /\ MaxCommands \in Nat /\ MaxTokens \in Nat \ {0} /\ IsFiniteSet(Realms)
  /\ {"legacy", "unqualified", "none"} \cap Realms = {}

VARIABLES files,      \* the legacy file and one per realm
          rotates,    \* the realms' Keycloak spends refreshed tokens
          issued,     \* refresh tokens handed out, per realm
          spent,      \* those no longer accepted, per realm
          unsaved,       \* realms whose latest token reached no file
          client,     \* the running commands
          started     \* commands started

credVars == <<files, rotates, issued, spent, unsaved, client, started>>

Legacy == "legacy"
Unqualified == "unqualified"
NoRealm == "none"
Paths == Realms \cup {Legacy}

Records == [realm : Realms, token : 1..MaxTokens, fresh : BOOLEAN]
NoRecord == [realm |-> NoRealm, token |-> 0, fresh |-> FALSE]
Absent == "absent"
Empty == "empty"
Garbled == "garbled"
File(kind) == [kind |-> kind, cred |-> NoRecord]
Holding(cred) == [kind |-> "record", cred |-> cred]

CredLabels == {"ended", "load", "fallback", "have", "refresh", "login", "truncate", "write",
               "wrote", "all", "legacy", "list", "unlink"}
NoClient == [cmd |-> "none", at |-> "ended", asked |-> NoRealm, cred |-> NoRecord,
             todo |-> {}, since |-> {}]

CredTypeOK ==
  /\ files \in [Paths -> [kind : {Absent, Empty, Garbled, "record"},
                          cred : Records \cup {NoRecord}]]
  /\ rotates \in BOOLEAN
  /\ issued \in [Realms -> 0..MaxTokens]
  /\ spent \in [Realms -> SUBSET (1..MaxTokens)]
  /\ unsaved \subseteq Realms
  /\ client \in [Clients -> [cmd : {"none", "plugin", "login", "logout"}, at : CredLabels,
                             asked : Realms \cup {Unqualified, NoRealm},
                             cred : Records \cup {NoRecord},
                             todo : SUBSET Realms, since : SUBSET Paths]]
  /\ started \in 0..MaxCommands

\* An installation that predates realm files holds one legacy session, or none.
CredInit ==
  /\ rotates \in BOOLEAN
  /\ \/ files = [p \in Paths |-> File(Absent)] /\ issued = [r \in Realms |-> 0]
     \/ \E r \in Realms :
          /\ files = [p \in Paths |-> IF p = Legacy
                        THEN Holding([realm |-> r, token |-> 1, fresh |-> FALSE])
                        ELSE File(Absent)]
          /\ issued = [q \in Realms |-> IF q = r THEN 1 ELSE 0]
  /\ spent = [r \in Realms |-> {}] /\ unsaved = {}
  /\ client = [c \in Clients |-> NoClient] /\ started = 0

CredAt(c, at) == client[c].at = at
CredTo(c, at) == client' = [client EXCEPT ![c].at = at]
Ends(c) == client' = [client EXCEPT ![c] = NoClient]

KeycloakKept == UNCHANGED <<rotates, issued, spent, started>>
FilesKept == KeycloakKept /\ UNCHANGED <<files, unsaved>>

StartClient(c, cmd, asked, at) ==
  /\ CredAt(c, "ended") /\ started < MaxCommands /\ started' = started + 1
  /\ client' = [client EXCEPT ![c] = [NoClient EXCEPT !.cmd = cmd, !.asked = asked, !.at = at]]
  /\ UNCHANGED <<files, rotates, issued, spent, unsaved>>

-----------------------------------------------------------------------------
\* LoadForRealm, Load.  What does not parse is an error, never a fallback.
Takes(c, p) ==
  /\ files[p].kind = "record"
  /\ client' = [client EXCEPT ![c] = [@ EXCEPT !.at = "have", !.cred = files[p].cred]]

LoadFirst(c) ==
  /\ CredAt(c, "load")
  /\ LET p == IF client[c].asked = Unqualified THEN Legacy ELSE client[c].asked IN
     \/ Takes(c, p)
     \/ files[p].kind = Absent /\ CredTo(c, "fallback")
     \/ files[p].kind \in {Empty, Garbled} /\ Ends(c)
  /\ FilesKept

TheOnlyRealmFile == LET there == {r \in Realms : files[r].kind # Absent} IN
                    IF Cardinality(there) = 1 THEN there ELSE {}

\* Mutant: the legacy file serves any realm.
AnyLegacy(asked) == IF asked = Unqualified THEN TheOnlyRealmFile ELSE {Legacy}

\* A qualified call takes the legacy file only of its own realm; an unqualified
\* one takes the realm file that is alone.
Fallbacks(asked) == IF asked = Unqualified THEN TheOnlyRealmFile
                    ELSE {p \in {Legacy} : files[p].cred.realm = asked}

LoadFallback(c) ==
  /\ CredAt(c, "fallback")
  /\ LET from == Fallbacks(client[c].asked) IN
     \/ \E p \in from : Takes(c, p)
     \/ (\A p \in from : files[p].kind # "record") /\ Ends(c)
  /\ FilesKept

\* getCredential: a valid access token is handed out.
Decide(c) ==
  /\ CredAt(c, "have")
  /\ LET cred == client[c].cred IN
     \/ cred.fresh /\ Ends(c)
     \/ ~cred.fresh /\ CredTo(c, "refresh")
  /\ FilesKept

-----------------------------------------------------------------------------
Issues(r) ==
  /\ issued[r] < MaxTokens
  /\ issued' = [issued EXCEPT ![r] = @ + 1]

\* Keycloak answers a refresh: a new pair, the old token spent where it rotates.
Refreshes(cred) ==
  /\ cred.token \notin spent[cred.realm] /\ Issues(cred.realm)
  /\ spent' = IF rotates THEN [spent EXCEPT ![cred.realm] = @ \cup {cred.token}] ELSE spent

\* Mutant: the new refresh token is not taken over.
RefreshKeepsToken(c) ==
  /\ CredAt(c, "refresh")
  /\ LET cred == client[c].cred IN
     \/ /\ Refreshes(cred) /\ UNCHANGED unsaved
        /\ client' = [client EXCEPT ![c] = [@ EXCEPT !.at = "truncate", !.cred.fresh = TRUE]]
     \/ /\ Refreshes(cred) /\ unsaved' = unsaved \cup {cred.realm} /\ Ends(c)
     \/ UNCHANGED <<issued, spent, unsaved>> /\ Ends(c)
  /\ UNCHANGED <<files, rotates, started>>

\* The answer may be lost, the token refused or Keycloak away.
Refresh(c) ==
  /\ CredAt(c, "refresh")
  /\ LET cred == client[c].cred IN
     \/ /\ Refreshes(cred) /\ UNCHANGED unsaved
        /\ client' = [client EXCEPT ![c] =
             [@ EXCEPT !.at = "truncate", !.cred = [realm |-> cred.realm, fresh |-> TRUE,
                                                    token |-> issued[cred.realm] + 1]]]
     \/ /\ Refreshes(cred) /\ unsaved' = unsaved \cup {cred.realm} /\ Ends(c)
     \/ UNCHANGED <<issued, spent, unsaved>> /\ Ends(c)
  /\ UNCHANGED <<files, rotates, started>>

\* The browser flow of login; the session is the realm's own.
Login(c) ==
  /\ CredAt(c, "login")
  /\ LET r == client[c].asked IN
     \/ /\ Issues(r)
        /\ client' = [client EXCEPT ![c] = [@ EXCEPT !.at = "truncate",
                        !.cred = [realm |-> r, fresh |-> TRUE, token |-> issued[r] + 1]]]
     \/ UNCHANGED issued /\ Ends(c)
  /\ UNCHANGED <<files, rotates, spent, unsaved, started>>

-----------------------------------------------------------------------------
\* Save: os.WriteFile.  Every record names its realm, so it goes to that realm's
\* file, one loaded from the legacy file too.  Saved or not, the plugin hands the
\* token out.

\* The file is created or truncated; every logout under way may have passed it.
Truncate(c) ==
  /\ CredAt(c, "truncate")
  /\ LET r == client[c].cred.realm IN
     \/ /\ files' = [files EXCEPT ![r] = File(Empty)] /\ UNCHANGED unsaved
        /\ client' = [d \in Clients |->
             [client[d] EXCEPT !.at = IF d = c THEN "write" ELSE @,
                               !.since = IF client[d].cmd = "logout" THEN @ \cup {r} ELSE @]]
     \/ /\ UNCHANGED files /\ unsaved' = unsaved \cup {r}
        /\ Ends(c)
  /\ KeycloakKept

\* A write that breaks off, or a shorter record over another writer's, is garbled.
Write(c) ==
  /\ CredAt(c, "write")
  /\ LET r == client[c].cred.realm IN
     \/ files' = [files EXCEPT ![r] = Holding(client[c].cred)] /\ unsaved' = unsaved \ {r}
     \/ files' = [files EXCEPT ![r] = File(Garbled)] /\ unsaved' = unsaved \cup {r}
  /\ Ends(c)
  /\ KeycloakKept

\* The file it had opened was unlinked meanwhile.
WriteUnlinked(c) ==
  /\ CredAt(c, "wrote")
  /\ Ends(c)
  /\ FilesKept

-----------------------------------------------------------------------------
\* logout --all asks the files which servers there are; one that does not parse
\* names none.
LogoutAll(c) ==
  /\ CredAt(c, "all")
  /\ IF \E p \in Paths : files[p].kind = "record" THEN CredTo(c, "legacy") ELSE Ends(c)
  /\ FilesKept

\* Mutant: a missing legacy file ends the deletion.
DeleteStopsAtLegacy(c) ==
  /\ CredAt(c, "legacy")
  /\ \/ /\ files' = [files EXCEPT ![Legacy] = File(Absent)]
        /\ CredTo(c, IF files[Legacy].kind = Absent THEN "unlink" ELSE "list")
     \/ UNCHANGED files /\ Ends(c)
  /\ KeycloakKept /\ UNCHANGED unsaved

\* Delete: the legacy file, then every realm file that is listed.
DeleteLegacy(c) ==
  /\ CredAt(c, "legacy")
  /\ \/ files' = [files EXCEPT ![Legacy] = File(Absent)] /\ CredTo(c, "list")
     \/ UNCHANGED files /\ Ends(c)
  /\ KeycloakKept /\ UNCHANGED unsaved

ListRealmFiles(c) ==
  /\ CredAt(c, "list")
  /\ \/ client' = [client EXCEPT ![c] = [@ EXCEPT !.at = "unlink",
                       !.todo = {r \in Realms : files[r].kind # Absent}]]
     \/ Ends(c)
  /\ FilesKept

\* A process writing to the file goes on writing to no file.
DeleteRealm(c) ==
  /\ CredAt(c, "unlink")
  /\ \E r \in client[c].todo :
       \/ /\ files' = [files EXCEPT ![r] = File(Absent)]
          /\ client' = [d \in Clients |->
               IF d = c THEN [client[d] EXCEPT !.todo = @ \ {r}]
               ELSE IF CredAt(d, "write") /\ client[d].cred.realm = r
                    THEN [client[d] EXCEPT !.at = "wrote"] ELSE client[d]]
       \/ UNCHANGED files /\ Ends(c)
  /\ KeycloakKept /\ UNCHANGED unsaved

LoggedOut(c) == CredAt(c, "unlink") /\ client[c].todo = {}

LogoutEnds(c) == LoggedOut(c) /\ Ends(c) /\ FilesKept

-----------------------------------------------------------------------------
\* The process dies; a token not yet written is lost with it.
KillClient(c) ==
  /\ ~CredAt(c, "ended") /\ Ends(c)
  /\ unsaved' = IF client[c].at \in {"truncate", "write"} THEN unsaved \cup {client[c].cred.realm}
             ELSE unsaved
  /\ UNCHANGED files /\ KeycloakKept

\* The access token of a file expires.
AccessExpires ==
  /\ \E p \in Paths : files[p].cred.fresh /\ files' = [files EXCEPT ![p].cred.fresh = FALSE]
  /\ UNCHANGED <<unsaved, client>> /\ KeycloakKept

CredStep(c) ==
  \/ LoadFirst(c) \/ LoadFallback(c) \/ Decide(c) \/ Refresh(c) \/ Login(c)
  \/ Truncate(c) \/ Write(c) \/ WriteUnlinked(c)
  \/ LogoutAll(c) \/ DeleteLegacy(c) \/ ListRealmFiles(c) \/ DeleteRealm(c) \/ LogoutEnds(c)

StartCommandAs(c) ==
  \/ \E asked \in Realms \cup {Unqualified} : StartClient(c, "plugin", asked, "load")
  \/ \E r \in Realms : StartClient(c, "login", r, "login")
  \/ \E at \in {"all", "legacy"} : StartClient(c, "logout", NoRealm, at)

CredNext == \/ \E c \in Clients : StartCommandAs(c) \/ CredStep(c) \/ KillClient(c)
            \/ AccessExpires

CredSpec == CredInit /\ [][CredNext]_credVars

-----------------------------------------------------------------------------
\* "otherwise we'd hand a tenant token to an admin context" (LoadForRealm): a call
\* that names a realm is answered with that realm's token or not at all, whatever
\* the legacy file held, half-written files and processes beside it included.
QualifiedIsRight ==
  \A c \in Clients : client[c].cmd = "plugin" /\ client[c].cred # NoRecord =>
    client[c].asked \in {Unqualified, client[c].cred.realm}

\* A realm file that parses holds a refresh token Keycloak still takes, unless its
\* successor is on its way into the file or was lost (a lost answer, a failed save,
\* a death): calls that refresh side by side never save the older token last.
SpentIsReplaced ==
  \A r \in Realms :
    files[r].kind = "record" /\ files[r].cred.token \in spent[r] =>
      \/ r \in unsaved
      \/ \E c \in Clients : /\ client[c].at \in {"truncate", "write"}
                             /\ client[c].cred.realm = r /\ client[c].cred.token \notin spent[r]

\* Delete "removes the legacy file plus every realm-specific file": when it is
\* through, a file that is there was opened by a save since it began.
LogoutIsComplete ==
  \A c \in Clients : LoggedOut(c) =>
    \A p \in Paths : files[p].kind # Absent => p \in client[c].since

===============================================================================
