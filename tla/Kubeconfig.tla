------------------------------ MODULE Kubeconfig ------------------------------
(* The operator's kubeconfig file and the commands that rewrite it, each a        *)
(* process of its own: login for an Organization and for the admin, use, ns,      *)
(* logout --remove-contexts, the context screen (internal/kubeconfig/manager.go   *)
(* and its callers) and fetch-kubeconfig, which goes by client-go and a rename    *)
(* (internal/bootstrap/clusterinit/ssh_kubeconfig.go).  Each reads the whole      *)
(* file, changes it and writes it back; nothing locks.                            *)
(*                                                                                *)
(* Simplifications: a write is one system call that completes; a file two writers *)
(* overlaid is either the later one's or does not parse; the order of the entries *)
(* matters only for the context a logout makes current, which is any one left;    *)
(* fetched clusters carry no kube-dc prefix; a project is its own namespace.      *)
EXTENDS Integers

CONSTANTS Domains, Orgs, Projects, Shells, MaxInvocations

Admin == "admin"
Master == "master"
Fetched == "fetched"        \* the entries fetch-kubeconfig names by the cluster
NoName == "none"
Certificate == "certificate"
Bare == "bare"              \* a user whose credentials were dropped

ASSUME KubeAssumption == /\ MaxInvocations \in Nat
                         /\ Domains # {} /\ Orgs # {} /\ Projects # {}
                         /\ Orgs \cap {Admin, Master, Fetched, NoName, Certificate, Bare} = {}
                         /\ Projects \cap {NoName} = {}

VARIABLES kubefile,     \* what the file holds
          shell,        \* the running commands
          invoked       \* commands started

kubeVars == <<kubefile, shell, invoked>>

\* Clusters and users are named by domain and identity, contexts by project too.
Identities == Orgs \cup {Admin, Fetched}
Entries == Domains \X Identities
KubeDC == (Domains \X Orgs \X Projects) \cup (Domains \X {Admin} \X {NoName})
Contexts == KubeDC \cup (Domains \X {Fetched} \X {NoName})
NoContext == <<NoName, NoName, NoName>>

Realm(identity) == IF identity = Admin THEN Master ELSE identity

\* Servers by cluster, credentials by user (the realm of the exec plugin, or a
\* certificate), references by context, and the current context.
NoEntries == [n \in {} |-> n]
EmptyConfig == [clusters |-> NoEntries, users |-> NoEntries, contexts |-> NoEntries,
                current |-> NoContext]

KubeFile(kind) == [kind |-> kind, config |-> EmptyConfig]
Stored(cfg) == [kind |-> "config", config |-> cfg]

Labels == {"ended", "load", "truncate", "write", "void", "rename"}
Idle == [cmd |-> NoName, at |-> "ended", name |-> NoContext, todo |-> {}, set |-> FALSE,
         out |-> EmptyConfig]

ConfigTypeOK(cfg) ==
  /\ DOMAIN cfg = {"clusters", "users", "contexts", "current"}
  /\ DOMAIN cfg.clusters \subseteq Entries /\ \A n \in DOMAIN cfg.clusters : cfg.clusters[n] \in Domains
  /\ DOMAIN cfg.users \subseteq Entries
  /\ \A n \in DOMAIN cfg.users : cfg.users[n] \in Orgs \cup {Master, Certificate, Bare}
  /\ DOMAIN cfg.contexts \subseteq Contexts
  /\ \A n \in DOMAIN cfg.contexts :
       cfg.contexts[n] \in [cluster : Entries, user : Entries, namespace : Projects \cup {NoName}]
  /\ cfg.current \in Contexts \cup {NoContext}

KubeTypeOK ==
  /\ kubefile.kind \in {"absent", "empty", "torn", "config"} /\ ConfigTypeOK(kubefile.config)
  /\ \A s \in Shells :
       /\ shell[s].cmd \in {NoName, "login", "use", "ns", "delete", "logout", "fetch"}
       /\ shell[s].at \in Labels /\ shell[s].name \in (Domains \X Identities \X (Projects \cup {NoName}))
                                                        \cup {NoContext}
       /\ shell[s].todo \subseteq Projects \cup Domains \cup {NoName}
       /\ shell[s].set \in BOOLEAN /\ ConfigTypeOK(shell[s].out)
  /\ invoked \in 0..MaxInvocations

ShellAt(s, at) == shell[s].at = at
Becomes(s, r) == shell' = [shell EXCEPT ![s] = r]
ShellTo(s, at) == Becomes(s, [shell[s] EXCEPT !.at = at])
Quits(s) == Becomes(s, Idle)

Invoke(s, cmd, name, todo, set) ==
  /\ ShellAt(s, "ended") /\ invoked < MaxInvocations /\ invoked' = invoked + 1
  /\ Becomes(s, [Idle EXCEPT !.cmd = cmd, !.at = "load", !.name = name, !.todo = todo, !.set = set])
  /\ UNCHANGED kubefile

-----------------------------------------------------------------------------
\* What the commands make of the configuration they loaded.

Without(f, S) == [n \in DOMAIN f \ S |-> f[n]]
Upsert(f, name, v) == [n \in DOMAIN f \cup {name} |-> IF n = name THEN v ELSE f[n]]

\* Mutant: the user is named by the domain alone.
TenantEntryShared(d, identity) == IF identity \in Orgs THEN <<d, CHOOSE o \in Orgs : TRUE>>
                                  ELSE <<d, identity>>

\* tenantContextParams and its admin twin name the user by the identity as well.
UserName(d, identity) == <<d, identity>>

\* AddKubeDCContext replaces or appends the cluster, the user and the context.
Added(cfg, d, identity, p, set) ==
  LET ctx == <<d, identity, p>> cluster == <<d, identity>> user == UserName(d, identity) IN
  [clusters |-> Upsert(cfg.clusters, cluster, d),
   users |-> Upsert(cfg.users, user, Realm(identity)),
   contexts |-> Upsert(cfg.contexts, ctx, [cluster |-> cluster, user |-> user, namespace |-> p]),
   current |-> IF set THEN ctx ELSE cfg.current]

\* Mutant: cluster and user go with the context, used by another or not.
OrphansNot(cfg, ctx) == LET r == cfg.contexts[ctx] IN [clusters |-> {r.cluster}, users |-> {r.user}]

\* The cluster and the user of a context that no other context uses.
Orphans(cfg, ctx) ==
  LET left == DOMAIN cfg.contexts \ {ctx} r == cfg.contexts[ctx] IN
  [clusters |-> {n \in {r.cluster} : \A c \in left : cfg.contexts[c].cluster # n},
   users |-> {n \in {r.user} : \A c \in left : cfg.contexts[c].user # n}]

\* RemoveContext, of one row of the context screen.
RowRemoved(cfg, ctx) ==
  LET gone == Orphans(cfg, ctx) IN
  [clusters |-> Without(cfg.clusters, gone.clusters), users |-> Without(cfg.users, gone.users),
   contexts |-> Without(cfg.contexts, {ctx}),
   current |-> IF cfg.current = ctx THEN NoContext ELSE cfg.current]

\* RemoveKubeDCContexts: the clusters of this server, the tenant users and the
\* kube-dc contexts of every server; another context may become current.
Purged(cfg, d) ==
  LET left == DOMAIN cfg.contexts \ KubeDC IN
  {[clusters |-> Without(cfg.clusters, {n \in DOMAIN cfg.clusters :
                                          n[2] # Fetched /\ cfg.clusters[n] = d}),
    users |-> Without(cfg.users, Domains \X Orgs),
    contexts |-> Without(cfg.contexts, KubeDC),
    current |-> c] :
     c \in IF cfg.current \notin KubeDC THEN {cfg.current}
           ELSE IF left = {} THEN {NoContext} ELSE left}

\* MergeKubeconfig replaces by name; a file without contexts gets a current one.
Merged(cfg, d, set) ==
  LET ctx == <<d, Fetched, NoName>> entry == <<d, Fetched>> IN
  [clusters |-> Upsert(cfg.clusters, entry, d),
   users |-> Upsert(cfg.users, entry, Certificate),
   contexts |-> Upsert(cfg.contexts, ctx, [cluster |-> entry, user |-> entry, namespace |-> NoName]),
   current |-> IF set \/ (DOMAIN cfg.contexts = {} /\ cfg.current = NoContext) THEN ctx
               ELSE cfg.current]

-----------------------------------------------------------------------------
\* No file, or one that an earlier login and an earlier fetch left; no domain,
\* Organization or project is special.
KubeInit ==
  /\ \/ kubefile = KubeFile("absent")
     \/ LET d == CHOOSE d \in Domains : TRUE
            o == CHOOSE o \in Orgs : TRUE
            p == CHOOSE p \in Projects : TRUE
        IN kubefile = Stored(Merged(Added(EmptyConfig, d, o, p, TRUE), d, FALSE))
  /\ shell = [s \in Shells |-> Idle] /\ invoked = 0

-----------------------------------------------------------------------------
\* The file as it is loaded: what is absent or empty is an empty configuration,
\* what does not parse is an error.
Parses == kubefile.kind # "torn"

\* The manager's types know no client certificate: loading drops it.
Loaded ==
  LET cfg == kubefile.config IN
  [cfg EXCEPT !.users = [n \in DOMAIN @ |-> IF @[n] = Certificate THEN Bare ELSE @[n]]]

Edits(s, cfg) == Becomes(s, [shell[s] EXCEPT !.out = cfg, !.at = "truncate"])

\* One context or server of several is done with; the first alone may set current.
Passed(s, x) == [shell[s] EXCEPT !.todo = @ \ {x}, !.set = FALSE]
Skips(s, x) == Becomes(s, IF shell[s].todo = {x} THEN Idle ELSE Passed(s, x))
EditsOne(s, x, cfg) == Becomes(s, [Passed(s, x) EXCEPT !.out = cfg, !.at = "truncate"])

\* login writes a context for each project of the token, the first made current;
\* one that fails is only warned about.
LoginAdds(s) ==
  /\ ShellAt(s, "load") /\ shell[s].cmd = "login"
  /\ \E p \in shell[s].todo :
       IF Parses
       THEN EditsOne(s, p, Added(Loaded, shell[s].name[1], shell[s].name[2], p, shell[s].set))
       ELSE Skips(s, p)
  /\ UNCHANGED <<kubefile, invoked>>

\* use and the screen look a context up, then verify it on a fresh load.
UseSets(s) ==
  /\ ShellAt(s, "load") /\ shell[s].cmd = "use"
  /\ IF Parses /\ shell[s].name \in DOMAIN kubefile.config.contexts
     THEN Edits(s, [Loaded EXCEPT !.current = shell[s].name])
     ELSE Quits(s)
  /\ UNCHANGED <<kubefile, invoked>>

\* ns, after a round trip to Keycloak, writes to whatever context is now current.
NsSets(s) ==
  /\ ShellAt(s, "load") /\ shell[s].cmd = "ns"
  /\ LET cfg == kubefile.config IN
     IF Parses /\ cfg.current \in DOMAIN cfg.contexts
     THEN \E p \in shell[s].todo : Edits(s, [Loaded EXCEPT !.contexts[cfg.current].namespace = p])
     ELSE Quits(s)
  /\ UNCHANGED <<kubefile, invoked>>

DeleteRemoves(s) ==
  /\ ShellAt(s, "load") /\ shell[s].cmd = "delete"
  /\ IF Parses /\ shell[s].name \in DOMAIN kubefile.config.contexts
     THEN Edits(s, RowRemoved(Loaded, shell[s].name))
     ELSE Quits(s)
  /\ UNCHANGED <<kubefile, invoked>>

\* logout --all goes on after a server that failed.
LogoutPurges(s) ==
  /\ ShellAt(s, "load") /\ shell[s].cmd = "logout"
  /\ \E d \in shell[s].todo :
       IF Parses THEN \E cfg \in Purged(Loaded, d) : EditsOne(s, d, cfg) ELSE Skips(s, d)
  /\ UNCHANGED <<kubefile, invoked>>

\* fetch-kubeconfig has the remote file and merges it, certificates and all.
FetchMerges(s) ==
  /\ ShellAt(s, "load") /\ shell[s].cmd = "fetch"
  /\ IF Parses
     THEN Becomes(s, [shell[s] EXCEPT !.at = "rename",
                        !.out = Merged(kubefile.config, shell[s].name[1], shell[s].set)])
     ELSE Quits(s)
  /\ UNCHANGED <<kubefile, invoked>>

-----------------------------------------------------------------------------
\* Save, in place: the file is truncated or created, then written.
TruncateFile(s) ==
  /\ ShellAt(s, "truncate")
  /\ kubefile' = KubeFile("empty") /\ ShellTo(s, "write")
  /\ UNCHANGED invoked

\* The next context or server; a command with none left is through.
Continues(s) ==
  Becomes(s, IF shell[s].cmd \in {"login", "logout"} /\ shell[s].todo # {}
             THEN [shell[s] EXCEPT !.at = "load", !.out = EmptyConfig] ELSE Idle)

\* The new text over another writer's may leave the end of that one behind it.
WriteFile(s) ==
  /\ ShellAt(s, "write")
  /\ \/ kubefile' = Stored(shell[s].out)
     \/ kubefile.kind # "empty" /\ kubefile' = KubeFile("torn")
  /\ Continues(s) /\ UNCHANGED invoked

\* The file it had opened was replaced meanwhile.
WriteVoid(s) == ShellAt(s, "void") /\ Continues(s) /\ UNCHANGED <<kubefile, invoked>>

\* The save fails: login and logout warn and go on.
SaveFails(s) ==
  /\ ShellAt(s, "truncate") /\ Continues(s)
  /\ UNCHANGED <<kubefile, invoked>>

\* MergeKubeconfig's temporary takes the place of the file; a command that has the
\* old one open writes to no file.
RenameFile(s) ==
  /\ ShellAt(s, "rename")
  /\ kubefile' = Stored(shell[s].out)
  /\ shell' = [t \in Shells |-> IF t = s THEN Idle
                 ELSE IF ShellAt(t, "write") THEN [shell[t] EXCEPT !.at = "void"] ELSE shell[t]]
  /\ UNCHANGED invoked

\* The process dies, between truncating and writing too, or a merge fails.
KillShell(s) == ~ShellAt(s, "ended") /\ Quits(s) /\ UNCHANGED <<kubefile, invoked>>

\* login --admin writes its one context as login does each of its own.
StartLogin(s) ==
  \/ \E d \in Domains, o \in Orgs, ps \in SUBSET Projects :
       ps # {} /\ Invoke(s, "login", <<d, o, NoName>>, ps, TRUE)
  \/ \E d \in Domains : Invoke(s, "login", <<d, Admin, NoName>>, {NoName}, TRUE)

\* A row is picked, or a name verified, on the file as it is.
StartOnContext(s) ==
  /\ Parses
  /\ \E c \in DOMAIN kubefile.config.contexts, cmd \in {"use", "delete"} :
       Invoke(s, cmd, c, {}, FALSE)

\* The current context must be one of kube-dc's, its cluster known.
StartNs(s) ==
  /\ Parses /\ kubefile.config.current \in KubeDC \cap DOMAIN kubefile.config.contexts
  /\ \E p \in Projects : Invoke(s, "ns", NoContext, {p}, FALSE)

StartLogout(s) ==
  \E ds \in SUBSET Domains : ds # {} /\ Invoke(s, "logout", NoContext, ds, FALSE)

StartFetch(s) ==
  \E d \in Domains, set \in BOOLEAN : Invoke(s, "fetch", <<d, Fetched, NoName>>, {}, set)

KubeNext ==
  \E s \in Shells :
    \/ StartLogin(s) \/ StartOnContext(s) \/ StartNs(s) \/ StartLogout(s) \/ StartFetch(s)
    \/ LoginAdds(s) \/ UseSets(s) \/ NsSets(s) \/ DeleteRemoves(s) \/ LogoutPurges(s)
    \/ FetchMerges(s)
    \/ TruncateFile(s) \/ WriteFile(s) \/ WriteVoid(s) \/ SaveFails(s) \/ RenameFile(s)
    \/ KillShell(s)

KubeSpec == KubeInit /\ [][KubeNext]_kubeVars

-----------------------------------------------------------------------------
\* Whatever the commands do side by side, a file that parses holds together: the
\* cluster and the user of every context are in it, and so is the current context.
\* Deleting a row takes its cluster and user only when no other row needs them
\* (RemoveContext), and logout's three name prefixes agree (RemoveKubeDCContexts).
FileHoldsTogether ==
  LET cfg == kubefile.config IN
  /\ \A c \in DOMAIN cfg.contexts : /\ cfg.contexts[c].cluster \in DOMAIN cfg.clusters
                                    /\ cfg.contexts[c].user \in DOMAIN cfg.users
  /\ cfg.current \in DOMAIN cfg.contexts \cup {NoContext}

\* A kube-dc context speaks for the Organization (or the admin) and to the server
\* of its own name, however many identities share the domain: its user asks the
\* exec plugin for that realm (tenantContextParams, execArgs).
ContextKeepsIdentity ==
  LET cfg == kubefile.config IN
  \A c \in KubeDC \cap DOMAIN cfg.contexts :
    /\ cfg.clusters[cfg.contexts[c].cluster] = c[1]
    /\ cfg.users[cfg.contexts[c].user] = Realm(c[2])

===============================================================================
