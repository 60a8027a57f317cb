---------------------------- MODULE AccessProofs ----------------------------
(*****************************************************************************)
(* Theorems about the operator's own files: kubeconfig (Kubeconfig) and the  *)
(* credential cache of the plugin (CredentialCache), for any domains, realms *)
(* and number of commands side by side.                                      *)
(*****************************************************************************)
EXTENDS Kubeconfig, CredentialCache, TLAPS

-----------------------------------------------------------------------------
(*****************************************************************************)
(* Kubeconfig, for any domains, Organizations, projects and any number of    *)
(* commands side by side.                                                    *)
(*****************************************************************************)

Partial(D, R) == UNION {[S -> R] : S \in SUBSET D}
References == [cluster : Entries, user : Entries, namespace : Projects \cup {NoName}]
Credentials == Orgs \cup {Master, Certificate, Bare}
Configs == [clusters : Partial(Entries, Domains), users : Partial(Entries, Credentials),
            contexts : Partial(Contexts, References), current : Contexts \cup {NoContext}]

\* What every configuration in the file or in a command's hands is like: a cluster
\* is the server of its name's domain, a user other than a fetched one has its
\* name's realm, a context refers to the entries of its own name, and they exist.
Sound(cfg) ==
  /\ cfg \in Configs
  /\ \A n \in DOMAIN cfg.clusters : cfg.clusters[n] = n[1]
  /\ \A n \in DOMAIN cfg.users : n[2] # Fetched => cfg.users[n] = Realm(n[2])
  /\ \A c \in DOMAIN cfg.contexts :
       /\ cfg.contexts[c].cluster = <<c[1], c[2]>> /\ cfg.contexts[c].user = <<c[1], c[2]>>
       /\ <<c[1], c[2]>> \in DOMAIN cfg.clusters /\ <<c[1], c[2]>> \in DOMAIN cfg.users
  /\ cfg.current \in DOMAIN cfg.contexts \cup {NoContext}

\* What a command is about.
Names == (Domains \X Identities \X (Projects \cup {NoName})) \cup {NoContext}
Invocations == [cmd : {NoName, "login", "use", "ns", "delete", "logout", "fetch"}, at : Labels,
                name : Names, todo : SUBSET (Projects \cup Domains \cup {NoName}),
                set : BOOLEAN, out : Configs]

AboutOK(r) ==
  /\ r.cmd = "login" => \E d \in Domains :
       \/ \E o \in Orgs : r.name = <<d, o, NoName>> /\ r.todo \subseteq Projects
       \/ r.name = <<d, Admin, NoName>> /\ r.todo \subseteq {NoName}
  /\ r.cmd = "ns" => r.todo \subseteq Projects
  /\ r.cmd = "logout" => r.todo \subseteq Domains
  /\ r.cmd = "fetch" => \E d \in Domains : r.name = <<d, Fetched, NoName>>

Files == [kind : {"absent", "empty", "torn", "config"}, config : Configs]

KubeInv ==
  /\ kubefile \in Files /\ Sound(kubefile.config)
  /\ shell \in [Shells -> Invocations]
  /\ \A s \in Shells : AboutOK(shell[s]) /\ Sound(shell[s].out)
  /\ invoked \in 0..MaxInvocations

-----------------------------------------------------------------------------
\* The operations on a configuration keep it sound.

LEMMA PartialIs ==
  ASSUME NEW D, NEW R, NEW f \in Partial(D, R)
  PROVE  DOMAIN f \subseteq D /\ f \in [DOMAIN f -> R]
  BY DEF Partial

LEMMA IsPartial ==
  ASSUME NEW D, NEW R, NEW S \in SUBSET D, NEW f \in [S -> R]
  PROVE  f \in Partial(D, R)
  BY DEF Partial

LEMMA UpsertIs ==
  ASSUME NEW D, NEW R, NEW f \in Partial(D, R), NEW n \in D, NEW v \in R
  PROVE  Upsert(f, n, v) \in Partial(D, R)
  <1>1. DOMAIN f \subseteq D /\ f \in [DOMAIN f -> R]
    BY PartialIs
  <1>2. Upsert(f, n, v) \in [DOMAIN f \cup {n} -> R]
    BY <1>1 DEF Upsert
  <1>3. DOMAIN f \cup {n} \in SUBSET D
    BY <1>1
  <1> QED
    BY <1>2, <1>3, IsPartial

LEMMA WithoutIs ==
  ASSUME NEW D, NEW R, NEW f \in Partial(D, R), NEW S
  PROVE  Without(f, S) \in Partial(D, R)
  <1>1. DOMAIN f \subseteq D /\ f \in [DOMAIN f -> R]
    BY PartialIs
  <1>2. Without(f, S) \in [DOMAIN f \ S -> R]
    BY <1>1 DEF Without
  <1>3. DOMAIN f \ S \in SUBSET D
    BY <1>1
  <1> QED
    BY <1>2, <1>3, IsPartial

LEMMA EmptySound == Sound(EmptyConfig)
  <1>1. DOMAIN NoEntries = {} /\ \A D, R : NoEntries \in Partial(D, R)
    <2>1. DOMAIN NoEntries = {} /\ \A R : NoEntries \in [{} -> R]
      BY DEF NoEntries
    <2> QED
      BY <2>1, IsPartial
  <1>2. EmptyConfig \in Configs
    BY <1>1 DEF EmptyConfig, Configs
  <1> QED
    BY <1>1, <1>2 DEF Sound, EmptyConfig

\* A new or replaced context with its own cluster and user.
LEMMA AddingSound ==
  ASSUME NEW cfg, Sound(cfg), NEW ctx \in Contexts, NEW cluster, cluster = <<ctx[1], ctx[2]>>,
         NEW cred \in Credentials, ctx[2] # Fetched => cred = Realm(ctx[2]),
         NEW ns \in Projects \cup {NoName}, NEW current \in {ctx, cfg.current}
  PROVE  Sound([clusters |-> Upsert(cfg.clusters, cluster, ctx[1]),
                users |-> Upsert(cfg.users, cluster, cred),
                contexts |-> Upsert(cfg.contexts, ctx,
                               [cluster |-> cluster, user |-> cluster, namespace |-> ns]),
                current |-> current])
  <1> DEFINE ref == [cluster |-> cluster, user |-> cluster, namespace |-> ns]
             cs == Upsert(cfg.clusters, cluster, ctx[1])
             us == Upsert(cfg.users, cluster, cred)
             xs == Upsert(cfg.contexts, ctx, ref)
             new == [clusters |-> cs, users |-> us, contexts |-> xs, current |-> current]
  <1>1. cluster \in Entries /\ ctx[1] \in Domains /\ cluster[1] = ctx[1] /\ cluster[2] = ctx[2]
    BY DEF Contexts, KubeDC, Entries, Identities
  <1>2. ref \in References
    BY <1>1 DEF References
  <1>3. /\ cfg.clusters \in Partial(Entries, Domains) /\ cfg.users \in Partial(Entries, Credentials)
        /\ cfg.contexts \in Partial(Contexts, References) /\ cfg.current \in Contexts \cup {NoContext}
    BY DEF Sound, Configs
  <1>4. cs \in Partial(Entries, Domains)
    BY <1>1, <1>3, UpsertIs
  <1>5. us \in Partial(Entries, Credentials)
    BY <1>1, <1>3, UpsertIs
  <1>6. xs \in Partial(Contexts, References)
    BY <1>2, <1>3, UpsertIs
  <1>7. /\ DOMAIN cs = DOMAIN cfg.clusters \cup {cluster} /\ cs[cluster] = ctx[1]
         /\ \A m \in DOMAIN cfg.clusters \ {cluster} : cs[m] = cfg.clusters[m]
    BY DEF Upsert
  <1>8. /\ DOMAIN us = DOMAIN cfg.users \cup {cluster} /\ us[cluster] = cred
         /\ \A m \in DOMAIN cfg.users \ {cluster} : us[m] = cfg.users[m]
    BY DEF Upsert
  <1>9. /\ DOMAIN xs = DOMAIN cfg.contexts \cup {ctx} /\ xs[ctx] = ref
         /\ \A m \in DOMAIN cfg.contexts \ {ctx} : xs[m] = cfg.contexts[m]
    BY DEF Upsert
  <1> HIDE DEF cs, us, xs
  <1>10. new \in Configs
    BY <1>3, <1>4, <1>5, <1>6 DEF Configs
  <1>11. \A n \in DOMAIN cs : cs[n] = n[1]
    BY <1>1, <1>7 DEF Sound
  <1>12. \A n \in DOMAIN us : n[2] # Fetched => us[n] = Realm(n[2])
    BY <1>1, <1>8 DEF Sound
  <1>13. ASSUME NEW c \in DOMAIN xs
         PROVE  /\ xs[c].cluster = <<c[1], c[2]>> /\ xs[c].user = <<c[1], c[2]>>
                /\ <<c[1], c[2]>> \in DOMAIN cs /\ <<c[1], c[2]>> \in DOMAIN us
    <2>1. CASE c = ctx
      BY <2>1, <1>7, <1>8, <1>9
    <2>2. CASE c # ctx
      BY <2>2, <1>13, <1>7, <1>8, <1>9 DEF Sound
    <2> QED
      BY <2>1, <2>2
  <1>14. current \in DOMAIN xs \cup {NoContext}
    BY <1>9 DEF Sound
  <1>15. Sound(new)
    BY <1>10, <1>11, <1>12, <1>13, <1>14 DEF Sound
  <1> QED
    BY <1>15 DEF cs, us, xs

LEMMA AddedSound ==
  ASSUME NEW cfg, Sound(cfg), NEW d \in Domains, NEW id, NEW p, NEW set \in BOOLEAN,
         (id \in Orgs /\ p \in Projects) \/ (id = Admin /\ p = NoName)
  PROVE  Sound(Added(cfg, d, id, p, set))
  <1> DEFINE ctx == <<d, id, p>>
  <1>1. ctx \in Contexts /\ ctx[1] = d /\ ctx[2] = id /\ id # Fetched
    BY KubeAssumption DEF Contexts, KubeDC, Admin, Fetched
  <1>2. Realm(id) \in Credentials
    BY KubeAssumption DEF Realm, Credentials, Admin
  <1>3. p \in Projects \cup {NoName} /\ (IF set THEN ctx ELSE cfg.current) \in {ctx, cfg.current}
    OBVIOUS
  <1> HIDE DEF ctx
  <1>4. Sound([clusters |-> Upsert(cfg.clusters, <<d, id>>, d),
               users |-> Upsert(cfg.users, <<d, id>>, Realm(id)),
               contexts |-> Upsert(cfg.contexts, ctx,
                              [cluster |-> <<d, id>>, user |-> <<d, id>>, namespace |-> p]),
               current |-> IF set THEN ctx ELSE cfg.current])
    BY <1>1, <1>2, <1>3, AddingSound, ZenonT(60)
  <1> QED
    BY <1>4 DEF Added, UserName, ctx

LEMMA MergedSound ==
  ASSUME NEW cfg, Sound(cfg), NEW d \in Domains, NEW set \in BOOLEAN
  PROVE  Sound(Merged(cfg, d, set))
  <1> DEFINE ctx == <<d, Fetched, NoName>>
             current == IF set \/ (DOMAIN cfg.contexts = {} /\ cfg.current = NoContext) THEN ctx
                        ELSE cfg.current
  <1>1. ctx \in Contexts /\ ctx[1] = d /\ ctx[2] = Fetched
    BY DEF Contexts
  <1>2. Certificate \in Credentials /\ current \in {ctx, cfg.current}
    BY DEF Credentials
  <1> HIDE DEF ctx, current
  <1>3. Sound([clusters |-> Upsert(cfg.clusters, <<d, Fetched>>, d),
               users |-> Upsert(cfg.users, <<d, Fetched>>, Certificate),
               contexts |-> Upsert(cfg.contexts, ctx,
                   [cluster |-> <<d, Fetched>>, user |-> <<d, Fetched>>, namespace |-> NoName]),
               current |-> current])
    BY <1>1, <1>2, AddingSound, ZenonT(60)
  <1> QED
    BY <1>3 DEF Merged, ctx, current

\* Taking contexts away, and of the clusters and users only what no context left
\* refers to; the current context is one of those left, or none.
LEMMA TakingSound ==
  ASSUME NEW cfg, Sound(cfg), NEW C, NEW U, NEW X, NEW current,
         current \in (DOMAIN cfg.contexts \ X) \cup {NoContext},
         \A c \in DOMAIN cfg.contexts \ X : <<c[1], c[2]>> \notin C /\ <<c[1], c[2]>> \notin U
  PROVE  Sound([clusters |-> Without(cfg.clusters, C), users |-> Without(cfg.users, U),
                contexts |-> Without(cfg.contexts, X), current |-> current])
  <1> DEFINE cs == Without(cfg.clusters, C)
             us == Without(cfg.users, U)
             xs == Without(cfg.contexts, X)
             new == [clusters |-> cs, users |-> us, contexts |-> xs, current |-> current]
  <1>1. /\ cfg.clusters \in Partial(Entries, Domains) /\ cfg.users \in Partial(Entries, Credentials)
        /\ cfg.contexts \in Partial(Contexts, References)
    BY DEF Sound, Configs
  <1>2. DOMAIN cfg.contexts \subseteq Contexts
    BY <1>1, PartialIs
  <1>3. cs \in Partial(Entries, Domains)
    BY <1>1, WithoutIs
  <1>4. us \in Partial(Entries, Credentials)
    BY <1>1, WithoutIs
  <1>5. xs \in Partial(Contexts, References)
    BY <1>1, WithoutIs
  <1>6. DOMAIN cs = DOMAIN cfg.clusters \ C /\ \A n \in DOMAIN cs : cs[n] = cfg.clusters[n]
    BY DEF Without
  <1>7. DOMAIN us = DOMAIN cfg.users \ U /\ \A n \in DOMAIN us : us[n] = cfg.users[n]
    BY DEF Without
  <1>8. DOMAIN xs = DOMAIN cfg.contexts \ X /\ \A c \in DOMAIN xs : xs[c] = cfg.contexts[c]
    BY DEF Without
  <1> HIDE DEF cs, us, xs
  <1>9. new \in Configs
    BY <1>2, <1>3, <1>4, <1>5 DEF Configs
  <1>10. Sound(new)
    BY <1>6, <1>7, <1>8, <1>9 DEF Sound
  <1> QED
    BY <1>10 DEF cs, us, xs

LEMMA RowRemovedSound ==
  ASSUME NEW cfg, Sound(cfg), NEW ctx \in DOMAIN cfg.contexts
  PROVE  Sound(RowRemoved(cfg, ctx))
  <1> DEFINE gone == Orphans(cfg, ctx)
             current == IF cfg.current = ctx THEN NoContext ELSE cfg.current
  <1>1. current \in (DOMAIN cfg.contexts \ {ctx}) \cup {NoContext}
    BY DEF Sound
  <1>2. ASSUME NEW c \in DOMAIN cfg.contexts \ {ctx}
        PROVE  <<c[1], c[2]>> \notin gone.clusters /\ <<c[1], c[2]>> \notin gone.users
    BY <1>2 DEF Sound, Orphans
  <1> HIDE DEF gone, current
  <1>3. Sound([clusters |-> Without(cfg.clusters, gone.clusters),
               users |-> Without(cfg.users, gone.users),
               contexts |-> Without(cfg.contexts, {ctx}), current |-> current])
    BY <1>1, <1>2, TakingSound
  <1> QED
    BY <1>3 DEF RowRemoved, gone, current

LEMMA PurgedSound ==
  ASSUME NEW cfg, Sound(cfg), NEW d \in Domains, NEW new \in Purged(cfg, d)
  PROVE  Sound(new)
  <1> DEFINE C == {n \in DOMAIN cfg.clusters : n[2] # Fetched /\ cfg.clusters[n] = d}
             U == Domains \X Orgs
             left == DOMAIN cfg.contexts \ KubeDC
  <1>1. DOMAIN cfg.contexts \subseteq Contexts
    BY PartialIs DEF Sound, Configs
  <1>2. ASSUME NEW c \in left PROVE <<c[1], c[2]>> \notin C /\ <<c[1], c[2]>> \notin U
    <2>1. c[2] = Fetched
      BY <1>1, <1>2 DEF Contexts
    <2> QED
      BY <2>1, KubeAssumption
  <1>3. PICK current : /\ current \in left \cup {NoContext}
                       /\ new = [clusters |-> Without(cfg.clusters, C), users |-> Without(cfg.users, U),
                                 contexts |-> Without(cfg.contexts, KubeDC), current |-> current]
    <2>1. PICK current \in IF cfg.current \notin KubeDC THEN {cfg.current}
                           ELSE IF left = {} THEN {NoContext} ELSE left :
            new = [clusters |-> Without(cfg.clusters, C), users |-> Without(cfg.users, U),
                   contexts |-> Without(cfg.contexts, KubeDC), current |-> current]
      BY Zenon DEF Purged
    <2>2. current \in left \cup {NoContext}
      BY <2>1 DEF Sound
    <2> QED
      BY <2>1, <2>2
  <1> HIDE DEF C, U
  <1>4. Sound([clusters |-> Without(cfg.clusters, C), users |-> Without(cfg.users, U),
               contexts |-> Without(cfg.contexts, KubeDC), current |-> current])
    BY <1>2, <1>3, TakingSound
  <1> QED
    BY <1>3, <1>4

\* What loading, use and ns make of it: only credentials of fetched users, the
\* current context and namespaces change.
LEMMA LoadedSound ==
  ASSUME Sound(kubefile.config)
  PROVE  Sound(Loaded) /\ DOMAIN Loaded.contexts = DOMAIN kubefile.config.contexts
  <1> DEFINE cfg == kubefile.config
             us == [n \in DOMAIN cfg.users |-> IF cfg.users[n] = Certificate THEN Bare
                                              ELSE cfg.users[n]]
             new == [clusters |-> cfg.clusters, users |-> us, contexts |-> cfg.contexts,
                     current |-> cfg.current]
  <1>1. cfg \in Configs /\ cfg.users \in Partial(Entries, Credentials)
    BY DEF Sound, Configs
  <1>2. Loaded = new
    BY <1>1 DEF Loaded, Configs
  <1>3. DOMAIN cfg.users \in SUBSET Entries /\ cfg.users \in [DOMAIN cfg.users -> Credentials]
    BY <1>1, PartialIs
  <1>4. us \in [DOMAIN cfg.users -> Credentials]
    BY <1>3 DEF Credentials
  <1>5. us \in Partial(Entries, Credentials)
    BY <1>3, <1>4, IsPartial
  <1>6. ASSUME NEW n \in DOMAIN us, n[2] # Fetched PROVE us[n] = Realm(n[2])
    <2>1. cfg.users[n] = Realm(n[2]) /\ n \in Entries
      BY <1>3, <1>6 DEF Sound
    <2>2. Realm(n[2]) # Certificate
      BY <1>6, <2>1, KubeAssumption DEF Realm, Entries, Identities, Master, Certificate
    <2> QED
      BY <1>6, <2>1, <2>2
  <1>7. DOMAIN us = DOMAIN cfg.users
    OBVIOUS
  <1> HIDE DEF us
  <1>8. new \in Configs
    BY <1>1, <1>5 DEF Configs
  <1>9. Sound(new)
    BY <1>6, <1>7, <1>8 DEF Sound
  <1> QED
    BY <1>2, <1>9

LEMMA CurrentSound ==
  ASSUME NEW cfg, Sound(cfg), NEW ctx \in DOMAIN cfg.contexts
  PROVE  Sound([cfg EXCEPT !.current = ctx])
  <1>1. DOMAIN cfg.contexts \subseteq Contexts
    BY PartialIs DEF Sound, Configs
  <1> QED
    BY <1>1 DEF Sound, Configs

LEMMA NamespaceSound ==
  ASSUME NEW cfg, Sound(cfg), NEW ctx \in DOMAIN cfg.contexts, NEW p \in Projects
  PROVE  Sound([cfg EXCEPT !.contexts[ctx].namespace = p])
  <1> DEFINE xs == [cfg.contexts EXCEPT ![ctx].namespace = p]
             new == [cfg EXCEPT !.contexts = xs]
  <1>1. cfg \in Configs /\ cfg.contexts \in Partial(Contexts, References)
    BY DEF Sound, Configs
  <1>2. DOMAIN cfg.contexts \in SUBSET Contexts /\ cfg.contexts \in [DOMAIN cfg.contexts -> References]
    BY <1>1, PartialIs
  <1>3. xs \in [DOMAIN cfg.contexts -> References]
    BY <1>2 DEF References
  <1>4. xs \in Partial(Contexts, References)
    BY <1>2, <1>3, IsPartial
  <1>5. \A c \in DOMAIN cfg.contexts : /\ xs[c].cluster = cfg.contexts[c].cluster
                                      /\ xs[c].user = cfg.contexts[c].user
    BY <1>2 DEF References
  <1>6. DOMAIN xs = DOMAIN cfg.contexts
    OBVIOUS
  <1>7. [cfg EXCEPT !.contexts[ctx].namespace = p] = new
    BY <1>1 DEF Configs
  <1> HIDE DEF xs
  <1>8. new \in Configs
    BY <1>1, <1>4 DEF Configs
  <1>9. new.contexts = xs /\ new.clusters = cfg.clusters /\ new.users = cfg.users /\ new.current = cfg.current
    BY <1>1 DEF Configs
  <1> HIDE DEF new
  <1>10. Sound(new)
    BY <1>5, <1>6, <1>8, <1>9 DEF Sound
  <1> QED
    BY <1>7, <1>10

-----------------------------------------------------------------------------
\* The invariant is inductive.

LEMMA KubeInitInv == KubeInit => KubeInv
  <1> SUFFICES ASSUME KubeInit PROVE KubeInv
    OBVIOUS
  <1>1. EmptyConfig \in Configs /\ NoContext \in Names
    BY EmptySound DEF Sound, Names
  <1>2. Idle \in Invocations /\ AboutOK(Idle) /\ Sound(Idle.out)
    BY <1>1, EmptySound DEF Idle, Invocations, AboutOK, Labels, NoName
  <1>3. kubefile \in Files /\ Sound(kubefile.config)
    <2>1. CASE kubefile = KubeFile("absent")
      BY <1>1, <2>1, EmptySound DEF KubeFile, Files
    <2>2. ASSUME NEW cfg, Sound(cfg), kubefile = Stored(cfg)
          PROVE  kubefile \in Files /\ Sound(kubefile.config)
      BY <2>2 DEF Stored, Files, Sound
    <2>3. ASSUME NEW d \in Domains, NEW o \in Orgs, NEW p \in Projects
          PROVE  Sound(Merged(Added(EmptyConfig, d, o, p, TRUE), d, FALSE))
      BY EmptySound, AddedSound, MergedSound
    <2>4. /\ (CHOOSE d \in Domains : TRUE) \in Domains /\ (CHOOSE o \in Orgs : TRUE) \in Orgs
          /\ (CHOOSE p \in Projects : TRUE) \in Projects
      BY KubeAssumption
    <2> QED
      BY <2>1, <2>2, <2>3, <2>4 DEF KubeInit
  <1> QED
    BY <1>2, <1>3, KubeAssumption DEF KubeInit, KubeInv

\* A command moves to a record that is typed, its own and sound; the file stays sound.
LEMMA CommandMoves ==
  ASSUME KubeInv, NEW s \in Shells, NEW r \in Invocations, AboutOK(r), Sound(r.out),
         Becomes(s, r), kubefile' \in Files, Sound(kubefile'.config),
         invoked' \in 0..MaxInvocations
  PROVE  KubeInv'
  BY DEF KubeInv, Becomes

LEMMA IdleOK == Idle \in Invocations /\ AboutOK(Idle) /\ Sound(Idle.out)
  <1>1. EmptyConfig \in Configs
    BY EmptySound DEF Sound
  <1> QED
    BY <1>1, EmptySound DEF Idle, Invocations, AboutOK, Labels, NoName, Names

\* A command that ends, moves on or takes a sound configuration in hand.
LEMMA QuitsInv ==
  ASSUME KubeInv, NEW s \in Shells, Quits(s), UNCHANGED <<kubefile, invoked>>
  PROVE  KubeInv'
  BY IdleOK, CommandMoves DEF Quits, KubeInv

LEMMA EditInv ==
  ASSUME KubeInv, NEW s \in Shells, NEW r \in Invocations, r.cmd = shell[s].cmd,
         r.name = shell[s].name, r.todo \subseteq shell[s].todo, Sound(r.out),
         Becomes(s, r), UNCHANGED <<kubefile, invoked>>
  PROVE  KubeInv'
  <1>1. AboutOK(shell[s])
    BY DEF KubeInv
  <1>2. AboutOK(r)
    BY <1>1 DEF AboutOK
  <1> QED
    BY <1>2, CommandMoves DEF KubeInv

LEMMA ToInv ==
  ASSUME KubeInv, NEW s \in Shells, NEW at \in Labels, ShellTo(s, at),
         kubefile' \in Files, Sound(kubefile'.config), UNCHANGED invoked
  PROVE  KubeInv'
  <1> DEFINE r == [shell[s] EXCEPT !.at = at]
  <1>1. shell[s] \in Invocations /\ AboutOK(shell[s]) /\ Sound(shell[s].out)
    BY DEF KubeInv
  <1>2. r \in Invocations /\ AboutOK(r) /\ Sound(r.out)
    BY <1>1 DEF Invocations, AboutOK
  <1>3. Becomes(s, r)
    BY DEF ShellTo
  <1> HIDE DEF r
  <1> QED
    BY <1>2, <1>3, CommandMoves DEF KubeInv

LEMMA EditsInv ==
  ASSUME KubeInv, NEW s \in Shells, NEW cfg, Sound(cfg), Edits(s, cfg),
         UNCHANGED <<kubefile, invoked>>
  PROVE  KubeInv'
  <1> DEFINE r == [shell[s] EXCEPT !.out = cfg, !.at = "truncate"]
  <1>1. shell[s] \in Invocations /\ cfg \in Configs
    BY DEF KubeInv, Sound
  <1>2. r \in Invocations /\ r.cmd = shell[s].cmd /\ r.name = shell[s].name
        /\ r.todo = shell[s].todo /\ r.out = cfg
    BY <1>1 DEF Invocations, Labels
  <1>3. Becomes(s, r)
    BY DEF Edits
  <1> HIDE DEF r
  <1> QED
    BY <1>2, <1>3, EditInv

LEMMA EditsOneInv ==
  ASSUME KubeInv, NEW s \in Shells, NEW x, NEW cfg, Sound(cfg), EditsOne(s, x, cfg),
         UNCHANGED <<kubefile, invoked>>
  PROVE  KubeInv'
  <1> DEFINE r == [Passed(s, x) EXCEPT !.out = cfg, !.at = "truncate"]
  <1>1. shell[s] \in Invocations /\ cfg \in Configs
    BY DEF KubeInv, Sound
  <1>2. r \in Invocations /\ r.cmd = shell[s].cmd /\ r.name = shell[s].name
        /\ r.todo \subseteq shell[s].todo /\ r.out = cfg
    BY <1>1 DEF Invocations, Labels, Passed
  <1>3. Becomes(s, r)
    BY DEF EditsOne
  <1> HIDE DEF r
  <1> QED
    BY <1>2, <1>3, EditInv

LEMMA SkipsInv ==
  ASSUME KubeInv, NEW s \in Shells, NEW x, Skips(s, x), UNCHANGED <<kubefile, invoked>>
  PROVE  KubeInv'
  <1>1. CASE shell[s].todo = {x}
    BY <1>1, QuitsInv DEF Skips, Quits
  <1>2. CASE shell[s].todo # {x}
    <2> DEFINE r == Passed(s, x)
    <2>1. shell[s] \in Invocations /\ Sound(shell[s].out)
      BY DEF KubeInv
    <2>2. r \in Invocations /\ r.cmd = shell[s].cmd /\ r.name = shell[s].name
          /\ r.todo \subseteq shell[s].todo /\ r.out = shell[s].out
      BY <2>1 DEF Invocations, Passed
    <2>3. Becomes(s, r)
      BY <1>2 DEF Skips
    <2> HIDE DEF r
    <2> QED
      BY <2>1, <2>2, <2>3, EditInv
  <1> QED
    BY <1>1, <1>2

\* A command that ends, or whose next context or server is due.
LEMMA ContinuesRecord ==
  ASSUME KubeInv, NEW s \in Shells
  PROVE  \E r \in Invocations : /\ Continues(s) => Becomes(s, r)
                                /\ AboutOK(r) /\ Sound(r.out)
  <1>1. CASE shell[s].cmd \in {"login", "logout"} /\ shell[s].todo # {}
    <2> DEFINE r == [shell[s] EXCEPT !.at = "load", !.out = EmptyConfig]
    <2>1. shell[s] \in Invocations /\ AboutOK(shell[s]) /\ EmptyConfig \in Configs
      BY EmptySound DEF KubeInv, Sound
    <2>2. r \in Invocations /\ r.out = EmptyConfig
      BY <2>1 DEF Invocations, Labels
    <2>3. AboutOK(r)
      BY <2>1 DEF AboutOK, Invocations
    <2>4. Continues(s) => Becomes(s, r)
      BY <1>1 DEF Continues
    <2> QED
      BY <2>2, <2>3, <2>4, EmptySound
  <1>2. CASE ~(shell[s].cmd \in {"login", "logout"} /\ shell[s].todo # {})
    BY <1>2, IdleOK DEF Continues
  <1> QED
    BY <1>1, <1>2

LEMMA ContinuesInv ==
  ASSUME KubeInv, NEW s \in Shells, Continues(s), kubefile' \in Files, Sound(kubefile'.config),
         UNCHANGED invoked
  PROVE  KubeInv'
  <1>1. PICK r \in Invocations : Becomes(s, r) /\ AboutOK(r) /\ Sound(r.out)
    BY ContinuesRecord
  <1> QED
    BY <1>1, CommandMoves DEF KubeInv

-----------------------------------------------------------------------------
\* Each of the commands edits what it loaded soundly.
LEMMA LoginAddsInv ==
  ASSUME KubeInv, NEW s \in Shells, LoginAdds(s)
  PROVE  KubeInv'
  <1>1. PICK p \in shell[s].todo :
          IF Parses
          THEN EditsOne(s, p, Added(Loaded, shell[s].name[1], shell[s].name[2], p, shell[s].set))
          ELSE Skips(s, p)
    BY DEF LoginAdds
  <1>2. /\ shell[s] \in Invocations /\ AboutOK(shell[s])
        /\ shell[s].cmd = "login" /\ UNCHANGED <<kubefile, invoked>>
    BY DEF LoginAdds, KubeInv
  <1>3. Sound(Loaded)
    BY LoadedSound DEF KubeInv
  <1>4. PICK d \in Domains :
          \/ \E o \in Orgs : shell[s].name = <<d, o, NoName>> /\ shell[s].todo \subseteq Projects
          \/ shell[s].name = <<d, Admin, NoName>> /\ shell[s].todo \subseteq {NoName}
    BY <1>2 DEF AboutOK
  <1>5. \/ shell[s].name[2] \in Orgs /\ p \in Projects
        \/ shell[s].name[2] = Admin /\ p = NoName
    BY <1>4
  <1>6. shell[s].name[1] \in Domains /\ shell[s].set \in BOOLEAN
    BY <1>2, <1>4 DEF Invocations
  <1>7. Sound(Added(Loaded, shell[s].name[1], shell[s].name[2], p, shell[s].set))
    BY <1>3, <1>5, <1>6, AddedSound
  <1> QED
    BY <1>1, <1>2, <1>7, EditsOneInv, SkipsInv

LEMMA UseSetsInv ==
  ASSUME KubeInv, NEW s \in Shells, UseSets(s)
  PROVE  KubeInv'
  <1>1. Sound(Loaded) /\ DOMAIN Loaded.contexts = DOMAIN kubefile.config.contexts
    BY LoadedSound DEF KubeInv
  <1>2. CASE Parses /\ shell[s].name \in DOMAIN kubefile.config.contexts
    <2>1. Sound([Loaded EXCEPT !.current = shell[s].name])
      BY <1>1, <1>2, CurrentSound
    <2> QED
      BY <1>2, <2>1, EditsInv DEF UseSets
  <1>3. CASE ~(Parses /\ shell[s].name \in DOMAIN kubefile.config.contexts)
    BY <1>3, QuitsInv DEF UseSets
  <1> QED
    BY <1>2, <1>3

LEMMA NsSetsInv ==
  ASSUME KubeInv, NEW s \in Shells, NsSets(s)
  PROVE  KubeInv'
  <1> DEFINE cfg == kubefile.config
  <1>1. Sound(Loaded) /\ DOMAIN Loaded.contexts = DOMAIN cfg.contexts
    BY LoadedSound DEF KubeInv
  <1>2. CASE Parses /\ cfg.current \in DOMAIN cfg.contexts
    <2>1. PICK p \in shell[s].todo : Edits(s, [Loaded EXCEPT !.contexts[cfg.current].namespace = p])
      BY <1>2 DEF NsSets
    <2>2. p \in Projects
      BY DEF NsSets, KubeInv, AboutOK
    <2>3. Sound([Loaded EXCEPT !.contexts[cfg.current].namespace = p])
      BY <1>1, <1>2, <2>2, NamespaceSound
    <2> QED
      BY <2>1, <2>3, EditsInv DEF NsSets
  <1>3. CASE ~(Parses /\ cfg.current \in DOMAIN cfg.contexts)
    BY <1>3, QuitsInv DEF NsSets
  <1> QED
    BY <1>2, <1>3

LEMMA DeleteRemovesInv ==
  ASSUME KubeInv, NEW s \in Shells, DeleteRemoves(s)
  PROVE  KubeInv'
  <1>1. Sound(Loaded) /\ DOMAIN Loaded.contexts = DOMAIN kubefile.config.contexts
    BY LoadedSound DEF KubeInv
  <1>2. CASE Parses /\ shell[s].name \in DOMAIN kubefile.config.contexts
    <2>1. Sound(RowRemoved(Loaded, shell[s].name))
      BY <1>1, <1>2, RowRemovedSound
    <2> QED
      BY <1>2, <2>1, EditsInv DEF DeleteRemoves
  <1>3. CASE ~(Parses /\ shell[s].name \in DOMAIN kubefile.config.contexts)
    BY <1>3, QuitsInv DEF DeleteRemoves
  <1> QED
    BY <1>2, <1>3

LEMMA LogoutPurgesInv ==
  ASSUME KubeInv, NEW s \in Shells, LogoutPurges(s)
  PROVE  KubeInv'
  <1>1. Sound(Loaded)
    BY LoadedSound DEF KubeInv
  <1>2. PICK d \in shell[s].todo :
          IF Parses THEN \E cfg \in Purged(Loaded, d) : EditsOne(s, d, cfg) ELSE Skips(s, d)
    BY DEF LogoutPurges
  <1>3. d \in Domains /\ UNCHANGED <<kubefile, invoked>>
    BY DEF LogoutPurges, KubeInv, AboutOK
  <1>4. ASSUME NEW cfg \in Purged(Loaded, d), EditsOne(s, d, cfg) PROVE KubeInv'
    <2>1. Sound(cfg)
      BY <1>1, <1>3, <1>4, PurgedSound
    <2> QED
      BY <1>3, <1>4, <2>1, EditsOneInv
  <1> QED
    BY <1>2, <1>3, <1>4, SkipsInv

LEMMA FetchMergesInv ==
  ASSUME KubeInv, NEW s \in Shells, FetchMerges(s)
  PROVE  KubeInv'
  <1> DEFINE cfg == Merged(kubefile.config, shell[s].name[1], shell[s].set)
             r == [shell[s] EXCEPT !.at = "rename", !.out = cfg]
  <1>1. /\ shell[s] \in Invocations /\ AboutOK(shell[s]) /\ shell[s].cmd = "fetch"
        /\ Sound(kubefile.config) /\ UNCHANGED <<kubefile, invoked>>
    BY DEF FetchMerges, KubeInv
  <1>2. shell[s].name[1] \in Domains /\ shell[s].set \in BOOLEAN
    BY <1>1, SMTT(40) DEF AboutOK, Invocations
  <1>3. Sound(cfg) /\ cfg \in Configs
    <2>1. Sound(cfg)
      BY <1>1, <1>2, MergedSound
    <2> QED
      BY <2>1 DEF Sound
  <1>4. Parses => Becomes(s, r)
    BY DEF FetchMerges
  <1> HIDE DEF cfg
  <1>5. r \in Invocations /\ r.cmd = shell[s].cmd /\ r.name = shell[s].name
        /\ r.todo = shell[s].todo /\ r.out = cfg
    BY <1>1, <1>3 DEF Invocations, Labels
  <1> HIDE DEF r
  <1>6. CASE Parses
    BY <1>1, <1>3, <1>4, <1>5, <1>6, EditInv
  <1>7. CASE ~Parses
    BY <1>1, <1>7, QuitsInv DEF FetchMerges
  <1> QED
    BY <1>6, <1>7

-----------------------------------------------------------------------------
\* Writing the file puts a sound configuration, or none, into it.
LEMMA FilesOK ==
  /\ \A kind \in {"absent", "empty", "torn"} :
       KubeFile(kind) \in Files /\ Sound(KubeFile(kind).config)
  /\ \A cfg : Sound(cfg) => Stored(cfg) \in Files /\ Sound(Stored(cfg).config)
  <1>1. \A cfg : Sound(cfg) => cfg \in Configs
    BY DEF Sound
  <1> QED
    BY <1>1, EmptySound DEF KubeFile, Stored, Files

LEMMA TruncateFileInv ==
  ASSUME KubeInv, NEW s \in Shells, TruncateFile(s)
  PROVE  KubeInv'
  <1>1. kubefile' \in Files /\ Sound(kubefile'.config)
    BY FilesOK DEF TruncateFile
  <1> QED
    BY <1>1, ToInv DEF TruncateFile, Labels

LEMMA WriteFileInv ==
  ASSUME KubeInv, NEW s \in Shells, WriteFile(s)
  PROVE  KubeInv'
  <1>1. Sound(shell[s].out)
    BY DEF KubeInv
  <1>2. kubefile' \in Files /\ Sound(kubefile'.config)
    BY <1>1, FilesOK DEF WriteFile
  <1> QED
    BY <1>2, ContinuesInv DEF WriteFile

LEMMA RenameFileInv ==
  ASSUME KubeInv, NEW s \in Shells, RenameFile(s)
  PROVE  KubeInv'
  <1> DEFINE after(t) == IF t = s THEN Idle
                         ELSE IF ShellAt(t, "write") THEN [shell[t] EXCEPT !.at = "void"] ELSE shell[t]
  <1>1. Sound(shell[s].out) /\ invoked' \in 0..MaxInvocations
    BY DEF KubeInv, RenameFile
  <1>2. kubefile' \in Files /\ Sound(kubefile'.config)
    BY <1>1, FilesOK DEF RenameFile
  <1>3. ASSUME NEW t \in Shells
        PROVE  after(t) \in Invocations /\ AboutOK(after(t)) /\ Sound(after(t).out)
    <2>1. shell[t] \in Invocations /\ AboutOK(shell[t]) /\ Sound(shell[t].out)
      BY DEF KubeInv
    <2>2. [shell[t] EXCEPT !.at = "void"] \in Invocations
          /\ AboutOK([shell[t] EXCEPT !.at = "void"]) /\ Sound([shell[t] EXCEPT !.at = "void"].out)
      BY <2>1 DEF Invocations, Labels, AboutOK
    <2> QED
      BY <2>1, <2>2, IdleOK
  <1>4. shell' = [t \in Shells |-> after(t)]
    BY DEF RenameFile
  <1> HIDE DEF after
  <1> QED
    BY <1>1, <1>2, <1>3, <1>4 DEF KubeInv

\* Every command starts with a record of its own kind.
LEMMA InvokeInv ==
  ASSUME KubeInv, NEW s \in Shells,
         NEW cmd \in {"login", "use", "ns", "delete", "logout", "fetch"}, NEW name \in Names,
         NEW todo \in SUBSET (Projects \cup Domains \cup {NoName}), NEW set \in BOOLEAN,
         AboutOK([cmd |-> cmd, name |-> name, todo |-> todo]),
         Invoke(s, cmd, name, todo, set)
  PROVE  KubeInv'
  <1> DEFINE r == [Idle EXCEPT !.cmd = cmd, !.at = "load", !.name = name, !.todo = todo, !.set = set]
  <1>1. r \in Invocations /\ r.out = EmptyConfig /\ r.cmd = cmd /\ r.name = name /\ r.todo = todo
    BY IdleOK DEF Idle, Invocations, Labels
  <1>2. AboutOK(r)
    BY <1>1 DEF AboutOK
  <1>3. Becomes(s, r) /\ UNCHANGED kubefile /\ invoked' \in 0..MaxInvocations
    BY KubeAssumption DEF Invoke, KubeInv
  <1> HIDE DEF r
  <1> QED
    BY <1>1, <1>2, <1>3, EmptySound, CommandMoves DEF KubeInv

LEMMA StartInv ==
  ASSUME KubeInv, NEW s \in Shells,
         StartLogin(s) \/ StartOnContext(s) \/ StartNs(s) \/ StartLogout(s) \/ StartFetch(s)
  PROVE  KubeInv'
  <1>1. NoContext \in Names /\ \A d \in Domains, i \in Identities : <<d, i, NoName>> \in Names
    BY DEF Names
  <1>2. ASSUME NEW d \in Domains, NEW o \in Orgs, NEW ps \in SUBSET Projects,
               Invoke(s, "login", <<d, o, NoName>>, ps, TRUE)
        PROVE  KubeInv'
    <2>1. AboutOK([cmd |-> "login", name |-> <<d, o, NoName>>, todo |-> ps])
      BY DEF AboutOK
    <2> QED
      BY <1>1, <1>2, <2>1, InvokeInv DEF Identities
  <1>3. ASSUME NEW d \in Domains, Invoke(s, "login", <<d, Admin, NoName>>, {NoName}, TRUE)
        PROVE  KubeInv'
    <2>1. AboutOK([cmd |-> "login", name |-> <<d, Admin, NoName>>, todo |-> {NoName}])
      BY DEF AboutOK
    <2> QED
      BY <1>1, <1>3, <2>1, InvokeInv DEF Identities
  <1>4. ASSUME NEW c \in DOMAIN kubefile.config.contexts, NEW cmd \in {"use", "delete"},
               Invoke(s, cmd, c, {}, FALSE)
        PROVE  KubeInv'
    <2>1. c \in Contexts
      BY PartialIs DEF KubeInv, Sound, Configs
    <2>2. c \in Names
      BY <2>1 DEF Contexts, KubeDC, Names, Identities
    <2>3. AboutOK([cmd |-> cmd, name |-> c, todo |-> {}])
      BY DEF AboutOK
    <2> QED
      BY <1>4, <2>2, <2>3, InvokeInv
  <1>5. ASSUME NEW p \in Projects, Invoke(s, "ns", NoContext, {p}, FALSE) PROVE KubeInv'
    <2>1. AboutOK([cmd |-> "ns", name |-> NoContext, todo |-> {p}])
      BY DEF AboutOK
    <2> QED
      BY <1>1, <1>5, <2>1, InvokeInv
  <1>6. ASSUME NEW ds \in SUBSET Domains, Invoke(s, "logout", NoContext, ds, FALSE) PROVE KubeInv'
    <2>1. AboutOK([cmd |-> "logout", name |-> NoContext, todo |-> ds])
      BY DEF AboutOK
    <2> QED
      BY <1>1, <1>6, <2>1, InvokeInv
  <1>7. ASSUME NEW d \in Domains, NEW set \in BOOLEAN,
               Invoke(s, "fetch", <<d, Fetched, NoName>>, {}, set)
        PROVE  KubeInv'
    <2>1. AboutOK([cmd |-> "fetch", name |-> <<d, Fetched, NoName>>, todo |-> {}])
      BY DEF AboutOK
    <2> QED
      BY <1>1, <1>7, <2>1, InvokeInv DEF Identities
  <1> QED
    BY <1>2, <1>3, <1>4, <1>5, <1>6, <1>7 DEF StartLogin, StartOnContext, StartNs,
       StartLogout, StartFetch

LEMMA KubeNextInv == KubeInv /\ [KubeNext]_kubeVars => KubeInv'
  <1> SUFFICES ASSUME KubeInv, [KubeNext]_kubeVars PROVE KubeInv'
    OBVIOUS
  <1>1. CASE UNCHANGED kubeVars
    BY <1>1 DEF kubeVars, KubeInv
  <1>2. ASSUME NEW s \in Shells, LoginAdds(s) \/ UseSets(s) \/ NsSets(s) PROVE KubeInv'
    BY <1>2, LoginAddsInv, UseSetsInv, NsSetsInv
  <1>3. ASSUME NEW s \in Shells, DeleteRemoves(s) \/ LogoutPurges(s) \/ FetchMerges(s) PROVE KubeInv'
    BY <1>3, DeleteRemovesInv, LogoutPurgesInv, FetchMergesInv
  <1>4. ASSUME NEW s \in Shells, TruncateFile(s) \/ WriteFile(s) \/ RenameFile(s) PROVE KubeInv'
    BY <1>4, TruncateFileInv, WriteFileInv, RenameFileInv
  <1>5. ASSUME NEW s \in Shells, WriteVoid(s) \/ SaveFails(s) PROVE KubeInv'
    BY <1>5, ContinuesInv DEF WriteVoid, SaveFails, KubeInv
  <1>6. ASSUME NEW s \in Shells, KillShell(s) PROVE KubeInv'
    BY <1>6, QuitsInv DEF KillShell
  <1> QED
    BY <1>1, <1>2, <1>3, <1>4, <1>5, <1>6, StartInv DEF KubeNext

-----------------------------------------------------------------------------
\* Every configuration the file or a command holds is sound, always.
THEOREM KubeInvariant == KubeSpec => []KubeInv
  BY KubeInitInv, KubeNextInv, PTL DEF KubeSpec

\* Types: what the file and the commands hold is what manager.go can write.
THEOREM KubeTypes == KubeSpec => []KubeTypeOK
  <1>1. ASSUME NEW cfg, Sound(cfg) PROVE ConfigTypeOK(cfg)
    <2>1. /\ cfg.clusters \in Partial(Entries, Domains) /\ cfg.users \in Partial(Entries, Credentials)
          /\ cfg.contexts \in Partial(Contexts, References) /\ cfg.current \in Contexts \cup {NoContext}
          /\ DOMAIN cfg = {"clusters", "users", "contexts", "current"}
      BY <1>1 DEF Sound, Configs
    <2>2. DOMAIN cfg.clusters \subseteq Entries /\ cfg.clusters \in [DOMAIN cfg.clusters -> Domains]
      BY <2>1, PartialIs
    <2>3. DOMAIN cfg.users \subseteq Entries /\ cfg.users \in [DOMAIN cfg.users -> Credentials]
      BY <2>1, PartialIs
    <2>4. DOMAIN cfg.contexts \subseteq Contexts /\ cfg.contexts \in [DOMAIN cfg.contexts -> References]
      BY <2>1, PartialIs
    <2> QED
      BY <2>1, <2>2, <2>3, <2>4 DEF ConfigTypeOK, Credentials, References
  <1>2. KubeInv => KubeTypeOK
    BY <1>1 DEF KubeInv, KubeTypeOK, Files, Invocations, Names
  <1> QED
    BY <1>2, KubeInvariant, PTL

\* RemoveContext takes cluster and user only when no other context needs them, and
\* the prefixes of RemoveKubeDCContexts agree: no file that parses has a reference
\* to nothing, for any domains, Organizations, projects and commands side by side.
THEOREM FileSound == KubeSpec => []FileHoldsTogether
  <1>1. KubeInv => FileHoldsTogether
    BY DEF KubeInv, Sound, FileHoldsTogether
  <1> QED
    BY <1>1, KubeInvariant, PTL

\* tenantContextParams names user and cluster by domain and Organization: a context
\* never gets another identity's realm or another installation's server.
THEOREM IdentityKept == KubeSpec => []ContextKeepsIdentity
  <1>1. ASSUME KubeInv, NEW c \in KubeDC \cap DOMAIN kubefile.config.contexts
        PROVE  /\ kubefile.config.clusters[kubefile.config.contexts[c].cluster] = c[1]
               /\ kubefile.config.users[kubefile.config.contexts[c].user] = Realm(c[2])
    <2>1. c[2] # Fetched
      BY <1>1, KubeAssumption DEF KubeDC, Admin, Fetched
    <2>2. <<c[1], c[2]>>[1] = c[1] /\ <<c[1], c[2]>>[2] = c[2]
      OBVIOUS
    <2> QED
      BY <1>1, <2>1, <2>2 DEF KubeInv, Sound
  <1>2. KubeInv => ContextKeepsIdentity
    BY <1>1 DEF ContextKeepsIdentity
  <1> QED
    BY <1>2, KubeInvariant, PTL

-----------------------------------------------------------------------------
(*****************************************************************************)
(* CredentialCache, for any realms and any number of clients and commands.   *)
(*                                                                           *)
(* The argument: a token on its way into its file is held by nobody else, so *)
(* nobody can have spent it (Alone), and a spent one in a file has a successor*)
(* in the hands of a command about to save it, or one that was lost (OnItsWay).*)
(*****************************************************************************)

InHand == {"have", "refresh", "truncate", "write"}
Saving == {"truncate", "write"}
Deleting == {"all", "legacy", "list", "unlink"}

ClientRecord == [cmd : {"none", "plugin", "login", "logout"}, at : CredLabels,
                 asked : Realms \cup {Unqualified, NoRealm},
                 cred : Records \cup {NoRecord},
                 todo : SUBSET Realms, since : SUBSET Paths]
FileRecord == [kind : {Absent, Empty, Garbled, "record"}, cred : Records \cup {NoRecord}]

\* A file that parses holds a session Keycloak has handed out, a realm's file one of
\* its own realm.
FileOK(p, f) ==
  /\ f \in FileRecord
  /\ f.kind = "record" => f.cred \in Records /\ f.cred.token <= issued[f.cred.realm]
  /\ f.kind # "record" => f.cred = NoRecord
  /\ p \in Realms /\ f.kind = "record" => f.cred.realm = p

\* What a command holds is what it asked for, the file it has open is there, and what
\* a logout has behind it is gone, or was opened by a save since it began.
ClientOK(k) ==
  /\ k \in ClientRecord
  /\ k.at \in InHand => k.cred \in Records /\ k.cred.token <= issued[k.cred.realm]
  /\ k.at \in {"load", "fallback"} =>
       k.cmd = "plugin" /\ k.asked \in Realms \cup {Unqualified} /\ k.cred = NoRecord
  /\ k.at = "login" => k.cmd = "login" /\ k.asked \in Realms
  /\ k.at \in Deleting => k.cmd = "logout"
  /\ k.cmd = "plugin" /\ k.cred # NoRecord => k.asked \in {Unqualified, k.cred.realm}
  /\ k.at = "write" => files[k.cred.realm].kind # Absent
  /\ k.at \in {"list", "unlink"} => files[Legacy].kind = Absent
  /\ k.at = "unlink" => \A r \in Realms : files[r].kind # Absent => r \in k.todo \cup k.since

Same(a, b) == a.realm = b.realm /\ a.token = b.token

\* A token on its way into its file is nowhere else, so nobody can have spent it.
Alone(c) ==
  /\ client[c].cred.token \notin spent[client[c].cred.realm]
  /\ \A p \in Paths : files[p].kind = "record" => ~Same(files[p].cred, client[c].cred)
  /\ \A d \in Clients \ {c} : client[d].at \in InHand => ~Same(client[d].cred, client[c].cred)

OnItsWay(r) ==
  \/ r \in unsaved
  \/ \E c \in Clients : client[c].at \in Saving /\ client[c].cred.realm = r

KeycloakOK ==
  /\ rotates \in BOOLEAN /\ unsaved \subseteq Realms /\ started \in 0..MaxCommands
  /\ issued \in [Realms -> 0..MaxTokens]
  /\ spent \in [Realms -> SUBSET (1..MaxTokens)]
  /\ \A r \in Realms : \A t \in spent[r] : t <= issued[r]

CredInv ==
  /\ KeycloakOK
  /\ DOMAIN files = Paths /\ files = [p \in Paths |-> files[p]]
  /\ client = [c \in Clients |-> client[c]]
  /\ \A p \in Paths : FileOK(p, files[p])
  /\ \A c \in Clients : ClientOK(client[c])
  /\ \A c \in Clients : client[c].at \in Saving => Alone(c)
  /\ \A r \in Realms :
       files[r].kind = "record" /\ files[r].cred.token \in spent[r] => OnItsWay(r)

USE CredAssumption DEF Legacy, Unqualified, NoRealm, Paths, Absent, Empty, Garbled,
    InHand, Saving, Deleting

\* The invariant has the properties of the runs in it.
LEMMA InvImplies ==
  CredInv => CredTypeOK /\ QualifiedIsRight /\ SpentIsReplaced /\ LogoutIsComplete
  <1> SUFFICES ASSUME CredInv
               PROVE  CredTypeOK /\ QualifiedIsRight /\ SpentIsReplaced /\ LogoutIsComplete
    OBVIOUS
  <1>1. CredTypeOK
    BY DEF CredInv, CredTypeOK, KeycloakOK, FileOK, ClientOK, ClientRecord, FileRecord
  <1>2. QualifiedIsRight
    BY DEF CredInv, QualifiedIsRight, ClientOK
  <1>3. SpentIsReplaced
    BY DEF CredInv, SpentIsReplaced, OnItsWay, Alone
  <1>4. LogoutIsComplete
    BY DEF CredInv, LogoutIsComplete, LoggedOut, CredAt, ClientOK
  <1> QED
    BY <1>1, <1>2, <1>3, <1>4

\* A step that changes one command, which saves nothing afterwards; the files stay, and
\* a token it has not saved is known to be lost.
LEMMA ClientMoves ==
  ASSUME CredInv, NEW c \in Clients, NEW k, client' = [client EXCEPT ![c] = k],
         UNCHANGED <<files, rotates, issued, spent>>, started' \in 0..MaxCommands,
         unsaved \subseteq unsaved', unsaved' \subseteq Realms,
         client[c].at \in Saving => client[c].cred.realm \in unsaved',
         ClientOK(k), k.at \notin Saving,
         k.at \in InHand =>
           \/ client[c].at \in InHand /\ Same(k.cred, client[c].cred)
           \/ \E p \in Paths : files[p].kind = "record" /\ k.cred = files[p].cred
  PROVE  CredInv'
  <1>1. client'[c] = k /\ \A d \in Clients \ {c} : client'[d] = client[d]
    BY DEF CredInv
  <1>2. client' = [d \in Clients |-> client'[d]]
    BY DEF CredInv
  <1>3. KeycloakOK' /\ (DOMAIN files = Paths /\ files = [p \in Paths |-> files[p]])'
    BY DEF CredInv, KeycloakOK
  <1>4. (\A p \in Paths : FileOK(p, files[p]))'
    BY DEF CredInv, FileOK
  <1>5. (\A d \in Clients : ClientOK(client[d]))'
    <2>1. \A d \in Clients : ClientOK(client'[d])
      BY <1>1 DEF CredInv
    <2> QED
      BY <2>1 DEF ClientOK
  <1>6. (\A d \in Clients : client[d].at \in Saving => Alone(d))'
    <2> SUFFICES ASSUME NEW d \in Clients, client'[d].at \in Saving
                 PROVE  Alone(d)'
      OBVIOUS
    <2>1. d # c /\ client'[d] = client[d] /\ Alone(d)
      BY <1>1 DEF CredInv
    <2>2. k.at \in InHand => ~Same(k.cred, client[d].cred)
      BY <2>1 DEF Alone, Same
    <2> QED
      BY <1>1, <2>1, <2>2 DEF Alone
  <1>7. (\A r \in Realms :
           files[r].kind = "record" /\ files[r].cred.token \in spent[r] => OnItsWay(r))'
    <2> SUFFICES ASSUME NEW r \in Realms, files'[r].kind = "record",
                        files'[r].cred.token \in spent'[r]
                 PROVE  OnItsWay(r)'
      OBVIOUS
    <2>1. OnItsWay(r)
      BY DEF CredInv
    <2> QED
      BY <1>1, <2>1 DEF OnItsWay
  <1> QED
    BY <1>2, <1>3, <1>4, <1>5, <1>6, <1>7 DEF CredInv

LEMMA NobodyOK == CredInv => ClientOK(NoClient)
  BY DEF ClientOK, NoClient, ClientRecord, CredLabels

\* A command ends, and loses the session it was saving, if any.
LEMMA EndsInv ==
  ASSUME CredInv, NEW c \in Clients, Ends(c), UNCHANGED <<files, rotates, issued, spent, started>>,
         unsaved \subseteq unsaved', unsaved' \subseteq Realms,
         client[c].at \in Saving => client[c].cred.realm \in unsaved'
  PROVE  CredInv'
  <1>1. started' \in 0..MaxCommands
    BY DEF CredInv, KeycloakOK
  <1>2. NoClient.at = "ended"
    BY DEF NoClient
  <1> QED
    BY <1>1, <1>2, NobodyOK, ClientMoves DEF Ends

\* A command that only goes on to another label.
LEMMA GoesInv ==
  ASSUME CredInv, NEW c \in Clients, NEW at \in {"fallback", "refresh", "legacy"}, CredTo(c, at),
         FilesKept, at = "fallback" => client[c].at = "load",
         at = "refresh" => client[c].at = "have", at = "legacy" => client[c].at = "all"
  PROVE  CredInv'
  <1> DEFINE k == [client[c] EXCEPT !.at = at]
  <1>1. ClientOK(client[c]) /\ client[c] \in ClientRecord
    BY DEF CredInv, ClientOK
  <1>2. k \in ClientRecord /\ k.at = at /\ k.cred = client[c].cred /\ k.cmd = client[c].cmd
        /\ k.asked = client[c].asked
    BY <1>1 DEF ClientRecord, CredLabels
  <1>3. client' = [client EXCEPT ![c] = k]
    BY DEF CredTo
  <1> HIDE DEF k
  <1>4. ClientOK(k)
    BY <1>1, <1>2 DEF ClientOK
  <1>5. /\ UNCHANGED <<files, rotates, issued, spent>> /\ unsaved' = unsaved
        /\ started' \in 0..MaxCommands /\ unsaved' \subseteq Realms
    BY DEF FilesKept, KeycloakKept, CredInv, KeycloakOK
  <1>6. k.at \in InHand => client[c].at \in InHand /\ Same(k.cred, client[c].cred)
    BY <1>2 DEF Same
  <1>7. client[c].at \notin Saving
    OBVIOUS
  <1> QED
    BY <1>2, <1>3, <1>4, <1>5, <1>6, <1>7, ClientMoves

\* A command takes the record of a file it may use.
LEMMA TakesInv ==
  ASSUME CredInv, NEW c \in Clients, NEW p \in Paths, Takes(c, p), FilesKept,
         client[c].at \in {"load", "fallback"},
         files[p].kind = "record" => client[c].asked \in {Unqualified, files[p].cred.realm}
  PROVE  CredInv'
  <1> DEFINE k == [client[c] EXCEPT !.at = "have", !.cred = files[p].cred]
  <1>1. ClientOK(client[c]) /\ client[c] \in ClientRecord /\ FileOK(p, files[p])
        /\ files[p].kind = "record" /\ files[p].cred \in Records
    BY DEF CredInv, ClientOK, FileOK, Takes
  <1>2. /\ k \in ClientRecord /\ k.at = "have" /\ k.cred = files[p].cred
        /\ k.cmd = client[c].cmd /\ k.asked = client[c].asked
    BY <1>1 DEF ClientRecord, CredLabels
  <1>3. client' = [client EXCEPT ![c] = k]
    BY DEF Takes
  <1> HIDE DEF k
  <1>4. ClientOK(k)
    BY <1>1, <1>2 DEF ClientOK, FileOK
  <1>5. /\ UNCHANGED <<files, rotates, issued, spent>> /\ unsaved' = unsaved
        /\ started' \in 0..MaxCommands /\ unsaved' \subseteq Realms
    BY DEF FilesKept, KeycloakKept, CredInv, KeycloakOK
  <1> QED
    BY <1>1, <1>2, <1>3, <1>4, <1>5, ClientMoves

\* A command ends that was saving none.
LEMMA QuietEnds ==
  ASSUME CredInv, NEW c \in Clients, Ends(c), FilesKept, client[c].at \notin Saving
  PROVE  CredInv'
  <1>1. UNCHANGED <<files, rotates, issued, spent, started>> /\ unsaved' = unsaved
        /\ unsaved' \subseteq Realms
    BY DEF FilesKept, KeycloakKept, CredInv, KeycloakOK
  <1> QED
    BY <1>1, EndsInv

\* Each step of a command that leaves the files and Keycloak alone.
LEMMA LoadFirstInv == ASSUME CredInv, NEW c \in Clients, LoadFirst(c) PROVE CredInv'
  <1> DEFINE p == IF client[c].asked = Unqualified THEN Legacy ELSE client[c].asked
  <1>1. FilesKept /\ client[c].at = "load" /\ client[c].asked \in Realms \cup {Unqualified}
    BY DEF LoadFirst, CredAt, CredInv, ClientOK
  <1>2. p \in Paths /\ (files[p].kind = "record" => client[c].asked \in {Unqualified, files[p].cred.realm})
    BY <1>1 DEF CredInv, FileOK
  <1>3. CASE Takes(c, p)
    BY <1>1, <1>2, <1>3, TakesInv
  <1>4. CASE CredTo(c, "fallback")
    BY <1>1, <1>4, GoesInv
  <1>5. CASE Ends(c)
    BY <1>1, <1>5, QuietEnds
  <1> QED
    BY <1>3, <1>4, <1>5 DEF LoadFirst

LEMMA LoadFallbackInv == ASSUME CredInv, NEW c \in Clients, LoadFallback(c) PROVE CredInv'
  <1>1. FilesKept /\ client[c].at = "fallback" /\ client[c].asked \in Realms \cup {Unqualified}
    BY DEF LoadFallback, CredAt, CredInv, ClientOK
  <1>2. CASE Ends(c)
    BY <1>1, <1>2, QuietEnds
  <1>3. ASSUME NEW p \in Fallbacks(client[c].asked), Takes(c, p)
        PROVE  CredInv'
    <2>1. p \in Paths /\ client[c].asked \in {Unqualified, files[p].cred.realm}
      BY <1>1 DEF Fallbacks, TheOnlyRealmFile
    <2> QED
      BY <1>1, <1>3, <2>1, TakesInv
  <1> QED
    BY <1>2, <1>3 DEF LoadFallback

LEMMA DecideInv == ASSUME CredInv, NEW c \in Clients, Decide(c) PROVE CredInv'
  BY QuietEnds, GoesInv DEF Decide, CredAt

LEMMA LogoutAllInv == ASSUME CredInv, NEW c \in Clients, LogoutAll(c) PROVE CredInv'
  BY QuietEnds, GoesInv DEF LogoutAll, CredAt

LEMMA ListRealmFilesInv == ASSUME CredInv, NEW c \in Clients, ListRealmFiles(c) PROVE CredInv'
  <1>1. FilesKept /\ client[c].at = "list"
    BY DEF ListRealmFiles, CredAt
  <1>2. CASE Ends(c)
    BY <1>1, <1>2, QuietEnds
  <1> DEFINE there == {r \in Realms : files[r].kind # Absent}
             k == [client[c] EXCEPT !.at = "unlink", !.todo = there]
  <1>3. CASE client' = [client EXCEPT ![c] = k]
    <2>1. ClientOK(client[c]) /\ client[c] \in ClientRecord /\ there \subseteq Realms
      BY DEF CredInv, ClientOK
    <2>2. /\ k \in ClientRecord /\ k.at = "unlink" /\ k.todo = there
          /\ k.cmd = client[c].cmd /\ k.cred = client[c].cred /\ k.asked = client[c].asked
      <3> HIDE DEF there
      <3> QED
        BY <2>1 DEF ClientRecord, CredLabels
    <2> HIDE DEF k
    <2>3. ClientOK(k)
      BY <1>1, <2>1, <2>2 DEF ClientOK
    <2>4. /\ UNCHANGED <<files, rotates, issued, spent>> /\ unsaved' = unsaved
          /\ started' \in 0..MaxCommands /\ unsaved' \subseteq Realms
      BY <1>1 DEF FilesKept, KeycloakKept, CredInv, KeycloakOK
    <2> QED
      BY <1>1, <1>3, <2>2, <2>3, <2>4, ClientMoves
  <1> QED
    BY <1>2, <1>3 DEF ListRealmFiles

LEMMA StartClientInv == ASSUME CredInv, NEW c \in Clients, StartCommandAs(c) PROVE CredInv'
  <1>1. PICK cmd \in {"plugin", "login", "logout"}, asked \in Realms \cup {Unqualified, NoRealm},
             at \in {"load", "login", "all", "legacy"} :
          /\ StartClient(c, cmd, asked, at)
          /\ at = "load" => cmd = "plugin" /\ asked \in Realms \cup {Unqualified}
          /\ at = "login" => cmd = "login" /\ asked \in Realms
          /\ at \in {"all", "legacy"} => cmd = "logout"
    BY DEF StartCommandAs
  <1> DEFINE k == [NoClient EXCEPT !.cmd = cmd, !.asked = asked, !.at = at]
  <1>2. client' = [client EXCEPT ![c] = k]
    BY <1>1 DEF StartClient
  <1>3. /\ k \in ClientRecord /\ k.at = at /\ k.cmd = cmd /\ k.asked = asked /\ k.cred = NoRecord
    BY <1>1 DEF ClientRecord, CredLabels, NoClient
  <1> HIDE DEF k
  <1>4. ClientOK(k)
    BY <1>1, <1>3 DEF ClientOK
  <1>5. /\ UNCHANGED <<files, rotates, issued, spent>> /\ unsaved' = unsaved
        /\ started' \in 0..MaxCommands /\ unsaved' \subseteq Realms /\ client[c].at = "ended"
    BY <1>1 DEF StartClient, CredAt, CredInv, KeycloakOK
  <1> QED
    BY <1>1, <1>2, <1>3, <1>4, <1>5, ClientMoves

\* The process dies; a token it has not saved is lost.
LEMMA KillInv == ASSUME CredInv, NEW c \in Clients, KillClient(c) PROVE CredInv'
  <1>1. client[c].at \in Saving => client[c].cred.realm \in Realms
    BY DEF CredInv, ClientOK, Records
  <1>2. /\ unsaved \subseteq unsaved' /\ unsaved' \subseteq Realms
        /\ client[c].at \in Saving => client[c].cred.realm \in unsaved'
    BY <1>1 DEF KillClient, CredInv, KeycloakOK
  <1> QED
    BY <1>2, EndsInv DEF KillClient, KeycloakKept

-----------------------------------------------------------------------------
\* Tokens are numbers, none beyond the last one handed out.
LEMMA HeldTokens ==
  ASSUME CredInv
  PROVE  /\ \A cred \in Records : cred.realm \in Realms /\ cred.token \in Nat
         /\ \A p \in Paths : files[p].kind = "record" =>
              /\ files[p].cred.realm \in Realms /\ files[p].cred.token \in Nat
              /\ files[p].cred.token <= issued[files[p].cred.realm]
         /\ \A c \in Clients : client[c].at \in InHand =>
              /\ client[c].cred.realm \in Realms /\ client[c].cred.token \in Nat
              /\ client[c].cred.token <= issued[client[c].cred.realm]
  <1>1. \A cred \in Records : cred.realm \in Realms /\ cred.token \in Nat
    BY DEF Records
  <1>2. \A p \in Paths : files[p].kind = "record" =>
          files[p].cred \in Records /\ files[p].cred.token <= issued[files[p].cred.realm]
    BY DEF CredInv, FileOK
  <1>3. \A c \in Clients : client[c].at \in InHand =>
          client[c].cred \in Records /\ client[c].cred.token <= issued[client[c].cred.realm]
    BY DEF CredInv, ClientOK
  <1> QED
    BY <1>1, <1>2, <1>3

\* Keycloak hands out the next token of a realm; the command takes it to be saved, or it
\* is lost.
LEMMA NewTokenInv ==
  ASSUME CredInv, NEW c \in Clients, NEW r \in Realms, Issues(r),
         NEW k, client' = [client EXCEPT ![c] = k],
         \/ /\ k \in ClientRecord /\ k.at = "truncate"
            /\ k.cred = [realm |-> r, fresh |-> TRUE, token |-> issued[r] + 1]
            /\ k.cmd = "plugin" => k.asked \in {Unqualified, r}
         \/ k = NoClient /\ r \in unsaved',
         UNCHANGED <<files, rotates, started>>, client[c].at \notin Saving,
         unsaved \subseteq unsaved', unsaved' \subseteq Realms,
         spent' \in [Realms -> SUBSET (1..MaxTokens)],
         \A q \in Realms \ {r} : spent'[q] = spent[q],
         \A t \in spent'[r] \ spent[r] :
           client[c].at \in InHand /\ client[c].cred.realm = r /\ t = client[c].cred.token
  PROVE  CredInv'
  <1>1. client'[c] = k /\ \A d \in Clients \ {c} : client'[d] = client[d]
    BY DEF CredInv
  <1>2. /\ issued' \in [Realms -> 0..MaxTokens] /\ issued'[r] = issued[r] + 1 /\ issued[r] \in Nat
        /\ issued[r] + 1 \in 1..MaxTokens /\ \A q \in Realms \ {r} : issued'[q] = issued[q]
    BY DEF Issues, CredInv, KeycloakOK
  <1>3. \A q \in Realms : issued'[q] \in Nat /\ issued[q] \in Nat /\ issued[q] <= issued'[q]
    BY <1>2 DEF CredInv, KeycloakOK
  <1>4. client[c].at \in InHand => client[c].cred.token \in Nat
                                     /\ client[c].cred.token <= issued[client[c].cred.realm]
    BY HeldTokens
  <1>5. KeycloakOK'
    <2>1. ASSUME NEW q \in Realms, NEW t \in spent'[q]
          PROVE  t <= issued'[q]
      <3>1. t \in Nat
        OBVIOUS
      <3>2. CASE t \in spent[q]
        BY <1>3, <3>1, <3>2 DEF CredInv, KeycloakOK
      <3>3. CASE t \notin spent[q]
        BY <1>2, <1>4, <3>1, <3>3
      <3> QED
        BY <3>2, <3>3
    <2> QED
      BY <1>2, <2>1 DEF CredInv, KeycloakOK
  <1>6. (\A p \in Paths : FileOK(p, files[p]))'
    <2>1. ASSUME NEW p \in Paths
          PROVE  files[p].kind = "record" => files[p].cred.token <= issued'[files[p].cred.realm]
      BY <1>3, HeldTokens
    <2> QED
      BY <2>1 DEF CredInv, FileOK
  <1>7. (\A d \in Clients : ClientOK(client[d]))'
    <2>1. ASSUME NEW d \in Clients \ {c}
          PROVE  ClientOK(client[d])'
      <3>1. ClientOK(client[d]) /\ client'[d] = client[d]
        BY <1>1 DEF CredInv
      <3>2. client[d].at \in InHand => client[d].cred.realm \in Realms /\ client[d].cred.token \in Nat
        BY <3>1 DEF ClientOK, Records
      <3> QED
        BY <1>3, <3>1, <3>2 DEF ClientOK
    <2>2. ClientOK(client[c])'
      <3>1. CASE k.at = "truncate"
        <4>1. k.cred \in Records /\ k.cred.token <= issued'[k.cred.realm] /\ k.cred.realm = r
          <5>1. k.cred = [realm |-> r, fresh |-> TRUE, token |-> issued[r] + 1]
            BY <3>1 DEF NoClient
          <5>2. k.cred \in Records
            BY <1>2, <5>1 DEF Records
          <5> QED
            BY <1>2, <5>1, <5>2
        <4> QED
          BY <1>1, <3>1, <4>1 DEF ClientOK, NoClient
      <3>2. CASE k = NoClient
        BY <1>1, <3>2, NobodyOK DEF ClientOK, NoClient
      <3> QED
        BY <3>1, <3>2
    <2> QED
      BY <2>1, <2>2
  <1>8. (\A d \in Clients : client[d].at \in Saving => Alone(d))'
    <2>1. ASSUME client'[c].at \in Saving
          PROVE  Alone(c)'
      <3> k.cred = [realm |-> r, fresh |-> TRUE, token |-> issued[r] + 1]
        BY <1>1, <2>1 DEF NoClient
      <3>1. \A p \in Paths : files[p].kind = "record" => ~Same(files[p].cred, k.cred)
        BY <1>2, HeldTokens DEF Same
      <3>2. \A d \in Clients \ {c} : client[d].at \in InHand => ~Same(client[d].cred, k.cred)
        BY <1>2, HeldTokens DEF Same
      <3>3. k.cred.token \notin spent'[r]
        <4> SUFFICES ASSUME issued[r] + 1 \in spent'[r]
                     PROVE  FALSE
          OBVIOUS
        <4>1. issued[r] + 1 \notin spent[r]
          BY <1>2 DEF CredInv, KeycloakOK
        <4> QED
          BY <1>2, <1>4, <4>1
      <3> QED
        <4>1. client'[c].cred.token \notin spent'[client'[c].cred.realm]
          BY <1>1, <3>3
        <4>2. \A p \in Paths : files'[p].kind = "record" => ~Same(files'[p].cred, client'[c].cred)
          BY <1>1, <3>1
        <4>3. \A d \in Clients \ {c} :
                client'[d].at \in InHand => ~Same(client'[d].cred, client'[c].cred)
          BY <1>1, <3>2
        <4> HIDE DEF InHand
        <4> QED
          BY <4>1, <4>2, <4>3 DEF Alone, Same
    <2>2. ASSUME NEW d \in Clients \ {c}, client[d].at \in Saving
          PROVE  Alone(d)'
      <3>1. Alone(d) /\ client'[d] = client[d] /\ client[d].cred.realm \in Realms
            /\ client[d].cred.token \in Nat /\ client[d].cred.token <= issued[client[d].cred.realm]
        BY <1>1, <2>2, HeldTokens DEF CredInv
      <3>2. client[d].cred.token \notin spent'[client[d].cred.realm]
        BY <3>1, <2>2 DEF Alone, Same
      <3>3. k.at \in InHand => ~Same(k.cred, client[d].cred)
        BY <1>2, <3>1 DEF Same, NoClient
      <3> QED
        BY <1>1, <3>1, <3>2, <3>3 DEF Alone
    <2> QED
      BY <1>1, <2>1, <2>2
  <1>9. (\A q \in Realms :
           files[q].kind = "record" /\ files[q].cred.token \in spent[q] => OnItsWay(q))'
    <2> SUFFICES ASSUME NEW q \in Realms, files[q].kind = "record",
                        files[q].cred.token \in spent'[q]
                 PROVE  OnItsWay(q)'
      OBVIOUS
    <2>1. CASE q = r
      BY <1>1, <2>1 DEF OnItsWay, NoClient
    <2>2. CASE q # r
      <3>1. OnItsWay(q)
        BY <2>2 DEF CredInv
      <3> QED
        BY <1>1, <3>1 DEF OnItsWay
    <2> QED
      BY <2>1, <2>2
  <1> QED
    BY <1>5, <1>6, <1>7, <1>8, <1>9 DEF CredInv

LEMMA RefreshInv == ASSUME CredInv, NEW c \in Clients, Refresh(c) PROVE CredInv'
  <1> DEFINE cred == client[c].cred
             k == [client[c] EXCEPT !.at = "truncate",
                     !.cred = [realm |-> cred.realm, fresh |-> TRUE,
                               token |-> issued[cred.realm] + 1]]
  <1>1. /\ client[c].at = "refresh" /\ UNCHANGED <<files, rotates, started>>
        /\ cred.realm \in Realms /\ client[c] \in ClientRecord
        /\ client[c].cmd = "plugin" => client[c].asked \in {Unqualified, cred.realm}
    <2>1. client[c].at = "refresh" /\ UNCHANGED <<files, rotates, started>>
      BY DEF Refresh, CredAt
    <2>2. ClientOK(client[c]) /\ cred \in Records /\ cred.realm \in Realms
      BY <2>1, HeldTokens DEF CredInv, ClientOK
    <2>3. cred # NoRecord
      BY <2>2 DEF NoRecord
    <2> QED
      BY <2>1, <2>2, <2>3 DEF ClientOK
  <1>2. CASE Refreshes(cred)
    <2>1. Issues(cred.realm) /\ issued[cred.realm] + 1 \in 1..MaxTokens
      BY <1>1, <1>2 DEF Refreshes, Issues, CredInv, KeycloakOK
    <2>2. cred.token \in 1..MaxTokens
      BY <1>1 DEF CredInv, ClientOK, Records
    <2>3. /\ spent' \in [Realms -> SUBSET (1..MaxTokens)]
          /\ \A q \in Realms \ {cred.realm} : spent'[q] = spent[q]
          /\ \A t \in spent'[cred.realm] \ spent[cred.realm] : t = cred.token
      BY <1>1, <1>2, <2>2 DEF Refreshes, CredInv, KeycloakOK
    <2>4. CASE UNCHANGED unsaved /\ client' = [client EXCEPT ![c] = k]
      <3>1. k \in ClientRecord
        BY <1>1, <2>1 DEF ClientRecord, CredLabels, Records
      <3>2. /\ k.at = "truncate" /\ k.cmd = client[c].cmd /\ k.asked = client[c].asked
            /\ k.cred = [realm |-> cred.realm, fresh |-> TRUE, token |-> issued[cred.realm] + 1]
        BY <1>1 DEF ClientRecord
      <3> HIDE DEF k
      <3> QED
        BY <1>1, <2>1, <2>3, <2>4, <3>1, <3>2, NewTokenInv DEF CredInv, KeycloakOK
    <2>5. CASE unsaved' = unsaved \cup {cred.realm} /\ Ends(c)
      BY <1>1, <2>1, <2>3, <2>5, NewTokenInv DEF Ends, CredInv, KeycloakOK
    <2>6. CASE UNCHANGED <<issued, spent, unsaved>> /\ Ends(c)
      BY <1>1, <2>6, EndsInv DEF CredInv, KeycloakOK
    <2> QED
      BY <2>4, <2>5, <2>6 DEF Refresh
  <1>3. CASE UNCHANGED <<issued, spent, unsaved>> /\ Ends(c)
    BY <1>1, <1>3, EndsInv DEF CredInv, KeycloakOK
  <1> QED
    BY <1>2, <1>3 DEF Refresh

LEMMA LoginInv == ASSUME CredInv, NEW c \in Clients, Login(c) PROVE CredInv'
  <1> DEFINE r == client[c].asked
             k == [client[c] EXCEPT !.at = "truncate",
                     !.cred = [realm |-> r, fresh |-> TRUE, token |-> issued[r] + 1]]
  <1>1. /\ client[c].at = "login" /\ UNCHANGED <<files, rotates, started, spent, unsaved>>
        /\ r \in Realms /\ client[c] \in ClientRecord /\ client[c].cmd = "login"
    BY DEF Login, CredAt, CredInv, ClientOK
  <1>2. CASE Issues(r) /\ client' = [client EXCEPT ![c] = k]
    <2>1. issued[r] + 1 \in 1..MaxTokens
      BY <1>1, <1>2 DEF Issues, CredInv, KeycloakOK
    <2>2. k \in ClientRecord
      BY <1>1, <2>1 DEF ClientRecord, CredLabels, Records
    <2>3. /\ k.at = "truncate" /\ k.cmd = "login"
          /\ k.cred = [realm |-> r, fresh |-> TRUE, token |-> issued[r] + 1]
      BY <1>1 DEF ClientRecord
    <2>4. /\ spent' \in [Realms -> SUBSET (1..MaxTokens)] /\ unsaved' \subseteq Realms
          /\ \A q \in Realms \ {r} : spent'[q] = spent[q]
          /\ \A t \in spent'[r] \ spent[r] : FALSE
      BY <1>1 DEF CredInv, KeycloakOK
    <2> HIDE DEF k
    <2> QED
      BY <1>1, <1>2, <2>2, <2>3, <2>4, NewTokenInv
  <1>3. CASE UNCHANGED issued /\ Ends(c)
    BY <1>1, <1>3, EndsInv DEF CredInv, KeycloakOK
  <1> QED
    BY <1>2, <1>3 DEF Login

-----------------------------------------------------------------------------
\* A step on one file; the commands go on as they may.  What the new file holds is
\* handed over by a command that ends, or was there.
LEMMA FileMoves ==
  ASSUME CredInv, UNCHANGED <<rotates, issued, spent, started>>, unsaved' \subseteq Realms,
         NEW p \in Paths, NEW f, files' = [files EXCEPT ![p] = f], FileOK(p, f),
         client' = [c \in Clients |-> client'[c]],
         \A c \in Clients : ClientOK(client[c])',
         \A c \in Clients : client'[c].at \in InHand =>
           /\ client[c].at \in InHand /\ client'[c].cred = client[c].cred
           /\ client'[c].at \in Saving => client[c].at \in Saving,
         \A c \in Clients : client[c].at \in Saving /\ client'[c].at \notin Saving =>
           client[c].cred.realm \in unsaved' \/ client[c].cred.realm = p,
         unsaved \ {p} \subseteq unsaved',
         f.kind = "record" =>
           \/ /\ files[p].kind = "record" /\ Same(f.cred, files[p].cred) /\ unsaved' = unsaved
              /\ client' = client
           \/ \E c \in Clients :
                client[c].at \in Saving /\ client'[c].at \notin InHand /\ Same(f.cred, client[c].cred)
  PROVE  CredInv'
  <1>1. files'[p] = f /\ \A q \in Paths \ {p} : files'[q] = files[q]
    BY DEF CredInv
  <1>2. KeycloakOK' /\ (DOMAIN files = Paths /\ files = [q \in Paths |-> files[q]])'
    BY DEF CredInv, KeycloakOK
  <1>3. (\A q \in Paths : FileOK(q, files[q]))'
    BY <1>1 DEF CredInv, FileOK
  <1>4. (\A d \in Clients : client[d].at \in Saving => Alone(d))'
    <2> SUFFICES ASSUME NEW d \in Clients, client'[d].at \in Saving
                 PROVE  Alone(d)'
      OBVIOUS
    <2>1. Alone(d) /\ client'[d].cred = client[d].cred /\ client[d].at \in Saving
      BY DEF CredInv
    <2>2. f.kind = "record" => ~Same(f.cred, client[d].cred)
      <3> SUFFICES ASSUME f.kind = "record", Same(f.cred, client[d].cred)
                   PROVE  FALSE
        OBVIOUS
      <3>1. CASE files[p].kind = "record" /\ Same(f.cred, files[p].cred)
        BY <2>1, <3>1 DEF Alone, Same
      <3>2. ASSUME NEW c \in Clients, client[c].at \in Saving, client'[c].at \notin InHand,
                   Same(f.cred, client[c].cred)
            PROVE  FALSE
        <4>1. c # d
          BY <3>2
        <4>2. Same(client[c].cred, client[d].cred)
          BY <3>2 DEF Same
        <4> QED
          BY <2>1, <3>2, <4>1, <4>2 DEF Alone
      <3> QED
        BY <3>1, <3>2
    <2>3. \A q \in Paths : files'[q].kind = "record" => ~Same(files'[q].cred, client[d].cred)
      BY <1>1, <2>1, <2>2 DEF Alone
    <2>4. \A e \in Clients \ {d} : client'[e].at \in InHand => ~Same(client'[e].cred, client[d].cred)
      BY <2>1 DEF Alone
    <2> QED
      BY <2>1, <2>3, <2>4 DEF Alone, Same
  <1>5. (\A r \in Realms :
           files[r].kind = "record" /\ files[r].cred.token \in spent[r] => OnItsWay(r))'
    <2> SUFFICES ASSUME NEW r \in Realms, files'[r].kind = "record",
                        files'[r].cred.token \in spent[r]
                 PROVE  OnItsWay(r)'
      OBVIOUS
    <2>1. CASE r # p
      <3>1. OnItsWay(r)
        BY <1>1, <2>1 DEF CredInv
      <3>2. CASE r \in unsaved
        BY <2>1, <3>2 DEF OnItsWay
      <3>3. ASSUME NEW c \in Clients, client[c].at \in Saving, client[c].cred.realm = r
            PROVE  OnItsWay(r)'
        BY <2>1, <3>3 DEF OnItsWay
      <3> QED
        BY <3>1, <3>2, <3>3 DEF OnItsWay
    <2>2. CASE r = p
      <3>1. CASE files[p].kind = "record" /\ Same(f.cred, files[p].cred) /\ unsaved' = unsaved
                 /\ client' = client
        <4>1. OnItsWay(r)
          BY <1>1, <2>2, <3>1 DEF CredInv, Same
        <4> QED
          BY <3>1, <4>1 DEF OnItsWay
      <3>2. ASSUME NEW c \in Clients, client[c].at \in Saving, Same(f.cred, client[c].cred)
            PROVE  FALSE
        <4>1. f.cred.realm = r /\ f.cred.token \in spent[r]
          BY <1>1, <2>2 DEF FileOK
        <4> QED
          BY <3>2, <4>1 DEF CredInv, Alone, Same
      <3> QED
        BY <1>1, <2>2, <3>1, <3>2
    <2> QED
      BY <2>1, <2>2
  <1> QED
    BY <1>2, <1>3, <1>4, <1>5 DEF CredInv

\* What the updates of a client leave alone.
LEMMA AtSince ==
  ASSUME NEW k \in ClientRecord, NEW at \in CredLabels, NEW since \in SUBSET Paths
  PROVE  LET n == [k EXCEPT !.at = at, !.since = since]
         IN  /\ n \in ClientRecord /\ n.at = at /\ n.since = since /\ n.cmd = k.cmd
             /\ n.asked = k.asked /\ n.cred = k.cred /\ n.todo = k.todo
  BY DEF ClientRecord

LEMMA AtOnly ==
  ASSUME NEW k \in ClientRecord, NEW at \in CredLabels
  PROVE  LET n == [k EXCEPT !.at = at]
         IN  /\ n \in ClientRecord /\ n.at = at /\ n.since = k.since /\ n.cmd = k.cmd
             /\ n.asked = k.asked /\ n.cred = k.cred /\ n.todo = k.todo
  BY DEF ClientRecord

LEMMA TodoOnly ==
  ASSUME NEW k \in ClientRecord, NEW todo \in SUBSET Realms
  PROVE  LET n == [k EXCEPT !.todo = todo]
         IN  /\ n \in ClientRecord /\ n.at = k.at /\ n.since = k.since /\ n.cmd = k.cmd
             /\ n.asked = k.asked /\ n.cred = k.cred /\ n.todo = todo
  BY DEF ClientRecord

\* Each step that writes or removes a file.
LEMMA TruncateInv == ASSUME CredInv, NEW c \in Clients, Truncate(c) PROVE CredInv'
  <1> DEFINE r == client[c].cred.realm
  <1>1. /\ client[c].at = "truncate" /\ UNCHANGED <<rotates, issued, spent, started>>
        /\ r \in Realms
    BY HeldTokens DEF Truncate, CredAt, KeycloakKept
  <1>2. CASE UNCHANGED files /\ unsaved' = unsaved \cup {r} /\ Ends(c)
    BY <1>1, <1>2, EndsInv DEF CredInv, KeycloakOK
  <1>3. CASE /\ files' = [files EXCEPT ![r] = File(Empty)] /\ UNCHANGED unsaved
             /\ client' = [d \in Clients |->
                  [client[d] EXCEPT !.at = IF d = c THEN "write" ELSE @,
                                    !.since = IF client[d].cmd = "logout" THEN @ \cup {r} ELSE @]]
    <2>1. FileOK(r, File(Empty)) /\ File(Empty).kind = Empty
      BY DEF FileOK, File, FileRecord
    <2>2. files'[r] = File(Empty) /\ \A q \in Paths \ {r} : files'[q] = files[q]
      BY <1>1, <1>3 DEF CredInv
    <2>3. ASSUME NEW d \in Clients
          PROVE  /\ client[d] \in ClientRecord /\ client'[d] \in ClientRecord
                 /\ client'[d].at = IF d = c THEN "write" ELSE client[d].at
                 /\ client'[d].cmd = client[d].cmd /\ client'[d].cred = client[d].cred
                 /\ client'[d].asked = client[d].asked /\ client'[d].todo = client[d].todo
                 /\ client[d].since \subseteq client'[d].since
                 /\ client[d].cmd = "logout" => r \in client'[d].since
      <3> DEFINE k == client[d]
                 at == IF d = c THEN "write" ELSE k.at
                 since == IF k.cmd = "logout" THEN k.since \cup {r} ELSE k.since
      <3>1. k \in ClientRecord
        BY DEF CredInv, ClientOK
      <3>2. at \in CredLabels /\ since \in SUBSET Paths /\ k.todo \in SUBSET Realms
        BY <1>1, <3>1 DEF ClientRecord, CredLabels
      <3>3. client'[d] = [k EXCEPT !.at = at, !.since = since]
        BY <1>3
      <3> HIDE DEF k, at, since
      <3>4. /\ client'[d] \in ClientRecord /\ client'[d].at = at /\ client'[d].cmd = k.cmd
            /\ client'[d].asked = k.asked /\ client'[d].cred = k.cred
            /\ client'[d].todo = k.todo /\ client'[d].since = since
        BY <3>1, <3>2, <3>3 DEF ClientRecord
      <3> QED
        BY <3>1, <3>4 DEF k, at, since
    <2>4. ASSUME NEW d \in Clients
          PROVE  ClientOK(client[d])'
      <3>1. ClientOK(client[d])
        BY DEF CredInv
      <3>2. client'[d].at = "write" => files'[client'[d].cred.realm].kind # Absent
        BY <1>1, <2>1, <2>2, <2>3, <3>1, HeldTokens DEF ClientOK
      <3>3. client'[d].at \in {"list", "unlink"} => files'[Legacy].kind = Absent
        BY <1>1, <2>2, <2>3, <3>1 DEF ClientOK
      <3>4. client'[d].at = "unlink" =>
              \A q \in Realms : files'[q].kind # Absent => q \in client'[d].todo \cup client'[d].since
        BY <1>1, <2>2, <2>3, <3>1 DEF ClientOK
      <3> QED
        BY <1>1, <2>3, <3>1, <3>2, <3>3, <3>4 DEF ClientOK
    <2>5. client' = [d \in Clients |-> client'[d]] /\ unsaved' \subseteq Realms
      BY <1>3 DEF CredInv, KeycloakOK
    <2>6. \A d \in Clients : /\ client'[d].at \in InHand => client[d].at \in InHand
                             /\ client'[d].at \in Saving <=> client[d].at \in Saving
      BY <1>1, <2>3
    <2>7. \A d \in Clients : client'[d].at \in InHand =>
            /\ client[d].at \in InHand /\ client'[d].cred = client[d].cred
            /\ client'[d].at \in Saving => client[d].at \in Saving
      BY <2>3, <2>6
    <2>8. r \in Paths /\ UNCHANGED <<rotates, issued, spent, started>> /\ unsaved' = unsaved
          /\ files' = [files EXCEPT ![r] = File(Empty)] /\ File(Empty).kind # "record"
      BY <1>1, <1>3, <2>1
    <2> QED
      BY <2>1, <2>4, <2>5, <2>6, <2>7, <2>8, FileMoves
  <1> QED
    BY <1>2, <1>3 DEF Truncate

LEMMA WriteInv == ASSUME CredInv, NEW c \in Clients, Write(c) PROVE CredInv'
  <1> DEFINE r == client[c].cred.realm
  <1>1. /\ client[c].at = "write" /\ UNCHANGED <<rotates, issued, spent, started>>
        /\ r \in Realms /\ client' = [client EXCEPT ![c] = NoClient]
        /\ files[r].kind # Absent /\ client[c].cred \in Records
        /\ client[c].cred.token <= issued[r]
    BY HeldTokens DEF Write, CredAt, KeycloakKept, Ends, CredInv, ClientOK
  <1>2. PICK f : /\ files' = [files EXCEPT ![r] = f]
                 /\ \/ f = Holding(client[c].cred) /\ unsaved' = unsaved \ {r}
                    \/ f = File(Garbled) /\ unsaved' = unsaved \cup {r}
    BY DEF Write
  <1>3. /\ FileOK(r, f) /\ f.kind # Absent
        /\ f.kind = "record" => Same(f.cred, client[c].cred)
    BY <1>1, <1>2 DEF FileOK, Holding, File, FileRecord, Same
  <1>4. files'[r] = f /\ \A q \in Paths \ {r} : files'[q] = files[q]
    BY <1>1, <1>2 DEF CredInv
  <1>5. /\ client'[c] = NoClient /\ \A d \in Clients \ {c} : client'[d] = client[d]
        /\ client' = [d \in Clients |-> client'[d]] /\ unsaved' \subseteq Realms
        /\ unsaved \ {r} \subseteq unsaved'
    BY <1>1, <1>2 DEF CredInv, KeycloakOK
  <1>6. ASSUME NEW d \in Clients
        PROVE  ClientOK(client[d])'
    <2>1. CASE d = c
      BY <1>5, <2>1, NobodyOK DEF ClientOK, NoClient
    <2>2. CASE d # c
      <3>1. ClientOK(client[d]) /\ client'[d] = client[d]
        BY <1>5, <2>2 DEF CredInv
      <3>2. client[d].at = "write" => files'[client[d].cred.realm].kind # Absent
        BY <1>3, <1>4, <3>1, HeldTokens DEF ClientOK
      <3>3. client[d].at \in {"list", "unlink"} => files'[Legacy].kind = Absent
        BY <1>1, <1>4, <3>1 DEF ClientOK
      <3>4. client[d].at = "unlink" =>
              \A q \in Realms : files'[q].kind # Absent => q \in client[d].todo \cup client[d].since
        BY <1>1, <1>4, <3>1 DEF ClientOK
      <3> QED
        BY <1>1, <3>1, <3>2, <3>3, <3>4 DEF ClientOK
    <2> QED
      BY <2>1, <2>2
  <1>7. NoClient.at = "ended"
    BY DEF NoClient
  <1> QED
    BY <1>1, <1>2, <1>3, <1>5, <1>6, <1>7, FileMoves

LEMMA DeleteLegacyInv == ASSUME CredInv, NEW c \in Clients, DeleteLegacy(c) PROVE CredInv'
  <1>1. /\ client[c].at = "legacy" /\ UNCHANGED <<rotates, issued, spent, started, unsaved>>
    BY DEF DeleteLegacy, CredAt, KeycloakKept
  <1>2. CASE UNCHANGED files /\ Ends(c)
    BY <1>1, <1>2, EndsInv DEF CredInv, KeycloakOK
  <1>3. CASE files' = [files EXCEPT ![Legacy] = File(Absent)] /\ CredTo(c, "list")
    <2>1. FileOK(Legacy, File(Absent)) /\ File(Absent).kind = Absent
      BY DEF FileOK, File, FileRecord
    <2>2. files'[Legacy] = File(Absent) /\ \A q \in Realms : files'[q] = files[q]
      BY <1>3 DEF CredInv
    <2>a. client[c] \in ClientRecord /\ client'[c] = [client[c] EXCEPT !.at = "list"]
      BY <1>3 DEF CredTo, CredInv, ClientOK
    <2>b. /\ "list" \in CredLabels /\ client[c].since \in SUBSET Paths
          /\ client[c].todo \in SUBSET Realms
      BY <2>a DEF ClientRecord, CredLabels
    <2>c. \A d \in Clients \ {c} : client'[d] = client[d]
      BY <1>3 DEF CredTo, CredInv
    <2>d. client' = [d \in Clients |-> client'[d]] /\ unsaved' \subseteq Realms
      BY <1>1, <1>3 DEF CredTo, CredInv, KeycloakOK
    <2>3. /\ client'[c].at = "list" /\ client'[c].cmd = client[c].cmd
          /\ client'[c].cred = client[c].cred /\ client'[c].asked = client[c].asked
          /\ client'[c] \in ClientRecord
          /\ \A d \in Clients \ {c} : client'[d] = client[d]
          /\ client' = [d \in Clients |-> client'[d]] /\ unsaved' \subseteq Realms
      BY <2>a, <2>b, <2>c, <2>d, AtOnly
    <2>4. ASSUME NEW d \in Clients
          PROVE  ClientOK(client[d])'
      <3>1. ClientOK(client[d])
        BY DEF CredInv
      <3> QED
        BY <1>1, <2>1, <2>2, <2>3, <3>1, HeldTokens DEF ClientOK
    <2> QED
      BY <1>1, <1>3, <2>1, <2>3, <2>4, FileMoves
  <1> QED
    BY <1>2, <1>3 DEF DeleteLegacy

LEMMA DeleteRealmInv == ASSUME CredInv, NEW c \in Clients, DeleteRealm(c) PROVE CredInv'
  <1>1. /\ client[c].at = "unlink" /\ UNCHANGED <<rotates, issued, spent, started, unsaved>>
        /\ client[c].todo \subseteq Realms
    BY DEF DeleteRealm, CredAt, KeycloakKept, CredInv, ClientOK, ClientRecord
  <1>2. CASE UNCHANGED files /\ Ends(c)
    BY <1>1, <1>2, EndsInv DEF CredInv, KeycloakOK
  <1>3. ASSUME NEW r \in client[c].todo, files' = [files EXCEPT ![r] = File(Absent)],
               client' = [d \in Clients |->
                 IF d = c THEN [client[d] EXCEPT !.todo = @ \ {r}]
                 ELSE IF CredAt(d, "write") /\ client[d].cred.realm = r
                      THEN [client[d] EXCEPT !.at = "wrote"] ELSE client[d]]
        PROVE  CredInv'
    <2>1. FileOK(r, File(Absent)) /\ File(Absent).kind = Absent
      BY DEF FileOK, File, FileRecord
    <2>2. /\ r \in Realms /\ files'[r] = File(Absent)
          /\ \A q \in Paths \ {r} : files'[q] = files[q]
      BY <1>1, <1>3 DEF CredInv
    <2>3. ASSUME NEW d \in Clients
          PROVE  /\ client[d] \in ClientRecord /\ client'[d] \in ClientRecord
                 /\ client'[d].at = IF d # c /\ client[d].at = "write" /\ client[d].cred.realm = r
                                   THEN "wrote" ELSE client[d].at
                 /\ client'[d].cmd = client[d].cmd /\ client'[d].cred = client[d].cred
                 /\ client'[d].asked = client[d].asked /\ client'[d].since = client[d].since
                 /\ client[d].todo \ {r} \subseteq client'[d].todo
      <3>1. client[d] \in ClientRecord
        BY DEF CredInv, ClientOK
      <3>2. /\ client[d].since \in SUBSET Paths /\ client[d].todo \in SUBSET Realms
            /\ client[d].at \in CredLabels /\ "wrote" \in CredLabels
        BY <3>1 DEF ClientRecord, CredLabels
      <3>3. CASE d = c
        <4>1. client'[d] = [client[d] EXCEPT !.todo = client[d].todo \ {r}]
          BY <1>3, <3>3
        <4>2. client[d].todo \ {r} \in SUBSET Realms
          BY <3>2
        <4> QED
          BY <3>1, <3>2, <3>3, <4>1, <4>2, TodoOnly
      <3>4. CASE d # c /\ client[d].at = "write" /\ client[d].cred.realm = r
        <4>1. client'[d] = [client[d] EXCEPT !.at = "wrote"]
          BY <1>3, <3>4 DEF CredAt
        <4> QED
          BY <3>1, <3>2, <3>4, <4>1, AtOnly
      <3>5. CASE d # c /\ ~(client[d].at = "write" /\ client[d].cred.realm = r)
        <4>1. client'[d] = client[d]
          BY <1>3, <3>5 DEF CredAt
        <4> QED
          BY <3>1, <3>5, <4>1
      <3> QED
        BY <3>3, <3>4, <3>5
    <2>4. ASSUME NEW d \in Clients
          PROVE  ClientOK(client[d])'
      <3>1. ClientOK(client[d])
        BY DEF CredInv
      <3>2. client'[d].at = "write" => files'[client'[d].cred.realm].kind # Absent
        BY <1>1, <2>2, <2>3, <3>1, HeldTokens DEF ClientOK
      <3>3. client'[d].at \in {"list", "unlink"} => files'[Legacy].kind = Absent
        BY <2>2, <2>3, <3>1 DEF ClientOK
      <3>4. client'[d].at = "unlink" =>
              \A q \in Realms : files'[q].kind # Absent => q \in client'[d].todo \cup client'[d].since
        BY <2>1, <2>2, <2>3, <3>1 DEF ClientOK
      <3>5. /\ client'[d] \in ClientRecord
            /\ client'[d].at = client[d].at \/ client'[d].at = "wrote"
            /\ client'[d].cmd = client[d].cmd /\ client'[d].cred = client[d].cred
            /\ client'[d].asked = client[d].asked
        BY <2>3
      <3> QED
        BY <1>1, <3>1, <3>2, <3>3, <3>4, <3>5 DEF ClientOK
    <2>5. client' = [d \in Clients |-> client'[d]] /\ unsaved' \subseteq Realms
      BY <1>1, <1>3 DEF CredInv, KeycloakOK
    <2>6. \A d \in Clients :
            /\ client'[d].at \in InHand => client[d].at \in InHand
            /\ client'[d].at \in Saving => client[d].at \in Saving
            /\ client[d].at \in Saving /\ client'[d].at \notin Saving => client[d].cred.realm = r
      BY <2>3
    <2> QED
      BY <1>1, <1>3, <2>1, <2>2, <2>3, <2>4, <2>5, <2>6, FileMoves
  <1> QED
    BY <1>2, <1>3 DEF DeleteRealm

\* The access token expires; the refresh token is the same.
LEMMA ExpiresInv == ASSUME CredInv, AccessExpires PROVE CredInv'
  <1>1. PICK p \in Paths : files[p].cred.fresh /\ files' = [files EXCEPT ![p].cred.fresh = FALSE]
    BY DEF AccessExpires
  <1> DEFINE f == [files[p] EXCEPT !.cred.fresh = FALSE]
  <1>2. FileOK(p, files[p]) /\ UNCHANGED <<unsaved, client, rotates, issued, spent, started>>
    BY DEF CredInv, AccessExpires, KeycloakKept
  <1>3. files[p].kind = "record"
    BY <1>1, <1>2 DEF FileOK, NoRecord
  <1>4. f.kind = "record" /\ FileOK(p, f) /\ Same(f.cred, files[p].cred)
    BY <1>2, <1>3 DEF FileOK, FileRecord, Records, Same
  <1>5. files' = [files EXCEPT ![p] = f]
    BY <1>1
  <1> HIDE DEF f
  <1>6. files'[p] = f /\ \A q \in Paths \ {p} : files'[q] = files[q]
    BY <1>5 DEF CredInv
  <1>a. \A q \in Paths : files'[q].kind = files[q].kind
    BY <1>3, <1>4, <1>6
  <1>7. ASSUME NEW d \in Clients
        PROVE  ClientOK(client[d])'
    <2>1. ClientOK(client[d]) /\ (client[d].at = "write" => client[d].cred.realm \in Realms)
      BY HeldTokens DEF CredInv
    <2> QED
      BY <1>2, <1>a, <2>1 DEF ClientOK
  <1>8. client' = [d \in Clients |-> client'[d]] /\ unsaved' \subseteq Realms
    BY <1>2 DEF CredInv, KeycloakOK
  <1> QED
    BY <1>2, <1>3, <1>4, <1>5, <1>7, <1>8, FileMoves

\* The initial states, the steps, and with them every behaviour.
LEMMA CredInitInv == CredInit => CredInv
  <1> SUFFICES ASSUME CredInit
               PROVE  CredInv
    OBVIOUS
  <1>1. KeycloakOK
    <2>1. issued \in [Realms -> 0..MaxTokens]
      <3>1. CASE issued = [r \in Realms |-> 0]
        BY <3>1
      <3>2. ASSUME NEW r \in Realms, issued = [q \in Realms |-> IF q = r THEN 1 ELSE 0]
            PROVE  issued \in [Realms -> 0..MaxTokens]
        BY <3>2
      <3> QED
        BY <3>1, <3>2 DEF CredInit
    <2>2. spent = [r \in Realms |-> {}] /\ rotates \in BOOLEAN /\ unsaved = {} /\ started = 0
      BY DEF CredInit
    <2> QED
      BY <2>1, <2>2 DEF KeycloakOK
  <1>2. DOMAIN files = Paths /\ files = [p \in Paths |-> files[p]]
    BY DEF CredInit
  <1>3. ASSUME NEW p \in Paths
        PROVE  FileOK(p, files[p])
    <2>1. FileOK(p, File(Absent))
      BY DEF FileOK, File, FileRecord
    <2>2. ASSUME NEW r \in Realms, p = Legacy, issued[r] = 1,
                 files[p] = Holding([realm |-> r, token |-> 1, fresh |-> FALSE])
          PROVE  FileOK(p, files[p])
      BY <2>2 DEF FileOK, Holding, FileRecord, Records
    <2>3. CASE files = [q \in Paths |-> File(Absent)]
      BY <2>1, <2>3
    <2>4. ASSUME NEW r \in Realms,
                 files = [q \in Paths |-> IF q = Legacy
                            THEN Holding([realm |-> r, token |-> 1, fresh |-> FALSE])
                            ELSE File(Absent)],
                 issued = [q \in Realms |-> IF q = r THEN 1 ELSE 0]
          PROVE  FileOK(p, files[p])
      <3>1. CASE p = Legacy
        BY <2>2, <2>4, <3>1
      <3>2. CASE p # Legacy
        BY <2>1, <2>4, <3>2
      <3> QED
        BY <3>1, <3>2
    <2> QED
      BY <2>3, <2>4 DEF CredInit
  <1>4. \A c \in Clients : client[c] = NoClient
    BY DEF CredInit
  <1>5. \A c \in Clients : ClientOK(client[c])
    BY <1>4 DEF ClientOK, NoClient, ClientRecord, CredLabels
  <1> QED
    BY <1>1, <1>2, <1>3, <1>4, <1>5 DEF CredInv, CredInit, NoClient

LEMMA CredNextInv == CredInv /\ [CredNext]_credVars => CredInv'
  <1> SUFFICES ASSUME CredInv, [CredNext]_credVars
               PROVE  CredInv'
    OBVIOUS
  <1>1. ASSUME NEW c \in Clients, CredStep(c)
        PROVE  CredInv'
    <2>1. CASE WriteUnlinked(c) \/ LogoutEnds(c)
      BY <2>1, QuietEnds DEF WriteUnlinked, LogoutEnds, LoggedOut, CredAt
    <2> QED
      BY <1>1, <2>1, LoadFirstInv, LoadFallbackInv, DecideInv, RefreshInv, LoginInv,
         TruncateInv, WriteInv, LogoutAllInv, DeleteLegacyInv, ListRealmFilesInv,
         DeleteRealmInv DEF CredStep
  <1>2. CASE UNCHANGED credVars
    <2>1. UNCHANGED files /\ UNCHANGED rotates /\ UNCHANGED issued /\ UNCHANGED spent
          /\ UNCHANGED unsaved /\ UNCHANGED client /\ UNCHANGED started
      BY <1>2 DEF credVars
    <2>2. KeycloakOK'
      BY <2>1 DEF CredInv, KeycloakOK
    <2>3. (\A p \in Paths : FileOK(p, files[p]))'
      BY <2>1 DEF CredInv, FileOK
    <2>4. (\A c \in Clients : ClientOK(client[c]))'
      BY <2>1 DEF CredInv, ClientOK
    <2>5. (\A c \in Clients : client[c].at \in Saving => Alone(c))'
      BY <2>1 DEF CredInv, Alone
    <2>6. (\A r \in Realms :
             files[r].kind = "record" /\ files[r].cred.token \in spent[r] => OnItsWay(r))'
      BY <2>1 DEF CredInv, OnItsWay
    <2> QED
      BY <2>1, <2>2, <2>3, <2>4, <2>5, <2>6 DEF CredInv
  <1> QED
    BY <1>1, <1>2, StartClientInv, KillInv, ExpiresInv DEF CredNext

LEMMA CredInvariant == CredSpec => []CredInv
  BY CredInitInv, CredNextInv, PTL DEF CredSpec

\* Whatever the files held at the start and however the commands interleave: a command
\* holds only records of its shape, a file parses to one or is marked as unreadable.
THEOREM CredTypes == CredSpec => []CredTypeOK
  BY CredInvariant, InvImplies, PTL

\* LoadForRealm: a call that names a realm never answers with another realm's token.
THEOREM CredQualified == CredSpec => []QualifiedIsRight
  BY CredInvariant, InvImplies, PTL

\* Save: a spent refresh token stays in a realm's file only while its successor is on
\* its way there, or once that was lost, since a token being saved is held by nobody else.
THEOREM CredSpent == CredSpec => []SpentIsReplaced
  BY CredInvariant, InvImplies, PTL

\* Delete: at its end what is left was opened by a save since it began.
THEOREM CredLogout == CredSpec => []LogoutIsComplete
  BY CredInvariant, InvImplies, PTL

HIDE CredAssumption DEF Legacy, Unqualified, NoRealm, Paths, Absent, Empty, Garbled,
    InHand, Saving, Deleting

=============================================================================
