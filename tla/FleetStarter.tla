----------------------------- MODULE FleetStarter -----------------------------
(* How `bootstrap init` makes an empty directory a fleet repository:              *)
(* clusterinit/starter.go (EnsureStarter: pull, verify, promote, commit) and      *)
(* bootstrap_init_agekey.go (the age key and its enrolment), up to the            *)
(* add-everything commit of Apply.  A run may fail or be killed at every step and *)
(* is started again; the tag it pulls may name another artifact by then.          *)
(*                                                                                *)
(* Simplifications: .starter-manifest goes with .starter-version, infrastructure  *)
(* and platform with addons and bootstrap; the lines of .gitignore are one fact,  *)
(* whether age.key is among them.                                                 *)
EXTENDS Naturals, Sequences

CONSTANTS
  Artifacts,     \* version -> [sound, ignoresKey], what its artifact delivers
  MaxStarts      \* bound: runs of the command

Versions == DOMAIN Artifacts

ASSUME StarterAssumption ==
  /\ Artifacts \in [Versions -> [sound : BOOLEAN, ignoresKey : BOOLEAN]]
  /\ {"none", "mine", "checkout", "tag"} \cap Versions = {} /\ MaxStarts \in Nat

\* The top level of the artifact, in the order os.ReadDir gives and promotion takes.
Promotion == <<"gitignore", "version", "readme", "addons", "bootstrap", "clusters", "scripts">>
Entries == {Promotion[i] : i \in DOMAIN Promotion}
Trees == {"addons", "bootstrap", "scripts"}
StarterOwned == Trees \cup {"version"}

\* Whose an entry is: the operator's own, a tree of the operator's fleet checkout
\* (the markers are in it), or an artifact's.
Owners == {"none", "mine", "checkout"} \cup Versions
NoEntries == [e \in Entries |-> "none"]

VARIABLES
  dir, ignores, stranger,     \* --repo: entries, age.key in .gitignore, anything else
  gitDir, headTree, keyInHead, \* .git: "none", HEAD unborn or born; what HEAD holds
  tag,                        \* the version the tag names at the registry
  key, enrolled, enrolledHead, \* age.key; its recipient in .sops.yaml, and in HEAD's
  engine, starts              \* the running command; how often it was started

starterVars == <<dir, ignores, stranger, gitDir, headTree, keyInHead, tag, key,
                 enrolled, enrolledHead, engine, starts>>
repoVars == <<dir, ignores, stranger>>
gitVars == <<gitDir, headTree, keyInHead>>
keyVars == <<key, enrolled, enrolledHead>>

EngineLabels == {"ended", "inspect", "pull", "promote", "ignore", "init", "commit", "key",
                 "recipients", "enrol", "gate", "scaffold"}
MutableTag == "tag"

StarterTypeOK ==
  /\ dir \in [Entries -> Owners] /\ headTree \in [Entries -> Owners]
  /\ gitDir \in {"none", "unborn", "born"} /\ tag \in Versions
  /\ {ignores, stranger, keyInHead, key, enrolled, enrolledHead} \subseteq BOOLEAN
  /\ engine \in [at : EngineLabels, ref : Versions \cup {MutableTag}, got : Versions,
                 next : 1..Len(Promotion) + 1, result : {"none", "ok", "failed", "refused"}]
  /\ starts \in 0..MaxStarts

\* An empty directory, a preseed, trees of the operator's that carry the names of the
\* starter's, or a fleet checkout; perhaps with something that is none of these.
StarterInit ==
  /\ \/ \E preseed \in SUBSET {"gitignore", "readme"}, own \in SUBSET {"scripts"} :
          dir = [e \in Entries |-> IF e \in preseed \cup own THEN "mine" ELSE "none"]
     \/ dir = [e \in Entries |-> IF e \in Trees THEN "checkout" ELSE "mine"]
  /\ ignores \in BOOLEAN /\ (dir["gitignore"] = "none" => ~ignores)
  /\ stranger \in BOOLEAN
  /\ gitDir \in {"none", "unborn", "born"}
  /\ headTree = IF gitDir = "born" THEN dir ELSE NoEntries
  /\ keyInHead = FALSE /\ tag \in Versions
  /\ key = FALSE /\ enrolled = FALSE /\ enrolledHead = FALSE
  /\ engine = [at |-> "ended", ref |-> MutableTag, got |-> tag, next |-> 1, result |-> "none"]
  /\ starts = 0

-----------------------------------------------------------------------------
EngineAt(at) == engine.at = at
EngineGoto(at) == engine' = [engine EXCEPT !.at = at]
EngineReturns(result) == engine' = [engine EXCEPT !.at = "ended", !.result = result]

\* pinStarterDigest: the tag becomes a digest, or stays a tag when the registry does
\* not answer.
StartEngine ==
  /\ EngineAt("ended") /\ starts < MaxStarts /\ starts' = starts + 1
  /\ \E ref \in {tag, MutableTag} :
       engine' = [engine EXCEPT !.at = "inspect", !.ref = ref, !.next = 1, !.result = "none"]
  /\ UNCHANGED <<repoVars, gitVars, keyVars, tag>>

\* Mutant: the publisher's marker in scripts/ is not among the CLI's.
ShapePresentButScripts(d) == \A t \in Trees \ {"scripts"} : d[t] \in Versions \cup {"checkout"}

\* StarterShapePresent: every tree with its marker.
ShapePresent(d) == \A t \in Trees : d[t] \in Versions \cup {"checkout"}

\* No pull over a fleet; a tree that was never committed is repaired.
SkipPull ==
  /\ EngineAt("inspect") /\ ShapePresent(dir)
  /\ EngineGoto(CASE gitDir = "none" -> "init" [] gitDir = "unborn" -> "commit"
                  [] gitDir = "born" -> "key")
  /\ UNCHANGED <<repoVars, gitVars, keyVars, tag, starts>>

RefusePopulated ==
  /\ EngineAt("inspect") /\ ~ShapePresent(dir) /\ stranger
  /\ EngineReturns("refused")
  /\ UNCHANGED <<repoVars, gitVars, keyVars, tag, starts>>

\* Entries with the starter's names are taken for leftovers and removed, perhaps not all.
CleanLeftovers ==
  /\ EngineAt("inspect") /\ ~ShapePresent(dir) /\ ~stranger
  /\ \E gone \in SUBSET StarterOwned :
       /\ dir' = [e \in Entries |-> IF e \in gone THEN "none" ELSE dir[e]]
       /\ (gone = StarterOwned /\ EngineGoto("pull")) \/ EngineReturns("failed")
  /\ UNCHANGED <<ignores, stranger, gitVars, keyVars, tag, starts>>

\* Its shape, its .gitignore, and verifyStarterManifest.
Delivered(v) == Artifacts[v].sound

\* Into a scratch directory beside --repo, where it is checked.
PullArtifact ==
  /\ EngineAt("pull")
  /\ LET v == IF engine.ref = MutableTag THEN tag ELSE engine.ref IN
     \/ /\ Delivered(v)
        /\ engine' = [engine EXCEPT !.at = "promote", !.got = v]
     \/ EngineReturns("failed")
  /\ UNCHANGED <<repoVars, gitVars, keyVars, tag, starts>>

\* mergeGitignore: the lines that were missing are appended.
Merged(v) == ignores \/ Artifacts[v].ignoresKey

\* One entry is renamed into place; the operator's README and clusters/ win, .gitignore
\* gets the missing lines, anything else in the way is an error.
PromoteEntry ==
  /\ EngineAt("promote")
  /\ LET e == Promotion[engine.next] IN
     /\ e \in {"clusters", "readme", "gitignore"} \/ dir[e] = "none"
     /\ dir' = [dir EXCEPT ![e] = IF @ = "none" THEN engine.got ELSE @]
     /\ ignores' = IF e = "gitignore" THEN Merged(engine.got) ELSE ignores
  /\ engine' = [engine EXCEPT !.next = @ + 1,
                              !.at = IF @ = "promote" /\ engine.next < Len(Promotion)
                                     THEN "promote" ELSE "ignore"]
  /\ UNCHANGED <<stranger, gitVars, keyVars, tag, starts>>

\* gitignoreExcludesAgeKey, when everything is already in place.
CheckIgnore ==
  /\ EngineAt("ignore")
  /\ IF ignores THEN EngineGoto("init") ELSE EngineReturns("failed")
  /\ UNCHANGED <<repoVars, gitVars, keyVars, tag, starts>>

\* An existing .git is left alone.
GitInit ==
  /\ EngineAt("init")
  /\ gitDir' = IF gitDir = "none" THEN "unborn" ELSE gitDir
  /\ EngineGoto("commit")
  /\ UNCHANGED <<repoVars, headTree, keyInHead, keyVars, tag, starts>>

\* commitLocal adds everything that .gitignore does not exclude.
CommitAll ==
  /\ headTree' = dir /\ gitDir' = "born"
  /\ keyInHead' = (keyInHead \/ (key /\ ~ignores))
  /\ enrolledHead' = enrolled

CommitStarter ==
  /\ EngineAt("commit") /\ headTree # dir
  /\ CommitAll /\ EngineGoto("key")
  /\ UNCHANGED <<repoVars, key, enrolled, tag, starts>>

-----------------------------------------------------------------------------
\* An age.key on disk must be enrolled.
UseKey ==
  /\ EngineAt("key") /\ key
  /\ IF enrolled THEN EngineGoto("gate") ELSE EngineReturns("refused")
  /\ UNCHANGED <<repoVars, gitVars, keyVars, tag, starts>>

\* generate-age-key.sh writes the key, then the recipient; it may die between.
GenerateKey ==
  /\ EngineAt("key") /\ ~key
  /\ key' = TRUE /\ EngineGoto("recipients")
  /\ UNCHANGED <<repoVars, gitVars, enrolled, enrolledHead, tag, starts>>

WriteRecipients ==
  /\ EngineAt("recipients")
  /\ enrolled' = TRUE /\ EngineGoto("enrol")
  /\ UNCHANGED <<repoVars, gitVars, key, enrolledHead, tag, starts>>

\* git add .sops.yaml; git commit.
CommitEnrolment ==
  /\ EngineAt("enrol")
  /\ enrolledHead' = enrolled /\ EngineGoto("gate")
  /\ UNCHANGED <<repoVars, gitVars, key, enrolled, tag, starts>>

\* Mutant: only changes to tracked files count as dirty.
GateTrackedOnly ==
  /\ EngineAt("gate")
  /\ IF headTree = dir THEN EngineGoto("scaffold") ELSE EngineReturns("refused")
  /\ UNCHANGED <<repoVars, gitVars, keyVars, tag, starts>>

\* Apply's clean-tree gate: untracked files count, ignored ones do not.
CleanTreeGate ==
  /\ EngineAt("gate")
  /\ IF headTree = dir /\ enrolledHead = enrolled /\ (key => ignores)
     THEN EngineGoto("scaffold") ELSE EngineReturns("refused")
  /\ UNCHANGED <<repoVars, gitVars, keyVars, tag, starts>>

\* Apply's commit of the scaffold (its steps are FleetApply's).
CommitScaffold ==
  /\ EngineAt("scaffold")
  /\ CommitAll /\ EngineReturns("ok")
  /\ UNCHANGED <<repoVars, key, enrolled, tag, starts>>

\* Any step may fail, and the process may be killed before any step.
EngineFails ==
  /\ ~EngineAt("ended") /\ EngineReturns("failed")
  /\ UNCHANGED <<repoVars, gitVars, keyVars, tag, starts>>

\* The tag is published again; the operator commits what the gate complained about.
MoveTag == tag' \in Versions \ {tag} /\ UNCHANGED <<repoVars, gitVars, keyVars, engine, starts>>
CommitRecipientsByHand ==
  /\ EngineAt("ended") /\ enrolled # enrolledHead /\ enrolledHead' = enrolled
  /\ UNCHANGED <<repoVars, gitVars, key, enrolled, tag, engine, starts>>

StarterNext ==
  \/ StartEngine \/ SkipPull \/ RefusePopulated \/ CleanLeftovers \/ PullArtifact
  \/ PromoteEntry \/ CheckIgnore \/ GitInit \/ CommitStarter
  \/ UseKey \/ GenerateKey \/ WriteRecipients \/ CommitEnrolment
  \/ CleanTreeGate \/ CommitScaffold \/ EngineFails \/ MoveTag \/ CommitRecipientsByHand

StarterSpec == StarterInit /\ [][StarterNext]_starterVars

-----------------------------------------------------------------------------
\* "the repo must still end up committed or the engine's later steps hit an unusable
\* tree": whatever was killed and pulled again while the tag moved, a directory that
\* passes for a fleet and a commit with starter trees hold all trees of one artifact.
StarterIsWhole ==
  /\ ShapePresent(dir) => \A t, u \in Trees : dir[t] = dir[u]
  /\ (\E t \in Trees : headTree[t] \in Versions) =>
       \A t, u \in Trees : headTree[t] = headTree[u]

\* "age.key itself stays gitignored (never committed)" (autoGenerateAgeKey): no run
\* commits the private key, although a run that failed the .gitignore check leaves a
\* directory that the next run takes for a complete one.
KeyNeverCommitted == ~keyInHead

===============================================================================
