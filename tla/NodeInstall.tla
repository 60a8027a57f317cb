------------------------------ MODULE NodeInstall ------------------------------
(* kube-dc bootstrap install on one node: rke2/install.go (Install), join.go      *)
(* (JoinWorker) and the script they push, install-server.sh or install-agent.sh.  *)
(* The command runs the script through one SSH session.  A lost session or Ctrl-C *)
(* ends the command and not the script, which lives on until it ends, dies or is  *)
(* rebooted away, perhaps beside the script of the next run.                      *)
(*                                                                                *)
(* Simplifications: a bundle holds one certificate; the refusals of the script    *)
(* that change nothing read here (DNS, registries.yaml, curl, a missing tool) are *)
(* ScriptEnds; a dry run changes nothing and does not appear.                     *)
EXTENDS Integers

CONSTANTS Bundles,      \* private CA bundles an operator may pass
          MaxInstalls,  \* runs of the command
          MaxReboots

ASSUME InstallAssumption == "none" \notin Bundles /\ MaxInstalls \in Nat /\ MaxReboots \in Nat

VARIABLES role,      \* what the node is to be: "server" or "agent"
          command,   \* the command; alone: no older script was alive when it began; missed:
                     \* it took for down a service that was not when the file was written
          scripts,   \* the script of each run, on the node
          conf,      \* config.yaml: the run that wrote it, and whether it has the webhook flag
          unit,      \* rke2-<role>.service: its state and the config its process has read
          staged, anchors, store,  \* the pushed bundle, the anchor directory, the trust store
          cutOver,     \* history: an OIDC cutover was made here
          torn,      \* history: since then a script died or was overtaken between its
                     \* reading of the kube-apiserver-arg block and its re-appending
          reboots

nodeVars == <<role, command, scripts, conf, unit, staged, anchors, store, cutOver, torn, reboots>>
trustVars == <<staged, anchors, store>>
confVars == <<conf, cutOver, torn>>
worldVars == <<role, reboots>>

Installs == 1..MaxInstalls
Anchor == Bundles \union {"none"}
CommandLabels == {"ended", "probe", "gate", "stage", "run", "await", "restart"}
AliveLabels == {"trust", "update", "verify", "read", "write", "append", "start", "wait"}
Config == [by : 0..MaxInstalls, webhook : BOOLEAN]

NodeTypeOK ==
  /\ role \in {"server", "agent"}
  /\ command \in [at : CommandLabels, run : 0..MaxInstalls, force : BOOLEAN, active : BOOLEAN,
                  bundle : Anchor, alone : BOOLEAN, missed : BOOLEAN,
                  outcome : {"none", "failed", "skipped", "installed"}]
  /\ scripts \in [Installs -> [at : AliveLabels \union {"none", "done", "failed"},
                               kept : BOOLEAN, bundle : Anchor, backup : Anchor]]
  /\ conf \in Config /\ unit \in [state : {"off", "activating", "active"}, read : Config]
  /\ {staged, anchors, store} \subseteq Anchor
  /\ {cutOver, torn} \subseteq BOOLEAN /\ reboots \in 0..MaxReboots

NoConfig == [by |-> 0, webhook |-> FALSE]

\* A command and a script that remember nothing.
Returned(run, outcome) ==
  [at |-> "ended", run |-> run, force |-> FALSE, active |-> FALSE, bundle |-> "none",
   alone |-> TRUE, missed |-> FALSE, outcome |-> outcome]
Forgetful(at) == [at |-> at, kept |-> FALSE, bundle |-> "none", backup |-> "none"]

\* A fresh machine, or a server that was installed and cut over long ago.
NodeInit ==
  /\ role \in {"server", "agent"} /\ cutOver \in {FALSE, role = "server"}
  /\ command = Returned(0, "none") /\ scripts = [r \in Installs |-> Forgetful("none")]
  /\ conf = [NoConfig EXCEPT !.webhook = cutOver]
  /\ unit = [state |-> IF cutOver THEN "active" ELSE "off", read |-> conf]
  /\ staged = "none" /\ anchors = "none" /\ store = "none"
  /\ torn = FALSE /\ reboots = 0

-----------------------------------------------------------------------------
\* The command.
InstallerAt(at) == command.at = at
InstallerTo(at) == command' = [command EXCEPT !.at = at]
InstallerFails == command' = Returned(command.run, "failed")
InstallerSucceeds ==
  command' = [Returned(command.run, "installed") EXCEPT !.bundle = command.bundle,
                                !.alone = command.alone, !.missed = command.missed]

Alive(r) == scripts[r].at \in AliveLabels

StartInstall(force, bundle) ==
  /\ InstallerAt("ended") /\ command.run < MaxInstalls
  /\ command' = [at |-> "probe", run |-> command.run + 1, force |-> force, active |-> FALSE,
                 bundle |-> bundle, alone |-> \A r \in Installs : ~Alive(r), missed |-> FALSE,
                 outcome |-> "none"]
  /\ UNCHANGED <<scripts, unit, trustVars, confVars, worldVars>>

AfterGate == IF command.bundle = "none" THEN "run" ELSE "stage"

\* Only "active" counts; serviceActive drops the error of a lost call, which is then
\* "not active".
ProbeService ==
  /\ InstallerAt("probe")
  /\ \E active \in {unit.state = "active", FALSE} :
       command' = IF active /\ ~command.force THEN Returned(command.run, "skipped")
                  ELSE [command EXCEPT !.active = active,
                                       !.at = IF active THEN "gate" ELSE AfterGate]
  /\ UNCHANGED <<scripts, unit, trustVars, confVars, worldVars>>

\* A QEMU process on the node is a refusal, which is Abandon.
EnsureNoRunningVMs ==
  /\ InstallerAt("gate") /\ InstallerTo(AfterGate)
  /\ UNCHANGED <<scripts, unit, trustVars, confVars, worldVars>>

PushBundle ==
  /\ InstallerAt("stage") /\ staged' = command.bundle /\ InstallerTo("run")
  /\ UNCHANGED <<scripts, unit, anchors, store, confVars, worldVars>>

\* The installer is pushed, then run.
RunScript ==
  /\ InstallerAt("run") /\ InstallerTo("await")
  /\ scripts' = [scripts EXCEPT ![command.run] = [@ EXCEPT !.at = "trust",
                                                           !.bundle = command.bundle]]
  /\ UNCHANGED <<unit, trustVars, confVars, worldVars>>

\* Mutant: the script has started the service.
ScriptReturnsStarted ==
  /\ InstallerAt("await")
  /\ \/ scripts[command.run].at = "failed" /\ InstallerFails
     \/ scripts[command.run].at = "done" /\ InstallerSucceeds
  /\ UNCHANGED <<scripts, unit, trustVars, confVars, worldVars>>

\* systemctl start did nothing to a unit that was running: restart it.
ScriptReturns ==
  /\ InstallerAt("await")
  /\ \/ scripts[command.run].at = "failed" /\ InstallerFails
     \/ /\ scripts[command.run].at = "done"
        /\ IF command.active THEN InstallerTo("restart") ELSE InstallerSucceeds
  /\ UNCHANGED <<scripts, unit, trustVars, confVars, worldVars>>

\* systemctl restart waits for the new process to be up, or reports that it is not.
RestartService ==
  /\ InstallerAt("restart")
  /\ \/ unit' = [state |-> "active", read |-> conf] /\ InstallerSucceeds
     \/ unit' = [state |-> "activating", read |-> conf] /\ InstallerFails
  /\ UNCHANGED <<scripts, trustVars, confVars, worldVars>>

\* Any call fails, its SSH session is lost, or the process ends.
Abandon ==
  /\ ~InstallerAt("ended") /\ InstallerFails
  /\ UNCHANGED <<scripts, unit, trustVars, confVars, worldVars>>

-----------------------------------------------------------------------------
\* The script.
ScriptAt(r, at) == scripts[r].at = at
ScriptTo(r, at) == scripts' = [scripts EXCEPT ![r].at = at]
ScriptForgets(r, at) == scripts' = [scripts EXCEPT ![r] = Forgetful(at)]

\* config.yaml is new and the block is in the script's memory alone.
HoldsBlock(r) == ScriptAt(r, "append") /\ scripts[r].kept

SkipTrust(r) ==
  /\ scripts[r].bundle = "none" /\ ScriptForgets(r, "read") /\ UNCHANGED trustVars

\* The staged file is not the one the command validated.
RefuseStaged(r) ==
  /\ scripts[r].bundle \notin {"none", staged} /\ ScriptForgets(r, "failed")
  /\ staged' = "none" /\ UNCHANGED <<anchors, store>>

WriteAnchor(r) ==
  /\ scripts[r].bundle = staged /\ anchors # staged /\ anchors' = staged /\ staged # "none"
  /\ scripts' = [scripts EXCEPT ![r] = [@ EXCEPT !.at = "update", !.backup = anchors]]
  /\ UNCHANGED <<staged, store>>

\* An anchor that is there is not written again; the next step is at.
AnchorIsThere(r, at) ==
  /\ scripts[r].bundle = staged /\ anchors = staged /\ staged # "none"
  /\ ScriptForgets(r, at) /\ UNCHANGED trustVars

\* Mutant: an anchor that is there already needs no look at the store.
InstallAnchorTrusting(r) ==
  /\ ScriptAt(r, "trust")
  /\ SkipTrust(r) \/ RefuseStaged(r) \/ WriteAnchor(r) \/ AnchorIsThere(r, "read")
  /\ UNCHANGED <<command, unit, confVars, worldVars>>

InstallAnchor(r) ==
  /\ ScriptAt(r, "trust")
  /\ SkipTrust(r) \/ RefuseStaged(r) \/ WriteAnchor(r) \/ AnchorIsThere(r, "verify")
  /\ UNCHANGED <<command, unit, confVars, worldVars>>

\* update-ca-certificates exits 0 even when it skips the file.  A failed update puts the
\* previous anchors back and, if there were any, updates again.
UpdateStore(r) ==
  /\ ScriptAt(r, "update")
  /\ \/ store' \in {anchors, store} /\ ScriptForgets(r, "verify") /\ UNCHANGED <<staged, anchors>>
     \/ /\ anchors' = scripts[r].backup /\ staged' = "none" /\ ScriptForgets(r, "failed")
        /\ \/ store' = store
           \/ scripts[r].backup # "none" /\ store' = scripts[r].backup
  /\ UNCHANGED <<command, unit, confVars, worldVars>>

\* openssl verifies the files of the anchor directory against the store.
VerifyStore(r) ==
  /\ ScriptAt(r, "verify") /\ staged' = "none"
  /\ ScriptForgets(r, IF anchors # "none" /\ store = anchors THEN "read" ELSE "failed")
  /\ UNCHANGED <<command, unit, anchors, store, confVars, worldVars>>

\* Mutant: the block's items are recognised only when they are indented.
ReadBlockIndented(r) ==
  /\ ScriptAt(r, "read") /\ ScriptTo(r, "write")
  /\ UNCHANGED <<command, unit, trustVars, confVars, worldVars>>

\* Only the server script looks for the block.
ReadBlock(r) ==
  /\ ScriptAt(r, "read")
  /\ scripts' = [scripts EXCEPT ![r] = [@ EXCEPT !.at = "write",
                                                 !.kept = role = "server" /\ conf.webhook]]
  /\ torn' = (torn \/ \E o \in Installs : HoldsBlock(o))
  /\ UNCHANGED <<command, conf, cutOver, unit, trustVars, worldVars>>

WriteConfig(r) ==
  /\ ScriptAt(r, "write") /\ conf' = [by |-> r, webhook |-> FALSE]
  /\ ScriptTo(r, IF role = "server" THEN "append" ELSE "start")
  /\ command' = [command EXCEPT !.missed = @ \/ (~command.active /\ unit.state # "off")]
  /\ UNCHANGED <<cutOver, torn, unit, trustVars, worldVars>>

ReappendBlock(r) ==
  /\ ScriptAt(r, "append") /\ ScriptForgets(r, "start")
  /\ conf' = [conf EXCEPT !.webhook = conf.webhook \/ scripts[r].kept]
  /\ UNCHANGED <<command, cutOver, torn, unit, trustVars, worldVars>>

\* systemctl start leaves a unit that is up or coming up as it is.
StartService(r) ==
  /\ ScriptAt(r, "start") /\ ScriptTo(r, "wait")
  /\ unit' = IF unit.state = "off" THEN [state |-> "activating", read |-> conf] ELSE unit
  /\ UNCHANGED <<command, trustVars, confVars, worldVars>>

AwaitService(r) ==
  /\ ScriptAt(r, "wait") /\ unit.state = "active" /\ ScriptForgets(r, "done")
  /\ UNCHANGED <<command, unit, trustVars, confVars, worldVars>>

\* The script refuses, gives up waiting, or dies (its output pipe is gone).
ScriptEnds(r) ==
  /\ Alive(r) /\ ScriptForgets(r, "failed")
  /\ torn' = (torn \/ HoldsBlock(r))
  /\ UNCHANGED <<command, unit, conf, cutOver, trustVars, worldVars>>

-----------------------------------------------------------------------------
\* The node.
ServiceUp ==
  /\ unit.state = "activating" /\ unit' = [unit EXCEPT !.state = "active"]
  /\ UNCHANGED <<command, scripts, trustVars, confVars, worldVars>>

\* systemd starts a process that ended again, which reads config.yaml.
ServiceRestarts ==
  /\ unit.state # "off" /\ unit' = [state |-> "activating", read |-> conf]
  /\ UNCHANGED <<command, scripts, trustVars, confVars, worldVars>>

Reboot ==
  /\ reboots < MaxReboots /\ reboots' = reboots + 1
  /\ scripts' = [r \in Installs |-> IF Alive(r) THEN Forgetful("failed") ELSE scripts[r]]
  /\ torn' = (torn \/ \E r \in Installs : HoldsBlock(r))
  /\ unit' = IF unit.state = "off" THEN unit ELSE [state |-> "activating", read |-> conf]
  /\ staged' \in {"none", staged}
  /\ UNCHANGED <<role, command, conf, cutOver, anchors, store>>

\* bootstrap oidc-cutover on this node, in one step (OidcCutover has its own).
CutoverNode ==
  /\ role = "server" /\ unit.state = "active" /\ ~conf.webhook
  /\ conf' = [conf EXCEPT !.webhook = TRUE] /\ unit' = [state |-> "active", read |-> conf']
  /\ cutOver' = TRUE /\ torn' = (\E r \in Installs : ScriptAt(r, "write"))
  /\ UNCHANGED <<command, scripts, trustVars, worldVars>>

NodeNext ==
  \/ \E force \in BOOLEAN, bundle \in Anchor : StartInstall(force, bundle)
  \/ ProbeService \/ EnsureNoRunningVMs \/ PushBundle \/ RunScript
  \/ ScriptReturns \/ RestartService \/ Abandon
  \/ \E r \in Installs : \/ InstallAnchor(r) \/ UpdateStore(r) \/ VerifyStore(r) \/ ReadBlock(r)
                         \/ WriteConfig(r) \/ ReappendBlock(r) \/ StartService(r)
                         \/ AwaitService(r) \/ ScriptEnds(r)
  \/ ServiceUp \/ ServiceRestarts \/ Reboot \/ CutoverNode

NodeSpec == NodeInit /\ [][NodeNext]_nodeVars

-----------------------------------------------------------------------------
\* A re-install never undoes the OIDC cutover: once a node was cut over its config.yaml
\* has the webhook flag, or a script that has read it is about to put it back, unless
\* a script died or was overtaken in that window (the preserved block of
\* install-server.sh; a config without it turns every Keycloak token into a 401).
WebhookKept ==
  cutOver /\ ~torn => \/ conf.webhook
                      \/ \E r \in Installs : HoldsBlock(r)

\* A run that returns success, no older script beside it, leaves a node whose trust
\* store has the bundle it was given, also when an earlier run died between writing the
\* anchor and rebuilding the store ("byte-equality alone would call that success for
\* ever afterwards", install_node_trusted_ca), and whose service has read the config.yaml
\* on disk ("the service's first start already loaded the new config", Install), unless
\* the run took for down a service that was up or coming up when the file was written:
\* Install restarts only what it saw active.
InstalledIsReady ==
  command.outcome = "installed" /\ command.alone =>
    /\ command.bundle # "none" => anchors = command.bundle /\ store = command.bundle
    /\ ~command.missed => unit.read = conf
===============================================================================
