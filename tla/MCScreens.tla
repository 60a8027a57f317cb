-------------------------------- MODULE MCScreens ------------------------------
(* Two terminal screens that share no state, checked in one run: Init picks the   *)
(* one that moves in a behaviour, the other stays at one initial state.  The      *)
(* behaviours of each are exactly those of its own specification.                 *)
EXTENDS InstallRun, AlertsScreen

VARIABLE screen     \* the one that moves

\* Each milestone and each branch of the engine is in one of these flag sets.
MCOptions == {
  {"noPrereqs", "gpu"},
  {"noPrereqs", "noCluster", "noPush", "overlay", "ssh", "pinnedCIDR", "gpu", "hami"},
  {"noPrereqs", "noCluster", "adopt", "ssh", "gateway", "devices"},
  {"noPrereqs", "overlay", "ssh", "pinnedCIDR"},
  {"starter", "newRepo"} }

Init ==
  /\ screen \in {"install", "alerts"}
  /\ InstallInit /\ AlertsInit
  /\ screen # "install" => opts = {"starter", "newRepo"}
  /\ screen # "alerts" => client = 1

OnInstall == screen = "install" /\ UNCHANGED <<screen, alertsVars>>
OnAlerts == screen = "alerts" /\ UNCHANGED <<screen, installVars>>

Next == \/ OnInstall /\ InstallNext
        \/ OnAlerts /\ AlertsNext

vars == <<screen, installVars, alertsVars>>

\* The fairness of the two specifications.
Spec ==
  /\ Init /\ [][Next]_vars
  /\ WF_vars(OnInstall /\ Screen) /\ WF_vars(OnInstall /\ SendFinished)
  /\ WF_vars(OnAlerts /\ GetAlerts) /\ WF_vars(OnAlerts /\ ReconnectStops)
  /\ WF_vars(OnAlerts /\ (Spawn \/ SpawnFails)) /\ SF_vars(OnAlerts /\ Spawn)
  /\ WF_vars(OnAlerts /\ (Forwarding \/ StartFails)) /\ SF_vars(OnAlerts /\ Forwarding)
  /\ WF_vars(OnAlerts /\ Loaded) /\ WF_vars(OnAlerts /\ LoadErr("refused"))
  /\ WF_vars(OnAlerts /\ LoadErr("failed")) /\ WF_vars(OnAlerts /\ AutoRefresh)
  /\ WF_vars(OnAlerts /\ Reconnected) /\ WF_vars(OnAlerts /\ ReconnectFailed)

\* Every variable of both screens has its type.
TypeOK == InstallTypeOK /\ AlertsTypeOK

===============================================================================
