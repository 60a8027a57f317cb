------------------------------ MODULE AlertsScreen -----------------------------
(* `kube-dc alerts`: the screen that loads alerts through a `kubectl port-forward`  *)
(* of its own.  Bubble Tea hands one message at a time to Update; a load and a      *)
(* reconnect are commands that run in goroutines beside it and answer in any order. *)
(* A forward is named by the local port it listens on.                              *)
EXTENDS Integers, FiniteSets

CONSTANTS
  Ports,      \* local ports the kernel hands out
  MaxAlertLoads    \* bound: loads in flight when one more is asked for

ASSUME AlertsAssumption == MaxAlertLoads \in Nat \ {0} /\ IsFiniteSet(Ports) /\ Ports # {}

VARIABLES
  alertsProgram, \* "on", "quit" (Run has returned), "stopped" (deferred Stop ran),
                 \* "exited"
  loading, refreshing, reconnecting,
  loads,         \* how many loads are in each stage
  reconnects,    \* reconnect commands in flight, by the step each is at
  client,        \* the port the Alertmanager client asks
  forward,       \* PortForward.cmd: the process Stop would kill
  procs          \* the kubectl processes that are alive

alertFlags == <<loading, refreshing, reconnecting>>
alertsVars == <<alertsProgram, alertFlags, loads, reconnects, client, forward, procs>>

Stages == {"asking", "loaded", "refused", "failed"}
Steps == {"stopping", "starting", "waiting", "ready", "gaveUp"}
On == alertsProgram = "on"
Alive == alertsProgram # "exited"
InFlight == loads["asking"] + loads["loaded"] + loads["refused"] + loads["failed"]
Running == reconnects["stopping"] + reconnects["starting"] + reconnects["waiting"]
           + reconnects["ready"] + reconnects["gaveUp"]

\* runAlerts has started the forward; the screen begins with a load.
AlertsInit ==
  /\ alertsProgram = "on"
  /\ loading = TRUE /\ refreshing = FALSE /\ reconnecting = FALSE
  /\ loads = [s \in Stages |-> IF s = "asking" THEN 1 ELSE 0]
  /\ reconnects = [s \in Steps |-> 0]
  /\ \E p \in Ports : client = p /\ forward = p /\ procs = {p}

Move(bag, from, to) == [bag EXCEPT ![from] = @ - 1, ![to] = @ + 1]
LoadCmd == InFlight < MaxAlertLoads /\ loads' = [loads EXCEPT !["asking"] = @ + 1]
ReconnectCmd == reconnects' = [reconnects EXCEPT !["stopping"] = @ + 1]

(* ---------------------------------- the commands ---------------------------------- *)
\* GetAlerts on the client of the moment: an answer, a refused or broken connection,
\* or any other failure of a forward that is there.
GetAlerts ==
  /\ Alive /\ loads["asking"] > 0
  /\ \E s \in IF client \in procs THEN Stages \ {"asking"} ELSE {"refused"} :
       loads' = Move(loads, "asking", s)
  /\ UNCHANGED <<alertsProgram, alertFlags, reconnects, client, forward, procs>>

\* PortForward.Stop: the process it knows of, and no other.
Stop == procs' = procs \ {forward}

ReconnectStops ==
  /\ Alive /\ reconnects["stopping"] > 0 /\ Stop
  /\ reconnects' = Move(reconnects, "stopping", "starting")
  /\ UNCHANGED <<alertsProgram, alertFlags, loads, client, forward>>

\* PortForward.Start takes a free port and spawns kubectl, or fails before it has.
Spawn ==
  /\ Alive /\ reconnects["starting"] > 0
  /\ \E p \in Ports \ procs : forward' = p /\ procs' = procs \cup {p}
  /\ reconnects' = Move(reconnects, "starting", "waiting")
  /\ UNCHANGED <<alertsProgram, alertFlags, loads, client>>

SpawnFails ==
  /\ Alive /\ reconnects["starting"] > 0
  /\ reconnects' = Move(reconnects, "starting", "gaveUp")
  /\ UNCHANGED <<alertsProgram, alertFlags, loads, client, forward, procs>>

\* kubectl says it forwards; the goroutine replaces the client.
Forwarding ==
  /\ Alive /\ reconnects["waiting"] > 0 /\ forward \in procs
  /\ client' = forward /\ reconnects' = Move(reconnects, "waiting", "ready")
  /\ UNCHANGED <<alertsProgram, alertFlags, loads, forward, procs>>

\* It complains, or says nothing for ten seconds: Start stops it again.
StartFails ==
  /\ Alive /\ reconnects["waiting"] > 0 /\ Stop
  /\ reconnects' = Move(reconnects, "waiting", "gaveUp")
  /\ UNCHANGED <<alertsProgram, alertFlags, loads, client, forward>>

\* kubectl ends by itself: the pod moved, the token expired, the network went away.
ForwardDies ==
  /\ procs # {} /\ \E p \in procs : procs' = procs \ {p}
  /\ Alive /\ UNCHANGED <<alertsProgram, alertFlags, loads, reconnects, client, forward>>

(* ------------------------------------- Update ------------------------------------- *)
Loaded ==
  /\ On /\ loads["loaded"] > 0 /\ loads' = [loads EXCEPT !["loaded"] = @ - 1]
  /\ loading' = FALSE /\ refreshing' = FALSE
  /\ UNCHANGED <<alertsProgram, reconnecting, reconnects, client, forward, procs>>

\* A refused connection starts a reconnect unless one is under way.
LoadErr(kind) ==
  /\ On /\ loads[kind] > 0 /\ loads' = [loads EXCEPT ![kind] = @ - 1]
  /\ loading' = FALSE /\ refreshing' = FALSE
  /\ IF kind = "refused" /\ ~reconnecting
       THEN reconnecting' = TRUE /\ ReconnectCmd
       ELSE UNCHANGED <<reconnecting, reconnects>>
  /\ UNCHANGED <<alertsProgram, client, forward, procs>>

\* Every 30 s; the next tick is scheduled first, so one is always due.  A tick that
\* finds work under way changes nothing.
AutoRefresh ==
  /\ On /\ ~refreshing /\ ~loading /\ ~reconnecting
  /\ refreshing' = TRUE /\ LoadCmd
  /\ UNCHANGED <<alertsProgram, loading, reconnecting, reconnects, client, forward, procs>>

Reconnected ==
  /\ On /\ InFlight <= MaxAlertLoads
  /\ reconnects["ready"] > 0 /\ reconnects' = [reconnects EXCEPT !["ready"] = @ - 1]
  /\ reconnecting' = FALSE /\ refreshing' = TRUE
  /\ loads' = [loads EXCEPT !["asking"] = @ + 1]
  /\ UNCHANGED <<alertsProgram, loading, client, forward, procs>>

\* Mutant: a failed reconnect leaves the flag up.
ReconnectFailedKeepsFlag ==
  /\ On /\ reconnects["gaveUp"] > 0 /\ reconnects' = [reconnects EXCEPT !["gaveUp"] = @ - 1]
  /\ UNCHANGED <<alertsProgram, alertFlags, loads, client, forward, procs>>

ReconnectFailed ==
  /\ On /\ reconnects["gaveUp"] > 0 /\ reconnects' = [reconnects EXCEPT !["gaveUp"] = @ - 1]
  /\ reconnecting' = FALSE
  /\ UNCHANGED <<alertsProgram, loading, refreshing, loads, client, forward, procs>>

\* The keys that start something.  Refresh looks at its own flag only.
ReloadKey ==
  /\ On /\ ~refreshing /\ refreshing' = TRUE /\ LoadCmd
  /\ UNCHANGED <<alertsProgram, loading, reconnecting, reconnects, client, forward, procs>>

\* Mutant: the key does not look whether a reconnect is under way.
ReconnectKeyAgain ==
  /\ On /\ Running < 2 /\ reconnecting' = TRUE /\ ReconnectCmd
  /\ UNCHANGED <<alertsProgram, loading, refreshing, loads, client, forward, procs>>

ReconnectKey ==
  /\ On /\ ~reconnecting /\ reconnecting' = TRUE /\ ReconnectCmd
  /\ UNCHANGED <<alertsProgram, loading, refreshing, loads, client, forward, procs>>

(* -------------------------------------- leaving -------------------------------------- *)
\* q ends the program; runAlerts returns, its deferred Stop runs, the process ends.
QuitKey == On /\ alertsProgram' = "quit"
           /\ UNCHANGED <<alertFlags, loads, reconnects, client, forward, procs>>
DeferredStop == alertsProgram = "quit" /\ alertsProgram' = "stopped" /\ Stop
                /\ UNCHANGED <<alertFlags, loads, reconnects, client, forward>>
ProcessEnds == alertsProgram = "stopped" /\ alertsProgram' = "exited"
               /\ UNCHANGED <<alertFlags, loads, reconnects, client, forward, procs>>

Command == GetAlerts \/ ReconnectStops \/ Spawn \/ SpawnFails \/ Forwarding \/ StartFails
Handle == \/ Loaded \/ Reconnected \/ ReconnectFailed
          \/ \E k \in {"refused", "failed"} : LoadErr(k)
AlertsNext == \/ Command \/ ForwardDies \/ Handle \/ AutoRefresh \/ ReloadKey \/ ReconnectKey
        \/ QuitKey \/ DeferredStop \/ ProcessEnds

\* Goroutines are scheduled, every message is handed to Update and the timer fires.  A
\* kubectl that is started again and again is once allowed to forward; nothing more is
\* assumed of the cluster.
AlertsSpec == /\ AlertsInit /\ [][AlertsNext]_alertsVars
        /\ WF_alertsVars(GetAlerts) /\ WF_alertsVars(ReconnectStops) /\ WF_alertsVars(Spawn \/ SpawnFails)
        /\ WF_alertsVars(Forwarding \/ StartFails) /\ SF_alertsVars(Spawn) /\ SF_alertsVars(Forwarding)
        /\ WF_alertsVars(Loaded) /\ WF_alertsVars(LoadErr("refused")) /\ WF_alertsVars(LoadErr("failed"))
        /\ WF_alertsVars(Reconnected) /\ WF_alertsVars(ReconnectFailed) /\ WF_alertsVars(AutoRefresh)

(* ------------------------------------ properties ------------------------------------ *)
AlertsTypeOK ==
  /\ alertsProgram \in {"on", "quit", "stopped", "exited"}
  /\ {loading, refreshing, reconnecting} \subseteq BOOLEAN
  /\ loads \in [Stages -> 0 .. MaxAlertLoads + 1]
  /\ reconnects \in [Steps -> 0 .. 2]
  /\ client \in Ports /\ forward \in Ports /\ procs \subseteq Ports

\* PortForward remembers one process: while the screen is on, every kubectl alive is
\* the one Stop would kill, so two reconnects never pass each other.
ForwardIsOwned == On => procs \subseteq {forward}

\* A forward that died comes back without a key, and the client asks the new one, unless
\* the operator leaves first: no flag that keeps ticks from starting work outlives the
\* work it stands for.
ForwardComesBack == client \notin procs ~> client \in procs \/ ~On

===============================================================================
