---------------------------- MODULE ScreenProofs ----------------------------
(*****************************************************************************)
(* Theorems about the screens of the fleet TUI: the alerts screen with its   *)
(* port-forward (AlertsScreen) and the fleet list with its panels (FleetScreen),*)
(* for every order in which keys and answers arrive.                         *)
(*****************************************************************************)
EXTENDS AlertsScreen, FleetScreen, WellFoundedInduction, TLAPS

-----------------------------------------------------------------------------
(*****************************************************************************)
(* AlertsScreen, for any ports and any number of reloads, reconnects and deaths*)
(* of the port-forward.                                                      *)
(*                                                                           *)
(* The argument: one reconnect at most is under way, which the flag tells.   *)
(*****************************************************************************)

Tally == [Stages -> Nat]
Busy == [Steps -> Nat]

\* While the screen is on one reconnect at most is under way, which the flag tells, and
\* between its stop and its start no kubectl is left.
AlertsInv ==
  /\ alertsProgram \in {"on", "quit", "stopped", "exited"}
  /\ loading \in BOOLEAN /\ refreshing \in BOOLEAN /\ reconnecting \in BOOLEAN
  /\ loads \in Tally /\ InFlight <= MaxAlertLoads + 1
  /\ reconnects \in Busy /\ Running <= 1
  /\ client \in Ports /\ forward \in Ports /\ procs \subseteq Ports
  /\ On => /\ reconnecting => Running = 1
           /\ ~reconnecting => Running = 0
           /\ procs \subseteq {forward}
           /\ reconnects["starting"] > 0 => procs = {}

USE AlertsAssumption

\* Each step of a command, a process or a key.
LEMMA GetAlertsInv == ASSUME AlertsInv, GetAlerts PROVE AlertsInv'
  BY DEF GetAlerts, AlertsInv, On, InFlight, Running, Tally, Stages, Move, alertFlags

LEMMA ReconnectStopsInv == ASSUME AlertsInv, ReconnectStops PROVE AlertsInv'
  BY DEF ReconnectStops, AlertsInv, On, InFlight, Running, Busy, Steps, Move, Stop,
     alertFlags

LEMMA SpawnInv == ASSUME AlertsInv, Spawn PROVE AlertsInv'
  BY DEF Spawn, AlertsInv, On, InFlight, Running, Busy, Steps, Move, alertFlags

LEMMA SpawnFailsInv == ASSUME AlertsInv, SpawnFails PROVE AlertsInv'
  BY DEF SpawnFails, AlertsInv, On, InFlight, Running, Busy, Steps, Move, alertFlags

LEMMA ForwardingInv == ASSUME AlertsInv, Forwarding PROVE AlertsInv'
  BY DEF Forwarding, AlertsInv, On, InFlight, Running, Busy, Steps, Move, alertFlags

LEMMA StartFailsInv == ASSUME AlertsInv, StartFails PROVE AlertsInv'
  BY DEF StartFails, AlertsInv, On, InFlight, Running, Busy, Steps, Move, Stop,
     alertFlags

LEMMA ForwardDiesInv == ASSUME AlertsInv, ForwardDies PROVE AlertsInv'
  BY DEF ForwardDies, AlertsInv, On, InFlight, Running, alertFlags

LEMMA AutoRefreshInv == ASSUME AlertsInv, AutoRefresh PROVE AlertsInv'
  BY DEF AutoRefresh, AlertsInv, InFlight, Running, Tally, Stages, LoadCmd

LEMMA ReloadKeyInv == ASSUME AlertsInv, ReloadKey PROVE AlertsInv'
  BY DEF ReloadKey, AlertsInv, InFlight, Running, Tally, Stages, LoadCmd

LEMMA ReconnectKeyInv == ASSUME AlertsInv, ReconnectKey PROVE AlertsInv'
  BY DEF ReconnectKey, AlertsInv, InFlight, Running, Busy, Steps, ReconnectCmd

LEMMA QuitKeyInv == ASSUME AlertsInv, QuitKey PROVE AlertsInv'
  BY DEF QuitKey, AlertsInv, InFlight, Running, alertFlags

LEMMA DeferredStopInv == ASSUME AlertsInv, DeferredStop PROVE AlertsInv'
  BY DEF DeferredStop, AlertsInv, On, InFlight, Running, Stop, alertFlags

LEMMA ProcessEndsInv == ASSUME AlertsInv, ProcessEnds PROVE AlertsInv'
  BY DEF ProcessEnds, AlertsInv, On, InFlight, Running, alertFlags

\* One load or reconnect is handed over and is gone.
LEMMA LoadTaken ==
  ASSUME AlertsInv, NEW s \in Stages, loads[s] > 0, loads' = [loads EXCEPT ![s] = @ - 1]
  PROVE  loads' \in Tally /\ InFlight' <= MaxAlertLoads + 1
  <1>1. loads' \in Tally /\ loads'[s] = loads[s] - 1 /\ \A o \in Stages \ {s} : loads'[o] = loads[o]
    BY DEF AlertsInv, Tally
  <1>2. InFlight \in Nat /\ InFlight' = InFlight - 1
    BY <1>1 DEF AlertsInv, Tally, Stages, InFlight
  <1> QED
    BY <1>1, <1>2 DEF AlertsInv, AlertsAssumption

\* A reconnect's answer leaves none under way.
LEMMA ReconnectTaken ==
  ASSUME AlertsInv, NEW s \in {"ready", "gaveUp"}, reconnects[s] > 0,
         reconnects' = [reconnects EXCEPT ![s] = @ - 1]
  PROVE  /\ reconnects' \in Busy /\ Running' = 0
         /\ reconnects'["starting"] = reconnects["starting"] /\ Running = 1
  <1>1. /\ reconnects' \in Busy /\ reconnects'[s] = reconnects[s] - 1
        /\ \A o \in Steps \ {s} : reconnects'[o] = reconnects[o]
    BY DEF AlertsInv, Busy, Steps
  <1>2. Running \in Nat /\ Running' = Running - 1 /\ Running >= 1
    BY <1>1 DEF AlertsInv, Busy, Steps, Running
  <1>3. Running <= 1
    BY DEF AlertsInv
  <1> QED
    BY <1>1, <1>2, <1>3 DEF Steps

\* Each message handled.
LEMMA LoadedInv == ASSUME AlertsInv, Loaded PROVE AlertsInv'
  <1>1. loads' \in Tally /\ InFlight' <= MaxAlertLoads + 1
    BY LoadTaken DEF Loaded, Stages
  <1> QED
    BY <1>1 DEF Loaded, AlertsInv, Running

LEMMA LoadErrInv == ASSUME AlertsInv, NEW k \in {"refused", "failed"}, LoadErr(k) PROVE AlertsInv'
  <1>1. loads' \in Tally /\ InFlight' <= MaxAlertLoads + 1
    BY LoadTaken DEF LoadErr, Stages
  <1>2. CASE UNCHANGED <<reconnecting, reconnects>>
    BY <1>1, <1>2 DEF LoadErr, AlertsInv, Running
  <1>3. CASE ~reconnecting /\ reconnecting' = TRUE /\ ReconnectCmd
    <2>1. /\ reconnects' \in Busy /\ Running' = Running + 1
          /\ reconnects'["starting"] = reconnects["starting"]
      BY <1>3 DEF AlertsInv, ReconnectCmd, Busy, Steps, Running
    <2>2. On /\ Running = 0 /\ reconnects["starting"] = 0
      BY <1>3 DEF LoadErr, AlertsInv, Busy, Steps, Running
    <2>3. Running' = 1 /\ Running' <= 1 /\ ~(reconnects'["starting"] > 0)
      BY <2>1, <2>2
    <2>4. /\ loading' \in BOOLEAN /\ refreshing' \in BOOLEAN /\ reconnecting' \in BOOLEAN
          /\ reconnecting'
      BY <1>3 DEF LoadErr
    <2> QED
      BY <1>1, <2>1, <2>2, <2>3, <2>4 DEF LoadErr, AlertsInv, On
  <1> QED
    BY <1>2, <1>3 DEF LoadErr

\* The flag and the command it stands for end together.
LEMMA FlagDown ==
  ASSUME AlertsInv, UNCHANGED <<alertsProgram, client, forward, procs>>, alertsProgram = "on",
         loading' \in BOOLEAN, refreshing' \in BOOLEAN, reconnecting' = FALSE,
         loads' \in Tally, InFlight' <= MaxAlertLoads + 1,
         reconnects' \in Busy, Running' = 0, reconnects'["starting"] = reconnects["starting"]
  PROVE  AlertsInv'
  <1>1. procs \subseteq {forward} /\ (reconnects["starting"] > 0 => procs = {})
    BY DEF AlertsInv, On
  <1>2. client \in Ports /\ forward \in Ports /\ procs \subseteq Ports
    BY DEF AlertsInv
  <1>3. reconnecting' \in BOOLEAN /\ ~reconnecting'
    OBVIOUS
  <1>4. Running' <= 1
    OBVIOUS
  <1> QED
    BY <1>1, <1>2, <1>3, <1>4 DEF AlertsInv, On

LEMMA ReconnectedInv == ASSUME AlertsInv, Reconnected PROVE AlertsInv'
  <1>1. loads' \in Tally /\ InFlight' <= MaxAlertLoads + 1
    BY DEF Reconnected, AlertsInv, Tally, Stages, InFlight
  <1>2. reconnects' \in Busy /\ Running' = 0 /\ reconnects'["starting"] = reconnects["starting"]
    BY ReconnectTaken DEF Reconnected
  <1>3. /\ UNCHANGED <<alertsProgram, client, forward, procs>> /\ alertsProgram = "on"
        /\ loading' \in BOOLEAN /\ refreshing' \in BOOLEAN /\ reconnecting' = FALSE
    BY DEF Reconnected, AlertsInv, On
  <1> QED
    BY <1>1, <1>2, <1>3, FlagDown

LEMMA ReconnectFailedInv == ASSUME AlertsInv, ReconnectFailed PROVE AlertsInv'
  <1>1. reconnects' \in Busy /\ Running' = 0 /\ reconnects'["starting"] = reconnects["starting"]
    BY ReconnectTaken DEF ReconnectFailed
  <1>2. loads' \in Tally /\ InFlight' <= MaxAlertLoads + 1
    BY DEF ReconnectFailed, AlertsInv, InFlight
  <1>3. /\ UNCHANGED <<alertsProgram, client, forward, procs>> /\ alertsProgram = "on"
        /\ loading' \in BOOLEAN /\ refreshing' \in BOOLEAN /\ reconnecting' = FALSE
    BY DEF ReconnectFailed, AlertsInv, On
  <1> QED
    BY <1>1, <1>2, <1>3, FlagDown

\* The initial states, the steps, and with them every behaviour.
LEMMA AlertsInitInv == AlertsInit => AlertsInv
  <1> SUFFICES ASSUME AlertsInit PROVE AlertsInv
    OBVIOUS
  <1>1. loads \in Tally /\ InFlight <= MaxAlertLoads + 1
    BY DEF AlertsInit, InFlight, Tally, Stages
  <1>2. reconnects \in Busy /\ Running = 0
    BY DEF AlertsInit, Running, Busy, Steps
  <1>3. /\ client \in Ports /\ forward \in Ports /\ procs = {forward}
        /\ reconnects["starting"] = 0
    BY DEF AlertsInit, Steps
  <1>4. /\ alertsProgram = "on" /\ loading \in BOOLEAN /\ refreshing \in BOOLEAN
        /\ reconnecting \in BOOLEAN /\ ~reconnecting
    BY DEF AlertsInit
  <1> QED
    BY <1>1, <1>2, <1>3, <1>4 DEF AlertsInv

LEMMA AlertsNextInv == AlertsInv /\ [AlertsNext]_alertsVars => AlertsInv'
  <1> SUFFICES ASSUME AlertsInv, [AlertsNext]_alertsVars PROVE AlertsInv'
    OBVIOUS
  <1>1. CASE UNCHANGED alertsVars
    BY <1>1 DEF alertsVars, alertFlags, AlertsInv, On, InFlight, Running
  <1>2. CASE Command
    BY <1>2, GetAlertsInv, ReconnectStopsInv, SpawnInv, SpawnFailsInv, ForwardingInv,
       StartFailsInv DEF Command
  <1>3. CASE Handle
    BY <1>3, LoadedInv, ReconnectedInv, ReconnectFailedInv, LoadErrInv DEF Handle
  <1> QED
    BY <1>1, <1>2, <1>3, ForwardDiesInv, AutoRefreshInv, ReloadKeyInv, ReconnectKeyInv,
       QuitKeyInv, DeferredStopInv, ProcessEndsInv DEF AlertsNext

\* However reloads, reconnects, deaths of the process and keys interleave, the
\* reconnecting flag tells whether a reconnect is under way, and there is at most one.
THEOREM AlertsInvariant == AlertsSpec => []AlertsInv
  BY AlertsInitInv, AlertsNextInv, PTL DEF AlertsSpec

\* The screen, its commands under way and the processes keep their shapes; loads under
\* way are bounded, and two reconnects are never at the same step.
THEOREM AlertsTypesKept == AlertsSpec => []AlertsTypeOK
  <1>1. ASSUME AlertsInv PROVE AlertsTypeOK
    <2>1. loads \in [Stages -> 0 .. MaxAlertLoads + 1]
      <3>1. \A s \in Stages : loads[s] \in Nat /\ loads[s] <= MaxAlertLoads + 1
        BY <1>1 DEF AlertsInv, Tally, Stages, InFlight
      <3> QED
        BY <1>1, <3>1 DEF AlertsInv, Tally, AlertsAssumption
    <2>2. reconnects \in [Steps -> 0 .. 2]
      <3>1. \A s \in Steps : reconnects[s] \in Nat /\ reconnects[s] <= 1
        BY <1>1 DEF AlertsInv, Busy, Steps, Running
      <3> QED
        BY <1>1, <3>1 DEF AlertsInv, Busy
    <2> QED
      BY <1>1, <2>1, <2>2 DEF AlertsInv, AlertsTypeOK
  <1> QED
    BY <1>1, AlertsInvariant, PTL

\* reconnectCmd: Stop comes before Start, so the kubectl alive is the one remembered.
THEOREM ForwardKept == AlertsSpec => []ForwardIsOwned
  <1>1. AlertsInv => ForwardIsOwned
    BY DEF AlertsInv, ForwardIsOwned
  <1> QED
    BY <1>1, AlertsInvariant, PTL

HIDE AlertsAssumption

-----------------------------------------------------------------------------
(*****************************************************************************)
(* FleetScreen, for any fleet, and lists, probes and actions answered in any *)
(* order.                                                                    *)
(*                                                                           *)
(* The argument: every key that opens or closes a panel also disarms it, and *)
(* every list that arrives brings the selection back into its rows.          *)
(*****************************************************************************)

ReadList == [ok : BOOLEAN, names : SUBSET Clusters]
PanelRecord == [kind : {"none", "openbao", "drift", "kustomization"}, confirm : BOOLEAN]

AsyncOK == /\ ticking \in BOOLEAN /\ lists \subseteq ReadList
           /\ answers \subseteq Answers /\ results \subseteq Clusters
RowsOK == /\ loadingList \in BOOLEAN /\ clusters \in Seq(Clusters)
          /\ selected \in 1 .. (IF clusters = <<>> THEN 1 ELSE Len(clusters))
          /\ known \in [Clusters -> Moods \cup {"none"}]
PaneOK == /\ focus \in {"list", "details", "panel"} /\ panel \in PanelRecord
          /\ armed \in BOOLEAN /\ pressed \in BOOLEAN
          /\ armed /\ panel.kind = "drift" => pressed
WorldOK == /\ overlays \subseteq Clusters /\ mood \in [Clusters -> Moods]
           /\ changes \in 0 .. MaxChanges

ListInv == tab \in Tabs /\ AsyncOK /\ RowsOK /\ PaneOK /\ WorldOK

\* Induction over the naturals as a fact about sets.
LEMMA SetInduction ==
  ASSUME NEW S \in SUBSET Nat, 0 \in S, \A n \in Nat : n \in S => n + 1 \in S
  PROVE  S = Nat
  <1> SUFFICES ASSUME Nat \ S # {} PROVE FALSE
    OBVIOUS
  <1> DEFINE R == OpToRel(<, Nat)
  <1>1. IsWellFoundedOn(R, Nat)
    BY NatLessThanWellFounded, Zenon
  <1>2. R = {p \in Nat \X Nat : p[1] < p[2]}
    BY Zenon DEF OpToRel
  <1> HIDE DEF R
  <1>3. PICK x \in Nat \ S : \A y \in Nat \ S : ~(<<y, x>> \in R)
    BY <1>1, WFMin
  <1>4. x # 0 /\ x - 1 \in Nat /\ <<x - 1, x>> \in R
    BY <1>2
  <1>5. x - 1 \in S
    BY <1>3, <1>4
  <1> QED
    BY <1>4, <1>5

\* The fleet's own list.
LEMMA ListOK == FleetList \in Seq(Clusters)
  BY FleetScreenAssumption, Zenon

\* What the list has found up to its i-th name, given what it found before.
Found(g, names, i) ==
  IF i = 0 THEN <<>>
  ELSE IF FleetList[i] \in names THEN Append(g[i - 1], FleetList[i]) ELSE g[i - 1]

\* The function that Listed is defined by exists ...
LEMMA FoundExists ==
  ASSUME NEW names, NEW n \in Nat
  PROVE  \E g : g = [i \in 0 .. n |-> Found(g, names, i)]
  <1> DEFINE S == {k \in Nat : \E g : g = [i \in 0 .. k |-> Found(g, names, i)]}
  <1>1. 0 \in S
    <2> DEFINE g == [i \in 0 .. 0 |-> <<>>]
    <2>1. g = [i \in 0 .. 0 |-> Found(g, names, i)]
      BY DEF Found
    <2> QED
      BY <2>1
  <1>2. ASSUME NEW k \in Nat, k \in S PROVE k + 1 \in S
    <2>1. PICK f : f = [i \in 0 .. k |-> Found(f, names, i)]
      BY <1>2
    <2> DEFINE g == [i \in 0 .. (k + 1) |-> IF i = k + 1 THEN Found(f, names, k + 1) ELSE f[i]]
    <2>2. ASSUME NEW i \in 0 .. (k + 1) PROVE g[i] = Found(g, names, i)
      <3>1. i - 1 \in 0 .. k \/ i = 0
        BY <2>2
      <3>2. i # 0 => g[i - 1] = f[i - 1]
        BY <3>1
      <3>3. Found(g, names, i) = Found(f, names, i)
        BY <3>2 DEF Found
      <3>4. i # k + 1 => f[i] = Found(f, names, i)
        BY <2>1
      <3> QED
        BY <3>3, <3>4
    <2> HIDE DEF g
    <2>3. g = [i \in 0 .. (k + 1) |-> Found(g, names, i)]
      BY <2>2 DEF g
    <2> QED
      BY <2>3
  <1> HIDE DEF S
  <1>3. S = Nat
    BY <1>1, <1>2, SetInduction DEF S
  <1> QED
    BY <1>3 DEF S

\* ... and the list is one of clusters.
LEMMA ListedType == ASSUME NEW names PROVE Listed(names) \in Seq(Clusters)
  <1> DEFINE n == Len(FleetList)
             found == CHOOSE g : g = [i \in 0 .. n |-> Found(g, names, i)]
  <1>1. n \in Nat /\ \A i \in 1 .. n : FleetList[i] \in Clusters
    BY ListOK
  <1>2. Listed(names) = found[n]
    BY DEF Listed, Found
  <1> HIDE DEF n
  <1>3. found = [i \in 0 .. n |-> Found(found, names, i)]
    BY <1>1, FoundExists
  <1> HIDE DEF found
  <1> DEFINE S == {k \in Nat : k <= n => found[k] \in Seq(Clusters)}
  <1>4. 0 \in S
    BY <1>1, <1>3 DEF Found
  <1>5. ASSUME NEW k \in Nat, k \in S PROVE k + 1 \in S
    <2> SUFFICES ASSUME k + 1 <= n PROVE found[k + 1] \in Seq(Clusters)
      OBVIOUS
    <2>1. found[k] \in Seq(Clusters) /\ FleetList[k + 1] \in Clusters /\ k + 1 \in 0 .. n
      BY <1>1, <1>5
    <2>2. found[k + 1] = Found(found, names, k + 1)
      BY <1>3, <2>1
    <2> QED
      BY <2>1, <2>2 DEF Found
  <1> HIDE DEF S
  <1>6. S = Nat
    BY <1>4, <1>5, SetInduction DEF S
  <1> QED
    BY <1>1, <1>2, <1>6 DEF S
\* What the helpers of the actions return, and that each part of the invariant depends on
\* its own variables only.
LEMMA AskOK ==
  ASSUME ListInv, NEW cs \in SUBSET Clusters, Ask(cs)
  PROVE  answers' \subseteq Answers
  BY DEF ListInv, AsyncOK, WorldOK, Ask, Answers

LEMMA NameOK == ASSUME ListInv, clusters # <<>> PROVE Name \in Clusters
  <1>1. selected \in DOMAIN clusters /\ clusters[selected] \in Clusters
    BY DEF ListInv, RowsOK
  <1> QED
    BY <1>1, Zenon DEF Name

LEMMA RangeOK == ASSUME ListInv PROVE Range(clusters) \subseteq Clusters
  BY DEF ListInv, RowsOK, Range

LEMMA PaneKept == ASSUME PaneOK, UNCHANGED paneVars PROVE PaneOK'
  BY DEF PaneOK, paneVars
LEMMA RowsKept == ASSUME RowsOK, UNCHANGED listVars PROVE RowsOK'
  BY DEF RowsOK, listVars
LEMMA AsyncKept == ASSUME AsyncOK, UNCHANGED asyncVars PROVE AsyncOK'
  BY DEF AsyncOK, asyncVars
LEMMA WorldKept == ASSUME WorldOK, UNCHANGED worldVars PROVE WorldOK'
  BY DEF WorldOK, worldVars

LEMMA PanelOK ==
  ASSUME NEW kind \in {"none", "openbao", "drift", "kustomization"}, NEW confirm \in BOOLEAN
  PROVE  Panel(kind, confirm) \in PanelRecord /\ Panel(kind, confirm).kind = kind
  BY DEF Panel, PanelRecord

LEMMA EnumerationsOK == ASSUME WorldOK PROVE Enumerations \subseteq ReadList
  <1>1. [ok |-> TRUE, names |-> overlays] \in ReadList
    BY DEF WorldOK, ReadList
  <1>2. [ok |-> FALSE, names |-> {}] \in ReadList
    BY DEF ReadList
  <1> QED
    BY <1>1, <1>2 DEF Enumerations

\* Each step of the world, each message and each key.
LEMMA WorldInv == ASSUME ListInv, WorldChanges PROVE ListInv'
  <1>1. MaxChanges \in Nat
    BY FleetScreenAssumption, Zenon
  <1>2. changes' \in 0 .. MaxChanges
    BY <1>1 DEF WorldChanges, ListInv, WorldOK
  <1>3. overlays' \subseteq Clusters /\ mood' \in [Clusters -> Moods]
    <2>1. PICK c \in Clusters :
            \/ /\ overlays' = IF c \in overlays THEN overlays \ {c} ELSE overlays \cup {c}
               /\ UNCHANGED mood
            \/ \E f \in Moods \ {mood[c]} : mood' = [mood EXCEPT ![c] = f] /\ UNCHANGED overlays
      BY DEF WorldChanges
    <2> QED
      BY <2>1 DEF ListInv, WorldOK
  <1>4. WorldOK'
    BY <1>2, <1>3 DEF WorldOK
  <1> QED
    BY <1>4, PaneKept, RowsKept, AsyncKept DEF WorldChanges, ListInv

LEMMA FleetLoadedInv == ASSUME ListInv, NEW l \in lists, FleetLoaded(l) PROVE ListInv'
  <1>1. /\ UNCHANGED <<tab, paneVars, worldVars>> /\ l.names \in SUBSET Clusters
        /\ UNCHANGED <<ticking, results, known>>
        /\ lists' = lists \ {l} /\ loadingList' = FALSE /\ clusters' = Listed(l.names)
        /\ selected' = (IF selected > Len(clusters') THEN 1 ELSE selected)
        /\ Ask(l.names)
    BY DEF FleetLoaded, ListInv, AsyncOK, ReadList
  <1>2. clusters' \in Seq(Clusters)
    BY <1>1, ListedType
  <1>3. RowsOK'
    <2>1. selected \in Nat /\ selected >= 1
      BY DEF ListInv, RowsOK
    <2>2. selected' \in 1 .. (IF clusters' = <<>> THEN 1 ELSE Len(clusters'))
      BY <1>1, <1>2, <2>1
    <2>3. known' \in [Clusters -> Moods \cup {"none"}] /\ loadingList' \in BOOLEAN
      BY <1>1 DEF ListInv, RowsOK
    <2> QED
      BY <1>2, <2>2, <2>3 DEF RowsOK
  <1>4. AsyncOK'
    BY <1>1, AskOK DEF ListInv, AsyncOK
  <1> QED
    BY <1>1, <1>3, <1>4, PaneKept, WorldKept DEF ListInv

LEMMA ErrorInv == ASSUME ListInv, NEW l \in lists, FleetError(l) PROVE ListInv'
  <1>1. AsyncOK' /\ RowsOK'
    BY DEF FleetError, ListInv, AsyncOK, RowsOK
  <1> QED
    BY <1>1, PaneKept, WorldKept DEF FleetError, ListInv

LEMMA ProbeInv == ASSUME ListInv, NEW a \in answers, ProbeDone(a) PROVE ListInv'
  <1>1. /\ UNCHANGED <<tab, ticking, lists, results, loadingList, clusters, selected, worldVars>>
        /\ answers' \subseteq answers /\ a \in Answers
    BY DEF ProbeDone, ListInv, AsyncOK
  <1>2. AsyncOK'
    BY <1>1 DEF ListInv, AsyncOK
  <1>3. known' \in [Clusters -> Moods \cup {"none"}]
    BY <1>1 DEF ProbeDone, ListInv, RowsOK, Answers
  <1>4. RowsOK'
    BY <1>1, <1>3 DEF ListInv, RowsOK
  <1>5. PaneOK'
    <2>1. /\ pressed' = pressed /\ armed' = (armed /\ ~(panel.kind = "drift" /\ a.cluster = Name))
          /\ \/ OpenOpenBao \/ UNCHANGED <<panel, focus>>
             \/ panel.kind = "drift" /\ a.cluster = Name /\ OpenDrift(known', FALSE)
      BY DEF ProbeDone
    <2>2. armed' \in BOOLEAN /\ pressed' \in BOOLEAN /\ (armed' => armed)
      BY <2>1 DEF ListInv, PaneOK
    <2>3. /\ focus' \in {"list", "details", "panel"} /\ panel' \in PanelRecord
          /\ panel'.kind = "drift" => armed' = FALSE \/ panel' = panel
      <3>1. CASE OpenOpenBao
        BY <3>1, PanelOK DEF OpenOpenBao
      <3>2. CASE UNCHANGED <<panel, focus>>
        BY <3>2 DEF ListInv, PaneOK
      <3>3. CASE panel.kind = "drift" /\ a.cluster = Name /\ OpenDrift(known', FALSE)
        <4>1. armed' = FALSE
          BY <2>1, <3>3
        <4>2. CASE UNCHANGED <<panel, focus>>
          BY <4>1, <4>2 DEF ListInv, PaneOK
        <4>3. CASE panel' = Panel("drift", FALSE) /\ focus' = "panel"
          BY <4>1, <4>3, PanelOK
        <4> QED
          BY <3>3, <4>2, <4>3 DEF OpenDrift
      <3> QED
        BY <2>1, <3>1, <3>2, <3>3
    <2> QED
      BY <2>1, <2>2, <2>3 DEF ListInv, PaneOK
  <1> QED
    BY <1>1, <1>2, <1>4, <1>5, WorldKept DEF ListInv

LEMMA TickInv == ASSUME ListInv, Tick PROVE ListInv'
  <1>1. AsyncOK'
    BY AskOK, RangeOK DEF Tick, ListInv, AsyncOK
  <1> QED
    BY <1>1, PaneKept, RowsKept, WorldKept DEF Tick, ListInv

LEMMA ActionInv == ASSUME ListInv, NEW c \in results, ActionDone(c) PROVE ListInv'
  <1>1. AsyncOK'
    BY AskOK, RangeOK DEF ActionDone, ListInv, AsyncOK
  <1> QED
    BY <1>1, PaneKept, RowsKept, WorldKept DEF ActionDone, ListInv

LEMMA DroppedInv == ASSUME ListInv, Dropped PROVE ListInv'
  <1>1. AsyncOK'
    BY DEF Dropped, ListInv, AsyncOK
  <1> QED
    BY <1>1, PaneKept, RowsKept, WorldKept DEF Dropped, ListInv

LEMMA TabInv == ASSUME ListInv, SwitchTab PROVE ListInv'
  BY PaneKept, RowsKept, AsyncKept, WorldKept DEF SwitchTab, ListInv

LEMMA RefreshInv == ASSUME ListInv, RefreshKey PROVE ListInv'
  <1>1. AsyncOK' /\ RowsOK'
    BY EnumerationsOK DEF RefreshKey, ListInv, AsyncOK, RowsOK
  <1> QED
    BY <1>1, PaneKept, WorldKept DEF RefreshKey, ListInv

LEMMA MoveInv == ASSUME ListInv, MoveSelection PROVE ListInv'
  <1>1. RowsOK'
    BY DEF MoveSelection, ListInv, RowsOK
  <1> QED
    BY <1>1, PaneKept, AsyncKept, WorldKept DEF MoveSelection, ListInv

LEMMA FocusInv == ASSUME ListInv, CycleFocus PROVE ListInv'
  <1>1. PaneOK'
    BY DEF CycleFocus, ListInv, PaneOK
  <1> QED
    BY <1>1, RowsKept, AsyncKept, WorldKept DEF CycleFocus, ListInv

LEMMA EscInv == ASSUME ListInv, EscKey PROVE ListInv'
  <1>1. PaneOK'
    <2>1. CASE panel' = NoPanel /\ armed' = FALSE /\ pressed' = FALSE /\ focus' = "details"
      BY <2>1, PanelOK DEF PaneOK, NoPanel
    <2>2. CASE focus' = "list" /\ UNCHANGED <<panel, armed, pressed>>
      BY <2>2 DEF ListInv, PaneOK
    <2> QED
      BY <2>1, <2>2 DEF EscKey
  <1> QED
    BY <1>1, RowsKept, AsyncKept, WorldKept DEF EscKey, ListInv

LEMMA OpenBaoKeyInv == ASSUME ListInv, OpenBaoKey PROVE ListInv'
  <1>1. PaneOK'
    BY DEF OpenBaoKey, OpenOpenBao, ListInv, PaneOK, Panel, PanelRecord
  <1> QED
    BY <1>1, RowsKept, AsyncKept, WorldKept DEF OpenBaoKey, ListInv

\* A dispatched action is one on a cluster of the list.
LEMMA DispatchOK ==
  ASSUME ListInv, Dispatch, UNCHANGED <<ticking, lists, answers>>
  PROVE  AsyncOK'
  BY NameOK DEF Dispatch, ListInv, AsyncOK

LEMMA LoginInv == ASSUME ListInv, LoginOrUnsealKey PROVE ListInv'
  BY DispatchOK, PaneKept, RowsKept, WorldKept DEF LoginOrUnsealKey, ListInv

LEMMA ReconcileInv == ASSUME ListInv, ReconcileKey PROVE ListInv'
  <1>1. AsyncOK'
    <2>1. CASE UNCHANGED results
      BY <2>1 DEF ReconcileKey, ListInv, AsyncOK
    <2>2. CASE Dispatch
      BY <2>2, DispatchOK DEF ReconcileKey
    <2> QED
      BY <2>1, <2>2 DEF ReconcileKey
  <1>2. PaneOK'
    <2>1. pressed' = TRUE /\ armed' \in BOOLEAN
      BY DEF ReconcileKey
    <2>2. focus' \in {"list", "details", "panel"} /\ panel' \in PanelRecord
      BY PanelOK DEF ReconcileKey, OpenDrift, ListInv, PaneOK
    <2> QED
      BY <2>1, <2>2 DEF PaneOK
  <1> QED
    BY <1>1, <1>2, RowsKept, WorldKept DEF ReconcileKey, ListInv

LEMMA EnterListInv == ASSUME ListInv, EnterList PROVE ListInv'
  <1>1. AsyncOK'
    <2>1. CASE UNCHANGED results
      BY <2>1 DEF EnterList, ListInv, AsyncOK
    <2>2. CASE Dispatch
      BY <2>2, DispatchOK DEF EnterList
    <2> QED
      BY <2>1, <2>2 DEF EnterList
  <1>2. PaneOK'
    BY DEF EnterList, ListInv, PaneOK
  <1> QED
    BY <1>1, <1>2, RowsKept, WorldKept DEF EnterList, ListInv

LEMMA EnterDetailsInv ==
  ASSUME ListInv, NEW kind \in {"openbao", "drift", "kustomization"}, EnterDetails(kind)
  PROVE  ListInv'
  <1>1. PaneOK'
    BY DEF EnterDetails, ListInv, PaneOK, Panel, PanelRecord
  <1> QED
    BY <1>1, RowsKept, AsyncKept, WorldKept DEF EnterDetails, ListInv

\* The initial states, the steps, and with them every behaviour.
LEMMA ListInitInv == ListInit => ListInv
  <1> SUFFICES ASSUME ListInit PROVE ListInv
    OBVIOUS
  <1>1. StartTab \in Tabs /\ MaxChanges \in Nat
    BY FleetScreenAssumption, Zenon
  <1>3. RowsOK
    BY DEF ListInit, RowsOK
  <1>4. PaneOK
    BY DEF ListInit, PaneOK, NoPanel, Panel, PanelRecord
  <1>5. WorldOK
    BY <1>1 DEF ListInit, WorldOK
  <1>2. AsyncOK
    BY <1>5, EnumerationsOK DEF ListInit, AsyncOK
  <1> QED
    BY <1>1, <1>2, <1>3, <1>4, <1>5 DEF ListInit, ListInv

LEMMA ListNextInv == ListInv /\ [ListNext]_fleetScreenVars => ListInv'
  <1> SUFFICES ASSUME ListInv, [ListNext]_fleetScreenVars PROVE ListInv'
    OBVIOUS
  <1>1. CASE UNCHANGED fleetScreenVars
    BY <1>1, PaneKept, RowsKept, AsyncKept, WorldKept DEF fleetScreenVars, ListInv
  <1>2. CASE Message
    BY <1>2, FleetLoadedInv, ErrorInv, ProbeInv, ActionInv, TickInv DEF Message
  <1>3. CASE Key
    BY <1>3, TabInv, RefreshInv, MoveInv, FocusInv, EscInv, OpenBaoKeyInv, LoginInv,
       ReconcileInv, EnterListInv, EnterDetailsInv DEF Key
  <1> QED
    BY <1>1, <1>2, <1>3, WorldInv, DroppedInv DEF ListNext

\* Lists, probes and actions that answer late, in any order and after the list has changed
\* leave the selection on a row and the panel with its own arming.
THEOREM ListInvariant == ListSpec => []ListInv
  BY ListInitInv, ListNextInv, PTL DEF ListSpec

\* The list, its rows' moods and the answers under way keep their shapes.
THEOREM ListTypesKept == ListSpec => []ListTypeOK
  <1>1. ListInv => ListTypeOK
    BY DEF ListInv, AsyncOK, RowsOK, PaneOK, WorldOK, ReadList, PanelRecord, ListTypeOK
  <1> QED
    BY <1>1, ListInvariant, PTL

\* The drift panel's second press: what it runs was armed on this panel, and the selected
\* row exists, in a fleet of any size.
THEOREM PanelArmed == ListSpec => []ArmedByThisPanel
  <1>1. ListInv => ArmedByThisPanel
    BY DEF ListInv, RowsOK, PaneOK, ArmedByThisPanel
  <1> QED
    BY <1>1, ListInvariant, PTL

=============================================================================
