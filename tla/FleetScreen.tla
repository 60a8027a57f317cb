------------------------------ MODULE FleetScreen ------------------------------
(* `kube-dc bootstrap`: the fleet screen behind the root's tabs.  Enumerations of   *)
(* the fleet repository, probes of the clusters, the refresh timer and the actions  *)
(* the operator dispatches answer with messages, in any order; the root hands each  *)
(* one to the tab that is active then, and only the fleet tab knows these messages. *)
EXTENDS Integers, SequencesExt

CONSTANTS
  FleetList,   \* the clusters a fleet may hold, in the order of the list
  StartTab,    \* the tab the command opens
  MaxLoads,    \* bound: enumerations in flight
  MaxChanges   \* bound: changes of the repository and of the clusters

Tabs == {"fleet", "other"}
Clusters == Range(FleetList)
Moods == {"calm", "drift"}   \* what a probe finds: image drift or none

ASSUME FleetScreenAssumption ==
  /\ FleetList \in Seq(Clusters) \ {<<>>} /\ "" \notin Clusters /\ StartTab \in Tabs
  /\ MaxLoads \in Nat \ {0} /\ MaxChanges \in Nat

VARIABLES
  tab,
  ticking,    \* the refresh timer is armed, or its tick is on the way
  loadingList, \* the flag of the title row
  lists,      \* enumerations in flight, with what each has read
  answers,    \* probes in flight, with what each has found
  results,    \* the cluster whose dispatched action has returned, its message on the way
  clusters, selected, known,
  focus, panel, armed,
  overlays,   \* what the repository holds
  mood,       \* what a probe would find
  changes,
  pressed     \* history: R was pressed on the panel that is open

asyncVars == <<ticking, lists, answers, results>>
listVars == <<loadingList, clusters, selected, known>>
paneVars == <<focus, panel, armed, pressed>>
worldVars == <<overlays, mood, changes>>
fleetScreenVars == <<tab, asyncVars, listVars, paneVars, worldVars>>

Active == tab = "fleet"
Name == IF clusters = <<>> THEN "" ELSE clusters[selected]
Panel(kind, confirm) == [kind |-> kind, confirm |-> confirm]
NoPanel == Panel("none", FALSE)
Answers == [cluster : Clusters, mood : Moods]

\* ListClusters reads the repository, or fails.
Enumerations == {[ok |-> TRUE, names |-> overlays], [ok |-> FALSE, names |-> {}]}

\* ListClusters appends what it finds and sorts it: the list keeps its order.
Listed(names) ==
  LET found[i \in 0 .. Len(FleetList)] ==
        IF i = 0 THEN <<>>
        ELSE IF FleetList[i] \in names THEN Append(found[i - 1], FleetList[i]) ELSE found[i - 1]
  IN found[Len(FleetList)]

ListInit ==
  /\ tab = StartTab /\ ticking = TRUE /\ loadingList = TRUE /\ answers = {} /\ results = {}
  /\ clusters = <<>> /\ selected = 1 /\ known = [c \in Clusters |-> "none"]
  /\ focus = "list" /\ panel = NoPanel /\ armed = FALSE /\ pressed = FALSE
  /\ overlays = Clusters /\ mood \in [Clusters -> Moods] /\ changes = 0
  /\ \E l \in Enumerations : lists = {l}

(* -------------------------------------- the world -------------------------------------- *)
\* A development image is deployed, Flux reverts it, a cluster is added or removed;
\* what the dispatched actions do to a cluster is among it.
WorldChanges ==
  /\ changes < MaxChanges /\ changes' = changes + 1
  /\ \E c \in Clusters :
       \/ /\ overlays' = IF c \in overlays THEN overlays \ {c} ELSE overlays \cup {c}
          /\ UNCHANGED mood
       \/ \E f \in Moods \ {mood[c]} : mood' = [mood EXCEPT ![c] = f] /\ UNCHANGED overlays
  /\ UNCHANGED <<tab, asyncVars, listVars, paneVars>>

(* -------------------------------- messages to the screen -------------------------------- *)
\* A probe takes up to eight seconds; one that looks at the cluster late is one that
\* was started late, for the timer may fire at any time.
Ask(cs) == answers' = answers \cup {[cluster |-> c, mood |-> mood[c]] : c \in cs}

\* Mutant: a shorter list leaves the selection where it was.
FleetLoadedNoClamp(l) ==
  /\ Active /\ l \in lists /\ l.ok /\ lists' = lists \ {l}
  /\ loadingList' = FALSE /\ clusters' = Listed(l.names)
  /\ UNCHANGED selected
  /\ Ask(l.names)
  /\ UNCHANGED <<tab, ticking, results, known, paneVars, worldVars>>

FleetLoaded(l) ==
  /\ Active /\ l \in lists /\ l.ok /\ lists' = lists \ {l}
  /\ loadingList' = FALSE /\ clusters' = Listed(l.names)
  /\ selected' = IF selected > Len(clusters') THEN 1 ELSE selected
  /\ Ask(l.names)
  /\ UNCHANGED <<tab, ticking, results, known, paneVars, worldVars>>

FleetError(l) ==
  /\ Active /\ l \in lists /\ ~l.ok /\ lists' = lists \ {l} /\ loadingList' = FALSE
  /\ UNCHANGED <<tab, ticking, answers, results, clusters, selected,
                 known, paneVars, worldVars>>

\* openDriftDrill: nothing is drawn for a cluster that is not known to drift.
OpenDrift(seen, confirm) ==
  IF clusters # <<>> /\ seen[Name] = "drift"
  THEN panel' = Panel("drift", confirm) /\ focus' = "panel"
  ELSE UNCHANGED <<panel, focus>>
OpenOpenBao == panel' = Panel("openbao", FALSE) /\ focus' = "panel"

\* A result is kept for a cluster of the list; an open panel is drawn again when the
\* result is of the selected cluster.
ProbeDone(a) ==
  /\ Active /\ a \in answers /\ answers' = answers \ {a}
  /\ known' = IF a.cluster \in Range(clusters) THEN [known EXCEPT ![a.cluster] = a.mood] ELSE known
  /\ armed' = (armed /\ ~(panel.kind = "drift" /\ a.cluster = Name))
  /\ CASE panel.kind = "openbao" /\ a.cluster = Name -> OpenOpenBao
       [] panel.kind = "drift" /\ a.cluster = Name   -> OpenDrift(known', FALSE)
       [] OTHER -> UNCHANGED <<panel, focus>>
  /\ UNCHANGED <<tab, ticking, lists, results, loadingList, clusters,
                 selected, pressed, worldVars>>

\* Mutant: the tick does not arm the timer again.
TickOnce ==
  /\ Active /\ ticking /\ Ask(Range(clusters)) /\ ticking' = FALSE
  /\ UNCHANGED <<tab, lists, results, listVars, paneVars, worldVars>>

Tick ==
  /\ Active /\ ticking /\ Ask(Range(clusters))
  /\ UNCHANGED <<tab, ticking, lists, results, listVars, paneVars, worldVars>>

\* LoginDoneMsg, ActionDoneMsg: the cluster is probed again.
ActionDone(c) ==
  /\ Active /\ c \in results /\ results' = results \ {c}
  /\ Ask({c} \cap Range(clusters))
  /\ UNCHANGED <<tab, ticking, lists, listVars, paneVars, worldVars>>

\* Another tab is active: it is handed the message, and the fleet tab never sees it.
Dropped ==
  /\ tab # "fleet"
  /\ \/ \E l \in lists : lists' = lists \ {l} /\ UNCHANGED <<answers, results, ticking>>
     \/ \E a \in answers : answers' = answers \ {a} /\ UNCHANGED <<lists, results, ticking>>
     \/ \E c \in results : results' = results \ {c} /\ UNCHANGED <<lists, answers, ticking>>
     \/ ticking /\ ticking' = FALSE /\ UNCHANGED <<lists, answers, results>>
  /\ UNCHANGED <<tab, listVars, paneVars, worldVars>>

(* ---------------------------------------- keys ---------------------------------------- *)
SwitchTab == /\ tab' \in Tabs \ {tab}
             /\ UNCHANGED <<asyncVars, listVars, paneVars, worldVars>>

RefreshKey ==
  /\ Active /\ Cardinality(lists) < MaxLoads
  /\ loadingList' = TRUE /\ \E l \in Enumerations : lists' = lists \cup {l}
  /\ UNCHANGED <<tab, ticking, answers, results, clusters, selected,
                 known, paneVars, worldVars>>

\* Up and Down on the list; the panel is left as it is.
MoveSelection ==
  /\ Active /\ focus = "list" /\ selected' \in {selected - 1, selected + 1} \cap DOMAIN clusters
  /\ UNCHANGED <<tab, asyncVars, loadingList, clusters, known, paneVars, worldVars>>

\* Tab and Shift-Tab go round the panes that are there.
CycleFocus ==
  /\ Active /\ UNCHANGED <<tab, asyncVars, listVars, panel, armed, pressed, worldVars>>
  /\ focus' \in ({"list", "details"} \cup (IF panel.kind = "none" THEN {} ELSE {"panel"})) \ {focus}

EscKey ==
  /\ Active
  /\ IF panel.kind # "none"
     THEN panel' = NoPanel /\ armed' = FALSE /\ pressed' = FALSE /\ focus' = "details"
     ELSE focus' = "list" /\ UNCHANGED <<panel, armed, pressed>>
  /\ UNCHANGED <<tab, asyncVars, listVars, worldVars>>

OpenBaoKey ==
  /\ Active /\ clusters # <<>> /\ OpenOpenBao /\ pressed' = FALSE
  /\ UNCHANGED <<tab, asyncVars, listVars, armed, worldVars>>

\* The subprocess has the terminal until it ends; its message is under way then.  Another
\* one started before that message is handled makes no difference.
Dispatch == clusters # <<>> /\ results = {} /\ results' = {Name}

\* L anywhere, u on the OpenBao panel.
LoginOrUnsealKey ==
  /\ Active /\ Dispatch
  /\ UNCHANGED <<tab, ticking, lists, answers, listVars, paneVars, worldVars>>

\* R on the drift panel: the first press arms, the second runs `flux reconcile`.
ReconcileKey ==
  /\ Active /\ panel.kind = "drift" /\ pressed' = TRUE
  /\ IF armed THEN Dispatch /\ armed' = FALSE /\ UNCHANGED <<panel, focus>>
              ELSE armed' = TRUE /\ OpenDrift(known, TRUE) /\ UNCHANGED results
  /\ UNCHANGED <<tab, ticking, lists, answers, listVars, worldVars>>

\* Enter on the list runs the row's fix action when there is one: a cluster that has to
\* be logged in to first is not known to drift.
EnterList ==
  /\ Active /\ focus = "list" /\ clusters # <<>>
  /\ \/ known[Name] = "calm" /\ Dispatch /\ UNCHANGED focus
     \/ focus' = "details" /\ UNCHANGED results
  /\ UNCHANGED <<tab, ticking, lists, answers, listVars, panel, armed,
                 pressed, worldVars>>

\* Mutant: the drift panel is opened as it was left.
EnterDetailsArmed(kind) ==
  /\ Active /\ focus = "details" /\ clusters # <<>> /\ known[Name] # "none"
  /\ kind = "drift" => known[Name] = "drift"
  /\ panel' = Panel(kind, kind = "drift" /\ armed) /\ focus' = "panel" /\ pressed' = FALSE
  /\ UNCHANGED <<tab, asyncVars, listVars, armed, worldVars>>

\* Enter on a row of the details pane, wherever its cursor is.
EnterDetails(kind) ==
  /\ Active /\ focus = "details" /\ clusters # <<>> /\ known[Name] # "none"
  /\ kind = "drift" => known[Name] = "drift"
  /\ panel' = Panel(kind, FALSE) /\ focus' = "panel" /\ pressed' = FALSE
  /\ armed' = (armed /\ kind # "drift")
  /\ UNCHANGED <<tab, asyncVars, listVars, worldVars>>

Message == \/ \E l \in lists : FleetLoaded(l) \/ FleetError(l)
           \/ \E a \in answers : ProbeDone(a)
           \/ \E c \in results : ActionDone(c)
           \/ Tick
Key == \/ SwitchTab \/ RefreshKey \/ MoveSelection \/ CycleFocus \/ EscKey \/ OpenBaoKey
       \/ LoginOrUnsealKey \/ ReconcileKey \/ EnterList
       \/ \E kind \in {"openbao", "drift", "kustomization"} : EnterDetails(kind)
ListNext == WorldChanges \/ Message \/ Dropped \/ Key

\* Commands end (each has a deadline), messages are handed on and the timer fires.
ListSpec == /\ ListInit /\ [][ListNext]_fleetScreenVars
        /\ \A a \in Answers : WF_fleetScreenVars(ProbeDone(a))
        /\ WF_fleetScreenVars(Tick)

(* ------------------------------------- properties ------------------------------------- *)
\* The state of the screen.
ListTypeOK ==
  /\ tab \in Tabs
  /\ {ticking, loadingList, armed, pressed} \subseteq BOOLEAN
  /\ lists \subseteq [ok : BOOLEAN, names : SUBSET Clusters]
  /\ answers \subseteq Answers /\ results \subseteq Clusters
  /\ clusters \in Seq(Clusters)
  /\ selected \in 1 .. (IF clusters = <<>> THEN 1 ELSE Len(clusters))
  /\ known \in [Clusters -> Moods \cup {"none"}]
  /\ focus \in {"list", "details", "panel"}
  /\ panel \in [kind : {"none", "openbao", "drift", "kustomization"}, confirm : BOOLEAN]
  /\ overlays \subseteq Clusters /\ mood \in [Clusters -> Moods] /\ changes \in 0 .. MaxChanges

\* "reconcile reverts a dev image": what one press will run on the drift panel was armed
\* by a press on this panel, not by one on a panel that was closed or replaced since; and
\* the cluster it runs on, which the keys read unchecked, is one of the list, however the
\* lists grow and shrink between two keys.
ArmedByThisPanel ==
  /\ armed /\ panel.kind = "drift" => pressed
  /\ clusters # <<>> => selected \in DOMAIN clusters

\* While the fleet tab stays active, what it shows of the listed clusters becomes what
\* is there, although an old probe may answer after a new one.
StatusCatchesUp ==
  [](Active) => <>[](\A c \in Range(clusters) : known[c] = mood[c])

===============================================================================
