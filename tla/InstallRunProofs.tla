-------------------------- MODULE InstallRunProofs --------------------------
(*****************************************************************************)
(* Theorems about InstallRun, for every set of flags, size of the event      *)
(* channel and number of steps that still succeed after a cancellation.      *)
(*                                                                           *)
(* The argument has two halves.  The engine's: an install is a program of    *)
(* instructions, and whatever of it is left still ends every milestone that  *)
(* was not ended, starts nothing it does not end, and follows a fixed order  *)
(* (ProgramOK).  The screen's: of a milestone the last event under way, or   *)
(* its row when none is, is what the engine last reported of it (EventsOK),  *)
(* so the finished checklist, whose channel is empty, is the engine's own.   *)
(*****************************************************************************)
EXTENDS InstallRun, FiniteSetTheorems, SequenceTheorems, TLAPS

Terminal == {"done", "failed", "skipped"}
Best(o) == {"fetch-kubeconfig", "reconcile", "openbao", "keycloak"} \cup GpuRows(o)

\* The instructions an engine with flags o ever has before it.
Ops == Statuses \cup {"gate", "try", "fetch", "check", "session", "watch"}
Fits(x, o) ==
  /\ x.op \in {"session", "watch"} => x.id = "reconcile"
  /\ x.op \in {"gate", "try", "fetch"} => x.id # "reconcile"
  /\ x.op \in {"try", "failed"} => x.id \in Best(o)
  /\ x.op = "fetch" => x.id = "fetch-kubeconfig"
Instr(o) == {x \in [op : Ops, id : Milestones] : Fits(x, o)}
Message == [kind : {"plan"}] \cup [kind : {"status"}, id : Milestones, status : Statuses]
           \cup [kind : {"finished"}, ok : BOOLEAN]

\* The instructions that end a milestone; the watch ends those it was started for.
Ends(x, i, o) ==
  \/ x.op \in {"gate", "try", "fetch"} \cup Terminal /\ x.id = i
  \/ x.op = "watch" /\ i \in {"reconcile"} \cup GpuRows(o)
Ended(s, o) == {i \in Milestones : \E j \in DOMAIN s : Ends(s[j], i, o)}

\* What the program still starts it ends.
Closed(s, o) ==
  \A i \in Milestones, j \in DOMAIN s :
    s[j].op = "running" /\ s[j].id = i => \E k \in DOMAIN s : k > j /\ Ends(s[k], i, o)

\* After the kubeconfig is fetched only the milestones SkipPost knows are left, and after
\* the watch only the last two.
Post(o) == {"reconcile", "openbao", "keycloak"} \cup GpuRows(o)
Follows(x, y, o) ==
  /\ x.op = "fetch" => "noPush" \notin o
  /\ x.op \in {"fetch", "session"} => y.id \in Post(o)
  /\ x.op = "watch" => y.id \in {"openbao", "keycloak"}
Ordered(s, o) == \A j, k \in DOMAIN s : j < k => Follows(s[j], s[k], o)

\* The program s agrees with what has been reported and with what the watch has seen.
ProgramOK(s, o, rep, seen) ==
  /\ Ordered(s, o) /\ Closed(s, o)
  /\ \A i \in Planned(o) : rep[i] \in {"pending", "running"} => i \in Ended(s, o)
  /\ \A i \in Planned(o) \ Best(o) : rep[i] # "failed"
  /\ \A r \in seen : rep[r] = "done" /\ \A j \in DOMAIN s : s[j].id # r
  /\ rep["reconcile"] = "done" \/ (\E j \in DOMAIN s : s[j] = I("done", "reconcile"))
       => seen = GpuRows(o)
  /\ \A j \in DOMAIN s : s[j].op \in {"fetch", "session"} => seen = {}

Whole(o, rep) ==
  \A i \in Planned(o) : rep[i] \in Terminal /\ (i \notin Best(o) => rep[i] # "failed")
GpuWaited(o, rep) ==
  rep["reconcile"] = "done" => \A r \in GpuRows(o) : rep[r] = "done"

EngineInv ==
  /\ \A r \in GpuRows(opts) : TargetOf[r] \in ready => r \in completed
  /\ engine = "plan" => chan = <<>>
  /\ ~cancelled =>
       /\ engine \in {"plan", "running"} => ProgramOK(todo, opts, reported, completed)
       /\ engine \notin {"plan", "running"} => GpuWaited(opts, reported)
       /\ engine = "succeeded" => Whole(opts, reported)

\* The plan is the first event and the result the last; of a milestone the last event
\* under way, or else its row, is what was last reported of it.
Tells(m, i) == m.kind = "status" /\ m.id = i
PlanAhead == engine = "plan" \/ (chan # <<>> /\ chan[1].kind = "plan")
EventsOK ==
  /\ \A j \in DOMAIN chan : chan[j].kind = "plan" => j = 1
  /\ \A j \in DOMAIN chan : chan[j].kind = "finished" /\ chan[j].ok => Whole(opts, reported)
  /\ ~PlanAhead => \A i \in Planned(opts) : rows[i] # "absent"
  /\ \A i \in Planned(opts) :
       /\ \A j \in DOMAIN chan :
            Tells(chan[j], i) =>
              \/ chan[j].status = reported[i]
              \/ \E k \in DOMAIN chan : k > j /\ Tells(chan[k], i)
       /\ (\A j \in DOMAIN chan : ~Tells(chan[j], i)) =>
            reported[i] = IF PlanAhead THEN "pending" ELSE rows[i]
  /\ PlanAhead => \A i \in Milestones : rows[i] = "absent"

Final ==
  /\ \A i \in Planned(opts) : rows[i] = Settled(reported[i], runErr)
  /\ runErr # "aborted" /\ GpuWaited(opts, reported)
  /\ runErr = "nil" => Whole(opts, reported)

ScreenInv ==
  /\ program = "on" /\ ~aborting => ~cancelled
  /\ aborting => cancelled
  /\ \A i \in Milestones \ Planned(opts) : rows[i] = "absent"
  /\ \A j \in DOMAIN chan : chan[j].kind = "finished" => engine = "gone" /\ j = Len(chan)
  /\ finished => engine = "gone" /\ ~listening
  /\ ~finished /\ ~cancelled => EventsOK
  /\ finished /\ ~aborting => Final
  /\ program = "on" => result = "none"

TypeInv ==
  /\ opts \in InstallOptions /\ todo \in Seq(Instr(opts))
  /\ engine \in {"plan", "running", "failing", "succeeded", "failed", "gone"}
  /\ reported \in [Milestones -> Statuses \cup {"pending"}]
  /\ ready \subseteq Kustomizations /\ completed \subseteq GpuRows(opts) /\ late \in 0 .. MaxLate
  /\ chan \in Seq(Message) /\ Len(chan) <= ChanCap
  /\ rows \in [Milestones -> Statuses \cup {"absent", "pending"}]
  /\ cancelled \in BOOLEAN /\ listening \in BOOLEAN /\ finished \in BOOLEAN
  /\ aborting \in BOOLEAN /\ forceQuit \in BOOLEAN
  /\ runErr \in {"nil", "failed", "aborted"}
  /\ program \in {"on", "key", "SIGINT", "SIGTERM"}
  /\ transcript \in {"open", "closed", "left"}
  /\ result \in {"none", "nil", "failed", "aborted", "interrupted"}

InstallInv == TypeInv /\ EngineInv /\ ScreenInv

NilInv == result = "nil" => program # "on" /\ finished /\ ~aborting /\ runErr = "nil"

-----------------------------------------------------------------------------
\* The rows of a plan.
LEMMA Rows ==
  ASSUME NEW o \in SUBSET Flags
  PROVE  /\ Planned(o) \subseteq Milestones /\ GpuRows(o) \subseteq Milestones
         /\ Best(o) \subseteq Milestones
         /\ Planned(o) \cap Post(o) # {} => "noPush" \notin o
         /\ Post(o) \subseteq Best(o)
         /\ GpuRows(o) \subseteq DOMAIN TargetOf
         /\ "reconcile" \notin GpuRows(o) /\ "openbao" \notin GpuRows(o) /\ "keycloak" \notin GpuRows(o)
  BY DEF Planned, Milestones, GpuRows, Best, Flags, Post, TargetOf

LEMMA MilestoneNames ==
  {"prepare", "dns", "kubevirt", "scaffold", "commit-push", "starter", "prereqs", "adopt-gate",
   "nat-probe", "egress", "fetch-kubeconfig", "storage", "remote", "create-repo", "flux-install",
   "reconcile", "openbao", "keycloak", "ingress-nodes"} \subseteq Milestones
  BY DEF Planned, Milestones, Flags

\* What the library says of Tail and of \o, by index.
LEMMA TailOf ==
  ASSUME NEW T, NEW s \in Seq(T), s # <<>>
  PROVE  /\ Tail(s) \in Seq(T) /\ Head(s) = s[1] /\ s[1] \in T /\ 1 \in DOMAIN s
         /\ DOMAIN s = 1 .. Len(s) /\ Len(s) \in Nat \ {0}
         /\ Len(Tail(s)) = Len(s) - 1 /\ DOMAIN Tail(s) = 1 .. (Len(s) - 1)
         /\ \A j \in DOMAIN Tail(s) : Tail(s)[j] = s[j + 1] /\ j + 1 \in DOMAIN s
  BY HeadTailProperties

LEMMA SeqOfMore ==
  ASSUME NEW S, NEW T, S \subseteq T, NEW s \in Seq(S)
  PROVE  s \in Seq(T)
  OBVIOUS

LEMMA JoinOf ==
  ASSUME NEW T, NEW s \in Seq(T), NEW t \in Seq(T)
  PROVE  /\ s \o t \in Seq(T) /\ DOMAIN (s \o t) = 1 .. (Len(s) + Len(t))
         /\ DOMAIN s = 1 .. Len(s) /\ DOMAIN t = 1 .. Len(t) /\ Len(s) \in Nat /\ Len(t) \in Nat
         /\ \A j \in DOMAIN s : (s \o t)[j] = s[j] /\ j \in DOMAIN (s \o t)
         /\ \A j \in DOMAIN t : (s \o t)[Len(s) + j] = t[j] /\ Len(s) + j \in DOMAIN (s \o t)
         /\ \A j \in DOMAIN (s \o t) :
              \/ j \in DOMAIN s /\ (s \o t)[j] = s[j]
              \/ j - Len(s) \in DOMAIN t /\ (s \o t)[j] = t[j - Len(s)]
  BY ConcatProperties

\* What a program ends, whether it ends what it starts, and its order, of two programs one
\* after the other and of what is left after the first instruction.
LEMMA JoinEnds ==
  ASSUME NEW o, NEW s \in Seq(Instr(o)), NEW t \in Seq(Instr(o))
  PROVE  Ended(s \o t, o) = Ended(s, o) \cup Ended(t, o)
  <1>1. ASSUME NEW i \in Ended(s \o t, o) PROVE i \in Ended(s, o) \cup Ended(t, o)
    BY <1>1, JoinOf DEF Ended
  <1>2. ASSUME NEW i \in Ended(s, o) PROVE i \in Ended(s \o t, o)
    BY <1>2, JoinOf DEF Ended
  <1>3. ASSUME NEW i \in Ended(t, o) PROVE i \in Ended(s \o t, o)
    <2>1. PICK j \in DOMAIN t : Ends(t[j], i, o)
      BY <1>3 DEF Ended
    <2>2. Len(s) + j \in DOMAIN (s \o t) /\ (s \o t)[Len(s) + j] = t[j]
      BY JoinOf
    <2> QED
      BY <1>3, <2>1, <2>2 DEF Ended
  <1> QED
    BY <1>1, <1>2, <1>3

LEMMA JoinClosed ==
  ASSUME NEW o, NEW s \in Seq(Instr(o)), NEW t \in Seq(Instr(o)), Closed(s, o), Closed(t, o)
  PROVE  Closed(s \o t, o)
  <1>1. SUFFICES ASSUME NEW i \in Milestones, NEW j \in DOMAIN (s \o t),
                        (s \o t)[j].op = "running", (s \o t)[j].id = i
                 PROVE  \E k \in DOMAIN (s \o t) : k > j /\ Ends((s \o t)[k], i, o)
    BY DEF Closed
  <1>2. CASE j \in DOMAIN s /\ (s \o t)[j] = s[j]
    <2>1. PICK k \in DOMAIN s : k > j /\ Ends(s[k], i, o)
      BY <1>1, <1>2 DEF Closed
    <2> QED
      BY <2>1, JoinOf
  <1>3. CASE j - Len(s) \in DOMAIN t /\ (s \o t)[j] = t[j - Len(s)]
    <2>1. PICK k \in DOMAIN t : k > j - Len(s) /\ Ends(t[k], i, o)
      BY <1>1, <1>3 DEF Closed
    <2>2. Len(s) + k \in DOMAIN (s \o t) /\ Len(s) + k > j /\ (s \o t)[Len(s) + k] = t[k]
      BY <2>1, JoinOf
    <2> QED
      BY <2>1, <2>2
  <1> QED
    BY <1>2, <1>3, JoinOf

LEMMA JoinOrdered ==
  ASSUME NEW o, NEW s \in Seq(Instr(o)), NEW t \in Seq(Instr(o)), Ordered(s, o), Ordered(t, o),
         \A j \in DOMAIN s, k \in DOMAIN t : Follows(s[j], t[k], o)
  PROVE  Ordered(s \o t, o)
  <1>1. SUFFICES ASSUME NEW j \in DOMAIN (s \o t), NEW k \in DOMAIN (s \o t), j < k
                 PROVE  Follows((s \o t)[j], (s \o t)[k], o)
    BY DEF Ordered
  <1>2. CASE k \in DOMAIN s
    BY <1>1, <1>2, JoinOf DEF Ordered
  <1>3. CASE j \in DOMAIN s /\ k \notin DOMAIN s
    BY <1>1, <1>3, JoinOf
  <1>4. CASE j \notin DOMAIN s
    <2>1. /\ k \notin DOMAIN s /\ j - Len(s) \in DOMAIN t /\ k - Len(s) \in DOMAIN t
          /\ (s \o t)[j] = t[j - Len(s)] /\ (s \o t)[k] = t[k - Len(s)]
          /\ j - Len(s) < k - Len(s)
      BY <1>1, <1>4, JoinOf
    <2> QED
      BY <2>1 DEF Ordered
  <1> QED
    BY <1>2, <1>3, <1>4

LEMMA TailKeeps ==
  ASSUME NEW o, NEW s \in Seq(Instr(o)), s # <<>>
  PROVE  /\ Closed(s, o) => Closed(Tail(s), o)
         /\ Ordered(s, o) => Ordered(Tail(s), o)
         /\ \A i \in Milestones : i \in Ended(s, o) => Ends(s[1], i, o) \/ i \in Ended(Tail(s), o)
         /\ Closed(s, o) /\ s[1].op = "running" => s[1].id \in Ended(Tail(s), o)
  <1> DEFINE u == Tail(s)
  <1>1. /\ u \in Seq(Instr(o)) /\ DOMAIN s = 1 .. Len(s) /\ Len(s) \in Nat \ {0}
        /\ DOMAIN u = 1 .. (Len(s) - 1) /\ \A j \in DOMAIN u : u[j] = s[j + 1]
        /\ s[1] \in Instr(o)
    BY TailOf
  <1> HIDE DEF u
  <1>2. ASSUME Closed(s, o) PROVE Closed(u, o)
    <2>1. SUFFICES ASSUME NEW i \in Milestones, NEW j \in DOMAIN u, u[j].op = "running", u[j].id = i
                   PROVE  \E k \in DOMAIN u : k > j /\ Ends(u[k], i, o)
      BY DEF Closed
    <2>2. PICK k \in DOMAIN s : k > j + 1 /\ Ends(s[k], i, o)
      BY <1>1, <1>2, <2>1 DEF Closed
    <2>3. k - 1 \in DOMAIN u /\ u[k - 1] = s[k] /\ k - 1 > j
      BY <1>1, <2>2
    <2> QED
      BY <2>2, <2>3
  <1>3. ASSUME Ordered(s, o) PROVE Ordered(u, o)
    BY <1>1, <1>3 DEF Ordered
  <1>4. ASSUME NEW k \in DOMAIN s, k > 1 PROVE k - 1 \in DOMAIN u /\ u[k - 1] = s[k]
    BY <1>1, <1>4
  <1>5. ASSUME NEW i \in Ended(s, o) PROVE Ends(s[1], i, o) \/ i \in Ended(u, o)
    <2>1. PICK k \in DOMAIN s : Ends(s[k], i, o)
      BY <1>5 DEF Ended
    <2>2. k = 1 \/ k > 1
      BY <1>1
    <2> QED
      BY <1>4, <2>1, <2>2, <1>5 DEF Ended
  <1>6. ASSUME Closed(s, o), s[1].op = "running" PROVE s[1].id \in Ended(u, o)
    <2>1. s[1].id \in Milestones
      BY <1>1 DEF Instr
    <2>2. PICK k \in DOMAIN s : k > 1 /\ Ends(s[k], s[1].id, o)
      BY <1>1, <1>6, <2>1 DEF Closed
    <2> QED
      BY <1>4, <2>1, <2>2 DEF Ended
  <1> QED
    BY <1>2, <1>3, <1>5, <1>6 DEF u

\* Each lists the instructions of a finite set of milestones.
LEMMA EachOf ==
  ASSUME NEW op, NEW S, IsFiniteSet(S)
  PROVE  /\ Each(op, S) \in Seq({I(op, x) : x \in S})
         /\ \A x \in S : \E j \in DOMAIN Each(op, S) : Each(op, S)[j] = I(op, x)
  <1> DEFINE n == Cardinality(S)
             f == SetToSeq(S)
  <1>1. n \in Nat /\ ExistsBijection(1 .. n, S)
    BY FS_CardinalityType
  <1>2. PICK g \in [1 .. n -> S] : IsInjective(g)
    BY <1>1 DEF ExistsBijection, Bijection, Injection, IsInjective
  <1>3. f \in [1 .. n -> S] /\ IsInjective(f)
    BY <1>2 DEF SetToSeq
  <1>4. \A x \in S : \E i \in 1 .. n : f[i] = x
    <2>1. f \in Injection(1 .. n, S)
      BY <1>3 DEF Injection
    <2>2. Cardinality(1 .. n) = n
      BY <1>1, FS_Interval
    <2>3. f \in Surjection(1 .. n, S)
      BY <2>1, <2>2, FS_Injection
    <2> QED
      BY <2>3 DEF Surjection
  <1>5. Each(op, S) = [i \in 1 .. n |-> I(op, f[i])]
    BY <1>3 DEF Each
  <1> HIDE DEF n, f
  <1>6. \A i \in 1 .. n : I(op, f[i]) \in {I(op, x) : x \in S}
    BY <1>3
  <1>7. Each(op, S) \in Seq({I(op, x) : x \in S})
    BY <1>1, <1>5, <1>6
  <1>8. DOMAIN Each(op, S) = 1 .. n /\ \A i \in 1 .. n : Each(op, S)[i] = I(op, f[i])
    BY <1>5
  <1> QED
    BY <1>4, <1>7, <1>8

-----------------------------------------------------------------------------
\* A piece ends what it starts and keeps no order.
Piece(o) ==
  {s \in Seq(Instr(o)) : /\ Closed(s, o)
                         /\ \A j \in DOMAIN s : /\ s[j].op \notin {"fetch", "session", "watch"}
                                                /\ s[j] # I("done", "reconcile")}

\* Pieces, programs without fetch, session or watch, can be put together in any order.
LEMMA PieceJoin ==
  ASSUME NEW o, NEW s \in Piece(o), NEW t \in Piece(o)
  PROVE  s \o t \in Piece(o) /\ Ended(s \o t, o) = Ended(s, o) \cup Ended(t, o)
  <1>1. Closed(s \o t, o) /\ s \o t \in Seq(Instr(o)) /\ Ended(s \o t, o) = Ended(s, o) \cup Ended(t, o)
    BY JoinClosed, JoinEnds, JoinOf DEF Piece
  <1>2. ASSUME NEW j \in DOMAIN (s \o t)
        PROVE  (s \o t)[j].op \notin {"fetch", "session", "watch"} /\ (s \o t)[j] # I("done", "reconcile")
    BY JoinOf DEF Piece
  <1> QED
    BY <1>1, <1>2 DEF Piece

LEMMA NoPiece ==
  ASSUME NEW o
  PROVE  <<>> \in Piece(o) /\ Ended(<<>>, o) = {}
  BY DEF Piece, Ended, Closed

LEMMA PieceOrdered ==
  ASSUME NEW o, NEW s \in Piece(o), NEW t \in Seq(Instr(o)), Ordered(t, o)
  PROVE  Ordered(s, o) /\ Ordered(s \o t, o)
  <1>1. Ordered(s, o)
    BY DEF Ordered, Piece, Follows
  <1>2. \A j \in DOMAIN s, k \in DOMAIN t : Follows(s[j], t[k], o)
    BY DEF Piece, Follows
  <1> QED
    BY <1>1, <1>2, JoinOrdered DEF Piece

\* The pieces of an install.
LEMMA SmallPieces ==
  ASSUME NEW o \in SUBSET Flags, NEW id \in Milestones, id # "reconcile"
  PROVE  /\ Gate(id) \in Piece(o) /\ Ended(Gate(id), o) = {id}
         /\ Probe(id) \in Piece(o) /\ Ended(Probe(id), o) = {id}
         /\ id \in Best(o) => Try(id) \in Piece(o) /\ Ended(Try(id), o) = {id}
         /\ <<I("skipped", id)>> \in Piece(o) /\ Ended(<<I("skipped", id)>>, o) = {id}
         /\ Check \in Piece(o) /\ Ended(Check, o) = {}
  <1>1. /\ I("running", id) \in Instr(o) /\ I("gate", id) \in Instr(o) /\ I("done", id) \in Instr(o)
        /\ I("skipped", id) \in Instr(o) /\ I("check", "prepare") \in Instr(o)
        /\ id \in Best(o) => I("try", id) \in Instr(o)
    BY MilestoneNames DEF Instr, I, Fits, Ops, Statuses
  <1>2. Gate(id) \in Piece(o) /\ Ended(Gate(id), o) = {id}
    BY <1>1 DEF Gate, Piece, Ended, Closed, Ends, I
  <1>3. Probe(id) \in Piece(o) /\ Ended(Probe(id), o) = {id}
    BY <1>1 DEF Probe, Piece, Ended, Closed, Ends, I, Terminal
  <1>4. id \in Best(o) => Try(id) \in Piece(o) /\ Ended(Try(id), o) = {id}
    BY <1>1 DEF Try, Piece, Ended, Closed, Ends, I
  <1>5. <<I("skipped", id)>> \in Piece(o) /\ Ended(<<I("skipped", id)>>, o) = {id}
    BY <1>1 DEF Piece, Ended, Closed, Ends, I, Terminal
  <1>6. Check \in Piece(o) /\ Ended(Check, o) = {}
    BY <1>1 DEF Check, Piece, Ended, Closed, Ends, I, Terminal
  <1> QED
    BY <1>2, <1>3, <1>4, <1>5, <1>6

LEMMA GpuFinite ==
  ASSUME NEW o, NEW S \in SUBSET GpuRows(o)
  PROVE  IsFiniteSet(S)
  <1>1. IsFiniteSet({"gpu-inventory", "gpu-operator", "gpu-product", "gpu-hami"})
    <2>1. /\ IsFiniteSet({"gpu-inventory"}) /\ IsFiniteSet({"gpu-operator"})
          /\ IsFiniteSet({"gpu-product"}) /\ IsFiniteSet({"gpu-hami"})
      BY FS_Singleton
    <2>2. IsFiniteSet(({"gpu-inventory"} \cup {"gpu-operator"}) \cup ({"gpu-product"} \cup {"gpu-hami"}))
      <3>1. /\ IsFiniteSet({"gpu-inventory"} \cup {"gpu-operator"})
            /\ IsFiniteSet({"gpu-product"} \cup {"gpu-hami"})
        BY <2>1, FS_Union, Zenon
      <3> QED
        BY <3>1, FS_Union, Zenon
    <2>3. {"gpu-inventory", "gpu-operator", "gpu-product", "gpu-hami"}
            = ({"gpu-inventory"} \cup {"gpu-operator"}) \cup ({"gpu-product"} \cup {"gpu-hami"})
      OBVIOUS
    <2> QED
      BY <2>2, <2>3
  <1>2. S \subseteq {"gpu-inventory", "gpu-operator", "gpu-product", "gpu-hami"}
    BY DEF GpuRows
  <1> QED
    BY <1>1, <1>2, FS_Subset

LEMMA EachPieces ==
  ASSUME NEW o \in SUBSET Flags, NEW S \in SUBSET GpuRows(o), NEW op \in {"skipped", "failed"}
  PROVE  Each(op, S) \in Piece(o) /\ Ended(Each(op, S), o) = S
  <1>1. \A x \in S : I(op, x) \in Instr(o) /\ x \in Milestones /\ x # "reconcile"
    BY Rows DEF Instr, I, Fits, Ops, Statuses, Best
  <1>2. /\ Each(op, S) \in Seq({I(op, x) : x \in S})
        /\ \A x \in S : \E j \in DOMAIN Each(op, S) : Each(op, S)[j] = I(op, x)
    BY GpuFinite, EachOf
  <1>3. ASSUME NEW j \in DOMAIN Each(op, S)
        PROVE  \E x \in S : Each(op, S)[j] = I(op, x)
    BY <1>2
  <1>4. Each(op, S) \in Seq(Instr(o))
    BY <1>1, <1>2
  <1>5. Each(op, S) \in Piece(o)
    BY <1>3, <1>4 DEF Piece, Closed, I
  <1>6. Ended(Each(op, S), o) = S
    <2>1. \A x \in S, i \in Milestones : Ends(I(op, x), i, o) <=> i = x
      BY DEF Ends, I, Terminal
    <2> QED
      BY <1>1, <1>2, <1>3, <2>1 DEF Ended
  <1> QED
    BY <1>5, <1>6

\* Each part of an install, and what it ends.
LEMMA SkipPostIs ==
  ASSUME NEW o \in SUBSET Flags
  PROVE  SkipPost(o) \in Piece(o) /\ Ended(SkipPost(o), o) = Post(o)
  <1>1. "openbao" \in Milestones /\ "keycloak" \in Milestones /\ "reconcile" \in Milestones
    BY MilestoneNames
  <1>2. <<I("skipped", "reconcile")>> \in Piece(o) /\ Ended(<<I("skipped", "reconcile")>>, o) = {"reconcile"}
    BY <1>1 DEF Piece, Ended, Closed, Ends, I, Terminal, Instr, Fits, Ops, Statuses
  <1>3. /\ <<I("skipped", "openbao"), I("skipped", "keycloak")>> \in Piece(o)
        /\ Ended(<<I("skipped", "openbao"), I("skipped", "keycloak")>>, o) = {"openbao", "keycloak"}
    BY <1>1 DEF Piece, Ended, Closed, Ends, I, Terminal, Instr, Fits, Ops, Statuses
  <1>4. Each("skipped", GpuRows(o)) \in Piece(o) /\ Ended(Each("skipped", GpuRows(o)), o) = GpuRows(o)
    BY EachPieces
  <1> QED
    BY <1>2, <1>3, <1>4, PieceJoin DEF SkipPost, Post

-----------------------------------------------------------------------------
LEMMA PreflightIs ==
  ASSUME NEW o \in SUBSET Flags
  PROVE  /\ Preflight(o) \in Piece(o)
         /\ Ended(Preflight(o), o) = {"prepare", "dns", "kubevirt"}
              \cup (IF "starter" \in o THEN {"starter"} ELSE {})
              \cup (IF "noPrereqs" \notin o THEN {"prereqs"} ELSE {})
              \cup (IF "adopt" \in o THEN {"adopt-gate"} ELSE {})
  <1>1. {"prepare", "dns", "kubevirt", "starter", "prereqs", "adopt-gate"} \subseteq Milestones \ {"reconcile"}
    BY MilestoneNames
  <1>2. \A id \in {"prepare", "dns", "kubevirt"} : Gate(id) \in Piece(o) /\ Ended(Gate(id), o) = {id}
    BY <1>1, SmallPieces
  <1>3. Check \in Piece(o) /\ Ended(Check, o) = {}
    BY <1>1, SmallPieces
  <1>4. When("ssh" \in o, Check) \in Piece(o) /\ Ended(When("ssh" \in o, Check), o) = {}
    BY <1>3, NoPiece DEF When
  <1>5. /\ When("starter" \in o, Gate("starter")) \in Piece(o)
        /\ Ended(When("starter" \in o, Gate("starter")), o) = IF "starter" \in o THEN {"starter"} ELSE {}
        /\ When("noPrereqs" \notin o, Gate("prereqs")) \in Piece(o)
        /\ Ended(When("noPrereqs" \notin o, Gate("prereqs")), o) = IF "noPrereqs" \notin o THEN {"prereqs"} ELSE {}
        /\ When("adopt" \in o, Gate("adopt-gate")) \in Piece(o)
        /\ Ended(When("adopt" \in o, Gate("adopt-gate")), o) = IF "adopt" \in o THEN {"adopt-gate"} ELSE {}
    BY <1>1, SmallPieces, NoPiece DEF When
  <1> QED
    BY <1>2, <1>3, <1>4, <1>5, PieceJoin DEF Preflight

LEMMA ProbesAre ==
  ASSUME NEW o \in SUBSET Flags
  PROVE  /\ Probes(o) \in Piece(o)
         /\ Ended(Probes(o), o) = IF "ssh" \notin o THEN {}
              ELSE {"nat-probe", "egress"} \cup (IF "devices" \in o THEN {"storage"} ELSE {})
  <1> DEFINE p == Probe("nat-probe")
             q == When("pinnedCIDR" \notin o, Probe("nat-probe"))
             r == IF "gateway" \in o THEN Probe("egress") ELSE <<I("skipped", "egress")>>
             t == When("devices" \in o, Probe("storage"))
  <1>1. {"nat-probe", "egress", "storage"} \subseteq Milestones \ {"reconcile"}
    BY MilestoneNames
  <1>2. p \in Piece(o) /\ Ended(p, o) = {"nat-probe"}
    BY <1>1, SmallPieces
  <1>3. q \in Piece(o) /\ Ended(q, o) \subseteq {"nat-probe"}
    BY <1>1, SmallPieces, NoPiece DEF When
  <1>4. r \in Piece(o) /\ Ended(r, o) = {"egress"}
    BY <1>1, SmallPieces
  <1>5. t \in Piece(o) /\ Ended(t, o) = IF "devices" \in o THEN {"storage"} ELSE {}
    BY <1>1, SmallPieces, NoPiece DEF When
  <1>6. Probes(o) = When("ssh" \in o, p \o q \o r \o t)
    BY DEF Probes
  <1> HIDE DEF p, q, r, t
  <1>7. /\ p \o q \o r \o t \in Piece(o)
        /\ Ended(p \o q \o r \o t, o)
             = {"nat-probe", "egress"} \cup (IF "devices" \in o THEN {"storage"} ELSE {})
    BY <1>2, <1>3, <1>4, <1>5, PieceJoin
  <1> QED
    BY <1>6, <1>7, NoPiece DEF When

LEMMA RepositoryIs ==
  ASSUME NEW o \in SUBSET Flags
  PROVE  /\ Repository(o) \in Piece(o)
         /\ Ended(Repository(o), o) = IF {"newRepo", "noPush"} \cap o # {"newRepo"} THEN {}
              ELSE {"remote"} \cup (IF "noCreateRepo" \notin o THEN {"create-repo"} ELSE {})
  <1> DEFINE p == When("noCreateRepo" \notin o, Gate("create-repo"))
             q == Gate("remote")
  <1>1. {"remote", "create-repo"} \subseteq Milestones \ {"reconcile"}
    BY MilestoneNames
  <1>2. p \in Piece(o) /\ Ended(p, o) = IF "noCreateRepo" \notin o THEN {"create-repo"} ELSE {}
    BY <1>1, SmallPieces, NoPiece DEF When
  <1>3. /\ q \in Piece(o) /\ Ended(q, o) = {"remote"}
        /\ Check \in Piece(o) /\ Ended(Check, o) = {}
    BY <1>1, SmallPieces
  <1>4. Repository(o) = When({"newRepo", "noPush"} \cap o = {"newRepo"}, p \o q) \o Check
    BY DEF Repository
  <1> HIDE DEF p, q
  <1>5. p \o q \in Piece(o) /\ Ended(p \o q, o) = Ended(p, o) \cup {"remote"}
    BY <1>2, <1>3, PieceJoin
  <1>6. /\ When({"newRepo", "noPush"} \cap o = {"newRepo"}, p \o q) \in Piece(o)
        /\ Ended(When({"newRepo", "noPush"} \cap o = {"newRepo"}, p \o q), o)
             = IF {"newRepo", "noPush"} \cap o = {"newRepo"} THEN Ended(p, o) \cup {"remote"} ELSE {}
    BY <1>5, NoPiece DEF When
  <1> DEFINE c == {"newRepo", "noPush"} \cap o = {"newRepo"}
             w == When(c, p \o q)
  <1>7. w \in Piece(o) /\ Ended(w, o) = IF c THEN Ended(p, o) \cup {"remote"} ELSE {}
    BY <1>6
  <1>8. Repository(o) = w \o Check
    BY <1>4
  <1> HIDE DEF w
  <1>9. w \o Check \in Piece(o) /\ Ended(w \o Check, o) = Ended(w, o)
    BY <1>3, <1>7, PieceJoin
  <1> QED
    BY <1>2, <1>7, <1>8, <1>9

LEMMA ApplyStepsAre ==
  ASSUME NEW o \in SUBSET Flags
  PROVE  /\ ApplySteps(o) \in Piece(o)
         /\ Ended(ApplySteps(o), o) = {"ingress-nodes", "scaffold", "commit-push", "flux-install"}
  <1> DEFINE p == IF {"noCluster", "noPush"} \cap o # {} THEN <<I("skipped", "ingress-nodes")>>
                  ELSE Gate("ingress-nodes")
             q == When("overlay" \in o, Check)
             r == IF {"overlay", "noPush"} \subseteq o THEN <<I("skipped", "commit-push")>>
                  ELSE Gate("commit-push")
             t == IF "noPush" \in o THEN <<I("skipped", "flux-install")>> ELSE Gate("flux-install")
  <1>1. {"ingress-nodes", "scaffold", "commit-push", "flux-install"} \subseteq Milestones \ {"reconcile"}
    BY MilestoneNames
  <1>2. /\ p \in Piece(o) /\ Ended(p, o) = {"ingress-nodes"}
        /\ r \in Piece(o) /\ Ended(r, o) = {"commit-push"}
        /\ t \in Piece(o) /\ Ended(t, o) = {"flux-install"}
    BY <1>1, SmallPieces
  <1>3. /\ Check \in Piece(o) /\ Ended(Check, o) = {}
        /\ Gate("scaffold") \in Piece(o) /\ Ended(Gate("scaffold"), o) = {"scaffold"}
    BY <1>1, SmallPieces
  <1>4. q \in Piece(o) /\ Ended(q, o) = {}
    BY <1>1, SmallPieces, NoPiece DEF When
  <1>5. ApplySteps(o) = Check \o p \o Gate("scaffold") \o q \o r \o t
    BY DEF ApplySteps
  <1> HIDE DEF p, q, r, t
  <1> QED
    BY <1>2, <1>3, <1>4, <1>5, PieceJoin

LEMMA FetchIs ==
  ASSUME NEW o \in SUBSET Flags
  PROVE  LET f == <<I("running", "fetch-kubeconfig"), I("fetch", "fetch-kubeconfig")>>
         IN /\ f \in Seq(Instr(o)) /\ Closed(f, o) /\ Ordered(f, o)
            /\ Ended(f, o) = {"fetch-kubeconfig"}
            /\ Len(f) = 2
  <1>1. "fetch-kubeconfig" \in Milestones
    BY MilestoneNames
  <1> QED
    BY <1>1 DEF Closed, Ordered, Ended, Ends, Follows, I, Instr, Fits, Ops, Statuses

\* What the engine does once the kubeconfig is there.
LEMMA PostApplyIs ==
  ASSUME NEW o \in SUBSET Flags
  PROVE  /\ PostApply(o) \in Seq(Instr(o)) /\ Closed(PostApply(o), o) /\ Ordered(PostApply(o), o)
         /\ Ended(PostApply(o), o) = IF "noPush" \in o THEN {} ELSE Post(o)
         /\ "noPush" \in o => PostApply(o) = <<>>
         /\ \A j \in DOMAIN PostApply(o) :
              /\ PostApply(o)[j].id \in Post(o)
              /\ PostApply(o)[j] # I("done", "reconcile") /\ PostApply(o)[j].op # "fetch"
  <1> DEFINE a == <<I("session", "reconcile"), I("running", "reconcile")>>
             b == Each("running", GpuRows(o))
             w == <<I("watch", "reconcile")>>
             t == Try("openbao")
             u == Try("keycloak")
  <1>1. {"openbao", "keycloak", "reconcile"} \subseteq Milestones
    BY MilestoneNames
  <1>2. /\ a \in Seq(Instr(o)) /\ Len(a) = 2 /\ a[1] = I("session", "reconcile")
        /\ a[2] = I("running", "reconcile")
    BY <1>1 DEF I, Instr, Fits, Ops, Statuses
  <1>3. /\ b \in Seq(Instr(o))
        /\ \A j \in DOMAIN b : \E x \in GpuRows(o) : b[j] = I("running", x)
    <2>1. b \in Seq({I("running", x) : x \in GpuRows(o)})
      BY GpuFinite, EachOf
    <2>2. \A x \in GpuRows(o) : I("running", x) \in Instr(o)
      BY Rows DEF I, Instr, Fits, Ops, Statuses
    <2> QED
      BY <2>1, <2>2
  <1>4. w \in Seq(Instr(o)) /\ Len(w) = 1 /\ w[1] = I("watch", "reconcile")
    BY <1>1 DEF I, Instr, Fits, Ops, Statuses
  <1>5. /\ t \in Piece(o) /\ Ended(t, o) = {"openbao"} /\ t \in Seq(Instr(o))
        /\ u \in Piece(o) /\ Ended(u, o) = {"keycloak"} /\ u \in Seq(Instr(o))
    BY <1>1, SmallPieces DEF Best, Piece
  <1>6. /\ \A j \in DOMAIN t : t[j].id = "openbao"
        /\ \A j \in DOMAIN u : u[j].id = "keycloak"
    BY DEF Try, I
  <1>7. PostApply(o) = When("noPush" \notin o, a \o b \o w \o t \o u)
    BY DEF PostApply
  <1> HIDE DEF a, b, w, t, u
  <1>8. /\ a \o b \in Seq(Instr(o))
        /\ \A j \in DOMAIN (a \o b) :
             \/ (a \o b)[j] = I("session", "reconcile")
             \/ \E x \in {"reconcile"} \cup GpuRows(o) : (a \o b)[j] = I("running", x)
    <2>1. \A j \in DOMAIN a : a[j] = I("session", "reconcile") \/ a[j] = I("running", "reconcile")
      BY <1>2
    <2>2. \A j \in DOMAIN (a \o b) : \/ \E k \in DOMAIN a : (a \o b)[j] = a[k]
                                     \/ \E k \in DOMAIN b : (a \o b)[j] = b[k]
      BY <1>2, <1>3, JoinOf
    <2>3. a \o b \in Seq(Instr(o))
      BY <1>2, <1>3, JoinOf
    <2> QED
      BY <1>3, <2>1, <2>2, <2>3
  <1> DEFINE c == a \o b
  <1> HIDE DEF c
  <1>9. /\ c \in Seq(Instr(o))
        /\ \A j \in DOMAIN c :
             /\ c[j].op \in {"session", "running"} /\ c[j].id \in {"reconcile"} \cup GpuRows(o)
    <2>1. /\ c \in Seq(Instr(o))
          /\ \A j \in DOMAIN c :
               \/ c[j] = I("session", "reconcile")
               \/ \E x \in {"reconcile"} \cup GpuRows(o) : c[j] = I("running", x)
      BY <1>8 DEF c
    <2> QED
      BY <2>1 DEF I
  <1>10. Ordered(c, o)
    BY <1>9 DEF Ordered, Follows, Post
  <1>11. Ended(c, o) = {}
    BY <1>9 DEF Ended, Ends, Terminal
  <1> DEFINE d == c \o w
  <1>12. /\ d \in Seq(Instr(o))
         /\ \A j \in DOMAIN d : (j \in DOMAIN c /\ d[j] = c[j]) \/ d[j] = w[1]
    BY <1>4, <1>9, JoinOf
  <1>13. Closed(d, o)
    <2>1. /\ Len(c) + 1 \in DOMAIN d /\ d[Len(c) + 1] = w[1]
          /\ \A j \in DOMAIN c : Len(c) + 1 > j
      BY <1>4, <1>9, JoinOf
    <2>2. \A i \in {"reconcile"} \cup GpuRows(o) : Ends(w[1], i, o)
      BY <1>4 DEF Ends, I
    <2>3. w[1].op # "running"
      BY <1>4 DEF I
    <2> HIDE DEF d
    <2> QED
      BY <1>9, <1>12, <2>1, <2>2, <2>3 DEF Closed
  <1>14. Ended(w, o) = {"reconcile"} \cup GpuRows(o) /\ Ordered(w, o)
    BY <1>1, <1>4, Rows DEF Ended, Ends, I, Ordered, Terminal
  <1>15. Ended(d, o) = {"reconcile"} \cup GpuRows(o)
    BY <1>4, <1>9, <1>11, <1>14, JoinEnds
  <1>16. Ordered(d, o)
    <2>1. \A j \in DOMAIN c, k \in DOMAIN w : Follows(c[j], w[k], o)
      BY <1>4, <1>9 DEF Follows, I, Post
    <2> QED
      BY <1>4, <1>9, <1>10, <1>14, <2>1, JoinOrdered
  <1>17. \A j \in DOMAIN d : /\ d[j].op \in {"session", "running", "watch"}
                             /\ d[j].id \in {"reconcile"} \cup GpuRows(o)
    BY <1>4, <1>9, <1>12 DEF I
  <1> HIDE DEF d
  <1> DEFINE e == d \o t
  <1>18. e \in Seq(Instr(o)) /\ Closed(e, o) /\ Ended(e, o) = {"reconcile", "openbao"} \cup GpuRows(o)
    BY <1>5, <1>12, <1>13, <1>15, JoinClosed, JoinEnds, JoinOf DEF Piece
  <1>19. \A j \in DOMAIN e : (j \in DOMAIN d /\ e[j] = d[j]) \/ \E k \in DOMAIN t : e[j] = t[k]
    BY <1>5, <1>12, JoinOf
  <1>20. Ordered(e, o)
    <2>1. \A j \in DOMAIN d, k \in DOMAIN t : Follows(d[j], t[k], o)
      BY <1>6, <1>17 DEF Follows, Post
    <2>2. Ordered(t, o)
      BY <1>5 DEF Ordered, Piece, Follows
    <2> QED
      BY <1>5, <1>12, <1>16, <2>1, <2>2, JoinOrdered
  <1>21. \A j \in DOMAIN e : /\ e[j].op # "fetch" /\ e[j].id \in Post(o)
                             /\ e[j] # I("done", "reconcile")
                             /\ e[j].op \in {"session", "watch"} => e[j].id = "reconcile"
    <2>1. \A k \in DOMAIN t : t[k].op \notin {"fetch", "session", "watch"} /\ t[k].id = "openbao"
      BY <1>5, <1>6 DEF Piece
    <2> QED
      BY <1>12, <1>17, <1>19, <2>1 DEF Post, I, Instr, Fits
  <1> HIDE DEF e
  <1> DEFINE f == e \o u
  <1>22. f \in Seq(Instr(o)) /\ Closed(f, o) /\ Ended(f, o) = Post(o)
    <2>1. f \in Seq(Instr(o)) /\ Closed(f, o) /\ Ended(f, o) = Ended(e, o) \cup Ended(u, o)
      BY <1>5, <1>18, JoinClosed, JoinEnds, JoinOf DEF Piece
    <2> QED
      BY <1>5, <1>18, <2>1 DEF Post
  <1>23. Ordered(f, o)
    <2>1. \A j \in DOMAIN e, k \in DOMAIN u : Follows(e[j], u[k], o)
      BY <1>6, <1>21 DEF Follows, Post
    <2>2. Ordered(u, o)
      BY <1>5 DEF Ordered, Piece, Follows
    <2> QED
      BY <1>5, <1>18, <1>20, <2>1, <2>2, JoinOrdered
  <1>24. \A j \in DOMAIN f : /\ f[j].op # "fetch" /\ f[j].id \in Post(o)
                             /\ f[j] # I("done", "reconcile")
    <2>1. \A k \in DOMAIN u : u[k].op \notin {"fetch", "session", "watch"} /\ u[k].id = "keycloak"
      BY <1>5, <1>6 DEF Piece
    <2>2. \A j \in DOMAIN f : (j \in DOMAIN e /\ f[j] = e[j]) \/ \E k \in DOMAIN u : f[j] = u[k]
      BY <1>5, <1>18, JoinOf
    <2> QED
      BY <1>21, <2>1, <2>2 DEF Post, I
  <1>25. PostApply(o) = IF "noPush" \notin o THEN f ELSE <<>>
    BY <1>7 DEF When, c, d, e
  <1>26. /\ <<>> \in Seq(Instr(o)) /\ Closed(<<>>, o) /\ Ordered(<<>>, o) /\ Ended(<<>>, o) = {}
         /\ DOMAIN <<>> = {}
    BY DEF Closed, Ordered, Ended
  <1> HIDE DEF f
  <1>27. CASE "noPush" \in o
    <2>1. PostApply(o) = <<>>
      BY <1>25, <1>27
    <2> QED
      BY <1>26, <1>27, <2>1, Zenon
  <1>28. CASE "noPush" \notin o
    <2>1. PostApply(o) = f
      BY <1>25, <1>28
    <2> QED
      BY <1>22, <1>23, <1>24, <1>28, <2>1, Zenon
  <1> QED
    BY <1>27, <1>28

\* An install ends every row of its plan.
LEMMA InstallIs ==
  ASSUME NEW o \in SUBSET Flags
  PROVE  /\ Install(o) \in Seq(Instr(o)) /\ Closed(Install(o), o) /\ Ordered(Install(o), o)
         /\ Planned(o) \subseteq Ended(Install(o), o)
         /\ \A j \in DOMAIN Install(o) : Install(o)[j] # I("done", "reconcile")
  <1> DEFINE a == Preflight(o) \o Probes(o) \o Repository(o) \o ApplySteps(o)
             f == <<I("running", "fetch-kubeconfig"), I("fetch", "fetch-kubeconfig")>>
             w == When("ssh" \in o, f)
             p == PostApply(o)
  <1>1. /\ a \in Piece(o)
        /\ Ended(a, o) = Ended(Preflight(o), o) \cup Ended(Probes(o), o)
                           \cup Ended(Repository(o), o) \cup Ended(ApplySteps(o), o)
    BY PreflightIs, ProbesAre, RepositoryIs, ApplyStepsAre, PieceJoin
  <1>2. /\ w \in Seq(Instr(o)) /\ Closed(w, o) /\ Ordered(w, o)
        /\ Ended(w, o) = IF "ssh" \in o THEN {"fetch-kubeconfig"} ELSE {}
        /\ \A j \in DOMAIN w : w[j].op \in {"running", "fetch"} /\ w[j].id = "fetch-kubeconfig"
    <2>1. \A j \in DOMAIN f : f[j].op \in {"running", "fetch"} /\ f[j].id = "fetch-kubeconfig"
      BY DEF I
    <2>2. /\ f \in Seq(Instr(o)) /\ Closed(f, o) /\ Ordered(f, o)
          /\ Ended(f, o) = {"fetch-kubeconfig"}
      BY FetchIs
    <2>3. /\ <<>> \in Seq(Instr(o)) /\ Closed(<<>>, o) /\ Ordered(<<>>, o) /\ Ended(<<>>, o) = {}
          /\ DOMAIN <<>> = {}
      BY DEF Closed, Ordered, Ended
    <2> HIDE DEF f
    <2>4. w = IF "ssh" \in o THEN f ELSE <<>>
      BY DEF When
    <2> HIDE DEF w
    <2>5. CASE "ssh" \in o
      <3>1. w = f
        BY <2>4, <2>5
      <3> QED
        BY <2>1, <2>2, <2>5, <3>1, Zenon
    <2>6. CASE "ssh" \notin o
      <3>1. w = <<>>
        BY <2>4, <2>6
      <3> QED
        BY <2>3, <2>6, <3>1, Zenon
    <2> QED
      BY <2>5, <2>6
  <1>3. /\ p \in Seq(Instr(o)) /\ Closed(p, o) /\ Ordered(p, o)
        /\ Ended(p, o) = IF "noPush" \in o THEN {} ELSE Post(o)
        /\ "noPush" \in o => p = <<>>
        /\ \A j \in DOMAIN p : p[j].id \in Post(o) /\ p[j] # I("done", "reconcile")
    BY PostApplyIs
  <1>4. Install(o) = (a \o w) \o p
    BY DEF Install
  <1>5. Planned(o) \subseteq (Ended(a, o) \cup Ended(w, o)) \cup Ended(p, o)
    BY <1>1, <1>2, <1>3, PreflightIs, ProbesAre, RepositoryIs, ApplyStepsAre
       DEF Planned, Post
  <1>6. a \in Seq(Instr(o)) /\ Closed(a, o)
    BY <1>1 DEF Piece
  <1>7. \A j \in DOMAIN a : a[j].op # "fetch" /\ a[j].op # "session" /\ a[j].op # "watch"
                            /\ a[j] # I("done", "reconcile")
    BY <1>1 DEF Piece
  <1> HIDE DEF a, w, p
  <1> DEFINE b == a \o w
  <1>8. /\ b \in Seq(Instr(o)) /\ Closed(b, o) /\ Ordered(b, o)
        /\ Ended(b, o) = Ended(a, o) \cup Ended(w, o)
    BY <1>1, <1>2, <1>6, JoinOf, JoinClosed, JoinEnds, PieceOrdered
  <1>9. \A j \in DOMAIN b : /\ b[j] # I("done", "reconcile") /\ b[j].op # "session" /\ b[j].op # "watch"
    <2>1. \A j \in DOMAIN b : (j \in DOMAIN a /\ b[j] = a[j]) \/ \E k \in DOMAIN w : b[j] = w[k]
      BY <1>2, <1>6, JoinOf
    <2> QED
      BY <1>2, <1>7, <2>1 DEF I
  <1> HIDE DEF b
  <1>10. Ordered(b \o p, o)
    <2>1. \A j \in DOMAIN b, k \in DOMAIN p : Follows(b[j], p[k], o)
      <3>1. \A k \in DOMAIN p : "noPush" \notin o
        BY <1>3
      <3> QED
        BY <1>3, <1>9, <3>1 DEF Follows
    <2> QED
      BY <1>3, <1>8, <2>1, JoinOrdered
  <1>11. /\ b \o p \in Seq(Instr(o)) /\ Closed(b \o p, o)
         /\ Ended(b \o p, o) = Ended(b, o) \cup Ended(p, o)
    BY <1>3, <1>8, JoinOf, JoinClosed, JoinEnds
  <1>12. \A j \in DOMAIN (b \o p) : (b \o p)[j] # I("done", "reconcile")
    <2>1. \A j \in DOMAIN (b \o p) : \/ \E k \in DOMAIN b : (b \o p)[j] = b[k]
                                     \/ \E k \in DOMAIN p : (b \o p)[j] = p[k]
      BY <1>3, <1>8, JoinOf
    <2> QED
      BY <1>3, <1>9, <2>1
  <1>13. Install(o) = b \o p
    BY <1>4 DEF b
  <1> QED
    BY <1>5, <1>8, <1>10, <1>11, <1>12, <1>13

-----------------------------------------------------------------------------
\* What an instruction reports of its milestone when the install goes on.
Says(x, st) ==
  \/ x.op \in Statuses /\ st = x.op
  \/ x.op \in {"gate", "try", "fetch"} /\ st = "done"
  \/ x.op = "try" /\ st = "failed"

\* One instruction on: the program left still agrees with what was reported.
LEMMA Advance ==
  ASSUME NEW o \in SUBSET Flags, NEW s \in Seq(Instr(o)), s # <<>>,
         NEW rep \in [Milestones -> Statuses \cup {"pending"}], NEW seen \in SUBSET GpuRows(o),
         ProgramOK(s, o, rep, seen), NEW st \in Statuses, Says(s[1], st)
  PROVE  ProgramOK(Tail(s), o, [rep EXCEPT ![s[1].id] = st], seen)
  <1> DEFINE u == Tail(s)
             new == [rep EXCEPT ![s[1].id] = st]
             x == s[1]
  <1>1. /\ x \in Instr(o) /\ x.id \in Milestones /\ x.op # "watch"
        /\ \A j \in DOMAIN u : j + 1 \in DOMAIN s /\ u[j] = s[j + 1]
        /\ 1 \in DOMAIN s
    BY TailOf DEF Instr, Says, Statuses
  <1>2. \A i \in Milestones : new[i] = IF i = x.id THEN st ELSE rep[i]
    BY <1>1
  <1>3. Ordered(u, o) /\ Closed(u, o)
    BY TailKeeps DEF ProgramOK
  <1>4. \A i \in Milestones : Ends(x, i, o) => i = x.id
    BY <1>1 DEF Ends
  <1>5. \A i \in Planned(o) : new[i] \in {"pending", "running"} => i \in Ended(u, o)
    <2>1. SUFFICES ASSUME NEW i \in Planned(o), new[i] \in {"pending", "running"}
                   PROVE  i \in Ended(u, o)
      OBVIOUS
    <2>2. i \in Milestones
      BY Rows
    <2>3. CASE i = x.id
      <3>1. x.op = "running"
        BY <1>2, <2>1, <2>2, <2>3 DEF Says, Statuses
      <3> QED
        BY <2>3, <3>1, TailKeeps DEF ProgramOK
    <2>4. CASE i # x.id
      <3>1. i \in Ended(s, o)
        BY <1>2, <2>1, <2>2, <2>4 DEF ProgramOK
      <3> QED
        BY <1>4, <2>2, <2>4, <3>1, TailKeeps
    <2> QED
      BY <2>3, <2>4
  <1>6. \A i \in Planned(o) \ Best(o) : new[i] # "failed"
    <2>1. st = "failed" => x.id \in Best(o)
      BY <1>1 DEF Says, Instr, Fits
    <2> QED
      BY <1>2, <2>1, Rows DEF ProgramOK
  <1>7. \A r \in seen : new[r] = "done" /\ \A j \in DOMAIN u : u[j].id # r
    BY <1>1, <1>2, Rows DEF ProgramOK
  <1>8. new["reconcile"] = "done" \/ (\E j \in DOMAIN u : u[j] = I("done", "reconcile"))
          => seen = GpuRows(o)
    <2>1. CASE new["reconcile"] = "done" /\ x.id = "reconcile"
      <3>1. x.op = "done"
        BY <1>1, <1>2, <2>1, MilestoneNames DEF Says, Instr, Fits
      <3>2. x = I("done", "reconcile")
        BY <1>1, <2>1, <3>1 DEF I, Instr
      <3> QED
        BY <1>1, <3>2 DEF ProgramOK
    <2>2. CASE new["reconcile"] = "done" /\ x.id # "reconcile"
      BY <1>2, <2>2, MilestoneNames DEF ProgramOK
    <2>3. CASE \E j \in DOMAIN u : u[j] = I("done", "reconcile")
      BY <1>1, <2>3 DEF ProgramOK
    <2> QED
      BY <2>1, <2>2, <2>3
  <1>9. \A j \in DOMAIN u : u[j].op \in {"fetch", "session"} => seen = {}
    BY <1>1 DEF ProgramOK
  <1> HIDE DEF u, new, x
  <1>10. ProgramOK(u, o, new, seen)
    BY <1>3, <1>5, <1>6, <1>7, <1>8, <1>9 DEF ProgramOK
  <1> QED
    BY <1>10 DEF u, new, x

\* Work that reports nothing is done.
LEMMA Passed ==
  ASSUME NEW o \in SUBSET Flags, NEW s \in Seq(Instr(o)), s # <<>>,
         NEW rep, NEW seen, ProgramOK(s, o, rep, seen), s[1].op \in {"check", "session"}
  PROVE  ProgramOK(Tail(s), o, rep, seen)
  <1> DEFINE u == Tail(s)
  <1>1. \A j \in DOMAIN u : j + 1 \in DOMAIN s /\ u[j] = s[j + 1]
    BY TailOf
  <1>2. Ordered(u, o) /\ Closed(u, o)
    BY TailKeeps DEF ProgramOK
  <1>3. \A i \in Milestones : i \in Ended(s, o) => i \in Ended(u, o)
    BY TailKeeps DEF Ends, Terminal
  <1> HIDE DEF u
  <1>4. ProgramOK(u, o, rep, seen)
    BY <1>1, <1>2, <1>3, Rows DEF ProgramOK
  <1> QED
    BY <1>4 DEF u

\* Without a kubeconfig or a session the rest is skipped.
LEMMA Skipped ==
  ASSUME NEW o \in SUBSET Flags, NEW s \in Seq(Instr(o)), s # <<>>,
         NEW rep \in [Milestones -> Statuses \cup {"pending"}], NEW seen,
         ProgramOK(s, o, rep, seen), NEW t,
         \/ s[1].op = "session" /\ t = SkipPost(o)
         \/ s[1].op = "fetch" /\ rep[s[1].id] = "failed" /\ t = When("noPush" \notin o, SkipPost(o))
  PROVE  t \in Seq(Instr(o)) /\ ProgramOK(t, o, rep, seen)
  <1>1. /\ t \in Piece(o) /\ seen = {} /\ s[1] \in Instr(o) /\ 1 \in DOMAIN s
        /\ DOMAIN s \subseteq Nat \ {0}
    BY TailOf, SkipPostIs, NoPiece DEF When, ProgramOK
  <1>2. t \in Seq(Instr(o)) /\ Closed(t, o) /\ Ordered(t, o)
    <2>1. <<>> \in Seq(Instr(o)) /\ Ordered(<<>>, o)
      BY DEF Ordered
    <2> QED
      BY <1>1, <2>1, PieceOrdered DEF Piece
  <1>3. ASSUME NEW i \in Planned(o), rep[i] \in {"pending", "running"}
        PROVE  i \in Ended(t, o)
    <2>1. PICK k \in DOMAIN s : Ends(s[k], i, o)
      BY <1>3 DEF ProgramOK, Ended
    <2>2. k # 1
      <3>1. s[1].op = "fetch" => s[1].id # i
        BY <1>3
      <3> QED
        BY <2>1, <3>1 DEF Ends, Terminal
    <2>3. Follows(s[1], s[k], o)
      BY <1>1, <2>1, <2>2 DEF ProgramOK, Ordered
    <2>4. i \in Post(o)
      BY <2>1, <2>3 DEF Follows, Ends, Post
    <2>5. t = SkipPost(o)
      BY <2>3 DEF Follows, When
    <2> QED
      BY <2>4, <2>5, SkipPostIs
  <1>4. \A j \in DOMAIN t : t[j] # I("done", "reconcile") /\ t[j].op \notin {"fetch", "session"}
    BY <1>1 DEF Piece
  <1>5. rep["reconcile"] = "done" => seen = GpuRows(o)
    BY DEF ProgramOK
  <1>6. \A i \in Planned(o) \ Best(o) : rep[i] # "failed"
    BY DEF ProgramOK
  <1> QED
    BY <1>1, <1>2, <1>3, <1>4, <1>5, <1>6 DEF ProgramOK

\* The watch sees a GPU layer become Ready.
LEMMA Noticed ==
  ASSUME NEW o \in SUBSET Flags, NEW s \in Seq(Instr(o)), s # <<>>,
         NEW rep \in [Milestones -> Statuses \cup {"pending"}], NEW seen \in SUBSET GpuRows(o),
         ProgramOK(s, o, rep, seen), s[1].op = "watch", NEW r \in GpuRows(o)
  PROVE  ProgramOK(s, o, [rep EXCEPT ![r] = "done"], seen \cup {r})
  <1> DEFINE new == [rep EXCEPT ![r] = "done"]
  <1>1. \A i \in Milestones : new[i] = IF i = r THEN "done" ELSE rep[i]
    BY Rows
  <1>2. \A j \in DOMAIN s : s[j].id # r /\ s[j].op \notin {"fetch", "session"}
    <2>1. /\ s[1].id = "reconcile" /\ DOMAIN s \subseteq Nat \ {0} /\ 1 \in DOMAIN s
          /\ \A j \in DOMAIN s : s[j] \in Instr(o)
      BY TailOf DEF Instr, Fits
    <2>2. \A j \in DOMAIN s : j # 1 => s[j].id \in {"openbao", "keycloak"}
      BY <2>1 DEF ProgramOK, Ordered, Follows
    <2> QED
      BY <2>1, <2>2, Rows DEF Instr, Fits
  <1>3. r # "reconcile" /\ r \in Best(o) /\ Planned(o) \subseteq Milestones /\ "reconcile" \in Milestones
        /\ GpuRows(o) \subseteq Milestones
    BY Rows, MilestoneNames DEF Best
  <1> HIDE DEF new
  <1>4. ProgramOK(s, o, new, seen \cup {r})
    BY <1>1, <1>2, <1>3 DEF ProgramOK
  <1> QED
    BY <1>4 DEF new

\* The watch is over.
LEMMA Watched ==
  ASSUME NEW o \in SUBSET Flags, NEW s \in Seq(Instr(o)), s # <<>>,
         NEW rep \in [Milestones -> Statuses \cup {"pending"}], NEW seen \in SUBSET GpuRows(o),
         s[1].op = "watch", NEW st \in {"done", "failed"}
  PROVE  LET t == <<I(st, "reconcile")>> \o Each("failed", GpuRows(o) \ seen) \o Tail(s)
         IN /\ t \in Seq(Instr(o))
            /\ ProgramOK(s, o, rep, seen) /\ (st = "done" => seen = GpuRows(o))
                 => ProgramOK(t, o, rep, seen)
  <1> DEFINE h == <<I(st, "reconcile")>>
             e == Each("failed", GpuRows(o) \ seen)
             u == Tail(s)
             g == h \o e
             t == g \o u
  <1>1. /\ u \in Seq(Instr(o)) /\ DOMAIN s \subseteq Nat \ {0} /\ 1 \in DOMAIN s
        /\ \A j \in DOMAIN u : j + 1 \in DOMAIN s /\ u[j] = s[j + 1]
        /\ \A j \in DOMAIN s : s[j] \in Instr(o)
    BY TailOf
  <1>2. /\ h \in Seq(Instr(o)) /\ Closed(h, o) /\ Ordered(h, o) /\ Ended(h, o) = {"reconcile"}
        /\ \A j \in DOMAIN h : h[j] = I(st, "reconcile")
    <2>1. "reconcile" \in Milestones
      BY MilestoneNames
    <2> QED
      BY <2>1 DEF Closed, Ordered, Ended, Ends, I, Instr, Fits, Ops, Statuses, Terminal,
         Best
  <1>3. e \in Piece(o) /\ Ended(e, o) = GpuRows(o) \ seen /\ e \in Seq(Instr(o))
    BY EachPieces DEF Piece
  <1>4. \A j \in DOMAIN e : \E x \in GpuRows(o) \ seen : e[j] = I("failed", x)
    <2>1. e \in Seq({I("failed", x) : x \in GpuRows(o) \ seen})
      BY GpuFinite, EachOf
    <2> QED
      BY <2>1
  <1>5. Ordered(e, o)
    BY <1>2, <1>3, PieceOrdered
  <1> HIDE DEF h, e, u
  <1>6. /\ g \in Seq(Instr(o)) /\ Closed(g, o) /\ Ended(g, o) = {"reconcile"} \cup (GpuRows(o) \ seen)
        /\ \A j \in DOMAIN g : \/ g[j] = I(st, "reconcile")
                               \/ \E x \in GpuRows(o) \ seen : g[j] = I("failed", x)
    <2>1. g \in Seq(Instr(o)) /\ Closed(g, o) /\ Ended(g, o) = Ended(h, o) \cup Ended(e, o)
      BY <1>2, <1>3, JoinOf, JoinClosed, JoinEnds DEF Piece
    <2>2. \A j \in DOMAIN g : \/ \E k \in DOMAIN h : g[j] = h[k]
                              \/ \E k \in DOMAIN e : g[j] = e[k]
      <3>1. h \in Seq(Instr(o)) /\ e \in Seq(Instr(o))
        BY <1>2, <1>3
      <3>2. \A j \in DOMAIN (h \o e) :
              \/ j \in DOMAIN h /\ (h \o e)[j] = h[j]
              \/ j - Len(h) \in DOMAIN e /\ (h \o e)[j] = e[j - Len(h)]
        BY <3>1, JoinOf
      <3> QED
        BY <3>2
    <2> QED
      BY <1>2, <1>3, <1>4, <2>1, <2>2
  <1> HIDE DEF g
  <1>7. Ordered(g, o)
    BY <1>6 DEF Ordered, Follows, I
  <1>8. t \in Seq(Instr(o))
    BY <1>1, <1>6, JoinOf
  <1>9. ASSUME ProgramOK(s, o, rep, seen), st = "done" => seen = GpuRows(o)
        PROVE  ProgramOK(t, o, rep, seen)
    <2>1. Ordered(u, o) /\ Closed(u, o)
      BY <1>9, TailKeeps DEF ProgramOK, u
    <2>2. Closed(t, o) /\ Ended(t, o) = Ended(g, o) \cup Ended(u, o)
      BY <1>1, <1>6, <2>1, JoinClosed, JoinEnds
    <2>3. Ordered(t, o)
      <3>1. \A j \in DOMAIN g, k \in DOMAIN u : Follows(g[j], u[k], o)
        BY <1>6 DEF Follows, I
      <3> QED
        BY <1>1, <1>6, <1>7, <2>1, <3>1, JoinOrdered
    <2>4. \A j \in DOMAIN u : u[j].id \in {"openbao", "keycloak"}
      BY <1>1, <1>9 DEF ProgramOK, Ordered, Follows
    <2>5. \A j \in DOMAIN t : (\E k \in DOMAIN g : t[j] = g[k]) \/ (\E k \in DOMAIN u : t[j] = u[k])
      BY <1>1, <1>6, JoinOf
    <2>6. ASSUME NEW i \in Planned(o), rep[i] \in {"pending", "running"}
          PROVE  i \in Ended(t, o)
      <3>1. i \in Ended(s, o) /\ i \in Milestones /\ i \notin seen
        BY <1>9, <2>6, Rows DEF ProgramOK
      <3>2. Ends(s[1], i, o) \/ i \in Ended(u, o)
        BY <3>1, TailKeeps DEF u
      <3>3. Ends(s[1], i, o) => i \in {"reconcile"} \cup GpuRows(o)
        BY DEF Ends, Terminal
      <3> QED
        BY <1>6, <2>2, <3>1, <3>2, <3>3
    <2>7. \A r \in seen, j \in DOMAIN t : t[j].id # r
      <3>1. \A r \in seen : r \in GpuRows(o) /\ r \notin {"reconcile", "openbao", "keycloak"}
        BY Rows
      <3>2. \A r \in seen, k \in DOMAIN g : g[k].id # r
        BY <1>6, <3>1 DEF I
      <3> QED
        BY <2>4, <2>5, <3>1, <3>2
    <2>8. ASSUME rep["reconcile"] = "done" \/ \E j \in DOMAIN t : t[j] = I("done", "reconcile")
          PROVE  seen = GpuRows(o)
      <3>1. CASE rep["reconcile"] = "done"
        BY <1>9, <3>1 DEF ProgramOK
      <3>2. ASSUME NEW k \in DOMAIN g, g[k] = I("done", "reconcile") PROVE st = "done"
        BY <1>6, <3>2 DEF I
      <3>3. \A k \in DOMAIN u : u[k] # I("done", "reconcile")
        BY <2>4 DEF I
      <3> QED
        BY <1>9, <2>5, <2>8, <3>1, <3>2, <3>3
    <2>9. \A j \in DOMAIN t : t[j].op \notin {"fetch", "session"}
      <3>1. \A k \in DOMAIN g : g[k].op \notin {"fetch", "session"}
        BY <1>6 DEF I
      <3>2. \A k \in DOMAIN u : u[k].op \notin {"fetch", "session"}
        BY <1>1, <2>4 DEF Instr, Fits
      <3> QED
        BY <2>5, <3>1, <3>2
    <2> HIDE DEF t
    <2> QED
      BY <1>9, <2>2, <2>3, <2>6, <2>7, <2>8, <2>9 DEF ProgramOK
  <1> QED
    BY <1>8, <1>9 DEF h, e, u, g

-----------------------------------------------------------------------------
\* Flags, and what the library says of Append.
LEMMA OptionsAreFlags == ASSUME TypeInv PROVE opts \in SUBSET Flags
  BY InstallAssumption DEF TypeInv

LEMMA AppendOf ==
  ASSUME NEW T, NEW s \in Seq(T), NEW x \in T
  PROVE  /\ Append(s, x) \in Seq(T) /\ Len(Append(s, x)) = Len(s) + 1 /\ Len(s) \in Nat
         /\ DOMAIN s = 1 .. Len(s) /\ DOMAIN Append(s, x) = 1 .. (Len(s) + 1)
         /\ \A j \in DOMAIN s : Append(s, x)[j] = s[j]
         /\ Append(s, x)[Len(s) + 1] = x
  OBVIOUS

\* Before the engine starts.
LEMMA InitInv == ASSUME InstallInit PROVE InstallInv /\ NilInv
  <1>1. opts \in SUBSET Flags
    BY InstallAssumption DEF InstallInit
  <1>2. TypeInv
    <2>1. todo \in Seq(Instr(opts)) /\ opts \in InstallOptions
      BY <1>1, InstallIs DEF InstallInit
    <2>2. chan \in Seq(Message) /\ Len(chan) <= ChanCap /\ late \in 0 .. MaxLate
      BY InstallAssumption DEF InstallInit
    <2>3. /\ reported \in [Milestones -> Statuses \cup {"pending"}]
          /\ rows \in [Milestones -> Statuses \cup {"absent", "pending"}]
          /\ ready \subseteq Kustomizations /\ completed \subseteq GpuRows(opts)
      BY DEF InstallInit
    <2>4. /\ cancelled \in BOOLEAN /\ listening \in BOOLEAN /\ finished \in BOOLEAN
          /\ aborting \in BOOLEAN /\ forceQuit \in BOOLEAN
      BY DEF InstallInit
    <2> QED
      BY <2>1, <2>2, <2>3, <2>4 DEF InstallInit, TypeInv
  <1>3. ProgramOK(todo, opts, reported, completed)
    <2>1. \A i \in Milestones : reported[i] = "pending"
      BY DEF InstallInit
    <2>2. Planned(opts) \subseteq Milestones /\ "reconcile" \in Milestones
      BY <1>1, Rows, MilestoneNames
    <2>3. todo = Install(opts) /\ completed = {}
      BY DEF InstallInit
    <2> QED
      BY <1>1, <2>1, <2>2, <2>3, InstallIs DEF ProgramOK
  <1>4. EngineInv
    BY <1>3 DEF EngineInv, InstallInit
  <1>5. EventsOK
    BY <1>1, Rows DEF EventsOK, PlanAhead, InstallInit
  <1>6. ScreenInv
    BY <1>5 DEF ScreenInv, InstallInit
  <1> QED
    BY <1>2, <1>4, <1>6 DEF InstallInv, NilInv, InstallInit

\* What the screen may rely on outlives every step of an engine that reports of one
\* milestone at most.
Sends ==
  \/ chan' = chan /\ reported' = reported
  \/ \E id \in Milestones, st \in Statuses : Report(id, st)

\* The screen's half over a step of the engine: at most one event more under way.
LEMMA SendTypes ==
  ASSUME TypeInv, Sends
  PROVE  /\ chan' \in Seq(Message) /\ Len(chan') <= ChanCap
         /\ reported' \in [Milestones -> Statuses \cup {"pending"}]
  <1>1. CASE chan' = chan /\ reported' = reported
    BY <1>1 DEF TypeInv
  <1>2. ASSUME NEW id \in Milestones, NEW st \in Statuses, Report(id, st)
        PROVE  /\ chan' \in Seq(Message) /\ Len(chan') <= ChanCap
               /\ reported' \in [Milestones -> Statuses \cup {"pending"}]
    <2>1. [kind |-> "status", id |-> id, status |-> st] \in Message
      BY DEF Message
    <2>2. chan \in Seq(Message) /\ Len(chan) <= ChanCap /\ ChanCap \in Nat
      BY InstallAssumption DEF TypeInv
    <2>3. chan' \in Seq(Message) /\ Len(chan') <= ChanCap
      BY <1>2, <2>1, <2>2, AppendOf DEF Report, SendMsg
    <2>4. reported' \in [Milestones -> Statuses \cup {"pending"}]
      BY <1>2 DEF Report, TypeInv
    <2> QED
      BY <2>3, <2>4
  <1> QED
    BY <1>1, <1>2 DEF Sends

LEMMA SendScreen ==
  ASSUME TypeInv, ScreenInv, Sends, engine \in {"running", "failing"}, engine' \notin {"gone", "plan"},
         UNCHANGED <<opts, cancelled, screenVars, exitVars>>
  PROVE  ScreenInv'
  <1> USE DEF screenVars, exitVars
  <1>1. ~finished /\ \A j \in DOMAIN chan : chan[j].kind # "finished"
    BY DEF ScreenInv
  <1>2. CASE chan' = chan /\ reported' = reported
    <2>1. EventsOK => EventsOK'
      BY <1>2 DEF EventsOK, PlanAhead
    <2> QED
      BY <1>1, <1>2, <2>1 DEF ScreenInv
  <1>3. ASSUME NEW id \in Milestones, NEW st \in Statuses, Report(id, st)
        PROVE  ScreenInv'
    <2> DEFINE m == [kind |-> "status", id |-> id, status |-> st]
    <2>1. m \in Message /\ m.kind = "status" /\ m.id = id /\ m.status = st
      BY DEF Message
    <2>2. \/ chan' = Append(chan, m)
          \/ cancelled /\ chan' = chan
      BY <1>3 DEF Report, SendMsg
    <2> HIDE DEF m
    <2>3. /\ chan \in Seq(Message) /\ DOMAIN chan = 1 .. Len(chan) /\ Len(chan) \in Nat
          /\ chan' = Append(chan, m) =>
               /\ DOMAIN chan' = 1 .. (Len(chan) + 1)
               /\ \A j \in DOMAIN chan : chan'[j] = chan[j]
               /\ chan'[Len(chan) + 1] = m
      BY <2>1, AppendOf DEF TypeInv
    <2>4. \A j \in DOMAIN chan' : chan'[j].kind # "finished"
      BY <1>1, <2>1, <2>2, <2>3
    <2>5. ASSUME EventsOK, ~cancelled
          PROVE  EventsOK'
      <3>1. /\ DOMAIN chan' = 1 .. (Len(chan) + 1) /\ DOMAIN chan = 1 .. Len(chan)
            /\ \A j \in DOMAIN chan : chan'[j] = chan[j] /\ j \in DOMAIN chan'
            /\ chan'[Len(chan) + 1] = m /\ Len(chan) + 1 \in DOMAIN chan'
            /\ \A j \in DOMAIN chan' : j \in DOMAIN chan \/ j = Len(chan) + 1
            /\ \A j \in DOMAIN chan : Len(chan) + 1 > j
        BY <2>2, <2>3, <2>5
      <3>2. PlanAhead' <=> PlanAhead
        <4>1. chan' # <<>> /\ (chan # <<>> <=> 1 \in DOMAIN chan)
          BY <2>2, <2>3, <2>5
        <4>2. chan # <<>> => chan'[1] = chan[1]
          BY <3>1, <4>1
        <4>3. chan = <<>> => chan'[1] = m
          BY <2>3, <3>1, <4>1
        <4> QED
          BY <2>1, <4>1, <4>2, <4>3 DEF PlanAhead
      <3>3. \A i \in Milestones : reported'[i] = IF i = id THEN st ELSE reported[i]
        BY <1>3, <2>5 DEF Report, TypeInv
      <3>4. Planned(opts) \subseteq Milestones
        BY OptionsAreFlags, Rows
      <3>5. ASSUME NEW i \in Planned(opts)
            PROVE  /\ \A j \in DOMAIN chan' :
                        Tells(chan'[j], i) =>
                          \/ chan'[j].status = reported'[i]
                          \/ \E k \in DOMAIN chan' : k > j /\ Tells(chan'[k], i)
                   /\ (\A j \in DOMAIN chan' : ~Tells(chan'[j], i)) =>
                        reported'[i] = IF PlanAhead THEN "pending" ELSE rows[i]
        <4>1. CASE i = id
          <5>1. Tells(chan'[Len(chan) + 1], i) /\ chan'[Len(chan) + 1].status = reported'[i]
            BY <2>1, <3>1, <3>3, <4>1 DEF Tells
          <5> QED
            BY <3>1, <5>1
        <4>2. CASE i # id
          <5>1. ~Tells(chan'[Len(chan) + 1], i) /\ reported'[i] = reported[i]
            BY <2>1, <3>1, <3>3, <3>4, <4>2 DEF Tells
          <5> QED
            BY <2>5, <3>1, <5>1 DEF EventsOK
        <4> QED
          BY <4>1, <4>2
      <3>6. \A j \in DOMAIN chan' : chan'[j].kind = "plan" => j = 1
        BY <2>1, <2>5, <3>1 DEF EventsOK
      <3> QED
        BY <2>4, <2>5, <3>2, <3>5, <3>6 DEF EventsOK
    <2> QED
      BY <1>1, <2>4, <2>5 DEF ScreenInv
  <1> QED
    BY <1>2, <1>3 DEF Sends

\* The engine's half over a step that goes on, and over one that ends the program.
LEMMA EngineGoes ==
  ASSUME InstallInv, Sends, engine = "running", engine' = "running",
         UNCHANGED <<opts, cancelled, screenVars, exitVars>>,
         todo' \in Seq(Instr(opts)), late' \in 0 .. MaxLate, ready' \subseteq Kustomizations,
         completed' \subseteq GpuRows(opts),
         \A r \in GpuRows(opts) : TargetOf[r] \in ready' => r \in completed',
         ~cancelled => ProgramOK(todo', opts, reported', completed')
  PROVE  InstallInv'
  <1>1. TypeInv'
    BY SendTypes DEF InstallInv, TypeInv, screenVars, exitVars
  <1>2. EngineInv'
    BY DEF EngineInv
  <1>3. ScreenInv'
    BY SendScreen DEF InstallInv
  <1> QED
    BY <1>1, <1>2, <1>3 DEF InstallInv

LEMMA EngineEnds ==
  ASSUME InstallInv, Sends, engine \in {"running", "failing"},
         engine' \in {"failing", "succeeded", "failed"},
         UNCHANGED <<opts, cancelled, ready, completed, late, screenVars, exitVars>>,
         todo' = <<>>,
         ~cancelled => GpuWaited(opts, reported'),
         ~cancelled /\ engine' = "succeeded" => Whole(opts, reported')
  PROVE  InstallInv'
  <1>1. TypeInv'
    BY SendTypes DEF InstallInv, TypeInv, screenVars, exitVars
  <1>2. EngineInv'
    BY DEF EngineInv, InstallInv
  <1>3. ScreenInv'
    BY SendScreen DEF InstallInv
  <1> QED
    BY <1>1, <1>2, <1>3 DEF InstallInv

\* The head of the program, and what the program agrees with.
LEMMA HeadOf ==
  ASSUME InstallInv, engine = "running", todo # <<>>
  PROVE  /\ opts \in SUBSET Flags /\ todo \in Seq(Instr(opts))
         /\ Head(todo) = todo[1] /\ todo[1] \in Instr(opts) /\ Here = todo[1].id
         /\ Here \in Milestones
         /\ Tail(todo) \in Seq(Instr(opts))
         /\ reported \in [Milestones -> Statuses \cup {"pending"}]
         /\ completed \in SUBSET GpuRows(opts) /\ ready \subseteq Kustomizations
         /\ late \in 0 .. MaxLate
         /\ \A r \in GpuRows(opts) : TargetOf[r] \in ready => r \in completed
         /\ ~cancelled => ProgramOK(todo, opts, reported, completed)
  <1>1. opts \in SUBSET Flags /\ todo \in Seq(Instr(opts))
    BY OptionsAreFlags DEF InstallInv, TypeInv
  <1>2. /\ Head(todo) = todo[1] /\ todo[1] \in Instr(opts) /\ Tail(todo) \in Seq(Instr(opts))
    BY <1>1, TailOf
  <1>3. Here = todo[1].id /\ Here \in Milestones
    BY <1>2 DEF Here, Instr
  <1> QED
    BY <1>1, <1>2, <1>3 DEF InstallInv, TypeInv, EngineInv

\* A step that reports of the milestone at hand and goes on.
LEMMA GoesOnInv ==
  ASSUME InstallInv, engine = "running", todo # <<>>, NEW st \in Statuses, Says(todo[1], st),
         Report(Here, st), todo' = Tail(todo), engine' = engine, late' \in 0 .. MaxLate,
         UNCHANGED <<opts, ready, completed, cancelled, screenVars, exitVars>>
  PROVE  InstallInv'
  <1>1. Sends
    BY HeadOf DEF Sends
  <1>2. ~cancelled => ProgramOK(todo', opts, reported', completed')
    <2> SUFFICES ASSUME ~cancelled PROVE ProgramOK(todo', opts, reported', completed')
      OBVIOUS
    <2>1. reported' = [reported EXCEPT ![todo[1].id] = st] /\ completed' = completed
      BY HeadOf DEF Report
    <2>2. ProgramOK(Tail(todo), opts, [reported EXCEPT ![todo[1].id] = st], completed)
      BY HeadOf, Advance
    <2> QED
      BY <2>1, <2>2
  <1> QED
    BY <1>1, <1>2, HeadOf, EngineGoes

\* Each step of the engine.
LEMMA EmitInv == ASSUME InstallInv, Emit PROVE InstallInv'
  <1>1. PICK st \in Statuses : At(st) /\ Report(Here, st)
    BY DEF Emit
  <1>2. engine = "running" /\ todo # <<>> /\ todo[1].op = st
    BY <1>1, HeadOf DEF At
  <1>3. Says(todo[1], st)
    BY <1>2 DEF Says
  <1>4. late' \in 0 .. MaxLate
    BY DEF Emit, InstallInv, TypeInv
  <1> QED
    BY <1>1, <1>2, <1>3, <1>4, GoesOnInv DEF Emit

LEMMA StepSucceedsInv == ASSUME InstallInv, StepSucceeds PROVE InstallInv'
  <1>1. engine = "running" /\ todo # <<>> /\ Head(todo).op \in {"gate", "try", "fetch"}
    BY DEF StepSucceeds, At
  <1>2. Says(todo[1], "done")
    BY <1>1, HeadOf DEF Says
  <1>3. late' \in 0 .. MaxLate
    BY InstallAssumption DEF StepSucceeds, Succeeds, InstallInv, TypeInv
  <1> QED
    BY <1>1, <1>2, <1>3, GoesOnInv DEF StepSucceeds, GoesOn, Statuses

\* Before the watch has reported the reconcile done no GPU layer is waited for in vain.
LEMMA WaitedAnyway ==
  ASSUME NEW o \in SUBSET Flags, NEW s \in Seq(Instr(o)), s # <<>>,
         NEW rep \in [Milestones -> Statuses \cup {"pending"}], NEW seen \in SUBSET GpuRows(o),
         ProgramOK(s, o, rep, seen), s[1].op \in {"gate", "check"}
  PROVE  /\ GpuWaited(o, rep)
         /\ s[1].op = "gate" => GpuWaited(o, [rep EXCEPT ![s[1].id] = "failed"])
  <1>1. s[1] \in Instr(o) /\ 1 \in DOMAIN s
    BY TailOf
  <1>2. s[1].op = "gate" => s[1].id # "reconcile"
    BY <1>1 DEF Instr, Fits
  <1>3. GpuRows(o) \subseteq Milestones /\ "reconcile" \in Milestones
    BY Rows, MilestoneNames
  <1> QED
    BY <1>1, <1>2, <1>3 DEF ProgramOK, GpuWaited

LEMMA StepFailsInv == ASSUME InstallInv, StepFails PROVE InstallInv'
  <1>1. CASE At("try") /\ GoesOn("failed")
    <2>1. engine = "running" /\ todo # <<>> /\ Head(todo).op = "try"
      BY <1>1 DEF At
    <2>2. Says(todo[1], "failed")
      BY <2>1, HeadOf DEF Says
    <2>3. late' \in 0 .. MaxLate
      BY DEF StepFails, InstallInv, TypeInv
    <2> QED
      BY <1>1, <2>1, <2>2, <2>3, GoesOnInv DEF StepFails, GoesOn, Statuses
  <1>2. CASE At("gate") /\ Report(Here, "failed") /\ todo' = <<>> /\ engine' = "failing"
    <2>1. engine = "running" /\ todo # <<>> /\ todo[1].op = "gate"
      BY <1>2, HeadOf DEF At
    <2>2. Sends
      BY <1>2, <2>1, HeadOf DEF Sends, Statuses
    <2>3. ~cancelled => GpuWaited(opts, reported')
      <3> SUFFICES ASSUME ~cancelled PROVE GpuWaited(opts, reported')
        OBVIOUS
      <3>1. reported' = [reported EXCEPT ![todo[1].id] = "failed"]
        BY <1>2, <2>1, HeadOf DEF Report
      <3>2. GpuWaited(opts, [reported EXCEPT ![todo[1].id] = "failed"])
        BY <2>1, HeadOf, WaitedAnyway
      <3> QED
        BY <3>1, <3>2
    <2> QED
      BY <1>2, <2>1, <2>2, <2>3, EngineEnds DEF StepFails
  <1> QED
    BY <1>1, <1>2 DEF StepFails

LEMMA FetchFailsInv == ASSUME InstallInv, FetchFails PROVE InstallInv'
  <1>1. engine = "running" /\ todo # <<>> /\ todo[1].op = "fetch"
    BY HeadOf DEF FetchFails, At
  <1>2. Sends
    BY <1>1, HeadOf DEF FetchFails, Sends, Statuses
  <1>3. todo' \in Seq(Instr(opts))
    <2>1. SkipPost(opts) \in Seq(Instr(opts)) /\ <<>> \in Seq(Instr(opts))
      BY <1>1, HeadOf, SkipPostIs DEF Piece
    <2> QED
      BY <2>1 DEF FetchFails, When
  <1>4. ~cancelled => ProgramOK(todo', opts, reported', completed')
    <2> SUFFICES ASSUME ~cancelled PROVE ProgramOK(todo', opts, reported', completed')
      OBVIOUS
    <2> DEFINE new == [reported EXCEPT ![todo[1].id] = "failed"]
    <2>1. reported' = new /\ completed' = completed
      BY <1>1, HeadOf DEF FetchFails, Report
    <2>2. /\ new \in [Milestones -> Statuses \cup {"pending"}] /\ new[todo[1].id] = "failed"
          /\ \A i \in Milestones : i # todo[1].id => new[i] = reported[i]
      BY <1>1, HeadOf DEF Statuses
    <2> HIDE DEF new
    <2>3. ProgramOK(todo, opts, new, completed)
      <3>1. todo[1].id = "fetch-kubeconfig" /\ 1 \in DOMAIN todo
        BY <1>1, HeadOf, TailOf DEF Instr, Fits
      <3>2. /\ Planned(opts) \subseteq Milestones /\ "reconcile" \in Milestones
            /\ "fetch-kubeconfig" \in Best(opts) /\ completed = {}
        BY <1>1, <3>1, HeadOf, Rows, MilestoneNames DEF Best, ProgramOK
      <3>3. ProgramOK(todo, opts, reported, completed)
        BY <1>1, HeadOf
      <3> QED
        BY <2>2, <3>1, <3>2, <3>3 DEF ProgramOK
    <2>4. todo' = When("noPush" \notin opts, SkipPost(opts))
      BY DEF FetchFails
    <2> QED
      BY <1>1, <2>1, <2>2, <2>3, <2>4, HeadOf, Skipped
  <1> QED
    BY <1>1, <1>2, <1>3, <1>4, HeadOf, EngineGoes DEF FetchFails

LEMMA SessionFailsInv == ASSUME InstallInv, SessionFails PROVE InstallInv'
  <1>1. engine = "running" /\ todo # <<>> /\ todo[1].op = "session"
    BY HeadOf DEF SessionFails, At
  <1>2. Sends /\ engine' = "running" /\ late' = late
    BY <1>1 DEF SessionFails, Sends
  <1>3. todo' = SkipPost(opts) /\ todo' \in Seq(Instr(opts))
    BY <1>1, HeadOf, SkipPostIs DEF SessionFails, Piece
  <1>4. ~cancelled => ProgramOK(todo', opts, reported', completed')
    BY <1>1, <1>3, HeadOf, Skipped DEF SessionFails
  <1> QED
    BY <1>1, <1>2, <1>3, <1>4, HeadOf, EngineGoes DEF SessionFails

LEMMA PassesInv == ASSUME InstallInv, Passes PROVE InstallInv'
  <1>1. engine = "running" /\ todo # <<>> /\ todo[1].op \in {"check", "session"}
    BY HeadOf DEF Passes, At
  <1>2. Sends /\ engine' = "running" /\ late' = late
    BY <1>1 DEF Passes, Sends
  <1>3. ~cancelled => ProgramOK(todo', opts, reported', completed')
    BY <1>1, HeadOf, Passed DEF Passes
  <1> QED
    BY <1>1, <1>2, <1>3, HeadOf, EngineGoes DEF Passes

LEMMA CheckRefusesInv == ASSUME InstallInv, CheckRefuses PROVE InstallInv'
  <1>1. engine = "running" /\ todo # <<>> /\ todo[1].op = "check"
    BY HeadOf DEF CheckRefuses, At
  <1>2. Sends
    BY DEF CheckRefuses, Sends
  <1>3. ~cancelled => GpuWaited(opts, reported')
    BY <1>1, HeadOf, WaitedAnyway DEF CheckRefuses
  <1> QED
    BY <1>1, <1>2, <1>3, EngineEnds DEF CheckRefuses

LEMMA WatchStopsInv == ASSUME InstallInv, WatchStops PROVE InstallInv'
  <1>1. engine = "running" /\ todo # <<>> /\ todo[1].op = "watch"
    BY HeadOf DEF WatchStops, At
  <1>2. Sends /\ engine' = "running" /\ late' = late
    BY <1>1 DEF WatchStops, Sends
  <1>3. todo' = <<I("failed", "reconcile")>> \o Each("failed", GpuRows(opts) \ completed) \o Tail(todo)
    BY DEF WatchStops, WatchEnds
  <1>4. /\ todo' \in Seq(Instr(opts))
        /\ ProgramOK(todo, opts, reported, completed) => ProgramOK(todo', opts, reported, completed)
    BY <1>1, <1>3, HeadOf, Watched
  <1>5. ~cancelled => ProgramOK(todo', opts, reported', completed')
    BY <1>1, <1>4, HeadOf DEF WatchStops
  <1> QED
    BY <1>1, <1>2, <1>4, <1>5, HeadOf, EngineGoes DEF WatchStops

LEMMA KustomizationEventInv ==
  ASSUME InstallInv, NEW k \in Kustomizations, KustomizationEvent(k)
  PROVE  InstallInv'
  <1>1. engine = "running" /\ todo # <<>> /\ todo[1].op = "watch"
    BY HeadOf DEF KustomizationEvent, At
  <1>2. PICK isReady \in BOOLEAN :
          LET seen == IF isReady THEN ready \cup {k} ELSE ready \ {k}
              news == {r \in GpuRows(opts) \ completed : isReady /\ TargetOf[r] = k}
          IN /\ ready' = seen /\ completed' = completed \cup news
             /\ IF news = {} THEN UNCHANGED <<chan, reported>>
                ELSE Report(CHOOSE r \in news : TRUE, "done")
             /\ IF Converged(seen) THEN WatchEnds("done", completed') ELSE UNCHANGED todo
    BY DEF KustomizationEvent
  <1> DEFINE seen == IF isReady THEN ready \cup {k} ELSE ready \ {k}
             news == {r \in GpuRows(opts) \ completed : isReady /\ TargetOf[r] = k}
             first == CHOOSE r \in news : TRUE
  <1>3. /\ ready' = seen /\ completed' = completed \cup news
        /\ news = {} => chan' = chan /\ reported' = reported
        /\ news # {} => Report(first, "done")
        /\ Converged(seen) => WatchEnds("done", completed')
        /\ ~Converged(seen) => todo' = todo
    BY <1>2
  <1>4. news # {} => news = {first}
    <2>1. \A r, q \in GpuRows(opts) : TargetOf[r] = TargetOf[q] => r = q
      BY DEF GpuRows, TargetOf
    <2>2. news # {} => first \in news
      OBVIOUS
    <2> QED
      BY <2>1, <2>2
  <1>5. news \subseteq GpuRows(opts) /\ GpuRows(opts) \subseteq Milestones
    BY <1>1, HeadOf, Rows
  <1>6. \A r \in GpuRows(opts) : TargetOf[r] \in seen => r \in completed \cup news
    BY <1>1, HeadOf
  <1>7. Converged(seen) => GpuRows(opts) \subseteq completed \cup news
    BY <1>6 DEF Converged, Required
  <1>8. seen \subseteq Kustomizations
    BY <1>1, HeadOf
  <1> HIDE DEF seen, news, first
  <1>9. Sends
    <2>1. CASE news = {}
      BY <1>3, <2>1 DEF Sends
    <2>2. CASE news # {}
      BY <1>3, <1>4, <1>5, <2>2 DEF Sends, Statuses
    <2> QED
      BY <2>1, <2>2
  <1>10. completed' \in SUBSET GpuRows(opts)
    BY <1>1, <1>3, <1>5, HeadOf
  <1>11. reported' \in [Milestones -> Statuses \cup {"pending"}]
    BY <1>9, SendTypes DEF InstallInv
  <1>12. ~cancelled => ProgramOK(todo, opts, reported', completed')
    <2> SUFFICES ASSUME ~cancelled PROVE ProgramOK(todo, opts, reported', completed')
      OBVIOUS
    <2>1. CASE news = {}
      BY <1>1, <1>3, <2>1, HeadOf
    <2>2. CASE news # {}
      <3>1. /\ reported' = [reported EXCEPT ![first] = "done"] /\ completed' = completed \cup {first}
            /\ first \in GpuRows(opts)
        BY <1>3, <1>4, <1>5, <2>2 DEF Report
      <3> QED
        BY <1>1, <3>1, HeadOf, Noticed
    <2> QED
      BY <2>1, <2>2
  <1>13. CASE ~Converged(seen)
    <2>1. todo' = todo /\ engine' = engine /\ late' = late
      BY <1>3, <1>13 DEF KustomizationEvent
    <2> QED
      BY <1>1, <1>3, <1>6, <1>8, <1>9, <1>10, <1>12, <2>1, HeadOf, EngineGoes
         DEF KustomizationEvent
  <1>14. CASE Converged(seen)
    <2>1. /\ todo' = <<I("done", "reconcile")>> \o Each("failed", GpuRows(opts) \ completed') \o Tail(todo)
          /\ completed' = GpuRows(opts)
      BY <1>3, <1>7, <1>10, <1>14 DEF WatchEnds
    <2>2. engine' = "running" /\ late' = late
      BY <1>1 DEF KustomizationEvent
    <2>3. /\ todo' \in Seq(Instr(opts))
          /\ ProgramOK(todo, opts, reported', completed') => ProgramOK(todo', opts, reported', completed')
      BY <1>1, <1>10, <1>11, <2>1, HeadOf, Watched
    <2> QED
      BY <1>1, <1>3, <1>6, <1>8, <1>9, <1>10, <1>12, <2>2, <2>3, HeadOf, EngineGoes
         DEF KustomizationEvent
  <1> QED
    BY <1>13, <1>14

LEMMA ReturnInv == ASSUME InstallInv, Return PROVE InstallInv'
  <1>1. engine \in {"running", "failing"} /\ todo = <<>> /\ engine' \in {"succeeded", "failed"}
        /\ (engine' = "succeeded" => engine = "running") /\ reported' = reported /\ todo' = <<>>
    BY DEF Return
  <1>2. Sends
    BY DEF Return, Sends
  <1>3. opts \in SUBSET Flags
    BY OptionsAreFlags DEF InstallInv
  <1>4. ASSUME ~cancelled, engine = "running"
        PROVE  GpuWaited(opts, reported) /\ Whole(opts, reported)
    <2>1. ProgramOK(<<>>, opts, reported, completed)
      BY <1>1, <1>4 DEF InstallInv, EngineInv
    <2>2. Ended(<<>>, opts) = {}
      BY NoPiece
    <2>3. reported \in [Milestones -> Statuses \cup {"pending"}] /\ Planned(opts) \subseteq Milestones
      BY <1>3, Rows DEF InstallInv, TypeInv
    <2>4. GpuWaited(opts, reported)
      BY <2>1 DEF ProgramOK, GpuWaited
    <2>5. Whole(opts, reported)
      BY <2>1, <2>2, <2>3 DEF ProgramOK, Whole, Statuses, Terminal
    <2> QED
      BY <2>4, <2>5
  <1>5. ~cancelled /\ engine = "failing" => GpuWaited(opts, reported)
    BY DEF InstallInv, EngineInv
  <1> QED
    BY <1>1, <1>2, <1>4, <1>5, EngineEnds DEF Return

LEMMA PlanInv == ASSUME InstallInv, Plan PROVE InstallInv'
  <1> USE DEF screenVars, exitVars
  <1> DEFINE m == [kind |-> "plan"]
  <1>1. m \in Message /\ m.kind = "plan"
    BY DEF Message
  <1>2. chan = <<>> /\ ~finished /\ engine = "plan" /\ engine' = "running"
    BY DEF InstallInv, EngineInv, ScreenInv, Plan
  <1>3. chan' = Append(chan, m) \/ (cancelled /\ chan' = chan)
    BY DEF Plan, SendMsg
  <1> HIDE DEF m
  <1>4. chan \in Seq(Message) /\ Len(chan) = 0 /\ ChanCap \in Nat \ {0}
    BY <1>2, InstallAssumption DEF InstallInv, TypeInv
  <1>5. chan' = Append(chan, m) =>
          chan' \in Seq(Message) /\ DOMAIN chan' = 1 .. 1 /\ Len(chan') = 1 /\ chan'[1] = m
    BY <1>1, <1>4, AppendOf
  <1>6. TypeInv'
    <2>1. chan' \in Seq(Message) /\ Len(chan') <= ChanCap
      <3>1. CASE chan' = Append(chan, m)
        BY <1>4, <1>5, <3>1
      <3>2. CASE chan' = chan
        BY <1>4, <3>2
      <3> QED
        BY <1>3, <3>1, <3>2
    <2> QED
      BY <1>2, <2>1 DEF Plan, InstallInv, TypeInv
  <1>7. EngineInv'
    BY <1>2 DEF Plan, InstallInv, EngineInv
  <1>8. ~cancelled => EventsOK'
    <2> SUFFICES ASSUME ~cancelled PROVE EventsOK'
      OBVIOUS
    <2>1. /\ DOMAIN chan' = {1} /\ chan'[1] = m /\ chan' # <<>>
      BY <1>3, <1>5
    <2>2. EventsOK /\ PlanAhead /\ PlanAhead'
      BY <1>1, <1>2, <2>1 DEF InstallInv, ScreenInv, PlanAhead
    <2>3. \A i \in Planned(opts) : reported[i] = "pending"
      BY <1>2, <1>4, <2>2 DEF EventsOK
    <2>4. \A i \in Planned(opts) : ~Tells(m, i)
      BY <1>1 DEF Tells
    <2> QED
      BY <1>1, <2>1, <2>2, <2>3, <2>4 DEF EventsOK, Plan
  <1>9. \A j \in DOMAIN chan' : chan'[j].kind # "finished"
    BY <1>1, <1>2, <1>3, <1>4, <1>5
  <1>10. ScreenInv'
    BY <1>2, <1>8, <1>9 DEF Plan, InstallInv, ScreenInv
  <1> QED
    BY <1>6, <1>7, <1>10 DEF InstallInv

LEMMA SendFinishedInv == ASSUME InstallInv, SendFinished PROVE InstallInv'
  <1> USE DEF screenVars, exitVars
  <1> DEFINE m == [kind |-> "finished", ok |-> engine = "succeeded"]
  <1>1. m \in Message /\ m.kind = "finished" /\ (m.ok <=> engine = "succeeded")
    BY DEF Message
  <1>2. /\ engine \in {"succeeded", "failed"} /\ engine' = "gone" /\ chan' = Append(chan, m)
        /\ Len(chan) < ChanCap
    BY DEF SendFinished
  <1> HIDE DEF m
  <1>3. /\ chan \in Seq(Message) /\ DOMAIN chan = 1 .. Len(chan) /\ Len(chan) \in Nat
        /\ chan' \in Seq(Message) /\ Len(chan') = Len(chan) + 1
        /\ DOMAIN chan' = 1 .. (Len(chan) + 1)
        /\ \A j \in DOMAIN chan : chan'[j] = chan[j] /\ j # Len(chan) + 1
        /\ chan'[Len(chan) + 1] = m
        /\ \A j \in DOMAIN chan' : j \in DOMAIN chan \/ j = Len(chan) + 1
        /\ \A j \in DOMAIN chan : j \in DOMAIN chan'
    BY <1>1, <1>2, AppendOf DEF InstallInv, TypeInv
  <1>4. ~finished /\ \A j \in DOMAIN chan : chan[j].kind # "finished"
    BY <1>2 DEF InstallInv, ScreenInv
  <1>5. TypeInv'
    <2>1. Len(chan') <= ChanCap
      BY <1>2, <1>3, InstallAssumption
    <2> QED
      BY <1>2, <1>3, <2>1 DEF SendFinished, InstallInv, TypeInv
  <1>6. EngineInv'
    BY <1>2 DEF SendFinished, InstallInv, EngineInv
  <1>7. ~cancelled => EventsOK'
    <2> SUFFICES ASSUME ~cancelled PROVE EventsOK'
      OBVIOUS
    <2>1. EventsOK
      BY <1>4 DEF InstallInv, ScreenInv
    <2>2. PlanAhead' <=> PlanAhead
      <3>1. chan' # <<>> /\ (chan # <<>> <=> 1 \in DOMAIN chan)
        BY <1>3
      <3>2. chan = <<>> => chan'[1] = m
        BY <1>3, <3>1
      <3> QED
        BY <1>1, <1>2, <1>3, <3>1, <3>2 DEF PlanAhead
    <2>3. \A i \in Planned(opts) : ~Tells(m, i)
      BY <1>1 DEF Tells
    <2>4. m.ok => Whole(opts, reported)
      BY <1>1 DEF InstallInv, EngineInv
    <2>5. ASSUME NEW i \in Planned(opts)
          PROVE  /\ \A j \in DOMAIN chan' :
                      Tells(chan'[j], i) =>
                        \/ chan'[j].status = reported[i]
                        \/ \E k \in DOMAIN chan' : k > j /\ Tells(chan'[k], i)
                 /\ (\A j \in DOMAIN chan' : ~Tells(chan'[j], i)) =>
                      reported[i] = IF PlanAhead THEN "pending" ELSE rows[i]
      BY <1>3, <2>1, <2>3 DEF EventsOK
    <2> QED
      BY <1>1, <1>3, <2>1, <2>2, <2>4, <2>5 DEF EventsOK, SendFinished
  <1>8. \A j \in DOMAIN chan' : chan'[j].kind = "finished" => j = Len(chan')
    BY <1>3, <1>4
  <1>9. ScreenInv'
    BY <1>2, <1>4, <1>7, <1>8 DEF SendFinished, InstallInv, ScreenInv
  <1> QED
    BY <1>5, <1>6, <1>9 DEF InstallInv

\* The screen takes the first event.
LEMMA ChanTail ==
  ASSUME TypeInv, chan # <<>>, chan' = Tail(chan)
  PROVE  /\ chan' \in Seq(Message) /\ Len(chan') <= ChanCap /\ Len(chan') = Len(chan) - 1
         /\ Head(chan) = chan[1] /\ chan[1] \in Message /\ 1 \in DOMAIN chan
         /\ DOMAIN chan = 1 .. Len(chan) /\ Len(chan) \in Nat \ {0}
         /\ \A j \in DOMAIN chan' : chan'[j] = chan[j + 1] /\ j + 1 \in DOMAIN chan
         /\ \A j \in DOMAIN chan : j # 1 => j - 1 \in DOMAIN chan' /\ chan'[j - 1] = chan[j]
  <1>1. /\ chan \in Seq(Message) /\ Len(chan) <= ChanCap /\ ChanCap \in Nat
    BY InstallAssumption DEF TypeInv
  <1>2. /\ Tail(chan) \in Seq(Message) /\ Head(chan) = chan[1] /\ chan[1] \in Message /\ 1 \in DOMAIN chan
        /\ DOMAIN chan = 1 .. Len(chan) /\ Len(chan) \in Nat \ {0}
        /\ Len(Tail(chan)) = Len(chan) - 1 /\ DOMAIN Tail(chan) = 1 .. (Len(chan) - 1)
        /\ \A j \in DOMAIN Tail(chan) : Tail(chan)[j] = chan[j + 1] /\ j + 1 \in DOMAIN chan
    BY <1>1, TailOf
  <1> QED
    BY <1>1, <1>2

\* Each step of the screen.
LEMMA HandleMilestoneInv == ASSUME InstallInv, HandleMilestone PROVE InstallInv'
  <1>1. /\ program = "on" /\ listening /\ chan # <<>> /\ chan' = Tail(chan) /\ listening'
        /\ UNCHANGED <<opts, engineVars, cancelled, finished, runErr, aborting, forceQuit, exitVars>>
    BY DEF HandleMilestone
  <1>2. TypeInv /\ EngineInv /\ ScreenInv /\ ~finished /\ engine # "plan" /\ opts \in SUBSET Flags
    BY <1>1, OptionsAreFlags DEF InstallInv, ScreenInv, EngineInv
  <1>3. \/ chan[1].kind = "plan" /\ SetPlan
        \/ chan[1].kind = "status" /\ SetStatus(chan[1].id, chan[1].status)
    BY <1>1, <1>2, ChanTail DEF HandleMilestone
  <1>4. chan[1].kind = "status" => chan[1].id \in Milestones /\ chan[1].status \in Statuses
    BY <1>1, <1>2, ChanTail DEF Message
  <1>5. rows' \in [Milestones -> Statuses \cup {"absent", "pending"}]
    BY <1>2, <1>3, <1>4 DEF TypeInv, SetPlan, SetStatus
  <1>6. TypeInv'
    BY <1>1, <1>2, <1>5, ChanTail DEF TypeInv, engineVars, exitVars
  <1>7. EngineInv'
    BY <1>1, <1>2 DEF EngineInv, engineVars
  <1>8. \A j \in DOMAIN chan' : chan'[j].kind = "finished" => engine = "gone" /\ j = Len(chan')
    <2>1. \A j \in DOMAIN chan' : chan'[j] = chan[j + 1] /\ j + 1 \in DOMAIN chan
      BY <1>1, <1>2, ChanTail
    <2>2. \A j \in DOMAIN chan : chan[j].kind = "finished" => engine = "gone" /\ j = Len(chan)
      BY <1>2 DEF ScreenInv
    <2>3. Len(chan') = Len(chan) - 1 /\ Len(chan) \in Nat /\ DOMAIN chan' \subseteq Nat
      BY <1>1, <1>2, <1>6, ChanTail DEF TypeInv
    <2> QED
      BY <2>1, <2>2, <2>3
  <1>9. ~cancelled => EventsOK'
    <2> SUFFICES ASSUME ~cancelled PROVE EventsOK'
      OBVIOUS
    <2>1. EventsOK /\ ~aborting
      BY <1>2 DEF ScreenInv
    <2>2. /\ \A j \in DOMAIN chan' : chan'[j] = chan[j + 1] /\ j + 1 \in DOMAIN chan /\ j \in Nat \ {0}
          /\ \A j \in DOMAIN chan : j # 1 => j - 1 \in DOMAIN chan' /\ chan'[j - 1] = chan[j]
          /\ 1 \in DOMAIN chan /\ DOMAIN chan \subseteq Nat \ {0}
      BY <1>1, <1>2, <1>6, ChanTail DEF TypeInv
    <2>3. \A j \in DOMAIN chan' : chan'[j].kind # "plan"
      BY <2>1, <2>2 DEF EventsOK
    <2>4. ~PlanAhead'
      <3>1. chan' # <<>> => 1 \in DOMAIN chan'
        BY <1>6 DEF TypeInv
      <3> QED
        BY <1>1, <1>2, <2>3, <3>1 DEF PlanAhead, engineVars
    <2>5. Planned(opts) \subseteq Milestones
      BY <1>2, Rows
    <2>6. ASSUME NEW i \in Planned(opts)
          PROVE  /\ rows'[i] # "absent"
                 /\ (\A j \in DOMAIN chan' : ~Tells(chan'[j], i)) => reported[i] = rows'[i]
      <3>1. CASE chan[1].kind = "plan"
        <4>1. SetPlan /\ PlanAhead /\ ~Tells(chan[1], i)
          BY <1>1, <1>3, <3>1 DEF PlanAhead, Tells
        <4>2. rows'[i] = "pending"
          BY <2>5, <4>1 DEF SetPlan
        <4>3. (\A j \in DOMAIN chan' : ~Tells(chan'[j], i)) => \A j \in DOMAIN chan : ~Tells(chan[j], i)
          BY <2>2, <4>1
        <4> QED
          BY <2>1, <4>1, <4>2, <4>3 DEF EventsOK
      <3>2. CASE chan[1].kind = "status"
        <4>1. SetStatus(chan[1].id, chan[1].status) /\ ~PlanAhead
          BY <1>1, <1>2, <1>3, <3>2 DEF PlanAhead
        <4>2. rows[i] # "absent"
          BY <2>1, <4>1 DEF EventsOK
        <4>3. CASE chan[1].id = i
          <5>1. rows'[i] = chan[1].status /\ Tells(chan[1], i)
            BY <1>2, <1>4, <2>1, <2>5, <3>2, <4>1, <4>2, <4>3 DEF SetStatus, Tells,
               TypeInv
          <5>2. \/ chan[1].status = reported[i]
                \/ \E k \in DOMAIN chan : k > 1 /\ Tells(chan[k], i)
            BY <2>1, <2>2, <5>1 DEF EventsOK
          <5> QED
            BY <1>4, <2>2, <3>2, <5>1, <5>2 DEF Statuses
        <4>4. CASE chan[1].id # i
          <5>1. rows'[i] = rows[i] /\ ~Tells(chan[1], i)
            BY <1>2, <2>5, <4>1, <4>4 DEF SetStatus, Tells, TypeInv
          <5>2. (\A j \in DOMAIN chan' : ~Tells(chan'[j], i)) => \A j \in DOMAIN chan : ~Tells(chan[j], i)
            BY <2>2, <5>1
          <5> QED
            BY <2>1, <4>1, <4>2, <5>1, <5>2 DEF EventsOK
        <4> QED
          BY <4>3, <4>4
      <3> QED
        BY <1>3, <3>1, <3>2
    <2>7. ASSUME NEW i \in Planned(opts), NEW j \in DOMAIN chan', Tells(chan'[j], i)
          PROVE  \/ chan'[j].status = reported[i]
                 \/ \E k \in DOMAIN chan' : k > j /\ Tells(chan'[k], i)
      <3>1. \/ chan[j + 1].status = reported[i]
            \/ \E k \in DOMAIN chan : k > j + 1 /\ Tells(chan[k], i)
        BY <2>1, <2>2, <2>7 DEF EventsOK
      <3>2. ASSUME NEW k \in DOMAIN chan, k > j + 1, Tells(chan[k], i)
            PROVE  k - 1 \in DOMAIN chan' /\ k - 1 > j /\ Tells(chan'[k - 1], i)
        BY <2>2, <3>2
      <3> QED
        BY <2>2, <3>1, <3>2
    <2>8. \A j \in DOMAIN chan' : chan'[j].kind = "finished" /\ chan'[j].ok => Whole(opts, reported)
      BY <2>1, <2>2 DEF EventsOK
    <2> QED
      BY <1>1, <2>3, <2>4, <2>6, <2>7, <2>8 DEF EventsOK, engineVars
  <1>10. \A i \in Milestones \ Planned(opts) : rows'[i] = "absent"
    <2> SUFFICES ASSUME NEW i \in Milestones \ Planned(opts) PROVE rows'[i] = "absent"
      OBVIOUS
    <2>1. rows[i] = "absent" /\ rows \in [Milestones -> Statuses \cup {"absent", "pending"}]
      BY <1>2 DEF ScreenInv, TypeInv
    <2>2. CASE SetPlan
      BY <2>2 DEF SetPlan
    <2>3. CASE SetStatus(chan[1].id, chan[1].status)
      BY <2>1, <2>3 DEF SetStatus
    <2> QED
      BY <1>3, <2>2, <2>3
  <1>11. ScreenInv'
    BY <1>1, <1>2, <1>8, <1>9, <1>10 DEF ScreenInv, engineVars, exitVars
  <1> QED
    BY <1>6, <1>7, <1>11 DEF InstallInv

LEMMA HandleFinishedInv == ASSUME InstallInv, HandleFinished PROVE InstallInv'
  <1>1. /\ program = "on" /\ listening /\ chan # <<>> /\ chan' = Tail(chan) /\ Head(chan).kind = "finished"
        /\ listening' = FALSE /\ finished' = TRUE
        /\ rows' = [i \in Milestones |-> Settled(rows[i], runErr')]
        /\ UNCHANGED <<opts, engineVars, cancelled, aborting, forceQuit, exitVars>>
    BY DEF HandleFinished
  <1>2. /\ runErr' \in {"failed", "aborted", "nil"}
        /\ runErr' = "nil" => Head(chan).ok
        /\ ~aborting => runErr' # "aborted"
    BY DEF HandleFinished
  <1>3. TypeInv /\ EngineInv /\ ScreenInv /\ opts \in SUBSET Flags
    BY OptionsAreFlags DEF InstallInv
  <1>4. chan[1] = Head(chan) /\ engine = "gone" /\ Len(chan) = 1 /\ DOMAIN chan = {1} /\ ~finished
    <2>1. /\ chan[1] = Head(chan) /\ 1 \in DOMAIN chan /\ DOMAIN chan = 1 .. Len(chan)
      BY <1>1, <1>3, ChanTail
    <2>2. engine = "gone" /\ 1 = Len(chan)
      BY <1>1, <1>3, <2>1 DEF ScreenInv
    <2> QED
      BY <1>1, <1>3, <2>1, <2>2 DEF ScreenInv
  <1>5. \A i \in Milestones : Settled(rows[i], runErr') \in Statuses \cup {"absent", "pending"}
    BY <1>3 DEF TypeInv, Settled, Statuses
  <1>6. TypeInv'
    <2>1. rows' \in [Milestones -> Statuses \cup {"absent", "pending"}]
      BY <1>1, <1>5
    <2>2. chan' \in Seq(Message) /\ Len(chan') <= ChanCap
      BY <1>1, <1>3, ChanTail
    <2> QED
      BY <1>1, <1>2, <1>3, <2>1, <2>2 DEF TypeInv, engineVars, exitVars
  <1>7. EngineInv'
    BY <1>1, <1>3, <1>4 DEF EngineInv, engineVars
  <1>8. DOMAIN chan' = {}
    BY <1>1, <1>3, <1>4, <1>6, ChanTail DEF TypeInv
  <1>9. ASSUME ~aborting
        PROVE  Final'
    <2>1. ~cancelled /\ EventsOK
      BY <1>1, <1>3, <1>4, <1>9 DEF ScreenInv
    <2>2. ~PlanAhead
      BY <1>1, <1>4 DEF PlanAhead
    <2>3. \A i \in Planned(opts) : rows[i] = reported[i]
      BY <1>1, <1>4, <2>1, <2>2 DEF EventsOK, Tells
    <2>4. Planned(opts) \subseteq Milestones
      BY <1>3, Rows
    <2>5. runErr' = "nil" => Whole(opts, reported)
      BY <1>1, <1>2, <1>4, <2>1 DEF EventsOK
    <2>6. GpuWaited(opts, reported)
      BY <1>3, <1>4, <2>1 DEF EngineInv
    <2>7. \A i \in Planned(opts) : rows'[i] = Settled(reported[i], runErr)'
      BY <1>1, <2>3, <2>4 DEF Settled, engineVars
    <2> QED
      BY <1>1, <1>2, <1>9, <2>5, <2>6, <2>7 DEF Final, engineVars
  <1>10. \A i \in Milestones \ Planned(opts) : rows'[i] = "absent"
    <2> SUFFICES ASSUME NEW i \in Milestones \ Planned(opts) PROVE rows'[i] = "absent"
      OBVIOUS
    <2>1. rows[i] = "absent"
      BY <1>3 DEF ScreenInv
    <2>2. rows'[i] = Settled(rows[i], runErr')
      BY <1>1
    <2> QED
      BY <2>1, <2>2 DEF Settled
  <1>11. ScreenInv'
    BY <1>1, <1>3, <1>4, <1>8, <1>9, <1>10 DEF ScreenInv, engineVars, exitVars
  <1> QED
    BY <1>6, <1>7, <1>11 DEF InstallInv

\* The operator leaves, asks for an end or does not wait for one, or a signal does.
LEMMA ExitInv ==
  ASSUME InstallInv, NEW by \in {"key", "SIGINT", "SIGTERM"}, NEW forced \in BOOLEAN,
         program = "on", Exit(by, forced), forceQuit' \in BOOLEAN,
         UNCHANGED <<opts, engineVars, chan, rows, listening, finished, runErr, aborting>>
  PROVE  InstallInv'
  <1>1. /\ program' = by /\ cancelled' = TRUE /\ transcript' \in {"closed", "left"}
        /\ result' \in {"nil", "failed", "aborted", "interrupted"}
    BY DEF Exit, Outcome
  <1>2. TypeInv'
    BY <1>1 DEF InstallInv, TypeInv, engineVars
  <1>3. EngineInv'
    BY <1>1 DEF InstallInv, EngineInv, engineVars
  <1>4. finished /\ ~aborting => Final'
    BY DEF InstallInv, ScreenInv, Final, Settled, engineVars
  <1>5. ScreenInv'
    BY <1>1, <1>4 DEF InstallInv, ScreenInv, engineVars
  <1> QED
    BY <1>2, <1>3, <1>5 DEF InstallInv

LEMMA AbortInv == ASSUME InstallInv, Abort PROVE InstallInv'
  <1>1. TypeInv'
    BY DEF Abort, InstallInv, TypeInv, engineVars, exitVars
  <1>2. EngineInv'
    BY DEF Abort, InstallInv, EngineInv, engineVars
  <1>3. ScreenInv'
    BY DEF Abort, InstallInv, ScreenInv, engineVars, exitVars
  <1> QED
    BY <1>1, <1>2, <1>3 DEF InstallInv

\* All steps together.
LEMMA InstallStep == ASSUME InstallInv, InstallNext PROVE InstallInv'
  <1>1. CASE Engine
    BY <1>1, PlanInv, EmitInv, StepSucceedsInv, StepFailsInv, FetchFailsInv,
       SessionFailsInv, PassesInv, CheckRefusesInv, WatchStopsInv, ReturnInv,
       SendFinishedInv, KustomizationEventInv DEF Engine
  <1>2. CASE Screen
    BY <1>2, HandleMilestoneInv, HandleFinishedInv DEF Screen
  <1>3. CASE Leave
    <2>1. forceQuit \in BOOLEAN
      BY DEF InstallInv, TypeInv
    <2> QED
      BY <1>3, <2>1, ExitInv DEF Leave, screenVars
  <1>4. CASE ForceQuit
    BY <1>4, ExitInv DEF ForceQuit
  <1>5. ASSUME NEW s \in Signals, Signal(s) PROVE InstallInv'
    <2>1. forceQuit \in BOOLEAN /\ s \in {"key", "SIGINT", "SIGTERM"}
      BY InstallAssumption DEF InstallInv, TypeInv
    <2> QED
      BY <1>5, <2>1, ExitInv DEF Signal, screenVars
  <1> QED
    BY <1>1, <1>2, <1>3, <1>4, <1>5, AbortInv DEF InstallNext, Operator

LEMMA InstallStutter == ASSUME InstallInv, UNCHANGED installVars PROVE InstallInv'
  <1>1. TypeInv'
    BY DEF InstallInv, TypeInv, installVars, engineVars, screenVars, exitVars
  <1>2. EngineInv'
    BY DEF InstallInv, EngineInv, installVars, engineVars, screenVars, exitVars
  <1>3. EventsOK => EventsOK'
    BY DEF EventsOK, PlanAhead, installVars, engineVars, screenVars, exitVars
  <1>4. Final => Final'
    BY DEF Final, Settled, installVars, engineVars, screenVars, exitVars
  <1>5. ScreenInv'
    BY <1>3, <1>4 DEF InstallInv, ScreenInv, installVars, engineVars, screenVars,
       exitVars
  <1> QED
    BY <1>1, <1>2, <1>5 DEF InstallInv

\* Whatever the engine passes, fails or waits for, and however far the screen is behind,
\* the rest of the program and the events under way account for every milestone.
THEOREM InstallInvariant == InstallSpec => []InstallInv
  <1>1. InstallInit => InstallInv
    BY InitInv
  <1>2. InstallInv /\ [InstallNext]_installVars => InstallInv'
    BY InstallStep, InstallStutter
  <1> QED
    BY <1>1, <1>2, PTL DEF InstallSpec

\* The program, the events and the screen keep their shapes, and the channel its size.
THEOREM InstallTypesKept == InstallSpec => []InstallTypeOK
  <1>1. InstallInv => InstallTypeOK
    <2> SUFFICES ASSUME InstallInv PROVE InstallTypeOK
      OBVIOUS
    <2>1. todo \in Seq([op : Statuses \cup {"gate", "try", "fetch", "check", "session", "watch"},
                        id : Milestones])
      <3>1. Instr(opts) \subseteq [op : Ops, id : Milestones]
        BY DEF Instr
      <3>2. todo \in Seq(Instr(opts))
        BY DEF InstallInv, TypeInv
      <3>3. todo \in Seq([op : Ops, id : Milestones])
        BY <3>1, <3>2, SeqOfMore
      <3> QED
        BY <3>3 DEF Ops
    <2>2. {cancelled, listening, finished, aborting, forceQuit} \subseteq BOOLEAN
      BY DEF InstallInv, TypeInv
    <2>3. chan \in Seq([kind : {"plan"}] \cup [kind : {"status"}, id : Milestones, status : Statuses]
                       \cup [kind : {"finished"}, ok : BOOLEAN])
      BY DEF InstallInv, TypeInv, Message
    <2> QED
      BY <2>1, <2>2, <2>3 DEF InstallInv, TypeInv, InstallTypeOK
  <1> QED
    BY <1>1, InstallInvariant, PTL

\* finishedMsg comes after every event: the finished checklist shows what the engine last
\* reported of each milestone, none of them running, none pending after a success.
THEOREM ChecklistIsTrue == InstallSpec => []ScreenTellsTruth
  <1>1. InstallInv => ScreenTellsTruth
    <2> SUFFICES ASSUME InstallInv, finished, ~aborting, NEW i \in Planned(opts)
                 PROVE  /\ rows[i] = Settled(reported[i], runErr) /\ rows[i] # "running"
                        /\ runErr = "nil" => rows[i] # "pending"
      BY DEF ScreenTellsTruth
    <2>1. Final /\ runErr \in {"nil", "failed", "aborted"}
      BY DEF InstallInv, ScreenInv, TypeInv
    <2> QED
      BY <2>1 DEF Final, Settled, Whole, Terminal
  <1> QED
    BY <1>1, InstallInvariant, PTL

\* runReconcileWatchWithGPU: reconcile is done only after every GPU layer was, also when
\* a Kustomization turns Ready, back and Ready again.
THEOREM ReconcileWaits == InstallSpec => []ReconcileCoversGpu
  <1>1. InstallInv => ReconcileCoversGpu
    <2> SUFFICES ASSUME InstallInv, finished, ~aborting, rows["reconcile"] = "done",
                        NEW r \in GpuRows(opts)
                 PROVE  rows[r] = "done"
      BY DEF ReconcileCoversGpu
    <2>1. Final /\ opts \in SUBSET Flags /\ "reconcile" \in Milestones
      BY OptionsAreFlags, MilestoneNames DEF InstallInv, ScreenInv
    <2>2. "reconcile" \in Planned(opts)
      BY <2>1 DEF InstallInv, ScreenInv
    <2>3. r \in Planned(opts)
      BY <2>2, <2>1, Rows DEF Planned, Post
    <2>4. reported["reconcile"] = "done"
      BY <2>1, <2>2 DEF Final, Settled
    <2> QED
      <3>1. reported[r] = "done" /\ rows[r] = Settled(reported[r], runErr)
        BY <2>1, <2>3, <2>4 DEF Final, GpuWaited
      <3> QED
        BY <3>1 DEF Settled
  <1> QED
    BY <1>1, InstallInvariant, PTL

\* Only the screen's own end returns nil, unless a SIGTERM does.
LEMMA NilStep ==
  ASSUME "SIGTERM" \notin Signals, InstallInv, NilInv, [InstallNext]_installVars
  PROVE  NilInv'
  <1> USE DEF NilInv, engineVars, screenVars, exitVars
  <1>1. CASE Engine
    BY <1>1 DEF Engine, Plan, Emit, StepSucceeds, StepFails, FetchFails, SessionFails,
       Passes, CheckRefuses, WatchStops, Return, SendFinished, KustomizationEvent
  <1>2. CASE Screen
    BY <1>2 DEF Screen, HandleMilestone, HandleFinished
  <1>3. CASE Leave
    BY <1>3 DEF Leave, Exit, Outcome
  <1>4. CASE Abort
    BY <1>4 DEF Abort
  <1>5. CASE ForceQuit
    BY <1>5 DEF ForceQuit, Exit, Outcome
  <1>6. ASSUME NEW s \in Signals, Signal(s) PROVE NilInv'
    <2>1. s = "SIGINT"
      BY InstallAssumption
    <2> QED
      BY <1>6, <2>1 DEF Signal, Exit, Outcome
  <1>7. CASE UNCHANGED installVars
    BY <1>7 DEF installVars
  <1> QED
    BY <1>1, <1>2, <1>3, <1>4, <1>5, <1>6, <1>7 DEF InstallNext, Operator

\* Run returns nil only of an install that passed its gates.  The hypothesis is needed:
\* of a SIGTERM Bubble Tea makes an end without an error.
THEOREM NilIsInstalled ==
  ASSUME "SIGTERM" \notin Signals
  PROVE  InstallSpec => []NilMeansInstalled
  <1>1. InstallInit => NilInv
    BY InitInv
  <1>2. InstallInv /\ NilInv /\ [InstallNext]_installVars => NilInv'
    BY NilStep
  <1>3. InstallInv /\ NilInv => NilMeansInstalled
    <2> SUFFICES ASSUME InstallInv, NilInv, result = "nil", NEW i \in Planned(opts) \ BestEffort
                 PROVE  reported[i] \in {"done", "skipped"}
      BY DEF NilMeansInstalled
    <2>1. Final /\ runErr = "nil"
      BY DEF InstallInv, ScreenInv, NilInv
    <2> QED
      BY <2>1 DEF Final, Whole, Terminal, Best, BestEffort
  <1> QED
    BY <1>1, <1>2, <1>3, InstallInvariant, PTL DEF InstallSpec

=============================================================================
