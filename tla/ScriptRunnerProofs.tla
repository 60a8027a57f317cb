--------------------------- MODULE ScriptRunnerProofs --------------------------
(* Theorems about ScriptRunner for any program, any children and any sizes of the  *)
(* channel and the pipes, over every interleaving and cancellation.                *)
EXTENDS ScriptRunner, TLAPS

Exited == {"settle", "report", "exit", "close", "done"}

\* The script has a status when it is gone; supervise is past cmd.Wait only then.
CodeInv == /\ "script" \in alive <=> code = NoCode
           /\ sup \in Exited => "script" \notin alive

USE RunnerAssumption DEF tree, pipes, ctx, sentinel, channel, Streams, Kinds, NoCode, Processes

LEMMA AppendIs ==
  ASSUME NEW S, NEW q \in Seq(S), NEW x \in S
  PROVE  /\ Append(q, x) \in Seq(S) /\ Len(q) \in Nat /\ Len(Append(q, x)) = Len(q) + 1
         /\ \A i \in 1..Len(q) : Append(q, x)[i] = q[i]
         /\ Append(q, x)[Len(q) + 1] = x
  OBVIOUS

LEMMA TailIs ==
  ASSUME NEW S, NEW q \in Seq(S), q # <<>>
  PROVE  /\ Tail(q) \in Seq(S) /\ Len(q) \in Nat \ {0} /\ Len(Tail(q)) = Len(q) - 1
         /\ \A i \in 1..(Len(q) - 1) : Tail(q)[i] = q[i + 1]
         /\ Head(q) = q[1] /\ q[1] \in S
  OBVIOUS

-----------------------------------------------------------------------------
\* Types.

PipeType == /\ pipe \in [Streams -> Seq(Kinds)]
            /\ \A s \in Streams : Len(pipe[s]) <= PipeCap
DrainerType == drainer \in [Streams -> [at : {"read", "send", "callback", "done"},
                                        line : Kinds \cup {"placeholder"}]]
OutType == out \in Seq(ChannelLine) /\ Len(out) <= ChannelCap

LEMMA WriteType ==
  ASSUME PipeType, NEW s \in Streams, NEW line \in Kinds, Write(s, line)
  PROVE  PipeType'
  <1>1. pipe[s] \in Seq(Kinds) /\ Len(pipe[s]) < PipeCap
        /\ pipe' = [pipe EXCEPT ![s] = Append(@, line)]
    BY DEF PipeType, Write
  <1>2. Append(pipe[s], line) \in Seq(Kinds) /\ Len(Append(pipe[s], line)) = Len(pipe[s]) + 1
        /\ Len(pipe[s]) \in Nat
    BY <1>1, AppendIs
  <1> QED
    BY <1>1, <1>2 DEF PipeType

LEMMA TakeType ==
  ASSUME PipeType, NEW s \in Streams, pipe[s] # <<>>, pipe' = [pipe EXCEPT ![s] = Tail(@)]
  PROVE  PipeType' /\ Head(pipe[s]) \in Kinds
  <1>1. pipe[s] \in Seq(Kinds)
    BY DEF PipeType
  <1>2. /\ Tail(pipe[s]) \in Seq(Kinds) /\ Len(Tail(pipe[s])) = Len(pipe[s]) - 1
        /\ Len(pipe[s]) \in Nat /\ Head(pipe[s]) \in Kinds
    BY <1>1, TailIs
  <1> QED
    BY <1>1, <1>2 DEF PipeType

LEMMA DrainerMoves ==
  ASSUME DrainerType, NEW s \in Streams, NEW at \in {"read", "send", "callback", "done"},
         NEW line \in Kinds \cup {"placeholder"}, DrainerAt(s, at, line)
  PROVE  /\ DrainerType'
         /\ drainer'[s] = [at |-> at, line |-> line]
         /\ \A t \in Streams \ {s} : drainer'[t] = drainer[t]
  BY DEF DrainerType, DrainerAt

LEMMA SendType ==
  ASSUME OutType, NEW line \in ChannelLine, Send(line), panicked \in BOOLEAN
  PROVE  OutType' /\ panicked' \in BOOLEAN
  <1>1. CASE closed
    BY <1>1 DEF OutType, Send
  <1>2. CASE ~closed
    <2>1. Append(out, line) \in Seq(ChannelLine) /\ Len(Append(out, line)) = Len(out) + 1
          /\ Len(out) \in Nat
      BY AppendIs DEF OutType
    <2> QED
      BY <1>2, <2>1 DEF OutType, Send
  <1> QED
    BY <1>1, <1>2

RunnerTypes == TypeOK /\ CodeInv

LEMMA RunnerInitTypes == Init => RunnerTypes
  <1> SUFFICES ASSUME Init PROVE RunnerTypes
    OBVIOUS
  <1>1. pipe \in [Streams -> Seq(Kinds)] /\ \A s \in Streams : Len(pipe[s]) <= PipeCap
    BY DEF Init
  <1>2. out \in Seq(ChannelLine) /\ Len(out) <= ChannelCap
    BY DEF Init
  <1>3. printed \in 0..Len(Program) /\ childLeft \in 0..ChildLines
    BY DEF Init
  <1>4. drainer \in [Streams -> [at : {"read", "send", "callback", "done"},
                               line : Kinds \cup {"placeholder"}]]
    BY DEF Init
  <1>5. TypeOK
    BY <1>1, <1>2, <1>3, <1>4 DEF Init, TypeOK, SupLabels
  <1> QED
    BY <1>5 DEF Init, RunnerTypes, CodeInv, Exited

\* What a step that leaves some of the state alone keeps of the types.
LEMMA TypesOf ==
  ASSUME TypeOK
  PROVE  PipeType /\ DrainerType /\ OutType /\ panicked \in BOOLEAN
  BY DEF TypeOK, PipeType, DrainerType, OutType

\* The processes move, supervise may go on to a label before the exit.
LEMMA DyingTypes ==
  ASSUME RunnerTypes, NEW dead, Dies(dead), UNCHANGED <<pipes, drainer, inside, captured, channel, abandoned, cancelled>>,
         termed' \in BOOLEAN, sentErr' \in BOOLEAN, failed' \in BOOLEAN,
         sup' \in SupLabels, sup' \in Exited => sup \in Exited
  PROVE  RunnerTypes'
  <1>3. TypeOK /\ PipeType /\ DrainerType /\ OutType
    BY TypesOf DEF RunnerTypes
  <1>4. PipeType' /\ DrainerType' /\ OutType'
    BY <1>3 DEF PipeType, DrainerType, OutType
  <1>5. /\ alive' \subseteq Processes /\ code' \in {NoCode, 0, 1}
        /\ stubborn' \subseteq Processes
        /\ printed' \in 0..Len(Program) /\ childLeft' \in 0..ChildLines
    BY <1>3 DEF TypeOK, Dies
  <1>1. TypeOK'
    BY <1>3, <1>4, <1>5 DEF TypeOK, PipeType, DrainerType, OutType
  <1>2. CodeInv'
    BY DEF RunnerTypes, TypeOK, CodeInv, Dies
  <1> QED
    BY <1>1, <1>2 DEF RunnerTypes

\* Supervise goes on, the rest of the state as it was or of its type.
LEMMA SupervisingTypes ==
  ASSUME RunnerTypes, UNCHANGED <<tree, pipe, ctx, drainer, inside, captured, got>>,
         pipeClosed' \in BOOLEAN, sentErr' \in BOOLEAN, failed' \in BOOLEAN, abandoned' \in BOOLEAN,
         closed' \in BOOLEAN, OutType', panicked' \in BOOLEAN,
         sup' \in SupLabels, sup' \in Exited => sup \in Exited \/ "script" \notin alive
  PROVE  RunnerTypes'
  <1>1. TypeOK'
    BY DEF RunnerTypes, TypeOK, OutType
  <1>2. CodeInv'
    BY DEF RunnerTypes, CodeInv
  <1> QED
    BY <1>1, <1>2 DEF RunnerTypes

\* A drainer, its callback or a writer moves.
LEMMA DrainingTypes ==
  ASSUME RunnerTypes, UNCHANGED <<alive, stubborn, code, pipeClosed, ctx, failed, sup, abandoned, closed, got>>,
         PipeType', DrainerType', OutType', panicked' \in BOOLEAN,
         inside' \in BOOLEAN, captured' \in BOOLEAN, sentErr' \in BOOLEAN,
         printed' \in 0..Len(Program), childLeft' \in 0..ChildLines
  PROVE  RunnerTypes'
  <1>1. TypeOK'
    BY DEF RunnerTypes, TypeOK, OutType, PipeType, DrainerType
  <1>2. CodeInv'
    BY DEF RunnerTypes, CodeInv
  <1> QED
    BY <1>1, <1>2 DEF RunnerTypes

\* An exit record has a status.
LEMMA ExitLine ==
  ASSUME RunnerTypes, sup = "exit"
  PROVE  [stream |-> "exit", code |-> ExitCode] \in ChannelLine
  BY DEF RunnerTypes, TypeOK, CodeInv, ExitCode, ChannelLine, Exited

LEMMA OtherLine ==
  ASSUME NEW s \in Streams, NEW kind \in Kinds \cup {"placeholder", "error"}
  PROVE  [stream |-> s, kind |-> kind] \in ChannelLine
  BY DEF ChannelLine

LEMMA RunnerNextTypes == RunnerTypes /\ [Next]_vars => RunnerTypes'
  <1> SUFFICES ASSUME RunnerTypes, [Next]_vars PROVE RunnerTypes'
    OBVIOUS
  <1> USE DEF SupLabels, Exited
  <1>t. TypeOK /\ PipeType /\ DrainerType /\ OutType /\ panicked \in BOOLEAN
    BY TypesOf DEF RunnerTypes
  <1>k. /\ UNCHANGED pipe => PipeType'
        /\ UNCHANGED drainer => DrainerType'
        /\ UNCHANGED out => OutType'
    BY <1>t DEF PipeType, DrainerType, OutType
  <1>1. CASE ScriptPrints
    <2>1. Program[printed + 1] \in Kinds /\ printed + 1 \in 0..Len(Program)
      BY <1>1, <1>t DEF ScriptPrints, TypeOK
    <2>2. PipeType'
      BY <1>1, <1>t, <2>1, WriteType DEF ScriptPrints
    <2> QED
      BY <1>1, <1>t, <1>k, <2>1, <2>2, DrainingTypes DEF ScriptPrints, TypeOK
  <1>2. CASE ChildPrints
    <2>1. PipeType'
      BY <1>2, <1>t, WriteType DEF ChildPrints
    <2> QED
      BY <1>2, <1>t, <1>k, <2>1, DrainingTypes DEF ChildPrints, TypeOK
  <1>3. CASE ScriptExits
    BY <1>3 DEF ScriptExits, RunnerTypes, TypeOK, CodeInv
  <1>4. CASE ChildExits
    BY <1>4, <1>t, DyingTypes DEF ChildExits, TypeOK
  <1>5. CASE Cancel
    BY <1>5 DEF Cancel, RunnerTypes, TypeOK, CodeInv
  <1>6. CASE SigTerm
    BY <1>6, <1>t, DyingTypes DEF SigTerm, TypeOK
  <1>7. CASE WaitDelayKill
    BY <1>7, <1>t, DyingTypes DEF WaitDelayKill, TypeOK
  <1>8. CASE Consume
    <2>1. out \in Seq(ChannelLine) /\ out # <<>> /\ out' = Tail(out)
      BY <1>8, <1>t DEF Consume, OutType
    <2>2. out' \in Seq(ChannelLine) /\ Len(out') <= Len(out) /\ Head(out) \in ChannelLine
          /\ Len(out) \in Nat /\ Len(out') \in Nat
      BY <2>1, TailIs
    <2>3. OutType'
      BY <1>t, <2>2 DEF OutType
    <2>4. got' \in [exit : {NoCode, 0, 1, 130}, late : BOOLEAN, leaked : BOOLEAN]
      BY <1>8, <1>t, <2>2 DEF Consume, TypeOK, ChannelLine
    <2> QED
      BY <1>8, <2>3, <2>4 DEF Consume, RunnerTypes, TypeOK, CodeInv, OutType
  <1>9. CASE CallbackAccepts
    <2>1. DrainerType'
      BY <1>9, <1>t, DrainerMoves DEF CallbackAccepts
    <2> QED
      BY <1>9, <1>t, <1>k, <2>1, DrainingTypes DEF CallbackAccepts, TypeOK
  <1>10. CASE CallbackFails
    <2>1. DrainerType'
      BY <1>10, <1>t, DrainerMoves DEF CallbackFails
    <2> QED
      BY <1>10, <1>t, <1>k, <2>1, DrainingTypes DEF CallbackFails, Signal, TypeOK
  <1>11. ASSUME NEW s \in Streams, ReadLine(s) PROVE RunnerTypes'
    <2>1. PipeType' /\ Head(pipe[s]) \in Kinds
      BY <1>11, <1>t, TakeType DEF ReadLine
    <2>2. DrainerType' /\ inside' \in BOOLEAN
      <3>1. ASSUME UNCHANGED drainer PROVE DrainerType'
        BY <1>k, <3>1
      <3>2. ASSUME DrainerAt(s, "callback", "placeholder") PROVE DrainerType'
        BY <1>t, <3>2, DrainerMoves
      <3>3. ASSUME DrainerAt(s, "send", Head(pipe[s])) PROVE DrainerType'
        BY <1>t, <2>1, <3>3, DrainerMoves
      <3>4. inside' \in BOOLEAN
        BY <1>11, <1>t DEF ReadLine, TypeOK
      <3> QED
        BY <1>11, <3>1, <3>2, <3>3, <3>4 DEF ReadLine
    <2> QED
      BY <1>11, <1>t, <1>k, <2>1, <2>2, DrainingTypes DEF ReadLine, TypeOK
  <1>12. ASSUME NEW s \in Streams, SendLine(s) PROVE RunnerTypes'
    <2>1. [stream |-> s, kind |-> drainer[s].line] \in ChannelLine
      BY <1>t, OtherLine DEF DrainerType
    <2>2. OutType' /\ panicked' \in BOOLEAN
      BY <1>12, <1>t, <2>1, SendType DEF SendLine
    <2>3. DrainerType'
      BY <1>12, <1>t, DrainerMoves DEF SendLine
    <2> QED
      BY <1>12, <1>t, <1>k, <2>2, <2>3, DrainingTypes DEF SendLine, TypeOK
  <1>13. ASSUME NEW s \in Streams, EndOfFile(s) \/ ScanFails(s) PROVE RunnerTypes'
    <2>1. DrainerType'
      BY <1>13, <1>t, DrainerMoves DEF EndOfFile, ScanFails
    <2>2. sentErr' \in BOOLEAN
      BY <1>13, <1>t DEF EndOfFile, ScanFails, Signal, TypeOK
    <2> QED
      BY <1>13, <1>t, <1>k, <2>1, <2>2, DrainingTypes DEF EndOfFile, ScanFails, TypeOK
  <1>14. CASE SelectSentinel
    BY <1>14, <1>t, DyingTypes DEF SelectSentinel, Supervise, TypeOK
  <1>15. CASE KillProcessGroup
    BY <1>15, <1>t, DyingTypes DEF KillProcessGroup, Supervise, TypeOK
  <1>16. CASE KilledDrained \/ SelectDrained \/ SelectCancelled \/ GraceDrained \/ Abandon
    BY <1>16, <1>t, <1>k, SupervisingTypes
       DEF KilledDrained, SelectDrained, SelectCancelled, GraceDrained, Abandon, Supervise, TypeOK
  <1>17. CASE Wait \/ Settle \/ Close
    BY <1>17, <1>t, <1>k, SupervisingTypes DEF Wait, Settle, Close, Supervise, TypeOK
  <1>18. CASE SendNotice \/ SendError
    <2>1. [stream |-> "stderr", kind |-> "error"] \in ChannelLine
      BY OtherLine
    <2>2. OutType' /\ panicked' \in BOOLEAN
      BY <1>18, <1>t, <2>1, SendType DEF SendNotice, SendError
    <2> QED
      BY <1>18, <1>t, <1>k, <2>2, SupervisingTypes DEF SendNotice, SendError, Supervise, TypeOK
  <1>19. CASE SendExit
    <2>1. [stream |-> "exit", code |-> ExitCode] \in ChannelLine
      BY <1>19, ExitLine DEF SendExit, Supervise
    <2>2. OutType' /\ panicked' \in BOOLEAN
      BY <1>19, <1>t, <2>1, SendType DEF SendExit
    <2> QED
      BY <1>19, <1>t, <1>k, <2>2, SupervisingTypes DEF SendExit, Supervise, TypeOK
  <1>20. CASE UNCHANGED vars
    BY <1>20 DEF vars, RunnerTypes, TypeOK, CodeInv
  <1> QED
    BY <1>1, <1>2, <1>3, <1>4, <1>5, <1>6, <1>7, <1>8, <1>9, <1>10, <1>11, <1>12, <1>13,
       <1>14, <1>15, <1>16, <1>17, <1>18, <1>19, <1>20
       DEF Next, Tree, Watcher, Drainer, Callback, Supervisor

-----------------------------------------------------------------------------
\* The exit record is the last line.

NoExitIn(q) == \A i \in 1..Len(q) : q[i].stream # "exit"
ExitLast(q) == \A i \in 1..Len(q) : q[i].stream = "exit" => i = Len(q)

\* Supervise alone sends the exit record, and closes, when the drainers are done or
\* it has gone on without them; a run that did not abandon them is then silent.
FinalInv ==
  /\ closed => sup = "done"
  /\ sup = "notice" => abandoned
  /\ sup \in {"wait"} \cup Exited => abandoned \/ DrainersDone
  /\ sup \notin {"close", "done"} => got.exit = NoCode /\ NoExitIn(out)
  /\ ~abandoned => /\ ~got.late /\ ~panicked /\ ExitLast(out)
                   /\ got.exit # NoCode => out = <<>>

LEMMA AppendExit ==
  ASSUME out \in Seq(ChannelLine), NEW line \in ChannelLine, out' = Append(out, line), NoExitIn(out)
  PROVE  ExitLast(out') /\ (line.stream # "exit" => NoExitIn(out'))
  <1>1. /\ Len(out) \in Nat /\ Len(out') = Len(out) + 1 /\ out'[Len(out) + 1] = line
        /\ \A i \in 1..Len(out) : out'[i] = out[i]
    BY AppendIs
  <1> QED
    BY <1>1 DEF NoExitIn, ExitLast

LEMMA TakeExit ==
  ASSUME out \in Seq(ChannelLine), out # <<>>, out' = Tail(out)
  PROVE  /\ NoExitIn(out) => NoExitIn(out') /\ Head(out).stream # "exit"
         /\ ExitLast(out) => ExitLast(out')
         /\ ExitLast(out) /\ Head(out).stream = "exit" => out' = <<>>
  <1>1. /\ out' \in Seq(ChannelLine) /\ Len(out) \in Nat \ {0} /\ Len(out') = Len(out) - 1
        /\ \A i \in 1..(Len(out) - 1) : out'[i] = out[i + 1]
        /\ Head(out) = out[1]
    BY TailIs
  <1>2. NoExitIn(out) => NoExitIn(out') /\ Head(out).stream # "exit"
    BY <1>1 DEF NoExitIn
  <1>3. ASSUME ExitLast(out) PROVE ExitLast(out')
    <2>1. ASSUME NEW i \in 1..Len(out'), out'[i].stream = "exit" PROVE i = Len(out')
      <3>1. i + 1 \in 1..Len(out) /\ out[i + 1].stream = "exit"
        BY <1>1, <2>1
      <3>2. i + 1 = Len(out)
        BY <1>3, <3>1 DEF ExitLast
      <3>3. i \in Int /\ Len(out) \in Int /\ Len(out') = Len(out) - 1
        BY <1>1, <2>1
      <3> QED
        BY <3>2, <3>3
    <2> QED
      BY <2>1 DEF ExitLast
  <1>4. ASSUME ExitLast(out), Head(out).stream = "exit" PROVE Len(out') = 0
    <2>1. 1 \in 1..Len(out) /\ out[1].stream = "exit"
      BY <1>1, <1>4
    <2>2. 1 = Len(out)
      BY <1>4, <2>1 DEF ExitLast
    <2> QED
      BY <1>1, <2>2
  <1>5. Len(out') = 0 => out' = <<>>
    BY <1>1
  <1> QED
    BY <1>2, <1>3, <1>4, <1>5

\* Nothing is sent: supervise goes on, or nobody it still waits for moves.
LEMMA SilentFinal ==
  ASSUME FinalInv, UNCHANGED <<out, panicked, got>>,
         UNCHANGED closed \/ (sup' = "done"),
         abandoned => abandoned', sup' = "notice" => abandoned',
         sup' \in {"wait"} \cup Exited => abandoned' \/ DrainersDone',
         sup' \in {"close", "done"} \/ sup \notin {"close", "done"},
         UNCHANGED closed => (closed => sup' = "done")
  PROVE  FinalInv'
  BY DEF FinalInv, NoExitIn, ExitLast

\* A line that is no exit record is sent.
LEMMA SendingFinal ==
  ASSUME FinalInv, OutType, NEW line \in ChannelLine, line.stream # "exit", Send(line),
         UNCHANGED <<closed, abandoned, got>>, abandoned \/ sup \notin {"wait"} \cup Exited,
         sup' = sup \/ (sup = "notice" /\ sup' = "wait")
  PROVE  FinalInv'
  <1>1. CASE closed
    BY <1>1 DEF FinalInv, Send, Exited
  <1>2. CASE ~closed
    <2>1. out' = Append(out, line) /\ UNCHANGED panicked
      BY <1>2 DEF Send
    <2>2. NoExitIn(out) => NoExitIn(out') /\ ExitLast(out')
      BY <2>1, AppendExit DEF OutType
    <2> QED
      BY <1>2, <2>1, <2>2 DEF FinalInv, Exited
  <1> QED
    BY <1>1, <1>2

LEMMA RunnerInitFinal == Init => FinalInv
  BY DEF Init, FinalInv, NoExitIn, ExitLast, Exited

LEMMA RunnerNextFinal == RunnerTypes /\ FinalInv /\ [Next]_vars => FinalInv'
  <1> SUFFICES ASSUME RunnerTypes, FinalInv, [Next]_vars PROVE FinalInv'
    OBVIOUS
  <1> USE DEF Exited
  <1>t. TypeOK /\ DrainerType /\ OutType
    BY TypesOf DEF RunnerTypes
  <1>1. CASE Tree \/ Watcher \/ Cancel \/ UNCHANGED vars
    <2>1. UNCHANGED <<drainer, sup, abandoned, channel>>
      BY <1>1 DEF Tree, Watcher, ScriptPrints, ChildPrints, ScriptExits, ChildExits, Cancel,
                  SigTerm, WaitDelayKill, vars
    <2> QED
      BY <2>1 DEF FinalInv, DrainersDone, NoExitIn, ExitLast
  <1>2. CASE Consume
    <2>1. /\ out \in Seq(ChannelLine) /\ out # <<>> /\ out' = Tail(out)
          /\ got' = [exit |-> IF Head(out).stream = "exit" THEN Head(out).code ELSE got.exit,
                     late |-> got.late \/ got.exit # NoCode,
                     leaked |-> got.leaked \/ (Head(out).stream # "exit" /\ Head(out).kind = "secret")]
          /\ UNCHANGED <<closed, sup, abandoned, drainer, panicked>>
      BY <1>2, <1>t DEF Consume, OutType
    <2>2. /\ NoExitIn(out) => NoExitIn(out') /\ Head(out).stream # "exit"
          /\ ExitLast(out) => ExitLast(out')
          /\ ExitLast(out) /\ Head(out).stream = "exit" => out' = <<>>
      BY <2>1, TakeExit
    <2>3. got'.exit = (IF Head(out).stream = "exit" THEN Head(out).code ELSE got.exit)
          /\ got'.late = (got.late \/ got.exit # NoCode)
      BY <2>1
    <2>4. (closed => sup = "done") /\ (sup = "notice" => abandoned)
          /\ (sup \in {"wait"} \cup Exited => abandoned \/ DrainersDone)
      BY DEF FinalInv
    <2>5. sup \notin {"close", "done"} => got'.exit = NoCode /\ NoExitIn(out')
      BY <2>2, <2>3 DEF FinalInv
    <2>6. ASSUME ~abandoned
          PROVE  ~got'.late /\ ~panicked /\ ExitLast(out') /\ (got'.exit # NoCode => out' = <<>>)
      BY <2>1, <2>2, <2>3, <2>6 DEF FinalInv
    <2> QED
      BY <2>1, <2>4, <2>5, <2>6 DEF FinalInv, DrainersDone
  <1>3. CASE Callback
    <2>1. drainer["stdout"].at = "callback" /\ UNCHANGED <<sup, abandoned, channel>>
      BY <1>3 DEF Callback, CallbackAccepts, CallbackFails
    <2>2. sup \in {"wait"} \cup Exited => abandoned
      BY <2>1 DEF FinalInv, DrainersDone
    <2> QED
      BY <2>1, <2>2, SilentFinal DEF FinalInv
  <1>4. ASSUME NEW s \in Streams, ReadLine(s) \/ EndOfFile(s) \/ ScanFails(s) PROVE FinalInv'
    <2>1. drainer[s].at = "read" /\ UNCHANGED <<sup, abandoned, channel>>
      BY <1>4 DEF ReadLine, EndOfFile, ScanFails
    <2>2. sup \in {"wait"} \cup Exited => abandoned
      BY <2>1 DEF FinalInv, DrainersDone
    <2> QED
      BY <2>1, <2>2, SilentFinal DEF FinalInv
  <1>5. ASSUME NEW s \in Streams, SendLine(s) PROVE FinalInv'
    <2>1. drainer[s].at = "send"
      BY <1>5 DEF SendLine
    <2>2. sup \in {"wait"} \cup Exited => abandoned
      BY <2>1 DEF FinalInv, DrainersDone
    <2>3. [stream |-> s, kind |-> drainer[s].line] \in ChannelLine
      BY <1>t, OtherLine DEF DrainerType
    <2> QED
      BY <1>5, <1>t, <2>2, <2>3, SendingFinal DEF SendLine
  <1>6. CASE SelectSentinel \/ KillProcessGroup \/ SelectCancelled \/ Abandon
    BY <1>6, SilentFinal
       DEF SelectSentinel, KillProcessGroup, SelectCancelled, Abandon, Supervise, FinalInv
  <1>7. CASE KilledDrained \/ SelectDrained \/ GraceDrained
    <2>1. DrainersDone /\ UNCHANGED <<drainer, abandoned, channel>> /\ sup' = "wait"
          /\ sup \in {"killed", "select", "grace", "grace2"}
      BY <1>7 DEF KilledDrained, SelectDrained, GraceDrained, Supervise
    <2> QED
      BY <2>1, SilentFinal DEF FinalInv, DrainersDone
  <1>8. CASE Wait \/ Settle \/ Close
    <2>1. UNCHANGED <<drainer, abandoned, out, panicked, got>>
          /\ sup \in {"wait", "settle", "close"} /\ sup' \in Exited
          /\ (sup' \in {"close", "done"} \/ sup \notin {"close", "done"})
          /\ (UNCHANGED closed \/ sup' = "done")
      BY <1>8 DEF Wait, Settle, Close, Supervise
    <2> QED
      BY <2>1, SilentFinal DEF FinalInv, DrainersDone
  <1>9. CASE SendNotice
    <2>1. [stream |-> "stderr", kind |-> "error"] \in ChannelLine
      BY OtherLine
    <2> QED
      BY <1>9, <1>t, <2>1, SendingFinal DEF SendNotice, Supervise, FinalInv
  <1>10. CASE SendError
    <2>1. [stream |-> "stderr", kind |-> "error"] \in ChannelLine
      BY OtherLine
    <2>2. ~closed /\ sup = "report" /\ sup' = "exit"
      BY <1>10 DEF SendError, Supervise, FinalInv
    <2>3. out' = Append(out, [stream |-> "stderr", kind |-> "error"])
          /\ UNCHANGED <<panicked, closed, got, abandoned, drainer>>
      BY <1>10, <2>2 DEF SendError, Send
    <2>4. NoExitIn(out') /\ ExitLast(out')
      BY <1>t, <2>1, <2>2, <2>3, AppendExit DEF FinalInv, OutType
    <2> QED
      BY <2>2, <2>3, <2>4 DEF FinalInv, DrainersDone
  <1>11. CASE SendExit
    <2>1. [stream |-> "exit", code |-> ExitCode] \in ChannelLine
      BY <1>11, ExitLine DEF SendExit, Supervise
    <2>2. ~closed /\ sup = "exit" /\ sup' = "close"
      BY <1>11 DEF SendExit, Supervise, FinalInv
    <2>3. out' = Append(out, [stream |-> "exit", code |-> ExitCode])
          /\ UNCHANGED <<panicked, closed, got, abandoned, drainer>>
      BY <1>11, <2>2 DEF SendExit, Send
    <2>4. ExitLast(out') /\ got.exit = NoCode
      BY <1>t, <2>1, <2>2, <2>3, AppendExit DEF FinalInv, OutType
    <2> QED
      BY <2>2, <2>3, <2>4 DEF FinalInv, DrainersDone
  <1> QED
    BY <1>1, <1>2, <1>3, <1>4, <1>5, <1>6, <1>7, <1>8, <1>9, <1>10, <1>11
       DEF Next, Drainer, Supervisor

-----------------------------------------------------------------------------
\* No payload line on the channel.

\* Line n of the program is followed by lines inside a block.
InBlock(n) == \E j \in 1..n : Program[j] = "begin" /\ \A l \in j..n : Program[l] # "end"

\* The script prints payload lines only between the markers of its kind.
PayloadFramed == \A n \in 1..Len(Program) : Program[n] = "secret" => HasSentinel /\ InBlock(n - 1)

\* The stdout drainer is inside a block when it has read k lines of its pipe q.
OpenAt(q, in, k) == \/ in /\ \A j \in 1..k : q[j] # "end"
                    \/ \E j \in 1..k : q[j] = "begin" /\ \A l \in j..k : q[l] # "end"

\* With n lines printed, a payload line in the pipe will meet the drainer inside a
\* block, whatever the children print between the script's lines.
FramedPipe(q, in, n) ==
  /\ \A k \in 1..Len(q) : q[k] = "secret" => HasSentinel /\ OpenAt(q, in, k - 1)
  /\ HasSentinel /\ InBlock(n) => OpenAt(q, in, Len(q))

NoSecretIn(q) == \A i \in 1..Len(q) : q[i].stream # "exit" => q[i].kind # "secret"

SecretInv ==
  /\ FramedPipe(pipe["stdout"], inside, printed)
  /\ \A i \in 1..Len(pipe["stderr"]) : pipe["stderr"][i] = "plain"
  /\ \A s \in Streams : drainer[s].line # "secret"
  /\ NoSecretIn(out) /\ ~got.leaked

\* A line goes into the stdout pipe.
LEMMA AppendOpen ==
  ASSUME NEW q \in Seq(Kinds), NEW in \in BOOLEAN, NEW x \in Kinds, NEW r, r = Append(q, x)
  PROVE  /\ \A k \in 0..Len(q) : OpenAt(q, in, k) => OpenAt(r, in, k)
         /\ OpenAt(q, in, Len(q)) /\ x # "end" => OpenAt(r, in, Len(r))
         /\ x = "begin" => OpenAt(r, in, Len(r))
  <1>1. /\ Len(q) \in Nat /\ Len(r) = Len(q) + 1 /\ r[Len(r)] = x
        /\ \A i \in 1..Len(q) : r[i] = q[i]
    BY AppendIs
  <1>2. ASSUME NEW k \in 0..Len(q), OpenAt(q, in, k) PROVE OpenAt(r, in, k)
    <2>1. \A j \in 1..k : r[j] = q[j] /\ \A l \in j..k : r[l] = q[l]
      BY <1>1
    <2> QED
      BY <1>2, <2>1 DEF OpenAt
  <1>3. ASSUME OpenAt(q, in, Len(q)), x # "end" PROVE OpenAt(r, in, Len(r))
    <2>1. CASE in /\ \A j \in 1..Len(q) : q[j] # "end"
      <3>1. \A j \in 1..Len(r) : r[j] # "end"
        BY <1>1, <1>3, <2>1
      <3> QED
        BY <2>1, <3>1 DEF OpenAt
    <2>2. CASE \E j \in 1..Len(q) : q[j] = "begin" /\ \A l \in j..Len(q) : q[l] # "end"
      <3>1. PICK j \in 1..Len(q) : q[j] = "begin" /\ \A l \in j..Len(q) : q[l] # "end"
        BY <2>2
      <3>2. j \in 1..Len(r) /\ r[j] = "begin" /\ \A l \in j..Len(r) : r[l] # "end"
        BY <1>1, <1>3, <3>1
      <3> QED
        BY <3>2 DEF OpenAt
    <2> QED
      BY <1>3, <2>1, <2>2 DEF OpenAt
  <1>4. ASSUME x = "begin" PROVE OpenAt(r, in, Len(r))
    <2>1. Len(r) \in 1..Len(r) /\ \A l \in Len(r)..Len(r) : l = Len(r)
      BY <1>1
    <2> QED
      BY <1>1, <1>4, <2>1 DEF OpenAt
  <1> QED
    BY <1>2, <1>3, <1>4

\* The drainer reads a line of the stdout pipe.
LEMMA TakeOpen ==
  ASSUME NEW q \in Seq(Kinds), q # <<>>, NEW in \in BOOLEAN, NEW out1 \in BOOLEAN, NEW r, r = Tail(q),
         (in \/ Head(q) = "begin") /\ Head(q) # "end" => out1
  PROVE  \A k \in 0..Len(r) : OpenAt(q, in, k + 1) => OpenAt(r, out1, k)
  <1>1. /\ Len(q) \in Nat \ {0} /\ Len(r) = Len(q) - 1 /\ Head(q) = q[1]
        /\ \A i \in 1..Len(r) : r[i] = q[i + 1]
    BY TailIs
  <1>2. SUFFICES ASSUME NEW k \in 0..Len(r), OpenAt(q, in, k + 1) PROVE OpenAt(r, out1, k)
    OBVIOUS
  <1>3. \A i \in 1..k : r[i] = q[i + 1]
    BY <1>1, <1>2
  <1>4. CASE in /\ \A j \in 1..(k + 1) : q[j] # "end"
    <2>1. q[1] # "end" /\ \A i \in 1..k : q[i + 1] # "end"
      BY <1>2, <1>4
    <2> QED
      BY <1>1, <1>3, <1>4, <2>1 DEF OpenAt
  <1>5. CASE \E j \in 1..(k + 1) : q[j] = "begin" /\ \A l \in j..(k + 1) : q[l] # "end"
    <2>1. PICK j \in 1..(k + 1) : q[j] = "begin" /\ \A l \in j..(k + 1) : q[l] # "end"
      BY <1>5
    <2>2. CASE j = 1
      <3>1. \A i \in 1..k : q[i + 1] # "end"
        BY <1>2, <2>1, <2>2
      <3> QED
        BY <1>1, <1>3, <2>1, <2>2, <3>1 DEF OpenAt
    <2>3. CASE j # 1
      <3>1. j - 1 \in 1..k /\ r[j - 1] = "begin"
        BY <1>2, <1>3, <2>1, <2>3
      <3>2. ASSUME NEW l \in (j - 1)..k PROVE r[l] # "end"
        <4>1. l + 1 \in j..(k + 1) /\ l \in 1..k
          BY <2>1, <3>1, <3>2
        <4> QED
          BY <1>3, <2>1, <4>1
      <3> QED
        BY <3>1, <3>2 DEF OpenAt
    <2> QED
      BY <2>2, <2>3
  <1> QED
    BY <1>2, <1>4, <1>5 DEF OpenAt

LEMMA FramedAfterWrite ==
  ASSUME PipeType, inside \in BOOLEAN, FramedPipe(pipe["stdout"], inside, printed), NEW n,
         NEW x \in Kinds, Write("stdout", x),
         x = "secret" => HasSentinel /\ InBlock(printed),
         InBlock(n) => x = "begin" \/ (InBlock(printed) /\ x # "end")
  PROVE  FramedPipe(pipe'["stdout"], inside, n)
  <1> DEFINE q == pipe["stdout"]
             r == pipe'["stdout"]
  <1>1. q \in Seq(Kinds) /\ r = Append(q, x)
    BY DEF PipeType, Write
  <1>2. /\ Len(q) \in Nat /\ Len(r) = Len(q) + 1 /\ r[Len(r)] = x
        /\ \A i \in 1..Len(q) : r[i] = q[i]
    BY <1>1, AppendIs
  <1>3. /\ \A k \in 0..Len(q) : OpenAt(q, inside, k) => OpenAt(r, inside, k)
        /\ OpenAt(q, inside, Len(q)) /\ x # "end" => OpenAt(r, inside, Len(r))
        /\ x = "begin" => OpenAt(r, inside, Len(r))
    BY <1>1, AppendOpen
  <1>4. ASSUME NEW k \in 1..Len(r), r[k] = "secret"
        PROVE  HasSentinel /\ OpenAt(r, inside, k - 1)
    <2>1. CASE k = Len(r)
      <3>1. HasSentinel /\ OpenAt(q, inside, Len(q))
        BY <1>2, <1>4, <2>1 DEF FramedPipe
      <3>2. k - 1 = Len(q) /\ Len(q) \in 0..Len(q)
        BY <1>2, <2>1
      <3> QED
        BY <1>3, <3>1, <3>2
    <2>2. CASE k # Len(r)
      <3>1. k \in 1..Len(q) /\ q[k] = "secret" /\ k - 1 \in 0..Len(q)
        BY <1>2, <1>4, <2>2
      <3>2. HasSentinel /\ OpenAt(q, inside, k - 1)
        BY <3>1 DEF FramedPipe
      <3> QED
        BY <1>3, <3>1, <3>2
    <2> QED
      BY <2>1, <2>2
  <1>5. HasSentinel /\ InBlock(n) => OpenAt(r, inside, Len(r))
    BY <1>3 DEF FramedPipe
  <1> QED
    BY <1>4, <1>5 DEF FramedPipe

LEMMA FramedAfterRead ==
  ASSUME PipeType, DrainerType, inside \in BOOLEAN,
         FramedPipe(pipe["stdout"], inside, printed), ReadLine("stdout")
  PROVE  /\ FramedPipe(pipe'["stdout"], inside', printed)
         /\ drainer'["stdout"] # drainer["stdout"] => drainer'["stdout"].line # "secret"
  <1> DEFINE q == pipe["stdout"]
             r == pipe'["stdout"]
  <1>1. q \in Seq(Kinds) /\ q # <<>> /\ r = Tail(q)
    BY DEF PipeType, ReadLine
  <1>2. /\ Len(q) \in Nat \ {0} /\ Len(r) = Len(q) - 1 /\ Head(q) = q[1]
        /\ \A i \in 1..Len(r) : r[i] = q[i + 1]
    BY <1>1, TailIs
  <1>3. inside' \in BOOLEAN
    BY DEF ReadLine
  <1>4. ASSUME HasSentinel PROVE FramedPipe(r, inside', printed)
    <2>1. (inside \/ Head(q) = "begin") /\ Head(q) # "end" => inside'
      BY <1>4 DEF ReadLine, Watched
    <2>2. \A k \in 0..Len(r) : OpenAt(q, inside, k + 1) => OpenAt(r, inside', k)
      <3> HIDE DEF q, r, Kinds
      <3>1. q \in Seq(Kinds)
        BY <1>1
      <3>2. q # <<>>
        BY <1>1
      <3>3. r = Tail(q)
        BY <1>1
      <3> QED
        BY ONLY <1>3, <2>1, <3>1, <3>2, <3>3, inside \in BOOLEAN, TakeOpen, ZenonT(60)
    <2>3. ASSUME NEW k \in 1..Len(r), r[k] = "secret"
          PROVE  HasSentinel /\ OpenAt(r, inside', k - 1)
      <3>1. k + 1 \in 1..Len(q) /\ q[k + 1] = "secret" /\ (k + 1) - 1 = (k - 1) + 1
            /\ k - 1 \in 0..Len(r)
        BY <1>2, <2>3
      <3>2. OpenAt(q, inside, (k + 1) - 1)
        BY <3>1 DEF FramedPipe
      <3>3. OpenAt(q, inside, (k - 1) + 1)
        BY <3>1, <3>2
      <3> QED
        BY <1>4, <2>2, <3>1, <3>3
    <2>4. ASSUME HasSentinel, InBlock(printed) PROVE OpenAt(r, inside', Len(r))
      <3>1. OpenAt(q, inside, Len(q)) /\ Len(q) = Len(r) + 1 /\ Len(r) \in 0..Len(r)
        BY <1>2, <1>4, <2>4 DEF FramedPipe
      <3>2. OpenAt(q, inside, Len(r) + 1)
        BY <3>1
      <3> QED
        BY <2>2, <3>1, <3>2
    <2> QED
      BY <2>3, <2>4 DEF FramedPipe
  <1>5. ASSUME ~HasSentinel PROVE FramedPipe(r, inside', printed)
    <2>1. ASSUME NEW k \in 1..Len(r), r[k] = "secret"
          PROVE  HasSentinel /\ OpenAt(r, inside', k - 1)
      <3>1. k + 1 \in 1..Len(q) /\ q[k + 1] = "secret"
        BY <1>2, <2>1
      <3> QED
        BY <1>5, <3>1 DEF FramedPipe
    <2>2. ASSUME HasSentinel, InBlock(printed) PROVE OpenAt(r, inside', Len(r))
      BY <1>5, <2>2
    <2> QED
      BY <2>1, <2>2 DEF FramedPipe
  <1>6. Head(q) = "secret" => HasSentinel /\ inside
    <2>1. ASSUME Head(q) = "secret" PROVE HasSentinel /\ OpenAt(q, inside, 0)
      <3>1. 1 \in 1..Len(q) /\ q[1] = "secret" /\ 1 - 1 = 0
        BY <1>2, <2>1
      <3> QED
        BY <3>1 DEF FramedPipe
    <2>2. OpenAt(q, inside, 0) => inside
      BY DEF OpenAt
    <2> QED
      BY <2>1, <2>2
  <1>7. \/ UNCHANGED drainer
        \/ DrainerAt("stdout", "callback", "placeholder")
        \/ DrainerAt("stdout", "send", Head(q)) /\ ~(HasSentinel /\ inside)
    BY DEF ReadLine, Watched
  <1>8. drainer'["stdout"] # drainer["stdout"] => drainer'["stdout"].line # "secret"
    <2>1. DrainerAt("stdout", "callback", "placeholder") => drainer'["stdout"].line = "placeholder"
      BY DEF DrainerType, DrainerAt
    <2>2. DrainerAt("stdout", "send", Head(q)) => drainer'["stdout"].line = Head(q)
      BY DEF DrainerType, DrainerAt
    <2> QED
      BY <1>6, <1>7, <2>1, <2>2
  <1> QED
    BY <1>4, <1>5, <1>8

\* A step that neither prints nor reads, and puts no payload line in a hand or on
\* the channel.
LEMMA SecretKept ==
  ASSUME SecretInv, UNCHANGED <<pipe, inside, printed, got>>,
         \A s \in Streams : drainer'[s].line # "secret", NoSecretIn(out')
  PROVE  SecretInv'
  <1>1. FramedPipe(pipe'["stdout"], inside', printed')
    BY DEF SecretInv
  <1> QED
    BY <1>1 DEF SecretInv

LEMMA SendSecret ==
  ASSUME OutType, NoSecretIn(out), NEW line \in ChannelLine, Send(line),
         line.stream # "exit" => line.kind # "secret"
  PROVE  NoSecretIn(out')
  <1>1. CASE closed
    BY <1>1 DEF Send
  <1>2. CASE ~closed
    <2>1. /\ Len(out) \in Nat /\ Len(out') = Len(out) + 1 /\ out'[Len(out) + 1] = line
          /\ \A i \in 1..Len(out) : out'[i] = out[i]
      BY <1>2, AppendIs DEF Send, OutType
    <2> QED
      BY <2>1 DEF NoSecretIn
  <1> QED
    BY <1>1, <1>2

LEMMA RunnerInitSecret == Init => SecretInv
  <1> SUFFICES ASSUME Init PROVE SecretInv
    OBVIOUS
  <1>1. /\ pipe["stdout"] = <<>> /\ pipe["stderr"] = <<>> /\ out = <<>> /\ ~got.leaked
        /\ \A s \in Streams : drainer[s].line = "plain"
        /\ printed = 0
    BY DEF Init
  <1>2. ~InBlock(0)
    BY DEF InBlock
  <1>3. FramedPipe(<<>>, inside, 0)
    BY <1>2 DEF FramedPipe
  <1> QED
    BY <1>1, <1>3 DEF SecretInv, NoSecretIn

LEMMA RunnerNextSecret ==
  ASSUME PayloadFramed, RunnerTypes, SecretInv, [Next]_vars
  PROVE  SecretInv'
  <1>t. TypeOK /\ PipeType /\ DrainerType /\ OutType /\ inside \in BOOLEAN
    BY TypesOf DEF RunnerTypes, TypeOK
  <1>s. /\ FramedPipe(pipe["stdout"], inside, printed) /\ NoSecretIn(out) /\ ~got.leaked
        /\ \A s \in Streams : drainer[s].line # "secret"
    BY DEF SecretInv
  <1>1. CASE ScriptPrints
    <2> DEFINE x == Program[printed + 1]
    <2>1. x \in Kinds /\ printed \in 0..Len(Program) /\ printed + 1 \in 1..Len(Program)
          /\ (printed + 1) - 1 = printed
      BY <1>1, <1>t DEF ScriptPrints, TypeOK
    <2>2. x = "secret" => HasSentinel /\ InBlock(printed)
      BY <2>1 DEF PayloadFramed
    <2>3. ASSUME InBlock(printed + 1) PROVE x = "begin" \/ (InBlock(printed) /\ x # "end")
      <3>1. PICK j \in 1..(printed + 1) :
              Program[j] = "begin" /\ \A l \in j..(printed + 1) : Program[l] # "end"
        BY <2>3 DEF InBlock
      <3>2. CASE j = printed + 1
        BY <3>1, <3>2
      <3>3. CASE j # printed + 1
        <4>1. j \in 1..printed /\ printed + 1 \in j..(printed + 1)
              /\ \A l \in j..printed : l \in j..(printed + 1)
          BY <2>1, <3>1, <3>3
        <4> QED
          BY <3>1, <4>1 DEF InBlock
      <3> QED
        BY <3>2, <3>3
    <2>4. FramedPipe(pipe'["stdout"], inside, printed + 1)
      BY <1>1, <1>t, <1>s, <2>1, <2>2, <2>3, FramedAfterWrite DEF ScriptPrints
    <2>5. pipe'["stderr"] = pipe["stderr"] /\ printed' = printed + 1
          /\ UNCHANGED <<inside, drainer, out, got>>
      BY <1>1, <1>t DEF ScriptPrints, Write, PipeType
    <2> QED
      BY <2>4, <2>5 DEF SecretInv
  <1>2. CASE ChildPrints
    <2>1. PICK s \in Streams : Write(s, "plain")
      BY <1>2 DEF ChildPrints
    <2>2. UNCHANGED <<inside, printed, drainer, out, got>>
      BY <1>2 DEF ChildPrints
    <2>3. CASE s = "stdout"
      <3>1. FramedPipe(pipe'["stdout"], inside, printed)
        BY <1>t, <1>s, <2>1, <2>3, FramedAfterWrite
      <3>2. pipe'["stderr"] = pipe["stderr"]
        BY <1>t, <2>1, <2>3 DEF Write, PipeType
      <3> QED
        BY <2>2, <3>1, <3>2 DEF SecretInv
    <2>4. CASE s = "stderr"
      <3>1. pipe'["stdout"] = pipe["stdout"] /\ pipe["stderr"] \in Seq(Kinds)
            /\ pipe'["stderr"] = Append(pipe["stderr"], "plain")
        BY <1>t, <2>1, <2>4 DEF Write, PipeType
      <3>2. \A i \in 1..Len(pipe'["stderr"]) : pipe'["stderr"][i] = "plain"
        BY <3>1, AppendIs DEF SecretInv
      <3> QED
        BY <2>2, <3>1, <3>2 DEF SecretInv
    <2> QED
      BY <2>3, <2>4
  <1>3. CASE ScriptExits \/ ChildExits \/ Cancel \/ Watcher \/ UNCHANGED vars
    <2>1. UNCHANGED <<pipe, inside, printed, got, drainer, out>>
      BY <1>3 DEF ScriptExits, ChildExits, Cancel, Watcher, SigTerm, WaitDelayKill, Dies, vars
    <2> QED
      BY <1>s, <2>1, SecretKept
  <1>4. CASE Consume
    <2>1. /\ out \in Seq(ChannelLine) /\ out # <<>> /\ out' = Tail(out)
          /\ got'.leaked = (got.leaked \/ (Head(out).stream # "exit" /\ Head(out).kind = "secret"))
          /\ UNCHANGED <<pipe, inside, printed, drainer>>
      BY <1>4, <1>t DEF Consume, OutType
    <2>2. /\ Len(out) \in Nat \ {0} /\ Len(out') = Len(out) - 1 /\ Head(out) = out[1]
          /\ \A i \in 1..(Len(out) - 1) : out'[i] = out[i + 1]
      BY <2>1, TailIs
    <2>3. NoSecretIn(out')
      BY <1>s, <2>2 DEF NoSecretIn
    <2>4. ~got'.leaked
      <3>1. 1 \in 1..Len(out)
        BY <2>2
      <3>2. ~(Head(out).stream # "exit" /\ Head(out).kind = "secret")
        BY <1>s, <2>2, <3>1 DEF NoSecretIn
      <3> QED
        BY <1>s, <2>1, <3>2
    <2> QED
      BY <2>1, <2>3, <2>4 DEF SecretInv
  <1>5. CASE Callback
    <2>1. UNCHANGED <<pipe, inside, printed, got, out>>
      BY <1>5 DEF Callback, CallbackAccepts, CallbackFails
    <2>2. \A s \in Streams : drainer'[s].line # "secret"
      BY <1>5, <1>t, <1>s, DrainerMoves DEF Callback, CallbackAccepts, CallbackFails
    <2> QED
      BY <1>s, <2>1, <2>2, SecretKept
  <1>6. ASSUME ReadLine("stdout") PROVE SecretInv'
    <2>1. /\ FramedPipe(pipe'["stdout"], inside', printed)
          /\ drainer'["stdout"] # drainer["stdout"] => drainer'["stdout"].line # "secret"
      BY <1>6, <1>t, <1>s, FramedAfterRead
    <2>2. UNCHANGED <<printed, out, got>> /\ pipe'["stderr"] = pipe["stderr"]
          /\ drainer'["stderr"] = drainer["stderr"]
      BY <1>6, <1>t DEF ReadLine, PipeType, DrainerType, DrainerAt
    <2> QED
      BY <1>s, <2>1, <2>2 DEF SecretInv
  <1>7. ASSUME ReadLine("stderr") PROVE SecretInv'
    <2>1. /\ pipe["stderr"] \in Seq(Kinds) /\ pipe["stderr"] # <<>>
          /\ pipe'["stderr"] = Tail(pipe["stderr"]) /\ pipe'["stdout"] = pipe["stdout"]
          /\ UNCHANGED <<printed, out, got, inside>>
          /\ DrainerAt("stderr", "send", Head(pipe["stderr"]))
      BY <1>7, <1>t DEF ReadLine, PipeType, Watched
    <2>2. /\ Len(pipe["stderr"]) \in Nat \ {0} /\ Head(pipe["stderr"]) = pipe["stderr"][1]
          /\ Len(pipe'["stderr"]) = Len(pipe["stderr"]) - 1
          /\ \A i \in 1..(Len(pipe["stderr"]) - 1) : pipe'["stderr"][i] = pipe["stderr"][i + 1]
      BY <2>1, TailIs
    <2>3. \A i \in 1..Len(pipe'["stderr"]) : pipe'["stderr"][i] = "plain"
      BY <2>2, SMTT(40) DEF SecretInv
    <2>4. Head(pipe["stderr"]) = "plain"
      BY <2>2 DEF SecretInv
    <2>5. \A s \in Streams : drainer'[s].line # "secret"
      BY <1>t, <1>s, <2>1, <2>4, DrainerMoves
    <2> QED
      BY <1>s, <2>1, <2>3, <2>5 DEF SecretInv
  <1>8. ASSUME NEW s \in Streams, SendLine(s) PROVE SecretInv'
    <2>1. [stream |-> s, kind |-> drainer[s].line] \in ChannelLine
      BY <1>t, OtherLine DEF DrainerType
    <2>2. NoSecretIn(out')
      BY <1>8, <1>t, <1>s, <2>1, SendSecret DEF SendLine
    <2>3. \A t \in Streams : drainer'[t].line # "secret"
      BY <1>8, <1>t, <1>s, DrainerMoves DEF SendLine
    <2> QED
      BY <1>8, <2>2, <2>3, SecretKept DEF SendLine
  <1>9. ASSUME NEW s \in Streams, EndOfFile(s) \/ ScanFails(s) PROVE SecretInv'
    <2>1. \A t \in Streams : drainer'[t].line # "secret"
      BY <1>9, <1>t, <1>s, DrainerMoves DEF EndOfFile, ScanFails
    <2> QED
      BY <1>9, <1>s, <2>1, SecretKept DEF EndOfFile, ScanFails
  <1>10. CASE SelectSentinel \/ KilledDrained \/ SelectDrained \/ SelectCancelled \/ GraceDrained
              \/ KillProcessGroup \/ Abandon \/ Wait \/ Settle \/ Close
    <2>1. UNCHANGED <<pipe, inside, printed, got, drainer, out>>
      BY <1>10 DEF SelectSentinel, KilledDrained, SelectDrained, SelectCancelled, GraceDrained,
                   KillProcessGroup, Abandon, Wait, Settle, Close, Dies
    <2> QED
      BY <1>s, <2>1, SecretKept
  <1>11. CASE SendNotice \/ SendError \/ SendExit
    <2>1. [stream |-> "stderr", kind |-> "error"] \in ChannelLine
      BY OtherLine
    <2>2. SendExit => [stream |-> "exit", code |-> ExitCode] \in ChannelLine
      BY ExitLine DEF SendExit, Supervise
    <2>3. NoSecretIn(out')
      BY <1>11, <1>t, <1>s, <2>1, <2>2, SendSecret DEF SendNotice, SendError, SendExit
    <2>4. UNCHANGED <<pipe, inside, printed, got, drainer>>
      BY <1>11 DEF SendNotice, SendError, SendExit
    <2> QED
      BY <1>s, <2>3, <2>4, SecretKept
  <1> QED
    BY <1>1, <1>2, <1>3, <1>4, <1>5, <1>6, <1>7, <1>8, <1>9, <1>10, <1>11
       DEF Next, Tree, Drainer, Supervisor

-----------------------------------------------------------------------------
\* No clean exit over a lost capture.

\* The stdout drainer still has the opening of a block to deal with.
Pending == \/ \E k \in 1..Len(pipe["stdout"]) : pipe["stdout"][k] = "begin"
           \/ inside
           \/ drainer["stdout"].at = "callback"
Reported == captured \/ failed \/ sentErr

\* A block that was opened is on its way, captured, or a sentinel error on record:
\* at the latest when the drainer is done, unless supervise, cancelled, gave it up.
CaptureInv ==
  /\ sup \in {"grace", "grace2", "notice"} \/ abandoned => cancelled
  /\ pipeClosed => sup \in Exited
  /\ Begun => Reported \/ Pending
  /\ HasSentinel /\ drainer["stdout"].at = "done" => alive = {} \/ sentErr \/ failed \/ abandoned
  /\ Begun /\ drainer["stdout"].at = "done" => Reported \/ abandoned
  /\ Begun /\ sup \in Exited \ {"settle"} => captured \/ failed \/ abandoned

\* A step that neither prints nor reads, of a drainer that is not done by it.
LEMMA CaptureKept ==
  ASSUME CaptureInv, UNCHANGED <<pipe["stdout"], inside, printed, drainer["stdout"]>>,
         alive' \subseteq alive, cancelled => cancelled', captured => captured',
         failed => failed', abandoned => abandoned', sentErr => sentErr' \/ failed',
         sup' \in {"grace", "grace2", "notice"} \/ abandoned' => cancelled',
         pipeClosed' => sup' \in Exited,
         sup' \in Exited \ {"settle"} =>
           \/ sup \in Exited \ {"settle"}
           \/ Begun => captured' \/ failed' \/ abandoned'
  PROVE  CaptureInv'
  BY DEF CaptureInv, Begun, Pending, Reported, Exited

LEMMA RunnerInitCapture == Init => CaptureInv
  BY DEF Init, CaptureInv, Begun, Exited

LEMMA RunnerNextCapture ==
  ASSUME RunnerTypes, FinalInv, CaptureInv, [Next]_vars
  PROVE  CaptureInv'
  <1>t. TypeOK /\ PipeType /\ DrainerType /\ pipe["stdout"] \in Seq(Kinds)
    BY TypesOf DEF RunnerTypes, PipeType
  <1>1. CASE ScriptPrints
    <2> DEFINE q == pipe["stdout"]
    <2>1. /\ pipe'["stdout"] = Append(q, Program[printed + 1]) /\ printed' = printed + 1
          /\ Program[printed + 1] \in Kinds /\ printed \in Nat
          /\ UNCHANGED <<alive, inside, captured, sentErr, drainer, failed, sup, abandoned,
                         cancelled, pipeClosed>>
          /\ "script" \in alive
      BY <1>1, <1>t DEF ScriptPrints, Write, PipeType, TypeOK
    <2>2. /\ Len(q) \in Nat /\ Len(pipe'["stdout"]) = Len(q) + 1
          /\ pipe'["stdout"][Len(q) + 1] = Program[printed + 1]
          /\ \A i \in 1..Len(q) : pipe'["stdout"][i] = q[i]
      BY <1>t, <2>1, AppendIs
    <2>3. Pending => Pending'
      BY <2>1, <2>2 DEF Pending
    <2>4. Program[printed + 1] = "begin" => Pending'
      BY <2>2 DEF Pending
    <2>5. Begun' => Begun \/ Program[printed + 1] = "begin"
      BY <2>1 DEF Begun
    <2>6. sup \notin Exited
      BY <2>1 DEF RunnerTypes, CodeInv
    <2>7. Reported' = Reported
      BY <2>1 DEF Reported
    <2>8. HasSentinel /\ drainer["stdout"].at = "done" => sentErr \/ failed \/ abandoned
      BY <2>1 DEF CaptureInv
    <2>9. Begun' => HasSentinel
      BY DEF Begun
    <2>10. Begun' /\ drainer["stdout"].at = "done" => Reported' \/ abandoned
      BY <2>7, <2>8, <2>9 DEF Reported
    <2>11. Begun' => Reported' \/ Pending'
      BY <2>3, <2>4, <2>5, <2>7 DEF CaptureInv
    <2> QED
      BY <2>1, <2>6, <2>8, <2>10, <2>11 DEF CaptureInv
  <1>2. CASE ChildPrints
    <2> DEFINE q == pipe["stdout"]
    <2>1. /\ UNCHANGED <<alive, inside, captured, sentErr, drainer, failed, sup, abandoned,
                         cancelled, pipeClosed, printed>>
          /\ pipe'["stdout"] = q \/ pipe'["stdout"] = Append(q, "plain")
      BY <1>2, <1>t DEF ChildPrints, Write, PipeType
    <2>2. Pending => Pending'
      <3>1. CASE pipe'["stdout"] = q
        BY <2>1, <3>1 DEF Pending
      <3>2. CASE pipe'["stdout"] = Append(q, "plain")
        <4>1. /\ Len(q) \in Nat /\ Len(pipe'["stdout"]) = Len(q) + 1
              /\ \A i \in 1..Len(q) : pipe'["stdout"][i] = q[i]
          BY <1>t, <3>2, AppendIs
        <4> QED
          BY <2>1, <4>1 DEF Pending
      <3> QED
        BY <2>1, <3>1, <3>2
    <2>3. Begun' = Begun /\ Reported' = Reported
      BY <2>1 DEF Begun, Reported
    <2> QED
      BY <2>1, <2>2, <2>3 DEF CaptureInv
  <1>3. CASE ScriptExits \/ ChildExits \/ Cancel \/ Watcher \/ Consume \/ UNCHANGED vars
    <2>1. /\ UNCHANGED <<pipe, inside, printed, drainer, captured, failed, abandoned, sentErr,
                         sup, pipeClosed>>
          /\ alive' \subseteq alive /\ (cancelled => cancelled')
      BY <1>3 DEF ScriptExits, ChildExits, Cancel, Watcher, SigTerm, WaitDelayKill, Dies, Consume,
                  vars
    <2> QED
      BY <2>1, CaptureKept DEF CaptureInv
  <1>4. CASE CallbackAccepts
    <2>1. /\ drainer'["stdout"].at = "send" /\ captured' = TRUE
          /\ UNCHANGED <<failed, abandoned, sentErr, sup, pipeClosed, cancelled>>
      BY <1>4, <1>t, DrainerMoves DEF CallbackAccepts
    <2> QED
      BY <2>1 DEF CaptureInv, Reported
  <1>5. CASE CallbackFails
    <2>1. /\ sentErr' = TRUE
          /\ UNCHANGED <<failed, abandoned, captured, sup, pipeClosed, cancelled, printed>>
      BY <1>5 DEF CallbackFails, Signal
    <2>2. Begun' = Begun
      BY <2>1 DEF Begun
    <2> QED
      BY <2>1, <2>2 DEF CaptureInv, Reported
  <1>6. ASSUME ReadLine("stdout") PROVE CaptureInv'
    <2> DEFINE q == pipe["stdout"]
    <2>1. /\ q # <<>> /\ pipe'["stdout"] = Tail(q) /\ drainer["stdout"].at = "read"
          /\ UNCHANGED <<alive, printed, captured, sentErr, failed, sup, abandoned, cancelled,
                         pipeClosed>>
      BY <1>6, <1>t DEF ReadLine, PipeType
    <2>2. /\ Len(q) \in Nat \ {0} /\ Head(q) = q[1] /\ Len(pipe'["stdout"]) = Len(q) - 1
          /\ \A i \in 1..(Len(q) - 1) : pipe'["stdout"][i] = q[i + 1]
      BY <1>t, <2>1, TailIs
    <2>3. ASSUME HasSentinel, inside \/ Head(q) = "begin"
          PROVE  inside' \/ drainer'["stdout"].at = "callback"
      <3>1. Watched("stdout")
        BY <2>3 DEF Watched
      <3>2. inside' \/ DrainerAt("stdout", "callback", "placeholder")
        BY <1>6, <2>3, <3>1 DEF ReadLine
      <3> QED
        BY <1>t, <3>2, DrainerMoves
    <2>4. ASSUME HasSentinel, Pending PROVE Pending'
      <3>1. CASE \E k \in 1..Len(q) : q[k] = "begin"
        <4>1. PICK k \in 1..Len(q) : q[k] = "begin"
          BY <3>1
        <4>2. CASE k = 1
          BY <2>2, <2>3, <2>4, <4>1, <4>2 DEF Pending
        <4>3. CASE k # 1
          <5>1. k - 1 \in 1..Len(pipe'["stdout"]) /\ pipe'["stdout"][k - 1] = "begin"
            BY <2>2, <4>1, <4>3
          <5> QED
            BY <5>1 DEF Pending
        <4> QED
          BY <4>2, <4>3
      <3>2. CASE inside
        BY <2>3, <2>4, <3>2 DEF Pending
      <3> QED
        BY <2>1, <2>4, <3>1, <3>2 DEF Pending
    <2>5. drainer'["stdout"].at # "done"
      <3>1. UNCHANGED drainer \/ DrainerAt("stdout", "callback", "placeholder")
            \/ DrainerAt("stdout", "send", Head(q))
        BY <1>6 DEF ReadLine
      <3>2. Head(q) \in Kinds
        BY <1>t, <2>1, TakeType, TailIs
      <3> QED
        BY <1>t, <2>1, <3>1, <3>2, DrainerMoves
    <2>6. Begun' = Begun /\ Reported' = Reported /\ (Begun => HasSentinel)
      BY <2>1 DEF Begun, Reported
    <2> QED
      BY <2>1, <2>4, <2>5, <2>6 DEF CaptureInv
  <1>7. ASSUME ReadLine("stderr") PROVE CaptureInv'
    <2>1. /\ UNCHANGED <<alive, printed, captured, sentErr, failed, sup, abandoned, cancelled,
                         pipeClosed, inside>>
          /\ pipe'["stdout"] = pipe["stdout"] /\ drainer'["stdout"] = drainer["stdout"]
      BY <1>7, <1>t DEF ReadLine, Watched, DrainerAt, PipeType, DrainerType
    <2> QED
      BY <2>1, CaptureKept DEF CaptureInv
  <1>8. ASSUME NEW s \in Streams, SendLine(s) PROVE CaptureInv'
    <2>1. /\ UNCHANGED <<alive, printed, captured, sentErr, failed, sup, abandoned, cancelled,
                         pipeClosed, inside, pipe>>
          /\ drainer[s].at = "send" /\ drainer'[s].at = "read"
          /\ \A t \in Streams \ {s} : drainer'[t] = drainer[t]
      BY <1>8, <1>t, DrainerMoves DEF SendLine
    <2>2. Begun' = Begun /\ Reported' = Reported
      BY <2>1 DEF Begun, Reported
    <2>3. Pending => Pending'
      BY <2>1 DEF Pending
    <2>4. drainer'["stdout"].at = "done" => drainer["stdout"].at = "done"
      BY <2>1
    <2> QED
      BY <2>1, <2>2, <2>3, <2>4 DEF CaptureInv
  <1>9. ASSUME ScanFails("stdout") \/ EndOfFile("stdout") PROVE CaptureInv'
    <2>1. /\ UNCHANGED <<alive, printed, captured, failed, sup, abandoned, cancelled,
                         pipeClosed, inside, pipe>>
          /\ drainer["stdout"].at = "read" /\ (sentErr => sentErr')
      BY <1>9 DEF ScanFails, EndOfFile, Signal
    <2>2. Begun' = Begun /\ (Begun => HasSentinel)
      BY <2>1 DEF Begun
    <2>3. HasSentinel => alive = {} \/ sentErr' \/ abandoned
      <3>1. CASE ScanFails("stdout")
        BY <3>1 DEF ScanFails, Watched, Signal
      <3>2. CASE EndOfFile("stdout")
        <4>1. pipeClosed \/ alive = {}
          BY <3>2 DEF EndOfFile
        <4>2. pipeClosed => abandoned
          BY <2>1 DEF CaptureInv, FinalInv, DrainersDone
        <4> QED
          BY <4>1, <4>2
      <3> QED
        BY <1>9, <3>1, <3>2
    <2>4. Begun => Reported' \/ abandoned
      <3>1. CASE ScanFails("stdout")
        BY <2>2, <3>1 DEF ScanFails, Watched, Signal, Reported
      <3>2. CASE EndOfFile("stdout")
        <4>1. pipeClosed => abandoned
          BY <2>1 DEF CaptureInv, FinalInv, DrainersDone
        <4>2. pipeClosed \/ (alive = {} /\ pipe["stdout"] = <<>>)
          BY <3>2 DEF EndOfFile
        <4>3. Begun /\ pipe["stdout"] = <<>> => Reported \/ inside
          BY <2>1 DEF CaptureInv, Pending
        <4>4. Begun /\ inside => sentErr'
          BY <2>2, <3>2 DEF EndOfFile, Watched, Signal
        <4>5. Reported => Reported'
          BY <2>1 DEF Reported
        <4> QED
          BY <4>1, <4>2, <4>3, <4>4, <4>5 DEF Reported
      <3> QED
        BY <1>9, <3>1, <3>2
    <2>5. Begun => Reported' \/ Pending'
      <3>1. Pending => Reported' \/ Pending'
        BY <2>1 DEF Pending
      <3>2. Reported => Reported'
        BY <2>1 DEF Reported
      <3> QED
        BY <3>1, <3>2 DEF CaptureInv
    <2> QED
      BY <2>1, <2>2, <2>3, <2>4, <2>5 DEF CaptureInv
  <1>10. ASSUME ScanFails("stderr") \/ EndOfFile("stderr") PROVE CaptureInv'
    <2>1. /\ UNCHANGED <<alive, printed, captured, sentErr, failed, sup, abandoned, cancelled,
                         pipeClosed, inside, pipe>>
          /\ drainer'["stdout"] = drainer["stdout"]
      BY <1>10, <1>t, DrainerMoves DEF ScanFails, EndOfFile, Watched
    <2> QED
      BY <2>1, CaptureKept DEF CaptureInv
  <1>11. CASE SelectSentinel \/ KillProcessGroup \/ SelectCancelled \/ Abandon
    <2>1. UNCHANGED <<pipe, inside, printed, drainer, captured, pipeClosed, cancelled>>
          /\ alive' \subseteq alive
      BY <1>11 DEF SelectSentinel, KillProcessGroup, SelectCancelled, Abandon, Dies
    <2>2. (failed => failed') /\ (abandoned => abandoned') /\ (sentErr => sentErr' \/ failed')
      BY <1>11 DEF SelectSentinel, KillProcessGroup, SelectCancelled, Abandon
    <2>3. sup \notin Exited /\ sup' \notin Exited
      BY <1>11 DEF SelectSentinel, KillProcessGroup, SelectCancelled, Abandon, Supervise, Exited
    <2>4. sup' \in {"grace", "grace2", "notice"} \/ abandoned' => cancelled'
      BY <1>11, <2>1 DEF SelectSentinel, KillProcessGroup, SelectCancelled, Abandon, Supervise,
                         CaptureInv
    <2> QED
      BY <2>1, <2>2, <2>3, <2>4, CaptureKept DEF CaptureInv
  <1>12. CASE KilledDrained \/ SelectDrained \/ GraceDrained \/ Wait \/ SendNotice
    <2>1. /\ UNCHANGED <<pipe, inside, printed, drainer, captured, cancelled, alive, failed,
                         abandoned, sentErr>>
          /\ sup' \in {"wait", "settle"} /\ (pipeClosed' => pipeClosed \/ sup' = "settle")
          /\ sup \notin Exited
      BY <1>12 DEF KilledDrained, SelectDrained, GraceDrained, Wait, SendNotice, Supervise, Exited
    <2> QED
      BY <2>1, CaptureKept DEF CaptureInv, Exited
  <1>13. CASE Settle
    <2>1. /\ UNCHANGED <<pipe, inside, printed, drainer, captured, cancelled, alive, pipeClosed,
                         abandoned>>
          /\ sup = "settle" /\ sup' \in {"report", "exit"}
          /\ (failed \/ sentErr => failed')
      BY <1>13 DEF Settle
    <2>2. abandoned \/ drainer["stdout"].at = "done"
      BY <2>1 DEF FinalInv, DrainersDone, Exited
    <2>3. Begun => captured' \/ failed' \/ abandoned'
      BY <2>1, <2>2 DEF CaptureInv, Reported
    <2> QED
      BY <2>1, <2>3, CaptureKept DEF CaptureInv, Exited
  <1>14. CASE SendError \/ SendExit \/ Close
    <2>1. /\ UNCHANGED <<pipe, inside, printed, drainer, captured, cancelled, alive, pipeClosed,
                         abandoned, failed, sentErr>>
          /\ sup \in Exited \ {"settle"} /\ sup' \in Exited \ {"settle"}
      BY <1>14 DEF SendError, SendExit, Close, Supervise, Exited
    <2> QED
      BY <2>1, CaptureKept DEF CaptureInv, Exited
  <1> QED
    BY <1>1, <1>2, <1>3, <1>4, <1>5, <1>6, <1>7, <1>8, <1>9, <1>10, <1>11, <1>12, <1>13, <1>14
       DEF Next, Tree, Drainer, Callback, Supervisor

-----------------------------------------------------------------------------
\* Exit 0 is sent for no lost capture, and stays true: the script is dead by then.

CleanIn(q) == \E i \in 1..Len(q) : q[i].stream = "exit" /\ q[i].code = 0
CleanInv == got.exit = 0 \/ CleanIn(out) => (Begun => captured)

\* A line goes onto the channel, or panics on the closed one.
LEMMA SendClean ==
  ASSUME TypeOK, NEW line \in ChannelLine, Send(line), CleanIn(out')
  PROVE  CleanIn(out) \/ (line.stream = "exit" /\ line.code = 0)
  <1>1. CASE closed
    BY <1>1 DEF Send
  <1>2. CASE ~closed
    <2>1. out' = Append(out, line) /\ out \in Seq(ChannelLine)
      BY <1>2 DEF Send, TypeOK
    <2>2. /\ Len(out) \in Nat /\ Len(out') = Len(out) + 1 /\ out'[Len(out) + 1] = line
          /\ \A i \in 1..Len(out) : out'[i] = out[i]
      BY <2>1, AppendIs
    <2> QED
      BY <2>2 DEF CleanIn
  <1> QED
    BY <1>1, <1>2

LEMMA RunnerInitClean == Init => CleanInv
  BY DEF Init, CleanInv, CleanIn

LEMMA RunnerNextClean ==
  ASSUME RunnerTypes, FinalInv, CaptureInv, CleanInv, [Next]_vars
  PROVE  CleanInv'
  <1>t. TypeOK
    BY DEF RunnerTypes
  <1>1. CASE ScriptPrints
    <2>1. "script" \in alive /\ UNCHANGED <<out, got>>
      BY <1>1 DEF ScriptPrints
    <2>2. got.exit = NoCode /\ NoExitIn(out)
      BY <2>1 DEF RunnerTypes, CodeInv, FinalInv, Exited
    <2> QED
      BY <2>1, <2>2 DEF CleanInv, CleanIn, NoExitIn
  <1>2. CASE Consume
    <2>1. /\ out \in Seq(ChannelLine) /\ out # <<>> /\ out' = Tail(out)
          /\ got'.exit = IF Head(out).stream = "exit" THEN Head(out).code ELSE got.exit
          /\ UNCHANGED <<printed, captured>>
      BY <1>2, <1>t DEF Consume, TypeOK
    <2>2. /\ Len(out) \in Nat \ {0} /\ Len(out') = Len(out) - 1 /\ Head(out) = out[1]
          /\ \A i \in 1..(Len(out) - 1) : out'[i] = out[i + 1]
      BY <2>1, TailIs
    <2>3. CleanIn(out') => CleanIn(out)
      BY <2>2, SMTT(40) DEF CleanIn
    <2>4. got'.exit = 0 => got.exit = 0 \/ CleanIn(out)
      BY <2>1, <2>2 DEF CleanIn
    <2> QED
      BY <2>1, <2>3, <2>4 DEF CleanInv, Begun
  <1>3. CASE SendExit
    <2>1. /\ Send([stream |-> "exit", code |-> ExitCode]) /\ sup = "exit"
          /\ UNCHANGED <<got, printed, captured>>
      BY <1>3 DEF SendExit, Supervise
    <2>2. [stream |-> "exit", code |-> ExitCode] \in ChannelLine
      BY <1>3, <1>t, ExitLine DEF SendExit, Supervise, RunnerTypes
    <2>3. CleanIn(out') => CleanIn(out) \/ ExitCode = 0
      BY <1>t, <2>1, <2>2, SendClean
    <2>4. ExitCode = 0 => ~failed /\ ~cancelled
      BY DEF ExitCode
    <2>5. ExitCode = 0 /\ Begun => captured
      BY <2>1, <2>4 DEF CaptureInv, Exited
    <2> QED
      BY <2>1, <2>3, <2>5 DEF CleanInv, Begun
  <1>4. ASSUME NEW line \in ChannelLine, Send(line), line.stream # "exit",
               UNCHANGED <<got, printed, captured>>
        PROVE  CleanInv'
    BY <1>t, <1>4, SendClean DEF CleanInv, Begun
  <1>5. CASE SendNotice \/ SendError \/ \E s \in Streams : SendLine(s)
    <2>1. [stream |-> "stderr", kind |-> "error"] \in ChannelLine
      BY OtherLine
    <2>2. \A s \in Streams : [stream |-> s, kind |-> drainer[s].line] \in ChannelLine
      BY <1>t, OtherLine, SMTT(40) DEF TypeOK
    <2> QED
      BY <1>4, <1>5, <2>1, <2>2 DEF SendNotice, SendError, SendLine
  <1>6. CASE UNCHANGED <<out, got, printed>> /\ (captured => captured')
    BY <1>6 DEF CleanInv, Begun
  <1> QED
    BY <1>1, <1>2, <1>3, <1>5, <1>6
       DEF Next, Tree, Watcher, Drainer, Callback, Supervisor, ChildPrints, ScriptExits, ChildExits,
           Dies, Cancel, SigTerm, WaitDelayKill, CallbackAccepts, CallbackFails, ReadLine,
           EndOfFile, ScanFails, SelectSentinel, KilledDrained, SelectDrained, SelectCancelled,
           GraceDrained, KillProcessGroup, Abandon, Wait, Settle, Close, vars

-----------------------------------------------------------------------------
RunnerInv == RunnerTypes /\ FinalInv /\ CaptureInv /\ CleanInv

\* The inductive invariant of a script run (runner.go, supervise and drainStdout).
THEOREM RunnerInvariant == Spec => []RunnerInv
  <1>1. Init => RunnerInv
    BY RunnerInitTypes, RunnerInitFinal, RunnerInitCapture, RunnerInitClean DEF RunnerInv
  <1>2. RunnerInv /\ [Next]_vars => RunnerInv'
    BY RunnerNextTypes, RunnerNextFinal, RunnerNextCapture, RunnerNextClean DEF RunnerInv
  <1> QED
    BY <1>1, <1>2, PTL DEF Spec

\* Every variable of the runner keeps its type; no queue outgrows its bound.
THEOREM RunnerTypeCorrect == Spec => []TypeOK
  <1>1. RunnerInv => TypeOK
    BY DEF RunnerInv, RunnerTypes
  <1> QED
    BY RunnerInvariant, <1>1, PTL

\* "the final Line has Stream=StreamExit": nothing follows the exit record and nobody
\* sends on the closed channel, unless supervise gave up on the drainers.
THEOREM ExitRecordFinal == Spec => []ExitIsFinal
  <1>1. RunnerInv => ExitIsFinal
    BY DEF RunnerInv, FinalInv, ExitIsFinal
  <1> QED
    BY RunnerInvariant, <1>1, PTL

\* What init.go builds on: a script that opened a block and is reported with exit 0
\* has had its payload accepted, whatever was killed, cancelled or abandoned.
THEOREM CleanExitCaptured == Spec => []CleanExitMeansCaptured
  <1>1. RunnerInv => CleanExitMeansCaptured
    BY DEF RunnerInv, CleanInv, Begun, CleanExitMeansCaptured
  <1> QED
    BY RunnerInvariant, <1>1, PTL

\* "the raw payload NEVER enters the channel": of a script that prints its payload
\* only inside a block of a kind that has markers, no line of it is ever sent.
THEOREM PayloadNeverSent == ASSUME PayloadFramed PROVE Spec => []NoRawPayload
  <1>1. Init => RunnerTypes /\ SecretInv
    BY RunnerInitTypes, RunnerInitSecret
  <1>2. RunnerTypes /\ SecretInv /\ [Next]_vars => (RunnerTypes /\ SecretInv)'
    BY RunnerNextTypes, RunnerNextSecret
  <1>3. SecretInv => NoRawPayload
    BY DEF SecretInv, NoRawPayload
  <1> QED
    BY <1>1, <1>2, <1>3, PTL DEF Spec

-----------------------------------------------------------------------------
\* The runner keeps its promise to the engines, step by step.

OneExit(q) == \A i, j \in 1..Len(q) : q[i].stream = "exit" /\ q[j].stream = "exit" => i = j

\* Only a block that was begun is dealt with, there is one report at most, and one of
\* success is of a run that was followed to its end.
ReportInv ==
  /\ inside \/ drainer["stdout"].at = "callback" => HasSentinel
  /\ HasSentinel /\ Pending => Begun
  /\ OneExit(out) /\ (got.exit # NoCode => NoExitIn(out))
  /\ got.exit = 0 \/ CleanIn(out) => ~abandoned

\* The channel and the outcome stay, and no block appears from nowhere.
LEMMA ReportKept ==
  ASSUME ReportInv, UNCHANGED <<out, got, abandoned>>,
         inside' \/ drainer'["stdout"].at = "callback" => HasSentinel,
         HasSentinel /\ Pending' => Begun'
  PROVE  ReportInv'
  BY DEF ReportInv, OneExit, NoExitIn, CleanIn

\* A line that is no report, or the first report, goes onto the channel.
LEMMA SendReport ==
  ASSUME TypeOK, ReportInv, NEW line \in ChannelLine, Send(line),
         line.stream = "exit" => got.exit = NoCode /\ NoExitIn(out),
         line.stream = "exit" /\ line.code = 0 => ~abandoned,
         UNCHANGED <<got, abandoned>>,
         inside' \/ drainer'["stdout"].at = "callback" => HasSentinel,
         HasSentinel /\ Pending' => Begun'
  PROVE  ReportInv'
  <1>1. CASE closed
    <2>1. UNCHANGED out
      BY <1>1 DEF Send
    <2> QED
      BY <2>1, ReportKept
  <1>2. CASE ~closed
    <2>1. out' = Append(out, line) /\ out \in Seq(ChannelLine)
      BY <1>2 DEF Send, TypeOK
    <2>2. /\ Len(out) \in Nat /\ Len(out') = Len(out) + 1 /\ out'[Len(out) + 1] = line
          /\ \A i \in 1..Len(out) : out'[i] = out[i]
      BY <2>1, AppendIs
    <2>3. NoExitIn(out) => OneExit(out')
      BY <2>2 DEF NoExitIn, OneExit
    <2>4. line.stream # "exit" => OneExit(out') /\ (NoExitIn(out) => NoExitIn(out'))
      BY <2>2 DEF ReportInv, NoExitIn, OneExit
    <2>5. CleanIn(out') => CleanIn(out) \/ (line.stream = "exit" /\ line.code = 0)
      BY SendClean
    <2> QED
      BY <2>3, <2>4, <2>5 DEF ReportInv
  <1> QED
    BY <1>1, <1>2

LEMMA RunnerInitReport == Init => ReportInv
  BY DEF Init, ReportInv, Pending, OneExit, NoExitIn, CleanIn

LEMMA RunnerNextReport ==
  ASSUME RunnerInv, ReportInv, [Next]_vars
  PROVE  ReportInv'
  <1>t. /\ TypeOK /\ PipeType /\ DrainerType /\ pipe["stdout"] \in Seq(Kinds)
        /\ FinalInv /\ CaptureInv /\ RunnerTypes
    BY TypesOf DEF RunnerInv, RunnerTypes, PipeType
  <1>1. CASE ScriptPrints
    <2> DEFINE q == pipe["stdout"]
    <2>1. /\ pipe'["stdout"] = Append(q, Program[printed + 1]) /\ printed' = printed + 1
          /\ Program[printed + 1] \in Kinds /\ printed \in Nat
          /\ UNCHANGED <<inside, drainer, abandoned, out, got>>
      BY <1>1, <1>t DEF ScriptPrints, Write, PipeType, TypeOK
    <2>2. /\ Len(q) \in Nat /\ Len(pipe'["stdout"]) = Len(q) + 1
          /\ pipe'["stdout"][Len(q) + 1] = Program[printed + 1]
          /\ \A i \in 1..Len(q) : pipe'["stdout"][i] = q[i]
      BY <1>t, <2>1, AppendIs
    <2>3. Pending' => Pending \/ Program[printed + 1] = "begin"
      BY <2>1, <2>2 DEF Pending
    <2>4. HasSentinel /\ (Begun \/ Program[printed + 1] = "begin") => Begun'
      BY <2>1 DEF Begun
    <2> QED
      BY <2>1, <2>3, <2>4, ReportKept DEF ReportInv
  <1>2. CASE ChildPrints
    <2> DEFINE q == pipe["stdout"]
    <2>1. /\ pipe'["stdout"] = q \/ pipe'["stdout"] = Append(q, "plain")
          /\ UNCHANGED <<inside, drainer, abandoned, out, got, printed>>
      BY <1>2, <1>t DEF ChildPrints, Write, PipeType
    <2>2. pipe'["stdout"] = Append(q, "plain") =>
            /\ Len(q) \in Nat /\ Len(pipe'["stdout"]) = Len(q) + 1
            /\ pipe'["stdout"][Len(q) + 1] = "plain"
            /\ \A i \in 1..Len(q) : pipe'["stdout"][i] = q[i]
      BY <1>t, AppendIs
    <2>3. Pending' => Pending
      BY <2>1, <2>2 DEF Pending
    <2> QED
      BY <2>1, <2>3, ReportKept DEF ReportInv, Begun
  <1>3. CASE ReadLine("stdout")
    <2> DEFINE q == pipe["stdout"]
    <2>1. /\ q # <<>> /\ pipe'["stdout"] = Tail(q)
          /\ UNCHANGED <<abandoned, out, got, printed>>
      BY <1>3, <1>t DEF ReadLine, PipeType
    <2>2. /\ Len(q) \in Nat \ {0} /\ Len(Tail(q)) = Len(q) - 1 /\ Head(q) = q[1]
          /\ \A i \in 1..(Len(q) - 1) : Tail(q)[i] = q[i + 1]
      BY <1>t, <2>1, TailIs
    <2>3. (\E k \in 1..Len(Tail(q)) : Tail(q)[k] = "begin") \/ Head(q) = "begin" => Pending
      BY <2>2 DEF Pending
    <2>4. /\ inside' => HasSentinel /\ (inside \/ Head(q) = "begin")
          /\ drainer'["stdout"].at = "callback" => HasSentinel /\ inside
      BY <1>3, <1>t DEF ReadLine, DrainerAt, DrainerType, Watched, ReportInv
    <2> QED
      BY <2>1, <2>3, <2>4, ReportKept DEF ReportInv, Pending, Begun
  <1>4. CASE ReadLine("stderr")
    <2>1. UNCHANGED <<pipe["stdout"], drainer["stdout"], inside, abandoned, out, got, printed>>
      BY <1>4, <1>t DEF ReadLine, DrainerAt, PipeType, DrainerType, Watched
    <2> QED
      BY <2>1, ReportKept DEF ReportInv, Pending, Begun
  <1>5. ASSUME NEW s \in Streams, SendLine(s) PROVE ReportInv'
    <2>1. [stream |-> s, kind |-> drainer[s].line] \in ChannelLine
      BY <1>t, OtherLine DEF DrainerType
    <2>2. /\ UNCHANGED <<pipe, inside, abandoned, got, printed>>
          /\ drainer'["stdout"].at = "callback" => drainer["stdout"].at = "callback"
      BY <1>5, <1>t DEF SendLine, DrainerAt, DrainerType
    <2> QED
      BY <1>5, <1>t, <2>1, <2>2, SendReport DEF SendLine, ReportInv, Pending, Begun
  <1>6. ASSUME NEW s \in Streams, EndOfFile(s) \/ ScanFails(s) PROVE ReportInv'
    <2>1. /\ UNCHANGED <<pipe, inside, abandoned, out, got, printed>>
          /\ drainer'["stdout"].at = "callback" => drainer["stdout"].at = "callback"
      BY <1>6, <1>t DEF EndOfFile, ScanFails, DrainerAt, DrainerType
    <2> QED
      BY <2>1, ReportKept DEF ReportInv, Pending, Begun
  <1>7. CASE CallbackAccepts \/ CallbackFails
    <2>1. /\ UNCHANGED <<pipe, inside, abandoned, out, got, printed>>
          /\ drainer'["stdout"].at # "callback"
      BY <1>7, <1>t DEF CallbackAccepts, CallbackFails, DrainerAt, DrainerType
    <2> QED
      BY <2>1, ReportKept DEF ReportInv, Pending, Begun
  <1>8. CASE Consume
    <2>1. /\ out \in Seq(ChannelLine) /\ out # <<>> /\ out' = Tail(out)
          /\ got'.exit = IF Head(out).stream = "exit" THEN Head(out).code ELSE got.exit
          /\ UNCHANGED <<pipe, inside, drainer, printed, abandoned>>
      BY <1>8, <1>t DEF Consume, TypeOK
    <2>2. /\ Len(out) \in Nat \ {0} /\ Len(out') = Len(out) - 1 /\ Head(out) = out[1]
          /\ \A i \in 1..(Len(out) - 1) : out'[i] = out[i + 1]
      BY <2>1, TailIs
    <2>3. ASSUME OneExit(out), Head(out).stream = "exit" PROVE NoExitIn(out')
      <3>1. ASSUME NEW i \in 1..Len(out'), out'[i].stream = "exit" PROVE FALSE
        <4>1. i + 1 \in 1..Len(out) /\ out[i + 1].stream = "exit" /\ 1 \in 1..Len(out)
              /\ i \in Int /\ i > 0
          BY <2>2, <3>1
        <4>2. i + 1 = 1
          BY <2>2, <2>3, <4>1 DEF OneExit
        <4> QED
          BY <4>1, <4>2
      <3> QED
        BY <3>1 DEF NoExitIn
    <2>4. ASSUME OneExit(out) PROVE OneExit(out')
      <3>1. ASSUME NEW i \in 1..Len(out'), NEW j \in 1..Len(out'),
                   out'[i].stream = "exit", out'[j].stream = "exit"
            PROVE  i = j
        <4>1. /\ i + 1 \in 1..Len(out) /\ j + 1 \in 1..Len(out) /\ i \in Int /\ j \in Int
              /\ out[i + 1].stream = "exit" /\ out[j + 1].stream = "exit"
          BY <2>2, <3>1
        <4>2. i + 1 = j + 1
          BY <2>4, <4>1 DEF OneExit
        <4> QED
          BY <4>1, <4>2
      <3> QED
        BY <3>1 DEF OneExit
    <2>5. NoExitIn(out) => NoExitIn(out') /\ Head(out).stream # "exit"
      BY <2>1, TakeExit
    <2>6. CleanIn(out') => CleanIn(out)
      BY <2>2, SMTT(40) DEF CleanIn
    <2>7. got'.exit = 0 => got.exit = 0 \/ CleanIn(out)
      BY <2>1, <2>2 DEF CleanIn
    <2>8. /\ OneExit(out') /\ (got'.exit # NoCode => NoExitIn(out'))
          /\ got'.exit = 0 \/ CleanIn(out') => ~abandoned'
      BY <2>1, <2>3, <2>4, <2>5, <2>6, <2>7 DEF ReportInv
    <2> QED
      BY <2>1, <2>8 DEF ReportInv, Pending, Begun
  <1>9. CASE SendExit
    <2>1. /\ Send([stream |-> "exit", code |-> ExitCode]) /\ sup = "exit"
          /\ UNCHANGED <<pipe, inside, drainer, printed, abandoned, got>>
      BY <1>9 DEF SendExit, Supervise
    <2>2. [stream |-> "exit", code |-> ExitCode] \in ChannelLine
      BY <1>t, <2>1, ExitLine
    <2>3. got.exit = NoCode /\ NoExitIn(out)
      BY <1>t, <2>1 DEF FinalInv
    <2>4. ExitCode = 0 => ~abandoned
      BY <1>t DEF ExitCode, CaptureInv
    <2> QED
      BY <1>t, <2>1, <2>2, <2>3, <2>4, SendReport DEF ReportInv, Pending, Begun
  <1>10. CASE SendNotice \/ SendError
    <2>1. /\ Send([stream |-> "stderr", kind |-> "error"])
          /\ UNCHANGED <<pipe, inside, drainer, printed, abandoned, got>>
      BY <1>10 DEF SendNotice, SendError
    <2>2. [stream |-> "stderr", kind |-> "error"] \in ChannelLine
      BY OtherLine
    <2> QED
      BY <1>t, <2>1, <2>2, SendReport DEF ReportInv, Pending, Begun
  <1>11. CASE Abandon
    <2>1. sup = "grace2" /\ UNCHANGED <<pipe, inside, drainer, printed, out, got>>
      BY <1>11 DEF Abandon, Supervise
    <2>2. got.exit = NoCode /\ NoExitIn(out)
      BY <1>t, <2>1 DEF FinalInv
    <2> QED
      BY <2>1, <2>2 DEF ReportInv, Pending, Begun, OneExit, NoExitIn, CleanIn
  <1>12. CASE UNCHANGED <<pipe, inside, drainer, printed, out, got, abandoned>>
    BY <1>12, ReportKept DEF ReportInv, Pending, Begun
  <1> QED
    BY <1>1, <1>2, <1>3, <1>4, <1>5, <1>6, <1>7, <1>8, <1>9, <1>10, <1>11, <1>12
       DEF Next, Tree, Watcher, Drainer, Callback, Supervisor, ScriptExits, ChildExits, Dies,
           Cancel, SigTerm, WaitDelayKill, SelectSentinel, KilledDrained, SelectDrained,
           SelectCancelled, GraceDrained, KillProcessGroup, Wait, Settle, Close, vars

\* Once the script is reported upon it prints no more.
LEMMA PrintingKeepsPromise ==
  ASSUME RunnerInv, ScriptPrints
  PROVE  Promise!Open \/ UNCHANGED <<Begun, captured, abandoned, got>>
  <1>1. /\ "script" \in alive /\ printed' = printed + 1 /\ printed \in Nat
        /\ UNCHANGED <<captured, abandoned, got>>
    BY DEF ScriptPrints, RunnerInv, RunnerTypes, TypeOK
  <1>2. got.exit = NoCode
    BY <1>1 DEF RunnerInv, RunnerTypes, CodeInv, FinalInv, Exited
  <1>3. Begun => Begun'
    BY <1>1 DEF Begun
  <1>4. Begun' \in BOOLEAN /\ Begun \in BOOLEAN
    BY DEF Begun
  <1> QED
    BY <1>1, <1>2, <1>3, <1>4 DEF Promise!Open, Promise!Concluded, Promise!NoResult

\* Every step of a run is a step of the promise, or none.
LEMMA StepKeepsPromise ==
  ASSUME RunnerInv, ReportInv, [Next]_vars
  PROVE  [Promise!Next]_<<Begun, captured, abandoned, got.exit>>
  <1> USE DEF Promise!Next, Promise!Concluded, Promise!NoResult
  <1>1. CASE ScriptPrints
    BY <1>1, PrintingKeepsPromise
  <1>2. CASE CallbackAccepts
    <2>1. Begun /\ Begun' = Begun
      BY <1>2 DEF CallbackAccepts, ReportInv, Pending, Begun
    <2>2. got.exit # NoCode => abandoned
      BY <1>2 DEF CallbackAccepts, RunnerInv, FinalInv, DrainersDone, Exited
    <2> QED
      BY <1>2, <2>1, <2>2 DEF CallbackAccepts, Promise!Take
  <1>3. CASE Abandon
    <2>1. got.exit = NoCode
      BY <1>3 DEF Abandon, Supervise, RunnerInv, FinalInv
    <2> QED
      BY <1>3, <2>1 DEF Abandon, Begun, Promise!GiveUp
  <1>4. CASE Consume
    <2>1. /\ out \in Seq(ChannelLine) /\ out # <<>>
          /\ got'.exit = IF Head(out).stream = "exit" THEN Head(out).code ELSE got.exit
          /\ UNCHANGED <<printed, captured, abandoned>>
      BY <1>4 DEF Consume, RunnerInv, RunnerTypes, TypeOK
    <2>2. Len(out) \in Nat \ {0} /\ Head(out) = out[1] /\ out[1] \in ChannelLine
      BY <2>1, TailIs
    <2>3. CASE Head(out).stream = "exit"
      <3>1. got.exit = NoCode /\ Head(out).code \in {0, 1, 130}
        BY <2>2, <2>3 DEF ReportInv, NoExitIn, ChannelLine
      <3>2. Head(out).code = 0 => CleanIn(out)
        BY <2>2, <2>3 DEF CleanIn
      <3>3. Head(out).code = 0 => ~abandoned /\ (Begun => captured)
        BY <3>2 DEF ReportInv, RunnerInv, CleanInv
      <3> QED
        BY <2>1, <2>3, <3>1, <3>3 DEF Promise!Succeed, Promise!Fail, Begun
    <2>4. CASE Head(out).stream # "exit"
      BY <2>1, <2>4 DEF Begun
    <2> QED
      BY <2>3, <2>4
  <1>5. CASE UNCHANGED <<printed, captured, abandoned, got>>
    BY <1>5 DEF Begun
  <1> QED
    BY <1>1, <1>2, <1>3, <1>4, <1>5
       DEF Next, Tree, Watcher, Drainer, Callback, Supervisor, ChildPrints, ScriptExits, ChildExits,
           Dies, Cancel, SigTerm, WaitDelayKill, CallbackFails, ReadLine, SendLine,
           EndOfFile, ScanFails, SelectSentinel, KilledDrained, SelectDrained, SelectCancelled,
           GraceDrained, KillProcessGroup, SendNotice, SendError, SendExit, Wait, Settle, Close, vars

\* The whole of what the engines build on: one report, success only of a run followed
\* to its end with its block captured, and nothing of the run after it, unless the
\* run was given up.
THEOREM RunnerKeepsPromise == Spec => KeepsPromise
  <1>1. Init => RunnerInv /\ ReportInv /\ Promise!Init
    <2>1. ASSUME Init PROVE Promise!Init
      BY <2>1 DEF Init, Begun, Promise!Init, Promise!NoResult
    <2> QED
      BY <2>1, RunnerInitTypes, RunnerInitFinal, RunnerInitCapture, RunnerInitClean,
         RunnerInitReport DEF RunnerInv
  <1>2. RunnerInv /\ ReportInv /\ [Next]_vars => ReportInv'
    BY RunnerNextReport
  <1>3. RunnerInv /\ ReportInv /\ [Next]_vars
        => [Promise!Next]_<<Begun, captured, abandoned, got.exit>>
    BY StepKeepsPromise
  <1> QED
    BY <1>1, <1>2, <1>3, RunnerInvariant, PTL DEF Spec, KeepsPromise, Promise!Spec

================================================================================
