------------------------------ MODULE ScriptRunner ------------------------------
(*****************************************************************************)
(* One run of a fleet script by the CLI's script adapter                     *)
(* (cli/internal/bootstrap/adapters/script/runner.go): the process tree      *)
(* holding the two pipes, one drainer goroutine per pipe, the supervise      *)
(* goroutine that owns the Line channel, os/exec's context watcher, and the  *)
(* engine that consumes the channel through ports.Drain.                     *)
(*                                                                           *)
(* The script prints Program on stdout; a line is one of "plain", "begin",   *)
(* "secret" (a payload line) and "end".  A "helper" is a child in the        *)
(* script's process group, a "daemon" one that left the group (setsid); both *)
(* inherited the pipes and may print a plain line on either.  Timers may     *)
(* fire at any time.                                                         *)
(*****************************************************************************)
EXTENDS Integers, Sequences

CONSTANTS
  Program,      \* what the script prints on stdout, in order
  HasSentinel,  \* the script kind has a marker pair (openbao-init.sh)
  Children,     \* which of "helper" and "daemon" inherit the pipes
  ChannelCap,   \* channelBuffer
  PipeCap,      \* lines a pipe holds before a writer blocks
  ChildLines    \* bound: lines the children print in total

Kinds == {"plain", "begin", "secret", "end"}
Streams == {"stdout", "stderr"}
NoCode == 0 - 1

ASSUME RunnerAssumption ==
  /\ Program \in Seq(Kinds)
  /\ HasSentinel \in BOOLEAN
  /\ Children \subseteq {"helper", "daemon"}
  /\ ChannelCap \in Nat \ {0} /\ PipeCap \in Nat \ {0} /\ ChildLines \in Nat

VARIABLES
  alive,      \* the processes that still hold the pipes' write ends
  stubborn,   \* those that ignore SIGTERM
  printed,    \* lines of Program the script has printed
  childLeft,  \* lines the children may still print
  code,       \* the script's exit status, NoCode while it runs
  pipe,       \* stream -> lines written and not yet read
  pipeClosed, \* cmd.Wait closed the read ends
  cancelled, termed,  \* ctx.Done(); cmd.Cancel has sent SIGTERM to the group
  drainer,    \* stream -> [at : "read", "send", "callback" or "done", line]
  inside,     \* the stdout drainer is between BEGIN and END
  captured,   \* the callback accepted a payload
  sentErr,    \* the one-slot sentinelErr channel
  failed,     \* supervise took a sentinel error out of it
  sup,        \* where supervise is
  abandoned,  \* supervise went on without the drainers
  out, closed,    \* the Line channel
  panicked,       \* somebody sent on the closed channel
  got             \* what the consumer has seen: [exit, late, leaked]

tree == <<alive, stubborn, printed, childLeft, code>>
pipes == <<pipe, pipeClosed>>
ctx == <<cancelled, termed>>
sentinel == <<inside, captured, sentErr>>
channel == <<out, closed, panicked, got>>
vars == <<tree, pipes, ctx, drainer, sentinel, failed, sup, abandoned, channel>>

Processes == {"script"} \cup Children
Group == {"script", "helper"}
SupLabels == {"select", "killed", "grace", "grace2", "notice", "wait", "settle",
              "report", "exit", "close", "done"}

\* What travels on the channel: a stream and, for an exit record, a status.
ChannelLine == [stream : Streams, kind : Kinds \cup {"placeholder", "error"}]
               \cup [stream : {"exit"}, code : {0, 1, 130}]

TypeOK ==
  /\ alive \subseteq Processes /\ stubborn \subseteq Processes
  /\ printed \in 0..Len(Program) /\ childLeft \in 0..ChildLines
  /\ code \in {NoCode, 0, 1}
  /\ pipe \in [Streams -> Seq(Kinds)] /\ pipeClosed \in BOOLEAN
  /\ \A s \in Streams : Len(pipe[s]) <= PipeCap
  /\ cancelled \in BOOLEAN /\ termed \in BOOLEAN
  /\ drainer \in [Streams -> [at : {"read", "send", "callback", "done"},
                              line : Kinds \cup {"placeholder"}]]
  /\ inside \in BOOLEAN /\ captured \in BOOLEAN /\ sentErr \in BOOLEAN
  /\ failed \in BOOLEAN /\ sup \in SupLabels /\ abandoned \in BOOLEAN
  /\ out \in Seq(ChannelLine) /\ Len(out) <= ChannelCap
  /\ closed \in BOOLEAN /\ panicked \in BOOLEAN
  /\ got \in [exit : {NoCode, 0, 1, 130}, late : BOOLEAN, leaked : BOOLEAN]

Init ==
  /\ alive = Processes /\ stubborn \in SUBSET Processes
  /\ printed = 0 /\ childLeft = ChildLines /\ code = NoCode
  /\ pipe = [s \in Streams |-> <<>>] /\ pipeClosed = FALSE
  /\ cancelled = FALSE /\ termed = FALSE
  /\ drainer = [s \in Streams |-> [at |-> "read", line |-> "plain"]]
  /\ inside = FALSE /\ captured = FALSE /\ sentErr = FALSE
  /\ failed = FALSE /\ sup = "select" /\ abandoned = FALSE
  /\ out = <<>> /\ closed = FALSE /\ panicked = FALSE
  /\ got = [exit |-> NoCode, late |-> FALSE, leaked |-> FALSE]

Running == ~panicked

-----------------------------------------------------------------------------
\* The process tree.

Write(s, line) == /\ ~pipeClosed /\ Len(pipe[s]) < PipeCap
                  /\ pipe' = [pipe EXCEPT ![s] = Append(@, line)]

ScriptPrints ==
  /\ Running /\ "script" \in alive /\ printed < Len(Program)
  /\ Write("stdout", Program[printed + 1])
  /\ printed' = printed + 1
  /\ UNCHANGED <<alive, stubborn, childLeft, code, pipeClosed, ctx, drainer, sentinel,
                 failed, sup, abandoned, channel>>

ChildPrints ==
  /\ Running /\ alive \cap Children # {} /\ childLeft > 0
  /\ \E s \in Streams : Write(s, "plain")
  /\ childLeft' = childLeft - 1
  /\ UNCHANGED <<alive, stubborn, printed, code, pipeClosed, ctx, drainer, sentinel,
                 failed, sup, abandoned, channel>>

\* The processes of `dead` end; a script that did not end by itself fails.
Dies(dead) ==
  /\ alive' = alive \ dead
  /\ code' = IF "script" \in alive \cap dead THEN 1 ELSE code
  /\ UNCHANGED <<stubborn, printed, childLeft>>

ScriptExits ==
  /\ Running /\ "script" \in alive
  /\ alive' = alive \ {"script"}
  /\ code' \in IF printed = Len(Program) THEN {0, 1} ELSE {1}
  /\ UNCHANGED <<stubborn, printed, childLeft, pipes, ctx, drainer, sentinel, failed,
                 sup, abandoned, channel>>

ChildExits ==
  /\ Running
  /\ \E p \in alive \cap Children : Dies({p})
  /\ UNCHANGED <<pipes, ctx, drainer, sentinel, failed, sup, abandoned, channel>>

\* The operator presses Ctrl-C, or a deadline passes.
Cancel ==
  /\ Running /\ ~cancelled
  /\ cancelled' = TRUE
  /\ UNCHANGED <<tree, pipes, termed, drainer, sentinel, failed, sup, abandoned, channel>>

\* os/exec's watcher runs cmd.Cancel: SIGTERM to the whole group ...
SigTerm ==
  /\ Running /\ cancelled /\ ~termed
  /\ termed' = TRUE
  /\ Dies(Group \ stubborn)
  /\ UNCHANGED <<pipes, cancelled, drainer, sentinel, failed, sup, abandoned, channel>>

\* ... and after WaitDelay kills the direct child, nobody else.
WaitDelayKill ==
  /\ Running /\ termed /\ "script" \in alive
  /\ Dies({"script"})
  /\ UNCHANGED <<pipes, ctx, drainer, sentinel, failed, sup, abandoned, channel>>

-----------------------------------------------------------------------------
\* The channel.

\* A goroutine sends: blocks on a full channel, panics on a closed one.
Send(line) ==
  \/ /\ closed /\ panicked' = TRUE /\ UNCHANGED out
  \/ /\ ~closed /\ Len(out) < ChannelCap
     /\ out' = Append(out, line) /\ UNCHANGED panicked

\* ports.Drain: an exit record, then nothing; it consumes to the close.
Consume ==
  /\ Running /\ out # <<>>
  /\ out' = Tail(out)
  /\ LET line == Head(out) IN
     got' = [exit |-> IF line.stream = "exit" THEN line.code ELSE got.exit,
             late |-> got.late \/ got.exit # NoCode,
             leaked |-> got.leaked \/ (line.stream # "exit" /\ line.kind = "secret")]
  /\ UNCHANGED <<tree, pipes, ctx, drainer, sentinel, failed, sup, abandoned, closed,
                 panicked>>

-----------------------------------------------------------------------------
\* The drainers.

DrainerAt(s, at, line) == drainer' = [drainer EXCEPT ![s] = [at |-> at, line |-> line]]

\* signal(err): a non-blocking send into the one slot.
Signal == sentErr' = TRUE

Watched(s) == s = "stdout" /\ HasSentinel

\* A line is passed on, opens a block, is held back, or closes the block.
ReadLine(s) ==
  /\ Running /\ drainer[s].at = "read" /\ ~pipeClosed /\ pipe[s] # <<>>
  /\ pipe' = [pipe EXCEPT ![s] = Tail(@)]
  /\ LET line == Head(pipe[s]) IN
     \/ /\ Watched(s) /\ ~inside /\ line = "begin"
        /\ inside' = TRUE /\ UNCHANGED drainer
     \/ /\ Watched(s) /\ inside /\ line = "end"
        /\ DrainerAt(s, "callback", "placeholder") /\ inside' = FALSE
     \/ /\ Watched(s) /\ inside /\ line # "end"
        /\ UNCHANGED <<inside, drainer>>
     \/ /\ ~Watched(s) \/ (~inside /\ line # "begin")
        /\ DrainerAt(s, "send", line) /\ UNCHANGED inside
  /\ UNCHANGED <<tree, pipeClosed, ctx, captured, sentErr, failed, sup, abandoned, channel>>

\* The sentinel callback accepts the payload, or fails and ends the drainer.
CallbackAccepts ==
  /\ Running /\ drainer["stdout"].at = "callback"
  /\ captured' = TRUE
  /\ DrainerAt("stdout", "send", "placeholder")
  /\ UNCHANGED <<tree, pipes, ctx, inside, sentErr, failed, sup, abandoned, channel>>

CallbackFails ==
  /\ Running /\ drainer["stdout"].at = "callback"
  /\ Signal
  /\ DrainerAt("stdout", "done", "plain")
  /\ UNCHANGED <<tree, pipes, ctx, inside, captured, failed, sup, abandoned, channel>>

SendLine(s) ==
  /\ Running /\ drainer[s].at = "send"
  /\ Send([stream |-> s, kind |-> drainer[s].line])
  /\ DrainerAt(s, "read", "plain")
  /\ UNCHANGED <<tree, pipes, ctx, sentinel, failed, sup, abandoned, closed, got>>

\* Mutant: the parent keeps its copy of the write end, so only Wait ends a read.
EndOfFileAfterWait(s) ==
  /\ Running /\ drainer[s].at = "read"
  /\ pipeClosed
  /\ DrainerAt(s, "done", "plain")
  /\ IF Watched(s) /\ inside THEN Signal ELSE UNCHANGED sentErr
  /\ UNCHANGED <<tree, pipes, ctx, inside, captured, failed, sup, abandoned, channel>>

\* Nobody holds the write end and all is read, or Wait closed the read end; an
\* open block is then a failed capture.
EndOfFile(s) ==
  /\ Running /\ drainer[s].at = "read"
  /\ pipeClosed \/ (alive = {} /\ pipe[s] = <<>>)
  /\ DrainerAt(s, "done", "plain")
  /\ IF Watched(s) /\ inside THEN Signal ELSE UNCHANGED sentErr
  /\ UNCHANGED <<tree, pipes, ctx, inside, captured, failed, sup, abandoned, channel>>

\* A line over 1 MiB or a read error stops the scanner for good.
ScanFails(s) ==
  /\ Running /\ drainer[s].at = "read" /\ ~pipeClosed /\ pipe[s] # <<>>
  /\ DrainerAt(s, "done", "plain")
  /\ IF Watched(s) THEN Signal ELSE UNCHANGED sentErr
  /\ UNCHANGED <<tree, pipes, ctx, inside, captured, failed, sup, abandoned, channel>>

DrainersDone == \A s \in Streams : drainer[s].at = "done"

-----------------------------------------------------------------------------
\* supervise.

Supervise(from, to) == Running /\ sup = from /\ sup' = to

\* Phase 1: a sentinel failure kills the script itself ...
SelectSentinel ==
  /\ Supervise("select", "killed")
  /\ sentErr /\ sentErr' = FALSE /\ failed' = TRUE
  /\ Dies({"script"})
  /\ UNCHANGED <<pipes, ctx, drainer, inside, captured, abandoned, channel>>

\* ... and then waits for the drainers, however long that takes.
KilledDrained ==
  /\ Supervise("killed", "wait") /\ DrainersDone
  /\ UNCHANGED <<tree, pipes, ctx, drainer, sentinel, failed, abandoned, channel>>

SelectDrained ==
  /\ Supervise("select", "wait") /\ DrainersDone
  /\ UNCHANGED <<tree, pipes, ctx, drainer, sentinel, failed, abandoned, channel>>

\* A cancellation bounds the wait for end of file.
SelectCancelled ==
  /\ Supervise("select", "grace") /\ cancelled
  /\ UNCHANGED <<tree, pipes, ctx, drainer, sentinel, failed, abandoned, channel>>

GraceDrained ==
  /\ Supervise("grace", "wait") \/ Supervise("grace2", "wait")
  /\ DrainersDone
  /\ UNCHANGED <<tree, pipes, ctx, drainer, sentinel, failed, abandoned, channel>>

\* killGrace passes: SIGKILL to the group.
KillProcessGroup ==
  /\ Supervise("grace", "grace2")
  /\ Dies(Group)
  /\ UNCHANGED <<pipes, ctx, drainer, sentinel, failed, abandoned, channel>>

\* Mutant: the wait after the group SIGKILL has no bound.
AbandonWhenDrained ==
  /\ Supervise("grace2", "notice") /\ DrainersDone
  /\ abandoned' = TRUE
  /\ UNCHANGED <<tree, pipes, ctx, drainer, sentinel, failed, channel>>

\* It passes again: a holder is outside the group; go on without the drainers.
Abandon ==
  /\ Supervise("grace2", "notice")
  /\ abandoned' = TRUE
  /\ UNCHANGED <<tree, pipes, ctx, drainer, sentinel, failed, channel>>

SendNotice ==
  /\ Supervise("notice", "wait")
  /\ Send([stream |-> "stderr", kind |-> "error"])
  /\ UNCHANGED <<tree, pipes, ctx, drainer, sentinel, failed, abandoned, closed, got>>

\* Phase 2: cmd.Wait returns when the script is gone, and closes the pipes.
Wait ==
  /\ Supervise("wait", "settle") /\ "script" \notin alive
  /\ pipeClosed' = TRUE
  /\ UNCHANGED <<tree, pipe, ctx, drainer, sentinel, failed, abandoned, channel>>

\* Mutant: only the sentinel error that woke the select counts.
SettleIgnoresLate ==
  /\ Running /\ sup = "settle"
  /\ UNCHANGED <<failed, sentErr>>
  /\ sup' = IF failed THEN "report" ELSE "exit"
  /\ UNCHANGED <<tree, pipes, ctx, drainer, inside, captured, abandoned, channel>>

\* Phase 3: a sentinel error that came late still counts.
Settle ==
  /\ Running /\ sup = "settle"
  /\ failed' = (failed \/ sentErr) /\ sentErr' = (failed /\ sentErr)
  /\ sup' = IF failed' THEN "report" ELSE "exit"
  /\ UNCHANGED <<tree, pipes, ctx, drainer, inside, captured, abandoned, channel>>

SendError ==
  /\ Supervise("report", "exit")
  /\ Send([stream |-> "stderr", kind |-> "error"])
  /\ UNCHANGED <<tree, pipes, ctx, drainer, sentinel, failed, abandoned, closed, got>>

ExitCode == IF failed THEN 1 ELSE IF cancelled THEN 130 ELSE code

SendExit ==
  /\ Supervise("exit", "close")
  /\ Send([stream |-> "exit", code |-> ExitCode])
  /\ UNCHANGED <<tree, pipes, ctx, drainer, sentinel, failed, abandoned, closed, got>>

Close ==
  /\ Supervise("close", "done")
  /\ closed' = TRUE
  /\ UNCHANGED <<tree, pipes, ctx, drainer, sentinel, failed, abandoned, out, panicked, got>>

-----------------------------------------------------------------------------
Tree == ScriptPrints \/ ChildPrints \/ ScriptExits \/ ChildExits
Watcher == SigTerm \/ WaitDelayKill
Drainer(s) == ReadLine(s) \/ SendLine(s) \/ EndOfFile(s) \/ ScanFails(s)
Callback == CallbackAccepts \/ CallbackFails
Supervisor == \/ SelectSentinel \/ KilledDrained \/ SelectDrained \/ SelectCancelled
              \/ GraceDrained \/ KillProcessGroup \/ Abandon \/ SendNotice \/ Wait
              \/ Settle \/ SendError \/ SendExit \/ Close

Next == \/ Tree \/ Cancel \/ Watcher \/ Callback \/ Supervisor \/ Consume
        \/ \E s \in Streams : Drainer(s)

Spec == Init /\ [][Next]_vars

\* The goroutines and the kernel make progress and the consumer keeps draining
\* (ScriptRunner's contract with its callers).  Nothing is assumed of the
\* processes: a script or a child may run, or stay silent, for ever.
Fairness == /\ WF_vars(Watcher) /\ WF_vars(Callback) /\ WF_vars(Supervisor)
            /\ WF_vars(Consume) /\ \A s \in Streams : WF_vars(Drainer(s))

FairSpec == Spec /\ Fairness

-----------------------------------------------------------------------------
\* The sentinel path's purpose: "the raw payload NEVER enters the channel"
\* (ScriptRunner interface), whatever dies or is cancelled in the middle.
NoRawPayload == ~got.leaked

\* "the final Line has Stream=StreamExit": one exit record, nothing after it and
\* no send on the closed channel, as long as supervise waited for the drainers.
ExitIsFinal == ~abandoned => ~got.late /\ ~panicked

\* The script has opened a secret block.
Begun == HasSentinel /\ \E i \in 1..printed : Program[i] = "begin"

\* What init.go builds on: exit 0 from a script that opened a block means the
\* callback accepted the payload; no kill or race makes a lost capture clean.
CleanExitMeansCaptured == got.exit = 0 /\ Begun => captured

\* All of what the engines build on, as StreamPromise states it: one report, success
\* only from a run followed to its end with its block captured, and after the report
\* no block is begun and no payload taken, unless the run was given up.
Promise == INSTANCE StreamPromise WITH
  opened <- Begun, taken <- captured, left <- abandoned, result <- got.exit

KeepsPromise == Promise!Spec

\* A run whose process tree is gone ends with a closed channel, and so does one whose
\* cancellation reached supervise's select, even with a holder of the pipes that
\* neither SIGTERM nor the group SIGKILL can reach.
RunEnds ==
  /\ (alive = {}) ~> (closed \/ panicked)
  /\ (sup = "grace") ~> (closed \/ panicked)

\* The contract of ScriptRunner.Run without that restriction: "on <-ctx.Done() the
\* adapter sends SIGTERM, then SIGKILL after a 5s grace period, then closes the
\* channel".
CancelCloses == cancelled ~> (closed \/ panicked)

\* supervise "closes `out` once the process has fully terminated AND both drain
\* goroutines have exited": so nobody is left to send on the closed channel.
NoSendAfterClose == ~panicked

=============================================================================
