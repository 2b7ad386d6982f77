--------------------------- MODULE ProcessPrimitive ---------------------------
(***************************************************************************)
(* One invocation of the process primitive (harness/primitives/process.go):*)
(* the goroutine that runs it, the one that waits for the command, one     *)
(* that reads each piped output, and the goroutines of the controls (write *)
(* or close the input, signal) that its owner may dispatch.  Around them   *)
(* the operating system: the command, a descendant in its process group    *)
(* and one that has left the group but still holds the pipes.              *)
(*                                                                         *)
(* Output is counted in chunks.  The receiver of the events is always      *)
(* ready: the manager receives them also while it drains.                  *)
(***************************************************************************)
EXTENDS Naturals

CONSTANTS Streams,      \* the outputs that are piped; the others are captured
          Controls,     \* control requests the owner may dispatch
          ControlKind,  \* [Controls -> Kinds]
          MaxOutput     \* bound: chunks written to an output

Kinds == {"write", "close", "signal", "signal_group"}

ASSUME ControlAssumption == ControlKind \in [Controls -> Kinds]
ASSUME MaxOutputAssumption == MaxOutput \in Nat

VARIABLES
  \* the operating system
  leader,      \* the command: "none", "alive", "exited" or "reaped"
  child,       \* a descendant in the process group is alive
  escaped,     \* a descendant outside of the group is alive
  killed,      \* the group was sent SIGKILL
  written,     \* stream -> chunks written to it
  own,         \* stream -> how many there were when the command last wrote
  \* the primitive
  ctx,         \* the context is canceled
  pc,          \* where runProcess is
  startErr,    \* ProcessInvocation.startErr # nil
  waited,      \* waitCompleted holds the result of Wait
  canceled,    \* what awaitProcessCompletion returned
  err,         \* an error that turns the last event into a failure
  outcome,     \* the last event, or "none"
  inClosed,    \* the parent's end of the input is closed, or there is none
  outClosed,   \* the streams whose parent's end is closed
  deadline,    \* the streams whose read deadline finishOutput has set
  reader,      \* stream -> where its goroutine is
  taken,       \* stream -> chunks read from it
  delivered,   \* stream -> chunks sent as events
  control      \* control -> where its goroutine is, or its answer

osVars      == <<leader, child, escaped, killed, written, own>>
runVars     == <<pc, startErr, canceled, err, outcome>>
pipeVars    == <<inClosed, outClosed, deadline>>
readerVars  == <<reader, taken, delivered>>
vars == <<osVars, ctx, runVars, waited, pipeVars, readerVars, control>>

Zeros == [s \in Streams |-> 0]

Init ==
  /\ leader = "none" /\ child = FALSE /\ escaped = FALSE /\ killed = FALSE
  /\ written = Zeros /\ own = Zeros
  /\ ctx = FALSE
  /\ pc = "new" /\ startErr = FALSE /\ canceled = FALSE /\ err = FALSE
  /\ outcome = "none"
  /\ waited = FALSE
  /\ inClosed \in BOOLEAN /\ outClosed = {} /\ deadline = {}
  /\ reader = [s \in Streams |-> "none"]
  /\ taken = Zeros /\ delivered = Zeros
  /\ control = [c \in Controls |-> "none"]

-----------------------------------------------------------------------------
(* The operating system.                                                   *)

Writing == leader = "alive" \/ child \/ escaped   \* someone holds the pipes
GroupExists == leader \in {"alive", "exited"} \/ child

Spawn ==
  /\ leader = "alive"
  /\ ~killed
  /\ \/ child' = TRUE /\ UNCHANGED escaped
     \/ escaped' = TRUE /\ UNCHANGED child
  /\ UNCHANGED <<leader, killed, written, own, ctx, runVars, waited, pipeVars,
                 readerVars, control>>

LeaderExits ==
  /\ leader = "alive"
  /\ leader' = "exited"
  /\ UNCHANGED <<child, escaped, killed, written, own, ctx, runVars, waited,
                 pipeVars, readerVars, control>>

ChildExits ==
  /\ child
  /\ child' = FALSE
  /\ UNCHANGED <<leader, escaped, killed, written, own, ctx, runVars, waited,
                 pipeVars, readerVars, control>>

EscapedExits ==
  /\ escaped
  /\ escaped' = FALSE
  /\ UNCHANGED <<leader, child, killed, written, own, ctx, runVars, waited,
                 pipeVars, readerVars, control>>

(* The command or a descendant writes to a pipe that is still read.        *)
WriteOutput(s) ==
  /\ written[s] < MaxOutput
  /\ s \notin outClosed
  /\ written' = [written EXCEPT ![s] = @ + 1]
  /\ \/ leader = "alive" /\ own' = [own EXCEPT ![s] = written[s] + 1]
     \/ (child \/ escaped) /\ UNCHANGED own
  /\ UNCHANGED <<leader, child, escaped, killed, ctx, runVars, waited, pipeVars,
                 readerVars, control>>

Cancel ==
  /\ ctx' = TRUE
  /\ UNCHANGED <<osVars, runVars, waited, pipeVars, readerVars, control>>

-----------------------------------------------------------------------------
(* runProcess.                                                             *)

(* The request is invalid, or preparing the pipes and captures fails.      *)
PrepareFails ==
  /\ pc = "new"
  /\ startErr' = TRUE
  /\ err' = TRUE
  /\ pc' = "terminal"
  /\ UNCHANGED <<osVars, ctx, canceled, outcome, waited, pipeVars, readerVars, control>>

(* The context is done before the command is started.                      *)
CanceledBeforeStart ==
  /\ pc = "new"
  /\ ctx
  /\ startErr' = TRUE
  /\ canceled' = TRUE
  /\ pc' = "terminal"
  /\ UNCHANGED <<osVars, ctx, err, outcome, waited, pipeVars, readerVars, control>>

Prepared ==
  /\ pc = "new"
  /\ ~ctx
  /\ pc' = "start"
  /\ UNCHANGED <<osVars, ctx, startErr, canceled, err, outcome, waited,
                 pipeVars, readerVars, control>>

StartFails ==
  /\ pc = "start"
  /\ startErr' = TRUE
  /\ err' = TRUE
  /\ pc' = "terminal"
  /\ UNCHANGED <<osVars, ctx, canceled, outcome, waited, pipeVars, readerVars, control>>

StartCommand ==
  /\ pc = "start"
  /\ leader' = "alive"
  /\ pc' = "report"
  /\ UNCHANGED <<child, escaped, killed, written, own, ctx, startErr, canceled,
                 err, outcome, waited, pipeVars, readerVars, control>>

(* The start is reported, or the context ends first; then the waiting and  *)
(* the reading goroutines are started.                                     *)
ReportStart ==
  /\ pc = "report"
  /\ pc' = "await"
  /\ reader' = [s \in Streams |-> "read"]
  /\ UNCHANGED <<osVars, ctx, startErr, canceled, err, outcome, waited,
                 pipeVars, taken, delivered, control>>

(* command.Wait: the process is reaped first, its result is sent later.    *)
Reap ==
  /\ pc \notin {"new", "start", "report"}
  /\ leader = "exited"
  /\ leader' = "reaped"
  /\ UNCHANGED <<child, escaped, killed, written, own, ctx, runVars, waited,
                 pipeVars, readerVars, control>>

WaitReturns ==
  /\ leader = "reaped"
  /\ ~waited
  /\ waited' = TRUE
  /\ UNCHANGED <<osVars, ctx, runVars, pipeVars, readerVars, control>>

(* Slip: a command that has exited is reported like a canceled one.        *)
AwaitWithoutOutcome ==
  /\ pc = "await"
  /\ waited \/ ctx
  /\ canceled' = TRUE
  /\ pc' = "grace"
  /\ UNCHANGED <<osVars, ctx, startErr, err, outcome, waited, pipeVars,
                 readerVars, control>>

(* awaitProcessCompletion: the command has ended, or the context has and   *)
(* the command is still there.  The group is sent SIGTERM in any case.     *)
AwaitCompletion ==
  /\ pc = "await"
  /\ \/ waited /\ canceled' = FALSE
     \/ ctx /\ canceled' = (leader # "reaped")
  /\ pc' = "grace"
  /\ UNCHANGED <<osVars, ctx, startErr, err, outcome, waited, pipeVars,
                 readerVars, control>>

(* Slip: the pipes stay open.                                              *)
KeepPipes == UNCHANGED pipeVars

(* terminateProcess is given the pipes when the command is canceled.       *)
ClosePipes ==
  /\ inClosed' = (inClosed \/ canceled)
  /\ outClosed' = IF canceled THEN Streams ELSE outClosed
  /\ UNCHANGED deadline

(* waitForProcessInvocation: the command is reaped and its group is gone.  *)
GroupGone ==
  /\ pc = "grace"
  /\ leader = "reaped"
  /\ ~child
  /\ ClosePipes
  /\ pc' = "wait"
  /\ UNCHANGED <<osVars, ctx, startErr, canceled, err, outcome, waited,
                 readerVars, control>>

(* Slip: the group is asked to terminate and nothing more.                 *)
GiveUp ==
  /\ pc = "grace"
  /\ ClosePipes
  /\ pc' = "wait"
  /\ UNCHANGED <<osVars, ctx, startErr, canceled, err, outcome, waited,
                 readerVars, control>>

(* The grace period is over, or the group can not be inspected: SIGKILL.   *)
Kill ==
  /\ pc = "grace"
  /\ killed' = TRUE
  /\ ClosePipes
  /\ pc' = "wait"
  /\ UNCHANGED <<leader, child, escaped, written, own, ctx, startErr, canceled,
                 err, outcome, waited, readerVars, control>>

(* Slip: the parent's end of the input stays open.                         *)
FinishKeepingInput ==
  /\ pc = "wait"
  /\ waited
  /\ deadline' = IF canceled THEN {} ELSE Streams
  /\ pc' = "workers"
  /\ UNCHANGED <<osVars, ctx, startErr, canceled, err, outcome, waited, inClosed,
                 outClosed, readerVars, control>>

(* The result of Wait is there: captures and input are closed.  Unless the *)
(* command was canceled, finishOutput wakes each reader by a deadline, or  *)
(* closes its output when that fails.                                      *)
Finish ==
  /\ pc = "wait"
  /\ waited
  /\ inClosed' = TRUE
  /\ \/ /\ canceled
        /\ UNCHANGED <<outClosed, deadline, err>>
     \/ /\ ~canceled
        /\ \E refused \in SUBSET Streams :
             /\ deadline' = Streams \ refused
             /\ outClosed' = refused
             /\ err' = (refused # {})
  /\ pc' = "workers"
  /\ UNCHANGED <<osVars, ctx, startErr, canceled, outcome, waited, readerVars, control>>

ReaderEnded(s) == reader[s] \in {"done", "failed"}

(* workers.Wait, then the outputs are closed.                              *)
WorkersWait ==
  /\ pc = "workers"
  /\ \A s \in Streams : ReaderEnded(s)
  /\ outClosed' = Streams
  /\ pc' = "terminal"
  /\ UNCHANGED <<osVars, ctx, startErr, canceled, err, outcome, waited, inClosed,
                 deadline, readerVars, control>>

(* processCompletionEvent: an error of any step, closing and syncing       *)
(* included, makes the last event a failure.                               *)
SendTerminalEvent ==
  /\ pc = "terminal"
  /\ \/ outcome' = "failed"
     \/ ~err /\ outcome' = IF canceled THEN "canceled" ELSE "completed"
  /\ pc' = "done"
  /\ UNCHANGED <<osVars, ctx, startErr, canceled, err, waited, pipeVars,
                 readerVars, control>>

-----------------------------------------------------------------------------
(* runProcessOutput of one stream.                                         *)

ReaderStep(s, from, to) ==
  /\ reader[s] = from
  /\ reader' = [reader EXCEPT ![s] = to]
  /\ UNCHANGED <<osVars, ctx, runVars, waited, pipeVars, control>>

(* streamProcessOutput: Read returns a chunk, the end of the pipe, a       *)
(* timeout or an error.                                                    *)
ReadChunk(s) ==
  /\ ReaderStep(s, "read", "send")
  /\ s \notin outClosed
  /\ taken[s] < written[s]
  /\ taken' = [taken EXCEPT ![s] = @ + 1]
  /\ UNCHANGED <<delivered>>

ReadEOF(s) ==
  /\ ReaderStep(s, "read", "done")
  /\ s \notin outClosed
  /\ taken[s] = written[s]
  /\ ~Writing
  /\ UNCHANGED <<taken, delivered>>

(* Slip: the deadline ends the stream.                                     *)
StopAtDeadline(s) ==
  /\ ReaderStep(s, "read", "done")
  /\ s \in deadline
  /\ UNCHANGED <<taken, delivered>>

(* The read times out: what is in the pipe is drained.                     *)
BeginDrain(s) ==
  /\ ReaderStep(s, "read", "drain")
  /\ s \in deadline
  /\ s \notin outClosed
  /\ UNCHANGED <<taken, delivered>>

(* The file is closed under the reader.                                    *)
ReadClosed(s) ==
  /\ s \in outClosed
  /\ ReaderStep(s, "read", IF ctx THEN "done" ELSE "fail")
  /\ UNCHANGED <<taken, delivered>>

(* Reading fails for another reason; the operating system may never do so. *)
ReadFails(s) ==
  /\ ReaderStep(s, "read", "fail") \/ ReaderStep(s, "drain", "fail")
  /\ UNCHANGED <<taken, delivered>>

(* drainProcessOutput reads until the pipe is empty.                       *)
DrainChunk(s) ==
  /\ ReaderStep(s, "drain", "drain_send")
  /\ taken[s] < written[s]
  /\ taken' = [taken EXCEPT ![s] = @ + 1]
  /\ UNCHANGED <<delivered>>

DrainEnds(s) ==
  /\ ReaderStep(s, "drain", "done")
  /\ taken[s] = written[s]
  /\ UNCHANGED <<taken, delivered>>

(* sendProcessOutput: the chunk is delivered, unless the context is done.  *)
SendChunk(s) ==
  /\ ReaderStep(s, "send", "read") \/ ReaderStep(s, "drain_send", "drain")
  /\ ~ctx
  /\ delivered' = [delivered EXCEPT ![s] = @ + 1]
  /\ UNCHANGED <<taken>>

DropChunk(s) ==
  /\ ReaderStep(s, "send", "read") \/ ReaderStep(s, "drain_send", "done")
  /\ ctx
  /\ UNCHANGED <<taken, delivered>>

SendStreamFailure(s) ==
  /\ ReaderStep(s, "fail", "failed")
  /\ UNCHANGED <<taken, delivered>>

-----------------------------------------------------------------------------
(* The controls.                                                           *)

ControlStep(c, from, to) ==
  /\ control[c] = from
  /\ control' = [control EXCEPT ![c] = to]
  /\ UNCHANGED <<osVars, ctx, runVars, waited, outClosed, deadline, readerVars>>

Request(c) ==
  /\ ControlStep(c, "none", "prepare")
  /\ UNCHANGED inClosed

Ready == pc \notin {"new", "start"}   \* the channel ready is closed

(* prepareControl: the invocation must have been started and not be over.  *)
ProcessDone(c) ==
  \/ startErr
  \/ ctx
  \/ IF ControlKind[c] = "signal_group" THEN ~GroupExists ELSE leader = "reaped"

PrepareControl(c) ==
  /\ Ready
  /\ ControlStep(c, "prepare", IF ProcessDone(c) THEN "failed" ELSE "act")
  /\ UNCHANGED inClosed

(* The context of the control itself ends before it acts.                  *)
ControlCanceled(c) ==
  /\ ControlStep(c, "prepare", "canceled")
  /\ UNCHANGED inClosed

(* Whoever holds the input reads what is written, or gives the input up;   *)
(* until then the write may block.                                         *)
InputTaken(c) ==
  /\ ControlKind[c] = "write"
  /\ \E answer \in {"ok", "failed"} : ControlStep(c, "act", answer)
  /\ ~inClosed
  /\ Writing
  /\ UNCHANGED inClosed

(* The write fails when the input is closed or nobody can read it.         *)
InputWriteFails(c) ==
  /\ ControlKind[c] = "write"
  /\ ControlStep(c, "act", "failed")
  /\ inClosed \/ ~Writing
  /\ UNCHANGED inClosed

CloseInput(c) ==
  /\ ControlKind[c] = "close"
  /\ \E answer \in {"ok", "failed"} : ControlStep(c, "act", answer)
  /\ inClosed' = TRUE

(* The signal is sent, or finds the process gone.                          *)
Signal(c) ==
  /\ ControlKind[c] \in {"signal", "signal_group"}
  /\ \E answer \in {"ok", "failed"} : ControlStep(c, "act", answer)
  /\ UNCHANGED inClosed

-----------------------------------------------------------------------------
Run ==
  \/ PrepareFails \/ CanceledBeforeStart \/ Prepared
  \/ StartFails \/ StartCommand \/ ReportStart
  \/ AwaitCompletion
  \/ GroupGone \/ Kill
  \/ Finish \/ WorkersWait \/ SendTerminalEvent

Wait == Reap \/ WaitReturns

ReadOutput(s) ==
  \/ ReadChunk(s) \/ ReadEOF(s) \/ BeginDrain(s) \/ ReadClosed(s)
  \/ DrainChunk(s) \/ DrainEnds(s)
  \/ SendChunk(s) \/ DropChunk(s) \/ SendStreamFailure(s)

(* What a control does by itself, without anybody taking its input.        *)
ControlRuns(c) ==
  PrepareControl(c) \/ InputWriteFails(c) \/ CloseInput(c) \/ Signal(c)

Next ==
  \/ Spawn \/ LeaderExits \/ ChildExits \/ EscapedExits
  \/ \E s \in Streams : WriteOutput(s)
  \/ Cancel
  \/ Run
  \/ Wait
  \/ \E s \in Streams : ReadOutput(s) \/ ReadFails(s)
  \/ \E c \in Controls :
       Request(c) \/ ControlCanceled(c) \/ InputTaken(c) \/ ControlRuns(c)

Spec == Init /\ [][Next]_vars

(* Fairness: the goroutines run, and SIGKILL ends the command.  Nothing is *)
(* assumed about a command or a descendant that was not killed.            *)
FairSpec ==
  /\ Spec
  /\ WF_vars(Run)
  /\ WF_vars(Wait)
  /\ \A s \in Streams : WF_vars(ReadOutput(s))
  /\ \A c \in Controls : WF_vars(ControlRuns(c))
  /\ WF_vars(killed /\ LeaderExits)

-----------------------------------------------------------------------------
(* Properties.                                                             *)

TypeOK ==
  /\ leader \in {"none", "alive", "exited", "reaped"}
  /\ child \in BOOLEAN /\ escaped \in BOOLEAN /\ killed \in BOOLEAN
  /\ ctx \in BOOLEAN /\ startErr \in BOOLEAN /\ waited \in BOOLEAN
  /\ canceled \in BOOLEAN /\ err \in BOOLEAN /\ inClosed \in BOOLEAN
  /\ outClosed \subseteq Streams /\ deadline \subseteq Streams
  /\ pc \in {"new", "start", "report", "await", "grace", "wait", "workers",
             "terminal", "done"}
  /\ outcome \in {"none", "completed", "failed", "canceled"}
  /\ reader \in [Streams -> {"none", "read", "send", "drain", "drain_send", "fail",
                             "done", "failed"}]
  /\ written \in [Streams -> Nat] /\ own \in [Streams -> Nat]
  /\ taken \in [Streams -> Nat] /\ delivered \in [Streams -> Nat]
  /\ control \in [Controls -> {"none", "prepare", "act", "ok", "failed", "canceled"}]

(* What runProcess has seen at each point: the command runs from the start *)
(* that is reported, is reaped before its outputs are finished, and nobody *)
(* of its group is left unkilled once the grace period is over.            *)
Stages ==
  /\ (leader = "none") = (pc \in {"new", "start"} \/ startErr)
  /\ leader = "none" => ~child /\ ~escaped
  /\ startErr => pc \in {"terminal", "done"} /\ (err \/ canceled)
  /\ canceled => ctx
  /\ waited => leader = "reaped"
  /\ pc = "report" => leader # "reaped"
  /\ pc \in {"workers", "terminal", "done"} /\ ~startErr => waited
  /\ pc \in {"wait", "workers", "terminal", "done"} /\ ~startErr =>
       killed \/ (leader = "reaped" /\ ~child)
  /\ pc # "done" => outcome = "none"

(* What the readers have done: while the context is not done, all that was *)
(* read is delivered but for the chunk at hand, and a reader ends well only*)
(* when the command can write no more and all it wrote was read.           *)
Outputs ==
  /\ deadline # {} => waited /\ pc \in {"workers", "terminal", "done"}
  /\ \A s \in Streams :
       /\ delivered[s] <= taken[s] /\ taken[s] <= written[s]
       /\ own[s] <= written[s] /\ written[s] <= MaxOutput
       /\ (reader[s] = "none") = (leader = "none" \/ pc = "report")
       /\ leader = "none" => written[s] = 0
       /\ reader[s] \in {"drain", "drain_send"} => s \in deadline
       /\ ~ctx => taken[s] = delivered[s]
                             + IF reader[s] \in {"send", "drain_send"} THEN 1 ELSE 0
       /\ ~ctx /\ reader[s] = "done" =>
            leader \in {"exited", "reaped"} /\ own[s] <= taken[s]

(* The last event is the last one: no reader is left that could still send *)
(* output or a failure of its stream for an invocation that is over.       *)
TerminalEventIsLast ==
  pc \in {"terminal", "done"} /\ leader # "none" => \A s \in Streams : ReaderEnded(s)

(* When the exit of a command is reported, everything the command wrote to *)
(* a pipe has been delivered, even though descendants may hold the pipe    *)
(* open; a canceled context and a reported stream failure excuse from it.  *)
OutputComplete ==
  pc = "done" /\ outcome = "completed" /\ ~ctx =>
    \A s \in Streams : reader[s] = "failed" \/ delivered[s] >= own[s]

(* No process of the group outlives the invocation: the command is reaped, *)
(* and a descendant in its group has ended or has been sent SIGKILL.       *)
GroupIsCleanedUp ==
  pc = "done" /\ leader # "none" => leader = "reaped" /\ (child => killed)

(* The types of the invocation's state, what holds when it is over, and    *)
(* what holds on the way there: an inductive invariant.                    *)
ProcessInv ==
  TypeOK /\ Stages /\ Outputs /\ TerminalEventIsLast /\ GroupIsCleanedUp

Stage ==
  CASE pc \in {"new", "start"} -> "new"
    [] pc = "report" -> "started"
    [] pc = "done" -> "ended"
    [] pc = "terminal" /\ startErr -> "new"
    [] OTHER -> "reported"

Contract == INSTANCE ProcessContract WITH stage <- Stage

(* The events of the invocation are those OperationManager relies on: one  *)
(* start at most, one end, and "canceled" only when the context is done.   *)
ImplementsContract == Contract!ContractSpec

(* A canceled invocation comes to its end, whatever the command ignores    *)
(* and whoever holds its pipes.  So does one whose command exits, once     *)
(* descendants stop writing to the pipe (MaxOutput bounds what they        *)
(* write): the drain goes on for as long as they do.                       *)
InvocationEnds == ctx \/ leader = "exited" ~> pc = "done"

(* When the invocation is over, every control that was dispatched is       *)
(* answered: a write that blocked on a full pipe is interrupted.           *)
ControlsAnswered ==
  \A c \in Controls :
    pc = "done" /\ control[c] \in {"prepare", "act"}
      ~> control[c] \in {"ok", "failed", "canceled"}

=============================================================================
