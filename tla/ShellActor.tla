----------------------------- MODULE ShellActor -----------------------------
(***************************************************************************)
(* The actor of a shell operation (harness/operation/shell.go): what it    *)
(* does with a checkpoint when it is added to a manager, and with each     *)
(* primitive event.  It creates a directory and two capture files, runs    *)
(* the command with its output in the files, and reads them back.          *)
(*                                                                         *)
(* A checkpoint keeps what recovery depends on: the status, the phase,     *)
(* whether a process group is recorded and whether an exit code is; and,   *)
(* for the operations of OperationActors, how much of a file was read.     *)
(***************************************************************************)
EXTENDS Naturals

CreatePhases == {"create_directory", "create_out", "create_err"}
ReadPhases   == {"read_out", "read_out_tail", "read_err", "read_err_tail"}
Phases       == CreatePhases \cup ReadPhases \cup {"process"}

Finals == {"completed", "failed", "canceled"}

(* NewShellSpec (and its like) and toolCallContext.Submit: an operation.   *)
Ready(kind) == [kind |-> kind, status |-> "ready", phase |-> "", group |-> FALSE,
                exited |-> FALSE, content |-> 0]

(* localOperationFinished                                                  *)
Finished(op) == op.status \in Finals

(* A Step: the operation, the phase whose primitive is dispatched, or ""   *)
(* when none is, and its update: a checkpoint to be saved, or none.        *)
Step(op, dispatch)  == [op |-> op, dispatch |-> dispatch, update |-> "save"]
Quiet(op, dispatch) == [op |-> op, dispatch |-> dispatch, update |-> "none"]

Fail(op)   == Step([op EXCEPT !.status = "failed", !.phase = ""], "")
CancelOp(op) == Step([op EXCEPT !.status = "canceled", !.phase = ""], "")

(* next: the checkpoint of the phase and the primitive that performs it.   *)
NextPhase(op, phase) ==
  Step([op EXCEPT !.status = "awaiting", !.phase = phase], phase)

(* finish: the result needs the exit code.                                 *)
Finish(op) ==
  IF op.exited
  THEN Step([op EXCEPT !.status = "completed", !.phase = "", !.exited = FALSE], "")
  ELSE Fail(op)

(* Slip: an interrupted command is run again.                              *)
ResumeRestarting(op) == Step(op, op.phase)

(* resume: the primitive of the phase is dispatched again, but a command   *)
(* that may have run is never started a second time.                       *)
Resume(op) == IF op.phase = "process" THEN Fail(op) ELSE Step(op, op.phase)

(* Handle(nil): the operation is added to a manager.                       *)
AddShell(op) ==
  IF op.status = "ready" THEN NextPhase(op, "create_directory") ELSE Resume(op)

(* Slip: the captures are read without running the command.                *)
CreatedSkipping(op) ==
  NextPhase([op EXCEPT !.exited = TRUE],
            CASE op.phase = "create_directory" -> "create_out"
              [] op.phase = "create_out"       -> "create_err"
              [] op.phase = "create_err"       -> "read_out")

(* created: the next thing to create, and at last the command.             *)
Created(op) ==
  NextPhase(op, CASE op.phase = "create_directory" -> "create_out"
                  [] op.phase = "create_out"       -> "create_err"
                  [] op.phase = "create_err"       -> "process")

(* processEvent: the command has started, or exited.                       *)
ProcessStarted(op) == Step([op EXCEPT !.group = TRUE], "")
ProcessExited(op)  ==
  NextPhase([op EXCEPT !.group = FALSE, !.exited = TRUE], "read_out")

(* readCompleted: a long capture is followed by a read of its tail.        *)
ReadCompleted(op, long) ==
  CASE op.phase = "read_out" /\ long  -> NextPhase(op, "read_out_tail")
    [] op.phase = "read_out" /\ ~long -> NextPhase(op, "read_err")
    [] op.phase = "read_out_tail"     -> NextPhase(op, "read_err")
    [] op.phase = "read_err" /\ long  -> NextPhase(op, "read_err_tail")
    [] OTHER                          -> Finish(op)

(* handleAwaiting: long is what a completed read says about the capture.   *)
ShellEvent(op, event, long) ==
  CASE event = "canceled" -> CancelOp(op)
    [] event = "failed"   -> Fail(op)
    [] event = "started"  -> ProcessStarted(op)
    [] event = "completed" /\ op.phase \in CreatePhases -> Created(op)
    [] event = "completed" /\ op.phase = "process"      -> ProcessExited(op)
    [] event = "completed" /\ op.phase \in ReadPhases   -> ReadCompleted(op, long)

=============================================================================
