---------------------------- MODULE OperationActors ----------------------------
(***************************************************************************)
(* The operations of every type a manager works on (harness/operation):    *)
(* shell operations (ShellActor), values, skills, images and remote jobs,  *)
(* and those of a type, version or plan it does not know.  What each does  *)
(* when it is added, and with the events of its primitives.                *)
(*                                                                         *)
(* A skill is a file that is read and kept chunk by chunk; an image is     *)
(* read as a whole and then computed.  Their phases only name the          *)
(* primitive that runs, and are not part of what is saved.                 *)
(***************************************************************************)
EXTENDS ShellActor

CONSTANT FileChunks  \* chunks of the file of a skill or an image

ASSUME FileChunksAssumption == FileChunks \in Nat

Kinds == {"shell", "value", "skill", "image", "remote", "unsupported"}

FilePhases    == {"skill_read", "image_read"}
ComputePhases == {"image_process", "image_diagnose"}

Checkpoint ==
  [kind : Kinds,
   status : {"ready", "awaiting", "canceling", "unsupported"} \cup Finals,
   phase : Phases \cup FilePhases \cup ComputePhases \cup {""},
   group : BOOLEAN, exited : BOOLEAN, content : 0 .. FileChunks]

(* What is saved of an operation.  The chunks of an image are not; those a *)
(* completed one was made of are kept here to say so.                      *)
Durable(op) ==
  IF op.kind # "image" \/ op.status = "completed" THEN op
  ELSE [op EXCEPT !.phase = IF Finished(op) THEN "" ELSE "image_read", !.content = 0]

(* StatusUnsupported: the manager has let go of it, though not in a final  *)
(* status.                                                                 *)
Unsupported(op) == [op EXCEPT !.status = "unsupported"]
Ended(op) == Finished(op) \/ op.status = "unsupported"

Complete(op) == Step([op EXCEPT !.status = "completed", !.phase = ""], "")

-----------------------------------------------------------------------------
(* AdvanceSkillUse: a read from where the content ends.                    *)
AddSkill(op) == NextPhase(op, "skill_read")

(* advanceAwaitingSkillUse: output must continue the content, ...          *)
SkillOutput(op, offset) ==
  IF offset = op.content THEN Step([op EXCEPT !.content = @ + 1], "") ELSE Fail(op)

(* ... which at the end must be the file.                                  *)
SkillEvent(op, event, offset) ==
  CASE event = "canceled"  -> CancelOp(op)
    [] event = "failed"    -> Fail(op)
    [] event = "output"    -> SkillOutput(op, offset)
    [] event = "completed" -> IF op.content = FileChunks THEN Complete(op) ELSE Fail(op)

(* ViewImage.read: from the beginning, whatever was read before.           *)
AddImage(op) == NextPhase([op EXCEPT !.content = 0], "image_read")

(* process: a computation on the chunks, or, after a failure or for a file *)
(* that is too long, one that only finds out what can be said about it.    *)
Process(op, phase) == Quiet([op EXCEPT !.phase = phase], phase)

(* handleEvent, handleRead and processed; large is what a completed read   *)
(* says of the file, or a computation of its result.                       *)
ImageEvent(op, event, large) ==
  CASE event = "canceled" -> CancelOp(op)
    [] event = "failed" ->
         IF op.phase = "image_read" /\ op.content > 0
         THEN Process(op, "image_diagnose") ELSE Fail(op)
    [] event = "output" -> Quiet([op EXCEPT !.content = @ + 1], "")
    [] event = "completed" /\ op.phase = "image_read" ->
         Process(op, IF large THEN "image_diagnose" ELSE "image_process")
    [] event = "completed" /\ op.phase = "image_process" ->
         IF large THEN Fail(op) ELSE Complete(op)
    [] event = "completed" /\ op.phase = "image_diagnose" -> Fail(op)

-----------------------------------------------------------------------------
(* validRemoteJobStatusTransition                                          *)
RemoteStatuses == {"ready", "awaiting", "canceling"} \cup Finals

ValidRemoteTransition(from, to) ==
  CASE from \in {"ready", "awaiting"} -> to \in {"awaiting", "canceling"} \cup Finals
    [] from = "canceling"            -> to \in {"canceling", "failed", "canceled"}
    [] OTHER                         -> FALSE

(* initialize and handle(nil), by type; AdvanceValue ends at once.         *)
HandleAdd(op) ==
  CASE op.kind = "shell" -> AddShell(op)
    [] op.kind = "skill" -> AddSkill(op)
    [] op.kind = "image" -> AddImage(op)
    [] op.kind = "value" -> Complete(op)
    [] op.kind = "unsupported" -> Step(Unsupported(op), "")

(* handle(event), by type.  flag is what a completion tells besides, offset*)
(* where in the file an output begins.                                     *)
HandleEvent(op, event, flag, offset) ==
  CASE op.kind = "shell" -> ShellEvent(op, event, flag)
    [] op.kind = "skill" -> SkillEvent(op, event, offset)
    [] op.kind = "image" -> ImageEvent(op, event, flag)

=============================================================================
