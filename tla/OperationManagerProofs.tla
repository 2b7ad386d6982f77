----------------------- MODULE OperationManagerProofs -----------------------
(***************************************************************************)
(* ManagerInv of OperationManager is inductive, for any set of operations  *)
(* of any types and any bounds.  The proof goes by the actors first (what  *)
(* HandleAdd and HandleEvent make of a checkpoint), then by acceptLocalStep*)
(* for a step of that shape, then by the manager's actions.  What the      *)
(* manager promises is proved from it in the second half.                  *)
(***************************************************************************)
EXTENDS OperationManager, FiniteSetTheorems, TLAPS

-----------------------------------------------------------------------------
(* The actors.                                                             *)

(* What a step makes of an operation: a checkpoint of the same type, with  *)
(* the primitive of its phase dispatched, or none when it has ended.       *)
GoodStep(op, step) ==
  /\ step.op \in Checkpoint /\ Fits(step.op)
  /\ step.op.kind = op.kind
  /\ step.op.kind = "image" => step.op.status # "ready"
  /\ \/ step.update = "save"
     \/ step.update = "none" /\ ~Ended(step.op) /\ Durable(step.op) = Durable(op)

Dispatches(step) ==
  IF Ended(step.op) THEN step.dispatch = ""
  ELSE step.dispatch = step.op.phase /\ step.dispatch # ""

(* Each way an actor changes a checkpoint.                                 *)
LEMMA FieldsAre ==
  ASSUME NEW op \in Checkpoint
  PROVE  /\ op.kind \in Kinds /\ op.group \in BOOLEAN /\ op.exited \in BOOLEAN
         /\ op.content \in 0 .. FileChunks
         /\ op.status \in {"ready", "awaiting", "canceling", "unsupported"} \cup Finals
         /\ op.phase \in Phases \cup FilePhases \cup ComputePhases \cup {""}
BY DEF Checkpoint

(* The fields of a step that dispatches a primitive, or none.              *)
LEMMA StepIs ==
  ASSUME NEW o, NEW d
  PROVE  Step(o, d).op = o /\ Step(o, d).dispatch = d /\ Step(o, d).update = "save"
BY DEF Step

(* Where a file is read from first.                                        *)
LEMMA NoContent == 0 \in 0 .. FileChunks
BY FileChunksAssumption

(* Another length of what was read is another checkpoint of the same type. *)
LEMMA ContentIs ==
  ASSUME NEW op \in Checkpoint, NEW n \in 0 .. FileChunks
  PROVE  LET o == [op EXCEPT !.content = n]
         IN  /\ o \in Checkpoint /\ o.content = n
             /\ o.kind = op.kind /\ o.status = op.status /\ o.phase = op.phase
BY DEF Checkpoint

(* A completed operation dispatches nothing.                               *)
LEMMA CompleteIs ==
  ASSUME NEW op \in Checkpoint, Fits(op), op.kind # "unsupported"
  PROVE  /\ GoodStep(op, Complete(op)) /\ Dispatches(Complete(op))
         /\ Complete(op).op.status = "completed" /\ Complete(op).op.phase = ""
         /\ Complete(op).update = "save"
BY DEF Complete, Step, GoodStep, Dispatches, Fits, Ended, Finished, Finals, Checkpoint

(* failLocalOperation makes a checkpoint of the same type.                 *)
LEMMA FailIs ==
  ASSUME NEW op \in Checkpoint, Fits(op), op.kind \notin {"value", "unsupported"}
  PROVE  /\ GoodStep(op, Fail(op)) /\ Dispatches(Fail(op))
         /\ Fail(op).op.status = "failed" /\ Fail(op).op.phase = "" /\ Fail(op).update = "save"
BY DEF Fail, Step, GoodStep, Dispatches, Fits, Ended, Finished, Finals, Checkpoint

(* A canceled operation dispatches nothing.                                *)
LEMMA CancelIs ==
  ASSUME NEW op \in Checkpoint, Fits(op), op.kind \notin {"value", "unsupported"}
  PROVE  /\ GoodStep(op, CancelOp(op)) /\ Dispatches(CancelOp(op))
         /\ CancelOp(op).op.status = "canceled" /\ CancelOp(op).op.phase = ""
         /\ CancelOp(op).update = "save"
BY DEF CancelOp, Step, GoodStep, Dispatches, Fits, Ended, Finished, Finals, Checkpoint

(* The step to the next phase of an operation.                             *)
LEMMA NextPhaseIs ==
  ASSUME NEW op \in Checkpoint, Fits(op), NEW phase \in PhasesOf(op.kind),
         op.kind \in {"shell", "skill", "image"}
  PROVE  /\ GoodStep(op, NextPhase(op, phase)) /\ Dispatches(NextPhase(op, phase))
         /\ NextPhase(op, phase).op.phase = phase
         /\ NextPhase(op, phase).op.status = "awaiting" /\ NextPhase(op, phase).update = "save"
BY DEF NextPhase, Step, GoodStep, Dispatches, Fits, Ended, Finished, Finals, Checkpoint,
       PhasesOf, Phases, CreatePhases, ReadPhases, ComputePhases, FilePhases

(* handle(nil): an operation that is added ends, or has the primitive of   *)
(* its phase dispatched.                                                   *)
LEMMA AddIs ==
  ASSUME NEW op \in Checkpoint, Fits(op), ~Ended(op), op.kind # "remote"
  PROVE  /\ GoodStep(op, HandleAdd(op)) /\ Dispatches(HandleAdd(op))
         /\ HandleAdd(op).update = "save"
         /\ HandleAdd(op).op.phase = "image_read" => HandleAdd(op).op.content = 0
<1>1. CASE op.kind = "shell"
  <2>1. CASE op.status = "ready"
    <3>1. "create_directory" \in PhasesOf("shell")
      BY DEF PhasesOf, Phases, CreatePhases
    <3> QED
      BY <1>1, <2>1, <3>1, NextPhaseIs DEF HandleAdd, AddShell
  <2>2. CASE op.status # "ready"
    <3>1. op.status = "awaiting" /\ op.phase \in Phases
      BY <1>1, <2>2, FieldsAre DEF Fits, Ended, Finished, PhasesOf
    <3>2. CASE op.phase = "process"
      BY <1>1, <2>2, <3>2, FailIs DEF HandleAdd, AddShell, Resume
    <3>3. CASE op.phase # "process"
      <4>1. HandleAdd(op) = Step(op, op.phase)
        BY <1>1, <2>2, <3>3 DEF HandleAdd, AddShell, Resume
      <4>2. HandleAdd(op).op = op /\ HandleAdd(op).dispatch = op.phase /\ HandleAdd(op).update = "save"
        BY <4>1, StepIs
      <4> QED
        BY <3>1, <4>2 DEF GoodStep, Dispatches, Phases, CreatePhases, ReadPhases
    <3> QED
      BY <3>2, <3>3
  <2> QED
    BY <2>1, <2>2
<1>2. CASE op.kind = "skill"
  <2>1. "skill_read" \in PhasesOf("skill")
    BY DEF PhasesOf
  <2> QED
    BY <1>2, <2>1, NextPhaseIs DEF HandleAdd, AddSkill
<1>3. CASE op.kind = "image"
  <2> DEFINE o == [op EXCEPT !.content = 0]
  <2>1. HandleAdd(op) = NextPhase(o, "image_read")
    BY <1>3 DEF HandleAdd, AddImage
  <2>2. /\ o \in Checkpoint /\ o.kind = "image" /\ o.content = 0
        /\ o.status = op.status /\ o.phase = op.phase
    BY <1>3, FileChunksAssumption, ContentIs
  <2> HIDE DEF o
  <2>3. Fits(o) /\ "image_read" \in PhasesOf("image")
    BY <1>3, <2>2 DEF Fits, PhasesOf
  <2>4. /\ GoodStep(o, NextPhase(o, "image_read")) /\ Dispatches(NextPhase(o, "image_read"))
        /\ NextPhase(o, "image_read").update = "save"
    BY <2>2, <2>3, NextPhaseIs
  <2>5. NextPhase(o, "image_read").op.content = 0
    BY <2>2 DEF NextPhase, Step, Checkpoint
  <2> QED
    BY <1>3, <2>1, <2>2, <2>4, <2>5 DEF GoodStep
<1>4. CASE op.kind = "value"
  <2>1. HandleAdd(op) = Complete(op)
    BY <1>4 DEF HandleAdd
  <2> QED
    BY <1>4, <2>1, CompleteIs
<1>5. CASE op.kind = "unsupported"
  <2> DEFINE o == Unsupported(op)
  <2>1. HandleAdd(op) = Step(o, "")
    BY <1>5 DEF HandleAdd
  <2>2. o \in Checkpoint /\ o.kind = op.kind /\ o.status = "unsupported" /\ o.phase = op.phase
    BY DEF Unsupported, Checkpoint
  <2> HIDE DEF o
  <2>3. Fits(o) /\ Ended(o) /\ o.phase = ""
    BY <1>5, <2>2 DEF Fits, Ended
  <2>4. HandleAdd(op).op = o /\ HandleAdd(op).dispatch = "" /\ HandleAdd(op).update = "save"
    <3>1. Step(o, "").op = o /\ Step(o, "").dispatch = "" /\ Step(o, "").update = "save"
      BY DEF Step
    <3> QED
      BY <2>1, <3>1
  <2> QED
    BY <2>2, <2>3, <2>4 DEF GoodStep, Dispatches
<1> QED
  BY <1>1, <1>2, <1>3, <1>4, <1>5 DEF Checkpoint, Kinds

(* The last event of a primitive: the operation ends, or has the primitive *)
(* of its next phase dispatched, which does not read a file.               *)
LEMMA LastEventIs ==
  ASSUME NEW op \in Checkpoint, Fits(op), op.status = "awaiting", op.kind # "remote",
         NEW event \in {"completed", "failed", "canceled"}, NEW flag \in BOOLEAN, NEW offset
  PROVE  LET step == HandleEvent(op, event, flag, offset)
         IN  /\ GoodStep(op, step) /\ Dispatches(step)
             /\ step.op.phase \notin FilePhases
             /\ event = "canceled" => step.op.status = "canceled"
<1> DEFINE step == HandleEvent(op, event, flag, offset)
<1>1. op.phase \in PhasesOf(op.kind) /\ op.kind \in {"shell", "skill", "image"}
  BY DEF Fits, PhasesOf, Checkpoint, Kinds
<1>2. /\ GoodStep(op, Fail(op)) /\ Dispatches(Fail(op))
      /\ GoodStep(op, CancelOp(op)) /\ Dispatches(CancelOp(op))
      /\ Fail(op).op.phase = "" /\ CancelOp(op).op.phase = ""
      /\ CancelOp(op).op.status = "canceled"
  BY <1>1, FailIs, CancelIs
<1>3. CASE op.kind = "shell"
  <2>1. step = ShellEvent(op, event, flag)
    BY <1>3 DEF HandleEvent
  <2>2. \A phase \in Phases \ FilePhases :
          /\ GoodStep(op, NextPhase(op, phase)) /\ Dispatches(NextPhase(op, phase))
          /\ NextPhase(op, phase).op.phase \notin FilePhases
    BY <1>3, NextPhaseIs DEF PhasesOf
  <2>3. CASE event = "completed" /\ op.phase \in CreatePhases
    <3>1. step = Created(op)
      BY <2>1, <2>3 DEF ShellEvent, CreatePhases, ReadPhases
    <3>2. PICK phase \in Phases \ FilePhases : step = NextPhase(op, phase)
      BY <2>3, <3>1 DEF Created, CreatePhases, Phases, FilePhases
    <3> QED
      BY <2>2, <2>3, <3>2
  <2>4. CASE event = "completed" /\ op.phase = "process"
    <3> DEFINE o == [op EXCEPT !.group = FALSE, !.exited = TRUE]
    <3>1. step = NextPhase(o, "read_out")
      BY <2>1, <2>4 DEF ShellEvent, ProcessExited, CreatePhases, ReadPhases
    <3>2. /\ o \in Checkpoint /\ o.kind = op.kind /\ o.status = op.status /\ o.phase = op.phase
      BY DEF Checkpoint
    <3> HIDE DEF o
    <3>3. Fits(o) /\ "read_out" \in PhasesOf("shell") \ FilePhases
      BY <3>2 DEF Fits, PhasesOf, Phases, ReadPhases, FilePhases
    <3>4. /\ GoodStep(o, step) /\ Dispatches(step) /\ step.op.phase = "read_out"
          /\ step.update = "save"
      BY <1>3, <3>1, <3>2, <3>3, NextPhaseIs
    <3> QED
      BY <2>4, <3>2, <3>3, <3>4 DEF GoodStep
  <2>5. CASE event = "completed" /\ op.phase \in ReadPhases
    <3>1. step = ReadCompleted(op, flag)
      BY <2>1, <2>5 DEF ShellEvent, CreatePhases, ReadPhases
    <3>2. CASE step = Finish(op)
      <4>1. CASE op.exited
        <5> DEFINE o == [op EXCEPT !.status = "completed", !.phase = "", !.exited = FALSE]
        <5>0. step = Step(o, "")
          BY <3>2, <4>1 DEF Finish
        <5>2. o \in Checkpoint /\ o.kind = "shell" /\ o.status = "completed" /\ o.phase = ""
          BY <1>3 DEF Checkpoint, Finals
        <5> HIDE DEF o
        <5>1. Step(o, "").op = o /\ Step(o, "").dispatch = "" /\ Step(o, "").update = "save"
          BY DEF Step
        <5>3. Fits(o) /\ Ended(o)
          BY <5>2 DEF Fits, Ended, Finished, Finals
        <5>4. LET s == Step(o, "")
              IN  GoodStep(op, s) /\ Dispatches(s) /\ s.op.phase \notin FilePhases
          BY <1>3, <5>1, <5>2, <5>3 DEF GoodStep, Dispatches, FilePhases
        <5> QED
          BY <2>5, <5>0, <5>4
      <4>2. CASE ~op.exited
        BY <1>2, <2>5, <3>2, <4>2 DEF Finish, FilePhases
      <4> QED
        BY <4>1, <4>2
    <3>3. CASE step # Finish(op)
      <4>1. PICK phase \in Phases \ FilePhases : step = NextPhase(op, phase)
        BY <2>5, <3>1, <3>3 DEF ReadCompleted, Phases, ReadPhases, FilePhases
      <4> QED
        BY <2>2, <2>5, <4>1
    <3> QED
      BY <3>2, <3>3
  <2>6. CASE event # "completed"
    BY <1>2, <2>1, <2>6 DEF ShellEvent, FilePhases
  <2> QED
    BY <1>1, <1>3, <2>3, <2>4, <2>5, <2>6 DEF PhasesOf, Phases
<1>4. CASE op.kind = "skill"
  <2>1. step = SkillEvent(op, event, offset)
    BY <1>4 DEF HandleEvent
  <2>2. CASE step = Complete(op)
    <3>1. event # "canceled"
      BY <1>2, <1>4, <2>1, <2>2, CompleteIs DEF SkillEvent
    <3> QED
      BY <1>4, <2>2, <3>1, CompleteIs DEF FilePhases
  <2>3. CASE step # Complete(op)
    BY <1>2, <2>1, <2>3 DEF SkillEvent, FilePhases
  <2> QED
    BY <2>2, <2>3
<1>5. CASE op.kind = "image"
  <2>1. step = ImageEvent(op, event, flag)
    BY <1>5 DEF HandleEvent
  <2>2. op.phase \in {"image_read", "image_process", "image_diagnose"}
    BY <1>1, <1>5 DEF PhasesOf, ComputePhases
  <2>3. \A phase \in ComputePhases :
          /\ GoodStep(op, Process(op, phase)) /\ Dispatches(Process(op, phase))
          /\ Process(op, phase).op.phase \notin FilePhases
    BY <1>5, ZenonT(60) DEF Process, Quiet, GoodStep, Dispatches, Fits, PhasesOf, Durable, Ended, Finished,
                Finals, Checkpoint, ComputePhases, FilePhases
  <2>4. GoodStep(op, Complete(op)) /\ Dispatches(Complete(op)) /\ Complete(op).op.phase = ""
    BY <1>5, CompleteIs
  <2>5. CASE event = "canceled"
    BY <1>2, <2>1, <2>5 DEF ImageEvent, FilePhases
  <2>6. CASE event # "canceled"
    <3>1. step \in {Fail(op), Complete(op), Process(op, "image_process"), Process(op, "image_diagnose")}
      BY <2>1, <2>2, <2>6 DEF ImageEvent
    <3> QED
      BY <1>2, <2>3, <2>4, <2>6, <3>1 DEF ComputePhases, FilePhases
  <2> QED
    BY <2>5, <2>6
<1> QED
  BY <1>1, <1>3, <1>4, <1>5

(* An event on the way: the primitive of the phase goes on.                *)
LEMMA EventOnTheWayIs ==
  ASSUME NEW op \in Checkpoint, Fits(op), op.status = "awaiting", op.kind # "remote",
         NEW event, NEW flag \in BOOLEAN, NEW offset \in 0 .. FileChunks,
         \/ event = "started" /\ op.phase = "process"
         \/ event = "output" /\ op.phase \in FilePhases /\ offset = op.content
              /\ op.content < FileChunks
  PROVE  LET step == HandleEvent(op, event, flag, offset)
         IN  /\ GoodStep(op, step) /\ step.dispatch = ""
             /\ step.op.status = "awaiting" /\ step.op.phase = op.phase
             /\ event = "output" => step.op.content = op.content + 1
<1>1. CASE event = "started"
  <2>1. op.kind = "shell"
    BY <1>1 DEF Fits, PhasesOf, ComputePhases, FilePhases
  <2> DEFINE o == [op EXCEPT !.group = TRUE]
  <2>2. HandleEvent(op, event, flag, offset) = Step(o, "")
    BY <1>1, <2>1 DEF HandleEvent, ShellEvent, ProcessStarted
  <2>3. /\ o \in Checkpoint /\ o.kind = op.kind /\ o.status = op.status
        /\ o.phase = op.phase /\ o.content = op.content
    BY DEF Checkpoint
  <2> HIDE DEF o
  <2>4. Fits(o)
    BY <2>3 DEF Fits
  <2> QED
    <3> DEFINE step == HandleEvent(op, event, flag, offset)
    <3>0. Step(o, "").op = o /\ Step(o, "").dispatch = "" /\ Step(o, "").update = "save"
      BY DEF Step
    <3>1. step.op = o /\ step.dispatch = "" /\ step.update = "save"
      BY <2>2, <3>0
    <3> HIDE DEF step
    <3>2. GoodStep(op, step)
      BY <2>3, <2>4, <3>1 DEF GoodStep
    <3> QED
      BY <1>1, <2>3, <3>1, <3>2 DEF step
<1>2. CASE event = "output"
  <2> DEFINE o == [op EXCEPT !.content = @ + 1]
             step == HandleEvent(op, event, flag, offset)
  <2>0. op.content \in 0 .. FileChunks
    BY FieldsAre
  <2>1. op.content + 1 \in 0 .. FileChunks
    BY <1>2, <2>0, FileChunksAssumption
  <2>2. /\ o \in Checkpoint /\ o.content = op.content + 1
        /\ o.kind = op.kind /\ o.status = op.status /\ o.phase = op.phase
    BY <2>1, ContentIs
  <2>3. op.kind = "skill" \/ op.kind = "image"
    BY <1>2 DEF Fits, PhasesOf, Phases, CreatePhases, ReadPhases, FilePhases, Checkpoint, Kinds
  <2>4. CASE op.kind = "skill"
    <3>1. HandleEvent(op, event, flag, offset) = Step(o, "")
      BY <1>2, <2>4 DEF HandleEvent, SkillEvent, SkillOutput
    <3> HIDE DEF o
    <3>0. Step(o, "").op = o /\ Step(o, "").dispatch = "" /\ Step(o, "").update = "save"
      BY DEF Step
    <3>2. step.op = o /\ step.dispatch = "" /\ step.update = "save"
      BY <3>1, <3>0
    <3> HIDE DEF step
    <3>3. GoodStep(op, step)
      BY <2>2, <3>2 DEF GoodStep, Fits
    <3> QED
      BY <1>2, <2>2, <3>2, <3>3 DEF step
  <2>5. CASE op.kind = "image"
    <3>1. HandleEvent(op, event, flag, offset) = Quiet(o, "")
      BY <1>2, <2>5 DEF HandleEvent, ImageEvent
    <3>2. Durable(o) = Durable(op)
      BY <2>5 DEF Durable, Finished, Finals, Checkpoint
    <3> HIDE DEF o
    <3>0. Quiet(o, "").op = o /\ Quiet(o, "").dispatch = "" /\ Quiet(o, "").update = "none"
      BY DEF Quiet
    <3>3. step.op = o /\ step.dispatch = "" /\ step.update = "none"
      BY <3>1, <3>0
    <3> HIDE DEF step
    <3>4. GoodStep(op, step)
      BY <2>2, <3>2, <3>3 DEF GoodStep, Fits, Ended, Finished, Finals
    <3> QED
      BY <1>2, <2>2, <3>3, <3>4 DEF step
  <2> QED
    BY <2>3, <2>4, <2>5
<1> QED
  BY <1>1, <1>2

(* What is saved of an operation.                                          *)
LEMMA DurableIs ==
  ASSUME NEW op \in Checkpoint, Fits(op), op.kind = "image" => op.status # "ready"
  PROVE  /\ Durable(op) \in Checkpoint /\ Fits(Durable(op))
         /\ Durable(op).kind = op.kind /\ Durable(op).status = op.status
         /\ Ended(Durable(op)) <=> Ended(op)
<1>1. CASE op.kind # "image" \/ op.status = "completed"
  BY <1>1 DEF Durable
<1>2. CASE ~(op.kind # "image" \/ op.status = "completed")
  <2>1. PICK phase \in {"", "image_read"} :
          /\ Durable(op) = [op EXCEPT !.phase = phase, !.content = 0]
          /\ phase = "" <=> Finished(op)
    BY <1>2 DEF Durable
  <2> DEFINE o == [op EXCEPT !.phase = phase, !.content = 0]
  <2>0. phase \in Phases \cup FilePhases \cup ComputePhases \cup {""}
    BY DEF FilePhases
  <2>2. /\ o \in Checkpoint /\ o.kind = op.kind /\ o.status = op.status /\ o.phase = phase
    BY <2>0, NoContent DEF Checkpoint
  <2> HIDE DEF o
  <2>3. Fits(o) /\ (Ended(o) <=> Ended(op))
    BY <1>2, <2>1, <2>2, FieldsAre DEF Fits, Ended, Finished, Finals, PhasesOf
  <2> QED
    BY <2>1, <2>2, <2>3 DEF o
<1> QED
  BY <1>1, <1>2

-----------------------------------------------------------------------------
(* The manager.                                                            *)

(* The goroutines after the step of an operation: it has one of its phase, *)
(* unless it has ended or is remote.                                       *)
Settled(id, step, prims) ==
  \/ /\ id \notin DOMAIN prims
     /\ IF Ended(step.op) \/ step.op.kind = "remote" THEN step.dispatch = ""
        ELSE /\ step.dispatch = step.op.phase /\ step.dispatch # ""
             /\ step.op.phase = "image_read" => step.op.content = 0
  \/ /\ id \in DOMAIN prims /\ step.dispatch = ""
     /\ ~Ended(step.op) /\ step.op.kind # "remote"
     /\ prims[id].phase = step.op.phase
     /\ prims[id].phase \in FilePhases => prims[id].at = step.op.content

(* acceptLocalStep keeps all that the invariant says of the manager.       *)
LEMMA AcceptKeeps ==
  ASSUME ManagerInv, mgr = "running", UNCHANGED <<mgr, saved, starts>>,
         NEW id \in Operations, NEW step, NEW prims, NEW count,
         AcceptStep(id, step, prims, count),
         accepted' = accepted \cup {id},
         step.op \in Checkpoint, Fits(step.op), step.op.kind = saved[id].kind,
         step.op.kind = "image" => step.op.status # "ready",
         prims \in [DOMAIN prims -> Primitive],
         DOMAIN prims \subseteq Operations,
         DOMAIN prims \ {id} = DOMAIN primitives \ {id},
         \A x \in DOMAIN prims \ {id} : prims[x] = primitives[x],
         count = Cardinality(DOMAIN prims),
         Settled(id, step, prims),
         HandlerTypeOK'
  PROVE  /\ TypeOK' /\ PrimitivesCounted' /\ CheckpointsFit' /\ ReadsContinue'
         /\ RemoteNotCanceled'
<1> DEFINE op == step.op
<1>1. /\ operations' = IF Ended(op) THEN Without(operations, id) ELSE With(operations, id, op)
      /\ canceled' = IF Ended(op) THEN canceled \ {id} ELSE canceled
      /\ primitives' = IF step.dispatch = "" THEN prims
                       ELSE With(prims, id, Goroutine(op, step.dispatch))
      /\ active' = count + IF step.dispatch = "" THEN 0 ELSE 1
      /\ \/ pendingUpdates' = pendingUpdates
         \/ pendingUpdates' = Append(pendingUpdates, Update(id, Durable(op)))
  BY DEF AcceptStep, Keep
<1>2. /\ operations \in [DOMAIN operations -> Checkpoint]
      /\ DOMAIN operations \subseteq accepted /\ DOMAIN primitives \subseteq accepted
      /\ accepted \subseteq Operations /\ IsFiniteSet(accepted)
      /\ canceled \subseteq DOMAIN operations
      /\ pendingUpdates \in Seq([id : Operations, op : Checkpoint])
      /\ saved \in [Operations -> Checkpoint] /\ starts \in [Operations -> Nat]
  BY DEF ManagerInv, TypeOK
<1>3. /\ DOMAIN primitives = {x \in DOMAIN operations : operations[x].kind # "remote"}
      /\ \A x \in DOMAIN primitives : primitives[x].phase = operations[x].phase
      /\ \A x \in DOMAIN primitives :
           primitives[x].phase \in FilePhases => primitives[x].at = operations[x].content
      /\ \A x \in canceled : operations[x].kind # "remote"
  BY DEF ManagerInv, PrimitivesCounted, ReadsContinue, RemoteNotCanceled
<1>4. \A x \in DOMAIN operations :
        Fits(operations[x]) /\ ~Ended(operations[x]) /\ operations[x].kind = saved[x].kind
  BY DEF ManagerInv, CheckpointsFit
<1>5. IsFiniteSet(accepted') /\ accepted' \subseteq Operations
  BY <1>2, FS_AddElement
<1>6. DOMAIN prims \subseteq accepted' /\ IsFiniteSet(DOMAIN prims) /\ count \in Nat
  <2>1. DOMAIN prims \subseteq accepted'
    BY <1>2
  <2> QED
    BY <1>5, <2>1, FS_Subset, FS_CardinalityType
<1>7. /\ Durable(op) \in Checkpoint /\ Fits(Durable(op)) /\ Durable(op).kind = saved[id].kind
  BY DurableIs
<1> HIDE DEF op
<1>8. /\ operations' \in [DOMAIN operations' -> Checkpoint]
      /\ DOMAIN operations' = IF Ended(op) THEN DOMAIN operations \ {id}
                              ELSE DOMAIN operations \cup {id}
      /\ \A x \in DOMAIN operations' : operations'[x] = IF x = id THEN op ELSE operations[x]
  BY <1>1, <1>2 DEF With, Without, op
<1>9. step.dispatch # "" =>
        /\ Goroutine(op, step.dispatch) \in Primitive
        /\ Goroutine(op, step.dispatch).phase = op.phase
        /\ op.phase \in FilePhases => Goroutine(op, step.dispatch).at = op.content
  <2> SUFFICES ASSUME step.dispatch # ""
               PROVE  /\ Goroutine(op, step.dispatch) \in Primitive
                      /\ Goroutine(op, step.dispatch).phase = op.phase
                      /\ op.phase \in FilePhases => Goroutine(op, step.dispatch).at = op.content
    OBVIOUS
  <2>1. /\ step.dispatch = op.phase /\ op.phase # ""
        /\ op.phase = "image_read" => op.content = 0
    BY DEF Settled, op
  <2>2. /\ op.phase \in Phases \cup FilePhases \cup ComputePhases
        /\ op.content \in 0 .. FileChunks /\ 0 \in 0 .. FileChunks
    <3>1. op \in Checkpoint
      BY DEF op
    <3> QED
      BY <2>1, <3>1, FieldsAre, NoContent
  <2> QED
    BY <2>1, <2>2 DEF Goroutine, Primitive, FilePhases
<1>10. /\ primitives' \in [DOMAIN primitives' -> Primitive]
       /\ DOMAIN primitives' = DOMAIN prims \cup (IF step.dispatch = "" THEN {} ELSE {id})
       /\ \A x \in DOMAIN primitives' :
            primitives'[x] = IF step.dispatch # "" /\ x = id THEN Goroutine(op, step.dispatch)
                             ELSE prims[x]
  BY <1>1, <1>9 DEF With
<1>11. /\ pendingUpdates' \in Seq([id : Operations, op : Checkpoint])
       /\ \A k \in DOMAIN pendingUpdates' :
            \/ k \in DOMAIN pendingUpdates /\ pendingUpdates'[k] = pendingUpdates[k]
            \/ pendingUpdates'[k] = Update(id, Durable(op))
  <2> DEFINE u == Update(id, Durable(op))
  <2>1. u \in [id : Operations, op : Checkpoint]
    BY <1>7 DEF Update
  <2> HIDE DEF u
  <2>2. \/ pendingUpdates' = pendingUpdates
        \/ pendingUpdates' = Append(pendingUpdates, u)
    BY <1>1 DEF u
  <2>3. /\ pendingUpdates' \in Seq([id : Operations, op : Checkpoint])
        /\ \A k \in DOMAIN pendingUpdates' :
             \/ k \in DOMAIN pendingUpdates /\ pendingUpdates'[k] = pendingUpdates[k]
             \/ pendingUpdates'[k] = u
    <3>1. CASE pendingUpdates' = pendingUpdates
      BY <1>2, <3>1
    <3>2. CASE pendingUpdates' = Append(pendingUpdates, u)
      <4>1. pendingUpdates' \in Seq([id : Operations, op : Checkpoint])
        BY <1>2, <2>1, <3>2
      <4>2. \A k \in DOMAIN pendingUpdates' :
             \/ k \in DOMAIN pendingUpdates /\ pendingUpdates'[k] = pendingUpdates[k]
             \/ pendingUpdates'[k] = u
        BY <1>2, <2>1, <3>2
      <4> QED
        BY <4>1, <4>2
    <3> QED
      BY <2>2, <3>1, <3>2
  <2> QED
    BY <2>3 DEF u
<1>12. active' = Cardinality(DOMAIN primitives') /\ active' \in Nat
  <2>1. step.dispatch # "" => id \notin DOMAIN prims
    BY DEF Settled
  <2>2. CASE step.dispatch = ""
    <3>1. DOMAIN primitives' = DOMAIN prims /\ active' = count + 0
      BY <1>1, <1>10, <2>2
    <3> QED
      BY <1>6, <3>1
  <2>3. CASE step.dispatch # ""
    <3>1. DOMAIN primitives' = DOMAIN prims \cup {id} /\ active' = count + 1
      BY <1>1, <1>10, <2>3
    <3>2. Cardinality(DOMAIN prims \cup {id}) = Cardinality(DOMAIN prims) + 1
      BY <1>6, <2>1, <2>3, FS_AddElement
    <3> QED
      BY <1>6, <3>1, <3>2
  <2> QED
    BY <2>2, <2>3
<1>13. TypeOK'
  BY <1>1, <1>2, <1>5, <1>6, <1>8, <1>10, <1>11, <1>12 DEF TypeOK, ManagerInv
<1>14. PrimitivesCounted' /\ ReadsContinue'
  <2>1. DOMAIN primitives' = {x \in DOMAIN operations' : operations'[x].kind # "remote"}
    <3> SUFFICES ASSUME NEW x
                 PROVE  x \in DOMAIN primitives' <=>
                          x \in DOMAIN operations' /\ operations'[x].kind # "remote"
      OBVIOUS
    <3>1. CASE x = id
      BY <3>1, <1>8, <1>10 DEF Settled, op
    <3>2. CASE x # id
      BY <3>2, <1>3, <1>8, <1>10, ZenonT(60)
    <3> QED
      BY <3>1, <3>2
  <2>2. \A x \in DOMAIN primitives' :
          /\ primitives'[x].phase = operations'[x].phase
          /\ primitives'[x].phase \in FilePhases => primitives'[x].at = operations'[x].content
    <3> SUFFICES ASSUME NEW x \in DOMAIN primitives'
                 PROVE  /\ primitives'[x].phase = operations'[x].phase
                        /\ primitives'[x].phase \in FilePhases =>
                             primitives'[x].at = operations'[x].content
      OBVIOUS
    <3>1. CASE x = id
      <4>1. operations'[x] = op
        BY <2>1, <3>1, <1>8
      <4> QED
        BY <3>1, <4>1, <1>9, <1>10 DEF Settled, op
    <3>2. CASE x # id
      <4>1. operations'[x] = operations[x] /\ x \in DOMAIN primitives
        BY <2>1, <3>2, <1>8, <1>10
      <4> QED
        BY <3>2, <4>1, <1>3, <1>10
    <3> QED
      BY <3>1, <3>2
  <2> QED
    BY <1>12, <2>1, <2>2 DEF PrimitivesCounted, ReadsContinue
<1>15. CheckpointsFit'
  <2>1. \A x \in DOMAIN operations' :
          Fits(operations'[x]) /\ ~Ended(operations'[x]) /\ operations'[x].kind = saved[x].kind
    BY <1>4, <1>8 DEF op
  <2>2. \A k \in DOMAIN pendingUpdates' :
          /\ Fits(pendingUpdates'[k].op)
          /\ pendingUpdates'[k].op.kind = saved[pendingUpdates'[k].id].kind
    BY <1>7, <1>11 DEF Update, ManagerInv, CheckpointsFit
  <2> QED
    BY <2>1, <2>2 DEF ManagerInv, CheckpointsFit
<1>16. RemoteNotCanceled'
  BY <1>1, <1>2, <1>3, <1>4, <1>8, ZenonT(60) DEF RemoteNotCanceled, op
<1> QED
  BY <1>13, <1>14, <1>15, <1>16

(* What the handler knows is left alone by a step that changes none of it. *)
LEMMA HandlerUntouched ==
  ASSUME ManagerInv, UNCHANGED <<handler, forward, jobs, saved>>, mgr' # "down",
         accepted \subseteq accepted'
  PROVE  HandlerTypeOK' /\ HandlerKnows' /\ NothingLeft'
BY DEF ManagerInv, TypeOK, HandlerTypeOK, HandlerKnows, NothingLeft

(* What the invariant says of an operation that is not remote.             *)
LEMMA LocalSays ==
  ASSUME ManagerInv, mgr = "running", NEW id \in DOMAIN primitives
  PROVE  /\ id \in DOMAIN operations /\ id \in accepted /\ id \in Operations
         /\ operations[id] \in Checkpoint /\ Fits(operations[id])
         /\ operations[id].status = "awaiting" /\ operations[id].kind # "remote"
         /\ operations[id].kind = saved[id].kind
         /\ operations[id].phase = primitives[id].phase
         /\ primitives[id] \in Primitive
         /\ primitives[id].phase \in FilePhases => primitives[id].at = operations[id].content
<1>1. /\ id \in DOMAIN operations /\ operations[id].kind # "remote"
      /\ operations[id].phase = primitives[id].phase
  BY DEF ManagerInv, PrimitivesCounted
<1>2. /\ id \in accepted /\ id \in Operations /\ operations[id] \in Checkpoint
      /\ primitives[id] \in Primitive
  BY <1>1 DEF ManagerInv, TypeOK
<1>3. Fits(operations[id]) /\ operations[id].kind = saved[id].kind
  BY <1>1 DEF ManagerInv, CheckpointsFit
<1>4. primitives[id].phase # ""
  BY <1>2 DEF Primitive, Phases, CreatePhases, ReadPhases, FilePhases, ComputePhases
<1>5. operations[id].status = "awaiting"
  BY <1>1, <1>3, <1>4 DEF Fits
<1>6. primitives[id].phase \in FilePhases => primitives[id].at = operations[id].content
  BY DEF ManagerInv, ReadsContinue
<1> QED
  BY <1>1, <1>2, <1>3, <1>5, <1>6

(* What is left of the goroutines when one has ended.                      *)
LEMMA WithoutOne ==
  ASSUME ManagerInv, NEW id \in DOMAIN primitives
  PROVE  LET prims == Without(primitives, id)
         IN  /\ prims \in [DOMAIN prims -> Primitive]
             /\ DOMAIN prims = DOMAIN primitives \ {id}
             /\ \A x \in DOMAIN prims \ {id} : prims[x] = primitives[x]
             /\ active - 1 = Cardinality(DOMAIN prims) /\ active - 1 \in Nat
<1>1. /\ primitives \in [DOMAIN primitives -> Primitive]
      /\ IsFiniteSet(DOMAIN primitives) /\ active = Cardinality(DOMAIN primitives)
  BY FS_Subset DEF ManagerInv, TypeOK, PrimitivesCounted
<1>2. /\ IsFiniteSet(DOMAIN primitives \ {id})
      /\ Cardinality(DOMAIN primitives \ {id}) = Cardinality(DOMAIN primitives) - 1
  BY <1>1, FS_RemoveElement
<1>3. Cardinality(DOMAIN primitives \ {id}) \in Nat
  BY <1>2, FS_CardinalityType
<1> QED
  BY <1>1, <1>2, <1>3 DEF Without

(* A goroutine goes on and nothing else happens.                           *)
LEMMA GoroutineGoesOn ==
  ASSUME ManagerInv, NEW id \in DOMAIN primitives, NEW p \in Primitive,
         p.phase = primitives[id].phase,
         primitives' = [primitives EXCEPT ![id] = p],
         mgr = "running" => p.at = primitives[id].at,
         starts' \in [Operations -> Nat],
         UNCHANGED <<operations, accepted, canceled, active, pendingUpdates, mgr,
                     remoteVars, storeVars>>
  PROVE  ManagerInv'
<1>1. /\ primitives' \in [DOMAIN primitives' -> Primitive]
      /\ DOMAIN primitives' = DOMAIN primitives
      /\ \A x \in DOMAIN primitives : primitives'[x].phase = primitives[x].phase
      /\ mgr = "running" => \A x \in DOMAIN primitives : primitives'[x].at = primitives[x].at
  BY DEF ManagerInv, TypeOK
<1>2. TypeOK'
  BY <1>1 DEF ManagerInv, TypeOK, HandlerTypeOK, remoteVars, storeVars
<1>3. PrimitivesCounted' /\ ReadsContinue'
  BY <1>1 DEF ManagerInv, PrimitivesCounted, ReadsContinue
<1>4. CheckpointsFit' /\ RemoteNotCanceled' /\ HandlerKnows' /\ NothingLeft'
  BY DEF ManagerInv, CheckpointsFit, RemoteNotCanceled, HandlerKnows, NothingLeft,
         remoteVars, storeVars
<1> QED
  BY <1>2, <1>3, <1>4 DEF ManagerInv

(* The last event of a primitive is received.                              *)
LEMMA LastEventKeeps ==
  ASSUME ManagerInv, mgr \in {"running", "draining"}, NEW id \in DOMAIN primitives,
         NEW event \in {"completed", "failed", "canceled"}, NEW flag \in BOOLEAN,
         PrimitiveEvent(id, event, flag, Without(primitives, id))
  PROVE  ManagerInv'
<1> DEFINE prims == Without(primitives, id)
<1>1. /\ prims \in [DOMAIN prims -> Primitive]
      /\ DOMAIN prims = DOMAIN primitives \ {id}
      /\ \A x \in DOMAIN prims \ {id} : prims[x] = primitives[x]
      /\ active - 1 = Cardinality(DOMAIN prims) /\ active - 1 \in Nat
  BY WithoutOne
<1>2. Final(event)
  BY DEF Final
<1> HIDE DEF prims
<1>3. CASE mgr = "running"
  <2> DEFINE op == operations[id]
             step == Handled(id, event, flag)
  <2>1. /\ id \in DOMAIN operations /\ id \in accepted /\ id \in Operations
        /\ op \in Checkpoint /\ Fits(op) /\ op.status = "awaiting" /\ op.kind # "remote"
        /\ op.kind = saved[id].kind
    BY <1>3, LocalSays
  <2>2. /\ AcceptStep(id, step, prims, active - 1)
        /\ UNCHANGED <<accepted, mgr, remoteVars, starts, storeVars>>
    BY <1>2, <1>3, <2>1 DEF PrimitiveEvent, prims
  <2>3. PICK seen \in {"completed", "failed", "canceled"} :
          step = HandleEvent(op, seen, flag, primitives[id].at)
    BY DEF Handled, EventSeen
  <2> HIDE DEF op, step
  <2>4. GoodStep(op, step) /\ Dispatches(step) /\ step.op.phase \notin FilePhases
    BY <2>1, <2>3, LastEventIs
  <2>5. Settled(id, step, prims)
    BY <1>1, <2>1, <2>4 DEF Settled, Dispatches, GoodStep, FilePhases
  <2>6. accepted' = accepted \cup {id} /\ UNCHANGED <<mgr, saved, starts, handler, forward, jobs>>
    BY <2>1, <2>2 DEF remoteVars, storeVars
  <2>7. HandlerTypeOK' /\ HandlerKnows' /\ NothingLeft'
    BY <1>3, <2>6, HandlerUntouched
  <2>8. DOMAIN prims \subseteq Operations /\ DOMAIN prims \ {id} = DOMAIN primitives \ {id}
    BY <1>1 DEF ManagerInv, TypeOK
  <2>9. /\ step.op \in Checkpoint /\ Fits(step.op) /\ step.op.kind = saved[id].kind
        /\ step.op.kind = "image" => step.op.status # "ready"
    BY <2>1, <2>4 DEF GoodStep
  <2> QED
    BY <1>1, <1>3, <2>1, <2>2, <2>5, <2>6, <2>7, <2>8, <2>9, AcceptKeeps DEF ManagerInv
<1>4. CASE mgr = "draining"
  <2>1. /\ active' = active - 1 /\ primitives' = prims
        /\ UNCHANGED <<operations, accepted, canceled, pendingUpdates, mgr,
                       remoteVars, starts, storeVars>>
    BY <1>2, <1>4 DEF PrimitiveEvent, prims
  <2>2. TypeOK'
    BY <1>1, <2>1 DEF ManagerInv, TypeOK, HandlerTypeOK, remoteVars, storeVars
  <2>3. PrimitivesCounted' /\ ReadsContinue' /\ RemoteNotCanceled'
    BY <1>1, <1>4, <2>1 DEF PrimitivesCounted, ReadsContinue, RemoteNotCanceled
  <2>4. CheckpointsFit' /\ HandlerKnows' /\ NothingLeft'
    BY <2>1 DEF ManagerInv, CheckpointsFit, HandlerKnows, NothingLeft, remoteVars, storeVars
  <2> QED
    BY <2>2, <2>3, <2>4 DEF ManagerInv
<1> QED
  BY <1>3, <1>4

(* An event on the way is received.                                        *)
LEMMA EventOnTheWayKeeps ==
  ASSUME ManagerInv, mgr \in {"running", "draining"}, NEW id \in DOMAIN primitives,
         NEW event, NEW flag \in BOOLEAN, NEW p \in Primitive, p.phase = primitives[id].phase,
         \/ event = "started" /\ p.phase = "process"
         \/ /\ event = "output" /\ p.phase \in FilePhases
            /\ primitives[id].at < FileChunks /\ p.at = primitives[id].at + 1,
         PrimitiveEvent(id, event, flag, [primitives EXCEPT ![id] = p])
  PROVE  ManagerInv'
<1> DEFINE prims == [primitives EXCEPT ![id] = p]
<1>1. /\ prims \in [DOMAIN prims -> Primitive]
      /\ DOMAIN prims = DOMAIN primitives /\ prims[id] = p
      /\ \A x \in DOMAIN prims \ {id} : prims[x] = primitives[x]
      /\ active = Cardinality(DOMAIN prims) /\ active \in Nat
  BY DEF ManagerInv, TypeOK, PrimitivesCounted
<1>2. ~Final(event)
  BY DEF Final
<1> HIDE DEF prims
<1>3. CASE mgr = "running"
  <2> DEFINE op == operations[id]
             step == Handled(id, event, flag)
  <2>1. /\ id \in DOMAIN operations /\ id \in accepted /\ id \in Operations
        /\ op \in Checkpoint /\ Fits(op) /\ op.status = "awaiting" /\ op.kind # "remote"
        /\ op.kind = saved[id].kind /\ op.phase = p.phase
        /\ p.phase \in FilePhases => primitives[id].at = op.content
    BY <1>3, LocalSays
  <2>2. /\ AcceptStep(id, step, prims, active)
        /\ UNCHANGED <<accepted, mgr, remoteVars, starts, storeVars>>
    <3>1. active - 0 = active
      BY <1>1
    <3> QED
      BY <1>2, <1>3, <2>1, <3>1 DEF PrimitiveEvent, prims
  <2>3. step = HandleEvent(op, event, flag, primitives[id].at)
    BY <1>2 DEF Handled, EventSeen
  <2> HIDE DEF op, step
  <2>4. /\ GoodStep(op, step) /\ step.dispatch = ""
        /\ step.op.status = "awaiting" /\ step.op.phase = op.phase
        /\ event = "output" => step.op.content = op.content + 1
    <3>0. primitives[id].at \in 0 .. FileChunks /\ op.content \in 0 .. FileChunks
      BY <2>1, FieldsAre DEF ManagerInv, TypeOK, Primitive
    <3>1. \/ event = "started" /\ op.phase = "process"
          \/ event = "output" /\ op.phase \in FilePhases /\ primitives[id].at = op.content
               /\ op.content < FileChunks
      BY <2>1
    <3> DEFINE s == HandleEvent(op, event, flag, primitives[id].at)
    <3>2. /\ GoodStep(op, s) /\ s.dispatch = ""
          /\ s.op.status = "awaiting" /\ s.op.phase = op.phase
          /\ event = "output" => s.op.content = op.content + 1
      BY <2>1, <3>0, <3>1, EventOnTheWayIs, ZenonT(60)
    <3> QED
      BY <2>3, <3>2
  <2>5. Settled(id, step, prims)
    BY <1>1, <2>1, <2>4 DEF Settled, GoodStep, Ended, Finished, Finals, FilePhases
  <2>6. accepted' = accepted \cup {id} /\ UNCHANGED <<mgr, saved, starts, handler, forward, jobs>>
    BY <2>1, <2>2 DEF remoteVars, storeVars
  <2>7. HandlerTypeOK' /\ HandlerKnows' /\ NothingLeft'
    BY <1>3, <2>6, HandlerUntouched
  <2>8. DOMAIN prims \subseteq Operations /\ DOMAIN prims \ {id} = DOMAIN primitives \ {id}
    BY <1>1 DEF ManagerInv, TypeOK
  <2>9. /\ step.op \in Checkpoint /\ Fits(step.op) /\ step.op.kind = saved[id].kind
        /\ step.op.kind = "image" => step.op.status # "ready"
    BY <2>1, <2>4 DEF GoodStep
  <2> QED
    BY <1>1, <1>3, <2>1, <2>2, <2>5, <2>6, <2>7, <2>8, <2>9, AcceptKeeps DEF ManagerInv
<1>4. CASE mgr = "draining"
  <2>1. /\ primitives' = prims
        /\ UNCHANGED <<operations, accepted, canceled, active, pendingUpdates, mgr,
                       remoteVars, starts, storeVars>>
    <3>1. active - 0 = active
      BY <1>1
    <3> QED
      BY <1>2, <1>4, <3>1 DEF PrimitiveEvent, prims
  <2>2. starts' \in [Operations -> Nat]
    <3>1. starts \in [Operations -> Nat]
      BY DEF ManagerInv, TypeOK
    <3> QED
      BY <2>1, <3>1
  <2>3. primitives' = [primitives EXCEPT ![id] = p]
    BY <2>1 DEF prims
  <2> QED
    BY <1>4, <2>1, <2>2, <2>3, GoroutineGoesOn
<1> QED
  BY <1>3, <1>4

(* The steps of a primitive goroutine.                                     *)
LEMMA PrimitiveStepKeeps ==
  ASSUME ManagerInv, NEW id \in Operations, PrimitiveStep(id)
  PROVE  ManagerInv'
<1> DEFINE q == primitives[id]
<1>1. /\ id \in DOMAIN primitives /\ mgr \in {"running", "draining"} /\ q \in Primitive
      /\ q.at \in 0 .. FileChunks
  <2>1. /\ id \in DOMAIN primitives /\ mgr \in {"running", "draining"}
    BY DEF PrimitiveStep, StartCommand, ReportStart, SkipReport, ReadChunk, PrimitiveCompletes,
           PrimitiveFails, PrimitiveCanceled, Ending, At
  <2> QED
    BY <2>1 DEF ManagerInv, TypeOK, Primitive
<1>2. ASSUME NEW s \in {"started", "reported"}
      PROVE  LET p == [q EXCEPT !.stage = s]
             IN  /\ p \in Primitive /\ p.phase = q.phase /\ p.at = q.at
                 /\ [primitives EXCEPT ![id].stage = s] = [primitives EXCEPT ![id] = p]
  BY <1>1 DEF Primitive, ManagerInv, TypeOK
<1> HIDE DEF q
<1>3. CASE StartCommand(id)
  <2>1. starts' \in [Operations -> Nat]
    BY <1>3 DEF StartCommand, ManagerInv, TypeOK
  <2>2. PICK p \in Primitive :
          /\ p.phase = primitives[id].phase /\ p.at = primitives[id].at
          /\ primitives' = [primitives EXCEPT ![id] = p]
    BY <1>2, <1>3 DEF StartCommand, q
  <2> QED
    BY <1>1, <1>3, <2>1, <2>2, GoroutineGoesOn DEF StartCommand
<1>4. CASE SkipReport(id)
  <2>1. starts' \in [Operations -> Nat]
    BY <1>4 DEF SkipReport, ManagerInv, TypeOK
  <2>2. PICK p \in Primitive :
          /\ p.phase = primitives[id].phase /\ p.at = primitives[id].at
          /\ primitives' = [primitives EXCEPT ![id] = p]
    BY <1>2, <1>4 DEF SkipReport, q
  <2> QED
    BY <1>1, <1>4, <2>1, <2>2, GoroutineGoesOn DEF SkipReport
<1>5. CASE ReportStart(id)
  <2>1. PICK p \in Primitive :
          /\ p.phase = primitives[id].phase
          /\ PrimitiveEvent(id, "started", FALSE, [primitives EXCEPT ![id] = p])
    BY <1>2, <1>5 DEF ReportStart, q
  <2>2. p.phase = "process"
    BY <1>5, <2>1 DEF ReportStart, At
  <2>3. FALSE \in BOOLEAN
    OBVIOUS
  <2> QED
    BY <1>1, <2>1, <2>2, <2>3, EventOnTheWayKeeps
<1>6. CASE ReadChunk(id)
  <2> DEFINE p == [q EXCEPT !.at = @ + 1]
  <2>1. q.phase \in FilePhases /\ q.at < FileChunks
    BY <1>6 DEF ReadChunk, At, q
  <2>2. q.at + 1 \in 0 .. FileChunks
    BY <1>1, <2>1, FileChunksAssumption
  <2>3. p \in Primitive /\ p.phase = q.phase /\ p.at = q.at + 1
    BY <1>1, <2>2 DEF Primitive
  <2>4. [primitives EXCEPT ![id].at = @ + 1] = [primitives EXCEPT ![id] = p]
    BY <1>1 DEF q
  <2>5. PrimitiveEvent(id, "output", FALSE, [primitives EXCEPT ![id] = p])
    BY <1>6, <2>4 DEF ReadChunk
  <2> HIDE DEF p
  <2>6. FALSE \in BOOLEAN
    OBVIOUS
  <2> QED
    BY <1>1, <2>1, <2>3, <2>5, <2>6, EventOnTheWayKeeps DEF q
<1>7. CASE \E flag \in BOOLEAN : PrimitiveCompletes(id, flag)
  BY <1>1, <1>7, LastEventKeeps DEF PrimitiveCompletes
<1>8. CASE PrimitiveFails(id)
  <2>1. FALSE \in BOOLEAN
    OBVIOUS
  <2> QED
    BY <1>1, <1>8, <2>1, LastEventKeeps DEF PrimitiveFails
<1>9. CASE PrimitiveCanceled(id)
  <2>1. FALSE \in BOOLEAN
    OBVIOUS
  <2> QED
    BY <1>1, <1>9, <2>1, LastEventKeeps DEF PrimitiveCanceled
<1> QED
  BY <1>3, <1>4, <1>5, <1>6, <1>7, <1>8, <1>9 DEF PrimitiveStep

(* A step that ends an operation without a primitive, or, for a remote one,*)
(* takes it further.                                                       *)
LEMMA NoPrimitiveKeeps ==
  ASSUME ManagerInv, mgr = "running", UNCHANGED <<mgr, saved, starts>>,
         NEW id \in Operations, id \notin DOMAIN primitives, NEW step,
         AcceptStep(id, step, primitives, active),
         accepted' = accepted \cup {id},
         step.op \in Checkpoint, Fits(step.op), step.op.kind = saved[id].kind,
         step.op.kind = "image" => step.op.status # "ready",
         Settled(id, step, primitives),
         HandlerTypeOK'
  PROVE  /\ TypeOK' /\ PrimitivesCounted' /\ CheckpointsFit' /\ ReadsContinue'
         /\ RemoteNotCanceled'
<1>1. /\ primitives \in [DOMAIN primitives -> Primitive]
      /\ DOMAIN primitives \subseteq Operations
      /\ active = Cardinality(DOMAIN primitives)
  BY DEF ManagerInv, TypeOK, PrimitivesCounted
<1> QED
  BY <1>1, AcceptKeeps

(* An operation is added.                                                  *)
LEMMA AddKeeps ==
  ASSUME ManagerInv, NEW id \in Operations, Add(id)
  PROVE  ManagerInv'
<1> DEFINE step == HandleAdd(saved[id])
<1>1. /\ mgr = "running" /\ id \notin accepted /\ ~Finished(saved[id])
      /\ saved[id].kind # "remote" /\ accepted' = accepted \cup {id}
      /\ AcceptStep(id, step, primitives, active)
      /\ UNCHANGED <<mgr, handler, forward, jobs, starts, saved>>
  BY DEF Add, Addable, remoteVars, storeVars
<1>2. saved[id] \in Checkpoint /\ Fits(saved[id]) /\ ~Ended(saved[id])
  BY <1>1 DEF ManagerInv, TypeOK, CheckpointsFit, Ended
<1>3. /\ GoodStep(saved[id], step) /\ Dispatches(step)
      /\ step.op.phase = "image_read" => step.op.content = 0
  BY <1>1, <1>2, AddIs
<1>4. id \notin DOMAIN primitives
  BY <1>1 DEF ManagerInv, TypeOK
<1> HIDE DEF step
<1>5. Settled(id, step, primitives)
  BY <1>1, <1>3, <1>4 DEF Settled, Dispatches, GoodStep
<1>6. HandlerTypeOK' /\ HandlerKnows' /\ NothingLeft'
  BY <1>1, HandlerUntouched
<1>7. /\ step.op \in Checkpoint /\ Fits(step.op) /\ step.op.kind = saved[id].kind
      /\ step.op.kind = "image" => step.op.status # "ready"
  BY <1>3 DEF GoodStep
<1> QED
  BY <1>1, <1>4, <1>5, <1>6, <1>7, NoPrimitiveKeeps DEF ManagerInv

(* An operation whose context is canceled.                                 *)
LEMMA CancelKeeps ==
  ASSUME ManagerInv, NEW id \in Operations, Cancel(id)
  PROVE  ManagerInv'
<1>1. /\ canceled' = canceled \cup {id}
      /\ id \in DOMAIN operations /\ operations[id].kind # "remote"
      /\ UNCHANGED <<operations, accepted, active, pendingUpdates, mgr, primitives,
                     handler, forward, jobs, starts, saved, runs>>
  BY DEF Cancel, remoteVars, storeVars
<1>2. TypeOK' /\ RemoteNotCanceled'
  BY <1>1 DEF ManagerInv, TypeOK, HandlerTypeOK, RemoteNotCanceled
<1>3. PrimitivesCounted' /\ CheckpointsFit' /\ ReadsContinue' /\ HandlerKnows' /\ NothingLeft'
  BY <1>1 DEF ManagerInv, PrimitivesCounted, CheckpointsFit, ReadsContinue, HandlerKnows, NothingLeft
<1> QED
  BY <1>2, <1>3 DEF ManagerInv

-----------------------------------------------------------------------------
(* Remote jobs.                                                            *)

(* What the invariant says of a remote operation.                          *)
LEMMA RemoteSays ==
  ASSUME ManagerInv, mgr = "running", NEW id \in DOMAIN operations,
         operations[id].kind = "remote"
  PROVE  /\ id \in accepted /\ id \in Operations /\ id \notin DOMAIN primitives
         /\ id \notin canceled
         /\ operations[id] \in Checkpoint /\ Fits(operations[id]) /\ ~Ended(operations[id])
         /\ operations[id].kind = saved[id].kind
BY DEF ManagerInv, TypeOK, PrimitivesCounted, CheckpointsFit, RemoteNotCanceled

(* failLocalOperation, for an operation without a primitive.               *)
LEMMA FailKeeps ==
  ASSUME ManagerInv, mgr = "running", UNCHANGED <<mgr, saved, starts>>,
         NEW id \in Operations, id \notin DOMAIN primitives,
         NEW op \in Checkpoint, Fits(op), op.kind = "remote", op.kind = saved[id].kind,
         AcceptStep(id, Fail(op), primitives, active),
         accepted' = accepted \cup {id},
         HandlerTypeOK'
  PROVE  /\ TypeOK' /\ PrimitivesCounted' /\ CheckpointsFit' /\ ReadsContinue'
         /\ RemoteNotCanceled'
<1> DEFINE step == Fail(op)
<1>1. GoodStep(op, step) /\ Dispatches(step) /\ step.op.status = "failed"
  BY FailIs
<1> HIDE DEF step
<1>2. /\ step.op \in Checkpoint /\ Fits(step.op) /\ step.op.kind = saved[id].kind
      /\ step.op.kind = "image" => step.op.status # "ready"
      /\ Ended(step.op) /\ step.dispatch = ""
  BY <1>1 DEF GoodStep, Dispatches, Ended, Finished, Finals
<1>3. Settled(id, step, primitives)
  BY <1>2 DEF Settled
<1>4. AcceptStep(id, step, primitives, active)
  BY DEF step
<1> QED
  BY <1>2, <1>3, <1>4, NoPrimitiveKeeps

(* CancelRemoteJob of the handler.                                         *)
LEMMA TellIs ==
  ASSUME ManagerInv, NEW id \in Operations, NEW heard \in BOOLEAN, Tell(id, heard)
  PROVE  /\ jobs' \in [Operations -> {"none", "given", "told", "ended", "lost"}]
         /\ \A x \in Operations \ {id} : jobs'[x] = jobs[x]
         /\ jobs'[id] # "given" /\ (jobs'[id] = "none" <=> jobs[id] = "none")
         /\ jobs[id] \notin {"given", "told"} => jobs'[id] = jobs[id]
         /\ jobs'[id] = "told" => jobs[id] \in {"given", "told"}
<1>1. jobs \in [Operations -> {"none", "given", "told", "ended", "lost"}]
  BY DEF ManagerInv, TypeOK, HandlerTypeOK
<1>2. PICK j \in {"told", "lost"} :
        jobs' = [jobs EXCEPT ![id] = IF @ # "given" THEN @ ELSE j]
  BY DEF Tell
<1> QED
  BY <1>1, <1>2

(* The handler is told, and nothing else that it knows changes.            *)
LEMMA TellKeeps ==
  ASSUME ManagerInv, mgr' # "down", NEW id \in Operations, NEW heard \in BOOLEAN,
         Tell(id, heard), UNCHANGED <<handler, saved, accepted>>,
         forward' = forward \/ forward' = NoUpdate
  PROVE  HandlerTypeOK' /\ HandlerKnows' /\ NothingLeft'
<1>1. HandlerTypeOK'
  BY TellIs DEF ManagerInv, TypeOK, HandlerTypeOK
<1>2. \A x \in Operations :
        /\ jobs'[x] = "none" <=> jobs[x] = "none"
        /\ jobs[x] = "ended" => jobs'[x] = "ended"
        /\ jobs'[x] \in {"given", "told"} => jobs[x] \in {"given", "told"}
  <2>1. \A x \in Operations \ {id} : jobs'[x] = jobs[x]
    BY TellIs
  <2>2. /\ jobs'[id] # "given" /\ (jobs'[id] = "none" <=> jobs[id] = "none")
        /\ jobs[id] \notin {"given", "told"} => jobs'[id] = jobs[id]
        /\ jobs'[id] = "told" => jobs[id] \in {"given", "told"}
    BY TellIs
  <2> QED
    BY <2>1, <2>2
<1>3. forward \notin {NoUpdate, Closing} => forward.id \in Operations
  BY DEF ManagerInv, TypeOK, HandlerTypeOK
<1>4. HandlerKnows'
  BY <1>2, <1>3 DEF ManagerInv, HandlerKnows, NoUpdate, Closing
<1> QED
  BY <1>1, <1>4 DEF NothingLeft

(* A job is given to its handler, or its operation fails.                  *)
LEMMA AddRemoteKeeps ==
  ASSUME ManagerInv, NEW id \in Operations, NEW taken \in BOOLEAN, AddRemote(id, taken)
  PROVE  ManagerInv'
<1>1. /\ mgr = "running" /\ id \notin accepted /\ ~Finished(saved[id])
      /\ saved[id].kind = "remote" /\ accepted' = accepted \cup {id}
      /\ UNCHANGED <<mgr, handler, forward, starts, saved>>
  BY DEF AddRemote, Addable, storeVars
<1>2. /\ saved[id] \in Checkpoint /\ Fits(saved[id]) /\ ~Ended(saved[id])
      /\ id \notin DOMAIN primitives /\ id \notin DOMAIN operations /\ id \notin canceled
  BY <1>1 DEF ManagerInv, TypeOK, CheckpointsFit, Ended
<1>3. CASE taken
  <2>1. /\ operations' = With(operations, id, saved[id])
        /\ UNCHANGED <<canceled, pendingUpdates, primitives, active>>
    BY <1>3 DEF AddRemote
  <2>2. PICK j \in {"given", "lost"} :
          jobs' = [jobs EXCEPT ![id] = j] /\ (j = "given" => handler = "open")
    BY <1>3 DEF AddRemote
  <2>3. /\ operations' \in [DOMAIN operations' -> Checkpoint]
        /\ DOMAIN operations' = DOMAIN operations \cup {id}
        /\ \A x \in DOMAIN operations' :
             operations'[x] = IF x = id THEN saved[id] ELSE operations[x]
    BY <1>2, <2>1 DEF With, ManagerInv, TypeOK
  <2>4. /\ jobs' \in [Operations -> {"none", "given", "told", "ended", "lost"}]
        /\ jobs'[id] = j /\ \A x \in Operations \ {id} : jobs'[x] = jobs[x]
    BY <2>2 DEF ManagerInv, TypeOK, HandlerTypeOK
  <2>5. IsFiniteSet(accepted')
    BY <1>1, FS_AddElement DEF ManagerInv, TypeOK
  <2>6. TypeOK'
    BY <1>1, <2>1, <2>3, <2>4, <2>5 DEF ManagerInv, TypeOK, HandlerTypeOK
  <2>7. PrimitivesCounted' /\ ReadsContinue' /\ RemoteNotCanceled'
    BY <1>1, <1>2, <2>1, <2>3, ZenonT(60)
       DEF ManagerInv, TypeOK, PrimitivesCounted, ReadsContinue, RemoteNotCanceled
  <2>8. CheckpointsFit'
    BY <1>1, <1>2, <2>1, <2>3 DEF ManagerInv, CheckpointsFit
  <2>9. HandlerKnows' /\ NothingLeft'
    <3>1. forward \notin {NoUpdate, Closing} => forward.id \in Operations /\ forward.id # id
      BY <1>1 DEF ManagerInv, TypeOK, HandlerTypeOK, HandlerKnows
    <3> QED
      BY <1>1, <2>2, <2>4, <3>1 DEF ManagerInv, HandlerKnows, NothingLeft
  <2> QED
    BY <2>6, <2>7, <2>8, <2>9 DEF ManagerInv
<1>4. CASE ~taken
  <2>1. AcceptStep(id, Fail(saved[id]), primitives, active) /\ UNCHANGED jobs
    BY <1>4 DEF AddRemote
  <2>2. HandlerTypeOK' /\ HandlerKnows' /\ NothingLeft'
    BY <1>1, <2>1, HandlerUntouched
  <2> QED
    BY <1>1, <1>2, <2>1, <2>2, FailKeeps DEF ManagerInv
<1> QED
  BY <1>3, <1>4

(* A cancellation is passed on to the handler.                             *)
LEMMA CancelRemoteKeeps ==
  ASSUME ManagerInv, NEW id \in Operations, NEW heard \in BOOLEAN, CancelRemote(id, heard)
  PROVE  ManagerInv'
<1>1. /\ mgr = "running" /\ id \in DOMAIN operations /\ operations[id].kind = "remote"
      /\ Tell(id, heard)
      /\ UNCHANGED <<accepted, mgr, handler, forward, starts, saved>>
  BY DEF CancelRemote, storeVars
<1>2. HandlerTypeOK' /\ HandlerKnows' /\ NothingLeft'
  BY <1>1, TellKeeps
<1>3. CASE heard
  <2>1. UNCHANGED <<operations, canceled, pendingUpdates, primitives, active>>
    BY <1>3 DEF CancelRemote
  <2>2. /\ TypeOK' /\ PrimitivesCounted' /\ CheckpointsFit' /\ ReadsContinue'
        /\ RemoteNotCanceled'
    BY <1>1, <1>2, <2>1 DEF ManagerInv, TypeOK, PrimitivesCounted, CheckpointsFit, ReadsContinue,
                            RemoteNotCanceled
  <2> QED
    BY <1>2, <2>2 DEF ManagerInv
<1>4. CASE ~heard
  <2>1. AcceptStep(id, Fail(operations[id]), primitives, active)
    BY <1>4 DEF CancelRemote
  <2>2. /\ id \in accepted /\ id \notin DOMAIN primitives
        /\ operations[id] \in Checkpoint /\ Fits(operations[id])
        /\ operations[id].kind = saved[id].kind
    BY <1>1, RemoteSays
  <2>3. accepted' = accepted \cup {id}
    BY <1>1, <2>2
  <2> QED
    BY <1>1, <1>2, <2>1, <2>2, <2>3, FailKeeps DEF ManagerInv
<1> QED
  BY <1>3, <1>4

(* The handler and its forwarder act alone: what the manager has and does  *)
(* is left as it was.                                                      *)
LEMMA ManagerUntouched ==
  ASSUME ManagerInv, HandlerTypeOK',
         UNCHANGED <<operations, accepted, canceled, active, pendingUpdates, mgr, primitives,
                     starts, saved>>
  PROVE  /\ TypeOK' /\ PrimitivesCounted' /\ CheckpointsFit' /\ ReadsContinue'
         /\ RemoteNotCanceled'
BY DEF ManagerInv, TypeOK, PrimitivesCounted, CheckpointsFit, ReadsContinue, RemoteNotCanceled

(* A report of the handler keeps the invariant.                            *)
LEMMA HandlerReportsKeeps ==
  ASSUME ManagerInv, NEW id \in Operations, NEW status \in RemoteStatuses,
         NEW valid \in BOOLEAN, HandlerReports(id, status, valid)
  PROVE  ManagerInv'
<1> DEFINE f == [id |-> id, status |-> status, valid |-> valid]
<1>1. /\ mgr = "running" /\ handler = "open" /\ jobs[id] \in {"given", "told"}
      /\ forward' = f
      /\ UNCHANGED <<operations, accepted, canceled, active, pendingUpdates, mgr, primitives,
                     handler, starts, saved>>
  BY DEF HandlerReports, storeVars
<1>2. /\ f \in [id : Operations, status : RemoteStatuses, valid : BOOLEAN]
      /\ f.id = id /\ f.status = status /\ (f.valid <=> valid)
  OBVIOUS
<1>3. f # Closing
  <2>1. f.status # "closed"
    BY DEF RemoteStatuses, Finals
  <2>2. Closing.status = "closed"
    BY DEF Closing
  <2> QED
    BY <2>1, <2>2
<1> HIDE DEF f
<1>4. /\ jobs' \in [Operations -> {"none", "given", "told", "ended", "lost"}]
      /\ \A x \in Operations \ {id} : jobs'[x] = jobs[x]
      /\ jobs'[id] \in {jobs[id], "ended"}
      /\ status \in Finals /\ valid => jobs'[id] = "ended"
  BY DEF HandlerReports, ManagerInv, TypeOK, HandlerTypeOK
<1>5. HandlerTypeOK'
  BY <1>1, <1>2, <1>4 DEF ManagerInv, TypeOK, HandlerTypeOK
<1>6. HandlerKnows' /\ NothingLeft'
  BY <1>1, <1>2, <1>3, <1>4 DEF ManagerInv, HandlerKnows, NothingLeft
<1> QED
  BY <1>1, <1>5, <1>6, ManagerUntouched DEF ManagerInv

(* The handler that closes its channel keeps it.                           *)
LEMMA HandlerClosesKeeps ==
  ASSUME ManagerInv, HandlerCloses
  PROVE  ManagerInv'
<1>1. /\ mgr = "running" /\ handler' = "closed" /\ forward' = Closing
      /\ UNCHANGED <<operations, accepted, canceled, active, pendingUpdates, mgr, primitives,
                     starts, saved>>
  BY DEF HandlerCloses, storeVars
<1>2. /\ jobs' \in [Operations -> {"none", "given", "told", "ended", "lost"}]
      /\ \A x \in Operations :
           jobs'[x] \notin {"given", "told"} /\ (jobs'[x] = "none" <=> jobs[x] = "none")
  BY DEF HandlerCloses, ManagerInv, TypeOK, HandlerTypeOK
<1>3. HandlerTypeOK' /\ HandlerKnows' /\ NothingLeft'
  BY <1>1, <1>2 DEF ManagerInv, TypeOK, HandlerTypeOK, HandlerKnows, NothingLeft
<1> QED
  BY <1>1, <1>3, ManagerUntouched DEF ManagerInv

(* An update of an operation that was let go of keeps it.                  *)
LEMMA IgnoreRemoteKeeps ==
  ASSUME ManagerInv, IgnoreRemote
  PROVE  ManagerInv'
<1>1. /\ mgr = "running" /\ forward' = NoUpdate
      /\ UNCHANGED <<operations, accepted, canceled, active, pendingUpdates, mgr, primitives,
                     handler, jobs, starts, saved>>
  BY DEF IgnoreRemote, storeVars
<1>2. HandlerTypeOK'
  BY <1>1 DEF ManagerInv, TypeOK, HandlerTypeOK
<1>3. HandlerKnows' /\ NothingLeft'
  BY <1>1 DEF ManagerInv, HandlerKnows, NothingLeft, NoUpdate, Closing
<1> QED
  BY <1>1, <1>2, <1>3, ManagerUntouched DEF ManagerInv

(* A valid update takes a remote operation further.                        *)
LEMMA ValidUpdateIs ==
  ASSUME NEW op \in Checkpoint, Fits(op), op.kind = "remote", NEW status \in RemoteStatuses
  PROVE  LET step == Step([op EXCEPT !.status = status], "")
         IN  /\ step.op \in Checkpoint /\ Fits(step.op) /\ step.op.kind = "remote"
             /\ step.op.status = status /\ step.dispatch = "" /\ step.update = "save"
<1> DEFINE o == [op EXCEPT !.status = status]
<1>1. o \in Checkpoint /\ o.kind = "remote" /\ o.status = status /\ o.phase = op.phase
  BY DEF Checkpoint, RemoteStatuses
<1>2. status # "unsupported"
  BY DEF RemoteStatuses, Finals
<1> HIDE DEF o
<1>3. Fits(o)
  BY <1>1, <1>2 DEF Fits
<1>4. Step(o, "").op = o /\ Step(o, "").dispatch = "" /\ Step(o, "").update = "save"
  BY DEF Step
<1> QED
  BY <1>1, <1>3, <1>4 DEF o

(* An update of a job, valid or rejected, keeps it.                        *)
LEMMA ReceiveRemoteKeeps ==
  ASSUME ManagerInv, NEW heard \in BOOLEAN, ReceiveRemote(heard)
  PROVE  ManagerInv'
<1> DEFINE id == forward.id
           op == operations[id]
<1>1. /\ mgr = "running" /\ forward \notin {NoUpdate, Closing} /\ id \in DOMAIN operations
      /\ forward' = NoUpdate
      /\ UNCHANGED <<accepted, mgr, handler, starts, saved>>
  BY DEF ReceiveRemote, storeVars
<1>2. /\ id \in Operations /\ forward.status \in RemoteStatuses
      /\ jobs[id] # "none" /\ saved[id].kind = "remote"
  BY <1>1 DEF ManagerInv, TypeOK, HandlerTypeOK, HandlerKnows
<1>3. op.kind = "remote"
  BY <1>1, <1>2 DEF ManagerInv, CheckpointsFit
<1>4. /\ id \in accepted /\ id \notin DOMAIN primitives
      /\ op \in Checkpoint /\ Fits(op) /\ op.kind = saved[id].kind
  BY <1>1, <1>3, RemoteSays
<1>5. accepted' = accepted \cup {id}
  BY <1>1, <1>4
<1>6. CASE ValidUpdate(op, forward)
  <2> DEFINE step == Step([op EXCEPT !.status = forward.status], "")
  <2>1. AcceptStep(id, step, primitives, active) /\ UNCHANGED jobs
    BY <1>6 DEF ReceiveRemote
  <2>2. /\ step.op \in Checkpoint /\ Fits(step.op) /\ step.op.kind = "remote"
        /\ step.op.status = forward.status /\ step.dispatch = ""
    BY <1>2, <1>3, <1>4, ValidUpdateIs
  <2> HIDE DEF step
  <2>3. Settled(id, step, primitives)
    BY <1>4, <2>2 DEF Settled
  <2>4. HandlerTypeOK'
    BY <1>1, <2>1 DEF ManagerInv, TypeOK, HandlerTypeOK
  <2>5. HandlerKnows' /\ NothingLeft'
    BY <1>1, <2>1 DEF ManagerInv, HandlerKnows, NothingLeft, NoUpdate, Closing
  <2>6. /\ TypeOK' /\ PrimitivesCounted' /\ CheckpointsFit' /\ ReadsContinue'
        /\ RemoteNotCanceled'
    <3> HIDE DEF id, op
    <3>1. step.op.kind = saved[id].kind /\ (step.op.kind = "image" => step.op.status # "ready")
      BY <1>2, <2>2
    <3> QED
      BY <1>1, <1>2, <1>4, <1>5, <2>1, <2>2, <2>3, <2>4, <3>1, NoPrimitiveKeeps
  <2> QED
    BY <2>5, <2>6 DEF ManagerInv
<1>7. CASE ~ValidUpdate(op, forward)
  <2>1. Tell(id, heard) /\ AcceptStep(id, Fail(op), primitives, active)
    BY <1>7 DEF ReceiveRemote, RejectUpdate
  <2>2. HandlerTypeOK' /\ HandlerKnows' /\ NothingLeft'
    BY <1>1, <1>2, <2>1, TellKeeps
  <2>3. /\ TypeOK' /\ PrimitivesCounted' /\ CheckpointsFit' /\ ReadsContinue'
        /\ RemoteNotCanceled'
    <3> HIDE DEF id, op
    <3> QED
      BY <1>1, <1>2, <1>3, <1>4, <1>5, <2>1, <2>2, FailKeeps
  <2> QED
    BY <2>2, <2>3 DEF ManagerInv
<1> QED
  BY <1>6, <1>7

(* The handler has stopped.                                                *)
LEMMA HandlerStoppedKeeps ==
  ASSUME ManagerInv, HandlerStopped
  PROVE  ManagerInv'
<1> DEFINE ids == {id \in DOMAIN operations : operations[id].kind = "remote"}
           n == Cardinality(ids)
<1>1. /\ mgr = "running" /\ forward' = NoUpdate /\ handler' = "marked" /\ forward = Closing
      /\ operations' = [id \in DOMAIN operations \ ids |-> operations[id]]
      /\ canceled' = canceled \ ids
      /\ UNCHANGED <<accepted, active, mgr, primitives, jobs, starts, saved>>
  BY DEF HandlerStopped, storeVars
<1>2. PICK order \in Bijection(1 .. n, ids) :
        pendingUpdates' = pendingUpdates \o
          [k \in DOMAIN order |-> Update(order[k], Fail(operations[order[k]]).op)]
  BY DEF HandlerStopped
<1>3. IsFiniteSet(ids) /\ n \in Nat
  <2>1. ids \subseteq accepted /\ IsFiniteSet(accepted)
    BY DEF ManagerInv, TypeOK
  <2> QED
    BY <2>1, FS_Subset, FS_CardinalityType
<1>4. order \in [1 .. n -> ids]
  BY DEF Bijection, Injection
<1> DEFINE failed == [k \in 1 .. n |-> Update(order[k], Fail(operations[order[k]]).op)]
<1>5. pendingUpdates' = pendingUpdates \o failed
  BY <1>2, <1>4
<1>6. ASSUME NEW k \in 1 .. n
      PROVE  /\ failed[k] \in [id : Operations, op : Checkpoint]
             /\ Fits(failed[k].op) /\ failed[k].op.kind = saved[failed[k].id].kind
  <2> DEFINE id == order[k]
             o == Fail(operations[id]).op
  <2>1. id \in DOMAIN operations /\ operations[id].kind = "remote"
    BY <1>4
  <2>2. /\ id \in Operations /\ operations[id] \in Checkpoint /\ Fits(operations[id])
        /\ operations[id].kind = saved[id].kind
    BY <1>1, <2>1, RemoteSays
  <2>3. GoodStep(operations[id], Fail(operations[id]))
    BY <2>1, <2>2, FailIs
  <2>4. o \in Checkpoint /\ Fits(o) /\ o.kind = saved[id].kind
    BY <2>2, <2>3 DEF GoodStep
  <2>5. failed[k] = Update(id, o)
    OBVIOUS
  <2> HIDE DEF id, o, failed
  <2> QED
    BY <2>2, <2>4, <2>5 DEF Update
<1>7. failed \in Seq([id : Operations, op : Checkpoint]) /\ Len(failed) = n
  <2> HIDE DEF n, ids
  <2>1. failed \in [1 .. n -> [id : Operations, op : Checkpoint]]
    <3>1. \A k \in 1 .. n : failed[k] \in [id : Operations, op : Checkpoint]
      BY <1>6
    <3> QED
      BY <3>1
  <2> QED
    BY <1>3, <2>1
<1> HIDE DEF failed, n, ids
<1>8. pendingUpdates \in Seq([id : Operations, op : Checkpoint])
  BY DEF ManagerInv, TypeOK
<1>9. /\ pendingUpdates' \in Seq([id : Operations, op : Checkpoint])
      /\ \A k \in DOMAIN pendingUpdates' :
           \/ k \in DOMAIN pendingUpdates /\ pendingUpdates'[k] = pendingUpdates[k]
           \/ \E j \in 1 .. n : pendingUpdates'[k] = failed[j]
  <2>1. pendingUpdates' \in Seq([id : Operations, op : Checkpoint])
    BY <1>5, <1>7, <1>8
  <2>2. ASSUME NEW k \in DOMAIN pendingUpdates'
        PROVE  \/ k \in DOMAIN pendingUpdates /\ pendingUpdates'[k] = pendingUpdates[k]
               \/ \E j \in 1 .. n : pendingUpdates'[k] = failed[j]
    <3>1. k \in 1 .. Len(pendingUpdates) + n
      BY <1>3, <1>5, <1>7, <1>8
    <3>2. CASE k <= Len(pendingUpdates)
      BY <1>5, <1>7, <1>8, <3>1, <3>2
    <3>3. CASE k > Len(pendingUpdates)
      <4>1. k - Len(pendingUpdates) \in 1 .. n
        BY <1>3, <1>8, <3>1, <3>3
      <4>2. pendingUpdates'[k] = failed[k - Len(pendingUpdates)]
        BY <1>3, <1>5, <1>7, <1>8, <3>1, <3>3
      <4> QED
        BY <4>1, <4>2
    <3> QED
      BY <1>8, <3>1, <3>2, <3>3
  <2> QED
    BY <2>1, <2>2
<1>10. /\ operations' \in [DOMAIN operations' -> Checkpoint]
       /\ DOMAIN operations' = DOMAIN operations \ ids
       /\ \A x \in DOMAIN operations' : operations'[x] = operations[x]
  BY <1>1 DEF ManagerInv, TypeOK
<1>11. HandlerTypeOK' /\ HandlerKnows' /\ NothingLeft'
  <2>1. HandlerTypeOK' /\ NothingLeft'
    BY <1>1 DEF ManagerInv, TypeOK, HandlerTypeOK, NothingLeft
  <2>2. HandlerKnows'
    BY <1>1 DEF ManagerInv, HandlerKnows, NoUpdate, Closing
  <2> QED
    BY <2>1, <2>2
<1>12. TypeOK'
  BY <1>1, <1>9, <1>10, <1>11 DEF ManagerInv, TypeOK
<1>13. PrimitivesCounted' /\ ReadsContinue' /\ RemoteNotCanceled'
  BY <1>1, <1>10 DEF ManagerInv, TypeOK, PrimitivesCounted, ReadsContinue, RemoteNotCanceled, ids
<1>14. CheckpointsFit'
  <2>1. \A k \in DOMAIN pendingUpdates' :
          /\ Fits(pendingUpdates'[k].op)
          /\ pendingUpdates'[k].op.kind = saved[pendingUpdates'[k].id].kind
    BY <1>6, <1>9 DEF ManagerInv, CheckpointsFit
  <2> QED
    BY <1>1, <1>10, <2>1 DEF ManagerInv, CheckpointsFit
<1> QED
  BY <1>11, <1>12, <1>13, <1>14 DEF ManagerInv

-----------------------------------------------------------------------------
(* The coordinator, the end of the manager and that of the process.        *)

(* SaveOperation: the oldest update.                                       *)
LEMMA SaveUpdateKeeps ==
  ASSUME ManagerInv, SaveUpdate
  PROVE  ManagerInv'
<1> DEFINE u == Head(pendingUpdates)
<1>1. /\ pendingUpdates # <<>> /\ u.op.status # "unsupported"
      /\ saved' = [saved EXCEPT ![u.id] = u.op]
      /\ pendingUpdates' = Tail(pendingUpdates)
      /\ UNCHANGED <<operations, accepted, canceled, active, mgr, primitives,
                     handler, forward, jobs, starts>>
  BY DEF SaveUpdate, remoteVars
<1>2. pendingUpdates \in Seq([id : Operations, op : Checkpoint])
  BY DEF ManagerInv, TypeOK
<1>3. /\ u = pendingUpdates[1] /\ 1 \in DOMAIN pendingUpdates
      /\ u \in [id : Operations, op : Checkpoint]
      /\ pendingUpdates' \in Seq([id : Operations, op : Checkpoint])
      /\ \A k \in DOMAIN pendingUpdates' :
           k + 1 \in DOMAIN pendingUpdates /\ pendingUpdates'[k] = pendingUpdates[k + 1]
  <2>1. \A S : \A q \in Seq(S) : q # <<>> =>
          /\ Head(q) = q[1] /\ 1 \in DOMAIN q /\ Head(q) \in S
          /\ Tail(q) \in Seq(S)
          /\ \A k \in DOMAIN Tail(q) : k + 1 \in DOMAIN q /\ Tail(q)[k] = q[k + 1]
    OBVIOUS
  <2> QED
    BY <1>1, <1>2, <2>1
<1>4. Fits(u.op) /\ u.op.kind = saved[u.id].kind
  BY <1>3 DEF ManagerInv, CheckpointsFit
<1> HIDE DEF u
<1>5. /\ u.id \in Operations /\ u.op \in Checkpoint
  BY <1>3
<1>6. /\ saved' \in [Operations -> Checkpoint] /\ saved'[u.id] = u.op
      /\ \A x \in Operations : saved'[x].kind = saved[x].kind
      /\ \A x \in Operations \ {u.id} : saved'[x] = saved[x]
  BY <1>1, <1>4, <1>5 DEF ManagerInv, TypeOK
<1>7. TypeOK'
  BY <1>1, <1>3, <1>6 DEF ManagerInv, TypeOK, HandlerTypeOK
<1>8. PrimitivesCounted' /\ ReadsContinue' /\ RemoteNotCanceled'
  BY <1>1 DEF ManagerInv, PrimitivesCounted, ReadsContinue, RemoteNotCanceled
<1>9. CheckpointsFit'
  <2>1. \A x \in Operations : Fits(saved'[x]) /\ saved'[x].status # "unsupported"
    BY <1>1, <1>4, <1>6 DEF ManagerInv, CheckpointsFit
  <2>2. \A x \in DOMAIN operations : x \in Operations
    BY DEF ManagerInv, TypeOK
  <2>3. \A k \in DOMAIN pendingUpdates : pendingUpdates[k].id \in Operations
    <3>1. \A S : \A q \in Seq(S) : \A k \in DOMAIN q : q[k] \in S
      OBVIOUS
    <3>2. \A k \in DOMAIN pendingUpdates :
            pendingUpdates[k] \in [id : Operations, op : Checkpoint]
      BY <1>2, <3>1
    <3> QED
      BY <3>2
  <2>4. \A k \in DOMAIN pendingUpdates' :
          /\ Fits(pendingUpdates'[k].op)
          /\ pendingUpdates'[k].op.kind = saved'[pendingUpdates'[k].id].kind
    BY <1>3, <1>6, <2>3 DEF ManagerInv, CheckpointsFit
  <2> QED
    BY <1>1, <1>6, <2>1, <2>2, <2>4 DEF ManagerInv, CheckpointsFit
<1>10. HandlerKnows' /\ NothingLeft'
  <2>1. HandlerKnows'
    BY <1>1, <1>6 DEF ManagerInv, HandlerKnows
  <2>2. NothingLeft'
    BY <1>1 DEF SaveUpdate, NothingLeft
  <2> QED
    BY <2>1, <2>2
<1> QED
  BY <1>7, <1>8, <1>9, <1>10 DEF ManagerInv

(* The shutdown keeps it: what was canceled is not looked at again.        *)
LEMMA ShutdownKeeps ==
  ASSUME ManagerInv, Shutdown
  PROVE  ManagerInv'
<1>1. /\ mgr' = "draining" /\ canceled' = DOMAIN operations /\ forward' = NoUpdate
      /\ UNCHANGED <<operations, accepted, active, pendingUpdates, primitives,
                     handler, jobs, starts, saved>>
  BY DEF Shutdown, storeVars
<1>2. TypeOK'
  BY <1>1 DEF ManagerInv, TypeOK, HandlerTypeOK
<1>3. PrimitivesCounted' /\ ReadsContinue' /\ RemoteNotCanceled' /\ CheckpointsFit'
  BY <1>1 DEF ManagerInv, PrimitivesCounted, ReadsContinue, RemoteNotCanceled, CheckpointsFit
<1>4. HandlerKnows' /\ NothingLeft'
  BY <1>1 DEF ManagerInv, HandlerKnows, NothingLeft, NoUpdate, Closing
<1> QED
  BY <1>2, <1>3, <1>4 DEF ManagerInv

(* The manager that closes keeps it.                                       *)
LEMMA CloseKeeps ==
  ASSUME ManagerInv, Close
  PROVE  ManagerInv'
<1>1. /\ mgr' = "closed"
      /\ UNCHANGED <<operations, accepted, canceled, active, pendingUpdates, primitives,
                     handler, forward, jobs, starts, saved>>
  BY DEF Close, remoteVars, storeVars
<1>2. TypeOK'
  BY <1>1 DEF ManagerInv, TypeOK, HandlerTypeOK
<1> QED
  BY <1>1, <1>2 DEF ManagerInv, PrimitivesCounted, ReadsContinue, RemoteNotCanceled,
                    CheckpointsFit, HandlerKnows, NothingLeft

(* The end of the process keeps it, as nothing is left behind.             *)
LEMMA DownKeeps ==
  ASSUME ManagerInv, Down
  PROVE  ManagerInv'
<1>1. /\ mgr' = "down" /\ operations' = <<>> /\ primitives' = <<>>
      /\ accepted' = {} /\ canceled' = {} /\ active' = 0 /\ pendingUpdates' = <<>>
      /\ handler' = "open" /\ forward' = NoUpdate
      /\ jobs' = [id \in Operations |-> "none"]
      /\ UNCHANGED <<starts, saved>>
  BY DEF Down, storeVars
<1>2. DOMAIN operations' = {} /\ DOMAIN primitives' = {} /\ DOMAIN pendingUpdates' = {}
  BY <1>1
<1>3. IsFiniteSet(accepted') /\ Cardinality(DOMAIN primitives') = 0
  BY <1>1, <1>2, FS_EmptySet
<1>4. TypeOK'
  <2>1. /\ operations' \in [DOMAIN operations' -> Checkpoint]
        /\ primitives' \in [DOMAIN primitives' -> Primitive]
    BY <1>1, <1>2
  <2>2. pendingUpdates' \in Seq([id : Operations, op : Checkpoint]) /\ active' \in Nat
    BY <1>1
  <2>3. HandlerTypeOK'
    BY <1>1 DEF HandlerTypeOK
  <2>4. saved' \in [Operations -> Checkpoint] /\ starts' \in [Operations -> Nat]
    BY <1>1 DEF ManagerInv, TypeOK
  <2> QED
    BY <1>1, <1>2, <1>3, <2>1, <2>2, <2>3, <2>4 DEF TypeOK
<1>5. PrimitivesCounted' /\ ReadsContinue' /\ RemoteNotCanceled'
  BY <1>1, <1>3 DEF PrimitivesCounted, ReadsContinue, RemoteNotCanceled
<1>6. CheckpointsFit'
  BY <1>1, <1>2 DEF ManagerInv, CheckpointsFit
<1>7. HandlerKnows' /\ NothingLeft'
  BY <1>1 DEF HandlerKnows, NothingLeft, NoUpdate, Closing
<1> QED
  BY <1>4, <1>5, <1>6, <1>7 DEF ManagerInv

(* A process that starts has nothing but the store.                        *)
LEMMA RestartKeeps ==
  ASSUME ManagerInv, Restart
  PROVE  ManagerInv'
<1>1. /\ mgr = "down" /\ mgr' = "running"
      /\ UNCHANGED <<operations, accepted, canceled, active, pendingUpdates, primitives,
                     handler, forward, jobs, starts, saved>>
  BY DEF Restart, remoteVars
<1>2. DOMAIN operations = {} /\ DOMAIN primitives = {} /\ canceled = {}
  BY <1>1 DEF ManagerInv, TypeOK, NothingLeft
<1>3. TypeOK'
  BY <1>1 DEF ManagerInv, TypeOK, HandlerTypeOK
<1>4. PrimitivesCounted' /\ ReadsContinue' /\ RemoteNotCanceled'
  BY <1>1, <1>2 DEF ManagerInv, PrimitivesCounted, ReadsContinue, RemoteNotCanceled
<1>5. CheckpointsFit' /\ HandlerKnows' /\ NothingLeft'
  BY <1>1 DEF ManagerInv, CheckpointsFit, HandlerKnows, NothingLeft
<1> QED
  BY <1>3, <1>4, <1>5 DEF ManagerInv

-----------------------------------------------------------------------------
(* The manager starts with nothing to do.                                  *)
LEMMA InvariantInit == Init => ManagerInv
<1> SUFFICES ASSUME Init PROVE ManagerInv
  OBVIOUS
<1> USE DEF Init
<1>1. PICK type \in [Operations -> Types] : saved = [id \in Operations |-> Ready(type[id])]
  OBVIOUS
<1>2. \A kind \in Kinds :
        /\ Ready(kind) \in Checkpoint /\ Fits(Ready(kind))
        /\ Ready(kind).status = "ready"
  <2> TAKE kind \in Kinds
  <2>1. Ready(kind) \in Checkpoint
    BY NoContent DEF Ready, Checkpoint
  <2>2. Ready(kind).status = "ready" /\ Ready(kind).phase = "" /\ Ready(kind).kind = kind
    BY DEF Ready
  <2> QED
    BY <2>1, <2>2 DEF Fits
<1>3. \A id \in Operations :
        saved[id] \in Checkpoint /\ Fits(saved[id]) /\ saved[id].status = "ready"
  <2> TAKE id \in Operations
  <2>1. type[id] \in Kinds /\ saved[id] = Ready(type[id])
    BY <1>1, TypesAssumption
  <2> QED
    BY <1>2, <2>1
<1>4. DOMAIN operations = {} /\ DOMAIN primitives = {} /\ DOMAIN pendingUpdates = {}
  OBVIOUS
<1>5. IsFiniteSet(accepted) /\ Cardinality(DOMAIN primitives) = 0
  BY <1>4, FS_EmptySet
<1>6. TypeOK
  <2>1. /\ operations \in [DOMAIN operations -> Checkpoint]
        /\ primitives \in [DOMAIN primitives -> Primitive]
    BY <1>4
  <2>2. pendingUpdates \in Seq([id : Operations, op : Checkpoint]) /\ active \in Nat
    OBVIOUS
  <2>3. HandlerTypeOK
    BY DEF HandlerTypeOK
  <2>4. saved \in [Operations -> Checkpoint]
    <3>1. DOMAIN saved = Operations /\ saved = [id \in DOMAIN saved |-> saved[id]]
      BY <1>1
    <3> QED
      BY <1>3, <3>1
  <2>5. starts \in [Operations -> Nat]
    OBVIOUS
  <2> QED
    BY <1>4, <1>5, <2>1, <2>2, <2>3, <2>4, <2>5 DEF TypeOK
<1>7. PrimitivesCounted /\ ReadsContinue /\ RemoteNotCanceled
  BY <1>4, <1>5 DEF PrimitivesCounted, ReadsContinue, RemoteNotCanceled
<1>8. CheckpointsFit
  BY <1>3, <1>4 DEF CheckpointsFit
<1>9. HandlerKnows /\ NothingLeft
  BY DEF HandlerKnows, NothingLeft, NoUpdate, Closing
<1> QED
  BY <1>6, <1>7, <1>8, <1>9 DEF ManagerInv

(* Every step keeps the invariant.                                         *)
LEMMA InvariantStep == ManagerInv /\ [Next]_vars => ManagerInv'
<1> SUFFICES ASSUME ManagerInv, [Next]_vars PROVE ManagerInv'
  OBVIOUS
<1>1. CASE RemoteStep
  BY <1>1, AddRemoteKeeps, CancelRemoteKeeps, HandlerReportsKeeps, HandlerClosesKeeps,
     ReceiveRemoteKeeps, IgnoreRemoteKeeps, HandlerStoppedKeeps DEF RemoteStep
<1>2. CASE SaveRejected \/ Crash
  BY <1>2, DownKeeps DEF SaveRejected, Crash
<1>3. CASE UNCHANGED vars
  BY <1>3 DEF vars, remoteVars, storeVars, ManagerInv, TypeOK, HandlerTypeOK, PrimitivesCounted,
              CheckpointsFit, ReadsContinue, RemoteNotCanceled, HandlerKnows, NothingLeft
<1> QED
  BY <1>1, <1>2, <1>3, AddKeeps, CancelKeeps, PrimitiveStepKeeps, SaveUpdateKeeps,
     ShutdownKeeps, CloseKeeps, RestartKeeps DEF Next

(* The count that drainLocalPrimitives relies on is exact, every local     *)
(* operation waits for a primitive of its phase, and the manager, the      *)
(* handler and the store agree about each operation.                       *)
THEOREM ManagerInvariant == Spec => []ManagerInv
BY InvariantInit, InvariantStep, PTL DEF Spec

-----------------------------------------------------------------------------
(* The promises of the manager: no job goes on that nobody works for,      *)
(* results come from work that was done, a cancellation wins, every        *)
(* operation is told of to its end, and a recorded start is not repeated.  *)
(*                                                                         *)
(* StepsAre says once what a step of the specification is: an operation    *)
(* takes a step of its actor (Took), a remote job is given to its handler  *)
(* (Gave), the handler has stopped, an update is saved, the process ends,  *)
(* or nothing happens to operations and checkpoints.  Each property is     *)
(* then shown for these few cases.                                         *)

(* The job of an operation that was given and has not ended: the manager   *)
(* runs and works on the operation.                                        *)
LEMMA GivenIs ==
  ASSUME ManagerInv, NoJobAbandoned, mgr \in {"running", "down"},
         NEW id \in Operations, jobs[id] = "given"
  PROVE  /\ mgr = "running" /\ id \in DOMAIN operations /\ operations[id].kind = "remote"
         /\ handler = "open"
<1>1. id \in accepted /\ saved[id].kind = "remote" /\ handler = "open"
  BY DEF ManagerInv, HandlerKnows
<1>2. mgr = "running"
  BY <1>1 DEF ManagerInv, NothingLeft
<1>3. id \in DOMAIN operations
  BY <1>2 DEF NoJobAbandoned
<1> QED
  BY <1>1, <1>2, <1>3 DEF ManagerInv, CheckpointsFit

(* acceptLocalStep lets go of no operation but the one that takes a step,  *)
(* and of that only when it has ended.                                     *)
LEMMA AcceptLetsGo ==
  ASSUME NEW id, NEW step, NEW prims, NEW count, AcceptStep(id, step, prims, count)
  PROVE  /\ DOMAIN operations \ {id} \subseteq DOMAIN operations'
         /\ ~Ended(step.op) => id \in DOMAIN operations'
BY DEF AcceptStep, Keep, With, Without

(* No step lets go of an operation whose job goes on.                      *)
LEMMA JobsStep ==
  ASSUME ManagerInv, NoJobAbandoned, [Next]_vars
  PROVE  NoJobAbandoned'
<1> SUFFICES ASSUME mgr' = "running", NEW id \in Operations, id \notin DOMAIN operations'
             PROVE  jobs'[id] # "given"
  BY DEF NoJobAbandoned
<1>1. ASSUME mgr \in {"running", "down"}, jobs'[id] = jobs[id],
             \/ id \in DOMAIN operations => id \in DOMAIN operations'
             \/ id \in DOMAIN operations => operations[id].kind # "remote"
      PROVE  jobs'[id] # "given"
  BY <1>1, GivenIs
<1>2. ASSUME NEW x \in Operations, Add(x) PROVE jobs'[id] # "given"
  <2>1. mgr = "running" /\ jobs' = jobs /\ x \notin DOMAIN operations
    BY <1>2 DEF Add, Addable, remoteVars, ManagerInv, TypeOK
  <2>2. DOMAIN operations \ {x} \subseteq DOMAIN operations'
    BY <1>2, AcceptLetsGo DEF Add
  <2> QED
    BY <1>1, <2>1, <2>2
<1>3. ASSUME NEW x \in Operations, PrimitiveStep(x) PROVE jobs'[id] # "given"
  <2>1. x \in DOMAIN primitives
    BY <1>3 DEF PrimitiveStep, StartCommand, ReportStart, SkipReport, ReadChunk,
                PrimitiveCompletes, PrimitiveFails, PrimitiveCanceled, Ending, At
  <2>2. \/ UNCHANGED <<operations, jobs, mgr>>
        \/ \E event, flag, prims : PrimitiveEvent(x, event, flag, prims)
    BY <1>3 DEF PrimitiveStep, StartCommand, ReportStart, SkipReport, ReadChunk,
                PrimitiveCompletes, PrimitiveFails, PrimitiveCanceled, remoteVars
  <2>3. CASE UNCHANGED <<operations, jobs, mgr>>
    BY <1>1, <2>3
  <2>4. ASSUME NEW event, NEW flag, NEW prims, PrimitiveEvent(x, event, flag, prims)
        PROVE  jobs'[id] # "given"
    <3>1. jobs' = jobs /\ mgr' = mgr
      BY <2>4 DEF PrimitiveEvent, remoteVars
    <3>2. operations' = operations \/ DOMAIN operations \ {x} \subseteq DOMAIN operations'
      BY <2>4, AcceptLetsGo DEF PrimitiveEvent
    <3>3. operations[x].kind # "remote"
      BY <2>1, <3>1 DEF ManagerInv, PrimitivesCounted
    <3> QED
      BY <1>1, <3>1, <3>2, <3>3
  <2> QED
    BY <2>2, <2>3, <2>4
<1>4. ASSUME NEW x \in Operations, NEW taken \in BOOLEAN, AddRemote(x, taken)
      PROVE  jobs'[id] # "given"
  <2>1. /\ mgr = "running" /\ x \notin accepted /\ x \notin DOMAIN operations
        /\ jobs[x] = "none"
    BY <1>4 DEF AddRemote, Addable, ManagerInv, TypeOK, HandlerKnows
  <2>2. CASE taken
    <3>1. DOMAIN operations' = DOMAIN operations \cup {x}
      BY <1>4, <2>2 DEF AddRemote, With
    <3>2. id # x /\ jobs'[id] = jobs[id]
      BY <1>4, <2>2, <3>1 DEF AddRemote, ManagerInv, TypeOK, HandlerTypeOK
    <3> QED
      BY <1>1, <2>1, <3>1, <3>2
  <2>3. CASE ~taken
    BY <1>1, <1>4, <2>1, <2>3, AcceptLetsGo DEF AddRemote
  <2> QED
    BY <2>2, <2>3
<1>5. ASSUME NEW x \in Operations, NEW heard \in BOOLEAN, mgr = "running", Tell(x, heard),
             DOMAIN operations \ {x} \subseteq DOMAIN operations'
      PROVE  jobs'[id] # "given"
  <2>1. CASE id = x
    BY <1>5, <2>1, TellIs
  <2>2. CASE id # x
    <3>1. jobs'[id] = jobs[id]
      BY <1>5, <2>2, TellIs
    <3> QED
      BY <1>1, <1>5, <2>2, <3>1
  <2> QED
    BY <2>1, <2>2
<1>6. ASSUME NEW x \in Operations, NEW heard \in BOOLEAN, CancelRemote(x, heard)
      PROVE  jobs'[id] # "given"
  <2>1. DOMAIN operations \ {x} \subseteq DOMAIN operations'
    BY <1>6, AcceptLetsGo DEF CancelRemote
  <2> QED
    BY <1>5, <1>6, <2>1 DEF CancelRemote
<1>7. ASSUME NEW heard \in BOOLEAN, ReceiveRemote(heard) PROVE jobs'[id] # "given"
  <2> DEFINE x == forward.id
             op == operations[x]
  <2>1. /\ mgr = "running" /\ x \in Operations /\ x \in DOMAIN operations
        /\ forward \notin {NoUpdate, Closing} /\ forward.status \in RemoteStatuses
        /\ op.kind = "remote" /\ op \in Checkpoint /\ Fits(op)
    BY <1>7, RemoteSays DEF ReceiveRemote, ManagerInv, TypeOK, HandlerTypeOK, HandlerKnows, CheckpointsFit
  <2>2. CASE ValidUpdate(op, forward)
    <3> DEFINE step == Step([op EXCEPT !.status = forward.status], "")
    <3>1. AcceptStep(x, step, primitives, active) /\ jobs' = jobs
      BY <1>7, <2>2 DEF ReceiveRemote
    <3>2. step.op.status = forward.status
      BY <2>1, ValidUpdateIs
    <3>3. /\ DOMAIN operations \ {x} \subseteq DOMAIN operations'
          /\ ~Ended(step.op) => x \in DOMAIN operations'
      BY <3>1, AcceptLetsGo
    <3> HIDE DEF step
    <3>4. forward.status \in Finals => jobs[x] = "ended"
      BY <2>1, <2>2 DEF ValidUpdate, ManagerInv, HandlerKnows
    <3>5. forward.status # "unsupported"
      BY <2>1 DEF RemoteStatuses, Finals
    <3> QED
      BY <1>1, <2>1, <3>1, <3>2, <3>3, <3>4, <3>5 DEF Ended, Finished
  <2>3. CASE ~ValidUpdate(op, forward)
    <3>1. Tell(x, heard) /\ AcceptStep(x, Fail(op), primitives, active)
      BY <1>7, <2>3 DEF ReceiveRemote, RejectUpdate
    <3>2. DOMAIN operations \ {x} \subseteq DOMAIN operations'
      BY <3>1, AcceptLetsGo
    <3> HIDE DEF x
    <3> QED
      BY <1>5, <2>1, <3>1, <3>2
  <2> QED
    BY <2>2, <2>3
<1>8. ASSUME NEW x \in Operations, NEW status \in RemoteStatuses, NEW valid \in BOOLEAN,
             HandlerReports(x, status, valid)
      PROVE  jobs'[id] # "given"
  <2>1. operations' = operations /\ mgr = "running" /\ jobs'[id] \in {jobs[id], "ended"}
    BY <1>8 DEF HandlerReports, ManagerInv, TypeOK, HandlerTypeOK
  <2> QED
    BY <1>1, <2>1
<1>9. CASE HandlerCloses
  BY <1>9 DEF HandlerCloses
<1>10. CASE HandlerStopped
  <2>1. handler # "open" /\ jobs' = jobs
    BY <1>10 DEF HandlerStopped, ManagerInv, HandlerKnows
  <2> QED
    BY <2>1 DEF ManagerInv, HandlerKnows
<1>11. CASE IgnoreRemote \/ SaveUpdate \/ Restart \/ UNCHANGED vars
             \/ \E x \in Operations : Cancel(x)
  <2>1. operations' = operations /\ jobs' = jobs /\ mgr \in {"running", "down"}
    BY <1>11 DEF IgnoreRemote, SaveUpdate, Restart, Cancel, vars, remoteVars
  <2> QED
    BY <1>1, <2>1
<1>12. CASE Shutdown \/ Close \/ SaveRejected \/ Crash
  BY <1>12 DEF Shutdown, Close, SaveRejected, Crash, Down
<1> QED
  BY <1>2, <1>3, <1>4, <1>6, <1>7, <1>8, <1>9, <1>10, <1>11, <1>12 DEF Next, RemoteStep

(* While the manager runs, no remote job goes on for an operation it has   *)
(* let go of (failRemoteJobOperation, cancelRemoteJob).                    *)
THEOREM JobsAreNotAbandoned == Spec => []NoJobAbandoned
<1>1. Init => NoJobAbandoned
  BY DEF Init, NoJobAbandoned
<1>2. ManagerInv /\ NoJobAbandoned /\ [Next]_vars => NoJobAbandoned'
  BY JobsStep
<1> QED
  BY <1>1, <1>2, ManagerInvariant, PTL DEF Spec

-----------------------------------------------------------------------------
(* What the actors make of a checkpoint that says no more than happened.   *)

(* A failed or canceled operation claims nothing.                          *)
LEMMA EndsReal ==
  ASSUME NEW id, NEW op, op.status # "completed", op.phase = ""
  PROVE  Real(id, op)
BY DEF Real, ReadPhases

(* The fields of an operation that goes on to another phase.               *)
LEMMA NextPhaseFields ==
  ASSUME NEW op \in Checkpoint, NEW phase \in Phases
  PROVE  NextPhase(op, phase).op.phase = phase /\ NextPhase(op, phase).op.status = "awaiting"
BY DEF NextPhase, Step, Checkpoint

(* The fields of an image that is computed, of which no update is sent.    *)
LEMMA ProcessFields ==
  ASSUME NEW op \in Checkpoint, NEW phase \in ComputePhases
  PROVE  /\ Process(op, phase).op.phase = phase /\ Process(op, phase).op.status = op.status
         /\ Process(op, phase).op.content = op.content /\ Process(op, phase).update = "none"
BY DEF Process, Quiet, Checkpoint

(* A completed operation keeps its content.                                *)
LEMMA CompleteFields ==
  ASSUME NEW op \in Checkpoint
  PROVE  /\ Complete(op).op.phase = "" /\ Complete(op).op.status = "completed"
         /\ Complete(op).op.content = op.content /\ Complete(op).op.kind = op.kind
         /\ Complete(op).update = "save"
BY DEF Complete, Step, Checkpoint

(* The durable checkpoint of an image claims less than the operation.      *)
LEMMA DurableIsReal ==
  ASSUME NEW id, NEW op \in Checkpoint, Real(id, op)
  PROVE  Real(id, Durable(op))
<1>1. CASE op.kind # "image" \/ op.status = "completed"
  BY <1>1 DEF Durable
<1>2. CASE ~(op.kind # "image" \/ op.status = "completed")
  <2>1. Durable(op).phase \in {"", "image_read"} /\ Durable(op).status = op.status
    BY <1>2 DEF Durable, Checkpoint
  <2> QED
    BY <1>2, <2>1 DEF Real, ReadPhases
<1> QED
  BY <1>1, <1>2

(* An operation that was past the start of its command when it is added    *)
(* fails, or goes on reading what the command left.                        *)
LEMMA AddIsReal ==
  ASSUME NEW id, NEW op \in Checkpoint, Fits(op), ~Ended(op), op.kind # "remote"
  PROVE  /\ Real(id, op) => Real(id, HandleAdd(op).op)
         /\ op.phase \in ReadPhases \cup {"process"} =>
              Finished(HandleAdd(op).op) \/ HandleAdd(op).op.phase \in ReadPhases
<1> DEFINE new == HandleAdd(op).op
<1>1. CASE op.kind = "shell"
  <2>1. CASE op.status = "ready"
    <3>1. op.phase = ""
      BY <2>1 DEF Fits
    <3>2. new.phase = "create_directory" /\ new.status = "awaiting"
      BY <1>1, <2>1 DEF HandleAdd, AddShell, NextPhase, Step, Checkpoint
    <3> QED
      BY <3>1, <3>2 DEF Real, ReadPhases
  <2>2. CASE op.status # "ready" /\ op.phase = "process"
    <3>1. new = Fail(op).op
      BY <1>1, <2>2 DEF HandleAdd, AddShell, Resume
    <3>2. new.status = "failed" /\ new.phase = ""
      BY <1>1, <3>1, FailIs
    <3> QED
      BY <3>2, EndsReal DEF Finished, Finals
  <2>3. CASE op.status # "ready" /\ op.phase # "process"
    <3>1. new = Step(op, op.phase).op
      BY <1>1, <2>3 DEF HandleAdd, AddShell, Resume
    <3>2. new = op
      BY <3>1, StepIs
    <3> QED
      BY <2>3, <3>2
  <2> QED
    BY <2>1, <2>2, <2>3
<1>2. CASE op.kind \in {"skill", "image"}
  <2>1. op.phase \notin ReadPhases \cup {"process"}
    BY <1>2 DEF Fits, PhasesOf, ComputePhases, ReadPhases
  <2>2. new.phase \in FilePhases /\ new.status = "awaiting"
    BY <1>2 DEF HandleAdd, AddSkill, AddImage, NextPhase, Step, Checkpoint, FilePhases
  <2> QED
    BY <2>1, <2>2 DEF Real, ReadPhases, FilePhases
<1>3. CASE op.kind = "value"
  <2>1. op.phase = ""
    BY <1>3 DEF Fits
  <2>2. new = Complete(op).op
    BY <1>3 DEF HandleAdd
  <2>3. GoodStep(op, Complete(op)) /\ new.phase = ""
    BY <1>3, <2>2, CompleteIs
  <2>4. new.kind = "value"
    BY <1>3, <2>2, <2>3 DEF GoodStep
  <2> QED
    BY <2>1, <2>3, <2>4 DEF Real, ReadPhases
<1>4. CASE op.kind = "unsupported"
  <2>1. op.phase = ""
    BY <1>4 DEF Fits
  <2>2. new.status = "unsupported" /\ new.phase = op.phase
    BY <1>4 DEF HandleAdd, Unsupported, Step, Checkpoint
  <2> QED
    BY <2>1, <2>2, EndsReal DEF ReadPhases
<1> QED
  BY <1>1, <1>2, <1>3, <1>4 DEF Checkpoint, Kinds

(* A command that exits was started, and a file is read to its end.        *)
LEMMA LastEventIsReal ==
  ASSUME NEW id, NEW op \in Checkpoint, Fits(op), op.status = "awaiting", op.kind # "remote",
         NEW event \in {"completed", "failed", "canceled"}, NEW flag \in BOOLEAN, NEW offset,
         event = "completed" /\ op.phase = "process" => starts[id] > 0,
         event = "completed" /\ op.phase = "image_read" => op.content = FileChunks
  PROVE  LET new == HandleEvent(op, event, flag, offset).op
         IN  /\ Real(id, op) => Real(id, new)
             /\ op.phase \in ReadPhases => Finished(new) \/ new.phase \in ReadPhases
<1> DEFINE step == HandleEvent(op, event, flag, offset)
           new == step.op
<1>1. op.phase \in PhasesOf(op.kind) /\ op.kind \in {"shell", "skill", "image"}
  BY DEF Fits, PhasesOf, Checkpoint, Kinds
<1>2. CASE step \in {Fail(op), CancelOp(op)}
  <2>1. new.status \in {"failed", "canceled"} /\ new.phase = ""
    BY <1>1, <1>2, FailIs, CancelIs
  <2> QED
    BY <2>1, EndsReal DEF Finished, Finals
<1>3. CASE step \notin {Fail(op), CancelOp(op)} /\ op.kind = "shell"
  <2>1. step = ShellEvent(op, event, flag) /\ event = "completed"
    BY <1>3 DEF HandleEvent, ShellEvent
  <2>2. CASE op.phase \in CreatePhases
    <3>1. PICK phase \in {"create_out", "create_err", "process"} : step = NextPhase(op, phase)
      BY <2>1, <2>2 DEF ShellEvent, Created, CreatePhases, ReadPhases
    <3>2. new.phase = phase /\ new.status = "awaiting"
      BY <3>1, NextPhaseFields DEF Phases, CreatePhases
    <3> QED
      BY <2>2, <3>2 DEF Real, CreatePhases, ReadPhases
  <2>3. CASE op.phase = "process"
    <3> DEFINE o == [op EXCEPT !.group = FALSE, !.exited = TRUE]
    <3>0. step = NextPhase(o, "read_out") /\ o \in Checkpoint
      BY <2>1, <2>3 DEF ShellEvent, ProcessExited, CreatePhases, ReadPhases, Checkpoint
    <3>1. new.phase = "read_out" /\ new.status = "awaiting"
      BY <3>0, NextPhaseFields DEF Phases, ReadPhases
    <3> QED
      BY <2>1, <2>3, <3>1 DEF Real, ReadPhases
  <2>4. CASE op.phase \in ReadPhases
    <3>1. step = ReadCompleted(op, flag)
      BY <2>1, <2>4 DEF ShellEvent, CreatePhases, ReadPhases
    <3>2. CASE step = Finish(op)
      <4>0. Finish(op).op.status = "completed" /\ Finish(op).op.phase = ""
              /\ Finish(op).op.kind = "shell"
        BY <1>3, <3>2 DEF Finish, Step, Checkpoint
      <4>1. new.status = "completed" /\ new.phase = "" /\ new.kind = "shell"
        BY <3>2, <4>0
      <4> QED
        BY <2>4, <4>1 DEF Real, ReadPhases, Finished, Finals
    <3>3. CASE step # Finish(op)
      <4>1. PICK phase \in ReadPhases : step = NextPhase(op, phase)
        BY <2>4, <3>1, <3>3 DEF ReadCompleted, ReadPhases
      <4>2. new.phase = phase /\ new.status = "awaiting"
        BY <4>1, NextPhaseFields DEF Phases
      <4> QED
        BY <2>4, <4>2 DEF Real, ReadPhases
    <3> QED
      BY <3>2, <3>3
  <2> QED
    BY <1>1, <1>3, <2>2, <2>3, <2>4 DEF PhasesOf, Phases
<1>4. CASE step \notin {Fail(op), CancelOp(op)} /\ op.kind = "skill"
  <2>1. step = Complete(op) /\ op.content = FileChunks
    BY <1>4 DEF HandleEvent, SkillEvent
  <2>2. /\ new.kind = "skill" /\ new.phase = "" /\ new.content = FileChunks
        /\ new.status = "completed"
    BY <1>4, <2>1, CompleteFields
  <2> QED
    BY <2>2 DEF Real, ReadPhases, Finished, Finals
<1>5. CASE step \notin {Fail(op), CancelOp(op)} /\ op.kind = "image"
  <2>1. step = ImageEvent(op, event, flag)
    BY <1>5 DEF HandleEvent
  <2>2. op.phase \in {"image_read", "image_process", "image_diagnose"}
    BY <1>1, <1>5 DEF PhasesOf, ComputePhases
  <2>3. CASE step = Complete(op)
    <3>1. op.phase = "image_process"
      BY <1>5, <2>1, <2>2, <2>3, CompleteFields, ProcessFields DEF ImageEvent, ComputePhases
    <3>2. /\ new.kind = "image" /\ new.phase = "" /\ new.content = op.content
      BY <1>5, <2>3, CompleteFields
    <3> QED
      BY <3>1, <3>2 DEF Real, ReadPhases
  <2>4. CASE step # Complete(op)
    <3>1. PICK phase \in ComputePhases :
            /\ step = Process(op, phase)
            /\ phase = "image_process" => event = "completed" /\ op.phase = "image_read"
      BY <1>5, <2>1, <2>2, <2>4 DEF ImageEvent, ComputePhases
    <3>2. new.phase = phase /\ new.status = "awaiting" /\ new.content = op.content
      BY <3>1, ProcessFields
    <3> QED
      BY <2>2, <3>1, <3>2 DEF Real, ReadPhases, ComputePhases
  <2> QED
    BY <2>3, <2>4
<1> QED
  BY <1>1, <1>2, <1>3, <1>4, <1>5

(* An event that does not end its primitive claims what happened.          *)
LEMMA EventOnTheWayIsReal ==
  ASSUME NEW id, NEW op, NEW step, Real(id, op), step.op.status = "awaiting",
         step.op.phase = op.phase, op.phase \in FilePhases \cup {"process"}
  PROVE  Real(id, step.op)
BY DEF Real, ReadPhases, FilePhases

-----------------------------------------------------------------------------
(* The steps of the system as the updates and the store show them.         *)

(* Every goroutine that is past the start of its command has started one.  *)
StartsAreReal == \A id \in DOMAIN primitives : primitives[id].stage # "new" => starts[id] > 0

Current(id) == IF id \in DOMAIN operations THEN operations[id] ELSE saved[id]

(* An operation takes the step of an actor.                                *)
Took(id, step) ==
  /\ mgr = "running" /\ UNCHANGED <<mgr, saved, starts>>
  /\ accepted' = accepted \cup {id}
  /\ id \in DOMAIN operations \/ (id \notin accepted /\ step.update = "save")
  /\ Current(id) \in Checkpoint /\ Fits(Current(id)) /\ ~Ended(Current(id))
  /\ GoodStep(Current(id), step)
  /\ pendingUpdates' = IF step.update = "save"
                       THEN Append(pendingUpdates, Update(id, Durable(step.op)))
                       ELSE pendingUpdates
  /\ operations' = IF Ended(step.op) THEN Without(operations, id)
                   ELSE With(operations, id, step.op)
  /\ id \in canceled => step.op.status # "completed"
  /\ StartsAreReal /\ Real(id, Current(id)) => Real(id, step.op)
  /\ \/ Current(id).phase \in ReadPhases
     \/ Current(id).phase = "process" /\ id \notin accepted
     => (Finished(step.op) \/ step.op.phase \in ReadPhases)

(* A remote job is given to its handler.                                   *)
Gave(id) ==
  /\ mgr = "running" /\ UNCHANGED <<mgr, saved, starts, pendingUpdates>>
  /\ id \notin accepted /\ accepted' = accepted \cup {id}
  /\ saved[id].kind = "remote" /\ ~Finished(saved[id])
  /\ operations' = With(operations, id, saved[id])

(* Add is a step that the manager takes.                                   *)
LEMMA AddTakes ==
  ASSUME ManagerInv, NEW id \in Operations, Add(id)
  PROVE  Took(id, HandleAdd(saved[id]))
<1> DEFINE step == HandleAdd(saved[id])
<1>1. /\ mgr = "running" /\ id \notin accepted /\ ~Finished(saved[id])
      /\ saved[id].kind # "remote" /\ accepted' = accepted \cup {id}
      /\ AcceptStep(id, step, primitives, active)
      /\ UNCHANGED <<mgr, starts, saved>>
  BY DEF Add, Addable, storeVars
<1>2. /\ saved[id] \in Checkpoint /\ Fits(saved[id]) /\ ~Ended(saved[id])
      /\ id \notin DOMAIN operations /\ id \notin canceled
  BY <1>1 DEF ManagerInv, TypeOK, CheckpointsFit, Ended
<1>3. GoodStep(saved[id], step) /\ step.update = "save"
  BY <1>1, <1>2, AddIs
<1>4. /\ Real(id, saved[id]) => Real(id, step.op)
      /\ saved[id].phase \in ReadPhases \cup {"process"} =>
           Finished(step.op) \/ step.op.phase \in ReadPhases
  BY <1>1, <1>2, AddIsReal
<1> HIDE DEF step
<1>5. Took(id, step)
  BY <1>1, <1>2, <1>3, <1>4 DEF Took, Current, AcceptStep, Keep
<1> QED
  BY <1>5 DEF step

(* So is the failure of an operation.                                      *)
LEMMA FailTakes ==
  ASSUME ManagerInv, mgr = "running", UNCHANGED <<mgr, starts, saved>>,
         NEW id \in Operations, accepted' = accepted \cup {id},
         id \in DOMAIN operations \/ id \notin accepted,
         Current(id) \in Checkpoint, Fits(Current(id)), ~Ended(Current(id)),
         Current(id).kind = "remote",
         AcceptStep(id, Fail(Current(id)), primitives, active)
  PROVE  Took(id, Fail(Current(id)))
<1> DEFINE step == Fail(Current(id))
<1>1. /\ GoodStep(Current(id), step) /\ step.op.status = "failed" /\ step.op.phase = ""
      /\ step.update = "save"
  BY FailIs
<1> HIDE DEF step
<1>2. Real(id, step.op) /\ Finished(step.op)
  BY <1>1, EndsReal DEF Finished, Finals
<1>3. AcceptStep(id, step, primitives, active)
  BY DEF step
<1>4. Took(id, step)
  BY <1>1, <1>2, <1>3 DEF Took, AcceptStep, Keep
<1> QED
  BY <1>4 DEF step

(* What the steps of remote jobs are.                                      *)
LEMMA RemoteTakes ==
  ASSUME ManagerInv, RemoteStep
  PROVE  \/ \E id \in Operations : Gave(id) \/ \E step : Took(id, step)
         \/ HandlerStopped
         \/ UNCHANGED <<operations, accepted, pendingUpdates, saved, mgr, starts>>
<1>1. ASSUME NEW id \in Operations, NEW taken \in BOOLEAN, AddRemote(id, taken)
      PROVE  Gave(id) \/ \E step : Took(id, step)
  <2>1. /\ mgr = "running" /\ id \notin accepted /\ ~Finished(saved[id])
        /\ saved[id].kind = "remote" /\ accepted' = accepted \cup {id}
        /\ UNCHANGED <<mgr, starts, saved>>
    BY <1>1 DEF AddRemote, Addable, storeVars
  <2>2. /\ saved[id] \in Checkpoint /\ Fits(saved[id]) /\ ~Ended(saved[id])
        /\ Current(id) = saved[id]
    BY <2>1 DEF ManagerInv, TypeOK, CheckpointsFit, Ended, Current
  <2>3. CASE taken
    BY <1>1, <2>1, <2>3 DEF AddRemote, Gave
  <2>4. CASE ~taken
    <3>1. AcceptStep(id, Fail(Current(id)), primitives, active)
      BY <1>1, <2>2, <2>4 DEF AddRemote
    <3>2. Took(id, Fail(Current(id)))
      BY <2>1, <2>2, <3>1, FailTakes
    <3> QED
      BY <3>2
  <2> QED
    BY <2>3, <2>4
<1>2. ASSUME NEW id \in Operations, NEW heard \in BOOLEAN, CancelRemote(id, heard)
      PROVE  \/ \E step : Took(id, step)
             \/ UNCHANGED <<operations, accepted, pendingUpdates, saved, mgr, starts>>
  <2>1. /\ mgr = "running" /\ id \in DOMAIN operations /\ operations[id].kind = "remote"
        /\ UNCHANGED <<accepted, mgr, starts, saved>>
    BY <1>2 DEF CancelRemote, storeVars
  <2>2. CASE heard
    BY <1>2, <2>1, <2>2 DEF CancelRemote
  <2>3. CASE ~heard
    <3>1. /\ id \in accepted /\ Current(id) = operations[id]
          /\ operations[id] \in Checkpoint /\ Fits(operations[id]) /\ ~Ended(operations[id])
      BY <2>1, RemoteSays DEF Current
    <3>2. AcceptStep(id, Fail(Current(id)), primitives, active)
      BY <1>2, <2>3, <3>1 DEF CancelRemote
    <3>3. accepted' = accepted \cup {id}
      BY <2>1, <3>1
    <3>4. Took(id, Fail(Current(id)))
      BY <2>1, <3>1, <3>2, <3>3, FailTakes
    <3> QED
      BY <3>4
  <2> QED
    BY <2>2, <2>3
<1>3. ASSUME NEW heard \in BOOLEAN, ReceiveRemote(heard)
      PROVE  forward.id \in Operations /\ \E step : Took(forward.id, step)
  <2> DEFINE id == forward.id
             op == operations[id]
  <2>1. /\ mgr = "running" /\ id \in Operations /\ id \in DOMAIN operations
        /\ forward.status \in RemoteStatuses /\ op.kind = "remote"
        /\ UNCHANGED <<accepted, mgr, starts, saved>>
    BY <1>3 DEF ReceiveRemote, ManagerInv, TypeOK, HandlerTypeOK, HandlerKnows, CheckpointsFit,
                storeVars
  <2>2. /\ id \in accepted /\ Current(id) = op /\ id \notin canceled
        /\ op \in Checkpoint /\ Fits(op) /\ ~Ended(op)
    BY <2>1, RemoteSays DEF Current
  <2>3. accepted' = accepted \cup {id}
    BY <2>1, <2>2
  <2>4. CASE ValidUpdate(op, forward)
    <3> DEFINE step == Step([op EXCEPT !.status = forward.status], "")
    <3>1. AcceptStep(id, step, primitives, active)
      BY <1>3, <2>4 DEF ReceiveRemote
    <3>2. /\ step.op \in Checkpoint /\ Fits(step.op) /\ step.op.kind = "remote"
          /\ step.op.status = forward.status /\ step.update = "save"
      BY <2>1, <2>2, ValidUpdateIs, ZenonT(60)
    <3> HIDE DEF step, op, id
    <3>3. op.phase = "" /\ step.op.phase = ""
      BY <2>1, <2>2, <3>2 DEF Fits
    <3>4. GoodStep(op, step) /\ Real(id, step.op)
      BY <2>1, <3>2, <3>3 DEF GoodStep, Real, ReadPhases
    <3>5. Took(id, step)
      BY <2>1, <2>2, <2>3, <3>1, <3>2, <3>3, <3>4 DEF Took, AcceptStep, Keep, ReadPhases
    <3> QED
      BY <2>1, <3>5 DEF id
  <2>5. CASE ~ValidUpdate(op, forward)
    <3>1. AcceptStep(id, Fail(Current(id)), primitives, active)
      BY <1>3, <2>2, <2>5 DEF ReceiveRemote, RejectUpdate
    <3> HIDE DEF op, id
    <3>2. Took(id, Fail(Current(id)))
      BY <2>1, <2>2, <2>3, <3>1, FailTakes
    <3> QED
      BY <2>1, <3>2 DEF id
  <2> QED
    BY <2>4, <2>5
<1>4. CASE HandlerCloses \/ IgnoreRemote
           \/ \E id \in Operations, status \in RemoteStatuses, valid \in BOOLEAN :
                HandlerReports(id, status, valid)
  BY <1>4 DEF HandlerCloses, IgnoreRemote, HandlerReports, storeVars
<1> QED
  BY <1>1, <1>2, <1>3, <1>4 DEF RemoteStep

(* The event that ends a primitive is a step that the manager takes.       *)
LEMMA LastEventTakes ==
  ASSUME ManagerInv, mgr = "running", NEW id \in DOMAIN primitives,
         NEW event \in {"completed", "failed", "canceled"}, NEW flag \in BOOLEAN,
         event = "completed" /\ primitives[id].phase = "process" => primitives[id].stage # "new",
         event = "completed" /\ primitives[id].phase \in FilePhases =>
           primitives[id].at = FileChunks,
         PrimitiveEvent(id, event, flag, Without(primitives, id))
  PROVE  Took(id, Handled(id, event, flag))
<1> DEFINE op == operations[id]
           step == Handled(id, event, flag)
           seen == EventSeen(id, event)
<1>1. /\ id \in DOMAIN operations /\ id \in accepted
      /\ op \in Checkpoint /\ Fits(op) /\ op.status = "awaiting" /\ op.kind # "remote"
      /\ op.phase = primitives[id].phase
      /\ primitives[id].phase \in FilePhases => primitives[id].at = op.content
  BY LocalSays
<1>2. \E count : AcceptStep(id, step, Without(primitives, id), count)
  BY <1>1 DEF PrimitiveEvent
<1>3. accepted' = accepted \cup {id} /\ UNCHANGED <<mgr, saved, starts>>
  BY <1>1 DEF PrimitiveEvent, storeVars
<1>4. /\ seen \in {"completed", "failed", "canceled"}
      /\ id \in canceled => seen = "canceled"
      /\ seen = "completed" => event = "completed"
      /\ step = HandleEvent(op, seen, flag, primitives[id].at)
  BY DEF Handled, EventSeen, Final
<1>5. Current(id) = op /\ ~Ended(op)
  BY <1>1 DEF Current, Ended, Finished, Finals
<1> HIDE DEF op, step, seen
<1>6. GoodStep(op, step) /\ (seen = "canceled" => step.op.status = "canceled")
  BY <1>1, <1>4, LastEventIs
<1>7. StartsAreReal => (Real(id, op) => Real(id, step.op))
  <2> SUFFICES ASSUME StartsAreReal PROVE Real(id, op) => Real(id, step.op)
    OBVIOUS
  <2>1. /\ seen = "completed" /\ op.phase = "process" => starts[id] > 0
        /\ seen = "completed" /\ op.phase = "image_read" => op.content = FileChunks
    BY <1>1, <1>4 DEF StartsAreReal, FilePhases
  <2> QED
    BY <1>1, <1>4, <2>1, LastEventIsReal
<1>8. op.phase \in ReadPhases => Finished(step.op) \/ step.op.phase \in ReadPhases
  <2> SUFFICES ASSUME op.phase \in ReadPhases
               PROVE  Finished(step.op) \/ step.op.phase \in ReadPhases
    OBVIOUS
  <2>1. op.phase # "process" /\ op.phase # "image_read"
    BY DEF ReadPhases
  <2> QED
    BY <1>1, <1>4, <2>1, LastEventIsReal
<1>9. Took(id, step)
  BY <1>1, <1>2, <1>3, <1>4, <1>5, <1>6, <1>7, <1>8 DEF Took, AcceptStep, Keep
<1> QED
  BY <1>9 DEF step

(* So is one that does not.                                                *)
LEMMA EventOnTheWayTakes ==
  ASSUME ManagerInv, mgr = "running", NEW id \in DOMAIN primitives, NEW event,
         \/ event = "started" /\ primitives[id].phase = "process"
         \/ /\ event = "output" /\ primitives[id].phase \in FilePhases
            /\ primitives[id].at < FileChunks,
         NEW prims, NEW flag \in BOOLEAN, PrimitiveEvent(id, event, flag, prims)
  PROVE  Took(id, Handled(id, event, flag))
<1> DEFINE op == operations[id]
           step == Handled(id, event, flag)
<1>1. /\ id \in DOMAIN operations /\ id \in accepted
      /\ op \in Checkpoint /\ Fits(op) /\ op.status = "awaiting" /\ op.kind # "remote"
      /\ op.phase = primitives[id].phase /\ primitives[id] \in Primitive
      /\ primitives[id].phase \in FilePhases => primitives[id].at = op.content
  BY LocalSays
<1>2. \E count : AcceptStep(id, step, prims, count)
  BY <1>1 DEF PrimitiveEvent
<1>3. accepted' = accepted \cup {id} /\ UNCHANGED <<mgr, saved, starts>>
  BY <1>1 DEF PrimitiveEvent, storeVars
<1>4. step = HandleEvent(op, event, flag, primitives[id].at)
  BY DEF Handled, EventSeen, Final
<1>5. Current(id) = op /\ ~Ended(op)
  BY <1>1 DEF Current, Ended, Finished, Finals
<1> HIDE DEF op, step
<1>6. primitives[id].at \in 0 .. FileChunks /\ op.content \in 0 .. FileChunks
  BY <1>1, FieldsAre DEF Primitive
<1>7. \/ event = "started" /\ op.phase = "process"
      \/ event = "output" /\ op.phase \in FilePhases /\ primitives[id].at = op.content
           /\ op.content < FileChunks
  BY <1>1
<1>8. /\ GoodStep(op, step) /\ step.op.status = "awaiting" /\ step.op.phase = op.phase
  <2> DEFINE s == HandleEvent(op, event, flag, primitives[id].at)
  <2>1. /\ GoodStep(op, s) /\ s.dispatch = ""
        /\ s.op.status = "awaiting" /\ s.op.phase = op.phase
        /\ event = "output" => s.op.content = op.content + 1
    BY <1>1, <1>6, <1>7, EventOnTheWayIs, ZenonT(60)
  <2> QED
    BY <1>4, <2>1
<1>9. /\ Real(id, op) => Real(id, step.op)
      /\ op.phase \notin ReadPhases
  BY <1>7, <1>8, EventOnTheWayIsReal DEF ReadPhases, FilePhases
<1>10. Took(id, step)
  BY <1>1, <1>2, <1>3, <1>5, <1>8, <1>9 DEF Took, AcceptStep, Keep
<1> QED
  BY <1>10 DEF step

(* What the steps of the primitive goroutines are.                         *)
LEMMA PrimitiveTakes ==
  ASSUME ManagerInv, NEW id \in Operations, PrimitiveStep(id)
  PROVE  \/ \E step : Took(id, step)
         \/ UNCHANGED <<operations, accepted, pendingUpdates, saved, mgr>>
<1>1. id \in DOMAIN primitives /\ mgr \in {"running", "draining"}
  BY DEF PrimitiveStep, StartCommand, ReportStart, SkipReport, ReadChunk, PrimitiveCompletes,
         PrimitiveFails, PrimitiveCanceled, Ending, At
<1>2. CASE StartCommand(id) \/ SkipReport(id)
  BY <1>2 DEF StartCommand, SkipReport, storeVars
<1>3. ASSUME NEW event, NEW flag, NEW prims, PrimitiveEvent(id, event, flag, prims), mgr # "running"
      PROVE  UNCHANGED <<operations, accepted, pendingUpdates, saved, mgr>>
  BY <1>3 DEF PrimitiveEvent, storeVars
<1>4. CASE ReportStart(id)
  <2>1. PrimitiveEvent(id, "started", FALSE, [primitives EXCEPT ![id].stage = "reported"])
    BY <1>4 DEF ReportStart
  <2>2. primitives[id].phase = "process"
    BY <1>4 DEF ReportStart, At
  <2>3. FALSE \in BOOLEAN
    OBVIOUS
  <2> QED
    BY <1>1, <1>3, <2>1, <2>2, <2>3, EventOnTheWayTakes
<1>5. CASE ReadChunk(id)
  <2>1. PrimitiveEvent(id, "output", FALSE, [primitives EXCEPT ![id].at = @ + 1])
    BY <1>5 DEF ReadChunk
  <2>2. primitives[id].phase \in FilePhases /\ primitives[id].at < FileChunks
    BY <1>5 DEF ReadChunk, At
  <2>3. FALSE \in BOOLEAN
    OBVIOUS
  <2> QED
    BY <1>1, <1>3, <2>1, <2>2, <2>3, EventOnTheWayTakes
<1>6. ASSUME NEW flag \in BOOLEAN, PrimitiveCompletes(id, flag)
      PROVE  \/ \E step : Took(id, step)
             \/ UNCHANGED <<operations, accepted, pendingUpdates, saved, mgr>>
  <2>1. PrimitiveEvent(id, "completed", flag, Without(primitives, id))
    BY <1>6 DEF PrimitiveCompletes
  <2>2. /\ primitives[id].phase = "process" => primitives[id].stage # "new"
        /\ primitives[id].phase \in FilePhases => primitives[id].at = FileChunks
    BY <1>6 DEF PrimitiveCompletes, Ending, At
  <2> QED
    BY <1>1, <1>3, <2>1, <2>2, LastEventTakes
<1>7. CASE PrimitiveFails(id) \/ PrimitiveCanceled(id)
  <2>1. PICK event \in {"failed", "canceled"} :
          PrimitiveEvent(id, event, FALSE, Without(primitives, id))
    BY <1>7 DEF PrimitiveFails, PrimitiveCanceled
  <2>2. FALSE \in BOOLEAN
    OBVIOUS
  <2> QED
    BY <1>1, <1>3, <2>1, <2>2, LastEventTakes
<1> QED
  BY <1>2, <1>4, <1>5, <1>6, <1>7 DEF PrimitiveStep

(* Every step, as the updates and the store show it.                       *)
LEMMA StepsAre ==
  ASSUME ManagerInv, [Next]_vars
  PROVE  \/ \E id \in Operations : Gave(id) \/ \E step : Took(id, step)
         \/ HandlerStopped \/ SaveUpdate \/ Down
         \/ UNCHANGED <<operations, accepted, pendingUpdates, saved>>
<1>1. CASE Shutdown \/ Close \/ Restart \/ UNCHANGED vars \/ \E id \in Operations : Cancel(id)
  BY <1>1 DEF Shutdown, Close, Restart, Cancel, vars, storeVars
<1>2. CASE SaveRejected \/ Crash
  BY <1>2 DEF SaveRejected, Crash
<1> QED
  BY <1>1, <1>2, AddTakes, PrimitiveTakes, RemoteTakes DEF Next

-----------------------------------------------------------------------------
(* The queue of updates.                                                   *)

Added(c, q, e) ==
  /\ Len(q) \in Nat /\ Len(q) + 1 \notin DOMAIN q
  /\ DOMAIN c = DOMAIN q \cup {Len(q) + 1} /\ c[Len(q) + 1] = e
  /\ \A k \in DOMAIN q : k \in Nat /\ k < Len(q) + 1 /\ c[k] = q[k]

(* Append, by its entries.                                                 *)
LEMMA AppendIs ==
  ASSUME NEW S, NEW q \in Seq(S), NEW e \in S
  PROVE  Added(Append(q, e), q, e)
BY DEF Added

Removed(c, q) ==
  /\ 1 \in DOMAIN q /\ DOMAIN q \subseteq Nat \ {0} /\ DOMAIN c \subseteq Nat \ {0}
  /\ \A k \in DOMAIN c : k + 1 \in DOMAIN q /\ c[k] = q[k + 1]
  /\ \A k \in DOMAIN q \ {1} : k - 1 \in DOMAIN c /\ c[k - 1] = q[k]

(* Tail, by its entries.                                                   *)
LEMMA TailIs ==
  ASSUME NEW S, NEW q \in Seq(S), q # <<>>
  PROVE  Removed(Tail(q), q) /\ Head(q) = q[1]
BY DEF Removed

Joined(c, q, n, r) ==
  /\ Len(q) \in Nat
  /\ \A k \in DOMAIN c : k \in DOMAIN q \/ \E j \in 1 .. n : k = Len(q) + j
  /\ \A k \in DOMAIN q : k \in Nat /\ k <= Len(q) /\ k \in DOMAIN c /\ c[k] = q[k]
  /\ \A j \in 1 .. n : Len(q) + j \in DOMAIN c \ DOMAIN q /\ c[Len(q) + j] = r[j]

(* Concatenation, by its entries.                                          *)
LEMMA ConcatIs ==
  ASSUME NEW S, NEW q \in Seq(S), NEW n \in Nat, NEW r \in [1 .. n -> S]
  PROVE  Joined(q \o r, q, n, r)
<1>1. r \in Seq(S) /\ Len(r) = n
  OBVIOUS
<1>2. q \o r \in Seq(S) /\ Len(q \o r) = Len(q) + n /\ Len(q) \in Nat
  BY <1>1
<1>3. DOMAIN (q \o r) = 1 .. Len(q) + n /\ DOMAIN q = 1 .. Len(q)
  BY <1>2
<1>4. \A k \in 1 .. Len(q) : (q \o r)[k] = q[k]
  BY <1>1, <1>2
<1>5. \A j \in 1 .. n : (q \o r)[Len(q) + j] = r[j]
  BY <1>1, <1>2
<1>6. \A k \in 1 .. Len(q) + n : k \in 1 .. Len(q) \/ \E j \in 1 .. n : k = Len(q) + j
  <2>1. \A k \in 1 .. Len(q) + n :
          k > Len(q) => k - Len(q) \in 1 .. n /\ k = Len(q) + (k - Len(q))
    BY <1>2
  <2> QED
    BY <1>2, <2>1
<1>7. /\ \A j \in 1 .. n : Len(q) + j \in 1 .. Len(q) + n /\ Len(q) + j \notin 1 .. Len(q)
      /\ 1 .. Len(q) \subseteq 1 .. Len(q) + n
  BY <1>2
<1>8. \A k \in DOMAIN (q \o r) : k \in DOMAIN q \/ \E j \in 1 .. n : k = Len(q) + j
  BY <1>3, <1>6
<1>9. \A k \in DOMAIN q : k \in Nat /\ k <= Len(q) /\ k \in DOMAIN (q \o r)
  BY <1>2, <1>3, <1>7
<1>10. \A j \in 1 .. n : Len(q) + j \in DOMAIN (q \o r) \ DOMAIN q
  BY <1>3, <1>7
<1> QED
  BY <1>2, <1>3, <1>4, <1>5, <1>8, <1>9, <1>10 DEF Joined

(* The end of the handler, as the updates show it: one for each remote     *)
(* operation, in some order.                                               *)
Stopped(n, order) ==
  /\ {order[j] : j \in 1 .. n} = {x \in DOMAIN operations : operations[x].kind = "remote"}
  /\ \A i, j \in 1 .. n : order[i] = order[j] => i = j
  /\ Len(pendingUpdates) \in Nat
  /\ \A k \in DOMAIN pendingUpdates' :
       k \in DOMAIN pendingUpdates \/ \E j \in 1 .. n : k = Len(pendingUpdates) + j
  /\ \A k \in DOMAIN pendingUpdates :
       /\ k \in Nat /\ k <= Len(pendingUpdates)
       /\ k \in DOMAIN pendingUpdates' /\ pendingUpdates'[k] = pendingUpdates[k]
  /\ \A j \in 1 .. n :
       /\ Len(pendingUpdates) + j \in DOMAIN pendingUpdates' \ DOMAIN pendingUpdates
       /\ pendingUpdates'[Len(pendingUpdates) + j].id = order[j]
       /\ pendingUpdates'[Len(pendingUpdates) + j].op.status = "failed"
       /\ pendingUpdates'[Len(pendingUpdates) + j].op.phase = ""

(* HandlerStopped adds one failure for each operation of the handler.      *)
LEMMA StoppedIs ==
  ASSUME ManagerInv, HandlerStopped
  PROVE  \E n \in Nat : \E order \in [1 .. n -> Operations] : Stopped(n, order)
<1> DEFINE ids == {id \in DOMAIN operations : operations[id].kind = "remote"}
           n == Cardinality(ids)
           U == [id : Operations, op : Checkpoint]
<1>1. mgr = "running" /\ pendingUpdates \in Seq(U)
  BY DEF HandlerStopped, ManagerInv, TypeOK
<1>2. PICK order \in Bijection(1 .. n, ids) :
        pendingUpdates' = pendingUpdates \o
          [k \in DOMAIN order |-> Update(order[k], Fail(operations[order[k]]).op)]
  BY DEF HandlerStopped
<1>3. IsFiniteSet(ids) /\ n \in Nat
  <2>1. ids \subseteq accepted /\ IsFiniteSet(accepted)
    BY DEF ManagerInv, TypeOK
  <2> QED
    BY <2>1, FS_Subset, FS_CardinalityType
<1>4. /\ order \in [1 .. n -> ids]
      /\ \A i, j \in 1 .. n : order[i] = order[j] => i = j
      /\ \A x \in ids : \E j \in 1 .. n : order[j] = x
  BY DEF Bijection, Injection, Surjection, IsInjective
<1> DEFINE failed == [k \in 1 .. n |-> Update(order[k], Fail(operations[order[k]]).op)]
<1>5. pendingUpdates' = pendingUpdates \o failed
  BY <1>2, <1>4
<1>6. ASSUME NEW k \in 1 .. n
      PROVE  /\ failed[k] \in U /\ failed[k].id = order[k]
             /\ failed[k].op.status = "failed" /\ failed[k].op.phase = ""
  <2> DEFINE id == order[k]
             o == Fail(operations[id]).op
  <2>1. id \in DOMAIN operations /\ operations[id].kind = "remote"
    BY <1>4
  <2>2. id \in Operations /\ operations[id] \in Checkpoint /\ Fits(operations[id])
    BY <1>1, <2>1, RemoteSays
  <2>3. GoodStep(operations[id], Fail(operations[id])) /\ o.status = "failed" /\ o.phase = ""
    BY <2>1, <2>2, FailIs
  <2>4. o \in Checkpoint
    BY <2>3 DEF GoodStep
  <2>5. failed[k] = Update(id, o)
    OBVIOUS
  <2> HIDE DEF id, o, failed
  <2>6. failed[k] \in U /\ failed[k].id = id /\ failed[k].op = o
    BY <2>2, <2>4, <2>5 DEF Update
  <2> QED
    BY <2>3, <2>6 DEF id
<1>7. failed \in [1 .. n -> U]
  <2> HIDE DEF n, U
  <2>1. \A k \in 1 .. n : failed[k] \in U
    BY <1>6
  <2> QED
    BY <2>1
<1>8. order \in [1 .. n -> Operations]
  <2>1. ids \subseteq Operations
    BY DEF ManagerInv, TypeOK
  <2> QED
    BY <1>4, <2>1
<1> HIDE DEF failed, n, U
<1>9. /\ Len(pendingUpdates) \in Nat
      /\ \A k \in DOMAIN pendingUpdates' :
           k \in DOMAIN pendingUpdates \/ \E j \in 1 .. n : k = Len(pendingUpdates) + j
      /\ \A k \in DOMAIN pendingUpdates :
           /\ k \in Nat /\ k <= Len(pendingUpdates)
           /\ k \in DOMAIN pendingUpdates' /\ pendingUpdates'[k] = pendingUpdates[k]
      /\ \A j \in 1 .. n :
           /\ Len(pendingUpdates) + j \in DOMAIN pendingUpdates' \ DOMAIN pendingUpdates
           /\ pendingUpdates'[Len(pendingUpdates) + j] = failed[j]
  <2>1. Joined(pendingUpdates \o failed, pendingUpdates, n, failed)
    BY <1>1, <1>3, <1>7, ConcatIs
  <2>2. Joined(pendingUpdates', pendingUpdates, n, failed)
    BY <1>5, <2>1
  <2> QED
    BY <2>2 DEF Joined
<1>10. {order[j] : j \in 1 .. n} = ids
  BY <1>4
<1>11. \A j \in 1 .. n :
         /\ pendingUpdates'[Len(pendingUpdates) + j].id = order[j]
         /\ pendingUpdates'[Len(pendingUpdates) + j].op.status = "failed"
         /\ pendingUpdates'[Len(pendingUpdates) + j].op.phase = ""
  BY <1>6, <1>9, ZenonT(60)
<1> HIDE DEF ids
<1> n \in Nat /\ order \in [1 .. n -> Operations]
  BY <1>3, <1>8
<1> WITNESS n \in Nat
<1> WITNESS order \in [1 .. n -> Operations]
<1> QED
  BY <1>4, <1>9, <1>10, <1>11 DEF ids, Stopped

(* What a step adds to the updates.                                        *)
LEMMA TookAdds ==
  ASSUME ManagerInv, NEW id \in Operations, NEW step, Took(id, step)
  PROVE  \/ pendingUpdates' = pendingUpdates /\ step.update = "none"
         \/ /\ Added(pendingUpdates', pendingUpdates, Update(id, Durable(step.op)))
            /\ step.update = "save"
<1>1. pendingUpdates \in Seq([id : Operations, op : Checkpoint])
  BY DEF ManagerInv, TypeOK
<1>2. Update(id, Durable(step.op)) \in [id : Operations, op : Checkpoint]
  <2>1. Durable(step.op) \in Checkpoint
    BY DurableIs DEF Took, GoodStep
  <2> QED
    BY <2>1 DEF Update
<1> DEFINE u == Update(id, Durable(step.op))
<1> HIDE DEF u
<1>3. Added(Append(pendingUpdates, u), pendingUpdates, u)
  BY <1>1, <1>2, AppendIs DEF u
<1> QED
  BY <1>3 DEF Took, GoodStep, u

(* A step that the manager takes changes one operation of its map.         *)
LEMMA TookOperations ==
  ASSUME NEW id, NEW step, Took(id, step)
  PROVE  /\ DOMAIN operations' = IF Ended(step.op) THEN DOMAIN operations \ {id}
                                 ELSE DOMAIN operations \cup {id}
         /\ \A x \in DOMAIN operations' :
              operations'[x] = IF x = id THEN step.op ELSE operations[x]
BY DEF Took, With, Without

-----------------------------------------------------------------------------
(* A cancellation that the manager took wins over a completion.            *)
LEMMA CancelStep ==
  ASSUME ManagerInv, [Next]_vars, NEW id \in canceled, mgr = "running",
         NEW k \in DOMAIN pendingUpdates' \ DOMAIN pendingUpdates, pendingUpdates'[k].id = id
  PROVE  pendingUpdates'[k].op.status # "completed"
<1>1. ASSUME NEW x \in Operations, NEW step, Took(x, step)
      PROVE  pendingUpdates'[k].op.status # "completed"
  <2> DEFINE o == Durable(step.op)
  <2>1. o.status = step.op.status
    BY <1>1, DurableIs DEF Took, GoodStep
  <2> HIDE DEF o
  <2>2. pendingUpdates'[k] = Update(x, o)
    BY <1>1, TookAdds DEF Added, o
  <2>3. x = id /\ pendingUpdates'[k].op = o
    BY <2>2 DEF Update
  <2> QED
    BY <1>1, <2>1, <2>3 DEF Took
<1>2. CASE HandlerStopped
  <2>1. PICK n \in Nat : \E order \in [1 .. n -> Operations] : Stopped(n, order)
    BY <1>2, StoppedIs
  <2> QED
    BY <2>1 DEF Stopped
<1>3. CASE SaveUpdate
  <2>1. pendingUpdates \in Seq([id : Operations, op : Checkpoint]) /\ pendingUpdates # <<>>
        /\ pendingUpdates' = Tail(pendingUpdates)
    BY <1>3 DEF SaveUpdate, ManagerInv, TypeOK
  <2>2. DOMAIN pendingUpdates' \subseteq DOMAIN pendingUpdates
    BY <2>1
  <2> QED
    BY <2>2
<1>4. CASE Down
  BY <1>4 DEF Down
<1> QED
  BY <1>1, <1>2, <1>3, <1>4, StepsAre DEF Gave

(* An operation whose cancellation the manager took is never reported      *)
(* completed, even if its last primitive completes in the same moment      *)
(* (handlePrimitiveEvent).                                                 *)
THEOREM CancellationsWin == Spec => CancelWins
<1>1. ManagerInv /\ [Next]_vars =>
        [\A id \in canceled :
           mgr = "running" =>
             \A k \in DOMAIN pendingUpdates' \ DOMAIN pendingUpdates :
               pendingUpdates'[k].id = id => pendingUpdates'[k].op.status # "completed"]_vars
  BY CancelStep
<1> QED
  BY <1>1, ManagerInvariant, PTL DEF Spec, CancelWins

-----------------------------------------------------------------------------
(* Results are those of commands that ran and of files that were read.     *)

(* Goroutines begin, and start commands that are then counted.             *)
LEMMA StartsStep ==
  ASSUME ManagerInv, StartsAreReal, [Next]_vars
  PROVE  /\ \A id \in Operations : starts[id] > 0 => starts'[id] > 0
         /\ StartsAreReal'
<1>0. /\ starts \in [Operations -> Nat] /\ DOMAIN primitives \subseteq Operations
      /\ primitives \in [DOMAIN primitives -> Primitive]
  BY DEF ManagerInv, TypeOK
<1>1. ASSUME NEW id, NEW step, NEW prims, NEW count, AcceptStep(id, step, prims, count),
             \A x \in DOMAIN prims : prims[x].stage # "new" => starts[x] > 0,
             starts' = starts
      PROVE  StartsAreReal'
  <2>1. \A x \in DOMAIN primitives' :
          \/ x \in DOMAIN prims /\ primitives'[x] = prims[x]
          \/ primitives'[x].stage = "new"
    BY <1>1 DEF AcceptStep, With, Goroutine
  <2> QED
    BY <1>1, <2>1 DEF StartsAreReal
<1>2. ASSUME NEW id \in Operations, PrimitiveStep(id)
      PROVE  /\ \A x \in Operations : starts[x] > 0 => starts'[x] > 0
             /\ StartsAreReal'
  <2>1. CASE StartCommand(id)
    <3>1. /\ starts' = [starts EXCEPT ![id] = @ + 1]
          /\ primitives' = [primitives EXCEPT ![id].stage = "started"]
      BY <2>1 DEF StartCommand
    <3>2. starts'[id] > 0 /\ \A x \in Operations \ {id} : starts'[x] = starts[x]
      BY <1>0, <3>1
    <3>3. DOMAIN primitives' = DOMAIN primitives
            /\ \A x \in DOMAIN primitives \ {id} : primitives'[x] = primitives[x]
      BY <3>1
    <3> QED
      BY <1>0, <3>2, <3>3 DEF StartsAreReal
  <2>2. ASSUME NEW event, NEW flag, NEW prims, PrimitiveEvent(id, event, flag, prims),
               \A x \in DOMAIN prims : prims[x].stage # "new" => starts[x] > 0
        PROVE  starts' = starts /\ StartsAreReal'
    <3>1. starts' = starts
      BY <2>2 DEF PrimitiveEvent
    <3>2. primitives' = prims \/ \E step, count : AcceptStep(id, step, prims, count)
      BY <2>2 DEF PrimitiveEvent
    <3>3. CASE primitives' = prims
      BY <2>2, <3>1, <3>3 DEF StartsAreReal
    <3> QED
      BY <1>1, <2>2, <3>1, <3>2, <3>3
  <2>3. CASE ReportStart(id) \/ SkipReport(id)
    <3> DEFINE prims == [primitives EXCEPT ![id].stage = "reported"]
    <3>1. id \in DOMAIN primitives /\ primitives[id].stage = "started"
      BY <2>3 DEF ReportStart, SkipReport, At
    <3>2. \A x \in DOMAIN prims : prims[x].stage # "new" => starts[x] > 0
      BY <3>1 DEF StartsAreReal
    <3>3. CASE ReportStart(id)
      BY <2>2, <3>2, <3>3 DEF ReportStart
    <3>4. CASE SkipReport(id)
      BY <3>2, <3>4 DEF SkipReport, StartsAreReal
    <3> QED
      BY <2>3, <3>3, <3>4
  <2>4. CASE ReadChunk(id)
    <3> DEFINE prims == [primitives EXCEPT ![id].at = @ + 1]
    <3>1. \A x \in DOMAIN primitives : prims[x].stage = primitives[x].stage
      BY <1>0 DEF Primitive
    <3>2. DOMAIN prims = DOMAIN primitives
      OBVIOUS
    <3>3. PrimitiveEvent(id, "output", FALSE, prims)
      BY <2>4 DEF ReadChunk
    <3> HIDE DEF prims
    <3>4. \A x \in DOMAIN prims : prims[x].stage # "new" => starts[x] > 0
      BY <3>1, <3>2 DEF StartsAreReal
    <3> QED
      BY <2>2, <3>3, <3>4
  <2>5. CASE PrimitiveFails(id) \/ PrimitiveCanceled(id)
             \/ \E flag \in BOOLEAN : PrimitiveCompletes(id, flag)
    <3>1. \A x \in DOMAIN Without(primitives, id) :
            Without(primitives, id)[x].stage # "new" => starts[x] > 0
      BY DEF Without, StartsAreReal
    <3> QED
      BY <2>2, <2>5, <3>1 DEF PrimitiveFails, PrimitiveCanceled, PrimitiveCompletes
  <2> QED
    BY <1>2, <2>1, <2>3, <2>4, <2>5 DEF PrimitiveStep
<1>3. ASSUME NEW id \in Operations, Add(id) PROVE starts' = starts /\ StartsAreReal'
  BY <1>1, <1>3 DEF Add, StartsAreReal
<1>4. CASE RemoteStep
  <2>1. starts' = starts
    BY <1>4 DEF RemoteStep, AddRemote, CancelRemote, HandlerReports, HandlerCloses, ReceiveRemote,
                IgnoreRemote, HandlerStopped
  <2>2. primitives' = primitives \/ \E id, step, count : AcceptStep(id, step, primitives, count)
    BY <1>4 DEF RemoteStep, AddRemote, CancelRemote, HandlerReports, HandlerCloses, ReceiveRemote,
                IgnoreRemote, HandlerStopped, RejectUpdate
  <2> QED
    BY <1>1, <2>1, <2>2 DEF StartsAreReal
<1>5. CASE SaveUpdate \/ Shutdown \/ Close \/ Restart \/ UNCHANGED vars
           \/ \E id \in Operations : Cancel(id)
  <2>1. starts' = starts /\ primitives' = primitives
    BY <1>5 DEF SaveUpdate, Shutdown, Close, Restart, Cancel, vars
  <2> QED
    BY <2>1 DEF StartsAreReal
<1>6. CASE SaveRejected \/ Crash
  <2>1. starts' = starts /\ primitives' = <<>>
    BY <1>6 DEF SaveRejected, Crash, Down
  <2> QED
    BY <2>1 DEF StartsAreReal
<1> QED
  BY <1>2, <1>3, <1>4, <1>5, <1>6 DEF Next

(* Every step keeps checkpoints real.                                      *)
LEMMA RealStep ==
  ASSUME ManagerInv, ResultsAreReal, [Next]_vars
  PROVE  ResultsAreReal'
<1>1. StartsAreReal /\ StartsAreReal' /\ \A id \in Operations : starts[id] > 0 => starts'[id] > 0
  <2>1. StartsAreReal
    BY DEF ResultsAreReal, StartsAreReal
  <2> QED
    BY <2>1, StartsStep
<1>2. /\ saved \in [Operations -> Checkpoint] /\ DOMAIN operations \subseteq Operations
      /\ pendingUpdates \in Seq([id : Operations, op : Checkpoint])
      /\ \A k \in DOMAIN pendingUpdates : pendingUpdates[k].id \in Operations
  <2>1. /\ saved \in [Operations -> Checkpoint] /\ DOMAIN operations \subseteq Operations
        /\ pendingUpdates \in Seq([id : Operations, op : Checkpoint])
    BY DEF ManagerInv, TypeOK
  <2>2. \A S : \A q \in Seq(S) : \A k \in DOMAIN q : q[k] \in S
    OBVIOUS
  <2>3. \A k \in DOMAIN pendingUpdates : pendingUpdates[k] \in [id : Operations, op : Checkpoint]
    BY <2>1, <2>2
  <2> QED
    BY <2>1, <2>3
<1>3. /\ \A id \in Operations : Real(id, saved[id])
      /\ \A k \in DOMAIN pendingUpdates : Real(pendingUpdates[k].id, pendingUpdates[k].op)
      /\ \A id \in DOMAIN operations : Real(id, operations[id])
  BY DEF ResultsAreReal
<1>4. \A id \in Operations : \A op : Real(id, op) => Real(id, op)'
  BY <1>1 DEF Real
<1> DEFINE SavedReal == \A id \in Operations : Real(id, saved[id])
           PendingReal ==
             \A k \in DOMAIN pendingUpdates : Real(pendingUpdates[k].id, pendingUpdates[k].op)
           OperationsReal == \A id \in DOMAIN operations : Real(id, operations[id])
<1>5. saved' = saved => SavedReal'
  BY <1>1, <1>3 DEF Real
<1>6. pendingUpdates' = pendingUpdates => PendingReal'
  BY <1>1, <1>2, <1>3 DEF Real
<1>7. operations' = operations => OperationsReal'
  BY <1>1, <1>2, <1>3 DEF Real
<1>8. ASSUME NEW id \in Operations, NEW step, Took(id, step)
      PROVE  SavedReal' /\ PendingReal' /\ OperationsReal'
  <2> DEFINE o == Durable(step.op)
  <2>1. saved' = saved /\ Current(id) \in {saved[id], operations[id]}
    BY <1>8 DEF Took, Current
  <2>2. Real(id, Current(id))
    BY <1>3 DEF Current
  <2>3. Real(id, step.op) /\ step.op \in Checkpoint
    BY <1>1, <1>8, <2>2 DEF Took, GoodStep
  <2>4. Real(id, o)
    BY <2>3, DurableIsReal
  <2> HIDE DEF o
  <2>5. PendingReal'
    <3>1. pendingUpdates' = pendingUpdates \/ Added(pendingUpdates', pendingUpdates, Update(id, o))
      BY <1>8, TookAdds DEF o
    <3>2. CASE Added(pendingUpdates', pendingUpdates, Update(id, o))
      <4>1. ASSUME NEW k \in DOMAIN pendingUpdates'
            PROVE  Real(pendingUpdates[k].id, pendingUpdates[k].op)'
        <5>1. CASE k \in DOMAIN pendingUpdates
          <6>1. pendingUpdates'[k] = pendingUpdates[k]
            BY <3>2, <5>1 DEF Added
          <6> QED
            BY <1>1, <1>2, <1>3, <5>1, <6>1 DEF Real
        <5>2. CASE k \notin DOMAIN pendingUpdates
          <6>1. pendingUpdates'[k] = Update(id, o)
            BY <3>2, <4>1, <5>2 DEF Added
          <6>2. pendingUpdates'[k].id = id /\ pendingUpdates'[k].op = o
            BY <6>1 DEF Update
          <6> QED
            BY <1>1, <2>4, <6>2 DEF Real
        <5> QED
          BY <5>1, <5>2
      <4> QED
        BY <4>1
    <3> QED
      BY <1>6, <3>1, <3>2
  <2>6. OperationsReal'
    <3>1. \A x \in DOMAIN operations' :
            \/ x = id /\ operations'[x] = step.op
            \/ x \in DOMAIN operations /\ operations'[x] = operations[x]
      BY <1>8, TookOperations
    <3> QED
      BY <1>1, <1>2, <1>3, <2>3, <3>1 DEF Real
  <2> QED
    BY <1>5, <2>1, <2>5, <2>6
<1>9. ASSUME NEW id \in Operations, Gave(id)
      PROVE  SavedReal' /\ PendingReal' /\ OperationsReal'
  <2>1. /\ saved' = saved /\ pendingUpdates' = pendingUpdates
        /\ operations' = With(operations, id, saved[id])
    BY <1>9 DEF Gave
  <2>2. \A x \in DOMAIN operations' :
          \/ x = id /\ operations'[x] = saved[x]
          \/ x \in DOMAIN operations /\ operations'[x] = operations[x]
    BY <2>1 DEF With
  <2>3. OperationsReal'
    BY <1>1, <1>2, <1>3, <2>2 DEF Real
  <2> QED
    BY <1>5, <1>6, <2>1, <2>3
<1>10. ASSUME HandlerStopped PROVE SavedReal' /\ PendingReal' /\ OperationsReal'
  <2>1. /\ saved' = saved
        /\ \A x \in DOMAIN operations' : x \in DOMAIN operations /\ operations'[x] = operations[x]
    BY <1>10 DEF HandlerStopped, storeVars
  <2>2. OperationsReal'
    BY <1>1, <1>2, <1>3, <2>1 DEF Real
  <2>3. \E n \in Nat : \E order \in [1 .. n -> Operations] : Stopped(n, order)
    BY <1>10, StoppedIs
  <2>4. \A k \in DOMAIN pendingUpdates' :
          \/ k \in DOMAIN pendingUpdates /\ pendingUpdates'[k] = pendingUpdates[k]
          \/ pendingUpdates'[k].op.status = "failed" /\ pendingUpdates'[k].op.phase = ""
    <3>1. PICK n \in Nat : \E order \in [1 .. n -> Operations] : Stopped(n, order)
      BY <2>3
    <3>2. PICK order \in [1 .. n -> Operations] : Stopped(n, order)
      BY <3>1
    <3> TAKE k \in DOMAIN pendingUpdates'
    <3>3. CASE k \in DOMAIN pendingUpdates
      BY <3>2, <3>3 DEF Stopped
    <3>4. CASE k \notin DOMAIN pendingUpdates
      <4>1. PICK j \in 1 .. n : k = Len(pendingUpdates) + j
        BY <3>2, <3>4 DEF Stopped
      <4> QED
        BY <3>2, <4>1 DEF Stopped
    <3> QED
      BY <3>3, <3>4
  <2>5. PendingReal'
    BY <1>1, <1>2, <1>3, <2>4 DEF Real, ReadPhases
  <2> QED
    BY <1>5, <2>1, <2>2, <2>5
<1>11. ASSUME SaveUpdate PROVE SavedReal' /\ PendingReal' /\ OperationsReal'
  <2> DEFINE u == pendingUpdates[1]
  <2>1. /\ operations' = operations /\ pendingUpdates # <<>>
        /\ saved' = [saved EXCEPT ![Head(pendingUpdates).id] = Head(pendingUpdates).op]
        /\ pendingUpdates' = Tail(pendingUpdates)
    BY <1>11 DEF SaveUpdate
  <2>2. Removed(pendingUpdates', pendingUpdates) /\ Head(pendingUpdates) = u
    BY <1>2, <2>1, TailIs
  <2>3. Real(u.id, u.op) /\ u.id \in Operations
    BY <1>2, <1>3, <2>2 DEF Removed
  <2>4. saved' = [saved EXCEPT ![u.id] = u.op]
    BY <2>1, <2>2
  <2> HIDE DEF u
  <2>5. SavedReal'
    <3>1. ASSUME NEW x \in Operations PROVE saved'[x] = IF x = u.id THEN u.op ELSE saved[x]
      BY <1>2, <2>4
    <3> QED
      BY <1>1, <1>3, <2>3, <3>1 DEF Real
  <2>6. PendingReal'
    BY <1>1, <1>2, <1>3, <2>2 DEF Real, Removed
  <2> QED
    BY <1>7, <2>1, <2>5, <2>6
<1>12. ASSUME Down PROVE SavedReal' /\ PendingReal' /\ OperationsReal'
  <2>1. saved' = saved /\ DOMAIN operations' = {} /\ DOMAIN pendingUpdates' = {}
    BY <1>12 DEF Down, storeVars
  <2> QED
    BY <1>5, <2>1
<1>13. SavedReal' /\ PendingReal' /\ OperationsReal'
  <2> HIDE DEF SavedReal, PendingReal, OperationsReal
  <2>1. CASE UNCHANGED <<operations, accepted, pendingUpdates, saved>>
    BY <1>5, <1>6, <1>7, <2>1
  <2> QED
    BY <1>8, <1>9, <1>10, <1>11, <1>12, <2>1, StepsAre
<1> QED
  BY <1>1, <1>13 DEF ResultsAreReal, StartsAreReal

(* An operation completes only with the output of a command that ran, or   *)
(* with all of the file it read, whenever the process dies and restarts.   *)
THEOREM ResultsComeFromWork == Spec => []ResultsAreReal
<1>1. Init => ResultsAreReal
  <2> SUFFICES ASSUME Init PROVE ResultsAreReal
    OBVIOUS
  <2>1. PICK type \in [Operations -> Types] : saved = [id \in Operations |-> Ready(type[id])]
    BY DEF Init
  <2>2. \A id \in Operations : saved[id].phase = "" /\ saved[id].status = "ready"
    BY <2>1 DEF Ready
  <2>3. \A id \in Operations : Real(id, saved[id])
    BY <2>2, EndsReal
  <2>4. DOMAIN operations = {} /\ DOMAIN pendingUpdates = {} /\ DOMAIN primitives = {}
    BY DEF Init
  <2> QED
    BY <2>3, <2>4 DEF ResultsAreReal
<1>2. ManagerInv /\ ResultsAreReal /\ [Next]_vars => ResultsAreReal'
  BY RealStep
<1> QED
  BY <1>1, <1>2, ManagerInvariant, PTL DEF Spec

-----------------------------------------------------------------------------
(* Every operation ends with one final update.                             *)

(* What UpdatesEndInFinal says of one operation.                           *)
Told(id) ==
  /\ id \in DOMAIN operations => StoreArrivesAt(id, Durable(operations[id]))
  /\ id \in accepted \ DOMAIN operations =>
       \E op \in CheckpointsOf(id) : Ended(op) /\ StoreArrivesAt(id, op)
  /\ id \in Operations \ accepted => PendingOf(id) = {}

(* The property holds when it holds of each operation.                     *)
LEMMA ToldAll ==
  ASSUME ManagerInv
  PROVE  UpdatesEndInFinal <=> \A id \in Operations : Told(id)
<1>1. DOMAIN operations \subseteq Operations /\ accepted \subseteq Operations
  BY DEF ManagerInv, TypeOK
<1> QED
  BY <1>1 DEF UpdatesEndInFinal, Told

(* The updates of an operation, and what the manager and the store know of *)
(* it, stay as they are.                                                   *)
LEMMA ToldStays ==
  ASSUME NEW id, Told(id), PendingOf(id)' = PendingOf(id),
         \A k \in PendingOf(id) : pendingUpdates'[k].op = pendingUpdates[k].op,
         saved'[id] = saved[id],
         id \in accepted' <=> id \in accepted,
         id \in DOMAIN operations' <=> id \in DOMAIN operations,
         id \in DOMAIN operations => Durable(operations'[id]) = Durable(operations[id])
  PROVE  Told(id)'
<1>1. ASSUME NEW op, StoreArrivesAt(id, op) PROVE StoreArrivesAt(id, op)'
  BY <1>1 DEF StoreArrivesAt
<1>2. CheckpointsOf(id)' = CheckpointsOf(id)
  BY DEF CheckpointsOf
<1>3. CASE id \in DOMAIN operations
  <2> DEFINE o == Durable(operations[id])
  <2>1. StoreArrivesAt(id, o) /\ Durable(operations'[id]) = o
    BY <1>3 DEF Told
  <2> HIDE DEF o
  <2>2. StoreArrivesAt(id, Durable(operations[id]))'
    BY <2>1 DEF StoreArrivesAt
  <2> QED
    BY <1>3, <2>2 DEF Told
<1>4. CASE id \in accepted \ DOMAIN operations
  <2>1. PICK op \in CheckpointsOf(id) : Ended(op) /\ StoreArrivesAt(id, op)
    BY <1>4 DEF Told
  <2>2. op \in CheckpointsOf(id)' /\ Ended(op) /\ StoreArrivesAt(id, op)'
    BY <1>1, <1>2, <2>1
  <2> QED
    BY <1>4, <2>2 DEF Told
<1>5. CASE id \notin accepted /\ id \notin DOMAIN operations
  BY <1>5 DEF Told
<1> QED
  BY <1>3, <1>4, <1>5

(* An update is added to those of an operation that had not ended.         *)
LEMMA ArrivalMoves ==
  ASSUME NEW id, NEW op, NEW m, m \notin PendingOf(id),
         PendingOf(id)' = PendingOf(id) \cup {m},
         \A k \in PendingOf(id) : k < m /\ pendingUpdates'[k].op = pendingUpdates[k].op,
         pendingUpdates'[m].op = op,
         saved'[id] = saved[id],
         \/ PendingOf(id) = {} /\ ~Finished(saved[id])
         \/ \E old : ~Ended(old) /\ StoreArrivesAt(id, old)
  PROVE  StoreArrivesAt(id, op)' /\ op \in CheckpointsOf(id)'
<1>1. ~Finished(saved[id]) /\ \A k \in PendingOf(id) : ~Ended(pendingUpdates[k].op)
  <2>1. CASE \E old : ~Ended(old) /\ StoreArrivesAt(id, old)
    <3>1. PICK old : ~Ended(old) /\ StoreArrivesAt(id, old)
      BY <2>1
    <3> QED
      BY <3>1 DEF StoreArrivesAt, Ended
  <2> QED
    BY <2>1
<1>2. \A k \in PendingOf(id)' \ {m} : k < m /\ ~Ended(pendingUpdates'[k].op)
  BY <1>1
<1> QED
  BY <1>1, <1>2 DEF StoreArrivesAt, CheckpointsOf

(* A step that the manager takes keeps every operation told of.            *)
LEMMA ToldTook ==
  ASSUME ManagerInv, \A x \in Operations : Told(x),
         NEW id \in Operations, NEW step, Took(id, step), NEW x \in Operations
  PROVE  Told(x)'
<1> DEFINE new == Durable(step.op)
<1>1. /\ saved' = saved /\ accepted' = accepted \cup {id}
      /\ DOMAIN operations \subseteq accepted
  BY DEF Took, ManagerInv, TypeOK
<1>2. /\ id \in DOMAIN operations' <=> ~Ended(step.op)
      /\ x # id => (x \in DOMAIN operations' <=> x \in DOMAIN operations)
      /\ ~Ended(step.op) => operations'[id] = step.op
      /\ x # id /\ x \in DOMAIN operations => operations'[x] = operations[x]
  BY DEF Took, With, Without
<1>3. CASE step.update = "none"
  <2>1. /\ pendingUpdates' = pendingUpdates /\ id \in DOMAIN operations
        /\ ~Ended(step.op) /\ new = Durable(operations[id])
    BY <1>3, TookAdds DEF Took, GoodStep, Current
  <2>2. PendingOf(x)' = PendingOf(x)
    BY <2>1 DEF PendingOf
  <2> HIDE DEF new
  <2>3. x \in DOMAIN operations => Durable(operations'[x]) = Durable(operations[x])
    BY <1>2, <2>1 DEF new
  <2> QED
    BY <1>1, <1>2, <2>1, <2>2, <2>3, ToldStays
<1>4. CASE step.update = "save"
  <2> DEFINE m == Len(pendingUpdates) + 1
  <2>1. Added(pendingUpdates', pendingUpdates, Update(id, new))
    BY <1>4, TookAdds
  <2> HIDE DEF new
  <2>2. pendingUpdates'[m].id = id /\ pendingUpdates'[m].op = new
    BY <2>1 DEF Added, Update
  <2>3. CASE x # id
    <3>1. PendingOf(x)' = PendingOf(x)
      BY <2>1, <2>2, <2>3 DEF PendingOf, Added
    <3>2. \A k \in PendingOf(x) : pendingUpdates'[k].op = pendingUpdates[k].op
      BY <2>1 DEF PendingOf, Added
    <3>3. x \in DOMAIN operations => Durable(operations'[x]) = Durable(operations[x])
      BY <1>2, <2>3
    <3> QED
      BY <1>1, <1>2, <2>3, <3>1, <3>2, <3>3, ToldStays
  <2>4. CASE x = id
    <3>1. m \notin PendingOf(id) /\ PendingOf(id)' = PendingOf(id) \cup {m}
      BY <2>1, <2>2 DEF PendingOf, Added
    <3>2. \A k \in PendingOf(id) : k < m /\ pendingUpdates'[k].op = pendingUpdates[k].op
      BY <2>1 DEF PendingOf, Added
    <3>3. \/ PendingOf(id) = {} /\ ~Finished(saved[id])
          \/ \E old : ~Ended(old) /\ StoreArrivesAt(id, old)
      <4>1. CASE id \in DOMAIN operations
        <5>1. ~Ended(Durable(operations[id]))
          <6>1. operations[id] \in Checkpoint /\ ~Ended(operations[id])
            BY <4>1 DEF Took, Current
          <6>2. Durable(operations[id]).status = operations[id].status
            BY <6>1 DEF Durable, Checkpoint
          <6> QED
            BY <6>1, <6>2 DEF Ended, Finished
        <5>2. StoreArrivesAt(id, Durable(operations[id]))
          BY <4>1 DEF Told
        <5> QED
          BY <5>1, <5>2
      <4>2. CASE id \notin DOMAIN operations
        <5>1. id \notin accepted /\ ~Ended(saved[id])
          BY <4>2 DEF Took, Current
        <5> QED
          BY <5>1 DEF Told, Ended
      <4> QED
        BY <4>1, <4>2
    <3> HIDE DEF m
    <3>4. StoreArrivesAt(id, new)' /\ new \in CheckpointsOf(id)'
      BY <1>1, <2>2, <3>1, <3>2, <3>3, ArrivalMoves
    <3>5. id \in accepted' /\ (id \in DOMAIN operations' <=> ~Ended(step.op))
      BY <1>1, <1>2, <2>4
    <3>6. CASE Ended(step.op)
      <4>1. Ended(new)
        <5>1. step.op \in Checkpoint
          BY DEF Took, GoodStep
        <5>2. new.status = step.op.status
          BY <5>1 DEF Durable, Checkpoint, new
        <5> QED
          BY <3>6, <5>2 DEF Ended, Finished
      <4> QED
        BY <2>4, <3>4, <3>5, <3>6, <4>1 DEF Told
    <3>7. CASE ~Ended(step.op)
      <4>1. Durable(operations'[id]) = new
        BY <1>2, <2>4, <3>7 DEF new
      <4>2. StoreArrivesAt(id, Durable(operations[id]))'
        BY <3>4, <4>1 DEF StoreArrivesAt
      <4> QED
        BY <2>4, <3>5, <3>7, <4>2 DEF Told
    <3> QED
      BY <3>6, <3>7
  <2> QED
    BY <2>3, <2>4
<1> QED
  BY <1>3, <1>4 DEF Took, GoodStep

(* So does a job that is given to its handler.                             *)
LEMMA ToldGave ==
  ASSUME ManagerInv, \A x \in Operations : Told(x),
         NEW id \in Operations, Gave(id), NEW x \in Operations
  PROVE  Told(x)'
<1>1. /\ UNCHANGED <<saved, pendingUpdates>> /\ accepted' = accepted \cup {id}
      /\ id \notin accepted /\ id \notin DOMAIN operations /\ saved[id].kind = "remote"
      /\ operations' = With(operations, id, saved[id])
  BY DEF Gave, ManagerInv, TypeOK
<1>2. /\ DOMAIN operations' = DOMAIN operations \cup {id} /\ operations'[id] = saved[id]
      /\ x # id /\ x \in DOMAIN operations => operations'[x] = operations[x]
  BY <1>1 DEF With
<1>3. PendingOf(x)' = PendingOf(x)
  BY <1>1 DEF PendingOf
<1>4. CASE x # id
  BY <1>1, <1>2, <1>3, <1>4, ToldStays
<1>5. CASE x = id
  <2>1. PendingOf(id) = {} /\ PendingOf(id)' = {}
    BY <1>1, <1>3, <1>5 DEF Told
  <2>2. Durable(operations'[id]) = saved'[id]
    BY <1>1, <1>2 DEF Durable
  <2>3. StoreArrivesAt(id, Durable(operations[id]))'
    BY <2>1, <2>2 DEF StoreArrivesAt
  <2>4. id \in DOMAIN operations' /\ id \in accepted'
    BY <1>1, <1>2
  <2> QED
    BY <1>5, <2>3, <2>4 DEF Told
<1> QED
  BY <1>4, <1>5

(* So does the handler that has stopped.                                   *)
LEMMA ToldStopped ==
  ASSUME ManagerInv, \A x \in Operations : Told(x), HandlerStopped, NEW x \in Operations
  PROVE  Told(x)'
<1> DEFINE ids == {id \in DOMAIN operations : operations[id].kind = "remote"}
<1>1. /\ UNCHANGED <<saved, accepted>>
      /\ DOMAIN operations' = DOMAIN operations \ ids
      /\ \A id \in DOMAIN operations' : operations'[id] = operations[id]
      /\ DOMAIN operations \subseteq accepted
  BY DEF HandlerStopped, storeVars, ManagerInv, TypeOK
<1>2. PICK n \in Nat : \E order \in [1 .. n -> Operations] : Stopped(n, order)
  BY StoppedIs
<1>3. PICK order \in [1 .. n -> Operations] : Stopped(n, order)
  BY <1>2
<1> DEFINE L == Len(pendingUpdates)
<1>4. /\ {order[j] : j \in 1 .. n} = ids
      /\ \A i, j \in 1 .. n : order[i] = order[j] => i = j
      /\ L \in Nat
      /\ \A k \in DOMAIN pendingUpdates' :
           k \in DOMAIN pendingUpdates \/ \E j \in 1 .. n : k = L + j
      /\ \A k \in DOMAIN pendingUpdates :
           /\ k \in Nat /\ k <= L
           /\ k \in DOMAIN pendingUpdates' /\ pendingUpdates'[k] = pendingUpdates[k]
      /\ \A j \in 1 .. n :
           /\ L + j \in DOMAIN pendingUpdates' \ DOMAIN pendingUpdates
           /\ pendingUpdates'[L + j].id = order[j]
           /\ pendingUpdates'[L + j].op.status = "failed"
  BY <1>3 DEF Stopped
<1> HIDE DEF ids, L
<1>5. CASE x \notin ids
  <2>1. PendingOf(x)' = PendingOf(x)
    <3>1. \A j \in 1 .. n : order[j] # x
      BY <1>4, <1>5
    <3>2. \A k \in DOMAIN pendingUpdates' : pendingUpdates'[k].id = x =>
            k \in DOMAIN pendingUpdates
      <4> SUFFICES ASSUME NEW k \in DOMAIN pendingUpdates', k \notin DOMAIN pendingUpdates
                   PROVE  pendingUpdates'[k].id # x
        OBVIOUS
      <4>1. PICK j \in 1 .. n : k = L + j
        BY <1>4
      <4> QED
        BY <1>4, <3>1, <4>1
    <3> QED
      BY <1>4, <3>2 DEF PendingOf
  <2>2. \A k \in PendingOf(x) : pendingUpdates'[k].op = pendingUpdates[k].op
    BY <1>4 DEF PendingOf
  <2> QED
    BY <1>1, <1>5, <2>1, <2>2, ToldStays
<1>6. CASE x \in ids
  <2>1. PICK j \in 1 .. n : order[j] = x
    BY <1>4, <1>6
  <2> DEFINE m == L + j
             new == pendingUpdates'[m].op
  <2>2. m \notin PendingOf(x) /\ PendingOf(x)' = PendingOf(x) \cup {m}
    <3>1. \A k \in DOMAIN pendingUpdates' : pendingUpdates'[k].id = x =>
            k \in DOMAIN pendingUpdates \/ k = m
      BY <1>4, <2>1
    <3>2. m \in DOMAIN pendingUpdates' /\ m \notin DOMAIN pendingUpdates
            /\ pendingUpdates'[m].id = x
      BY <1>4, <2>1
    <3> QED
      BY <1>4, <3>1, <3>2 DEF PendingOf
  <2>3. \A k \in PendingOf(x) : k < m /\ pendingUpdates'[k].op = pendingUpdates[k].op
    BY <1>4 DEF PendingOf
  <2>4. \E old : ~Ended(old) /\ StoreArrivesAt(x, old)
    <3>1. x \in DOMAIN operations /\ operations[x].kind = "remote"
      BY <1>6 DEF ids
    <3>2. ~Ended(Durable(operations[x]))
      BY <3>1 DEF Durable, ManagerInv, CheckpointsFit
    <3>3. StoreArrivesAt(x, Durable(operations[x]))
      BY <3>1 DEF Told
    <3> QED
      BY <3>2, <3>3
  <2>5. Ended(new)
    BY <1>4, <2>1 DEF Ended, Finished, Finals
  <2>6. PICK op : op = new
    OBVIOUS
  <2>7. StoreArrivesAt(x, op)' /\ op \in CheckpointsOf(x)'
    <3> HIDE DEF m
    <3> QED
      BY <1>1, <2>2, <2>3, <2>4, <2>6, ArrivalMoves
  <2>8. x \in accepted' \ DOMAIN operations'
    BY <1>1, <1>6 DEF ids
  <2> QED
    BY <2>5, <2>6, <2>7, <2>8 DEF Told
<1> QED
  BY <1>5, <1>6

(* The oldest update is saved; it ends the operation only if it is the     *)
(* last one.                                                               *)
LEMMA ToldSaved ==
  ASSUME ManagerInv, \A x \in Operations : Told(x), SaveUpdate, NEW x \in Operations
  PROVE  Told(x)'
<1> DEFINE u == pendingUpdates[1]
<1>1. /\ UNCHANGED <<operations, accepted>> /\ pendingUpdates # <<>>
      /\ saved' = [saved EXCEPT ![Head(pendingUpdates).id] = Head(pendingUpdates).op]
      /\ pendingUpdates' = Tail(pendingUpdates)
  BY DEF SaveUpdate
<1>2. Removed(pendingUpdates', pendingUpdates) /\ Head(pendingUpdates) = u
  <2>1. pendingUpdates \in Seq([id : Operations, op : Checkpoint])
    BY DEF ManagerInv, TypeOK
  <2> QED
    BY <1>1, <2>1, TailIs
<1>3. saved' = [saved EXCEPT ![u.id] = u.op]
  BY <1>1, <1>2
<1> HIDE DEF u
<1>4. saved'[x] = IF x = u.id THEN u.op ELSE saved[x]
  BY <1>3 DEF ManagerInv, TypeOK
<1>5. /\ \A k \in PendingOf(x)' : k \in Nat /\ k + 1 \in PendingOf(x) /\ k + 1 # 1
                                   /\ pendingUpdates'[k].op = pendingUpdates[k + 1].op
      /\ \A k \in PendingOf(x) \ {1} : /\ k \in Nat /\ k - 1 \in PendingOf(x)'
                                       /\ pendingUpdates'[k - 1].op = pendingUpdates[k].op
      /\ 1 \in PendingOf(x) <=> x = u.id
  BY <1>2 DEF Removed, PendingOf, u
<1>6. ASSUME NEW op, StoreArrivesAt(x, op) PROVE StoreArrivesAt(x, op)' /\ op \in CheckpointsOf(x)'
  <2>1. CASE PendingOf(x) = {}
    <3>1. x # u.id /\ PendingOf(x)' = {} /\ saved[x] = op
      BY <1>5, <1>6, <2>1 DEF StoreArrivesAt
    <3> QED
      BY <1>4, <3>1 DEF StoreArrivesAt, CheckpointsOf
  <2>2. CASE PendingOf(x) # {}
    <3>1. ~Finished(saved[x])
      BY <1>6, <2>2 DEF StoreArrivesAt
    <3>2. PICK last \in PendingOf(x) :
            /\ pendingUpdates[last].op = op
            /\ \A k \in PendingOf(x) \ {last} : k < last /\ ~Ended(pendingUpdates[k].op)
      BY <1>6, <2>2 DEF StoreArrivesAt
    <3>3. CASE last = 1
      <4>1. PendingOf(x) = {1}
        <5>1. \A k \in PendingOf(x) : k # 1 => FALSE
          <6> SUFFICES ASSUME NEW k \in PendingOf(x), k # 1 PROVE FALSE
            OBVIOUS
          <6>1. k < 1 /\ k \in Nat \ {0}
            BY <1>2, <3>2, <3>3 DEF PendingOf, Removed
          <6> QED
            BY <6>1
        <5> QED
          BY <3>2, <3>3, <5>1
      <4>2. PendingOf(x)' = {}
        BY <1>5, <4>1
      <4>3. saved'[x] = op
        BY <1>4, <1>5, <3>2, <3>3 DEF u
      <4> QED
        BY <4>2, <4>3 DEF StoreArrivesAt, CheckpointsOf
    <3>4. CASE last # 1
      <4>1. /\ last - 1 \in PendingOf(x)' /\ pendingUpdates'[last - 1].op = op
            /\ last \in Nat
        BY <1>5, <3>2, <3>4
      <4>2. \A k \in PendingOf(x)' \ {last - 1} :
              k < last - 1 /\ ~Ended(pendingUpdates'[k].op)
        <5> TAKE k \in PendingOf(x)' \ {last - 1}
        <5>1. /\ k \in Nat /\ k + 1 \in PendingOf(x) /\ k + 1 # last
              /\ pendingUpdates'[k].op = pendingUpdates[k + 1].op
          BY <1>5, <4>1
        <5>2. k + 1 < last /\ ~Ended(pendingUpdates[k + 1].op)
          BY <3>2, <5>1
        <5> QED
          BY <4>1, <5>1, <5>2
      <4>3. ~Finished(saved'[x])
        <5>1. x = u.id => ~Ended(u.op)
          BY <1>5, <3>2, <3>4 DEF u
        <5> QED
          BY <1>4, <3>1, <5>1 DEF Ended
      <4> QED
        BY <4>1, <4>2, <4>3 DEF StoreArrivesAt, CheckpointsOf
    <3> QED
      BY <3>3, <3>4
  <2> QED
    BY <2>1, <2>2
<1>7. CASE x \in DOMAIN operations
  <2> DEFINE o == Durable(operations[x])
  <2>1. StoreArrivesAt(x, o)
    BY <1>7 DEF Told
  <2>2. Durable(operations'[x]) = o
    BY <1>1
  <2> HIDE DEF o
  <2>3. PICK op : op = o
    OBVIOUS
  <2>4. StoreArrivesAt(x, op)'
    BY <1>6, <2>1, <2>3
  <2>5. StoreArrivesAt(x, Durable(operations[x]))'
    BY <2>2, <2>3, <2>4 DEF StoreArrivesAt
  <2>6. x \in accepted
    BY <1>7 DEF ManagerInv, TypeOK
  <2> QED
    BY <1>1, <1>7, <2>5, <2>6 DEF Told
<1>8. CASE x \in accepted \ DOMAIN operations
  <2>1. PICK op \in CheckpointsOf(x) : Ended(op) /\ StoreArrivesAt(x, op)
    BY <1>8 DEF Told
  <2>2. op \in CheckpointsOf(x)' /\ Ended(op) /\ StoreArrivesAt(x, op)'
    BY <1>6, <2>1
  <2> QED
    BY <1>1, <1>8, <2>2 DEF Told
<1>9. CASE x \notin accepted /\ x \notin DOMAIN operations
  <2>1. PendingOf(x) = {}
    BY <1>9 DEF Told
  <2>2. PendingOf(x)' = {}
    BY <1>5, <2>1
  <2> QED
    BY <1>1, <1>9, <2>2 DEF Told
<1> QED
  BY <1>7, <1>8, <1>9

(* Every step keeps every operation told of.                               *)
LEMMA UpdatesStep ==
  ASSUME ManagerInv, UpdatesEndInFinal, [Next]_vars
  PROVE  UpdatesEndInFinal'
<1>1. \A x \in Operations : Told(x)
  BY ToldAll
<1>2. ManagerInv'
  BY InvariantStep
<1>3. ASSUME NEW x \in Operations PROVE Told(x)'
  <2>1. CASE Down
    <3>1. DOMAIN operations' = {} /\ accepted' = {} /\ DOMAIN pendingUpdates' = {}
      BY <2>1 DEF Down
    <3> QED
      BY <3>1 DEF Told, PendingOf
  <2>2. CASE UNCHANGED <<operations, accepted, pendingUpdates, saved>>
    <3>1. PendingOf(x)' = PendingOf(x)
      BY <2>2 DEF PendingOf
    <3> QED
      BY <1>1, <2>2, <3>1, ToldStays
  <2> QED
    BY <1>1, <2>1, <2>2, StepsAre, ToldTook, ToldGave, ToldStopped, ToldSaved
<1>4. (UpdatesEndInFinal <=> \A id \in Operations : Told(id))'
  BY <1>2, ToldAll, PTL
<1> QED
  BY <1>3, <1>4

(* An accepted operation ends with exactly one final update: the store     *)
(* arrives at the checkpoint the actor is in, and nothing follows a final  *)
(* one (pendingUpdates, acceptLocalStep).                                  *)
THEOREM EveryOperationIsTold == Spec => []UpdatesEndInFinal
<1>1. Init => UpdatesEndInFinal
  BY DEF Init, UpdatesEndInFinal, PendingOf
<1>2. ManagerInv /\ UpdatesEndInFinal /\ [Next]_vars => UpdatesEndInFinal'
  BY UpdatesStep
<1> QED
  BY <1>1, <1>2, ManagerInvariant, PTL DEF Spec

-----------------------------------------------------------------------------
(* A recorded start is not repeated.                                       *)

(* The store says that the command of an operation may have run.           *)
Past(op) == op.phase \in ReadPhases \cup {"process"} \/ Finished(op)

(* From then on nobody is about to start it.                               *)
StartIsPast(id) ==
  /\ Past(saved[id])
  /\ \A k \in PendingOf(id) : Past(pendingUpdates[k].op)
  /\ id \in DOMAIN operations => operations[id].phase \in ReadPhases
  /\ id \in DOMAIN primitives => primitives[id].phase \in ReadPhases

(* No step starts a command whose start is past.                           *)
LEMMA PastStep ==
  ASSUME ManagerInv, ManagerInv', [Next]_vars, NEW id \in Operations, StartIsPast(id)
  PROVE  StartIsPast(id)' /\ starts'[id] = starts[id]
<1>1. ASSUME NEW op, op.status = "failed" PROVE Past(op)
  BY <1>1 DEF Past, Finished, Finals
<1>2. starts'[id] = starts[id]
  <2>1. ASSUME NEW x \in Operations, StartCommand(x) PROVE starts'[id] = starts[id]
    <3>1. x # id
      BY <2>1 DEF StartCommand, At, StartIsPast, ReadPhases
    <3> QED
      BY <2>1, <3>1 DEF StartCommand, ManagerInv, TypeOK
  <2>2. ASSUME NEW x \in Operations, PrimitiveStep(x), ~StartCommand(x) PROVE starts' = starts
    BY <2>2 DEF PrimitiveStep, ReportStart, SkipReport, ReadChunk, PrimitiveCompletes,
                PrimitiveFails, PrimitiveCanceled, PrimitiveEvent
  <2>3. CASE RemoteStep
    BY <2>3 DEF RemoteStep, AddRemote, CancelRemote, HandlerReports, HandlerCloses, ReceiveRemote,
                IgnoreRemote, HandlerStopped
  <2>4. CASE SaveUpdate \/ SaveRejected \/ Shutdown \/ Close \/ Crash \/ Restart \/ UNCHANGED vars
             \/ \E x \in Operations : Add(x) \/ Cancel(x)
    BY <2>4 DEF SaveUpdate, SaveRejected, Shutdown, Close, Crash, Down, Restart, Add, Cancel, vars
  <2> QED
    BY <2>1, <2>2, <2>3, <2>4 DEF Next
<1> DEFINE Kept ==
             /\ Past(saved[id])
             /\ \A k \in PendingOf(id) : Past(pendingUpdates[k].op)
             /\ id \in DOMAIN operations => operations[id].phase \in ReadPhases
<1>3. Kept
  BY DEF StartIsPast
<1>4. ASSUME NEW x \in Operations, NEW step, Took(x, step) PROVE Kept'
  <2> DEFINE new == Durable(step.op)
  <2>1. saved' = saved
    BY <1>4 DEF Took
  <2>2. CASE x # id
    <3>1. id \in DOMAIN operations' => id \in DOMAIN operations /\ operations'[id] = operations[id]
      BY <1>4, <2>2, TookOperations
    <3>2. \A k \in PendingOf(id)' : k \in PendingOf(id) /\ pendingUpdates'[k] = pendingUpdates[k]
      <4>1. pendingUpdates' = pendingUpdates \/ Added(pendingUpdates', pendingUpdates, Update(x, new))
        BY <1>4, TookAdds
      <4> HIDE DEF new
      <4> QED
        BY <2>2, <4>1 DEF PendingOf, Added, Update
    <3> HIDE DEF new
    <3> QED
      BY <1>3, <2>1, <3>1, <3>2
  <2>3. CASE x = id
    <3>1. Finished(step.op) \/ step.op.phase \in ReadPhases
      <4>1. CASE id \in DOMAIN operations
        BY <1>3, <1>4, <2>3, <4>1 DEF Took, Current
      <4>2. CASE id \notin DOMAIN operations
        <5>1. id \notin accepted /\ ~Finished(saved[id]) /\ Current(id) = saved[id]
          BY <1>4, <2>3, <4>2 DEF Took, Current, Ended
        <5> QED
          BY <1>3, <1>4, <2>3, <5>1 DEF Took, Past
      <4> QED
        BY <4>1, <4>2
    <3>2. Past(new)
      <4>1. step.op \in Checkpoint /\ Fits(step.op)
        BY <1>4 DEF Took, GoodStep
      <4>2. CASE Finished(step.op)
        <5>1. new.status = step.op.status
          BY <4>1 DEF Durable, Checkpoint
        <5> QED
          BY <4>2, <5>1 DEF Past, Finished
      <4>3. CASE step.op.phase \in ReadPhases
        <5>1. step.op.kind # "image"
          BY <4>1, <4>3 DEF Fits, PhasesOf, ReadPhases, ComputePhases
        <5> QED
          BY <4>3, <5>1 DEF Durable, Past
      <4> QED
        BY <3>1, <4>2, <4>3
    <3> HIDE DEF new
    <3>3. \A k \in PendingOf(id)' :
            \/ k \in PendingOf(id) /\ pendingUpdates'[k] = pendingUpdates[k]
            \/ pendingUpdates'[k].op = new
      <4>1. pendingUpdates' = pendingUpdates \/ Added(pendingUpdates', pendingUpdates, Update(x, new))
        BY <1>4, TookAdds DEF new
      <4> QED
        BY <4>1 DEF PendingOf, Added, Update
    <3>4. id \in DOMAIN operations' => operations'[id] = step.op /\ ~Ended(step.op)
      BY <1>4, <2>3, TookOperations
    <3> QED
      BY <1>3, <2>1, <3>1, <3>2, <3>3, <3>4 DEF Ended
  <2> QED
    BY <2>2, <2>3
<1>5. ASSUME NEW x \in Operations, Gave(x) PROVE Kept'
  <2>1. /\ UNCHANGED <<saved, pendingUpdates>> /\ operations' = With(operations, x, saved[x])
        /\ saved[x].kind = "remote"
    BY <1>5 DEF Gave
  <2>2. PendingOf(id)' = PendingOf(id)
    BY <2>1 DEF PendingOf
  <2>3. id \in DOMAIN operations' => operations'[id].phase \in ReadPhases
    <3>1. CASE x = id
      <4>1. Fits(saved[id]) /\ ~Finished(saved[id]) /\ saved[id].kind = "remote"
        BY <1>5, <3>1 DEF Gave, ManagerInv, CheckpointsFit
      <4> QED
        BY <1>3, <4>1 DEF Fits, Past, ReadPhases
    <3>2. CASE x # id
      BY <1>3, <2>1, <3>2 DEF With
    <3> QED
      BY <3>1, <3>2
  <2> QED
    BY <1>3, <2>1, <2>2, <2>3
<1>6. ASSUME HandlerStopped PROVE Kept'
  <2>1. /\ saved' = saved
        /\ id \in DOMAIN operations' => id \in DOMAIN operations /\ operations'[id] = operations[id]
    BY <1>6 DEF HandlerStopped, storeVars
  <2>2. PICK n \in Nat : \E order \in [1 .. n -> Operations] : Stopped(n, order)
    BY <1>6, StoppedIs
  <2>3. PICK order \in [1 .. n -> Operations] : Stopped(n, order)
    BY <2>2
  <2>4. \A k \in PendingOf(id)' : Past(pendingUpdates'[k].op)
    <3> SUFFICES ASSUME NEW k \in PendingOf(id)' PROVE Past(pendingUpdates'[k].op)
      OBVIOUS
    <3>1. CASE k \in DOMAIN pendingUpdates
      BY <1>3, <2>3, <3>1 DEF Stopped, PendingOf
    <3>2. CASE k \notin DOMAIN pendingUpdates
      <4>1. PICK j \in 1 .. n : k = Len(pendingUpdates) + j
        BY <2>3, <3>2 DEF Stopped, PendingOf
      <4>2. pendingUpdates'[k].op.status = "failed"
        BY <2>3, <4>1 DEF Stopped
      <4> QED
        BY <1>1, <4>2
    <3> QED
      BY <3>1, <3>2
  <2> QED
    BY <1>3, <2>1, <2>4
<1>7. ASSUME SaveUpdate PROVE Kept'
  <2> DEFINE u == pendingUpdates[1]
  <2>1. /\ operations' = operations /\ pendingUpdates # <<>>
        /\ saved' = [saved EXCEPT ![Head(pendingUpdates).id] = Head(pendingUpdates).op]
        /\ pendingUpdates' = Tail(pendingUpdates)
    BY <1>7 DEF SaveUpdate
  <2>2. Removed(pendingUpdates', pendingUpdates) /\ Head(pendingUpdates) = u
    <3>1. pendingUpdates \in Seq([id : Operations, op : Checkpoint])
      BY DEF ManagerInv, TypeOK
    <3> QED
      BY <2>1, <3>1, TailIs
  <2>3. saved' = [saved EXCEPT ![u.id] = u.op]
    BY <2>1, <2>2
  <2>4. u.id = id => Past(u.op)
    BY <1>3, <2>2 DEF Removed, PendingOf
  <2> HIDE DEF u
  <2>5. Past(saved'[id])
    BY <1>3, <2>3, <2>4 DEF ManagerInv, TypeOK
  <2>6. \A k \in PendingOf(id)' : Past(pendingUpdates'[k].op)
    BY <1>3, <2>2 DEF Removed, PendingOf
  <2> QED
    BY <1>3, <2>1, <2>5, <2>6
<1>8. ASSUME Down PROVE Kept'
  <2>1. DOMAIN operations' = {} /\ DOMAIN pendingUpdates' = {} /\ saved' = saved
    BY <1>8 DEF Down, storeVars
  <2> QED
    BY <1>3, <2>1 DEF PendingOf
<1>9. Kept'
  <2>1. CASE UNCHANGED <<operations, accepted, pendingUpdates, saved>>
    BY <1>3, <2>1 DEF PendingOf
  <2> HIDE DEF Kept
  <2> QED
    BY <1>4, <1>5, <1>6, <1>7, <1>8, <2>1, StepsAre
<1>10. id \in DOMAIN primitives' => primitives'[id].phase \in ReadPhases
  <2>1. CASE mgr' = "running"
    BY <1>9, <2>1 DEF ManagerInv, PrimitivesCounted
  <2>2. CASE mgr' # "running"
    <3> DEFINE SamePhases ==
                 \A x \in DOMAIN primitives' :
                   x \in DOMAIN primitives /\ primitives'[x].phase = primitives[x].phase
    <3>1. \/ primitives' = <<>>
          \/ \A x \in DOMAIN primitives' :
               x \in DOMAIN primitives /\ primitives'[x].phase = primitives[x].phase
      <4>1. ASSUME NEW x \in Operations, PrimitiveStep(x) PROVE SamePhases
        <5>1. \A event, flag, prims : PrimitiveEvent(x, event, flag, prims) => primitives' = prims
          BY <2>2 DEF PrimitiveEvent
        <5>2. \/ primitives' = [primitives EXCEPT ![x].stage = "started"]
              \/ primitives' = [primitives EXCEPT ![x].stage = "reported"]
              \/ primitives' = [primitives EXCEPT ![x].at = @ + 1]
              \/ primitives' = Without(primitives, x)
          BY <4>1, <5>1 DEF PrimitiveStep, StartCommand, ReportStart, SkipReport, ReadChunk,
                            PrimitiveCompletes, PrimitiveFails, PrimitiveCanceled
        <5>3. primitives \in [DOMAIN primitives -> Primitive]
          BY DEF ManagerInv, TypeOK
        <5> QED
          BY <5>2, <5>3 DEF Without, Primitive
      <4>2. CASE SaveRejected \/ Crash
        BY <4>2 DEF SaveRejected, Crash, Down
      <4>3. CASE Shutdown \/ Close \/ UNCHANGED vars
        BY <4>3 DEF Shutdown, Close, vars
      <4>4. ASSUME Restart \/ SaveUpdate \/ RemoteStep \/ \E x \in Operations : Add(x) \/ Cancel(x)
            PROVE  mgr' = "running"
        BY <4>4 DEF Restart, SaveUpdate, RemoteStep, AddRemote, CancelRemote, HandlerReports,
                    HandlerCloses, ReceiveRemote, IgnoreRemote, HandlerStopped, Add, Addable, Cancel
      <4> QED
        BY <2>2, <4>1, <4>2, <4>3, <4>4 DEF Next
    <3> QED
      BY <3>1 DEF StartIsPast
  <2> QED
    BY <2>1, <2>2
<1> QED
  BY <1>2, <1>9, <1>10 DEF StartIsPast

(* resume: when the store shows that the command may have been started, no *)
(* later process starts it again.                                          *)
THEOREM StartsAreNotRepeated == Spec => RecordedStartNotRepeated
<1> SUFFICES ASSUME NEW id \in Operations, NEW n \in 0 .. MaxRuns
             PROVE  Spec => [](mgr = "down" /\ starts[id] = n
                         /\ (saved[id].phase \in ReadPhases \cup {"process"} \/ Finished(saved[id]))
                         => [](starts[id] = n))
  BY DEF RecordedStartNotRepeated
<1> DEFINE Recorded == mgr = "down" /\ starts[id] = n
                         /\ (saved[id].phase \in ReadPhases \cup {"process"} \/ Finished(saved[id]))
           Held == StartIsPast(id) /\ starts[id] = n
<1>1. ManagerInv /\ Recorded => Held
  <2> SUFFICES ASSUME ManagerInv, Recorded PROVE Held
    OBVIOUS
  <2>1. /\ DOMAIN operations = {} /\ DOMAIN primitives = {} /\ pendingUpdates = <<>>
    BY DEF ManagerInv, TypeOK, NothingLeft
  <2> QED
    BY <2>1 DEF StartIsPast, Past, PendingOf
<1>2. ManagerInv /\ ManagerInv' /\ Held /\ [Next]_vars => Held'
  BY PastStep
<1>3. Held => starts[id] = n
  OBVIOUS
<1> QED
  <2> HIDE DEF Held
  <2> QED
    BY <1>1, <1>2, <1>3, ManagerInvariant, PTL DEF Spec

=============================================================================
