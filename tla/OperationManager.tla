--------------------------- MODULE OperationManager ---------------------------
(***************************************************************************)
(* LocalOperationManager (harness/operation/local_manager.go) running      *)
(* operations of every type, the primitive goroutines it starts, a handler *)
(* of remote jobs with the goroutine that forwards its updates, the        *)
(* coordinator that receives the manager's updates and saves them, and the *)
(* death and restart of the process.                                       *)
(*                                                                         *)
(* The manager is one goroutine; the channels of primitive events and      *)
(* updates are unbuffered, so a send and its receive are one step.  The    *)
(* handler of remote jobs is an interface that only tests implement: it    *)
(* may do whatever its signature allows.                                   *)
(***************************************************************************)
EXTENDS OperationActors, Integers, Sequences, FiniteSets, FiniteSetsExt

CONSTANTS Operations,   \* the operations of the session
          Types,        \* what type they may be of
          MaxPending,   \* bound: updates the coordinator leaves waiting
          MaxRuns       \* bound: processes that run the session

ASSUME BoundsAssumption == {MaxPending, MaxRuns} \subseteq Nat
ASSUME TypesAssumption == Types \subseteq Kinds

VARIABLES
  operations,  \* ID -> operation: what the manager works on
  accepted,    \* IDs that were added
  canceled,    \* running operations whose context is canceled
  active,      \* activePrimitives
  pendingUpdates,
  mgr,         \* "running", "draining", "closed" or "down"
  primitives,  \* ID -> [phase, stage, at]: goroutines that have not ended
  handler,     \* the remote job handler: "open", "closed", "marked" closed
  forward,     \* what its forwarder is about to pass on, or NoUpdate
  jobs,        \* ID -> what the handler knows: "none", "given", "told" to
               \* cancel, "ended" or "lost" (no answer to be expected)
  saved,       \* ID -> checkpoint: what the session store holds
  starts,      \* history: how often each command was started
  runs         \* processes so far

remoteVars == <<handler, forward, jobs>>
storeVars == <<saved, runs>>
vars == <<operations, accepted, canceled, active, pendingUpdates, mgr,
          primitives, remoteVars, starts, storeVars>>

Update(id, op) == [id |-> id, op |-> op]

(* Entries of a map.                                                       *)
With(f, x, v) == [y \in DOMAIN f \cup {x} |-> IF y = x THEN v ELSE f[y]]
Without(f, x) == [y \in DOMAIN f \ {x} |-> f[y]]

NoUpdate == [id |-> "none", status |-> "none", valid |-> FALSE]
Closing  == [id |-> "none", status |-> "closed", valid |-> FALSE]

Init ==
  /\ operations = <<>>
  /\ accepted = {}
  /\ canceled = {}
  /\ active = 0
  /\ pendingUpdates = <<>>
  /\ mgr = "running"
  /\ primitives = <<>>
  /\ handler = "open" /\ forward = NoUpdate
  /\ jobs = [id \in Operations |-> "none"]
  /\ \E type \in [Operations -> Types] : saved = [id \in Operations |-> Ready(type[id])]
  /\ starts = [id \in Operations |-> 0]
  /\ runs = 1

-----------------------------------------------------------------------------

(* The goroutine of a dispatched primitive; a skill is read from where its *)
(* content ends.                                                           *)
Goroutine(op, phase) ==
  [phase |-> phase, stage |-> "new", at |-> IF phase = "skill_read" THEN op.content ELSE 0]

(* What is left of the manager's state when it has let go of an operation, *)
(* or else of it.                                                          *)
Keep(id, op) ==
  /\ operations' = IF Ended(op) THEN Without(operations, id) ELSE With(operations, id, op)
  /\ canceled' = IF Ended(op) THEN canceled \ {id} ELSE canceled

(* Slip: the last checkpoint of an operation is not reported.              *)
AcceptStepSilently(id, step, prims, count) ==
  /\ pendingUpdates' = IF Finished(step.op) \/ step.update = "none" THEN pendingUpdates
                       ELSE Append(pendingUpdates, Update(id, Durable(step.op)))
  /\ Keep(id, step.op)
  /\ primitives' = IF step.dispatch = "" THEN prims
                   ELSE With(prims, id, Goroutine(step.op, step.dispatch))
  /\ active' = count + IF step.dispatch = "" THEN 0 ELSE 1

(* acceptLocalStep, and failLocalOperation, for the step of one operation, *)
(* of which prims are the goroutines and count the primitives that are     *)
(* left without it.                                                        *)
AcceptStep(id, step, prims, count) ==
  /\ Len(pendingUpdates) < MaxPending
  /\ pendingUpdates' = IF step.update = "save" THEN Append(pendingUpdates, Update(id, Durable(step.op)))
                       ELSE pendingUpdates
  /\ Keep(id, step.op)
  /\ primitives' = IF step.dispatch = "" THEN prims
                   ELSE With(prims, id, Goroutine(step.op, step.dispatch))
  /\ active' = count + IF step.dispatch = "" THEN 0 ELSE 1

Addable(id) ==
  /\ mgr = "running"
  /\ id \notin accepted
  /\ ~Finished(saved[id])

(* The coordinator adds an operation that its store shows unfinished.      *)
Add(id) ==
  /\ Addable(id)
  /\ saved[id].kind # "remote"
  /\ accepted' = accepted \cup {id}
  /\ AcceptStep(id, HandleAdd(saved[id]), primitives, active)
  /\ UNCHANGED <<mgr, remoteVars, starts, storeVars>>

(* A cancellation reaches the manager: the operation's context is done.    *)
Cancel(id) ==
  /\ mgr = "running"
  /\ id \in DOMAIN operations
  /\ operations[id].kind # "remote"
  /\ canceled' = canceled \cup {id}
  /\ UNCHANGED <<operations, accepted, active, pendingUpdates, mgr, primitives,
                 remoteVars, starts, storeVars>>

-----------------------------------------------------------------------------
(* Remote jobs.                                                            *)

(* The job is given to its handler, which may take it or not; a handler    *)
(* that is known to have stopped is not asked.                             *)
AddRemote(id, taken) ==
  /\ Addable(id)
  /\ saved[id].kind = "remote"
  /\ taken => handler # "marked"
  /\ accepted' = accepted \cup {id}
  /\ IF taken
     THEN /\ operations' = With(operations, id, saved[id])
          /\ jobs' = [jobs EXCEPT ![id] = IF handler = "open" THEN "given" ELSE "lost"]
          /\ UNCHANGED <<canceled, pendingUpdates, primitives, active>>
     ELSE /\ AcceptStep(id, Fail(saved[id]), primitives, active)
          /\ UNCHANGED jobs
  /\ UNCHANGED <<mgr, handler, forward, starts, storeVars>>

(* CancelRemoteJob of the handler: whether it has heard is all one knows.  *)
Tell(id, heard) ==
  jobs' = [jobs EXCEPT ![id] = IF @ # "given" THEN @ ELSE IF heard THEN "told" ELSE "lost"]

(* A cancellation is passed on; if that fails, so does the operation.      *)
CancelRemote(id, heard) ==
  /\ mgr = "running"
  /\ id \in DOMAIN operations
  /\ operations[id].kind = "remote"
  /\ Tell(id, heard)
  /\ IF heard THEN UNCHANGED <<operations, canceled, pendingUpdates, primitives, active>>
     ELSE AcceptStep(id, Fail(operations[id]), primitives, active)
  /\ UNCHANGED <<accepted, mgr, handler, forward, starts, storeVars>>

(* The handler reports on a job, in an update that may not be valid, and   *)
(* its forwarder takes it.                                                 *)
HandlerReports(id, status, valid) ==
  /\ mgr = "running"
  /\ handler = "open" /\ forward = NoUpdate
  /\ jobs[id] \in {"given", "told"}
  /\ forward' = [id |-> id, status |-> status, valid |-> valid]
  /\ jobs' = IF status \in Finals /\ valid THEN [jobs EXCEPT ![id] = "ended"] ELSE jobs
  /\ UNCHANGED <<operations, accepted, canceled, active, pendingUpdates, mgr, primitives,
                 handler, starts, storeVars>>

HandlerCloses ==
  /\ mgr = "running"
  /\ handler = "open" /\ forward = NoUpdate
  /\ handler' = "closed"
  /\ forward' = Closing
  /\ jobs' = [id \in Operations |-> IF jobs[id] \in {"given", "told"} THEN "lost" ELSE jobs[id]]
  /\ UNCHANGED <<operations, accepted, canceled, active, pendingUpdates, mgr, primitives,
                 starts, storeVars>>

(* Slip: an operation is failed while its job goes on.                     *)
RejectUpdateOnly(id, heard) ==
  /\ AcceptStep(id, Fail(operations[id]), primitives, active)
  /\ UNCHANGED jobs

(* failRemoteJobOperation: the job of an invalid update is canceled.       *)
RejectUpdate(id, heard) ==
  /\ Tell(id, heard)
  /\ AcceptStep(id, Fail(operations[id]), primitives, active)

(* validateRemoteJobUpdate: an update keeps the type, the version, the plan*)
(* and the limits of its operation, and moves its status forward.          *)
ValidUpdate(op, update) == update.valid /\ ValidRemoteTransition(op.status, update.status)

(* The manager takes the update of a job it still works on.                *)
ReceiveRemote(heard) ==
  LET id == forward.id
      op == operations[id]
  IN  /\ mgr = "running"
      /\ forward \notin {NoUpdate, Closing}
      /\ id \in DOMAIN operations
      /\ IF ValidUpdate(op, forward)
         THEN /\ heard
              /\ AcceptStep(id, Step([op EXCEPT !.status = forward.status], ""),
                            primitives, active)
              /\ UNCHANGED jobs
         ELSE RejectUpdate(id, heard)
      /\ forward' = NoUpdate
      /\ UNCHANGED <<accepted, mgr, handler, starts, storeVars>>

(* An update of an operation the manager has let go of.                    *)
IgnoreRemote ==
  /\ mgr = "running"
  /\ forward \notin {NoUpdate, Closing}
  /\ forward.id \notin DOMAIN operations
  /\ forward' = NoUpdate
  /\ UNCHANGED <<operations, accepted, canceled, active, pendingUpdates, mgr, primitives,
                 handler, jobs, starts, storeVars>>

(* The handler has stopped: its operations fail, in no particular order.   *)
HandlerStopped ==
  LET ids == {id \in DOMAIN operations : operations[id].kind = "remote"}
  IN  /\ mgr = "running"
      /\ forward = Closing
      /\ forward' = NoUpdate
      /\ handler' = "marked"
      /\ Len(pendingUpdates) + Cardinality(ids) <= MaxPending
      /\ \E order \in Bijection(1 .. Cardinality(ids), ids) :
           pendingUpdates' = pendingUpdates \o
             [k \in DOMAIN order |-> Update(order[k], Fail(operations[order[k]]).op)]
      /\ operations' = [id \in DOMAIN operations \ ids |-> operations[id]]
      /\ canceled' = canceled \ ids
      /\ UNCHANGED <<accepted, active, mgr, primitives, jobs, starts, storeVars>>

-----------------------------------------------------------------------------
(* localPrimitiveCompleted                                                 *)
Final(event) == event \notin {"started", "output"}

(* Slip: a result that races the cancellation is taken as it is.           *)
EventSeenAsSent(id, event) == event

(* A completion that arrives after the cancellation counts as canceled.    *)
EventSeen(id, event) ==
  IF Final(event) /\ id \in canceled THEN "canceled" ELSE event

Handled(id, event, flag) ==
  HandleEvent(operations[id], EventSeen(id, event), flag, primitives[id].at)

(* Slip: only the events of known operations end a primitive while the     *)
(* manager is running, and none while it drains.                           *)
PrimitiveEventUncounted(id, event, flag, prims) ==
  \/ /\ mgr = "running"
     /\ AcceptStep(id, Handled(id, event, flag), prims, active)
     /\ UNCHANGED <<accepted, mgr, remoteVars, starts, storeVars>>
  \/ /\ mgr = "draining"
     /\ primitives' = prims
     /\ UNCHANGED <<operations, accepted, canceled, active, pendingUpdates, mgr,
                    remoteVars, starts, storeVars>>

(* The manager receives a primitive event; prims are the goroutines after  *)
(* it was sent.  Of an operation it has let go of, or when it drains, it   *)
(* only counts the event.                                                  *)
PrimitiveEvent(id, event, flag, prims) ==
  LET left == active - IF Final(event) THEN 1 ELSE 0
  IN  \/ /\ mgr = "running" /\ id \in DOMAIN operations
         /\ AcceptStep(id, Handled(id, event, flag), prims, left)
         /\ UNCHANGED <<accepted, mgr, remoteVars, starts, storeVars>>
      \/ /\ mgr = "draining" \/ id \notin DOMAIN operations
         /\ active' = left
         /\ primitives' = prims
         /\ UNCHANGED <<operations, accepted, canceled, pendingUpdates, mgr,
                        remoteVars, starts, storeVars>>

(* The context of the manager ends: it cancels what runs, the forwarder    *)
(* leaves, and what is left is to drain.                                   *)
Shutdown ==
  /\ mgr = "running"
  /\ mgr' = "draining"
  /\ canceled' = DOMAIN operations
  /\ forward' = NoUpdate
  /\ UNCHANGED <<operations, accepted, active, pendingUpdates, primitives,
                 handler, jobs, starts, storeVars>>

Close ==
  /\ mgr = "draining"
  /\ active = 0
  /\ mgr' = "closed"
  /\ UNCHANGED <<operations, accepted, canceled, active, pendingUpdates,
                 primitives, remoteVars, starts, storeVars>>

-----------------------------------------------------------------------------
(* The primitive goroutines.                                               *)

At(id, phases, stage) ==
  /\ mgr \in {"running", "draining"}
  /\ id \in DOMAIN primitives
  /\ primitives[id].phase \in phases
  /\ primitives[id].stage = stage

(* What may end now: all but a command whose start is yet to be reported.  *)
Ending(id) ==
  \/ At(id, Phases \cup FilePhases \cup ComputePhases, "new")
  \/ At(id, {"process"}, "reported")

(* runProcess: the command starts.  A cancellation comes after the         *)
(* dispatch, and may come between the last look at the context and this.   *)
StartCommand(id) ==
  /\ At(id, {"process"}, "new")
  /\ starts' = [starts EXCEPT ![id] = @ + 1]
  /\ primitives' = [primitives EXCEPT ![id].stage = "started"]
  /\ UNCHANGED <<operations, accepted, canceled, active, pendingUpdates, mgr,
                 remoteVars, storeVars>>

(* sendProcessEvent: the start is reported, or the context ends first.     *)
ReportStart(id) ==
  /\ At(id, {"process"}, "started")
  /\ PrimitiveEvent(id, "started", FALSE,
                    [primitives EXCEPT ![id].stage = "reported"])

SkipReport(id) ==
  /\ At(id, {"process"}, "started")
  /\ id \in canceled
  /\ primitives' = [primitives EXCEPT ![id].stage = "reported"]
  /\ UNCHANGED <<operations, accepted, canceled, active, pendingUpdates, mgr,
                 remoteVars, starts, storeVars>>

(* streamOpenFile: a chunk of a skill or an image is read and sent.        *)
ReadChunk(id) ==
  /\ At(id, FilePhases, "new")
  /\ primitives[id].at < FileChunks
  /\ PrimitiveEvent(id, "output", FALSE, [primitives EXCEPT ![id].at = @ + 1])

(* A creation, a read or a computation ends, or the command exits.         *)
PrimitiveCompletes(id, flag) ==
  /\ Ending(id) /\ ~At(id, {"process"}, "new")
  /\ primitives[id].phase \in FilePhases => primitives[id].at = FileChunks
  /\ PrimitiveEvent(id, "completed", flag, Without(primitives, id))

(* The goroutine reports a failure, or that its context is done; a command *)
(* that was started has then been terminated.                              *)
PrimitiveFails(id) ==
  /\ Ending(id)
  /\ PrimitiveEvent(id, "failed", FALSE, Without(primitives, id))

PrimitiveCanceled(id) ==
  /\ id \in canceled
  /\ Ending(id)
  /\ PrimitiveEvent(id, "canceled", FALSE, Without(primitives, id))

-----------------------------------------------------------------------------
(* The coordinator receives an update and saves it.                        *)
SaveUpdate ==
  /\ mgr = "running"
  /\ pendingUpdates # <<>>
  /\ Head(pendingUpdates).op.status # "unsupported"
  /\ saved' = [saved EXCEPT ![Head(pendingUpdates).id] = Head(pendingUpdates).op]
  /\ pendingUpdates' = Tail(pendingUpdates)
  /\ UNCHANGED <<operations, accepted, canceled, active, mgr, primitives,
                 remoteVars, starts, runs>>

(* What is lost with the process: all but the store.                       *)
Down ==
  /\ mgr' = "down"
  /\ operations' = <<>> /\ primitives' = <<>>
  /\ accepted' = {} /\ canceled' = {}
  /\ active' = 0
  /\ pendingUpdates' = <<>>
  /\ handler' = "open" /\ forward' = NoUpdate
  /\ jobs' = [id \in Operations |-> "none"]
  /\ UNCHANGED <<starts, storeVars>>

(* SaveOperation rejects the empty status of an unsupported operation, and *)
(* with it ends the loop and the process.                                  *)
SaveRejected ==
  /\ mgr = "running"
  /\ pendingUpdates # <<>>
  /\ Head(pendingUpdates).op.status = "unsupported"
  /\ Down

(* The process ends, orderly or not.                                       *)
Crash == mgr # "down" /\ Down

Restart ==
  /\ mgr = "down"
  /\ runs < MaxRuns
  /\ mgr' = "running"
  /\ runs' = runs + 1
  /\ UNCHANGED <<operations, accepted, canceled, active, pendingUpdates,
                 primitives, remoteVars, starts, saved>>

PrimitiveStep(id) ==
  \/ StartCommand(id)
  \/ ReportStart(id)
  \/ SkipReport(id)
  \/ ReadChunk(id)
  \/ \E flag \in BOOLEAN : PrimitiveCompletes(id, flag)
  \/ PrimitiveFails(id)
  \/ PrimitiveCanceled(id)

RemoteStep ==
  \/ \E id \in Operations, yes \in BOOLEAN : AddRemote(id, yes) \/ CancelRemote(id, yes)
  \/ \E id \in Operations, status \in RemoteStatuses, valid \in BOOLEAN :
       HandlerReports(id, status, valid)
  \/ HandlerCloses
  \/ \E heard \in BOOLEAN : ReceiveRemote(heard)
  \/ IgnoreRemote
  \/ HandlerStopped

Next ==
  \/ \E id \in Operations : Add(id) \/ Cancel(id) \/ PrimitiveStep(id)
  \/ RemoteStep
  \/ SaveUpdate \/ SaveRejected
  \/ Shutdown \/ Close
  \/ Crash \/ Restart

Spec == Init /\ [][Next]_vars

(* Fairness: the coordinator receives updates, the manager closes, and a   *)
(* primitive whose context is done ends (a command is terminated).  A      *)
(* command that nobody cancels may run forever.                            *)
FairSpec ==
  /\ Spec
  /\ WF_vars(SaveUpdate \/ SaveRejected)
  /\ WF_vars(Close)
  /\ \A id \in Operations : WF_vars(id \in canceled /\ PrimitiveStep(id))

-----------------------------------------------------------------------------
(* Properties.                                                             *)

Primitive ==
  [phase : Phases \cup FilePhases \cup ComputePhases,
   stage : {"new", "started", "reported"}, at : 0 .. FileChunks]

HandlerTypeOK ==
  /\ handler \in {"open", "closed", "marked"}
  /\ forward \in [id : Operations, status : RemoteStatuses, valid : BOOLEAN]
                  \cup {NoUpdate, Closing}
  /\ jobs \in [Operations -> {"none", "given", "told", "ended", "lost"}]

TypeOK ==
  /\ operations \in [DOMAIN operations -> Checkpoint]
  /\ DOMAIN operations \subseteq accepted
  /\ accepted \subseteq Operations /\ IsFiniteSet(accepted)
  /\ canceled \subseteq DOMAIN operations
  /\ active \in Nat
  /\ pendingUpdates \in Seq([id : Operations, op : Checkpoint])
  /\ mgr \in {"running", "draining", "closed", "down"}
  /\ primitives \in [DOMAIN primitives -> Primitive]
  /\ DOMAIN primitives \subseteq accepted
  /\ HandlerTypeOK
  /\ saved \in [Operations -> Checkpoint]
  /\ starts \in [Operations -> Nat]

(* activePrimitives is the number of goroutines that still have to report, *)
(* and while the manager runs every local operation it works on has one of *)
(* its current phase: none waits for an event that nobody will send, and   *)
(* none that drainLocalPrimitives waits for has ended.                     *)
PrimitivesCounted ==
  /\ active = Cardinality(DOMAIN primitives)
  /\ mgr = "running" =>
       /\ DOMAIN primitives = {id \in DOMAIN operations : operations[id].kind # "remote"}
       /\ \A id \in DOMAIN primitives : primitives[id].phase = operations[id].phase

(* The phases an operation of a type goes through, and the checkpoints.    *)
PhasesOf(kind) ==
  IF kind = "shell" THEN Phases
  ELSE IF kind = "skill" THEN {"skill_read"}
  ELSE IF kind = "image" THEN {"image_read"} \cup ComputePhases
  ELSE {}

Fits(op) ==
  /\ IF op.status = "awaiting" /\ op.kind # "remote"
     THEN op.phase \in PhasesOf(op.kind) ELSE op.phase = ""
  /\ op.kind = "value" => op.status \in {"ready", "completed"}
  /\ op.kind = "unsupported" => op.status \in {"ready", "unsupported"}
  /\ op.status = "unsupported" => op.kind = "unsupported"
  /\ op.status = "canceling" => op.kind = "remote"

PendingOf(id) == {k \in DOMAIN pendingUpdates : pendingUpdates[k].id = id}

(* Wherever an operation is kept, it is of one type, and a checkpoint of   *)
(* that type.                                                              *)
CheckpointsFit ==
  /\ \A id \in Operations : Fits(saved[id]) /\ saved[id].status # "unsupported"
  /\ \A id \in DOMAIN operations :
       /\ Fits(operations[id]) /\ ~Ended(operations[id])
       /\ operations[id].kind = saved[id].kind
  /\ \A k \in DOMAIN pendingUpdates :
       /\ Fits(pendingUpdates[k].op)
       /\ pendingUpdates[k].op.kind = saved[pendingUpdates[k].id].kind

(* A file is read on from where the content of its operation ends.         *)
ReadsContinue ==
  mgr = "running" =>
    \A id \in DOMAIN primitives :
      primitives[id].phase \in FilePhases => primitives[id].at = operations[id].content

(* The context of a remote operation is canceled only by a shutdown.       *)
RemoteNotCanceled ==
  mgr = "running" => \A id \in canceled : operations[id].kind # "remote"

(* What the handler may know and report: jobs that it was given, of remote *)
(* operations; one whose end it reports has ended; and none once it has    *)
(* stopped.                                                                *)
HandlerKnows ==
  /\ \A id \in Operations : jobs[id] # "none" =>
       id \in accepted /\ saved[id].kind = "remote"
  /\ handler # "open" => \A id \in Operations : jobs[id] \notin {"given", "told"}
  /\ forward = Closing => handler = "closed"
  /\ forward \notin {NoUpdate, Closing} =>
       /\ jobs[forward.id] # "none"
       /\ forward.status \in Finals /\ forward.valid => jobs[forward.id] = "ended"

(* A process that is down has left nothing behind.                         *)
NothingLeft ==
  mgr = "down" =>
    /\ accepted = {} /\ pendingUpdates = <<>>
    /\ forward = NoUpdate /\ handler = "open"

(* The types of the manager's state, the count that draining relies on,    *)
(* and how the manager, its goroutines, the handler and the store agree:   *)
(* an inductive invariant.                                                 *)
ManagerInv ==
  /\ TypeOK /\ PrimitivesCounted /\ CheckpointsFit /\ ReadsContinue
  /\ RemoteNotCanceled /\ HandlerKnows /\ NothingLeft

(* When all pending updates are saved, the store holds this checkpoint of  *)
(* an operation, and it held none before in which the operation had ended. *)
StoreArrivesAt(id, op) ==
  \/ PendingOf(id) = {} /\ saved[id] = op
  \/ /\ ~Finished(saved[id])
     /\ \E last \in PendingOf(id) :
          /\ pendingUpdates[last].op = op
          /\ \A k \in PendingOf(id) \ {last} : k < last /\ ~Ended(pendingUpdates[k].op)

CheckpointsOf(id) == {saved[id]} \cup {pendingUpdates[k].op : k \in PendingOf(id)}

(* An accepted operation ends with exactly one final update: the store     *)
(* arrives at the checkpoint the actor is in, or at a final one when the   *)
(* manager has let go of it, and nothing follows a final one; of an        *)
(* operation that was not accepted there is no update.                     *)
UpdatesEndInFinal ==
  /\ \A id \in DOMAIN operations : StoreArrivesAt(id, Durable(operations[id]))
  /\ \A id \in accepted \ DOMAIN operations :
       \E op \in CheckpointsOf(id) : Ended(op) /\ StoreArrivesAt(id, op)
  /\ \A id \in Operations \ accepted : PendingOf(id) = {}

(* While the manager runs, no remote job goes on for an operation it has   *)
(* let go of: the job has ended, its handler was told to cancel it, or     *)
(* nobody can know.                                                        *)
NoJobAbandoned ==
  mgr = "running" => \A id \in Operations \ DOMAIN operations : jobs[id] # "given"

(* A checkpoint says no more than what happened: a capture is read after a *)
(* command ran, and an image computed of a whole file; a command ran, or   *)
(* all of a file was read, when the operation is completed.                *)
Real(id, op) ==
  /\ op.phase \in ReadPhases => starts[id] > 0
  /\ op.phase = "image_process" => op.content = FileChunks
  /\ op.status = "completed" =>
       /\ op.kind = "shell" => starts[id] > 0
       /\ op.kind \in {"skill", "image"} => op.content = FileChunks
       /\ op.kind # "unsupported"

(* An operation completes only with the output of a command that ran, or   *)
(* with all of the file it read, chunk by chunk and across restarts:       *)
(* wherever a checkpoint of it is kept, and wherever its goroutine is.     *)
ResultsAreReal ==
  /\ \A id \in Operations : Real(id, saved[id])
  /\ \A k \in DOMAIN pendingUpdates : Real(pendingUpdates[k].id, pendingUpdates[k].op)
  /\ \A id \in DOMAIN operations : Real(id, operations[id])
  /\ \A id \in DOMAIN primitives : primitives[id].stage # "new" => starts[id] > 0

(* An operation whose cancellation the manager took is never reported      *)
(* completed, even if its last primitive completes in the same moment.     *)
CancelWins ==
  [][\A id \in canceled :
       mgr = "running" =>
         \A k \in DOMAIN pendingUpdates' \ DOMAIN pendingUpdates :
           pendingUpdates'[k].id = id => pendingUpdates'[k].op.status # "completed"]_vars

(* resume: when the store shows that the command may have been started, no *)
(* later process starts it again.                                          *)
RecordedStartNotRepeated ==
  \A id \in Operations : \A n \in 0 .. MaxRuns :
    [](mgr = "down" /\ starts[id] = n
         /\ (saved[id].phase \in ReadPhases \cup {"process"} \/ Finished(saved[id]))
       => [](starts[id] = n))

(* A canceled operation reaches a final status in the store, unless the    *)
(* manager is shut down first.                                             *)
CancelSettles ==
  \A id \in Operations : id \in canceled ~> (Finished(saved[id]) \/ mgr # "running")

(* A manager whose context ends closes its updates: it does not wait for   *)
(* a primitive that has already reported.                                  *)
DrainEnds == mgr = "draining" ~> mgr \in {"closed", "down"}

(* "Operation is the next durable checkpoint": the checkpoint that says    *)
(* the command is about to start is durable before it starts, so a command *)
(* of unknown outcome is failed without restarting it.                     *)
CommandStartedAtMostOnce == \A id \in Operations : starts[id] <= 1

=============================================================================
