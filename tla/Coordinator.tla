----------------------------- MODULE Coordinator -----------------------------
(***************************************************************************)
(* The coordinator loop of one session (harness/coordinator/loop.go) with  *)
(* the parts it talks to: the session inbox, the session store, the        *)
(* operation manager and the goroutine that calls the model.  One process  *)
(* runs the session at a time; it may die at any step, and the next one    *)
(* restores the session from the store.                                    *)
(*                                                                         *)
(* The coordinator is one goroutine, so one action here is one step        *)
(* between two places where it can be observed: a store write, a channel   *)
(* receive or a decision.  Names follow the source.                        *)
(***************************************************************************)
EXTENDS Integers, Sequences, FiniteSets, SequencesExt

CONSTANTS
  Inputs,          \* IDs of the inputs clients may submit
  InputKind,       \* [Inputs -> ClientKinds]: what each of them is
  HeartbeatIDs,    \* bound: fresh IDs the coordinator may give to heartbeats
  CallIDs,         \* call IDs a model response may use
  OpsPerCall,      \* operations a translated call waits for
  MaxTurns,        \* bound: turns in a history
  MaxToolTurns,    \* bound: turns whose response may ask for tools
  MaxCompactions,  \* bound: compaction turns in a history
  MaxRuns,         \* bound: processes that run the session
  MaxForks         \* bound: forks among the ancestors of the session

ClientKinds == {"external", "crash", "settings", "hard", "when_idle"}

ASSUME InputAssumption ==
  /\ InputKind \in [Inputs -> ClientKinds]
  /\ Inputs \cap HeartbeatIDs = {}
ASSUME BoundsAssumption ==
  /\ OpsPerCall \in Nat \ {0}
  /\ {MaxTurns, MaxToolTurns, MaxCompactions, MaxRuns, MaxForks} \subseteq Nat

VARIABLES
  \* the session store
  items,       \* Seq(Item): the session's history
  saved,       \* operation -> its latest stored status
  \* the inbox goroutine
  queue,       \* accepted inputs not yet handed over
  seen,        \* IDs it accepted or was seeded with
  \* the operation manager
  accepted,    \* operations added during its lifetime
  running,     \* operation -> its status, while the manager works on it
  canceling,   \* running operations whose cancellation was requested
  updates,     \* pendingUpdates: checkpoints not yet received
  \* the model goroutines
  asks,        \* turns whose Respond call has not handed over its result
  \* the coordinator
  st,          \* loopState without callModel
  callModel,   \* loopState.callModel
  model,       \* cancelModel # nil: a response is awaited
  stop,        \* stop.request.Mode, or "none"
  cancelled,   \* stop.cancellationRequested
  batch,       \* what the step in progress has collected
  pc,          \* where the loop is
  runs         \* processes started

storeVars   == <<items, saved>>
inboxVars   == <<queue, seen>>
managerVars == <<accepted, running, canceling, updates>>
stopVars    == <<stop, cancelled>>
vars == <<storeVars, inboxVars, managerVars, asks, st, callModel, model,
          stopVars, batch, pc, runs>>

-----------------------------------------------------------------------------
(* Values.                                                                 *)

Turns == 1 .. MaxTurns
Keys  == (1 .. MaxToolTurns) \X CallIDs        \* toolCallKey
Ops   == Keys \X (1 .. OpsPerCall)             \* operation IDs of a call
OpsOf(key) == {key} \X (1 .. OpsPerCall)

(* operationIsTerminal; completed, failed and canceled are one status here.*)
Terminal(status) == status = "finished"

KindOf(i) == IF i \in HeartbeatIDs THEN "heartbeat" ELSE InputKind[i]

InputItem(i)        == [kind |-> "input", id |-> i]
TurnItem(t, type)   == [kind |-> "turn", turn |-> t, type |-> type]
ResponseItem(t, cs) == [kind |-> "response", turn |-> t, calls |-> cs]
StatusItem(key, f)  ==
  [kind |-> "status", key |-> key, waitingFor |-> DOMAIN f, ops |-> f]
ForkItem(t)         == [kind |-> "fork", turn |-> t]

(* Entries of maps: f written over g, and f without one.                   *)
Over(f, g) == [x \in DOMAIN f \cup DOMAIN g |-> IF x \in DOMAIN f THEN f[x] ELSE g[x]]
Without(f, x) == [y \in DOMAIN f \ {x} |-> f[y]]

-----------------------------------------------------------------------------
(* The local state and how an item changes it, live and on restore.        *)

NewLoopState ==
  [turn |-> 0, type |-> "regular", calls |-> <<>>, ops |-> <<>>,
   available |-> 0, delivered |-> 0, turnInputs |-> 0,
   graceCalls |-> {}, grace |-> FALSE]

PendingInputs(s) == s.available - s.delivered
HasPendingOps(s) == \E o \in DOMAIN s.ops : ~Terminal(s.ops[o])
ClearToolGrace(s) == [s EXCEPT !.graceCalls = {}, !.grace = FALSE]

CallIsTerminal(s, key) ==
  \A o \in s.calls[key].ops : o \in DOMAIN s.ops /\ Terminal(s.ops[o])

FinishToolCall(s, key) ==
  LET left == s.graceCalls \ {key}
  IN  [s EXCEPT !.calls = Without(@, key),
                !.graceCalls = left,
                !.grace = @ /\ left # {},
                !.available = @ + 1]

AddToolCalls(s, t, cs) ==
  [s EXCEPT !.calls = Over([key \in {t} \X cs |-> [scheduled |-> FALSE, ops |-> {}]], @)]

(* addOperationToLocalState, addToolCallOperationsToLocalState and         *)
(* addToolResultToLocalState for one status.  A call that waits for        *)
(* operations that are not there (those of an inherited status) stays.     *)
AddStatus(s, key, waitingFor, f) ==
  LET withOps == [s EXCEPT !.ops = Over(f, @)]
      waiting == [withOps EXCEPT
                   !.calls[key] = [scheduled |-> TRUE,
                                   ops |-> @.ops \cup waitingFor]]
  IN  IF key \notin DOMAIN s.calls THEN withOps
      ELSE IF CallIsTerminal(waiting, key) THEN FinishToolCall(waiting, key)
      ELSE waiting

AddInput(s, i) ==
  IF KindOf(i) \in {"external", "heartbeat"}
  THEN [s EXCEPT !.available = @ + 1]
  ELSE s

AddTurn(s, t, type) ==
  [s EXCEPT !.turn = t, !.type = type, !.turnInputs = s.available]

(* Slip: what arrived while the model was thinking counts as delivered.    *)
AddResponseDeliversAll(s, t, cs) ==
  IF s.type = "compaction" /\ t = s.turn
  THEN s
  ELSE AddToolCalls([s EXCEPT !.delivered = s.available], t, cs)

AddResponse(s, t, cs) ==
  IF s.type = "compaction" /\ t = s.turn
  THEN s
  ELSE AddToolCalls(
         [s EXCEPT !.delivered = IF t = s.turn THEN s.turnInputs ELSE @], t, cs)

(* Slip: the calls of the parent are taken over.                           *)
AddForkKeepsCalls(s) == ClearToolGrace([s EXCEPT !.ops = <<>>])

(* Nothing is left of the calls and operations of the parent.              *)
AddFork(s) == ClearToolGrace([s EXCEPT !.calls = <<>>, !.ops = <<>>])

AddItem(s, item) ==
  CASE item.kind = "input"    -> AddInput(s, item.id)
    [] item.kind = "turn"     -> AddTurn(s, item.turn, item.type)
    [] item.kind = "response" -> AddResponse(s, item.turn, item.calls)
    [] item.kind = "status"   -> AddStatus(s, item.key, item.waitingFor, item.ops)
    [] item.kind = "fork"     -> AddFork(s)

-----------------------------------------------------------------------------
(* The session store as the coordinator sees it.                           *)

ItemsOf(kind) == {n \in DOMAIN items : items[n].kind = kind}
TurnItems     == ItemsOf("turn")
LatestTurn    == IF TurnItems = {} THEN 0 ELSE items[Max(TurnItems)].turn

(* What the session holds itself, and not its ancestors.                   *)
Owned(n)       == \A m \in ItemsOf("fork") : m < n
Responded(t)   == \E n \in ItemsOf("response") : Owned(n) /\ items[n].turn = t
HasStatus(key) == \E n \in ItemsOf("status") : Owned(n) /\ items[n].key = key
OwnsTurn(t)    == \E n \in TurnItems : Owned(n) /\ items[n].turn = t

(* The checks of sessionHead.append*: a rejected item ends Run.            *)
StoreAccepts(item, previous) ==
  CASE item.kind = "input"    -> TRUE
    [] item.kind = "turn"     -> /\ previous = LatestTurn
                                 /\ \A n \in TurnItems : items[n].turn # item.turn
    [] item.kind = "response" -> OwnsTurn(item.turn) /\ ~Responded(item.turn)
    [] item.kind = "status"   -> /\ OwnsTurn(item.key[1])
                                 /\ \/ HasStatus(item.key)
                                    \/ DOMAIN item.ops \cap DOMAIN saved = {}

(* The first status of a call initializes its operations.                  *)
InitializeOperations(item) ==
  IF item.kind = "status" /\ ~HasStatus(item.key) THEN Over(item.ops, saved) ELSE saved

(* addItemToLocalState and storeItemInSessionStore for one item, the local *)
(* state having become s; next is where the loop goes on.                  *)
Store(item, previous, next) ==
  LET accepts == StoreAccepts(item, previous)
  IN  /\ items' = IF accepts THEN Append(items, item) ELSE items
      /\ saved' = IF accepts THEN InitializeOperations(item) ELSE saved
      /\ pc' = IF accepts THEN next ELSE "failed"

(* storedState.resume: unfinished operations, and finished ones whose last *)
(* status in the history still shows them unfinished.                      *)
LastSnapshot(o) ==
  LET ns == {n \in ItemsOf("status") : o \in DOMAIN items[n].ops}
  IN  items[Max(ns)].ops[o]

(* Slip: an operation that ended needs no further attention.               *)
ResumeUnfinished == {o \in DOMAIN saved : ~Terminal(saved[o])}

ResumeOperations ==
  {o \in DOMAIN saved : ~Terminal(saved[o]) \/ ~Terminal(LastSnapshot(o))}

RecordedInputIDs == {items[n].id : n \in ItemsOf("input")}

(* The local state after each item of a history.                           *)
Replay(history) ==
  LET state[n \in 0 .. Len(history)] ==
        IF n = 0 THEN NewLoopState ELSE AddItem(state[n - 1], history[n])
  IN  state

(* restore: the history replayed, then the operations of Resume.           *)
Restore ==
  LET s == Replay(items)[Len(items)]
  IN  [s EXCEPT !.ops = Over([o \in ResumeOperations |-> saved[o]], @)]

-----------------------------------------------------------------------------
Init ==
  /\ items = <<>> /\ saved = <<>>
  /\ queue = <<>> /\ seen = {}
  /\ accepted = {} /\ running = <<>> /\ canceling = {} /\ updates = <<>>
  /\ asks = {}
  /\ st = NewLoopState
  /\ callModel = FALSE /\ model = FALSE
  /\ stop = "none" /\ cancelled = FALSE
  /\ batch = {}
  /\ pc = "down"
  /\ runs = 0

(* A process opens the session: a new inbox seeded with the recorded input *)
(* IDs, a new manager, a new coordinator.                                  *)
Start ==
  /\ pc \in {"down", "returned"}
  /\ runs < MaxRuns
  /\ runs' = runs + 1
  /\ queue' = <<>> /\ seen' = RecordedInputIDs
  /\ accepted' = {} /\ running' = <<>> /\ canceling' = {} /\ updates' = <<>>
  /\ asks' = {}
  /\ st' = NewLoopState
  /\ callModel' = FALSE /\ model' = FALSE
  /\ stop' = "none" /\ cancelled' = FALSE
  /\ batch' = {}
  /\ pc' = "restore"
  /\ UNCHANGED storeVars

(* forkStoredState: the last item of a turn before the next one.           *)
Boundary(t) ==
  LET start == CHOOSE n \in TurnItems : items[n].turn = t
      later == {n \in TurnItems : n > start}
      ofTurn(n) ==
        \/ items[n].kind \in {"turn", "response"} /\ items[n].turn = t
        \/ items[n].kind = "status" /\ items[n].key[1] = t
  IN  Max({n \in DOMAIN items : ofTurn(n) /\ \A m \in later : n < m})

Inherited(item) == IF item.kind = "status" THEN [item EXCEPT !.ops = <<>>] ELSE item

(* The session that is opened next is a fork of this one at a turn.        *)
Fork(t) ==
  /\ pc \in {"down", "returned"}
  /\ runs < MaxRuns
  /\ Cardinality(ItemsOf("fork")) < MaxForks
  /\ \E n \in TurnItems : items[n].turn = t
  /\ items' = [n \in 1 .. Boundary(t) |-> Inherited(items[n])] \o <<ForkItem(t)>>
  /\ saved' = <<>>
  /\ pc' = "down"
  /\ UNCHANGED <<inboxVars, managerVars, asks, st, callModel, model, stopVars, batch, runs>>

(* The process dies, its context is canceled, a store write or the model   *)
(* call fails: Run ends and everything that is not in the store is lost.   *)
Crash ==
  /\ pc \notin {"down", "returned"}
  /\ runs < MaxRuns
  /\ pc' = "down"
  /\ UNCHANGED <<storeVars, inboxVars, managerVars, asks, st, callModel,
                 model, stopVars, batch, runs>>

-----------------------------------------------------------------------------
(* The inbox.                                                              *)

Alive == pc \notin {"down", "returned", "failed"}

(* Submit by a client, who may repeat an input: the inbox drops the ID it  *)
(* has seen.                                                               *)
Submit(i) ==
  /\ Alive
  /\ i \notin seen
  /\ seen' = seen \cup {i}
  /\ queue' = Append(queue, i)
  /\ UNCHANGED <<storeVars, managerVars, asks, st, callModel, model, stopVars,
                 batch, pc, runs>>

-----------------------------------------------------------------------------
(* The operation manager, as far as the coordinator can see it.            *)

AddToManager(ops) ==
  LET new == {o \in ops : ~Terminal(st.ops[o])} \ accepted
  IN  /\ accepted' = accepted \cup new
      /\ running' = Over([o \in new |-> "ready"], running)
      /\ UNCHANGED <<canceling, updates>>

(* A step of the operation that leaves it unfinished.                      *)
OperationAwaits(o) ==
  /\ Alive
  /\ o \in DOMAIN running
  /\ running[o] = "ready"
  /\ running' = [running EXCEPT ![o] = "awaiting"]
  /\ updates' = Append(updates, [op |-> o, status |-> "awaiting"])
  /\ UNCHANGED <<storeVars, inboxVars, accepted, canceling, asks, st,
                 callModel, model, stopVars, batch, pc, runs>>

(* The operation completes, fails or is canceled.                          *)
OperationFinishes(o) ==
  /\ Alive
  /\ o \in DOMAIN running
  /\ running' = Without(running, o)
  /\ canceling' = canceling \ {o}
  /\ updates' = Append(updates, [op |-> o, status |-> "finished"])
  /\ UNCHANGED <<storeVars, inboxVars, accepted, asks, st, callModel, model,
                 stopVars, batch, pc, runs>>

-----------------------------------------------------------------------------
(* The coordinator.                                                        *)

(* Run begins with restore.                                                *)
LoadHistory ==
  /\ pc = "restore"
  /\ st' = Restore
  /\ pc' = "startup"
  /\ UNCHANGED <<storeVars, inboxVars, managerVars, asks, callModel, model,
                 stopVars, batch, runs>>

(* A hard stop is final; an idle stop may still be replaced by one.        *)
AcceptStop(mode) == IF stop = "hard" THEN stop ELSE mode

(* handleInboxInput, for an input received by a slurp or by the select.    *)
HandleInput ==
  /\ pc \in {"inputs", "select"}
  /\ queue # <<>>
  /\ LET i == Head(queue)
         s == AddItem(st, InputItem(i))
         settings == KindOf(i) = "settings"
     IN  /\ Store(InputItem(i), 0, "inputs")
         /\ queue' = Tail(queue)
         /\ st' = IF settings THEN s ELSE ClearToolGrace(s)
         /\ callModel' = (callModel \/ KindOf(i) = "external"
                                    \/ (settings /\ model))
         /\ stop' = IF KindOf(i) \in {"hard", "when_idle"} THEN AcceptStop(KindOf(i))
                    ELSE stop
  /\ UNCHANGED <<seen, managerVars, asks, model, cancelled, batch, runs>>

(* slurpChannel on the inbox gives up after an idle millisecond.           *)
InputsIdle ==
  /\ pc = "inputs"
  /\ pc' = "updates"
  /\ UNCHANGED <<storeVars, inboxVars, managerVars, asks, st, callModel,
                 model, stopVars, batch, runs>>

(* handleOperationUpdate: the local state, then SaveOperation.             *)
HandleUpdate ==
  /\ pc \in {"updates", "select"}
  /\ updates # <<>>
  /\ LET u == Head(updates)
     IN  /\ st' = [st EXCEPT !.ops = Over([o \in {u.op} |-> u.status], @)]
         /\ saved' = [saved EXCEPT ![u.op] = u.status]
         /\ pc' = IF u.op \notin DOMAIN saved THEN "failed"
                   ELSE IF pc = "select" THEN "inputs" ELSE "updates"
  /\ updates' = Tail(updates)
  /\ UNCHANGED <<items, inboxVars, accepted, running, canceling, asks,
                 callModel, model, stopVars, batch, runs>>

UpdatesIdle ==
  /\ pc = "updates"
  /\ pc' = "reconcile"
  /\ UNCHANGED <<storeVars, inboxVars, managerVars, asks, st, callModel,
                 model, stopVars, batch, runs>>

Reconcilable == {key \in DOMAIN st.calls : CallIsTerminal(st, key)}

(* One iteration of reconcileToolCalls; batch collects what completed.     *)
ReconcileToolCall(key) ==
  /\ pc = "reconcile"
  /\ key \in Reconcilable
  /\ LET item == StatusItem(key, [o \in st.calls[key].ops |-> st.ops[o]])
     IN  IF st.calls[key].scheduled
         THEN /\ Store(item, 0, "reconcile")
              /\ st' = AddItem(st, item)
              /\ batch' = batch \cup {key}
         ELSE /\ pc' = "failed"
              /\ UNCHANGED <<storeVars, st, batch>>
  /\ UNCHANGED <<inboxVars, managerVars, asks, callModel, model, stopVars, runs>>

(* Slip: the siblings get a grace period but no timer ends it.             *)
ReconcileWithoutTimer ==
  /\ pc = "reconcile"
  /\ Reconcilable = {}
  /\ LET siblings == {key \in DOMAIN st.calls :
                        \E done \in batch : done[1] = key[1]}
     IN  st' = [st EXCEPT !.graceCalls = @ \cup siblings]
  /\ batch' = {}
  /\ pc' = "decide"
  /\ UNCHANGED <<storeVars, inboxVars, managerVars, asks, callModel, model,
                 stopVars, runs>>

(* The rest of processEvents: siblings of a completed call get a grace     *)
(* period before their results are asked for.                              *)
ReconcileDone ==
  /\ pc = "reconcile"
  /\ Reconcilable = {}
  /\ LET siblings == {key \in DOMAIN st.calls :
                        \E done \in batch : done[1] = key[1]}
     IN  st' = [st EXCEPT !.graceCalls = @ \cup siblings,
                          !.grace = @ \/ siblings # {}]
  /\ batch' = {}
  /\ pc' = "decide"
  /\ UNCHANGED <<storeVars, inboxVars, managerVars, asks, callModel, model,
                 stopVars, runs>>

(* Slip: only a new event calls the model.                                 *)
WantsModelOnEvent == callModel

WantsModel ==
  callModel \/ (PendingInputs(st) > 0 /\ ~model /\ st.graceCalls = {})

(* cancelOperations: what the manager is told to cancel and still runs.    *)
CancelOperations ==
  {o \in DOMAIN running : o \in DOMAIN st.ops /\ ~Terminal(st.ops[o])}

(* Slip: Run does not wait for the canceled operations.                    *)
HandleStopAtOnce ==
  /\ pc = "decide"
  /\ stop = "hard"
  /\ model' = FALSE
  /\ cancelled' = TRUE
  /\ canceling' = canceling \cup DOMAIN running
  /\ pc' = "returned"
  /\ UNCHANGED <<storeVars, inboxVars, accepted, running, updates, asks, st,
                 callModel, stop, batch, runs>>

(* Slip: the model call goes on and nothing is canceled.                   *)
HandleStopPassively ==
  /\ pc = "decide"
  /\ stop = "hard"
  /\ cancelled' = TRUE
  /\ pc' = IF HasPendingOps(st) THEN "select" ELSE "returned"
  /\ UNCHANGED <<storeVars, inboxVars, managerVars, asks, st, callModel, model,
                 stop, batch, runs>>

(* handleStop: once, interrupt the model and cancel every unfinished       *)
(* operation; Run returns when none is left.                               *)
HandleStop ==
  /\ pc = "decide"
  /\ stop = "hard"
  /\ model' = (model /\ cancelled)
  /\ cancelled' = TRUE
  /\ canceling' = IF cancelled THEN canceling ELSE canceling \cup CancelOperations
  /\ pc' = IF HasPendingOps(st) THEN "select" ELSE "returned"
  /\ UNCHANGED <<storeVars, inboxVars, accepted, running, updates, asks, st,
                 callModel, stop, batch, runs>>

(* requestModelResponse: a turn is stored and a goroutine asks the model.  *)
(* The context builder decides whether the turn is a compaction.           *)
RequestModel(type) ==
  /\ pc = "decide"
  /\ stop # "hard"
  /\ WantsModel
  /\ LatestTurn < MaxTurns
  /\ type = "compaction" =>
       Cardinality({n \in TurnItems : items[n].type = type}) < MaxCompactions
  /\ LET t == LatestTurn + 1
     IN  /\ Store(TurnItem(t, type), st.turn, "select")
         /\ st' = ClearToolGrace(AddItem(st, TurnItem(t, type)))
         /\ asks' = asks \cup {t}
  /\ model' = TRUE
  /\ callModel' = FALSE
  /\ UNCHANGED <<inboxVars, managerVars, stopVars, batch, runs>>

IsIdle ==
  /\ ~model
  /\ PendingInputs(st) = 0
  /\ DOMAIN st.calls = {}
  /\ ~HasPendingOps(st)

(* Neither a hard stop nor a model call: an idle stop may end Run.         *)
Wait ==
  /\ pc = "decide"
  /\ stop # "hard"
  /\ ~WantsModel
  /\ pc' = IF stop = "when_idle" /\ IsIdle THEN "returned" ELSE "select"
  /\ UNCHANGED <<storeVars, inboxVars, managerVars, asks, st, callModel,
                 model, stopVars, batch, runs>>

IsWaitingForOnlyToolCalls ==
  /\ ~model
  /\ stop # "hard"
  /\ PendingInputs(st) = 0
  /\ DOMAIN st.calls # {}

(* The heartbeat timer fires: postHeartbeat submits a new control message. *)
PostHeartbeat ==
  /\ pc = "select"
  /\ IsWaitingForOnlyToolCalls
  /\ \E h \in HeartbeatIDs \ (seen \cup RecordedInputIDs) :
       /\ seen' = seen \cup {h}
       /\ queue' = Append(queue, h)
  /\ pc' = "inputs"
  /\ UNCHANGED <<storeVars, managerVars, asks, st, callModel, model, stopVars,
                 batch, runs>>

GraceExpires ==
  /\ pc = "select"
  /\ st.grace
  /\ st' = ClearToolGrace(st)
  /\ pc' = "inputs"
  /\ UNCHANGED <<storeVars, inboxVars, managerVars, asks, callModel, model,
                 stopVars, batch, runs>>

(* A result for a turn nobody waits for any more is dropped.               *)
DropResponse(t) ==
  /\ pc = "select"
  /\ t \in asks
  /\ ~model \/ t # st.turn
  /\ asks' = asks \ {t}
  /\ pc' = "inputs"
  /\ UNCHANGED <<storeVars, inboxVars, managerVars, st, callModel, model,
                 stopVars, batch, runs>>

(* Slip: the model call that has answered still counts as under way.       *)
ReceiveKeepsWaiting(t, cs) ==
  /\ pc = "select"
  /\ t \in asks
  /\ model
  /\ t = st.turn
  /\ cs # {} => t <= MaxToolTurns
  /\ asks' = asks \ {t}
  /\ Store(ResponseItem(t, cs), 0, "schedule")
  /\ st' = AddItem(st, ResponseItem(t, cs))
  /\ UNCHANGED <<inboxVars, managerVars, callModel, model, stopVars, batch, runs>>

(* processModelResponse up to the stored response; cs are its tool calls.  *)
ReceiveResponse(t, cs) ==
  /\ pc = "select"
  /\ t \in asks
  /\ model
  /\ t = st.turn
  /\ cs # {} => t <= MaxToolTurns
  /\ asks' = asks \ {t}
  /\ model' = FALSE
  /\ Store(ResponseItem(t, cs), 0, "schedule")
  /\ st' = AddItem(st, ResponseItem(t, cs))
  /\ UNCHANGED <<inboxVars, managerVars, callModel, stopVars, batch, runs>>

Unscheduled == {key \in DOMAIN st.calls : ~st.calls[key].scheduled}

(* scheduleToolCall: the call is translated into ready operations, or into *)
(* an error that answers it at once; batch collects the statuses.          *)
ScheduleToolCall(key, translated) ==
  /\ pc \in {"startup", "schedule"}
  /\ key \in Unscheduled
  /\ LET item == StatusItem(key, [o \in IF translated THEN OpsOf(key) ELSE {}
                                    |-> "ready"])
     IN  /\ Store(item, 0, pc)
         /\ st' = AddItem(st, item)
  /\ batch' = batch \cup {<<key, translated>>}
  /\ UNCHANGED <<inboxVars, managerVars, asks, callModel, model, stopVars, runs>>

RequireModelResponse == \E status \in batch : ~status[2]

(* Slip: restored operations are not handed to the new manager.            *)
StartupWithoutDispatch ==
  /\ pc = "startup"
  /\ Unscheduled = {}
  /\ callModel' = RequireModelResponse
  /\ batch' = {}
  /\ pc' = "inputs"
  /\ UNCHANGED <<storeVars, inboxVars, managerVars, asks, st, model, stopVars, runs>>

(* Run before the loop: every unfinished operation goes to the manager.    *)
StartupDone ==
  /\ pc = "startup"
  /\ Unscheduled = {}
  /\ AddToManager(DOMAIN st.ops)
  /\ callModel' = RequireModelResponse
  /\ batch' = {}
  /\ pc' = "inputs"
  /\ UNCHANGED <<storeVars, inboxVars, asks, st, model, stopVars, runs>>

(* The rest of processModelResponse: the new operations go to the manager  *)
(* and their calls get a grace period, unless one of them failed at once.  *)
ScheduleDone ==
  /\ pc = "schedule"
  /\ Unscheduled = {}
  /\ AddToManager(UNION {OpsOf(status[1]) : status \in {b \in batch : b[2]}})
  /\ callModel' = RequireModelResponse
  /\ st' = IF RequireModelResponse \/ batch = {} THEN st
           ELSE [st EXCEPT !.graceCalls = @ \cup {status[1] : status \in batch},
                           !.grace = TRUE]
  /\ batch' = {}
  /\ pc' = "inputs"
  /\ UNCHANGED <<storeVars, inboxVars, asks, model, stopVars, runs>>

-----------------------------------------------------------------------------
Coordinate ==
  \/ HandleInput \/ InputsIdle
  \/ HandleUpdate \/ UpdatesIdle
  \/ \E key \in Keys : ReconcileToolCall(key)
  \/ ReconcileDone
  \/ HandleStop
  \/ \E type \in {"regular", "compaction"} : RequestModel(type)
  \/ Wait
  \/ PostHeartbeat
  \/ GraceExpires
  \/ \E t \in Turns : DropResponse(t)
  \/ \E t \in Turns, cs \in SUBSET CallIDs : ReceiveResponse(t, cs)
  \/ \E key \in Keys, translated \in BOOLEAN : ScheduleToolCall(key, translated)
  \/ StartupDone \/ ScheduleDone

Next ==
  \/ Start
  \/ \E t \in Turns : Fork(t)
  \/ Crash
  \/ \E i \in Inputs : Submit(i)
  \/ \E o \in Ops : OperationAwaits(o) \/ OperationFinishes(o)
  \/ LoadHistory
  \/ Coordinate

Spec == Init /\ [][Next]_vars

-----------------------------------------------------------------------------
(* Properties.                                                             *)

TypeOK ==
  /\ st.turn \in 0 .. MaxTurns
  /\ st.type \in {"regular", "compaction"}
  /\ DOMAIN st.calls \subseteq Keys
  /\ \A key \in DOMAIN st.calls : st.calls[key].ops \subseteq OpsOf(key)
  /\ DOMAIN st.ops \subseteq Ops
  /\ st.delivered \in 0 .. st.turnInputs
  /\ st.turnInputs \in 0 .. st.available
  /\ st.graceCalls \subseteq DOMAIN st.calls
  /\ st.grace = (st.graceCalls # {})
  /\ asks \subseteq Turns
  /\ DOMAIN running \subseteq accepted
  /\ canceling \subseteq DOMAIN running
  /\ stop \in {"none", "hard", "when_idle"}
  /\ pc \in {"down", "restore", "startup", "inputs", "updates", "reconcile", "decide",
             "select", "schedule", "returned", "failed"}

(* The part of the local state a restart must reproduce.                   *)
Recoverable(s) ==
  [turn |-> s.turn, type |-> s.type, calls |-> s.calls, ops |-> s.ops,
   available |-> s.available, delivered |-> s.delivered,
   turnInputs |-> s.turnInputs]

(* Whatever step the process dies in, the state that loadHistory and       *)
(* Resume rebuild from the store is the one the dead coordinator had: no   *)
(* call, operation or undelivered input is forgotten or invented.          *)
ReplayMatchesLive == Alive /\ pc # "restore" => Recoverable(st) = Recoverable(Restore)

(* The store never rejects what the coordinator writes, so a session can   *)
(* not get stuck on an item that fails again after every restart.          *)
StoreNeverRejects == pc # "failed"

(* When the loop blocks in its select with undelivered inputs, something   *)
(* that will wake it is under way: a model response, a grace timer, or the *)
(* canceled operations a hard stop waits for.                              *)
NoLostWakeup ==
  pc = "select" /\ PendingInputs(st) > 0 =>
    model \/ st.grace \/ (stop = "hard" /\ HasPendingOps(st))

(* Inside the loop every operation the coordinator believes unfinished is  *)
(* one the manager is working on, or whose last checkpoint is on its way.  *)
OperationsAreDriven ==
  pc \in {"inputs", "updates", "reconcile", "decide", "select"} =>
    \A o \in DOMAIN st.ops :
      Terminal(st.ops[o]) \/ o \in DOMAIN running
      \/ \E k \in DOMAIN updates : updates[k].op = o /\ Terminal(updates[k].status)

(* Only operations that the store holds are ever dispatched.               *)
CommittedBeforeDispatch == Alive => accepted \subseteq DOMAIN saved

(* A response is recorded only for the turn that is the latest one at that *)
(* moment, and once: a late answer to an interrupted turn is dropped.      *)
ResponsesMatchTurns ==
  \A n \in ItemsOf("response") :
    /\ items[n].turn = items[Max({m \in TurnItems : m < n})].turn
    /\ \A m \in ItemsOf("response") : items[m].turn = items[n].turn => m = n

(* The inbox, seeded from the history, never lets an input ID be recorded  *)
(* twice, however often and in whatever process the client submits it.     *)
InputsRecordedOnce ==
  \A m, n \in ItemsOf("input") : items[m].id = items[n].id => m = n

Final(n) ==
  /\ items[n].kind = "status"
  /\ \A o \in items[n].waitingFor : o \in DOMAIN items[n].ops /\ Terminal(items[n].ops[o])

(* A tool call is settled by one final status, which is the last one.      *)
CallsSettledOnce ==
  \A n \in ItemsOf("status") : Final(n) =>
    \A m \in ItemsOf("status") : items[m].key = items[n].key => m <= n

(* The well-formedness of the session: the loop state has its type, with   *)
(* its counts in order; what the coordinator writes is accepted, and       *)
(* written before it is acted upon; and the history holds every input, the *)
(* answer of every turn and the outcome of every call once.                *)
LoopInv ==
  /\ TypeOK
  /\ StoreNeverRejects /\ CommittedBeforeDispatch
  /\ ResponsesMatchTurns /\ InputsRecordedOnce /\ CallsSettledOnce

(* What the model has still to be told about: inputs, heartbeats and final *)
(* tool results that no answered regular turn came after.                  *)
Tells(n) ==
  \/ items[n].kind = "input" /\ KindOf(items[n].id) \in {"external", "heartbeat"}
  \/ Final(n)

Answered(n) ==
  \E m \in TurnItems, r \in ItemsOf("response") :
    n < m /\ m < r /\ items[m].turn = items[r].turn /\ items[m].type = "regular"

(* availableInputs - deliveredInputs counts exactly what the history says  *)
(* the model has not answered yet: interrupted turns and compaction turns  *)
(* deliver nothing.  What a fork inherits counts too, calls that it will   *)
(* never answer aside (the FIXME in loop.go calls this unfinished).        *)
PendingMatchesHistory ==
  Alive /\ pc # "restore" =>
    PendingInputs(st) = Cardinality({n \in DOMAIN items : Tells(n) /\ ~Answered(n)})

(* Every tool call a regular turn was answered with has its final status;  *)
(* a compaction request offers no tools and its calls are ignored, and the *)
(* calls that a fork inherits are left as they were.                       *)
EveryCallSettled ==
  \A n \in {m \in ItemsOf("response") : Owned(m)} : \A c \in items[n].calls :
    \/ \E m \in TurnItems : items[m] = TurnItem(items[n].turn, "compaction")
    \/ \E m \in ItemsOf("status") : items[m].key = <<items[n].turn, c>> /\ Final(m)

(* Run returns from a stop only when every operation has ended, the store  *)
(* knows it, and every tool call of the history has its result; from an    *)
(* idle stop, when the model has also answered every input and result.     *)
StopsSettle ==
  pc = "returned" =>
    /\ \A o \in DOMAIN saved : Terminal(saved[o])
    /\ DOMAIN running = {}
    /\ EveryCallSettled
    /\ stop = "when_idle" => \A n \in DOMAIN items : Tells(n) => Answered(n)

Unfinished(s) == {o \in DOMAIN s.ops : ~Terminal(s.ops[o])}

(* stopState: "Once set, no new nonterminal operations may enter           *)
(* coordinator state", and a hard stop starts no further turn.             *)
NothingNewAfterHardStop ==
  [][/\ Alive /\ stop = "hard" => TurnItems' = TurnItems
     /\ cancelled /\ cancelled' => Unfinished(st') \subseteq Unfinished(st)]_vars

-----------------------------------------------------------------------------
(* Fairness: the coordinator goroutine runs, its timers fire and the model *)
(* call returns; a session that died is opened again; the manager ends an  *)
(* operation it was told to cancel.  An operation that nobody cancels may  *)
(* run forever, and a client may never submit.                             *)
(* LoadHistory is named by what only it does, which spares TLC the replay  *)
(* when it asks whether the action is enabled.                             *)
LiveSpec ==
  /\ Spec
  /\ WF_vars(Start)
  /\ WF_pc(pc = "restore" /\ pc' = "startup")
  /\ WF_vars(Coordinate)
  /\ \A o \in Ops : WF_vars(o \in canceling /\ OperationFinishes(o))

RecordedAt(i) == {n \in ItemsOf("input") : items[n].id = i}

(* A recorded external input is answered by the model, whatever crashes,   *)
(* interruptions and running tools come in between, unless a hard stop is  *)
(* asked for.                                                              *)
InputsAnswered ==
  \A i \in Inputs :
    KindOf(i) = "external" =>
      (RecordedAt(i) # {} ~> (stop = "hard" \/ \E n \in RecordedAt(i) : Answered(n)))

(* A hard stop ends Run even while tools run: it cancels them and waits.   *)
HardStopReturns == stop = "hard" ~> pc \in {"returned", "down"}

(* An idle stop ends Run once the tools that run come to an end, however   *)
(* many results and heartbeats the model has still to answer by then.      *)
IdleStopReturns ==
  []<>(DOMAIN running = {}) =>
    (stop = "when_idle" ~> (stop = "hard" \/ pc \in {"returned", "down"}))

=============================================================================
