# Verification of the Unreal Agent harness

TLA+ specifications of the agent harness under `src/harness`: the coordinator
loop that owns a session, the store it persists the session in, and the
operation manager that runs its tools, with the process primitive below it; and
the context builder, the requests it makes of a session and the exchange that
sends them to a provider. The modules are written from the Go code;
`PROJECT.json` maps every definition to the lines it stands for. TLC checks small
instances; TLAPS proves the safety of the coordinator, of both layers of the
store, of the operation manager, of the process primitive, of the context builder,
of the exchange with a provider and of its framer for every instance.

```
tlc -workers 4 -config CoordinatorLoop.cfg MCCoordinator
for m in SessionFile SessionStore ProcessPrimitive ModelExchange \
         OperationManager ContextBuilder SSEFramer Coordinator
do tlapm ${m}Proofs.tla; done
```

## The system

A process opens a session, restores it from the store and runs one coordinator
goroutine over it until a stop, an error or the end of the process. Clients
submit inputs to the session's inbox. The coordinator records each input, asks
the model for a response in a goroutine of its own, records the response, has
its tool calls translated into operations, records those and hands them to the
operation manager. The manager runs each operation as an actor that dispatches
one primitive after the other (create a file, run a process, read a file), and
sends a checkpoint of the operation to the coordinator after every step. When
all operations of a call have ended, the coordinator records the result and
tells the model in its next turn.

```
 clients --Submit--> inbox --Messages--> coordinator <--response-- model goroutine
                                          |  ^   |
                       store writes, Resume  |   | Add, Cancel
                                          v  |   v
                              session store  +-- operation manager <--events-- primitives
                              (records, file)  updates
```

### Components

| Component | State | Operations | Hard behaviour | What makes it correct |
| --- | --- | --- | --- | --- |
| Coordinator (`coordinator/loop.go`) | current turn, open calls, known operations, counts of available and delivered inputs, grace calls and timer, stop request, model call under way | restore, handle input, handle update, reconcile, request the model, process a response, schedule calls, heartbeat, grace timer, stop | results in any order, late model answers, interruption, two kinds of stop, crash between the local change and its record | a restart rebuilds the same state; every input and result is delivered once and eventually; stops settle everything |
| Inbox (`inbox/local.go`) | queue, seen IDs | submit, hand over | redelivery, also to another process | an ID is recorded once |
| Session store, records (`sessionstore/localfile/state.go`, `codec.go`) | a log per session, cached heads | create, fork, append input/turn/response/status, save operation, resume | failed appends that did reach the file, shared maps in the cache, forks of forks | the cache equals the file, every log decodes, an operation is resumed once and never lost |
| Session store, files (`sessionstore/localfile/store.go`) | file content, cached committed size | load, truncate, write, sync, evict | an error or a crash between any two of these | acknowledged records survive, the file always decodes |
| Operation manager (`operation/local_manager.go`) | operations, accepted IDs, contexts, primitive count, pending updates | add, cancel, primitive event, remote update, drain, close | cancellation racing completion, shutdown with primitives under way | count exact, one final update per operation, draining ends |
| Shell actor (`operation/shell.go`) | status, phase, process group, exit code | add or resume, handle an event | resume from an old checkpoint | no result without a run, no recorded start repeated |
| Skill, image and value actors (`operation/skill_use.go`, `image.go`, `value.go`) | status, content read so far | as above | a file read across restarts; an image read again | the result is all of the file |
| Remote jobs (`operation/remote_job*.go`) | status; a forwarder for each handler | add, cancel, report, handler closes | handlers that refuse, contradict themselves or close while a job runs | an operation ends once, and its job is told to |
| Process primitive (`primitives/process.go`) | the command, its group, pipes, readers, controls under way | start, terminate, read output, write and close the input, signal | exit racing cancellation, descendants that hold the pipes, writes that block | reports its end once and last, delivers all output, leaves nothing of the group, always ends |
| File, compute and timer primitives (`primitives/`) | one goroutine each | create, read in chunks, compute, wait | cancellation | a canceled primitive ends and reports once |
| Remote primitive (`primitives/remote.go`, `remote_sse.go`) | a request, its idle timer, the frame being read | send, stream, frame, time out | silence of the server, a timer that fires while an event is handled, chunks that end anywhere | reports its end once and last; frames do not depend on chunks |
| Context builder (`contextbuilder/`) | committed and staged items, token checkpoints | stage, commit, build, compact | interrupted turns, calls that run across a compaction, items staged while one is under way | nothing is lost but into a summary |
| LLM adapters (`llm/`) | none across calls | build a request, exchange with retries, decode | several results for one call; one channel for all attempts; an answer racing cancellation, timeout and failure | every request is accepted and extends the one before; an answer is returned, once |
| Tools (`tool/`) | registry (fixed) | translate a call, format a result | none: synchronous and pure | errors answer the call at once |
| Agent runner, TUI (`cmd/`) | the running session | start, stop, print | shutdown order | composition of the above |

Out of scope: generated API types (`internal/`), benchmarks, terminal rendering,
provider JSON and HTTP. They hold no protocol state of the harness. The
generated types are 36.7 k of the repository's 52.9 k implementation lines.

The hazards of this code are listed, each at its line with the properties that
guard it, under `hazards` in `PROJECT.json`.

## Modules

| Module | Stands for |
| --- | --- |
| `SessionLog` | abstract: an append-only log with an acknowledged prefix no crash takes back |
| `SessionFile` | one session's file, one append at a time; implements `SessionLog` |
| `SessionFileProofs` | theorems about `SessionFile` |
| `SessionStore`, `MCSessionStore` | all sessions at the level of records: checks, cache, forks, replay, Resume |
| `SessionStoreProofs` | theorems about `SessionStore` |
| `ShellActor` | the transition function of the shell operation |
| `OperationActors` | those of the other operations, and the choice among them |
| `OperationManager`, `MCOperationManager` | the manager with all actors, primitives, a handler of remote jobs, the saving coordinator, crashes |
| `OperationManagerProofs` | theorems about `OperationManager`: results, updates, jobs and cancellation |
| `ProcessContract` | abstract: the events one process owes the operation manager |
| `ProcessPrimitive`, `MCProcessPrimitive` | one invocation of the process primitive; implements `ProcessContract` |
| `ProcessPrimitiveProofs` | theorems about `ProcessPrimitive`, the refinement among them |
| `ContextBuilder`, `MCContextBuilder` | the items of a session as the model is shown them, and compaction |
| `MessagesRequest` | the conversion of items into the messages of the Messages API, as a function |
| `ModelRequests` | `ContextBuilder` composed with the conversion: what both providers are sent |
| `ContextBuilderProofs` | theorems about `ContextBuilder` and the requests of `ModelRequests` |
| `RemoteRequest` | the goroutines of the remote request and timer primitives |
| `ModelExchange` | the exchange of both LLM adapters, over `RemoteRequest` |
| `ModelExchangeProofs` | theorems about `ModelExchange` |
| `SSEFramer` | the framer of event streams, against a definition of frames by the stream as a whole |
| `SSEFramerProofs` | theorems about `SSEFramer` |
| `Coordinator`, `MCCoordinator` | the coordinator loop with inbox, store, manager and model goroutine around it |
| `CoordinatorProofs` | what a history says and its replay computes, and the theorems about `Coordinator` |

Operators called "Slip" in their comment are variants of the definition that
follows them, each with one plausible mistake. `PROJECT.json` pairs them with
the properties under `mutants`: TLC must find the property violated when the
slip takes the definition's place, which shows that the property can see it.

### SessionFile

The file is a sequence of cells, two for each line: the text and its end. This
is the coarsest picture in which a torn write differs from a whole one. `Begin`
is `loadWriteState`, `Truncate`, `Write` and `Sync` are the steps of
`appendFile`, `OpenFails`, `WriteFails` and `SyncFails` its error returns with
what each leaves in the file, and `Evict` the error path of `append` that drops
the cached write state. `Crash` keeps any prefix of the file that contains what
was synced. `Decode` is `decodeLog`, which ignores what follows the last
newline. `durable` is a history variable: the number of records some append has
acknowledged. The file is created by a rename and so exists with its header
from the start. The cell order is the write order; a disk that keeps a later
part of an unsynced write and loses an earlier one is not modelled, because
the store writes each record with one call at the end of a file.

### SessionStore

A log is the sequence of records after the session record, and `sessionHead`
is the record of `NewSessionHead`. `Accepts` has the checks of the append
methods, `Extend` their effect, `Inherit` and `ResetOwnedState` what a fork does
with what it takes over. `Decode` and `Decodable` are `decodeLog`: the records up
to the last fork are inherited, the rest is checked again; `Heads` is the head
after each record. `AppendSucceeds` and
`AppendFails` summarise `SessionFile`: a failed append may have left its record
in the file. `RejectedCall` is a call that fails its checks and only fills the
cache. `Publish` is `publishInitialState`, whose error may come after the rename.
Turn and operation IDs are fresh (`used`), as UUIDs are. Calls for one session
come from one coordinator at a time: the interface leaves serialization to the
caller.

### ShellActor, OperationActors and OperationManager

A checkpoint keeps status, phase, whether a process group and whether an exit
code are recorded, and how much of a file was read: what `resume`, `finish` and
the other actors look at. Output bytes, paths and error texts are left out,
except whether a capture needs a second read. A skill keeps its content in every
checkpoint and is read on from there; an image keeps nothing and is read again
(`Durable`). What a computation on an image finds is a choice.
`AcceptStep` is `acceptLocalStep`: the update is queued, a final checkpoint
removes the operation, a dispatched primitive is counted and started. The
primitive channel is unbuffered, so sending and receiving an event is one step.
A process primitive has three stages (`new`, `started`, `reported`) because
starting the command, reporting the start and its exit are separate, and the
context may end between any two. The coordinator is reduced to `SaveUpdate`, and
to `SaveRejected` for the empty status of an operation that is not supported,
which no store accepts. `starts` is a history variable. `Shutdown`, draining and
`Close` are the end of the manager's context; `Crash` loses all but `saved`.

The handler of remote jobs is an interface that only tests implement. It may
refuse a job or a cancellation, report any status in a valid or invalid update,
and close; `forward` is what its forwarder holds between the two channels.
`jobs` is what the handler has been told.

### ProcessContract and ProcessPrimitive

`pc` is where `runProcess` is, `reader` where the goroutine of each piped output
is, `control` where each dispatched control is; `Reap` and `WaitReturns` are the
goroutine around `command.Wait`, which reaps the process before it sends the
result, so `awaitProcessCompletion` can see a reaped process without a result.
`Cancel` is the context. The operating system is the command (`leader`), one
descendant in its process group (`child`) and one that left the group but holds
the pipes (`escaped`). Output is counted in chunks, and what the command itself
wrote is told apart from what descendants wrote (`own`). `GroupGone` and `Kill`
are the two ends of `terminateProcess`; SIGTERM changes nothing by itself, since
a process may ignore it and may exit at any time. Errors of closing and syncing
only decide whether the last event is a failure, so `SendTerminalEvent` may turn
any outcome into one. That the receiver takes every event is an assumption the
manager meets: it also receives while it drains.

`ProcessContract` has the stages `OperationManager` works with, and
`ImplementsContract` is the refinement, with the position of `runProcess` mapped
to a stage.

### ContextBuilder

An item is an input, an answer, a call, a result (running or final) or a summary;
texts, tools and the system message are left out. `committedPrefix`,
`stagedSuffix` and `prefixTokens` are the builder's fields. The coordinator is
reduced to the calls it makes: inputs and results are staged, `RequestTurn` is
`requestModelResponse` with the commit of a regular turn, `RegularAnswer` and
`CompactionAnswer` are the two ways a response is applied. An input or new
settings interrupt the request under way, so its answer is never applied.
`given`, `sent` and `summarized` are history variables: everything that was
added, what the request under way was built from, and what the applied
summaries have seen. Token counts are whatever a provider reports: they need not
grow.

A session may be a fork, of a fork even. It begins with the items of its parent up
to the last one of a turn, which the same actions apply while `inherited` holds;
`boundary` says whether the last item belongs to the latest turn (`turnCalls` are
its calls), and `Fork` is the fork item behind such a one. An inherited status has
lost its operations, so a call that waits for some gets no result
(`addToolResultToLocalState` returns without one), and a call that has no status
yet is forgotten: `lost` has the calls that are in the history and will never have
a result. A call whose translation failed keeps its result. `lost` grows in forks
only; what the session asks for itself is never in it.

### MessagesRequest and ModelRequests

`RequestInput` is `requestInput`: the items fall into turns of one role, the
first result of each call answers it, in the order of the calls, and every later
one becomes text. The checks that end in an error are kept. `NextRequest` is
`buildModelRequest`. `RequestsAreAccepted` says what the providers ask of a
request, in the terms of the conversion for the Messages API and of the items for
the Responses API, which are sent one by one. `HistoryNotRewritten` compares the
blocks made of what was sent before with those of the next regular request. Both
are about sessions with `lost = {}`, forks or not. For the others the
third conjunct of `RequestsAreAccepted` says what the code does:
`requestInput` refuses the regular request, whenever it is made (see Findings).

### RemoteRequest and ModelExchange

`remote[a]` is the goroutine of the request of attempt `a`, `timer[a]` that of the
backoff after it; both send on the channel of the exchange. An event is received
where the adapter stands at its receive, whoever sent it: that this is always the
producer the adapter means is `OneProducer`, not an assumption. `Verdict` is the
switch at the end of `exchangeAttempt`; the adapters differ in what settles an
attempt and in whether they cancel the request then. An idle timer may fire until
it is stopped, and what it did is not undone. `said` is a history variable: what
the server told the adapter in each attempt. Which statuses and errors may be
repeated, and delays, are data (`retryable`, `error_retry`, ...). The Messages
adapter wants an event stream, and a content type it can parse even of an error
(`StartSettles`). The bodies of answers are left out.

### SSEFramer

The fields of `remoteSSEFramer`, with the wire size of a frame as its length;
`Appended` is the loop of `append` over the bytes of a chunk. The
definition it is checked against cuts the whole stream at its blank lines.

### Coordinator

`st` is `loopState`, `items` and `saved` are what the store holds, `pc` is where
the goroutine is: `restore`, `startup` (calls that were answered but not
scheduled), then round the loop `inputs`, `updates`, `reconcile`, `decide`,
`select`, with `schedule` after a response. One action ends at each store write
or channel receive, so a crash or an event of another goroutine can come at any
point where the program can be observed. `Store` applies the checks of the store;
a rejected item ends `Run` (`failed`). The store, inbox and manager appear with
what the coordinator can see of them; `SessionStore` and `OperationManager`
check what is assumed here: an accepted append is in the log, a stored operation
is resumed, updates of an operation arrive in order and end in a final one, and
a canceled operation ends.

Left to chance: which tool calls a response asks for, whether a call translates,
when operations end, when a timer fires, and whether the context builder wants a
compaction. Terminal statuses are not told apart. The millisecond for which a
slurp waits is a choice to go on. An error of the context, of a store write or of
the model call is a crash here: `Run` returns and nothing but the store remains.

`Fork` lets the next process open a fork of the session instead: the items up to
the end of a turn, the statuses among them without their operations, and a fork
item. What is its own (`Owned`) comes after that; the store takes responses and
statuses for such turns only (`OwnsTurn`), and that the coordinator of a fork never
writes one for an inherited turn is part of `LoopInv`.

Inputs carry their kind: `external` and `heartbeat` are counted as something to
answer, `crash`, `settings`, `hard` and `when_idle` are recorded only. No run has an input
of kind `crash`: nothing in the code submits one.

## Runs

State counts are distinct states.

| Run | Instance | Checks |
| --- | --- | --- |
| `session_file` | 2 records, 3 appends; 731 states | `IInv`, `AcknowledgedSurvive`, `ImplementsSessionLog` |
| `session_store` | 2 sessions, 2 turns, 1 call, 1 operation, 5 records; 163 k | `StoreInv`, `AlwaysDecodable`, `WorkResumedOnce` |
| `operation_manager` | 2 operations of any types, 2 chunks, 3 pending updates, 2 processes; 2.8 M | `ManagerInv`, `UpdatesEndInFinal`, `NoJobAbandoned`, `CancelWins` |
| `operation_recovery` | 1 operation of any type, 3 chunks, 12 pending updates, 3 processes; 74 k | `ResultsAreReal`, `RecordedStartNotRepeated`, `CancelSettles`, `DrainEnds` |
| `process_primitive` | 2 outputs with 1 chunk each, a signal to the group, descendants in and out of the group; 949 k | `ProcessInv`, `OutputComplete`, `ImplementsContract` |
| `process_live` | 1 output, a write and a close of the input; 193 k | `InvocationEnds`, `ControlsAnswered` |
| `context_builder` | 2 inputs, 2 calls, 4 answers, 2 thresholds, forks; 355 k | `BuilderInv`, `RequestsAreAccepted`, `HistoryNotRewritten`, `NothingLost`, `AnswersFollowTheirInputs` |
| `model_exchange` | both adapters, 3 attempts, 2 outputs; 178 k | `ExchangeInv`, `AnswersAreKept`, `RetriesAreJustified`, `ExchangeReturns` |
| `sse_framer` | streams of up to 8 bytes in chunks of up to 3, both modes, limits 2, 4 and 8; 106 k | `FramerInv`, `FramesMatchStream` |
| `shell_restart` | 1 operation, 2 processes | violation of `CommandStartedAtMostOnce` |
| `coordinator_loop` | an input, settings, a heartbeat, 2 calls in one turn, 4 turns, 1 compaction, 1 fork, 2 processes; 1.2 M | `LoopInv`, `ReplayMatchesLive`, `OperationsAreDriven`, `NoLostWakeup`, `PendingMatchesHistory` |
| `coordinator_live` | an input, both stops, a heartbeat, calls of 2 turns, 2 processes; 660 k | `StopsSettle`, `NothingNewAfterHardStop`, `InputsAnswered`, `HardStopReturns`, `IdleStopReturns` |

Why these bounds. Three appends are a torn or unsynced one, the one that
repairs it, and one that relies on the repaired cache. Five records hold a
turn, a response, two statuses and an operation record, or a fork of a fork
with records of its own after it. One operation goes through ten updates, so
with twelve the queue never fills and a crash can lose any number of them; with
two operations the queue is shorter, since the interleaving is what that run is
about. Three chunks let a skill be interrupted twice before its end. One chunk is
enough for output that is still in the pipe when the command exits; two outputs
let one reader end, fail or be refused a deadline without the other. Four answers
are a regular turn, a compaction over a call that runs, and both again; forks come
between any of them, and there may be several. Three
attempts are one that is repeated, one that is repeated although an earlier one
was, and the last; of two outputs the first can settle an attempt and the second
come too late. Eight bytes hold two frames, each line ending cut by a chunk. Two
calls are enough for siblings that end on both sides of a grace period. A fork
comes between the two processes, so after any crash; with the bound on tool turns
its own turns ask for no tools. The liveness run never reaches its bound on turns,
and its one restart and one heartbeat come at any step, so progress is not an
effect of the bounds; it has no settings and no compactions, whose effect on what is
still to be answered is checked by `PendingMatchesHistory` in the other run. `MaxTurns` of the other coordinator run cuts behaviours
off, which invariants do not notice, and which is why it does not check for
deadlock; the manager runs stop because a process that is down for good is a legal
end, and an exchange because it returns. The permutations of call IDs, of
operations and of session, turn and operation IDs are symmetries used for
invariants and action properties only. `context_builder` stops at its bound on
answers, `sse_framer` at the end of the stream.

Fairness. `LiveSpec`: the coordinator goroutine is scheduled, its timers fire and
`Respond` returns; a session that died is opened again (an input nobody resumes
cannot be answered); an operation the manager was told to cancel ends. A tool
that nobody cancels may run forever, and a client need not submit anything.
`OperationManager!FairSpec`: the coordinator keeps receiving updates, the manager closes when it
can, and a primitive whose context is done ends, because `process.go` escalates
from a request to terminate to a kill and file primitives are single calls.
`ProcessPrimitive!FairSpec` does not take that for granted: the goroutines of the
invocation run and SIGKILL ends the command, but a command or descendant that was
not killed may stay, read nothing and hold its pipes forever. Reading errors and
a taken write are never forced.
`ModelExchange!FairSpec`: goroutines run, timers fire, and a call into `net/http`
returns some time after its context has ended; the server and the network may do
nothing. `MaxFrames` stands for the end of a stream: a server that sends a byte
within every idle timeout keeps a request going forever, and the code allows it.
`IdleStopReturns` is conditional on running tools coming to an end, as the code
is.

## What is proved

The theorems hold for every value of the constants that the named assumptions
allow: any sets of records, sessions, inputs, calls, operations, outputs and
controls, and any bounds. The assumptions only give the constants their types
(the bounds are natural numbers, an input or a control has a kind), keep the IDs
of heartbeats apart from those of clients (`InputAssumption`), give a call at
least one operation (`BoundsAssumption`), and keep `NoLog` from being a log
(`NoLogAssumption`); an answer holds finitely many calls (`CallIDsAssumption`). The
permutations and the small instances of the runs play no
part in them.

Hardly any of the properties is inductive. Each module finds the invariant that
is, shows it of the initial states and of every action, and derives the
properties. The invariants that are not properties of a run themselves were first
checked by TLC: `CoordInv` on two instances of the coordinator (640 k and 760 k
states), `RecordsInv` on the instance of `session_store`, `IInv` and `TimelyInv` of
the context builder on that of `context_builder` (355 k states).

### SessionFileProofs

- `InductiveInvariant`: `Spec => []IInv`
- `SessionsStayReadable`: `Spec => []AlwaysReadable`
- `AcknowledgedRecordsSurvive`: `Spec => []AcknowledgedSurvive`
- `RecordsAreNotTakenBack`: `Spec => OnlyCrashTakesBack`
- `FileImplementsLog`: `Spec => ImplementsSessionLog`, the refinement of `SessionLog`

That the file decodes after an append depends on where the append truncated,
which depends on the cached size, which must have been right when it was cached.
`IInv` adds what is needed: `Lines`, the text and end cells alternate and belong
together, with at most a text cell left over at the end; and `Sizes`, at each step
of `append` the size in use is the committed size of the file that was read, the
file has that length after the truncation, and a cached size outside of an append
is the whole file, because a failed append has dropped it. From `Lines` alone the
file is readable once it holds a line (`LinesAreReadable`) and its decoding is half
as long as its cells (`DecodeIs`); resizing to an even size within the file and
writing a record keep `Lines` (`ResizeCuts`, `WriteKeepsLines`); what a crash leaves
decodes to a prefix that contains the acknowledged records (`DecodePrefix`). With
these, every step of the file is a step of the log or leaves it unchanged
(`StepRefines`). `AlwaysReadable` and `OnlyCrashTakesBack` have no run of their own:
the one follows from `IInv`, the other from `ImplementsSessionLog`, which the run
checks.

### SessionStoreProofs

- `StoreInvariant`: `Spec => []StoreInv`
- `LogsStayDecodable`: `Spec => []AlwaysDecodable`
- `WorkIsResumedOnce`: `Spec => []WorkResumedOnce`

A cached head is only right if replaying the log gives it, and a log only decodes
if every record was checked against the head that replaying gives at its place.
`LogOK` says what a log satisfies: it decodes, its turns are chained and differ,
its head has the number of its items, its latest turn and its turns, and knows the
calls and operations of the statuses after the last fork. `RecordsInv` says this of
every file, has the cache agree with the files, and has the operations of two
sessions differ. The work is in two lemmas. `AppendKeeps`: a record that the head of
a log accepts keeps the log in order and takes the head to what `Extend` makes of
it. `ForkKeeps`: the items of a log up to the boundary of a turn, without
operations, with a fork item behind them, are a log in order, whose head is the one
`Fork` caches. A copy drops the records of operations, so positions shift: the
sequence number of an item is its position among the items (`ItemsPlaced`), which
is what lets the copy decode; and between a turn and its boundary there is no other
turn (`BoundaryIs`), which is why the fork goes on from the turn it names. A failed
append needs no case of its own: the record is in the file or not, and the cache is
dropped.

### OperationManagerProofs

- `ManagerInvariant`: `Spec => []ManagerInv`
- `JobsAreNotAbandoned`: `Spec => []NoJobAbandoned`
- `CancellationsWin`: `Spec => CancelWins`
- `ResultsComeFromWork`: `Spec => []ResultsAreReal`
- `EveryOperationIsTold`: `Spec => []UpdatesEndInFinal`
- `StartsAreNotRepeated`: `Spec => RecordedStartNotRepeated`

`ManagerInv` is inductive. Its proof goes by the actors first: what each makes of a
checkpoint and an event is a checkpoint of the same type, with the primitive of its
phase dispatched or with the operation ended (`GoodStep`); then by `acceptLocalStep`
for a step of that shape; then by the actions. Then it is said once what any
step is to an operation (`StepsAre`): it takes a step of its actor (`Took`), it is
given to the handler (`Gave`), the handler stops, an update is saved, the process
ends, or nothing changes. Each property is then shown for these cases only.
`ResultsAreReal` needs that a goroutine past the start of its command has started
one, and that every checkpoint under way, queued or saved, satisfies it too.
`UpdatesEndInFinal` is about the sequence saved checkpoint, queue, operation: the
queue ends in what the operation is, and only its last element for an operation can
be final (`Told`). `RecordedStartNotRepeated` needs that once the store is past the
start, no operation, queued update or goroutine is before it (`StartIsPast`).

### ProcessPrimitiveProofs

- `ProcessInvariant`: `Spec => []ProcessInv`
- `OutputIsComplete`: `Spec => []OutputComplete`
- `PrimitiveImplementsContract`: `Spec => ImplementsContract`, the refinement of `ProcessContract`

`ProcessInv` is inductive: it ties the place of `runProcess` to what the waiting
goroutine, the readers and the controls have done, and to the state of the command
and its group.

### ModelExchangeProofs

- `ExchangeInvariant`: `Spec => []ExchangeInv`
- `ReceivedAnswersAreKept`: `Spec => []AnswersAreKept`
- `RepetitionsAreJustified`: `Spec => []RetriesAreJustified`

`ExchangeInv` is inductive; `OneProducer` is what makes it so, since an event is
attributed to the attempt under way by where the adapter stands, not by who sent it.
The same invariant gives what the server has said in each attempt, from which the
other two follow.

### ContextBuilderProofs

- `BuilderInvariant`: `Spec => []IInv`
- `BuilderCorrect`: `Spec => []BuilderInv`
- `BuilderLosesNothing`: `Spec => []NothingLost`
- `AnswersInPlace`: `Spec => []AnswersFollowTheirInputs`
- `RequestsAreNative`: `Spec => []NativeRequests`, the first part of `RequestsAreAccepted`
- `ResultsAreTimely`: `Spec => [](IInv /\ TimelyInv)`
- `RequestsAccepted`: `Spec => []RequestsAreAccepted`
- `HistoryKept`: `Spec => []HistoryNotRewritten`

That nothing is lost and that answers stand where they belong depend on the order of
the items, and a compaction changes it: calls move to the front, behind the summary.
So `IInv` speaks of the context as a whole. `History`: calls, answers, inputs and
final results are there once, a result is behind its call, a final one is the last of
its call, an answer has seen exactly what was told before it. `Sourced` and `Present`:
every item was given, and every given one is there or was summarized. `CallsOK`: a call
without a final result runs or waits to be scheduled, and one that runs is shown to.
`AskedOK`: the answer under way has been shown what is committed. There are
four ways in which a step changes a context: an item is appended; a running result is
replaced by the final one; an answer with its calls is inserted behind what is
committed; a prefix is replaced by a summary and the calls it carries forward. For each
there is a lemma that the order survives (`AppendKeepsHistory` and so on) and one that
everything is accounted for (`InputOK` and so on). What `CarryForward` computes is
found from a layout of flattened sequences (`FlattenLayout`, `CarryForwardIs`).

The last two theorems are about the messages `requestInput` makes, and have two
halves. The first is about the conversion alone, by induction on the length of the
history: if calls are named once and before their results (`CallsOrdered`), and every
call has a result before the assistant's next turn (`FullTo`; `PromptTo` lets the calls
of a last turn wait for it), then there is no error, each item becomes one block, each
turn with calls is answered by the next, and a call is answered by the same result
whatever comes after (`ConversionOK`, `Accepted`, `WireBegins`). The second is that the
builder's histories are of that kind, which `IInv` does not say: it has a result
behind each call, but not how far behind. `Timely` says it of the context and of each
part of it that ends where a response was recorded, as the cutoff of a compaction does;
there is a lemma per action. What makes it inductive is that a running result is put
behind a call before the next request, that what is staged is of the user's side, and
that a compaction carries calls forward with a running result only where they had
one (`CarryHead`).

Forks. `Unanswered` are the calls without any result, those still to be scheduled and
those that are lost; `Shown` are those with a running one. `Timely` cannot hold once a call is lost, so `TimelyInv` is
`lost = {} => Timely`, which is inductive because `lost` never shrinks
(`LostForGood`). What becomes of a lost call is the third conjunct of
`RequestsAreAccepted`: by `IInv` it is in the context and has no result there, since a
compaction carries every call without a final result forward and no status of it comes
any more; and a history with a call that has no result is one `requestInput`
refuses. That needs the converse of the conversion lemmas: as long as the conversion
has found no error, the calls that it has turned into blocks and that are not
pending have a result (`Outstanding`, by induction over the turns), and at the end an
error or a pending call is left (`Refused`, `LostRefused`).

### SSEFramerProofs

- `FramerInvariant`: `Spec => []IInv`
- `FramerCorrect`: `Spec => []FramerInv`
- `FramesAreOfTheStream`: `Spec => []FramesMatchStream`

The reference definition cuts a whole stream at its blank lines, the framer looks at
one byte after the other. The lemmas say what one more byte adds to the lines and to the
frames of a stream; then each case of the loop keeps the fields of the framer, and what
it has sent, what the bytes so far make them (`ByteFollows`), and so does a chunk, by
induction over its bytes (`ChunkFollows`). Once the framer has failed, some frame of
the stream is too long, and what was sent is a prefix of the frames before it.

### CoordinatorProofs

- `CoordinatorInvariant`: `Spec => []CoordInv`
- `SessionStaysWellFormed`: `Spec => []LoopInv`
- `RestartForgetsNothing`: `Spec => []ReplayMatchesLive`
- `EveryOperationIsDriven`: `Spec => []OperationsAreDriven`
- `WakeupsAreNotLost`: `Spec => []NoLostWakeup`
- `CountsMatchTheHistory`: `Spec => []PendingMatchesHistory`
- `StopsLeaveNothingOpen`: `Spec => []StopsSettle`
- `HardStopAdmitsNothing`: `Spec => NothingNewAfterHardStop`

The first part defines, without replaying anything, what a history says: its
latest turn, the calls the model asked for that are not settled, and the inputs and
results that were told, shown by a turn and answered. A local state `Reflects` a
history when it agrees on all of it. Every item keeps that so, therefore a replayed
state reflects its history, by induction over the items; and two states that reflect
one history are the same but for operations and grace periods. The live coordinator
also keeps reflecting the history it writes, and that is `ReplayMatchesLive`.
`CoordInv` has the rest: the shape of the history and of the saved operations
(`StoreOK`; open calls are of turns the session owns), so that the store takes every item (`PcOK` has no `failed`); what the
inbox may still hand over is not recorded (`InboxOK`); an operation the manager works
on is unfinished in the store and the checkpoint that ends it is the last one
(`WorkOK`); what the store shows unfinished is in the manager's hands or in the batch
about to be dispatched (`HandedOver`); a model call under way belongs to the latest
turn, which is not answered (`TurnOK`); and how the local state, calls and grace
periods go with the place in the loop (`LocalOK`, `LiveOK`, `ManagerOK`). There is one
lemma per action. `NoLostWakeup` and `StopsSettle` are part of the invariant because
they say something of a place in the loop that only the step before it establishes.

### Only model-checked

Liveness under fairness (`CancelSettles`, `DrainEnds`, `InvocationEnds`,
`ControlsAnswered`, `ExchangeReturns`, `InputsAnswered`, `HardStopReturns`,
`IdleStopReturns`) is out of the prover's reach. What recursive functions compute
(`Replay`, `Heads`, `ItemsUpTo`, `Appended`, `ConvertTurns`, `Wire`, a flattened
sequence) is proved by induction in the form of a set of numbers that contains zero
and the successor of each of its elements (`Induction`), from the library's facts on
well-founded relations.

## Findings

`shell_restart`: a command can be run twice. `acceptLocalStep` puts the
checkpoint of the process phase into `pendingUpdates` and starts the command at
once (`operation/local_manager.go:245`); the coordinator saves the checkpoint
later. If the process dies in between, the store still shows an earlier phase,
`resume` creates the capture files again (existing ones are reused) and the
command is started a second time. `operation.go:55` calls the checkpoint
durable, and `shell.go:199` and `shell_test.go:154` fail a command whose start
may have happened rather than run it again. `RecordedStartNotRepeated`, which
holds, is the weaker guarantee the code does give: once the phase is in the
store, the command is not started again.

Without a run: after the exit of a command the readers are woken, and the comment
at `process.go:741` says that "each reader snapshots and drains the bytes already
buffered". `drainProcessOutput` takes no snapshot: it reads until the pipe is
empty, and `TestDrainProcessOutputHasNoByteLimit` asks for no limit. What a
descendant outside of the group writes during the drain is delivered too, and one
that keeps writing keeps the invocation from ending. `InvocationEnds` holds of an
exit because the model bounds what is written; of a cancellation it does not
depend on that in the code either, since a reader that cannot send stops.

Without a run of its own: forks of a session with tool calls cannot go on with the
Messages API. `README.md:37` of the repository has the session store "support
recovery and forks", and `inheritItem` drops the operations of every inherited
status (`state.go:399`, a TODO). `addToolResultToLocalState` returns without a result
when an operation it waits for is unknown (`loop.go:766`), also for a call that had
finished long before the fork; the comment at `loop.go:581` admits it ("Forks leave
inherited calls without results"). `requestUserItems` then fails with "missing
immediately following result for tool call" (`request.go:245`), so the model is
never asked and `Run` ends with the error, in this process and in every later one;
no input and no compaction gets rid of the call (a compaction request itself is
accepted, since it shows a running result for such calls). `RequestsAreAccepted` has this as
its last conjunct, and `RequestsAccepted` proves it. It is not listed as a
disagreement, because the comment at that line says what the code does.

## Not modelled

- Reuse of process numbers by the system; files that are replaced by others of
  the same length while a skill is read.
- What a summary says: an empty one counts like any other. That failed
  compactions may be repeated without end is a hazard without a property.
- Bodies: assembly of messages from deltas, decoding of responses, JSON, tools and
  caching marks of requests; the work on images; bounding of tool output. These
  are functions without state, and their cases are those of their tests.
- The repetition of requests inside of the remote primitive, which no caller uses
  (`RetryPolicy.MaxAttempts` is 1 in both adapters).
- Tool translation and result formatting; listing of sessions; settings; runner
  and TUI beyond the way a process opens a session.
- Tool calls that a fork asks for itself, in the run: the module has them, the
  bounds of `coordinator_loop` do not.
- Two processes that write one session at the same time: the store's interface
  rules it out, and nothing in it would keep their records apart.
- A handler of remote jobs that waits, in a call of the manager, for an update to
  be taken: the manager calls it from its only goroutine.

## Plan

1. Done: all modules of the table above; the proofs of the eight components of
   "What is proved".
2. An abstract operation (ready, awaiting, final once) that the manager
   implements for each of its operations.
