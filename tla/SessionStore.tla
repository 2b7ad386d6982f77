----------------------------- MODULE SessionStore -----------------------------
(***************************************************************************)
(* The local-file session store at the level of records                    *)
(* (harness/sessionstore/localfile): what each call checks and appends,    *)
(* the cached write state it works with, forks, and the replay of a log.   *)
(* SessionFile models how one record reaches the disk; here an append      *)
(* succeeds, or fails with or without the record in the file.              *)
(*                                                                         *)
(* A log is the sequence of the records after the session record.          *)
(***************************************************************************)
EXTENDS Integers, Sequences, FiniteSets, SequencesExt

CONSTANTS
  Sessions,     \* session IDs
  TurnIDs,      \* turn IDs the coordinators may make up
  CallIDs,      \* tool-call IDs
  OperationIDs, \* operation IDs the coordinators may make up
  NoLog, NoHead, NoTurn, \* no file, nothing cached, the empty turn ID
  MaxRecords    \* bound: records of a log

VARIABLES
  logs,   \* session -> its log, or NoLog when there is no file
  cache,  \* writeStateCache: session -> head, or NoHead
  used    \* the turn and operation IDs made up so far (they are UUIDs)

vars == <<logs, cache, used>>

Statuses == {"ready", "finished"}   \* not terminal, terminal

(* Records; seq is the item's Sequence, filled in when it is appended.     *)
InputItem         == [kind |-> "input", seq |-> 0]
TurnItem(t, prev) == [kind |-> "turn", seq |-> 0, turn |-> t, prev |-> prev]
ResponseItem(t)   == [kind |-> "response", seq |-> 0, turn |-> t]
StatusItem(t, c, f) ==
  [kind |-> "status", seq |-> 0, turn |-> t, call |-> c, ops |-> f]
ForkItem(p, t, n) == [kind |-> "fork", seq |-> n, parent |-> p, turn |-> t]
OperationRecord(o, x) == [kind |-> "operation", op |-> o, status |-> x]

StatusMaps == UNION {[S -> Statuses] : S \in SUBSET OperationIDs}
NoOperations == [o \in {} |-> "ready"]

Record ==
  [kind : {"input"}, seq : Nat]
    \cup [kind : {"turn"}, seq : Nat, turn : TurnIDs, prev : TurnIDs \cup {NoTurn}]
    \cup [kind : {"response"}, seq : Nat, turn : TurnIDs]
    \cup [kind : {"status"}, seq : Nat, turn : TurnIDs, call : CallIDs, ops : StatusMaps]
    \cup [kind : {"fork"}, seq : Nat, parent : Sessions, turn : TurnIDs]
    \cup [kind : {"operation"}, op : OperationIDs, status : Statuses]

ASSUME MaxRecordsAssumption == MaxRecords \in Nat
ASSUME NoLogAssumption == NoLog \notin Seq(Record)

IsItem(r) == r.kind # "operation"

(* The items among the first n records of a log.                           *)
ItemsUpTo(log) ==
  LET items[n \in 0 .. Len(log)] ==
        IF n = 0 THEN <<>>
        ELSE IF IsItem(log[n]) THEN Append(items[n - 1], log[n]) ELSE items[n - 1]
  IN  items

ItemsOf(log) == ItemsUpTo(log)[Len(log)]

(* f, and what g has besides.                                              *)
Over(f, g) == [x \in DOMAIN f \cup DOMAIN g |-> IF x \in DOMAIN f THEN f[x] ELSE g[x]]

-----------------------------------------------------------------------------
(* sessionHead and its append methods.                                     *)

NewSessionHead ==
  [seq |-> 0, latest |-> NoTurn, turns |-> {}, owned |-> {}, responded |-> {},
   statuses |-> {}, ops |-> NoOperations]

(* The checks of appendTurn, appendModelResponse, appendToolCallStatus and *)
(* saveOperation.                                                          *)
Accepts(h, r) ==
  CASE r.kind = "input"    -> TRUE
    [] r.kind = "turn"     -> r.prev = h.latest /\ r.turn \notin h.turns
    [] r.kind = "response" -> r.turn \in h.owned /\ r.turn \notin h.responded
    [] r.kind = "status"   -> /\ r.turn \in h.owned
                              /\ \/ <<r.turn, r.call>> \in h.statuses
                                 \/ DOMAIN r.ops \cap DOMAIN h.ops = {}
    [] r.kind = "operation" -> r.op \in DOMAIN h.ops
    [] OTHER -> FALSE

(* What an accepted record does to the head.  Only the first status of a   *)
(* call initializes its operations.                                        *)
Extend(h, r) ==
  CASE r.kind = "input"    -> [h EXCEPT !.seq = @ + 1]
    [] r.kind = "turn"     -> [h EXCEPT !.seq = @ + 1, !.latest = r.turn,
                                        !.turns = @ \cup {r.turn},
                                        !.owned = @ \cup {r.turn}]
    [] r.kind = "response" -> [h EXCEPT !.seq = @ + 1,
                                        !.responded = @ \cup {r.turn}]
    [] r.kind = "status"   ->
         [h EXCEPT !.seq = @ + 1,
                   !.statuses = @ \cup {<<r.turn, r.call>>},
                   !.ops = IF <<r.turn, r.call>> \in h.statuses THEN @ ELSE Over(r.ops, @)]
    [] r.kind = "operation" -> [h EXCEPT !.ops[r.op] = r.status]

(* resetOwnedState: a fork owns nothing of what it inherits.               *)
ResetOwnedState(h) ==
  [h EXCEPT !.owned = {}, !.responded = {}, !.statuses = {}, !.ops = NoOperations]

(* inheritItem: an item up to the fork is taken without checks and without *)
(* its operations.                                                         *)
Inherit(h, r) ==
  CASE r.kind = "turn"     -> [h EXCEPT !.seq = @ + 1, !.latest = r.turn,
                                        !.turns = @ \cup {r.turn},
                                        !.owned = @ \cup {r.turn}]
    [] r.kind = "response" -> [h EXCEPT !.seq = @ + 1,
                                        !.responded = @ \cup {r.turn}]
    [] r.kind = "status"   -> [h EXCEPT !.seq = @ + 1,
                                        !.statuses = @ \cup {<<r.turn, r.call>>}]
    [] r.kind = "fork"     -> ResetOwnedState([h EXCEPT !.seq = @ + 1])
    [] OTHER               -> [h EXCEPT !.seq = @ + 1]

-----------------------------------------------------------------------------
(* decodeLog: what comes up to the last fork is inherited, the rest is     *)
(* replayed with the checks of the append methods.  A record it rejects    *)
(* makes the session unreadable.                                           *)

LastFork(log) ==
  LET forks == {n \in DOMAIN log : log[n].kind = "fork"}
  IN  IF forks = {} THEN 0 ELSE Max(forks)

(* The head after each record, of which those up to fork are inherited.    *)
Heads(log, fork) ==
  LET head[n \in 0 .. Len(log)] ==
        IF n = 0 THEN NewSessionHead
        ELSE IF n <= fork THEN Inherit(head[n - 1], log[n]) ELSE Extend(head[n - 1], log[n])
  IN  head

Decode(log) == Heads(log, LastFork(log))[Len(log)]

Decodable(log) ==
  /\ \A n \in DOMAIN log :
       IsItem(log[n]) => log[n].seq = Len(ItemsUpTo(log)[n])
  /\ \A n \in 1 .. LastFork(log) :
       /\ log[n].kind # "operation"
       /\ log[n].kind = "status" => log[n].ops = NoOperations
  /\ \A n \in LastFork(log) + 1 .. Len(log) :
       Accepts(Heads(log, LastFork(log))[n - 1], log[n])

(* storedState.resume: the operations a restarted coordinator must drive,  *)
(* among them those that ended after the last status that shows them.      *)
Pending(log) ==
  LET last(o) == {n \in DOMAIN log : log[n].kind = "status" /\ o \in DOMAIN log[n].ops}
  IN  {o \in OperationIDs : last(o) # {} /\ log[Max(last(o))].ops[o] # "finished"}

(* Slip: an operation that has ended is done with.                         *)
ResumedUnfinished(log) ==
  LET ops == Decode(log).ops IN {o \in DOMAIN ops : ops[o] # "finished"}

Resumed(log) ==
  LET ops == Decode(log).ops
  IN  {o \in DOMAIN ops : ops[o] # "finished" \/ o \in Pending(log)}

-----------------------------------------------------------------------------
Init ==
  /\ logs = [s \in Sessions |-> NoLog]
  /\ cache = [s \in Sessions |-> NoHead]
  /\ used = {}

(* readState fails for a session without a file.                           *)
Existing == {s \in Sessions : logs[s] # NoLog}

(* loadWriteState: the cached head, or the log decoded.                    *)
WriteState(s) == IF cache[s] # NoHead THEN cache[s] ELSE Decode(logs[s])

(* Slip: a failed append keeps the cached head, whose maps the append has  *)
(* changed already.                                                        *)
AppendFailsKeeping(s, r) ==
  /\ cache' = [cache EXCEPT ![s] =
                 [Extend(WriteState(s), r) EXCEPT !.seq = WriteState(s).seq,
                                                  !.latest = WriteState(s).latest]]
  /\ logs' \in {logs, [logs EXCEPT ![s] = Append(@, r)]}

(* The append reports an error; the record may be in the file all the same.*)
(* The cached head, whose maps were changed, is dropped.                   *)
AppendFails(s, r) ==
  /\ cache' = [cache EXCEPT ![s] = NoHead]
  /\ logs' \in {logs, [logs EXCEPT ![s] = Append(@, r)]}

AppendSucceeds(s, r) ==
  /\ logs' = [logs EXCEPT ![s] = Append(@, r)]
  /\ cache' = [cache EXCEPT ![s] = Extend(WriteState(s), r)]

(* A call whose record the head rejects only leaves the head in the cache. *)
RejectedCall(s) ==
  /\ cache[s] = NoHead
  /\ cache' = [cache EXCEPT ![s] = Decode(logs[s])]
  /\ UNCHANGED <<logs, used>>

(* A call of the store whose record the head accepts.                      *)
Write(s, r) ==
  /\ Len(logs[s]) < MaxRecords
  /\ Accepts(WriteState(s), r)
  /\ LET record == IF IsItem(r) THEN [r EXCEPT !.seq = WriteState(s).seq + 1] ELSE r
     IN  AppendSucceeds(s, record) \/ AppendFails(s, record)

AppendInput(s) ==
  /\ Write(s, InputItem)
  /\ UNCHANGED used

AppendTurn(s, t, prev) ==
  /\ t \notin used
  /\ Write(s, TurnItem(t, prev))
  /\ used' = used \cup {t}

AppendModelResponse(s, t) ==
  /\ Write(s, ResponseItem(t))
  /\ UNCHANGED used

(* The first status of a call: it initializes a new operation.             *)
AppendFirstStatus(s, t, c, o) ==
  /\ o \notin used
  /\ <<t, c>> \notin WriteState(s).statuses
  /\ Write(s, StatusItem(t, c, [x \in {o} |-> "ready"]))
  /\ used' = used \cup {o}

(* A later status of a call shows an operation as the store has it.        *)
AppendLaterStatus(s, t, c, o) ==
  /\ o \in DOMAIN WriteState(s).ops
  /\ \E n \in DOMAIN logs[s] :
       /\ logs[s][n].kind = "status"
       /\ <<logs[s][n].turn, logs[s][n].call>> = <<t, c>>
       /\ o \in DOMAIN logs[s][n].ops
  /\ Write(s, StatusItem(t, c, [x \in {o} |-> WriteState(s).ops[o]]))
  /\ UNCHANGED used

SaveOperation(s, o, x) ==
  /\ Write(s, OperationRecord(o, x))
  /\ UNCHANGED used

(* publishInitialState: the file appears as a whole and its head is        *)
(* cached; an error may come before the file appears, or after it.         *)
Publish(s, log, head) ==
  \/ /\ logs' = [logs EXCEPT ![s] = log]
     /\ cache' = [cache EXCEPT ![s] = head]
  \/ /\ logs' \in {logs, [logs EXCEPT ![s] = log]}
     /\ cache' = [cache EXCEPT ![s] = NoHead]

(* Create replaces a session that exists.                                  *)
Create(s) ==
  /\ Publish(s, <<>>, NewSessionHead)
  /\ UNCHANGED used

(* The last item that belongs to the turn before another turn begins.      *)
Boundary(items, t) ==
  LET first == {n \in DOMAIN items : items[n].kind = "turn" /\ items[n].turn = t}
      later == {n \in DOMAIN items : items[n].kind = "turn" /\ \E m \in first : m < n}
  IN  Max({n \in DOMAIN items :
             /\ items[n].kind \in {"turn", "response", "status"}
             /\ items[n].turn = t
             /\ \A m \in later : n < m})

(* Slip: the inherited statuses keep their operations.                     *)
InheritedItemWithOperations(r) == r

(* inheritItem drops the operations of an inherited status.                *)
InheritedItem(r) == IF r.kind = "status" THEN [r EXCEPT !.ops = NoOperations] ELSE r

(* Fork: the parent's items up to the turn's last one, then the fork.      *)
Fork(s, parent, t) ==
  /\ s # parent
  /\ t \in Decode(logs[parent]).turns
  /\ LET items == ItemsOf(logs[parent])
         kept  == SubSeq(items, 1, Boundary(items, t))
         log   == [n \in DOMAIN kept |-> InheritedItem(kept[n])]
         head  == Heads(kept, Len(kept))[Len(kept)]
     IN  /\ Len(kept) < MaxRecords
         /\ Publish(s, Append(log, ForkItem(parent, t, head.seq + 1)),
                    ResetOwnedState([head EXCEPT !.seq = @ + 1]))
  /\ UNCHANGED used

(* The process ends and another one opens the store.                       *)
Restart ==
  /\ cache' = [s \in Sessions |-> NoHead]
  /\ UNCHANGED <<logs, used>>

Next ==
  \/ \E s \in Sessions : Create(s)
  \/ \E s \in Existing :
       \/ RejectedCall(s)
       \/ AppendInput(s)
       \/ \E t \in TurnIDs, prev \in TurnIDs \cup {NoTurn} : AppendTurn(s, t, prev)
       \/ \E t \in TurnIDs : AppendModelResponse(s, t)
       \/ \E t \in TurnIDs, c \in CallIDs, o \in OperationIDs :
            AppendFirstStatus(s, t, c, o) \/ AppendLaterStatus(s, t, c, o)
       \/ \E o \in OperationIDs, x \in Statuses : SaveOperation(s, o, x)
  \/ \E s \in Sessions, parent \in Existing, t \in TurnIDs : Fork(s, parent, t)
  \/ Restart

Spec == Init /\ [][Next]_vars

-----------------------------------------------------------------------------
(* Properties.                                                             *)

TypeOK ==
  /\ \A s \in Existing :
       /\ Len(logs[s]) <= MaxRecords
       /\ \A n \in DOMAIN logs[s] :
            logs[s][n].kind \in {"input", "turn", "response", "status", "fork", "operation"}
  /\ \A s \in Sessions : cache[s] # NoHead => s \in Existing
  /\ used \subseteq TurnIDs \cup OperationIDs

(* The cached write state is what decoding the file would give, after any  *)
(* mixture of failed appends, forks, replaced sessions and restarts: the   *)
(* next append is checked against the history that is really there and     *)
(* gets the sequence number that follows it.                               *)
CacheCoherent ==
  \A s \in Existing : cache[s] # NoHead => cache[s] = Decode(logs[s])

(* decodeLog accepts every log the store has written, forks of forks       *)
(* included: no session becomes unreadable.                                *)
AlwaysDecodable == \A s \in Existing : Decodable(logs[s])

(* The turn the first n records of a log have arrived at.                  *)
LastTurn(log, n) ==
  LET turns == {m \in 1 .. n : log[m].kind = "turn"}
  IN  IF turns = {} THEN NoTurn ELSE log[Max(turns)].turn

(* In every history, inherited or not, the turns form one chain: each      *)
(* names the one before it, and a fork goes on from the turn it names.     *)
TurnsChained ==
  \A s \in Existing : \A n \in DOMAIN logs[s] :
    /\ logs[s][n].kind = "turn" => logs[s][n].prev = LastTurn(logs[s], n - 1)
    /\ logs[s][n].kind = "fork" => logs[s][n].turn = LastTurn(logs[s], n - 1)

(* The well-formedness of the store: records and cache have their types,   *)
(* the cache agrees with the files, and the turns of a file form a chain.  *)
StoreInv == TypeOK /\ CacheCoherent /\ TurnsChained

(* An operation the session has work in progress for is never lost: what   *)
(* was initialized after the last fork and has not been recorded as        *)
(* finished in a status is resumed.                                        *)
NothingForgotten ==
  \A s \in Existing : \A n \in DOMAIN logs[s] :
    n > LastFork(logs[s]) /\ logs[s][n].kind = "status" =>
      \A o \in DOMAIN logs[s][n].ops :
        \/ o \in Resumed(logs[s])
        \/ \E m \in n .. Len(logs[s]) :
             /\ logs[s][m].kind = "status"
             /\ o \in DOMAIN logs[s][m].ops
             /\ logs[s][m].ops[o] = "finished"

(* An operation is resumed by one session only: a fork inherits the        *)
(* history of its parent but none of its work in progress.                 *)
ResumedOnce ==
  \A s1, s2 \in Existing : s1 # s2 => Resumed(logs[s1]) \cap Resumed(logs[s2]) = {}

(* Work in progress goes on after a restart in exactly one session: it is  *)
(* neither lost nor, by forks and forks of forks, done twice.              *)
WorkResumedOnce == NothingForgotten /\ ResumedOnce

=============================================================================
