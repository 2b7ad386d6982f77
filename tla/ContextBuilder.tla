---------------------------- MODULE ContextBuilder ----------------------------
(***************************************************************************)
(* The context builder (harness/contextbuilder), driven by the items the   *)
(* coordinator applies to it: what a request to the model contains, and    *)
(* what compaction keeps of it.                                            *)
(*                                                                         *)
(* The builder is a value without goroutines; the steps of the coordinator *)
(* that call it are reduced to the calls.  The system message, which is    *)
(* always the first item, is left out, so the index of a checkpoint is one *)
(* less than in the source.                                                *)
(*                                                                         *)
(* A session may begin with the history of another one (a fork).  The fork *)
(* replays the items of its parent up to a turn, but the statuses of the   *)
(* calls come without their operations, and then forgets the calls.  So    *)
(* behaviours begin with any number of inherited segments, each ended by   *)
(* Fork; within them the actions are the items of the parent as the fork   *)
(* applies them.                                                           *)
(***************************************************************************)
EXTENDS Integers, Sequences, SequencesExt

CONSTANTS Inputs,     \* messages: external inputs or heartbeats
          CallIDs,    \* tool calls the model may make
          Usages,     \* token counts a response may report
          Retained,   \* compactionRetainedTokens
          Thresholds, \* what the model's CompactionThreshold may be
          MaxAnswers  \* bound: answers of the model

ASSUME UsageAssumption == Usages \subseteq Nat /\ Thresholds \cup {Retained} \subseteq Nat
ASSUME MaxAnswersAssumption == MaxAnswers \in Nat
ASSUME CallIDsAssumption == IsFiniteSet(CallIDs)

VARIABLES
  committedPrefix,  \* Seq(Item)
  stagedSuffix,     \* Seq(Item)
  prefixTokens,     \* Seq([index, tokens]): one checkpoint for each response
  threshold,        \* request.Model.CompactionThreshold
  asked,            \* the request under way: "none", "regular", "compaction"
  sent,             \* history: the items that request was built from, or {}
  unscheduled,      \* calls of the last response that have no status yet
  running,          \* calls that run
  answers,          \* answers so far
  inherited,        \* the items applied now are what a fork inherits
  turnCalls,        \* if so, the calls of the latest turn, and
  boundary,         \* whether the last item belongs to that turn
  lost,             \* calls whose result the forks do not have
  given,            \* history: everything that was ever added
  summarized        \* history: what the applied summaries were made from

builderVars == <<committedPrefix, stagedSuffix, prefixTokens, threshold>>
forkVars == <<inherited, turnCalls, boundary, lost>>
vars == <<builderVars, asked, sent, unscheduled, running, answers, forkVars, given,
          summarized>>

InputItem(i)      == [kind |-> "input", id |-> i]
AnswerItem(n, S)  == [kind |-> "answer", id |-> n, saw |-> S]
CallItem(c)       == [kind |-> "call", id |-> c]
ResultItem(c, r)  == [kind |-> "result", id |-> c, running |-> r]
SummaryItem       == [kind |-> "summary"]

Context == committedPrefix \o stagedSuffix
Positions(seq, kind) == {p \in DOMAIN seq : seq[p].kind = kind}

(* What the model is told: inputs and final results.                       *)
Told(S) ==
  {x \in S : x.kind = "input" \/ (x.kind = "result" /\ ~x.running)}

-----------------------------------------------------------------------------
(* AddToolResult: a running result that was not submitted yet is replaced. *)
AddToolResult(staged, c, r) ==
  LET at == {p \in Positions(staged, "result") : staged[p] = ResultItem(c, TRUE)}
  IN  IF at # {} THEN [staged EXCEPT ![Min(at)] = ResultItem(c, r)]
      ELSE Append(staged, ResultItem(c, r))

NeedsCompaction ==
  /\ prefixTokens # <<>>
  /\ Last(prefixTokens).tokens >= threshold

(* compactionCutoff: going back from the latest checkpoint, the first of   *)
(* those within the retained budget; everything up to it is summarized.    *)
HasCutoff == prefixTokens # <<>> /\ Last(prefixTokens).tokens > Retained

Cutoff ==
  LET latest == Last(prefixTokens).tokens
      within(k) == latest - prefixTokens[k].tokens <= Retained
  IN  prefixTokens[Min({k \in DOMAIN prefixTokens :
                          \A m \in k .. Len(prefixTokens) : within(m)})].index

(* collectPendingToolCalls: where the calls of a prefix without a final    *)
(* result are.                                                             *)
PendingToolCalls(prefix) ==
  {k \in Positions(prefix, "call") : ~Contains(prefix, ResultItem(prefix[k].id, FALSE))}

ShownRunning(prefix, c) == Contains(prefix, ResultItem(c, TRUE))

(* BuildCompaction: the history up to the cutoff, with a running result    *)
(* for each call that has none.                                            *)
CompactionRequest ==
  LET history == SubSeq(committedPrefix, 1, Cutoff)
      shown(k) == IF k \in PendingToolCalls(history) /\ ~ShownRunning(history, history[k].id)
                  THEN <<ResultItem(history[k].id, TRUE)>>
                  ELSE <<>>
  IN  history \o FlattenSeq([k \in DOMAIN history |-> shown(k)])

(* Slip: calls that run are part of the summary only.                      *)
CarryNothing(prefix) == <<>>

(* carryForwardContext: the pending calls, each with its running result.   *)
CarryForward(prefix) ==
  LET carried(c) == IF ShownRunning(prefix, c)
                    THEN <<CallItem(c), ResultItem(c, TRUE)>>
                    ELSE <<CallItem(c)>>
  IN  FlattenSeq([k \in DOMAIN prefix |->
                    IF k \in PendingToolCalls(prefix) THEN carried(prefix[k].id) ELSE <<>>])

-----------------------------------------------------------------------------
Init ==
  /\ committedPrefix = <<>> /\ stagedSuffix = <<>> /\ prefixTokens = <<>>
  /\ threshold \in Thresholds
  /\ asked = "none" /\ sent = {}
  /\ unscheduled = {} /\ running = {}
  /\ answers = 0
  /\ inherited \in BOOLEAN
  /\ turnCalls = {} /\ boundary = FALSE /\ lost = {}
  /\ given = {} /\ summarized = {}

(* What an item means for forks: forkStoredState takes the items up to the *)
(* last one of the turn it is asked for.                                   *)
InTurn  == boundary' = inherited /\ UNCHANGED turnCalls
OffTurn == boundary' = FALSE /\ UNCHANGED turnCalls
NewTurn(calls) ==
  /\ boundary' = inherited
  /\ turnCalls' = IF inherited THEN calls ELSE {}

Stage(i) ==
  /\ unscheduled = {}
  /\ InputItem(i) \notin given
  /\ stagedSuffix' = Append(stagedSuffix, InputItem(i))
  /\ given' = given \cup {InputItem(i)}
  /\ OffTurn
  /\ UNCHANGED <<committedPrefix, prefixTokens, threshold, unscheduled, running, answers,
                 inherited, lost, summarized>>

(* AddExternalInput.  The coordinator asks the model again, so the request *)
(* under way is interrupted and its answer never taken.                    *)
AddExternalInput(i) ==
  /\ Stage(i)
  /\ asked' = "none" /\ sent' = {}

(* AddControlMessage with a heartbeat, which interrupts nothing.           *)
AddHeartbeat(i) ==
  /\ Stage(i)
  /\ UNCHANGED <<asked, sent>>

(* AddControlMessage with settings: a threshold, and perhaps another model,*)
(* for which the token counts of the old one mean nothing.  The request    *)
(* under way is interrupted, too.                                          *)
UpdateSettings(limit, sameModel) ==
  /\ unscheduled = {}
  /\ threshold' = limit
  /\ prefixTokens' = IF sameModel THEN prefixTokens ELSE <<>>
  /\ asked' = "none" /\ sent' = {}
  /\ OffTurn
  /\ UNCHANGED <<committedPrefix, stagedSuffix, unscheduled, running, answers,
                 inherited, lost, given, summarized>>

Commit ==
  /\ committedPrefix' = Context
  /\ stagedSuffix' = <<>>

(* buildModelRequest and the turn item: a compaction if one is due and     *)
(* possible, or else a regular turn, which commits what is staged.  The    *)
(* coordinator only asks when there is something to answer and no other    *)
(* request is under way.                                                   *)
RequestTurn ==
  /\ unscheduled = {} /\ asked = "none"
  /\ given # {}
  /\ answers < MaxAnswers
  /\ IF NeedsCompaction /\ HasCutoff
     THEN /\ asked' = "compaction"
          /\ sent' = ToSet(CompactionRequest)
          /\ UNCHANGED <<committedPrefix, stagedSuffix>>
     ELSE /\ asked' = "regular"
          /\ sent' = ToSet(Context)
          /\ Commit
  /\ NewTurn({})
  /\ UNCHANGED <<prefixTokens, threshold, unscheduled, running, answers, inherited,
                 lost, given, summarized>>

(* Slip: the answer goes behind what was staged while the model thought.   *)
AddModelResponseLast(output, tokens) ==
  /\ committedPrefix' = Context \o output
  /\ stagedSuffix' = <<>>
  /\ prefixTokens' = Append(prefixTokens,
                            [index |-> Len(committedPrefix'), tokens |-> tokens])

AddModelResponse(output, tokens) ==
  /\ committedPrefix' = committedPrefix \o output
  /\ prefixTokens' = Append(prefixTokens,
                            [index |-> Len(committedPrefix'), tokens |-> tokens])
  /\ UNCHANGED stagedSuffix

(* The answer to a regular turn: a message and tool calls, in some order.  *)
CallLists == UNION {SetToSeqs(S) : S \in SUBSET CallIDs}

RegularAnswer(calls, tokens) ==
  /\ asked = "regular"
  /\ \A c \in ToSet(calls) : CallItem(c) \notin given
  /\ LET output == <<AnswerItem(answers + 1, Told(sent))>>
                     \o [k \in DOMAIN calls |-> CallItem(calls[k])]
     IN  /\ AddModelResponse(output, tokens)
         /\ given' = given \cup ToSet(output)
  /\ unscheduled' = ToSet(calls)
  /\ answers' = answers + 1
  /\ asked' = "none" /\ sent' = {}
  /\ NewTurn(ToSet(calls))
  /\ UNCHANGED <<threshold, running, inherited, lost, summarized>>

(* The first status of a call, in no particular order (scheduleToolCalls   *)
(* ranges over a map): it runs, or its translation has failed.  If it runs *)
(* it waits for operations, which the status that a fork inherits does not *)
(* have: addToolResultToLocalState returns without a result then.          *)
ScheduleCall(c, runs) ==
  /\ c \in unscheduled
  /\ IF runs /\ inherited
     THEN lost' = lost \cup {c} /\ UNCHANGED stagedSuffix
     ELSE stagedSuffix' = AddToolResult(stagedSuffix, c, runs) /\ UNCHANGED lost
  /\ given' = IF runs THEN given ELSE given \cup {ResultItem(c, FALSE)}
  /\ unscheduled' = unscheduled \ {c}
  /\ running' = IF runs THEN running \cup {c} ELSE running
  /\ InTurn
  /\ UNCHANGED <<committedPrefix, prefixTokens, threshold, asked, sent, answers,
                 inherited, summarized>>

CallFinishes(c) ==
  /\ unscheduled = {}
  /\ c \in running
  /\ IF c \in lost
     THEN UNCHANGED <<stagedSuffix, given>>
     ELSE /\ stagedSuffix' = AddToolResult(stagedSuffix, c, FALSE)
          /\ given' = given \cup {ResultItem(c, FALSE)}
  /\ running' = running \ {c}
  /\ boundary' = (c \in turnCalls)
  /\ UNCHANGED <<committedPrefix, prefixTokens, threshold, asked, sent, unscheduled,
                 answers, inherited, turnCalls, lost, summarized>>

Compacted(prefix) ==
  <<SummaryItem>> \o CarryForward(SubSeq(prefix, 1, Cutoff))
    \o SubSeq(prefix, Cutoff + 1, Len(prefix))

(* Slip: what is staged is forgotten.                                      *)
CompactCommitted ==
  /\ committedPrefix' = Compacted(committedPrefix)
  /\ stagedSuffix' = <<>>
  /\ prefixTokens' = <<>>
  /\ UNCHANGED threshold

(* Compact: a new builder with the summary, the pending calls and what     *)
(* comes after the cutoff, without checkpoints.                            *)
Compact ==
  /\ committedPrefix' = Compacted(committedPrefix)
  /\ prefixTokens' = <<>>
  /\ UNCHANGED <<stagedSuffix, threshold>>

(* applyCompactionResponse: only a complete answer is used.                *)
CompactionAnswer(complete) ==
  /\ asked = "compaction"
  /\ IF complete /\ HasCutoff
     THEN Compact /\ summarized' = summarized \cup sent
     ELSE UNCHANGED <<builderVars, summarized>>
  /\ answers' = answers + 1
  /\ asked' = "none" /\ sent' = {}
  /\ InTurn
  /\ UNCHANGED <<unscheduled, running, inherited, lost, given>>

(* The fork item, behind the last item of the latest turn: the calls that  *)
(* were scheduled or were to be are forgotten, and so is the request.  The *)
(* items that follow may again be inherited, by a fork of this fork.       *)
Fork ==
  /\ inherited /\ boundary
  /\ lost' = lost \cup unscheduled
  /\ unscheduled' = {} /\ running' = {}
  /\ asked' = "none" /\ sent' = {}
  /\ inherited' \in BOOLEAN
  /\ boundary' = FALSE /\ turnCalls' = {}
  /\ UNCHANGED <<builderVars, answers, given, summarized>>

Next ==
  \/ \E i \in Inputs : AddExternalInput(i) \/ AddHeartbeat(i)
  \/ \E limit \in Thresholds, sameModel \in BOOLEAN : UpdateSettings(limit, sameModel)
  \/ RequestTurn
  \/ \E calls \in CallLists, tokens \in Usages : RegularAnswer(calls, tokens)
  \/ \E c \in CallIDs, runs \in BOOLEAN : ScheduleCall(c, runs)
  \/ \E c \in CallIDs : CallFinishes(c)
  \/ \E complete \in BOOLEAN : CompactionAnswer(complete)
  \/ Fork

Spec == Init /\ [][Next]_vars

-----------------------------------------------------------------------------
(* Properties.                                                             *)

(* The calls a fork has no result of are not the ones it runs.             *)
LostApart ==
  /\ lost \subseteq CallIDs \ unscheduled
  /\ IF inherited THEN running \subseteq lost ELSE running \cap lost = {}

TypeOK ==
  /\ threshold \in Thresholds
  /\ asked \in {"none", "regular", "compaction"}
  /\ unscheduled \subseteq CallIDs
  /\ running \subseteq CallIDs \ unscheduled
  /\ LostApart
  /\ \A k \in DOMAIN prefixTokens :
       /\ prefixTokens[k].index \in 1 .. Len(committedPrefix)
       /\ k > 1 => prefixTokens[k - 1].index < prefixTokens[k].index

(* No input, answer, call or final result gets lost: it is in the context  *)
(* once, or was in a request whose complete answer has become the summary. *)
(* (The results of calls that a fork inherits are never given to it.)      *)
NothingLost ==
  \A x \in given :
    LET at == {p \in DOMAIN Context : Context[p] = x}
    IN  /\ \A p, q \in at : p = q
        /\ at = {} => x \in summarized

(* A call that runs is in the context, so that its result can be added, no *)
(* matter how often the history around it was summarized.                  *)
RunningCallsStay ==
  \A c \in running \ lost : Contains(Context, CallItem(c)) /\ ShownRunning(Context, c)

(* The well-formedness of the builder: checkpoints are positions of the    *)
(* history, in order, and the calls that run are part of it.               *)
BuilderInv == TypeOK /\ RunningCallsStay

(* An answer stands behind the inputs and results it was given and before  *)
(* all others: what arrives while the model thinks, and what an            *)
(* interrupted turn had committed, is not taken for something it answers.  *)
AnswersFollowTheirInputs ==
  \A p \in Positions(Context, "answer") :
    /\ Told(ToSet(SubSeq(Context, 1, p))) \subseteq Context[p].saw
    /\ Told(ToSet(SubSeq(Context, p, Len(Context)))) \cap Context[p].saw = {}

=============================================================================
