----------------------------- MODULE ModelRequests -----------------------------
(***************************************************************************)
(* The context builder composed with the conversions of its requests to    *)
(* the two provider APIs: what is sent is what the providers accept.       *)
(***************************************************************************)
EXTENDS ContextBuilder, MessagesRequest

(* What the coordinator would send now: the history up to the cutoff with  *)
(* the instruction to summarize it, or the whole context.  While the items *)
(* that a fork inherits are replayed, nothing is sent.                     *)
Instruction == [kind |-> "instruction"]

NextRequest ==
  IF NeedsCompaction /\ HasCutoff THEN Append(CompactionRequest, Instruction)
  ELSE Context

MayRequest == unscheduled = {} /\ asked = "none" /\ given # {} /\ ~inherited

-----------------------------------------------------------------------------
(* Properties.                                                             *)

(* The blocks of a type in the n-th message, if there is one, and what     *)
(* calls they are about.                                                   *)
Typed(messages, n, type) ==
  IF n \in DOMAIN messages
  THEN {k \in DOMAIN messages[n].blocks : messages[n].blocks[k].type = type}
  ELSE {}

TypedIDs(messages, n, type) ==
  {messages[n].blocks[k].item.id : k \in Typed(messages, n, type)}

(* The Messages API: turns alternate, and behind a turn with calls is one  *)
(* that begins with exactly one result for each of them; there are no      *)
(* other results.                                                          *)
AnsweredTurns(messages) ==
  \A m \in DOMAIN messages :
    /\ m > 1 => messages[m].role # messages[m - 1].role
    /\ TypedIDs(messages, m, "tool_use") = TypedIDs(messages, m + 1, "tool_result")
    /\ Typed(messages, m + 1, "tool_result") = 1 .. Cardinality(Typed(messages, m, "tool_use"))
    /\ Typed(messages, 1, "tool_result") = {}

(* The Responses API takes the items one by one: a result comes after its  *)
(* call, every call has one, and none follows the final one.               *)
NativeHistory(seq) ==
  /\ \A p \in Positions(seq, "result") :
       \E q \in Positions(seq, "call") : q < p /\ seq[q].id = seq[p].id
  /\ \A q \in Positions(seq, "call") :
       \E p \in Positions(seq, "result") : q < p /\ seq[p].id = seq[q].id
  /\ \A p, q \in Positions(seq, "result") :
       seq[p].id = seq[q].id /\ ~seq[p].running => q <= p

(* What the coordinator can send is such a history, unless the session is  *)
(* a fork that has inherited a call without its result.                    *)
NativeRequests == MayRequest /\ lost = {} => NativeHistory(NextRequest)

(* In a session that has not lost a result by a fork, every request the    *)
(* coordinator can build, regular or compaction, with calls that run       *)
(* across any number of compactions, is one both providers accept;         *)
(* requestInput finds no error in it and sends every item as one block, so *)
(* that no late or repeated result is dropped.  But "forks leave inherited *)
(* calls without results" (loop.go): a fork that inherits one call that    *)
(* waits for operations, finished or not, has no regular request that      *)
(* requestInput takes, ever, since no compaction gets rid of the call.     *)
RequestsAreAccepted ==
  /\ NativeRequests
  /\ MayRequest /\ lost = {} =>
    LET request == NextRequest
        input == RequestInput(request)
        wire == Wire(input.messages)
    IN  /\ input.ok
        /\ AnsweredTurns(input.messages)
        /\ Len(wire) = Len(request)
        /\ {wire[k].block.item : k \in DOMAIN wire} = ToSet(request)
  /\ MayRequest /\ lost # {} => ~RequestInput(Context).ok

(* "later updates must not rewrite history" (request.go): the messages     *)
(* made of what was sent before, with its answers, are a prefix of those   *)
(* of the next regular request, whatever results have arrived since (if no *)
(* fork has lost a result, without which there is no such request).        *)
HistoryNotRewritten ==
  MayRequest /\ lost = {} =>
    LET earlier == {prefixTokens[k].index : k \in DOMAIN prefixTokens}
                     \cup {Len(committedPrefix)}
        next == Wire(ConvertTurns(Context).messages)
    IN  \A n \in earlier :
          LET before == Wire(ConvertTurns(SubSeq(Context, 1, n)).messages)
          IN  IsPrefix(before, next)

=============================================================================
