---------------------------- MODULE MessagesRequest ----------------------------
(***************************************************************************)
(* The conversion of a history into the messages of the Messages API       *)
(* (harness/llm/messagesapi/request.go, requestInput).  The harness keeps  *)
(* a flat list of items in which results stand where they arrived, and a   *)
(* call may have several: that it runs, and later how it ended.  The API   *)
(* wants turns of alternating roles, and one result for each call in the   *)
(* turn that follows it.                                                   *)
(*                                                                         *)
(* An item is a record with a kind, and an id for calls and results; a     *)
(* block is the item it was made from with the type it is sent as.  The    *)
(* system message, always the first item, goes elsewhere and is left out.  *)
(***************************************************************************)
EXTENDS Integers, Sequences, SequencesExt

(* requestItemRole.  A summary and an input are messages of the user.      *)
ItemRole(item) ==
  IF item.kind \in {"answer", "call"} THEN "assistant" ELSE "user"

Block(type, item) == [type |-> type, item |-> item]

(* Where the turn that holds an item begins: a turn is a maximal run of    *)
(* items of one role, and becomes one message.                             *)
TurnStart(items, p) ==
  Min({b \in 1 .. p : \A q \in b .. p : ItemRole(items[q]) = ItemRole(items[p])})

(* The elements of S among 1 .. n in ascending order, as a loop over the   *)
(* items of a turn that appends some of them finds them.                   *)
InOrder(S, n) ==
  LET upTo[k \in 0 .. n] ==
        IF k = 0 THEN <<>>
        ELSE IF k \in S THEN Append(upTo[k - 1], k) ELSE upTo[k - 1]
  IN  upTo[n]

CallsAt(items) == InOrder({p \in DOMAIN items : items[p].kind = "call"}, Len(items))

(* The turn of the assistant: its calls are known and pending from here.   *)
AssistantTurn(state, items) ==
  LET made == [k \in DOMAIN CallsAt(items) |-> items[CallsAt(items)[k]].id]
      block(item) == Block(IF item.kind = "call" THEN "tool_use" ELSE "text", item)
  IN  [state EXCEPT
        !.ok       = @ /\ IsInjective(made) /\ ToSet(made) \cap state.calls = {},
        !.calls    = @ \cup ToSet(made),
        !.pending  = @ \o made,
        !.messages = Append(@, [role |-> "assistant",
                                blocks |-> [k \in DOMAIN items |-> block(items[k])]])]

(* Slip: any result of a pending call answers it, and the last one stands. *)
AnsweringLast(state, items) ==
  {p \in DOMAIN items :
     /\ items[p].kind = "result"
     /\ items[p].id \notin state.answered
     /\ \A q \in p + 1 .. Len(items) : items[q].kind = "result" => items[q].id # items[p].id}

(* The positions of the results that answer a call: the first of each.     *)
Answering(state, items) ==
  {p \in DOMAIN items :
     /\ items[p].kind = "result"
     /\ items[p].id \notin state.answered
     /\ \A q \in 1 .. p - 1 : items[q].kind = "result" => items[q].id # items[p].id}

(* Slip: results are taken where they arrived.                             *)
UserTurnAsArrived(state, items) ==
  LET results == Answering(state, items)
      block(p) == Block(IF p \in results THEN "tool_result" ELSE "text", items[p])
  IN  [state EXCEPT
        !.answered = @ \cup {items[p].id : p \in results},
        !.pending  = <<>>,
        !.messages = Append(@, [role |-> "user",
                                blocks |-> [p \in DOMAIN items |-> block(p)]])]

(* requestUserItems: the results that answer the pending calls, in the     *)
(* order of the calls, and then everything else as text.                   *)
UserTurn(state, items) ==
  LET results == Answering(state, items)
      position(c) == CHOOSE p \in results : items[p].id = c
      rest == InOrder(DOMAIN items \ results, Len(items))
      answered == {items[p].id : p \in results}
  IN  IF /\ \A p \in DOMAIN items : items[p].kind = "result" => items[p].id \in state.calls
         /\ ToSet(state.pending) \subseteq answered
      THEN [state EXCEPT
             !.answered = @ \cup answered,
             !.pending  = <<>>,
             !.messages = Append(@,
               [role |-> "user",
                blocks |-> [k \in DOMAIN state.pending |->
                              Block("tool_result", items[position(state.pending[k])])]
                           \o [k \in DOMAIN rest |-> Block("text", items[rest[k]])]])]
      ELSE [state EXCEPT !.ok = FALSE]

(* The loop of requestInput over the turns, which an error ends: after[p]  *)
(* is what it has made of the first p items.                               *)
NothingConverted ==
  [ok |-> TRUE, calls |-> {}, answered |-> {}, pending |-> <<>>, messages |-> <<>>]

ConvertTurn(state, turn) ==
  IF ~state.ok THEN state
  ELSE IF ItemRole(Head(turn)) = "assistant" THEN AssistantTurn(state, turn)
  ELSE UserTurn(state, turn)

ConvertTurns(items) ==
  LET after[p \in 0 .. Len(items)] ==
        IF p = 0 THEN NothingConverted
        ELSE LET start == TurnStart(items, p)
             IN  ConvertTurn(after[start - 1], SubSeq(items, start, p))
  IN  after[Len(items)]

(* requestInput: whether there is no error, and the messages.              *)
RequestInput(items) ==
  LET converted == ConvertTurns(items)
  IN  [ok |-> converted.ok /\ converted.pending = <<>> /\ converted.messages # <<>>,
       messages |-> converted.messages]

(* The blocks of the messages with the role each is sent in: the text that *)
(* a provider caches from one request to the next.                         *)
SentIn(message) ==
  [k \in DOMAIN message.blocks |-> [role |-> message.role, block |-> message.blocks[k]]]

Wire(messages) ==
  LET upTo[m \in 0 .. Len(messages)] ==
        IF m = 0 THEN <<>> ELSE upTo[m - 1] \o SentIn(messages[m])
  IN  upTo[Len(messages)]

=============================================================================
