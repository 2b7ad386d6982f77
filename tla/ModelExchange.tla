----------------------------- MODULE ModelExchange -----------------------------
(***************************************************************************)
(* The exchange of an LLM adapter with its provider: exchange and          *)
(* exchangeAttempt of harness/llm/messagesapi (exchange.go) and of         *)
(* harness/llm/responsesapi (stream.go), over the remote request and timer *)
(* primitives.  The requests and the backoff timers of all attempts send   *)
(* on one channel, from which the adapter takes whatever comes next.       *)
(*                                                                         *)
(* A status is "stream" (2xx with an event stream), "plain" (2xx with      *)
(* another content type), "retryable" or "fatal".  An output is what       *)
(* observe makes of it:                                                    *)
(*   delta         part of an answer, or nothing the adapter looks at;     *)
(*   stop          message_stop, or response.completed or .incomplete;     *)
(*   hollow        response.completed without a response;                  *)
(*   failed_retry, failed_fatal  response.failed with such an error;       *)
(*   error_retry, error_fatal    an error event with such an error;        *)
(*   malformed     not what the protocol allows, or a body over the limit. *)
(***************************************************************************)
EXTENDS RemoteRequest, FiniteSets

CONSTANTS Adapters,    \* subset of {"messages", "responses"}
          MaxAttempts  \* adapter.maxAttempts

ASSUME MaxAttemptsAssumption == MaxAttempts \in Nat \ {0} /\ Attempts = 1 .. MaxAttempts
ASSUME KindsAssumption ==
  /\ Adapters \subseteq {"messages", "responses"}
  /\ Statuses \subseteq {"stream", "plain", "retryable", "fatal"}
  /\ Frames \subseteq {"delta", "stop", "hollow", "failed_retry", "failed_fatal",
                       "error_retry", "error_fatal", "malformed"}

VARIABLES
  adapter,   \* which of the two it is
  pc,        \* "begin", "attempt", "backoff", "returned"
  attempt,   \* the number of the attempt
  status,    \* result.status, "none" before a response
  decided,   \* the output that settled the attempt, or "none"
  outcome,   \* what exchange returns: "answer", "failure", "canceled"
  said       \* history: what the server said in each attempt: the status,
             \* and the first output that settles it

adapterVars == <<adapter, pc, attempt, status, decided, outcome, said>>
vars == <<remoteVars, adapterVars>>

Init ==
  /\ RemoteInit
  /\ adapter \in Adapters
  /\ pc = "begin" /\ attempt = 0
  /\ status = "none" /\ decided = "none"
  /\ outcome = "none"
  /\ said = [a \in Attempts |-> [status |-> "none", output |-> "none"]]

Return(result) == pc' = "returned" /\ outcome' = result

(* The head of the loop of exchange, and SendRequest.                      *)
Begin ==
  /\ pc = "begin"
  /\ IF canceled
     THEN /\ Return("canceled")
          /\ UNCHANGED <<attempt, status, decided, remote>>
     ELSE /\ pc' = "attempt"
          /\ attempt' = attempt + 1
          /\ status' = "none" /\ decided' = "none"
          /\ remote' = [remote EXCEPT ![attempt'].pc = "begin"]
          /\ UNCHANGED outcome
  /\ UNCHANGED <<adapter, canceled, aborted, timer, said>>

-----------------------------------------------------------------------------
(* The observe of each adapter: the events that end a stream for it, or    *)
(* break it off.  Types that it does not know are ignored.                 *)
MessagesObserve(frame) == frame \in {"stop", "error_retry", "error_fatal", "malformed"}
ResponsesObserve(frame) == frame # "delta"

(* Which outputs settle an attempt: the body of an error response is only  *)
(* collected, up to a limit.                                               *)
Settles(frame) ==
  IF status \in {"retryable", "fatal"} THEN frame = "malformed"
  ELSE IF adapter = "messages" THEN MessagesObserve(frame)
  ELSE ResponsesObserve(frame)

(* The Messages adapter cancels the request of a settled attempt; it still *)
(* waits for the last event.  The Responses adapter lets it go on.         *)
Abort(a, settled) ==
  aborted' = IF adapter = "messages" /\ settled THEN aborted \cup {a} ELSE aborted

(* What a response has settled when it starts: the Messages adapter        *)
(* insists on an event stream, and even for an error on a content type     *)
(* that it can parse.                                                      *)
StartSettles(answer) ==
  IF adapter # "messages" \/ answer = "stream" THEN {decided}
  ELSE IF answer = "plain" THEN {"malformed"}
  ELSE {decided, "malformed"}

(* A response starts.                                                      *)
ReceiveStarted(a) ==
  /\ pc = "attempt" /\ remote[a].pc = "send" /\ remote[a].ev.type = "started"
  /\ status' = remote[a].ev.value
  /\ decided' \in StartSettles(status')
  /\ Abort(attempt, decided' # "none")
  /\ remote' = [remote EXCEPT ![a] = RequestAfter(@)]
  /\ said' = [said EXCEPT ![a].status = status']
  /\ UNCHANGED <<adapter, canceled, timer, pc, attempt, outcome>>

(* Slip: a settled attempt is left before its request has ended.           *)
ReceiveOutputAndLeave(a) ==
  /\ pc = "attempt" /\ remote[a].pc = "send" /\ remote[a].ev.type = "output"
  /\ decided' = IF Settles(remote[a].ev.value) THEN remote[a].ev.value ELSE decided
  /\ pc' = IF decided' = "error_retry" /\ attempt < MaxAttempts THEN "begin" ELSE pc
  /\ Abort(attempt, decided' # "none")
  /\ remote' = [remote EXCEPT ![a] = RequestAfter(@)]
  /\ UNCHANGED <<adapter, canceled, timer, attempt, status, outcome, said>>

(* An output; once the attempt is settled, it is ignored.                  *)
ReceiveOutput(a) ==
  /\ pc = "attempt" /\ remote[a].pc = "send" /\ remote[a].ev.type = "output"
  /\ LET frame == remote[a].ev.value
     IN  /\ decided' = IF decided = "none" /\ Settles(frame) THEN frame ELSE decided
         /\ said' = IF said[a].output = "none" /\ Settles(frame)
                    THEN [said EXCEPT ![a].output = frame] ELSE said
  /\ Abort(attempt, decided' # "none")
  /\ remote' = [remote EXCEPT ![a] = RequestAfter(@)]
  /\ UNCHANGED <<adapter, canceled, timer, pc, attempt, status, outcome>>

(* Any event that neither adapter looks at.                                *)
ReceiveIgnored(a) ==
  /\ pc = "attempt"
  /\ remote[a].pc = "send" /\ remote[a].ev.type = "stream_failed"
  /\ remote' = [remote EXCEPT ![a] = RequestAfter(@)]
  /\ UNCHANGED <<adapterVars, canceled, aborted, timer>>

(* Slip: a context that has ended outranks the answer.                     *)
CanceledFirst(last) ==
  IF canceled THEN "canceled"
  ELSE IF decided = "stop" THEN "answer"
  ELSE IF decided \in {"failed_retry", "error_retry"} THEN "retry"
  ELSE IF decided # "none" \/ status = "fatal" THEN "failure" ELSE "retry"

(* Slip: a failed request may always be repeated.                          *)
FailureFirst(last) == IF last = "failed" THEN "retry" ELSE CanceledFirst(last)

(* The switch at the end of exchangeAttempt: what the attempt has come to. *)
(* "retry" is a failure after which the request may be repeated.           *)
Verdict(last) ==
  IF decided \in {"malformed", "hollow", "failed_fatal"} THEN "failure"
  ELSE IF decided = "stop" THEN "answer"
  ELSE IF decided = "failed_retry" THEN "retry"
  ELSE IF canceled THEN "canceled"
  ELSE IF decided = "error_retry" THEN "retry"
  ELSE IF decided = "error_fatal" THEN "failure"
  ELSE IF status = "retryable" THEN "retry"
  ELSE IF status = "fatal" THEN "failure"
  ELSE IF last = "canceled" THEN "canceled"
  ELSE "retry"                      \* a failed request or a stream that just ends

(* The last event of a request: return, or repeat it after a while.        *)
ReceiveLast(a) ==
  /\ pc = "attempt" /\ remote[a].pc = "terminal"
  /\ LET verdict == Verdict(remote[a].ev.type)
     IN  IF verdict # "retry" \/ attempt >= MaxAttempts
         THEN /\ Return(IF verdict = "retry" THEN "failure" ELSE verdict)
              /\ UNCHANGED timer
         ELSE IF canceled
         THEN Return("canceled") /\ UNCHANGED timer
         ELSE /\ pc' = "backoff"
              /\ timer' = [timer EXCEPT ![attempt].pc = "wait"]
              /\ UNCHANGED outcome
  /\ aborted' = IF adapter = "messages" THEN aborted \cup {attempt} ELSE aborted
  /\ remote' = [remote EXCEPT ![a] = RequestAfter(@)]
  /\ UNCHANGED <<adapter, canceled, attempt, status, decided, said>>

(* The event the backoff waits for, which is taken for that of the timer.  *)
ReceiveTimer(a) ==
  /\ pc = "backoff" /\ timer[a].pc = "terminal"
  /\ IF timer[a].ev.type = "fired"
     THEN pc' = "begin" /\ UNCHANGED outcome
     ELSE Return("canceled")
  /\ timer' = [timer EXCEPT ![a] = [NoTimer EXCEPT !.pc = "done"]]
  /\ UNCHANGED <<remote, canceled, aborted, adapter, attempt, status, decided, said>>

(* The coordinator interrupts the model.                                   *)
Cancel ==
  /\ ~canceled /\ pc # "returned"
  /\ canceled' = TRUE
  /\ UNCHANGED <<aborted, remote, timer, adapterVars>>

Receive(a) ==
  ReceiveStarted(a) \/ ReceiveOutput(a) \/ ReceiveIgnored(a) \/ ReceiveLast(a) \/ ReceiveTimer(a)

Next ==
  \/ Begin
  \/ \E a \in Attempts : Receive(a)
  \/ \E a \in Attempts :
       /\ ServerStep(a) \/ RemoteStep(a) \/ TimerStep(a)
       /\ UNCHANGED adapterVars
  \/ Cancel

Spec == Init /\ [][Next]_vars

(* Goroutines run, timers fire, calls into net/http notice that their      *)
(* context has ended.  Nothing is assumed of the server and the network.   *)
FairSpec ==
  /\ Spec
  /\ WF_vars(Begin)
  /\ \A a \in Attempts :
       /\ WF_vars(Receive(a))
       /\ WF_vars(RemoteStep(a) /\ UNCHANGED adapterVars)
       /\ WF_vars(InterruptedCall(a) /\ UNCHANGED adapterVars)
       /\ WF_vars(TimerStep(a) /\ UNCHANGED adapterVars)

-----------------------------------------------------------------------------
(* Properties.                                                             *)

TypeOK ==
  /\ RemoteTypeOK
  /\ adapter \in Adapters
  /\ pc \in {"begin", "attempt", "backoff", "returned"}
  /\ attempt \in 0 .. MaxAttempts
  /\ status \in Statuses \cup {"none"} /\ decided \in (Frames \ {"delta"}) \cup {"none", "malformed"}
  /\ outcome \in {"none", "answer", "failure", "canceled"}
  /\ said \in [Attempts -> [status : Statuses \cup {"none"}, output : Frames \cup {"none"}]]

(* The channel is shared, but whoever may send on it belongs to what the   *)
(* adapter waits for: no event of an earlier attempt or backoff is taken   *)
(* for one of this, and no goroutine is left blocked when exchange returns.*)
OneProducer ==
  /\ {a \in Attempts : Live(remote[a])} = IF pc = "attempt" THEN {attempt} ELSE {}
  /\ {a \in Attempts : Live(timer[a])} = IF pc = "backoff" THEN {attempt} ELSE {}

(* Before the response of a request there is nothing to go by.             *)
Unanswered(r) == r.pc \in {"begin", "do"} \/ (r.pc = "send" /\ r.ev.type = "started")

(* What the adapter goes by is what the server said in this attempt, and   *)
(* for a response with a content type that is not the right one, whose     *)
(* outputs are not looked at, that.                                        *)
Observed ==
  /\ pc = "begin" => attempt < MaxAttempts
  /\ pc \in {"attempt", "backoff"} => attempt > 0
  /\ pc = "backoff" => attempt < MaxAttempts
  /\ pc # "returned" => outcome = "none"
  /\ \A a \in Attempts : a > attempt =>
       remote[a] = NoRequest /\ said[a] = [status |-> "none", output |-> "none"]
  /\ pc = "attempt" =>
       /\ said[attempt].status = status
       /\ \/ decided = said[attempt].output
          \/ /\ decided = "malformed" /\ said[attempt].output = "none"
             /\ attempt \in aborted
       /\ status \in {"retryable", "fatal"} => decided \in {"none", "malformed"}
       /\ Unanswered(remote[attempt]) => status = "none" /\ decided = "none"

(* The well-formedness of an exchange: an inductive invariant.             *)
ExchangeInv == TypeOK /\ EventsMatch /\ OneProducer /\ Observed

(* An answer that was received is returned and nothing asked again, even   *)
(* if the context ends, the connection fails or the idle timer fires       *)
(* before the request is over; and no other answer is returned.            *)
AnswersAreKept ==
  /\ \A a \in Attempts : said[a].output = "stop" =>
       /\ a = attempt /\ pc \in {"attempt", "returned"}
       /\ pc = "returned" => outcome = "answer"
  /\ outcome = "answer" => said[attempt].output = "stop"

(* A request is repeated only if all before it were answered with an error *)
(* that may pass, or not at all: retryableResponseError and the transport. *)
RetriesAreJustified ==
  \A a \in Attempts : a < attempt \/ (pc \in {"backoff", "begin"} /\ a = attempt) =>
    /\ said[a].status # "fatal"
    /\ said[a].output \in {"none", "failed_retry", "error_retry"}

(* Respond returns, whether the server stalls, fails or breaks off: the    *)
(* idle timeout ends every wait and attempts are bounded.  A stream is,    *)
(* too, by MaxFrames: nothing in exchange.go or remote.go ends one that    *)
(* goes on within the idle timeout.                                        *)
ExchangeReturns == <>(pc = "returned")

=============================================================================
