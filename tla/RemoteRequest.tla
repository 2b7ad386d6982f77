----------------------------- MODULE RemoteRequest -----------------------------
(***************************************************************************)
(* The remote request primitive (harness/primitives/remote.go) and the     *)
(* timer primitive (timer.go): one goroutine for each request or timer,    *)
(* all of which send on one unbuffered channel of their caller.            *)
(*                                                                         *)
(* The primitive can repeat a request itself; both callers allow it one    *)
(* attempt (RetryPolicy.MaxAttempts = 1) and repeat the request as a whole,*)
(* so its own loop is left out.  Data is reduced to what tells the caller  *)
(* what to do next.                                                        *)
(***************************************************************************)
EXTENDS Integers

CONSTANTS Attempts,  \* 1 .. the adapter's maxAttempts
          Statuses,  \* kinds of response status and content type
          Frames,    \* kinds of output: an SSE frame or a chunk of a body
          MaxFrames  \* bound: outputs of one request

ASSUME MaxFramesAssumption == MaxFrames \in Nat

VARIABLES
  canceled,  \* ctx of the exchange is done
  aborted,   \* requests whose own context their caller has canceled
  remote,    \* [Attempts -> the goroutine of the request]
  timer      \* [Attempts -> the goroutine of the backoff after the request]

remoteVars == <<canceled, aborted, remote, timer>>

Event(type, value) == [type |-> type, value |-> value]
NoEvent == Event("none", "none")

(* pc: where runRemoteRequest stands; idle: the idle timer; ev: the event  *)
(* it sends; err: the error of the attempt is not nil; frames: a count.    *)
NoRequest == [pc |-> "none", idle |-> "paused", ev |-> NoEvent, err |-> FALSE, frames |-> 0]
NoTimer == [pc |-> "none", ev |-> NoEvent]

RemoteInit ==
  /\ canceled = FALSE /\ aborted = {}
  /\ remote = [a \in Attempts |-> NoRequest]
  /\ timer = [a \in Attempts |-> NoTimer]

(* The context a request was given is done.                                *)
Stopped(a) == canceled \/ a \in aborted

Live(g) == g.pc \notin {"none", "done"}

-----------------------------------------------------------------------------
(* sendRemoteEvent: not when the context is done already.                  *)
Sending(a, r, event) ==
  IF Stopped(a) THEN [r EXCEPT !.pc = "ended", !.err = TRUE]
  ELSE [r EXCEPT !.pc = "send", !.ev = event]

Ending(r, event) == [r EXCEPT !.pc = "terminal", !.ev = event]

(* pause: the idle timer may have fired by the time it is stopped.         *)
Paused(r) ==
  {[r EXCEPT !.idle = i] : i \in IF r.idle = "fired" THEN {"fired"} ELSE {"paused", "fired"}}

(* The request cannot be made, its context is done, or it goes out.        *)
BeginRequest(a) ==
  /\ remote[a].pc = "begin"
  /\ \/ remote' = [remote EXCEPT ![a] = Ending(@, Event("failed", "none"))]
     \/ /\ Stopped(a)
        /\ remote' = [remote EXCEPT ![a] = Ending(@, Event("canceled", "none"))]
     \/ /\ ~Stopped(a)
        /\ remote' = [remote EXCEPT ![a] = [@ EXCEPT !.pc = "do", !.idle = "armed"]]
  /\ UNCHANGED <<canceled, aborted, timer>>

(* client.Do returns an error.  It has to when the context is done or the  *)
(* idle timer has fired, and may at any time.                              *)
DoFails(a) ==
  /\ remote[a].pc = "do"
  /\ remote' = [remote EXCEPT ![a] = [@ EXCEPT !.pc = "ended", !.err = TRUE]]
  /\ UNCHANGED <<canceled, aborted, timer>>

DoResponds(a, status) ==
  /\ remote[a].pc = "do"
  /\ \E r \in Paused(remote[a]) :
       remote' = [remote EXCEPT ![a] = Sending(a, r, Event("started", status))]
  /\ UNCHANGED <<canceled, aborted, timer>>

(* The body yields a frame or a chunk.                                     *)
ReadOutput(a, frame) ==
  /\ remote[a].pc = "read"
  /\ remote[a].frames < MaxFrames
  /\ \E r \in Paused([remote[a] EXCEPT !.frames = @ + 1]) :
       remote' = [remote EXCEPT ![a] = Sending(a, r, Event("output", frame))]
  /\ UNCHANGED <<canceled, aborted, timer>>

(* The body ends: with EOF, or with an error of the connection or a frame  *)
(* that exceeds the limit.  streamRemoteResponse returns.                  *)
ReadEnds(a, failed) ==
  /\ remote[a].pc = "read"
  /\ \E r \in Paused(remote[a]) :
       remote' = [remote EXCEPT ![a] =
                    [r EXCEPT !.pc = IF failed THEN "failing" ELSE "ended", !.err = failed]]
  /\ UNCHANGED <<canceled, aborted, timer>>

(* The caller does not take the event in time: the context ends first.     *)
SendGivesUp(a) ==
  /\ remote[a].pc = "send" /\ Stopped(a)
  /\ remote' = [remote EXCEPT ![a] = [@ EXCEPT !.pc = "ended", !.ev = NoEvent, !.err = TRUE]]
  /\ UNCHANGED <<canceled, aborted, timer>>

(* Behind a stream that failed, its failure is announced before the end.   *)
AnnounceFailure(a) ==
  /\ remote[a].pc = "failing"
  /\ remote' = [remote EXCEPT ![a] = Sending(a, @, Event("stream_failed", "none"))]
  /\ UNCHANGED <<canceled, aborted, timer>>

(* Slip: nobody is told of a request that was canceled.                    *)
EndSilently(a) ==
  /\ remote[a].pc = "ended"
  /\ remote' = [remote EXCEPT ![a] =
                  IF Stopped(a) THEN [NoRequest EXCEPT !.pc = "done"]
                  ELSE Ending(@, Event(IF @.err \/ @.idle = "fired" THEN "failed"
                                       ELSE "completed", "none"))]
  /\ UNCHANGED <<canceled, aborted, timer>>

(* The end of the attempt.  normalizeRemoteAttemptError: an idle timer     *)
(* that has fired makes it a failure, even if the stream was read to its   *)
(* end in the meantime.                                                    *)
EndRequest(a) ==
  /\ remote[a].pc = "ended"
  /\ remote' = [remote EXCEPT ![a] =
                  Ending(@, Event(IF Stopped(a) THEN "canceled"
                                  ELSE IF @.err \/ @.idle = "fired" THEN "failed"
                                  ELSE "completed", "none"))]
  /\ UNCHANGED <<canceled, aborted, timer>>

IdleFires(a) ==
  /\ remote[a].pc \in {"do", "read"} /\ remote[a].idle = "armed"
  /\ remote' = [remote EXCEPT ![a].idle = "fired"]
  /\ UNCHANGED <<canceled, aborted, timer>>

(* runTimer.                                                               *)
TimerFires(a) ==
  /\ timer[a].pc = "wait"
  /\ timer' = [timer EXCEPT ![a] = [pc |-> "terminal", ev |-> Event("fired", "none")]]
  /\ UNCHANGED <<canceled, aborted, remote>>

TimerCanceled(a) ==
  /\ timer[a].pc = "wait" /\ canceled
  /\ timer' = [timer EXCEPT ![a] = [pc |-> "terminal", ev |-> Event("canceled", "none")]]
  /\ UNCHANGED <<canceled, aborted, remote>>

(* What the server and the network decide.                                 *)
ServerStep(a) ==
  \/ DoFails(a)
  \/ \E status \in Statuses : DoResponds(a, status)
  \/ \E frame \in Frames : ReadOutput(a, frame)
  \/ \E failed \in BOOLEAN : ReadEnds(a, failed)

(* What a call into net/http does, in time, when its context has ended.    *)
InterruptedCall(a) ==
  /\ Stopped(a) \/ remote[a].idle = "fired"
  /\ DoFails(a) \/ ReadEnds(a, TRUE)

RemoteStep(a) ==
  \/ BeginRequest(a)
  \/ SendGivesUp(a)
  \/ AnnounceFailure(a)
  \/ EndRequest(a)
  \/ IdleFires(a)

TimerStep(a) == TimerFires(a) \/ TimerCanceled(a)

(* The event was received, and the goroutine goes on.  arm resets the idle *)
(* timer, which does not undo what it did when it fired.                   *)
RequestAfter(r) ==
  CASE r.ev.type \in {"started", "output"} ->
         [r EXCEPT !.pc = "read", !.ev = NoEvent,
                   !.idle = IF @ = "fired" THEN @ ELSE "armed"]
    [] r.ev.type = "stream_failed" -> Ending(r, Event("failed", "none"))
    [] OTHER -> [NoRequest EXCEPT !.pc = "done"]

-----------------------------------------------------------------------------
Request ==
  [pc : {"none", "begin", "do", "send", "read", "failing", "ended", "terminal", "done"},
   idle : {"paused", "armed", "fired"},
   ev : [type : {"none", "started", "output", "stream_failed",
                 "failed", "canceled", "completed"},
         value : Statuses \cup Frames \cup {"none"}],
   err : BOOLEAN, frames : 0 .. MaxFrames]

Timer ==
  [pc : {"none", "wait", "terminal", "done"},
   ev : [type : {"none", "fired", "canceled"}, value : {"none"}]]

RemoteTypeOK ==
  /\ canceled \in BOOLEAN /\ aborted \subseteq Attempts
  /\ remote \in [Attempts -> Request]
  /\ timer \in [Attempts -> Timer]

(* The event at hand belongs to where the goroutine stands, and nothing is *)
(* sent for a caller that has canceled the request itself.                 *)
EventsMatch ==
  \A a \in Attempts :
    /\ remote[a].pc = "send" =>
         /\ a \notin aborted
         /\ \/ remote[a].ev.type = "started" /\ remote[a].ev.value \in Statuses
            \/ remote[a].ev.type = "output" /\ remote[a].ev.value \in Frames
            \/ remote[a].ev.type = "stream_failed"
    /\ remote[a].pc = "terminal" => remote[a].ev.type \in {"failed", "canceled", "completed"}

=============================================================================
