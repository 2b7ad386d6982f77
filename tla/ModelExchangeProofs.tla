------------------------- MODULE ModelExchangeProofs -------------------------
(***************************************************************************)
(* What ModelExchange guarantees for both adapters, any number of attempts *)
(* and any number of outputs: ExchangeInv is inductive, answers are kept,  *)
(* and requests are repeated only with reason.                             *)
(***************************************************************************)
EXTENDS ModelExchange, TLAPS

(* What EventsMatch says of one goroutine.                                 *)
Matches(a, r) ==
  /\ r.pc = "send" =>
       /\ a \notin aborted
       /\ \/ r.ev.type = "started" /\ r.ev.value \in Statuses
          \/ r.ev.type = "output" /\ r.ev.value \in Frames
          \/ r.ev.type = "stream_failed"
  /\ r.pc = "terminal" => r.ev.type \in {"failed", "canceled", "completed"}

-----------------------------------------------------------------------------
(* The goroutines of the requests and timers.                              *)

(* pause leaves all but the idle timer as it was.                          *)
LEMMA PausedIs ==
  ASSUME NEW q \in Request, NEW r \in Paused(q)
  PROVE  r \in Request /\ r.pc = q.pc
BY DEF Paused, Request

(* sendRemoteEvent sends, or ends the request of a canceled caller.        *)
LEMMA SendingIs ==
  ASSUME NEW a \in Attempts, NEW r \in Request, NEW type, NEW value,
         \/ type = "started" /\ value \in Statuses
         \/ type = "output" /\ value \in Frames
         \/ type = "stream_failed" /\ value = "none"
  PROVE  /\ Sending(a, r, Event(type, value)) \in Request
         /\ Live(Sending(a, r, Event(type, value)))
         /\ Matches(a, Sending(a, r, Event(type, value)))
         /\ Unanswered(Sending(a, r, Event(type, value))) => type = "started"
<1> DEFINE e == Event(type, value)
<1>1. e \in [type : {"none", "started", "output", "stream_failed",
                     "failed", "canceled", "completed"},
             value : Statuses \cup Frames \cup {"none"}]
  BY DEF Event
<1>2. CASE Stopped(a)
  BY <1>2 DEF Sending, Request, Live, Matches, Unanswered
<1>3. CASE ~Stopped(a)
  <2>1. Sending(a, r, e) = [r EXCEPT !.pc = "send", !.ev = e]
    BY <1>3 DEF Sending
  <2>2. a \notin aborted
    BY <1>3 DEF Stopped
  <2>3. e.type = type /\ e.value = value
    BY DEF Event
  <2> DEFINE x == Sending(a, r, e)
  <2>4. x \in Request /\ x.pc = "send" /\ x.ev = e
    BY <1>1, <2>1 DEF Request
  <2> HIDE DEF e, x
  <2>5. Live(x) /\ Matches(a, x) /\ (Unanswered(x) => type = "started")
    BY <2>2, <2>3, <2>4 DEF Live, Matches, Unanswered
  <2> QED
    BY <2>4, <2>5 DEF x, e
<1> QED
  BY <1>2, <1>3

(* The last event of a request.                                            *)
LEMMA EndingIs ==
  ASSUME NEW a \in Attempts, NEW r \in Request,
         NEW type \in {"failed", "canceled", "completed"}
  PROVE  /\ Ending(r, Event(type, "none")) \in Request
         /\ Live(Ending(r, Event(type, "none")))
         /\ Matches(a, Ending(r, Event(type, "none")))
         /\ ~Unanswered(Ending(r, Event(type, "none")))
BY DEF Ending, Event, Request, Live, Matches, Unanswered

(* runRemoteRequest goes on: it stays alive until its last event is taken, *)
(* and does not go back to where the response has not come.                *)
LEMMA RequestGoesOn ==
  ASSUME RemoteTypeOK, NEW a \in Attempts, ServerStep(a) \/ RemoteStep(a)
  PROVE  \E r \in Request :
           /\ remote' = [remote EXCEPT ![a] = r]
           /\ Live(remote[a]) /\ Live(r)
           /\ Matches(a, r)
           /\ Unanswered(r) => Unanswered(remote[a])
           /\ UNCHANGED <<canceled, aborted, timer>>
<1> USE DEF RemoteTypeOK
<1>1. CASE BeginRequest(a)
  <2>1. Live(remote[a]) /\ Unanswered(remote[a])
    BY <1>1 DEF BeginRequest, Live, Unanswered
  <2>2. CASE \E type \in {"failed", "canceled"} :
               remote' = [remote EXCEPT ![a] = Ending(@, Event(type, "none"))]
    BY <1>1, <2>1, <2>2, EndingIs DEF BeginRequest
  <2>3. CASE remote' = [remote EXCEPT ![a] = [@ EXCEPT !.pc = "do", !.idle = "armed"]]
    BY <1>1, <2>1, <2>3, ZenonT(60) DEF BeginRequest, Request, Live, Matches
  <2> QED
    BY <1>1, <2>2, <2>3 DEF BeginRequest
<1>2. CASE DoFails(a)
  BY <1>2, ZenonT(60) DEF DoFails, Request, Live, Matches, Unanswered
<1>3. CASE \E s \in Statuses : DoResponds(a, s)
  <2>1. PICK s \in Statuses, r \in Paused(remote[a]) :
          remote' = [remote EXCEPT ![a] = Sending(a, r, Event("started", s))]
    BY <1>3 DEF DoResponds
  <2>2. Live(remote[a]) /\ Unanswered(remote[a]) /\ UNCHANGED <<canceled, aborted, timer>>
    BY <1>3 DEF DoResponds, Live, Unanswered
  <2> QED
    BY <2>1, <2>2, PausedIs, SendingIs
<1>4. CASE \E f \in Frames : ReadOutput(a, f)
  <2>1. PICK f \in Frames, r \in Paused([remote[a] EXCEPT !.frames = @ + 1]) :
          remote' = [remote EXCEPT ![a] = Sending(a, r, Event("output", f))]
    BY <1>4 DEF ReadOutput
  <2>2. Live(remote[a]) /\ UNCHANGED <<canceled, aborted, timer>>
    BY <1>4 DEF ReadOutput, Live
  <2>3. [remote[a] EXCEPT !.frames = @ + 1] \in Request
    BY <1>4, MaxFramesAssumption DEF ReadOutput, Request
  <2> QED
    BY <2>1, <2>2, <2>3, PausedIs, SendingIs
<1>5. CASE \E failed \in BOOLEAN : ReadEnds(a, failed)
  <2>1. PICK failed \in BOOLEAN, r \in Paused(remote[a]) :
          remote' = [remote EXCEPT ![a] =
                       [r EXCEPT !.pc = IF failed THEN "failing" ELSE "ended", !.err = failed]]
    BY <1>5 DEF ReadEnds
  <2>2. Live(remote[a]) /\ UNCHANGED <<canceled, aborted, timer>>
    BY <1>5 DEF ReadEnds, Live
  <2>3. r \in Request
    BY <2>1, PausedIs
  <2>4. PICK to \in {"failing", "ended"} :
          remote' = [remote EXCEPT ![a] = [r EXCEPT !.pc = to, !.err = failed]]
    BY <2>1
  <2> QED
    BY <2>2, <2>3, <2>4 DEF Request, Live, Matches, Unanswered
<1>6. CASE SendGivesUp(a)
  BY <1>6, ZenonT(60) DEF SendGivesUp, NoEvent, Event, Request, Live, Matches, Unanswered
<1>7. CASE AnnounceFailure(a)
  BY <1>7, SendingIs DEF AnnounceFailure, Live
<1>8. CASE EndRequest(a)
  <2>1. PICK type \in {"failed", "canceled", "completed"} :
          remote' = [remote EXCEPT ![a] = Ending(@, Event(type, "none"))]
    BY <1>8 DEF EndRequest
  <2> QED
    BY <1>8, <2>1, EndingIs DEF EndRequest, Live
<1>9. CASE IdleFires(a)
  BY <1>9 DEF IdleFires, Request, Live, Matches, Unanswered
<1> QED
  BY <1>1, <1>2, <1>3, <1>4, <1>5, <1>6, <1>7, <1>8, <1>9 DEF ServerStep, RemoteStep

(* There is no request at first, nor when it has ended.                    *)
LEMMA NoRequestIs == NoRequest \in Request /\ NoRequest.pc = "none"
<1>1. 0 \in 0 .. MaxFrames /\ FALSE \in BOOLEAN
  BY MaxFramesAssumption
<1> QED
  BY <1>1 DEF NoRequest, NoEvent, Event, Request

(* A goroutine whose event was taken reads on, announces its end or ends.  *)
LEMMA RequestAfterIs ==
  ASSUME NEW a \in Attempts, NEW r \in Request, Matches(a, r)
  PROVE  /\ r.pc = "send" =>
              /\ RequestAfter(r) \in Request
              /\ RequestAfter(r).pc \in {"read", "terminal"}
              /\ RequestAfter(r).pc = "terminal" => RequestAfter(r).ev.type = "failed"
         /\ r.pc = "terminal" => RequestAfter(r) \in Request /\ RequestAfter(r).pc = "done"
<1> DEFINE x == RequestAfter(r)
<1>1. CASE r.pc = "send" /\ r.ev.type \in {"started", "output"}
  <2>1. PICK i \in {"armed", "fired"} :
          x = [r EXCEPT !.pc = "read", !.ev = NoEvent, !.idle = i]
    BY <1>1 DEF RequestAfter
  <2> HIDE DEF x
  <2>2. x \in Request /\ x.pc = "read"
    BY <2>1 DEF Request, NoEvent, Event
  <2> QED
    BY <1>1, <2>2 DEF x
<1>2. CASE r.pc = "send" /\ r.ev.type = "stream_failed"
  <2>1. x = [r EXCEPT !.pc = "terminal", !.ev = Event("failed", "none")]
    BY <1>2 DEF RequestAfter, Ending
  <2> HIDE DEF x
  <2>2. x \in Request /\ x.pc = "terminal" /\ x.ev.type = "failed"
    BY <2>1 DEF Request, Event
  <2> QED
    BY <1>2, <2>2 DEF x
<1>3. CASE r.pc = "terminal"
  <2>1. x = [NoRequest EXCEPT !.pc = "done"]
    BY <1>3 DEF RequestAfter, Matches
  <2> HIDE DEF x
  <2>2. x \in Request /\ x.pc = "done"
    BY <2>1, NoRequestIs DEF Request
  <2> QED
    BY <1>3, <2>2 DEF x
<1> QED
  BY <1>1, <1>2, <1>3 DEF Matches

(* runTimer fires or is canceled, and sends that.                          *)
LEMMA TimerGoesOn ==
  ASSUME RemoteTypeOK, NEW a \in Attempts, TimerStep(a)
  PROVE  /\ timer' \in [Attempts -> Timer]
         /\ \A b \in Attempts : Live(timer'[b]) <=> Live(timer[b])
         /\ UNCHANGED <<canceled, aborted, remote>>
BY DEF TimerStep, TimerFires, TimerCanceled, RemoteTypeOK, Timer, Live, Event

-----------------------------------------------------------------------------
(* The exchange.                                                           *)

(* OneProducer, said of each goroutine.                                    *)
Producers ==
  \A a \in Attempts :
    /\ Live(remote[a]) <=> pc = "attempt" /\ a = attempt
    /\ Live(timer[a]) <=> pc = "backoff" /\ a = attempt

(* One producer at most is left, said with and without counting.           *)
LEMMA ProducersAreOne ==
  ASSUME pc \in {"attempt", "backoff"} => attempt \in Attempts
  PROVE  OneProducer <=> Producers
BY DEF OneProducer, Producers

(* The same of the next state.                                             *)
LEMMA ProducersAreOnePrimed ==
  ASSUME (pc \in {"attempt", "backoff"} => attempt \in Attempts)'
  PROVE  OneProducer' <=> Producers'
BY DEF OneProducer, Producers

(* What the invariant says, for the proofs below.                          *)
LEMMA InvariantSays ==
  ASSUME ExchangeInv
  PROVE  /\ MaxAttempts \in Nat /\ attempt \in Int
         /\ \A a \in Attempts : a \in Int /\ Matches(a, remote[a])
         /\ pc \in {"attempt", "backoff"} => attempt \in Attempts
         /\ pc = "begin" => attempt + 1 \in Attempts
         /\ Producers
<1>1. /\ MaxAttempts \in Nat /\ attempt \in Int
      /\ \A a \in Attempts : a \in Int /\ Matches(a, remote[a])
  BY MaxAttemptsAssumption DEF ExchangeInv, TypeOK, EventsMatch, Matches
<1>2. /\ pc \in {"attempt", "backoff"} => attempt \in Attempts
      /\ pc = "begin" => attempt + 1 \in Attempts
  BY MaxAttemptsAssumption DEF ExchangeInv, TypeOK, Observed
<1>3. Producers
  BY <1>2, ProducersAreOne DEF ExchangeInv
<1> QED
  BY <1>1, <1>2, <1>3

(* The goroutine of a request takes a step of its own.                     *)
LEMMA RequestStepKeeps ==
  ASSUME ExchangeInv, NEW a \in Attempts, ServerStep(a) \/ RemoteStep(a), UNCHANGED adapterVars
  PROVE  ExchangeInv'
<1>0. RemoteTypeOK /\ Producers
  BY InvariantSays DEF ExchangeInv, TypeOK
<1>1. PICK r \in Request :
        /\ remote' = [remote EXCEPT ![a] = r]
        /\ Live(remote[a]) /\ Live(r)
        /\ Matches(a, r)
        /\ Unanswered(r) => Unanswered(remote[a])
        /\ UNCHANGED <<canceled, aborted, timer>>
  BY <1>0, RequestGoesOn
<1>2. a = attempt /\ pc = "attempt"
  BY <1>0, <1>1 DEF Producers
<1>3. TypeOK'
  BY <1>1 DEF ExchangeInv, TypeOK, RemoteTypeOK, adapterVars
<1>4. EventsMatch'
  BY <1>0, <1>1 DEF ExchangeInv, EventsMatch, RemoteTypeOK, Matches
<1>5. OneProducer'
  BY <1>0, <1>1, <1>2, InvariantSays, ProducersAreOnePrimed DEF Producers, RemoteTypeOK, adapterVars
<1>6. Observed'
  BY <1>0, <1>1, <1>2, InvariantSays DEF ExchangeInv, Observed, RemoteTypeOK, adapterVars
<1> QED
  BY <1>3, <1>4, <1>5, <1>6 DEF ExchangeInv

(* So does that of a timer.                                                *)
LEMMA TimerStepKeeps ==
  ASSUME ExchangeInv, NEW a \in Attempts, TimerStep(a), UNCHANGED adapterVars
  PROVE  ExchangeInv'
<1>1. /\ timer' \in [Attempts -> Timer]
      /\ \A b \in Attempts : Live(timer'[b]) <=> Live(timer[b])
      /\ UNCHANGED <<canceled, aborted, remote>>
  BY TimerGoesOn DEF ExchangeInv, TypeOK
<1>2. TypeOK' /\ EventsMatch' /\ Observed'
  BY <1>1 DEF ExchangeInv, TypeOK, RemoteTypeOK, EventsMatch, Observed, adapterVars
<1>3. OneProducer'
  BY <1>1, InvariantSays, ProducersAreOnePrimed DEF Producers, adapterVars
<1> QED
  BY <1>2, <1>3 DEF ExchangeInv

(* Who sends is the request of this attempt.                               *)
LEMMA SenderIs ==
  ASSUME ExchangeInv, NEW a \in Attempts, remote[a].pc \in {"send", "terminal"}
  PROVE  /\ a = attempt /\ pc = "attempt"
         /\ \A b \in Attempts \ {a} : ~Live(remote[b])
         /\ \A b \in Attempts : ~Live(timer[b])
         /\ remote[a] \in Request /\ Matches(a, remote[a])
         /\ remote[a].pc = "send" => a \notin aborted
<1>1. a = attempt /\ pc = "attempt"
  BY InvariantSays DEF Producers, Live
<1>2. /\ \A b \in Attempts \ {a} : ~Live(remote[b])
      /\ \A b \in Attempts : ~Live(timer[b])
  BY <1>1, InvariantSays DEF Producers
<1>3. /\ remote[a] \in Request /\ Matches(a, remote[a])
      /\ remote[a].pc = "send" => a \notin aborted
  BY InvariantSays DEF ExchangeInv, TypeOK, RemoteTypeOK, EventsMatch
<1> QED
  BY <1>1, <1>2, <1>3

(* exchangeAttempt takes the start of the response.                        *)
LEMMA ReceiveStartedKeeps ==
  ASSUME ExchangeInv, NEW a \in Attempts, ReceiveStarted(a)
  PROVE  ExchangeInv'
<1> DEFINE r == RequestAfter(remote[a])
<1>1. /\ a = attempt /\ pc = "attempt" /\ a \notin aborted
      /\ \A b \in Attempts \ {a} : ~Live(remote[b])
      /\ \A b \in Attempts : ~Live(timer[b])
      /\ remote[a] \in Request /\ Matches(a, remote[a]) /\ remote[a].ev.type = "started"
  BY SenderIs DEF ReceiveStarted
<1>2. /\ remote' = [remote EXCEPT ![a] = r] /\ r \in Request
      /\ r.pc \in {"read", "terminal"}
      /\ r.pc = "terminal" => r.ev.type = "failed"
      /\ UNCHANGED <<adapter, canceled, timer, pc, attempt, outcome>>
  BY <1>1, RequestAfterIs DEF ReceiveStarted
<1>3. status' \in Statuses /\ status' = remote[a].ev.value
  BY <1>1 DEF ReceiveStarted, Matches
<1>4. /\ status = "none" /\ decided = "none" /\ said[a].output = "none"
  BY <1>1 DEF ExchangeInv, Observed, Unanswered, ReceiveStarted
<1>5. /\ said' = [said EXCEPT ![a].status = status']
      /\ \/ decided' = "none" /\ aborted' = aborted
         \/ decided' = "malformed" /\ aborted' = aborted \cup {a}
  BY <1>1, <1>4 DEF ReceiveStarted, StartSettles, Abort, ExchangeInv, Observed
<1> HIDE DEF r
<1>6. TypeOK'
  BY <1>1, <1>2, <1>3, <1>5 DEF ExchangeInv, TypeOK, RemoteTypeOK
<1>7. EventsMatch'
  BY <1>1, <1>2, <1>5 DEF ExchangeInv, EventsMatch, TypeOK, RemoteTypeOK, Live
<1>8. OneProducer'
  BY <1>1, <1>2, InvariantSays, ProducersAreOnePrimed DEF Producers, Live, ExchangeInv, TypeOK, RemoteTypeOK
<1>9. Observed'
  <2>1. \A b \in Attempts : b > attempt => remote'[b] = remote[b] /\ said'[b] = said[b]
    BY <1>1, <1>2, <1>5, InvariantSays DEF ExchangeInv, TypeOK, RemoteTypeOK
  <2>2. /\ said'[attempt].status = status' /\ said'[attempt].output = "none"
    BY <1>1, <1>4, <1>5 DEF ExchangeInv, TypeOK
  <2>3. ~Unanswered(remote'[attempt])
    BY <1>1, <1>2 DEF Unanswered, ExchangeInv, TypeOK, RemoteTypeOK
  <2> QED
    BY <1>1, <1>2, <1>4, <1>5, <2>1, <2>2, <2>3 DEF ExchangeInv, Observed
<1> QED
  BY <1>6, <1>7, <1>8, <1>9 DEF ExchangeInv

(* exchangeAttempt takes an output.                                        *)
LEMMA ReceiveOutputKeeps ==
  ASSUME ExchangeInv, NEW a \in Attempts, ReceiveOutput(a)
  PROVE  ExchangeInv'
<1> DEFINE r == RequestAfter(remote[a])
           frame == remote[a].ev.value
<1>1. /\ a = attempt /\ pc = "attempt" /\ a \notin aborted
      /\ \A b \in Attempts \ {a} : ~Live(remote[b])
      /\ \A b \in Attempts : ~Live(timer[b])
      /\ remote[a] \in Request /\ Matches(a, remote[a]) /\ remote[a].ev.type = "output"
  BY SenderIs DEF ReceiveOutput
<1>2. /\ remote' = [remote EXCEPT ![a] = r] /\ r \in Request
      /\ r.pc \in {"read", "terminal"}
      /\ r.pc = "terminal" => r.ev.type = "failed"
      /\ UNCHANGED <<adapter, canceled, timer, pc, attempt, status, outcome>>
  BY <1>1, RequestAfterIs DEF ReceiveOutput
<1>3. frame \in Frames
  BY <1>1 DEF ReceiveOutput, Matches
<1>4. decided = said[a].output /\ said[a].status = status
  BY <1>1 DEF ExchangeInv, Observed
<1>5. /\ \/ decided' = decided /\ said' = said
         \/ /\ decided' = frame /\ said' = [said EXCEPT ![a].output = frame]
            /\ status \in {"retryable", "fatal"} => frame = "malformed"
            /\ frame # "delta"
      /\ aborted' \in {aborted, aborted \cup {a}}
  <2>1. CASE decided = "none" /\ Settles(frame)
    <3>1. /\ status \in {"retryable", "fatal"} => frame = "malformed"
          /\ frame # "delta"
      BY <2>1 DEF Settles, MessagesObserve, ResponsesObserve
    <3> QED
      BY <1>1, <1>4, <2>1, <3>1 DEF ReceiveOutput, Abort
  <2>2. CASE ~(decided = "none" /\ Settles(frame))
    BY <1>1, <1>4, <2>2 DEF ReceiveOutput, Abort
  <2> QED
    BY <2>1, <2>2
<1> HIDE DEF r, frame
<1>6. TypeOK'
  BY <1>1, <1>2, <1>3, <1>5 DEF ExchangeInv, TypeOK, RemoteTypeOK
<1>7. EventsMatch'
  BY <1>1, <1>2, <1>5 DEF ExchangeInv, EventsMatch, TypeOK, RemoteTypeOK, Live
<1>8. OneProducer'
  BY <1>1, <1>2, InvariantSays, ProducersAreOnePrimed DEF Producers, Live, ExchangeInv, TypeOK, RemoteTypeOK
<1>9. Observed'
  <2>1. \A b \in Attempts : b > attempt => remote'[b] = remote[b] /\ said'[b] = said[b]
    BY <1>1, <1>2, <1>5, InvariantSays DEF ExchangeInv, TypeOK, RemoteTypeOK
  <2>2. /\ said'[attempt].status = status' /\ said'[attempt].output = decided'
    BY <1>1, <1>2, <1>4, <1>5 DEF ExchangeInv, TypeOK
  <2>3. ~Unanswered(remote'[attempt])
    BY <1>1, <1>2 DEF Unanswered, ExchangeInv, TypeOK, RemoteTypeOK
  <2> QED
    BY <1>1, <1>2, <1>4, <1>5, <2>1, <2>2, <2>3 DEF ExchangeInv, Observed
<1> QED
  BY <1>6, <1>7, <1>8, <1>9 DEF ExchangeInv

(* An event of no interest is taken.                                       *)
LEMMA ReceiveIgnoredKeeps ==
  ASSUME ExchangeInv, NEW a \in Attempts, ReceiveIgnored(a)
  PROVE  ExchangeInv'
<1> DEFINE r == RequestAfter(remote[a])
<1>1. /\ a = attempt /\ pc = "attempt"
      /\ \A b \in Attempts \ {a} : ~Live(remote[b])
      /\ remote[a] \in Request /\ Matches(a, remote[a])
  BY SenderIs DEF ReceiveIgnored
<1>2. /\ remote' = [remote EXCEPT ![a] = r] /\ r \in Request
      /\ r.pc \in {"read", "terminal"}
      /\ r.pc = "terminal" => r.ev.type = "failed"
      /\ UNCHANGED <<adapterVars, canceled, aborted, timer>>
  BY <1>1, RequestAfterIs DEF ReceiveIgnored
<1> HIDE DEF r
<1>3. TypeOK'
  BY <1>1, <1>2 DEF ExchangeInv, TypeOK, RemoteTypeOK, adapterVars
<1>6. EventsMatch'
  BY <1>1, <1>2 DEF ExchangeInv, EventsMatch, TypeOK, RemoteTypeOK
<1>4. OneProducer'
  BY <1>1, <1>2, InvariantSays, ProducersAreOnePrimed
     DEF Producers, Live, ExchangeInv, TypeOK, RemoteTypeOK, adapterVars
<1>5. Observed'
  BY <1>1, <1>2, InvariantSays
     DEF ExchangeInv, Observed, Unanswered, TypeOK, RemoteTypeOK, adapterVars
<1> QED
  BY <1>3, <1>4, <1>5, <1>6 DEF ExchangeInv

(* What is left of a request whose last event was taken.                   *)
LEMMA ReceiveLastKeeps ==
  ASSUME ExchangeInv, NEW a \in Attempts, ReceiveLast(a)
  PROVE  ExchangeInv'
<1> DEFINE r == RequestAfter(remote[a])
<1>1. /\ a = attempt /\ pc = "attempt"
      /\ \A b \in Attempts \ {a} : ~Live(remote[b])
      /\ \A b \in Attempts : ~Live(timer[b])
      /\ remote[a] \in Request /\ Matches(a, remote[a])
  BY SenderIs DEF ReceiveLast
<1>2. /\ remote' = [remote EXCEPT ![a] = r] /\ r \in Request /\ r.pc = "done"
      /\ UNCHANGED <<adapter, canceled, attempt, status, decided, said>>
      /\ aborted' \in {aborted, aborted \cup {a}}
  BY <1>1, RequestAfterIs DEF ReceiveLast
<1>3. \A last : Verdict(last) \in {"answer", "failure", "canceled", "retry"}
  BY DEF Verdict
<1>4. \/ /\ pc' = "returned" /\ timer' = timer
         /\ outcome' \in {"answer", "failure", "canceled"}
      \/ /\ pc' = "backoff" /\ outcome' = outcome /\ ~(attempt >= MaxAttempts)
         /\ timer' = [timer EXCEPT ![attempt].pc = "wait"]
  BY <1>3 DEF ReceiveLast, Return
<1> HIDE DEF r
<1>5. TypeOK'
  <2>1. timer' \in [Attempts -> Timer]
    BY <1>4, SMTT(30) DEF ExchangeInv, TypeOK, RemoteTypeOK, Timer
  <2> QED
    BY <1>1, <1>2, <1>4, <2>1 DEF ExchangeInv, TypeOK, RemoteTypeOK
<1>6. EventsMatch'
  BY <1>1, <1>2 DEF ExchangeInv, EventsMatch, TypeOK, RemoteTypeOK, Live
<1>7. OneProducer'
  <2>1. \A b \in Attempts : ~Live(remote'[b])
    BY <1>1, <1>2 DEF ExchangeInv, TypeOK, RemoteTypeOK, Live
  <2>2. \A b \in Attempts : Live(timer'[b]) <=> pc' = "backoff" /\ b = attempt
    BY <1>1, <1>4 DEF ExchangeInv, TypeOK, RemoteTypeOK, Timer, Live
  <2> QED
    BY <1>1, <1>2, <1>4, <2>1, <2>2, ProducersAreOnePrimed DEF Producers
<1>8. Observed'
  <2>1. \A b \in Attempts : b > attempt => remote'[b] = remote[b]
    BY <1>1, <1>2, InvariantSays DEF ExchangeInv, TypeOK, RemoteTypeOK
  <2> QED
    BY <1>1, <1>2, <1>4, <2>1, InvariantSays DEF ExchangeInv, Observed
<1> QED
  BY <1>5, <1>6, <1>7, <1>8 DEF ExchangeInv

(* The backoff is over.                                                    *)
LEMMA ReceiveTimerKeeps ==
  ASSUME ExchangeInv, NEW a \in Attempts, ReceiveTimer(a)
  PROVE  ExchangeInv'
<1> DEFINE t == [NoTimer EXCEPT !.pc = "done"]
<1>1. a = attempt /\ pc = "backoff" /\ attempt < MaxAttempts
  BY InvariantSays DEF ReceiveTimer, Producers, Live, ExchangeInv, Observed
<1>2. /\ timer' = [timer EXCEPT ![a] = t]
      /\ UNCHANGED <<remote, canceled, aborted, adapter, attempt, status, decided, said>>
  BY DEF ReceiveTimer
<1>3. \/ pc' = "begin" /\ outcome' = outcome
      \/ pc' = "returned" /\ outcome' = "canceled"
  BY DEF ReceiveTimer, Return
<1>4. t \in Timer /\ ~Live(t)
  BY DEF NoTimer, NoEvent, Event, Timer, Live
<1> HIDE DEF t
<1>5. TypeOK' /\ EventsMatch'
  BY <1>2, <1>3, <1>4 DEF ExchangeInv, TypeOK, RemoteTypeOK, EventsMatch
<1>6. OneProducer'
  BY <1>1, <1>2, <1>3, <1>4, InvariantSays, ProducersAreOnePrimed
     DEF Producers, ExchangeInv, TypeOK, RemoteTypeOK
<1>7. Observed'
  BY <1>1, <1>2, <1>3 DEF ExchangeInv, Observed
<1> QED
  BY <1>5, <1>6, <1>7 DEF ExchangeInv

(* The head of the loop.                                                   *)
LEMMA BeginKeeps ==
  ASSUME ExchangeInv, Begin
  PROVE  ExchangeInv'
<1> USE DEF Begin
<1>1. CASE canceled
  <2>1. /\ pc = "begin" /\ pc' = "returned" /\ outcome' = "canceled"
        /\ UNCHANGED <<attempt, status, decided, remoteVars, adapter, said>>
    BY <1>1 DEF Return, remoteVars
  <2>2. TypeOK' /\ EventsMatch' /\ Observed'
    BY <2>1 DEF ExchangeInv, TypeOK, RemoteTypeOK, EventsMatch, Observed, remoteVars
  <2>3. OneProducer'
    BY <2>1, InvariantSays, ProducersAreOnePrimed DEF Producers, remoteVars
  <2> QED
    BY <2>2, <2>3 DEF ExchangeInv
<1>2. CASE ~canceled
  <2> DEFINE r == [NoRequest EXCEPT !.pc = "begin"]
  <2>1. /\ pc = "begin" /\ attempt + 1 \in Attempts /\ attempt \in Int
        /\ \A b \in Attempts : b \in Int /\ ~Live(remote[b]) /\ ~Live(timer[b])
        /\ remote[attempt + 1] = NoRequest
        /\ said[attempt + 1] = [status |-> "none", output |-> "none"]
    BY InvariantSays DEF Producers, ExchangeInv, Observed
  <2>2. /\ pc' = "attempt" /\ attempt' = attempt + 1
        /\ status' = "none" /\ decided' = "none"
        /\ remote' = [remote EXCEPT ![attempt + 1] = r]
        /\ UNCHANGED <<outcome, adapter, canceled, aborted, timer, said>>
    BY <1>2, <2>1 DEF ExchangeInv, TypeOK, RemoteTypeOK
  <2>3. r \in Request /\ Live(r) /\ r.pc = "begin"
    BY NoRequestIs DEF Request, Live
  <2> HIDE DEF r
  <2>4. TypeOK'
    BY <2>1, <2>2, <2>3, MaxAttemptsAssumption DEF ExchangeInv, TypeOK, RemoteTypeOK
  <2>5. EventsMatch'
    BY <2>1, <2>2, <2>3 DEF ExchangeInv, EventsMatch, TypeOK, RemoteTypeOK
  <2>6. OneProducer'
    BY <2>1, <2>2, <2>3, ProducersAreOnePrimed DEF Producers, ExchangeInv, TypeOK, RemoteTypeOK
  <2>7. Observed'
    BY <2>1, <2>2, <2>3 DEF ExchangeInv, Observed, TypeOK, RemoteTypeOK
  <2> QED
    BY <2>4, <2>5, <2>6, <2>7 DEF ExchangeInv
<1> QED
  BY <1>1, <1>2

(* The invariant holds at first, ...                                       *)
LEMMA InvariantInit == Init => ExchangeInv
<1> SUFFICES ASSUME Init PROVE ExchangeInv
  OBVIOUS
<1> USE DEF Init, RemoteInit
<1>1. NoTimer \in Timer /\ ~Live(NoTimer) /\ ~Live(NoRequest)
  BY DEF NoTimer, NoRequest, NoEvent, Event, Timer, Live
<1>2. TypeOK
  <2>1. RemoteTypeOK
    BY <1>1, NoRequestIs DEF RemoteTypeOK
  <2>2. attempt \in 0 .. MaxAttempts
    BY MaxAttemptsAssumption
  <2>3. said \in [Attempts -> [status : Statuses \cup {"none"}, output : Frames \cup {"none"}]]
    OBVIOUS
  <2> QED
    BY <2>1, <2>2, <2>3 DEF TypeOK
<1>3. EventsMatch
  BY NoRequestIs DEF EventsMatch
<1>4. OneProducer
  BY <1>1 DEF OneProducer
<1>5. Observed
  BY MaxAttemptsAssumption DEF Observed
<1> QED
  BY <1>2, <1>3, <1>4, <1>5 DEF ExchangeInv

(* ... and after every step.                                               *)
LEMMA InvariantStep == ExchangeInv /\ [Next]_vars => ExchangeInv'
<1> SUFFICES ASSUME ExchangeInv, [Next]_vars PROVE ExchangeInv'
  OBVIOUS
<1>1. CASE Cancel
  <2>1. canceled' \in BOOLEAN /\ UNCHANGED <<aborted, remote, timer, adapterVars>>
    BY <1>1 DEF Cancel
  <2>2. TypeOK' /\ EventsMatch' /\ Observed'
    BY <2>1 DEF ExchangeInv, TypeOK, RemoteTypeOK, EventsMatch, Observed, adapterVars
  <2>3. OneProducer'
    BY <2>1, InvariantSays, ProducersAreOnePrimed DEF Producers, adapterVars
  <2> QED
    BY <2>2, <2>3 DEF ExchangeInv
<1>2. CASE UNCHANGED vars
  BY <1>2 DEF vars, remoteVars, adapterVars, ExchangeInv, TypeOK, RemoteTypeOK,
              EventsMatch, OneProducer, Observed
<1> QED
  BY <1>1, <1>2, BeginKeeps, ReceiveStartedKeeps, ReceiveOutputKeeps, ReceiveIgnoredKeeps,
     ReceiveLastKeeps, ReceiveTimerKeeps, RequestStepKeeps, TimerStepKeeps
     DEF Next, Receive

-----------------------------------------------------------------------------
(* exchange and exchangeAttempt: whoever sends on the shared channel is    *)
(* the producer the adapter waits for, and what the adapter goes by is     *)
(* what the server said in the attempt under way.                          *)
THEOREM ExchangeInvariant == Spec => []ExchangeInv
BY InvariantInit, InvariantStep, PTL DEF Spec

(* An answer that was received is returned, and nothing asked again.       *)
THEOREM ReceivedAnswersAreKept == Spec => []AnswersAreKept
<1>1. Init => AnswersAreKept
  BY DEF Init, AnswersAreKept
<1>2. ExchangeInv /\ AnswersAreKept /\ [Next]_vars => AnswersAreKept'
  <2> SUFFICES ASSUME ExchangeInv, AnswersAreKept, [Next]_vars
               PROVE  AnswersAreKept'
    OBVIOUS
  <2>1. CASE Begin
    BY <2>1 DEF Begin, Return, AnswersAreKept, ExchangeInv, Observed
  <2>2. ASSUME NEW a \in Attempts, ReceiveStarted(a)
        PROVE  AnswersAreKept'
    <3>1. /\ said' = [said EXCEPT ![a].status = status']
          /\ UNCHANGED <<pc, attempt, outcome>>
      BY <2>2 DEF ReceiveStarted
    <3> QED
      BY <3>1 DEF AnswersAreKept, ExchangeInv, TypeOK
  <2>3. ASSUME NEW a \in Attempts, ReceiveOutput(a)
        PROVE  AnswersAreKept'
    <3>1. a = attempt /\ pc = "attempt" /\ outcome = "none"
      BY <2>3, SenderIs DEF ReceiveOutput, ExchangeInv, Observed
    <3>2. /\ \A b \in Attempts \ {a} : said'[b] = said[b]
          /\ UNCHANGED <<pc, attempt, outcome>>
      BY <2>3 DEF ReceiveOutput, ExchangeInv, TypeOK
    <3> QED
      BY <3>1, <3>2 DEF AnswersAreKept
  <2>4. ASSUME NEW a \in Attempts, ReceiveLast(a)
        PROVE  AnswersAreKept'
    <3>1. a = attempt /\ pc = "attempt" /\ outcome = "none"
      BY <2>4, SenderIs DEF ReceiveLast, ExchangeInv, Observed
    <3>2. UNCHANGED <<attempt, said>>
      BY <2>4 DEF ReceiveLast
    <3>3. CASE said[attempt].output = "stop"
      <4>1. decided = "stop"
        BY <3>1, <3>3 DEF ExchangeInv, Observed
      <4>3. \A last : Verdict(last) = "answer"
        BY <4>1 DEF Verdict
      <4>2. pc' = "returned" /\ outcome' = "answer"
        BY <2>4, <4>3 DEF ReceiveLast, Return
      <4> QED
        BY <3>1, <3>2, <3>3, <4>2 DEF AnswersAreKept
    <3>4. CASE said[attempt].output # "stop"
      <4>1. decided # "stop"
        BY <3>1, <3>4 DEF ExchangeInv, Observed
      <4>2. \A last : Verdict(last) # "answer"
        BY <4>1 DEF Verdict
      <4>3. outcome' # "answer"
        BY <2>4, <3>1, <4>2 DEF ReceiveLast, Return
      <4> QED
        BY <3>1, <3>2, <3>4, <4>3 DEF AnswersAreKept
    <3> QED
      BY <3>3, <3>4
  <2>5. ASSUME NEW a \in Attempts, ReceiveTimer(a)
        PROVE  AnswersAreKept'
    BY <2>5 DEF ReceiveTimer, Return, AnswersAreKept
  <2>6. CASE UNCHANGED adapterVars
    BY <2>6 DEF adapterVars, AnswersAreKept
  <2> QED
    BY <2>1, <2>2, <2>3, <2>4, <2>5, <2>6 DEF Next, Receive, ReceiveIgnored, Cancel, vars
<1> QED
  BY <1>1, <1>2, ExchangeInvariant, PTL DEF Spec

(* retryableResponseError: a request is repeated only after an error that  *)
(* may pass, or after no answer.                                           *)
THEOREM RepetitionsAreJustified == Spec => []RetriesAreJustified
<1>1. Init => RetriesAreJustified
  BY MaxAttemptsAssumption DEF Init, RetriesAreJustified
<1>2. ExchangeInv /\ RetriesAreJustified /\ [Next]_vars => RetriesAreJustified'
  <2> SUFFICES ASSUME ExchangeInv, RetriesAreJustified, [Next]_vars
               PROVE  RetriesAreJustified'
    OBVIOUS
  <2>0. attempt \in Int /\ \A a \in Attempts : a \in Int
    BY InvariantSays
  <2>1. CASE Begin
    BY <2>0, <2>1 DEF Begin, Return, RetriesAreJustified
  <2>2. ASSUME NEW a \in Attempts, ReceiveStarted(a) \/ ReceiveOutput(a)
        PROVE  RetriesAreJustified'
    <3>1. a = attempt /\ pc = "attempt"
      BY <2>2, SenderIs DEF ReceiveStarted, ReceiveOutput
    <3>2. /\ \A b \in Attempts \ {a} : said'[b] = said[b]
          /\ UNCHANGED <<pc, attempt>>
      BY <2>2 DEF ReceiveStarted, ReceiveOutput, ExchangeInv, TypeOK
    <3> QED
      BY <2>0, <3>1, <3>2 DEF RetriesAreJustified
  <2>3. ASSUME NEW a \in Attempts, ReceiveLast(a)
        PROVE  RetriesAreJustified'
    <3>1. a = attempt /\ pc = "attempt"
      BY <2>3, SenderIs DEF ReceiveLast
    <3>2. UNCHANGED <<attempt, said>>
      BY <2>3 DEF ReceiveLast
    <3>3. CASE pc' = "returned"
      BY <2>0, <3>2, <3>3 DEF RetriesAreJustified
    <3>4. CASE pc' # "returned"
      <4>1. \E last : Verdict(last) = "retry"
        BY <2>3, <3>4 DEF ReceiveLast, Return
      <4>2. /\ decided \in {"none", "failed_retry", "error_retry"}
            /\ decided = "none" => status # "fatal"
        <5>1. PICK last : Verdict(last) = "retry"
          BY <4>1
        <5> QED
          BY <5>1, KindsAssumption DEF Verdict, ExchangeInv, TypeOK
      <4>3. /\ said[attempt].output = decided /\ said[attempt].status = status
            /\ status # "fatal"
        BY <3>1, <4>2 DEF ExchangeInv, Observed
      <4> QED
        BY <2>0, <3>1, <3>2, <4>2, <4>3 DEF RetriesAreJustified
    <3> QED
      BY <3>3, <3>4
  <2>4. ASSUME NEW a \in Attempts, ReceiveTimer(a)
        PROVE  RetriesAreJustified'
    BY <2>0, <2>4 DEF ReceiveTimer, Return, RetriesAreJustified
  <2>5. CASE UNCHANGED adapterVars
    BY <2>5 DEF adapterVars, RetriesAreJustified
  <2> QED
    BY <2>1, <2>2, <2>3, <2>4, <2>5 DEF Next, Receive, ReceiveIgnored, Cancel, vars
<1> QED
  BY <1>1, <1>2, ExchangeInvariant, PTL DEF Spec

=============================================================================
