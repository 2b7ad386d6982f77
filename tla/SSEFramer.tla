------------------------------- MODULE SSEFramer -------------------------------
(***************************************************************************)
(* The framer of event streams (harness/primitives/remote_sse.go): it cuts *)
(* what a response body yields, chunk by chunk, into the frames a blank    *)
(* line ends.  A line ends with CR, LF or CR LF, and a chunk may end       *)
(* anywhere, so between the two of them.                                   *)
(*                                                                         *)
(* All bytes but CR and LF are alike; a frame is the sequence of its       *)
(* bytes.  append looks for the next line ending at once and fails before  *)
(* a segment that is too long; here it goes byte by byte, which adds the   *)
(* bytes up to the limit to a frame that nobody gets to see.               *)
(***************************************************************************)
EXTENDS Integers, Sequences, SequencesExt

CONSTANTS Modes,      \* subset of {"strip", "pass"}: SSEFrameDelimiter
          Limits,     \* what maximumFrameSize may be
          MaxChunk,   \* bound: bytes of a chunk
          MaxWire     \* bound: bytes of the stream

ASSUME ModesAssumption == Modes \subseteq {"strip", "pass"}
ASSUME SizesAssumption == Limits \cup {MaxChunk, MaxWire} \subseteq Nat \ {0}

VARIABLES
  mode, limit,
  framer,   \* the fields of remoteSSEFramer that change
  frames,   \* the frames that were sent: [offset, data]
  state,    \* "reading", "failed", "finished"
  wire      \* history: the bytes of the stream so far

vars == <<mode, limit, framer, frames, state, wire>>

Byte == {"x", "CR", "LF"}
Chunks == UNION {[1 .. n -> Byte] : n \in 1 .. MaxChunk}

Fresh == [frame |-> <<>>, delimiterStart |-> 0, lineHasData |-> FALSE,
          afterCR |-> FALSE, frameEndedAtCR |-> FALSE, endedFrameWireSize |-> 0,
          emittedOffset |-> 0]

Init ==
  /\ mode \in Modes /\ limit \in Limits
  /\ framer = Fresh
  /\ frames = <<>> /\ state = "reading" /\ wire = <<>>

-----------------------------------------------------------------------------
(* A step of append: f is the framer, out what it has appended to frames   *)
(* for the chunk so far, ok that there was no error.                       *)
Step(f, out, ok) == [f |-> f, out |-> out, ok |-> ok]

(* takeFrame.                                                              *)
TakeFrame(s, delimiterStart) ==
  LET data == IF mode = "strip" THEN SubSeq(s.f.frame, 1, delimiterStart) ELSE s.f.frame
      next == [s.f EXCEPT !.frame = <<>>, !.delimiterStart = 0, !.emittedOffset = @ + Len(data)]
  IN  [s EXCEPT !.f = next,
                !.out = Append(@, [offset |-> s.f.emittedOffset, data |-> data])]

(* Slip: a frame may be one byte longer than the limit.                    *)
AppendByteTooMany(s, b) ==
  IF Len(s.f.frame) > limit THEN [s EXCEPT !.ok = FALSE]
  ELSE [s EXCEPT !.f.frame = Append(@, b)]

(* appendFrameBytes with one byte.                                         *)
AppendByte(s, b) ==
  IF Len(s.f.frame) >= limit THEN [s EXCEPT !.ok = FALSE]
  ELSE [s EXCEPT !.f.frame = Append(@, b)]

(* An LF behind the CR that ended a frame: it still belongs to that frame, *)
(* which was taken already, and perhaps sent with an earlier chunk.        *)
AfterFrame(s) ==
  LET rest == [s.f EXCEPT !.afterCR = FALSE, !.frameEndedAtCR = FALSE,
                          !.endedFrameWireSize = 0]
      longer == [s.out EXCEPT ![Len(s.out)].data = Append(@, "LF")]
      alone == <<[offset |-> s.f.emittedOffset, data |-> <<"LF">>]>>
  IN  IF s.f.endedFrameWireSize >= limit THEN [s EXCEPT !.ok = FALSE]
      ELSE IF mode = "strip" THEN [s EXCEPT !.f = rest]
      ELSE [s EXCEPT !.f = rest, !.f.emittedOffset = @ + 1,
                     !.out = IF s.out # <<>> THEN longer ELSE alone]

(* A line ending: it ends a line with data, or the frame.                  *)
LineEnds(s, b) ==
  LET t == AppendByte(s, b)
      end == Len(t.f.frame) - 1
      size == Len(t.f.frame)
      after == [t EXCEPT !.f.afterCR = (b = "CR"), !.f.lineHasData = FALSE]
  IN  IF ~t.ok THEN t
      ELSE IF t.f.lineHasData THEN [after EXCEPT !.f.delimiterStart = end]
      ELSE LET taken == TakeFrame(after, t.f.delimiterStart)
           IN  IF b = "LF" THEN taken
               ELSE [taken EXCEPT !.f.frameEndedAtCR = TRUE, !.f.endedFrameWireSize = size]

(* Slip: the LF of a CR LF is always taken for a line of its own.          *)
NextByteForgetting(s, b) ==
  LET u == [s EXCEPT !.f.afterCR = FALSE, !.f.frameEndedAtCR = FALSE,
                     !.f.endedFrameWireSize = 0]
  IN  IF b = "x"
      THEN LET t == AppendByte(u, b) IN [t EXCEPT !.f.lineHasData = TRUE]
      ELSE LineEnds(u, b)

(* The body of the loop of append, for one byte.                           *)
NextByte(s, b) ==
  IF ~s.ok THEN s
  ELSE IF s.f.afterCR /\ b = "LF" /\ s.f.frameEndedAtCR THEN AfterFrame(s)
  ELSE IF s.f.afterCR /\ b = "LF"
  THEN LET t == AppendByte(s, b) IN IF t.ok THEN [t EXCEPT !.f.afterCR = FALSE] ELSE t
  ELSE LET u == [s EXCEPT !.f.afterCR = FALSE, !.f.frameEndedAtCR = FALSE,
                          !.f.endedFrameWireSize = 0]
       IN  IF b = "x"
           THEN LET t == AppendByte(u, b)
                IN  IF t.ok THEN [t EXCEPT !.f.lineHasData = TRUE] ELSE t
           ELSE LineEnds(u, b)

(* append: the loop over a chunk.                                          *)
Appended(chunk) ==
  LET after[k \in 0 .. Len(chunk)] ==
        IF k = 0 THEN Step(framer, <<>>, TRUE) ELSE NextByte(after[k - 1], chunk[k])
  IN  after[Len(chunk)]

(* append, and sendRemoteOutput for what it returns, with an error too.    *)
AppendChunk(chunk) ==
  /\ state = "reading"
  /\ Len(wire) + Len(chunk) <= MaxWire
  /\ LET done == Appended(chunk)
     IN  /\ framer' = done.f
         /\ frames' = frames \o done.out
         /\ state' = IF done.ok THEN state ELSE "failed"
  /\ wire' = wire \o chunk
  /\ UNCHANGED <<mode, limit>>

(* finish, when the body ends: an unfinished frame is dropped or sent.     *)
Finish ==
  /\ state = "reading"
  /\ LET rest == [framer EXCEPT !.afterCR = FALSE, !.frameEndedAtCR = FALSE,
                                !.endedFrameWireSize = 0]
         last == TakeFrame(Step(rest, <<>>, TRUE), Len(rest.frame))
     IN  IF rest.frame = <<>> \/ mode = "strip"
         THEN /\ framer' = [rest EXCEPT !.frame = <<>>, !.delimiterStart = 0]
              /\ UNCHANGED frames
         ELSE /\ framer' = last.f
              /\ frames' = frames \o last.out
  /\ state' = "finished"
  /\ UNCHANGED <<mode, limit, wire>>

Next == (\E chunk \in Chunks : AppendChunk(chunk)) \/ Finish

Spec == Init /\ [][Next]_vars

-----------------------------------------------------------------------------
(* Properties.                                                             *)

TypeOK ==
  /\ mode \in Modes /\ limit \in Limits
  /\ state \in {"reading", "failed", "finished"}
  /\ framer.frame \in Seq(Byte) /\ Len(framer.frame) <= limit
  /\ framer.delimiterStart \in 0 .. Len(framer.frame)
  /\ framer.frameEndedAtCR => framer.afterCR

(* What a stream means, from all of its bytes: where line endings begin,   *)
(* which of them end a frame, and where the next frame begins.             *)
LineEndings(w) ==
  {p \in DOMAIN w : w[p] # "x" /\ ~(w[p] = "LF" /\ p > 1 /\ w[p - 1] = "CR")}

FrameEndings(w) == {p \in LineEndings(w) : p = 1 \/ w[p - 1] # "x"}

Behind(w, p) ==
  IF w[p] = "CR" /\ p < Len(w) /\ w[p + 1] = "LF" THEN p + 2 ELSE p + 1

Start(w, p) ==
  LET before == {q \in FrameEndings(w) : q < p}
  IN  IF before = {} THEN 1 ELSE Behind(w, Max(before))

(* The frame that p ends, without the line ending before it.               *)
Content(w, p) ==
  LET lines == {q \in LineEndings(w) : Start(w, p) <= q /\ q < p}
  IN  IF lines = {} THEN <<>> ELSE SubSeq(w, Start(w, p), Max(lines) - 1)

(* Its size on the wire, or that of the unfinished frame at the end.       *)
WireSizes(w) ==
  {Behind(w, p) - Start(w, p) : p \in FrameEndings(w)}
    \cup {Len(w) + 1 - Start(w, Len(w) + 1)}

Contents(w) ==
  FlattenSeq([p \in DOMAIN w |-> IF p \in FrameEndings(w) THEN <<Content(w, p)>> ELSE <<>>])

Datas == [k \in DOMAIN frames |-> frames[k].data]

(* The frames are those of the stream as a whole, wherever its chunks have *)
(* ended, and none is sent before it is complete.  The other mode loses    *)
(* and doubles no byte, and all frames but the last that a stream leaves   *)
(* unfinished end with a blank line.                                       *)
FramesMatchStream ==
  IF mode = "strip"
  THEN IF state # "failed" THEN Datas = Contents(wire)
       ELSE IsPrefix(Datas, Contents(wire))
  ELSE LET sent == FlattenSeq(Datas)
       IN  /\ state # "failed" => sent \o framer.frame = wire
           /\ IsPrefix(sent, wire)
           /\ state = "reading" =>
                Len(sent) + 1 \in {1} \cup UNION {{Behind(wire, p), p + 1} : p \in FrameEndings(wire)}

(* The limit is exact: a stream fails if and only if a frame with its      *)
(* delimiter, of which the last byte may come with the next chunk, is      *)
(* longer.                                                                 *)
LimitIsExact == (state = "failed") <=> \E n \in WireSizes(wire) : n > limit

(* Offsets count the bytes that were sent.                                 *)
OffsetsContinue ==
  \A k \in DOMAIN frames :
    frames[k].offset = Len(FlattenSeq(SubSeq(Datas, 1, k - 1)))

(* The well-formedness of the framer: its limit is exact and its offsets   *)
(* continue.                                                               *)
FramerInv == TypeOK /\ LimitIsExact /\ OffsetsContinue

=============================================================================
