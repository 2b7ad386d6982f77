-------------------------- MODULE SessionStoreProofs --------------------------
(***************************************************************************)
(* What the store of records guarantees for any sessions, turns, calls,    *)
(* operations and lengths of logs (harness/sessionstore/localfile): cached *)
(* heads agree with the files, every file decodes, the turns of a file     *)
(* form a chain, and an operation is resumed by one session and never      *)
(* forgotten.                                                              *)
(*                                                                         *)
(* LogOK is what every log satisfies.  AppendKeeps shows it for one more   *)
(* record that the head of the log accepts, ForkKeeps for the copy that a  *)
(* fork makes of its parent; both rest on what replaying a log computes,   *)
(* which is shown by induction over its records.                           *)
(***************************************************************************)
EXTENDS SessionStore, WellFoundedInduction, TLAPS

-----------------------------------------------------------------------------
(* Numbers and positions.                                                  *)

(* A set of numbers has a least element.                                   *)
LEMMA LeastElement ==
  ASSUME NEW T \in SUBSET Nat, T # {}
  PROVE  \E n \in T : \A m \in T : n <= m
<1> DEFINE R == OpToRel(<, Nat)
<1>1. IsWellFoundedOn(R, Nat)
  BY NatLessThanWellFounded
<1>2. \A x \in Nat, y \in Nat : <<x, y>> \in R <=> x < y
  BY DEF OpToRel
<1> HIDE DEF R
<1>3. PICK x \in T : \A y \in T : ~(<<y, x>> \in R)
  BY <1>1, WFMin
<1>4. ASSUME NEW y \in T PROVE x <= y
  <2>1. x \in Nat /\ y \in Nat
    OBVIOUS
  <2>2. ~(y < x)
    BY <1>2, <1>3, <2>1, Zenon
  <2> QED
    BY <2>1, <2>2
<1> QED
  BY <1>4

(* A set that holds 0 and with every number the next one holds them all.   *)
LEMMA Induction ==
  ASSUME NEW T \in SUBSET Nat, 0 \in T, \A n \in T : n + 1 \in T
  PROVE  T = Nat
<1> SUFFICES ASSUME Nat \ T # {} PROVE FALSE
  OBVIOUS
<1>1. PICK n \in Nat \ T : \A m \in Nat \ T : n <= m
  BY LeastElement
<1> QED
  BY <1>1

(* The last of some positions of a sequence.                               *)
LEMMA MaxIs ==
  ASSUME NEW n \in Nat, NEW S \in SUBSET (1 .. n), S # {}
  PROVE  Max(S) \in S /\ \A x \in S : x <= Max(S)
<1> DEFINE T == {n - x : x \in S}
<1>1. T \in SUBSET Nat /\ T # {}
  <2>1. \A x \in S : n - x \in Nat
    OBVIOUS
  <2>2. PICK x \in S : TRUE
    OBVIOUS
  <2>3. n - x \in T
    BY <2>2
  <2> QED
    BY <2>1, <2>3
<1>2. PICK a \in T : \A b \in T : a <= b
  BY <1>1, LeastElement
<1>3. PICK y \in S : a = n - y
  BY <1>2
<1>4. \A x \in S : x <= y
  BY <1>2, <1>3
<1>5. \E x \in S : \A z \in S : x >= z
  BY <1>4
<1> QED
  BY <1>5 DEF Max

-----------------------------------------------------------------------------
(* Records and heads.                                                      *)

(* What a sessionHead is.                                                  *)
HeadType ==
  [seq : Nat, latest : TurnIDs \cup {NoTurn}, turns : SUBSET TurnIDs,
   owned : SUBSET TurnIDs, responded : SUBSET TurnIDs,
   statuses : SUBSET (TurnIDs \X CallIDs), ops : StatusMaps]

(* What it is to be a map of operation statuses.                           *)
LEMMA MapsAre ==
  ASSUME NEW f
  PROVE  f \in StatusMaps <=> f \in [DOMAIN f -> Statuses] /\ DOMAIN f \subseteq OperationIDs
BY DEF StatusMaps

(* The empty map.                                                          *)
LEMMA NoneIs == NoOperations \in StatusMaps /\ DOMAIN NoOperations = {}
<1>1. NoOperations \in [{} -> Statuses] /\ DOMAIN NoOperations = {}
  BY DEF NoOperations, Statuses
<1> QED
  BY <1>1, MapsAre

(* One map over another.                                                   *)
LEMMA OverIs ==
  ASSUME NEW f \in StatusMaps, NEW g \in StatusMaps
  PROVE  Over(f, g) \in StatusMaps /\ DOMAIN Over(f, g) = DOMAIN f \cup DOMAIN g
<1>1. /\ f \in [DOMAIN f -> Statuses] /\ DOMAIN f \subseteq OperationIDs
      /\ g \in [DOMAIN g -> Statuses] /\ DOMAIN g \subseteq OperationIDs
  BY MapsAre
<1>2. Over(f, g) \in [DOMAIN f \cup DOMAIN g -> Statuses]
  BY <1>1 DEF Over
<1> QED
  BY <1>1, <1>2, MapsAre

(* The kinds of records and the fields of each.                            *)
LEMMA RecordIs ==
  ASSUME NEW r \in Record
  PROVE  /\ r.kind \in {"input", "turn", "response", "status", "fork", "operation"}
         /\ r.kind # "operation" => r.seq \in Nat
         /\ r.kind \in {"turn", "response", "status", "fork"} => r.turn \in TurnIDs
         /\ r.kind = "turn" => r.prev \in TurnIDs \cup {NoTurn}
         /\ r.kind = "status" => r.call \in CallIDs /\ r.ops \in StatusMaps
         /\ r.kind = "operation" => r.op \in OperationIDs /\ r.status \in Statuses
BY DEF Record

(* The head of an empty log.                                               *)
LEMMA NewHeadIs ==
  /\ NewSessionHead \in HeadType
  /\ NewSessionHead.seq = 0 /\ NewSessionHead.latest = NoTurn
  /\ NewSessionHead.turns = {} /\ NewSessionHead.ops = NoOperations
BY NoneIs DEF NewSessionHead, HeadType

(* A head with other values of its fields.                                 *)
LEMMA HeadWithTurn ==
  ASSUME NEW h \in HeadType, NEW a \in Nat, NEW t \in TurnIDs, NEW S \in SUBSET TurnIDs,
         NEW T \in SUBSET TurnIDs
  PROVE  [h EXCEPT !.seq = a, !.latest = t, !.turns = S, !.owned = T] \in HeadType
BY DEF HeadType

(* A head with another number and other turns responded to.                *)
LEMMA HeadWithResponse ==
  ASSUME NEW h \in HeadType, NEW a \in Nat, NEW S \in SUBSET TurnIDs
  PROVE  [h EXCEPT !.seq = a, !.responded = S] \in HeadType
BY DEF HeadType

(* A head with other statuses, and other operations.                       *)
LEMMA HeadWithStatus ==
  ASSUME NEW h \in HeadType, NEW a \in Nat, NEW S \in SUBSET (TurnIDs \X CallIDs)
  PROVE  /\ [h EXCEPT !.seq = a, !.statuses = S] \in HeadType
         /\ \A m \in StatusMaps : [h EXCEPT !.seq = a, !.statuses = S, !.ops = m] \in HeadType
BY DEF HeadType

(* The head after a turn and after a response, recorded or inherited.      *)
AfterTurn(h, t) ==
  [h EXCEPT !.seq = @ + 1, !.latest = t, !.turns = @ \cup {t}, !.owned = @ \cup {t}]

(* appendTurn and inheritItem move the head to the turn.                   *)
LEMMA HeadAfterTurn ==
  ASSUME NEW h \in HeadType, NEW t \in TurnIDs
  PROVE  LET e == AfterTurn(h, t)
         IN  /\ e \in HeadType /\ e.seq = h.seq + 1 /\ e.latest = t /\ e.turns = h.turns \cup {t}
             /\ e.statuses = h.statuses /\ e.ops = h.ops
<1> DEFINE S == h.turns \cup {t}
           T == h.owned \cup {t}
           a == h.seq + 1
<1>1. S \in SUBSET TurnIDs /\ T \in SUBSET TurnIDs /\ a \in Nat
  BY DEF HeadType
<1> HIDE DEF S, T, a
<1>2. [h EXCEPT !.seq = a, !.latest = t, !.turns = S, !.owned = T] \in HeadType
  BY <1>1, HeadWithTurn
<1> DEFINE e == [h EXCEPT !.seq = a, !.latest = t, !.turns = S, !.owned = T]
<1>3. /\ e.seq = a /\ e.latest = t /\ e.turns = S
      /\ e.statuses = h.statuses /\ e.ops = h.ops
  BY DEF HeadType
<1> QED
  BY <1>2, <1>3 DEF S, T, a, AfterTurn

(* A response changes the number of items and the turns responded to.      *)
LEMMA HeadAfterResponse ==
  ASSUME NEW h \in HeadType, NEW t \in TurnIDs
  PROVE  LET e == [h EXCEPT !.seq = @ + 1, !.responded = @ \cup {t}]
         IN  /\ e \in HeadType /\ e.seq = h.seq + 1 /\ e.latest = h.latest /\ e.turns = h.turns
             /\ e.statuses = h.statuses /\ e.ops = h.ops
<1> DEFINE S == h.responded \cup {t}
           a == h.seq + 1
<1>1. S \in SUBSET TurnIDs /\ a \in Nat
  BY DEF HeadType
<1> HIDE DEF S, a
<1>2. [h EXCEPT !.seq = a, !.responded = S] \in HeadType
  BY <1>1, HeadWithResponse
<1> DEFINE e == [h EXCEPT !.seq = a, !.responded = S]
<1>3. /\ e.seq = a /\ e.latest = h.latest /\ e.turns = h.turns
      /\ e.statuses = h.statuses /\ e.ops = h.ops
  BY DEF HeadType
<1> QED
  BY <1>2, <1>3 DEF S, a

(* The head of a fork.                                                     *)
LEMMA HeadReset ==
  ASSUME NEW h \in HeadType
  PROVE  LET e == ResetOwnedState([h EXCEPT !.seq = @ + 1])
         IN  /\ e \in HeadType /\ e.seq = h.seq + 1 /\ e.latest = h.latest /\ e.turns = h.turns
             /\ e.ops = NoOperations
<1> DEFINE d == [h EXCEPT !.seq = @ + 1]
           e == [d EXCEPT !.owned = {}, !.responded = {}, !.statuses = {}, !.ops = NoOperations]
<1>1. d \in HeadType /\ d.seq = h.seq + 1 /\ d.latest = h.latest /\ d.turns = h.turns
  BY DEF HeadType
<1>2. ResetOwnedState(d) = e
  BY DEF ResetOwnedState
<1> HIDE DEF d
<1>3. e \in HeadType /\ e.seq = d.seq /\ e.latest = d.latest /\ e.turns = d.turns
      /\ e.ops = NoOperations
  BY <1>1, NoneIs DEF HeadType
<1> QED
  BY <1>1, <1>2, <1>3 DEF d

(* What the append methods make of a head.                                 *)
LEMMA ExtendIs ==
  ASSUME NEW h \in HeadType, NEW r \in Record, r.kind # "fork"
  PROVE  LET e == Extend(h, r)
         IN  /\ e \in HeadType
             /\ e.seq = IF IsItem(r) THEN h.seq + 1 ELSE h.seq
             /\ e.latest = IF r.kind = "turn" THEN r.turn ELSE h.latest
             /\ e.turns = IF r.kind = "turn" THEN h.turns \cup {r.turn} ELSE h.turns
             /\ h.statuses \subseteq e.statuses
             /\ r.kind = "status" => <<r.turn, r.call>> \in e.statuses
             /\ DOMAIN e.ops = IF r.kind = "status" /\ <<r.turn, r.call>> \notin h.statuses
                               THEN DOMAIN r.ops \cup DOMAIN h.ops ELSE DOMAIN h.ops
<1>1. /\ h.seq \in Nat /\ h.latest \in TurnIDs \cup {NoTurn} /\ h.turns \in SUBSET TurnIDs
      /\ h.owned \in SUBSET TurnIDs /\ h.responded \in SUBSET TurnIDs
      /\ h.statuses \in SUBSET (TurnIDs \X CallIDs) /\ h.ops \in StatusMaps
  BY DEF HeadType
<1>2. CASE r.kind = "input"
  <2>1. Extend(h, r) = [h EXCEPT !.seq = @ + 1]
    BY <1>2 DEF Extend
  <2> QED
    BY <1>1, <1>2, <2>1 DEF HeadType, IsItem
<1>3. CASE r.kind = "turn"
  <2>1. Extend(h, r) = AfterTurn(h, r.turn)
    BY <1>3 DEF Extend, AfterTurn
  <2> DEFINE e == Extend(h, r)
  <2>2. r.turn \in TurnIDs
    BY <1>3, RecordIs
  <2>3. /\ e \in HeadType /\ e.seq = h.seq + 1 /\ e.latest = r.turn
        /\ e.turns = h.turns \cup {r.turn} /\ e.statuses = h.statuses /\ e.ops = h.ops
    BY <2>1, <2>2, HeadAfterTurn
  <2> HIDE DEF e
  <2> QED
    BY <1>3, <2>3 DEF IsItem, e
<1>4. CASE r.kind = "response"
  <2>1. Extend(h, r) = [h EXCEPT !.seq = @ + 1, !.responded = @ \cup {r.turn}]
    BY <1>4 DEF Extend
  <2> DEFINE e == Extend(h, r)
  <2>2. r.turn \in TurnIDs
    BY <1>4, RecordIs
  <2>3. /\ e \in HeadType /\ e.seq = h.seq + 1 /\ e.latest = h.latest
        /\ e.turns = h.turns /\ e.statuses = h.statuses /\ e.ops = h.ops
    BY <2>1, <2>2, HeadAfterResponse, Zenon
  <2> HIDE DEF e
  <2> QED
    BY <1>4, <2>3 DEF IsItem, e
<1>5. CASE r.kind = "status"
  <2> DEFINE key == <<r.turn, r.call>>
             ops == IF key \in h.statuses THEN h.ops ELSE Over(r.ops, h.ops)
             S == h.statuses \cup {key}
             a == h.seq + 1
             e == [h EXCEPT !.seq = a, !.statuses = S, !.ops = ops]
  <2>1. Extend(h, r) = e
    BY <1>5 DEF Extend
  <2>2. r.turn \in TurnIDs /\ r.call \in CallIDs /\ r.ops \in StatusMaps
    BY <1>5, RecordIs
  <2>3. /\ ops \in StatusMaps
        /\ DOMAIN ops = IF key \notin h.statuses THEN DOMAIN r.ops \cup DOMAIN h.ops ELSE DOMAIN h.ops
    BY <1>1, <2>2, OverIs
  <2>4. S \in SUBSET (TurnIDs \X CallIDs) /\ a \in Nat /\ h.statuses \subseteq S /\ key \in S
    BY <1>1, <2>2
  <2> HIDE DEF ops, S, a
  <2>5. e \in HeadType
    BY <2>3, <2>4, HeadWithStatus
  <2>6. e.seq = a /\ e.latest = h.latest /\ e.turns = h.turns /\ e.statuses = S /\ e.ops = ops
    BY DEF HeadType
  <2> HIDE DEF e
  <2> QED
    BY <1>5, <2>1, <2>3, <2>4, <2>5, <2>6 DEF IsItem, a
<1>6. CASE r.kind = "operation"
  <2> DEFINE ops == [h.ops EXCEPT ![r.op] = r.status]
  <2>1. Extend(h, r) = [h EXCEPT !.ops = ops]
    BY <1>6 DEF Extend, HeadType
  <2>2. h.ops \in [DOMAIN h.ops -> Statuses] /\ DOMAIN h.ops \subseteq OperationIDs
    BY <1>1, MapsAre
  <2>3. ops \in [DOMAIN h.ops -> Statuses] /\ DOMAIN ops = DOMAIN h.ops
    BY <1>6, <2>2, RecordIs
  <2>4. ops \in StatusMaps
    BY <2>2, <2>3, MapsAre
  <2> HIDE DEF ops
  <2> QED
    BY <1>1, <1>6, <2>1, <2>3, <2>4 DEF HeadType, IsItem
<1> QED
  BY <1>2, <1>3, <1>4, <1>5, <1>6, RecordIs

(* What taking over an item makes of a head.                               *)
LEMMA InheritIs ==
  ASSUME NEW h \in HeadType, NEW r \in Record, h.ops = NoOperations
  PROVE  LET e == Inherit(h, r)
         IN  /\ e \in HeadType
             /\ e.seq = h.seq + 1
             /\ e.latest = IF r.kind = "turn" THEN r.turn ELSE h.latest
             /\ e.turns = IF r.kind = "turn" THEN h.turns \cup {r.turn} ELSE h.turns
             /\ e.ops = NoOperations
<1>1. CASE r.kind \in {"input", "operation"}
  <2>1. Inherit(h, r) = [h EXCEPT !.seq = @ + 1]
    BY <1>1 DEF Inherit
  <2> QED
    BY <1>1, <2>1 DEF HeadType
<1>2. CASE r.kind = "turn"
  <2>1. Inherit(h, r) = AfterTurn(h, r.turn)
    BY <1>2 DEF Inherit, AfterTurn
  <2>2. r.turn \in TurnIDs
    BY <1>2, RecordIs
  <2> DEFINE e == Inherit(h, r)
  <2>3. /\ e \in HeadType /\ e.seq = h.seq + 1 /\ e.latest = r.turn
        /\ e.turns = h.turns \cup {r.turn} /\ e.ops = h.ops
    BY <2>1, <2>2, HeadAfterTurn
  <2> HIDE DEF e
  <2> QED
    BY <1>2, <2>3 DEF e
<1>3. CASE r.kind = "response"
  <2>1. Inherit(h, r) = [h EXCEPT !.seq = @ + 1, !.responded = @ \cup {r.turn}]
    BY <1>3 DEF Inherit
  <2>2. r.turn \in TurnIDs
    BY <1>3, RecordIs
  <2> DEFINE e == Inherit(h, r)
  <2>3. /\ e \in HeadType /\ e.seq = h.seq + 1 /\ e.latest = h.latest
        /\ e.turns = h.turns /\ e.ops = h.ops
    BY <2>1, <2>2, HeadAfterResponse, Zenon
  <2> HIDE DEF e
  <2> QED
    BY <1>3, <2>3 DEF e
<1>4. CASE r.kind = "status"
  <2> DEFINE S == h.statuses \cup {<<r.turn, r.call>>}
             a == h.seq + 1
             e == [h EXCEPT !.seq = a, !.statuses = S]
  <2>1. Inherit(h, r) = e
    BY <1>4 DEF Inherit
  <2>2. S \in SUBSET (TurnIDs \X CallIDs) /\ a \in Nat
    BY <1>4, RecordIs DEF HeadType
  <2> HIDE DEF S, a
  <2>3. e \in HeadType
    BY <2>2, HeadWithStatus
  <2>4. e.seq = a /\ e.latest = h.latest /\ e.turns = h.turns /\ e.ops = h.ops
    BY DEF HeadType
  <2> HIDE DEF e
  <2> QED
    BY <1>4, <2>1, <2>3, <2>4 DEF a
<1>5. CASE r.kind = "fork"
  <2>1. Inherit(h, r) = ResetOwnedState([h EXCEPT !.seq = @ + 1])
    BY <1>5 DEF Inherit
  <2> QED
    BY <1>5, <2>1, HeadReset
<1> QED
  BY <1>1, <1>2, <1>3, <1>4, <1>5, RecordIs

-----------------------------------------------------------------------------
(* The recursive definitions, unrolled by one record.                      *)

(* The head after one more record, inherited or replayed.                  *)
StepOf(h, r, inherited) == IF inherited THEN Inherit(h, r) ELSE Extend(h, r)

HeadsOf(log, fork, f, m) ==
  f = [n \in 0 .. m |-> IF n = 0 THEN NewSessionHead
                        ELSE IF n <= fork THEN Inherit(f[n - 1], log[n])
                        ELSE Extend(f[n - 1], log[n])]

(* The heads of every prefix of a log are defined: by induction on its      *)
(* length.                                                                  *)
LEMMA HeadsExist ==
  ASSUME NEW log, NEW fork
  PROVE  \A m \in Nat : \E f : HeadsOf(log, fork, f, m)
<1> DEFINE T == {m \in Nat : \E f : HeadsOf(log, fork, f, m)}
<1>1. 0 \in T
  <2>1. HeadsOf(log, fork, [n \in 0 .. 0 |-> NewSessionHead], 0)
    BY DEF HeadsOf
  <2> QED
    BY <2>1
<1>2. ASSUME NEW m \in T PROVE m + 1 \in T
  <2>1. PICK f : HeadsOf(log, fork, f, m)
    OBVIOUS
  <2> DEFINE g == [n \in 0 .. m + 1 |-> IF n = m + 1 THEN StepOf(f[m], log[m + 1], m + 1 <= fork)
                                        ELSE f[n]]
  <2>2. HeadsOf(log, fork, g, m + 1)
    <3>1. ASSUME NEW n \in 0 .. m + 1
          PROVE  g[n] = IF n = 0 THEN NewSessionHead
                        ELSE IF n <= fork THEN Inherit(g[n - 1], log[n]) ELSE Extend(g[n - 1], log[n])
      <4>1. CASE n = m + 1
        BY <4>1 DEF StepOf
      <4>2. CASE n # m + 1
        BY <2>1, <4>2 DEF HeadsOf
      <4> QED
        BY <4>1, <4>2
    <3> QED
      BY <3>1 DEF HeadsOf
  <2> QED
    BY <2>2
<1> HIDE DEF T
<1>3. T = Nat
  BY <1>1, <1>2, Induction DEF T
<1> QED
  BY <1>3 DEF T

(* The head after n + 1 records comes from the one after n.                 *)
LEMMA HeadsAre ==
  ASSUME NEW log, NEW fork, Len(log) \in Nat
  PROVE  /\ Heads(log, fork)[0] = NewSessionHead
         /\ \A n \in Nat : n + 1 <= Len(log) =>
              Heads(log, fork)[n + 1] = StepOf(Heads(log, fork)[n], log[n + 1], n + 1 <= fork)
<1>1. Heads(log, fork) = CHOOSE f : HeadsOf(log, fork, f, Len(log))
  BY DEF HeadsOf, Heads
<1>2. \E f : HeadsOf(log, fork, f, Len(log))
  BY HeadsExist
<1>3. HeadsOf(log, fork, Heads(log, fork), Len(log))
  BY <1>1, <1>2
<1> DEFINE f == Heads(log, fork)
<1>4. f = [n \in 0 .. Len(log) |-> IF n = 0 THEN NewSessionHead
                                   ELSE IF n <= fork THEN Inherit(f[n - 1], log[n])
                                   ELSE Extend(f[n - 1], log[n])]
  BY <1>3 DEF HeadsOf
<1> HIDE DEF f
<1>5. f[0] = NewSessionHead
  BY <1>4
<1>6. ASSUME NEW n \in Nat, n + 1 <= Len(log)
      PROVE  f[n + 1] = StepOf(f[n], log[n + 1], n + 1 <= fork)
  <2>1. n + 1 \in 0 .. Len(log) /\ n + 1 # 0 /\ (n + 1) - 1 = n
    BY <1>6
  <2> QED
    BY <1>4, <2>1 DEF StepOf
<1> QED
  BY <1>5, <1>6 DEF f

(* Two logs whose records have the same effect lead to the same heads.      *)
LEMMA SameHeads ==
  ASSUME NEW a, NEW b, NEW fa, NEW fb, NEW k \in Nat,
         Len(a) \in Nat, Len(b) \in Nat, k <= Len(a), k <= Len(b),
         \A n \in 1 .. k : \A h : StepOf(h, a[n], n <= fa) = StepOf(h, b[n], n <= fb)
  PROVE  \A n \in 0 .. k : Heads(a, fa)[n] = Heads(b, fb)[n]
<1> DEFINE T == {n \in Nat : n <= k => Heads(a, fa)[n] = Heads(b, fb)[n]}
<1>1. 0 \in T
  BY HeadsAre
<1>2. ASSUME NEW n \in T PROVE n + 1 \in T
  <2> SUFFICES ASSUME n + 1 <= k PROVE Heads(a, fa)[n + 1] = Heads(b, fb)[n + 1]
    OBVIOUS
  <2>1. n \in Nat /\ Heads(a, fa)[n] = Heads(b, fb)[n]
    OBVIOUS
  <2>2. n + 1 <= Len(a) /\ n + 1 <= Len(b) /\ n + 1 \in 1 .. k
    OBVIOUS
  <2>3. Heads(a, fa)[n + 1] = StepOf(Heads(a, fa)[n], a[n + 1], n + 1 <= fa)
    BY <2>1, <2>2, HeadsAre
  <2>4. Heads(b, fb)[n + 1] = StepOf(Heads(b, fb)[n], b[n + 1], n + 1 <= fb)
    BY <2>1, <2>2, HeadsAre
  <2> QED
    BY <2>1, <2>2, <2>3, <2>4
<1> HIDE DEF T
<1>3. T = Nat
  BY <1>1, <1>2, Induction DEF T
<1> QED
  BY <1>3 DEF T

ItemsFor(log, f, m) ==
  f = [n \in 0 .. m |-> IF n = 0 THEN <<>>
                        ELSE IF IsItem(log[n]) THEN Append(f[n - 1], log[n]) ELSE f[n - 1]]

(* The items of every prefix of a log are defined.                          *)
LEMMA ItemsExist ==
  ASSUME NEW log
  PROVE  \A m \in Nat : \E f : ItemsFor(log, f, m)
<1> DEFINE T == {m \in Nat : \E f : ItemsFor(log, f, m)}
<1>1. 0 \in T
  <2>1. ItemsFor(log, [n \in 0 .. 0 |-> <<>>], 0)
    BY DEF ItemsFor
  <2> QED
    BY <2>1
<1>2. ASSUME NEW m \in T PROVE m + 1 \in T
  <2>1. PICK f : ItemsFor(log, f, m)
    OBVIOUS
  <2> DEFINE e == IF IsItem(log[m + 1]) THEN Append(f[m], log[m + 1]) ELSE f[m]
             g == [n \in 0 .. m + 1 |-> IF n = m + 1 THEN e ELSE f[n]]
  <2>2. ItemsFor(log, g, m + 1)
    <3>1. ASSUME NEW n \in 0 .. m + 1
          PROVE  g[n] = IF n = 0 THEN <<>>
                        ELSE IF IsItem(log[n]) THEN Append(g[n - 1], log[n]) ELSE g[n - 1]
      <4>1. CASE n = m + 1
        <5>1. n - 1 = m /\ g[n] = e /\ g[m] = f[m]
          BY <4>1
        <5> QED
          BY <4>1, <5>1
      <4>2. CASE n # m + 1
        <5>1. n \in 0 .. m /\ g[n] = f[n] /\ (n # 0 => g[n - 1] = f[n - 1])
          BY <4>2
        <5>2. f[n] = IF n = 0 THEN <<>>
                     ELSE IF IsItem(log[n]) THEN Append(f[n - 1], log[n]) ELSE f[n - 1]
          BY <2>1, <5>1, Zenon DEF ItemsFor
        <5> QED
          BY <5>1, <5>2, Zenon
      <4> QED
        BY <4>1, <4>2
    <3> QED
      BY <3>1 DEF ItemsFor
  <2> QED
    BY <2>2
<1> HIDE DEF T
<1>3. T = Nat
  BY <1>1, <1>2, Induction DEF T
<1> QED
  BY <1>3 DEF T

(* One more record is one more item or none.                                *)
LEMMA ItemsAre ==
  ASSUME NEW log, Len(log) \in Nat
  PROVE  /\ ItemsUpTo(log)[0] = <<>>
         /\ \A n \in Nat : n + 1 <= Len(log) =>
              ItemsUpTo(log)[n + 1] =
                IF IsItem(log[n + 1]) THEN Append(ItemsUpTo(log)[n], log[n + 1]) ELSE ItemsUpTo(log)[n]
<1>1. ItemsUpTo(log) = CHOOSE f : ItemsFor(log, f, Len(log))
  BY DEF ItemsFor, ItemsUpTo
<1>2. \E f : ItemsFor(log, f, Len(log))
  BY ItemsExist
<1>3. ItemsFor(log, ItemsUpTo(log), Len(log))
  BY <1>1, <1>2
<1> DEFINE f == ItemsUpTo(log)
<1>4. f = [n \in 0 .. Len(log) |->
             IF n = 0 THEN <<>>
             ELSE IF IsItem(log[n]) THEN Append(f[n - 1], log[n]) ELSE f[n - 1]]
  BY <1>3 DEF ItemsFor
<1> HIDE DEF f
<1>5. f[0] = <<>>
  BY <1>4
<1>6. ASSUME NEW n \in Nat, n + 1 <= Len(log)
      PROVE  f[n + 1] = IF IsItem(log[n + 1]) THEN Append(f[n], log[n + 1]) ELSE f[n]
  <2>1. n + 1 \in 0 .. Len(log) /\ n + 1 # 0 /\ (n + 1) - 1 = n
    BY <1>6
  <2> QED
    BY <1>4, <2>1
<1> QED
  BY <1>5, <1>6 DEF f

(* The items of a prefix are records.                                       *)
LEMMA ItemsType ==
  ASSUME NEW log \in Seq(Record)
  PROVE  \A n \in 0 .. Len(log) : ItemsUpTo(log)[n] \in Seq(Record)
<1> DEFINE T == {n \in Nat : n <= Len(log) => ItemsUpTo(log)[n] \in Seq(Record)}
<1>1. 0 \in T
  <2>1. Len(log) \in Nat /\ <<>> \in Seq(Record)
    OBVIOUS
  <2> QED
    BY <2>1, ItemsAre
<1>2. ASSUME NEW n \in T PROVE n + 1 \in T
  <2> SUFFICES ASSUME n + 1 <= Len(log) PROVE ItemsUpTo(log)[n + 1] \in Seq(Record)
    OBVIOUS
  <2>1. n \in Nat /\ ItemsUpTo(log)[n] \in Seq(Record) /\ log[n + 1] \in Record
    OBVIOUS
  <2>2. ItemsUpTo(log)[n + 1] =
          IF IsItem(log[n + 1]) THEN Append(ItemsUpTo(log)[n], log[n + 1]) ELSE ItemsUpTo(log)[n]
    BY <2>1, ItemsAre
  <2> QED
    BY <2>1, <2>2
<1> HIDE DEF T
<1>3. T = Nat
  BY <1>1, <1>2, Induction DEF T
<1> QED
  BY <1>3 DEF T

(* The items of the first records do not depend on later ones.              *)
LEMMA SameItems ==
  ASSUME NEW a, NEW b, NEW k \in Nat, Len(a) \in Nat, Len(b) \in Nat, k <= Len(a), k <= Len(b),
         \A n \in 1 .. k : a[n] = b[n]
  PROVE  \A n \in 0 .. k : ItemsUpTo(a)[n] = ItemsUpTo(b)[n]
<1> DEFINE T == {n \in Nat : n <= k => ItemsUpTo(a)[n] = ItemsUpTo(b)[n]}
<1>1. 0 \in T
  BY ItemsAre
<1>2. ASSUME NEW n \in T PROVE n + 1 \in T
  <2> SUFFICES ASSUME n + 1 <= k PROVE ItemsUpTo(a)[n + 1] = ItemsUpTo(b)[n + 1]
    OBVIOUS
  <2>1. n \in Nat /\ ItemsUpTo(a)[n] = ItemsUpTo(b)[n] /\ a[n + 1] = b[n + 1]
    OBVIOUS
  <2>2. n + 1 <= Len(a) /\ n + 1 <= Len(b)
    OBVIOUS
  <2>3. ItemsUpTo(a)[n + 1] =
          IF IsItem(a[n + 1]) THEN Append(ItemsUpTo(a)[n], a[n + 1]) ELSE ItemsUpTo(a)[n]
    BY <2>1, <2>2, ItemsAre
  <2>4. ItemsUpTo(b)[n + 1] =
          IF IsItem(b[n + 1]) THEN Append(ItemsUpTo(b)[n], b[n + 1]) ELSE ItemsUpTo(b)[n]
    BY <2>1, <2>2, ItemsAre
  <2> QED
    BY <2>1, <2>3, <2>4
<1> HIDE DEF T
<1>3. T = Nat
  BY <1>1, <1>2, Induction DEF T
<1> QED
  BY <1>3 DEF T

-----------------------------------------------------------------------------
(* The inductive invariant.                                                *)

(* The turns of a log, inherited or not.                                   *)
TurnsOf(log) == {log[n].turn : n \in {m \in DOMAIN log : log[m].kind = "turn"}}

(* What TurnsChained says of one log.                                      *)
Chained(log) ==
  \A n \in DOMAIN log :
    /\ log[n].kind = "turn" => log[n].prev = LastTurn(log, n - 1)
    /\ log[n].kind = "fork" => log[n].turn = LastTurn(log, n - 1)

(* No turn is recorded twice: a fork's boundary depends on it.             *)
TurnsDiffer(log) ==
  \A m, n \in DOMAIN log :
    log[m].kind = "turn" /\ log[n].kind = "turn" /\ log[m].turn = log[n].turn => m = n

(* The head of a log is what the log says.                                 *)
HeadFits(log) ==
  LET h == Decode(log)
  IN  /\ h \in HeadType
      /\ h.seq = Len(ItemsOf(log))
      /\ h.latest = LastTurn(log, Len(log))
      /\ h.turns = TurnsOf(log)

(* It knows the calls and the operations of the statuses after the fork.   *)
StatusesKnown(log) ==
  \A n \in DOMAIN log :
    n > LastFork(log) /\ log[n].kind = "status" =>
      /\ <<log[n].turn, log[n].call>> \in Decode(log).statuses
      /\ DOMAIN log[n].ops \subseteq DOMAIN Decode(log).ops

(* What every log in the store satisfies.                                  *)
LogOK(log) ==
  /\ log \in Seq(Record)
  /\ Decodable(log) /\ Chained(log) /\ TurnsDiffer(log) /\ HeadFits(log) /\ StatusesKnown(log)

(* The operations of a session were made up for it, and for no other.      *)
OperationsOwned ==
  /\ \A s \in Existing : DOMAIN Decode(logs[s]).ops \subseteq used
  /\ \A s1, s2 \in Existing :
       s1 # s2 => DOMAIN Decode(logs[s1]).ops \cap DOMAIN Decode(logs[s2]).ops = {}

(* The files are in order, the cache agrees with them, and no two sessions *)
(* have an operation in common.                                            *)
RecordsInv ==
  /\ DOMAIN logs = Sessions /\ DOMAIN cache = Sessions
  /\ used \subseteq TurnIDs \cup OperationIDs
  /\ \A s \in Existing : LogOK(logs[s]) /\ Len(logs[s]) <= MaxRecords
  /\ \A s \in Sessions : cache[s] # NoHead => s \in Existing /\ cache[s] = Decode(logs[s])
  /\ OperationsOwned

-----------------------------------------------------------------------------
(* The last fork and the last turn of a log.                               *)

(* No fork comes after the last one.                                       *)
LEMMA LastForkIs ==
  ASSUME NEW log \in Seq(Record)
  PROVE  /\ LastFork(log) \in 0 .. Len(log)
         /\ \A n \in DOMAIN log : log[n].kind = "fork" => n <= LastFork(log)
         /\ LastFork(log) > 0 => log[LastFork(log)].kind = "fork"
<1> DEFINE S == {n \in DOMAIN log : log[n].kind = "fork"}
<1>1. LastFork(log) = IF S = {} THEN 0 ELSE Max(S)
  BY DEF LastFork
<1>2. S \in SUBSET (1 .. Len(log)) /\ Len(log) \in Nat
  OBVIOUS
<1>3. CASE S = {}
  BY <1>1, <1>2, <1>3
<1>4. CASE S # {}
  <2>1. Max(S) \in S /\ \A x \in S : x <= Max(S)
    BY <1>2, <1>4, MaxIs
  <2> QED
    BY <1>1, <1>2, <1>4, <2>1
<1> QED
  BY <1>3, <1>4

(* A fork without another after it is the last one.                        *)
LEMMA LastForkAt ==
  ASSUME NEW log \in Seq(Record), NEW k \in 0 .. Len(log), k > 0 => log[k].kind = "fork",
         \A n \in DOMAIN log : n > k => log[n].kind # "fork"
  PROVE  LastFork(log) = k
<1>1. LastFork(log) \in 0 .. Len(log) /\ LastFork(log) <= k
  <2>1. LastFork(log) > 0 => LastFork(log) \in DOMAIN log
    BY LastForkIs
  <2> QED
    BY <2>1, LastForkIs
<1>2. k <= LastFork(log)
  <2>1. k > 0 => k \in DOMAIN log
    OBVIOUS
  <2> QED
    BY <1>1, <2>1, LastForkIs
<1> QED
  BY <1>1, <1>2

(* The last turn of no records, ...                                        *)
LEMMA LastTurnNone ==
  ASSUME NEW log
  PROVE  LastTurn(log, 0) = NoTurn
BY DEF LastTurn

(* ... with one more record, ...                                           *)
LEMMA LastTurnNext ==
  ASSUME NEW log, NEW n \in Nat
  PROVE  LastTurn(log, n + 1) =
           IF log[n + 1].kind = "turn" THEN log[n + 1].turn ELSE LastTurn(log, n)
<1> DEFINE S == {m \in 1 .. n : log[m].kind = "turn"}
           T == {m \in 1 .. n + 1 : log[m].kind = "turn"}
<1>1. S \in SUBSET (1 .. n) /\ T \in SUBSET (1 .. n + 1) /\ n + 1 \in Nat
  OBVIOUS
<1>2. /\ LastTurn(log, n) = IF S = {} THEN NoTurn ELSE log[Max(S)].turn
      /\ LastTurn(log, n + 1) = IF T = {} THEN NoTurn ELSE log[Max(T)].turn
  BY DEF LastTurn
<1>3. CASE log[n + 1].kind = "turn"
  <2>1. n + 1 \in T
    BY <1>3
  <2>2. Max(T) \in T /\ n + 1 <= Max(T)
    BY <1>1, <2>1, MaxIs
  <2>3. Max(T) = n + 1
    BY <1>1, <2>2
  <2> QED
    BY <1>2, <1>3, <2>1, <2>3
<1>4. CASE log[n + 1].kind # "turn"
  <2>1. T = S
    BY <1>4
  <2> QED
    BY <1>2, <1>4, <2>1
<1> QED
  BY <1>3, <1>4

(* ... and of two logs with the same turns.                                *)
LEMMA LastTurnSame ==
  ASSUME NEW a, NEW b, NEW n \in Nat,
         \A m \in 1 .. n : /\ a[m].kind = "turn" <=> b[m].kind = "turn"
                           /\ a[m].kind = "turn" => a[m].turn = b[m].turn
  PROVE  LastTurn(a, n) = LastTurn(b, n)
<1> DEFINE S == {m \in 1 .. n : a[m].kind = "turn"}
           T == {m \in 1 .. n : b[m].kind = "turn"}
<1>1. S = T /\ S \in SUBSET (1 .. n)
  OBVIOUS
<1>2. /\ LastTurn(a, n) = IF S = {} THEN NoTurn ELSE a[Max(S)].turn
      /\ LastTurn(b, n) = IF T = {} THEN NoTurn ELSE b[Max(T)].turn
  BY DEF LastTurn
<1>3. CASE S = {}
  BY <1>1, <1>2, <1>3
<1>4. CASE S # {}
  <2>1. Max(S) \in S
    BY <1>1, <1>4, MaxIs
  <2>2. a[Max(S)].turn = b[Max(S)].turn
    BY <2>1
  <2> HIDE DEF S, T
  <2> QED
    BY <1>1, <1>2, <1>4, <2>2
<1> QED
  BY <1>3, <1>4

(* The last turn is the one that no other follows.                         *)
LEMMA LastTurnAt ==
  ASSUME NEW log, NEW n \in Nat, NEW k \in 1 .. n, log[k].kind = "turn",
         \A m \in 1 .. n : m > k => log[m].kind # "turn"
  PROVE  LastTurn(log, n) = log[k].turn
<1> DEFINE S == {m \in 1 .. n : log[m].kind = "turn"}
<1>1. S \in SUBSET (1 .. n) /\ k \in S
  OBVIOUS
<1>2. Max(S) \in S /\ k <= Max(S)
  BY <1>1, MaxIs
<1>3. Max(S) = k
  BY <1>2
<1>4. LastTurn(log, n) = log[Max(S)].turn
  BY <1>1 DEF LastTurn
<1> QED
  BY <1>3, <1>4

(* Either there is no turn among the first records, or one of them is last.*)
LEMMA LastTurnIs ==
  ASSUME NEW log, NEW n \in Nat
  PROVE  \/ LastTurn(log, n) = NoTurn /\ \A m \in 1 .. n : log[m].kind # "turn"
         \/ \E k \in 1 .. n : /\ log[k].kind = "turn" /\ LastTurn(log, n) = log[k].turn
                              /\ \A m \in 1 .. n : m > k => log[m].kind # "turn"
<1> DEFINE S == {m \in 1 .. n : log[m].kind = "turn"}
<1>1. CASE S = {}
  BY <1>1 DEF LastTurn
<1>2. CASE S # {}
  <2>1. S \in SUBSET (1 .. n)
    OBVIOUS
  <2>2. Max(S) \in S /\ \A x \in S : x <= Max(S)
    BY <1>2, <2>1, MaxIs
  <2>3. LastTurn(log, n) = log[Max(S)].turn
    BY <1>2 DEF LastTurn
  <2>4. \A m \in 1 .. n : m > Max(S) => log[m].kind # "turn"
    BY <2>2
  <2> QED
    BY <2>2, <2>3, <2>4
<1> QED
  BY <1>1, <1>2

-----------------------------------------------------------------------------
(* One more record.                                                        *)

(* An empty log.                                                           *)
LEMMA EmptyLogOK == LogOK(<<>>) /\ Decode(<<>>) = NewSessionHead
<1>1. <<>> \in Seq(Record) /\ Len(<<>>) = 0 /\ DOMAIN <<>> = {}
  OBVIOUS
<1>2. LastFork(<<>>) = 0
  <2>1. {n \in DOMAIN <<>> : <<>>[n].kind = "fork"} = {}
    BY <1>1
  <2> QED
    BY <2>1 DEF LastFork
<1>3. Decode(<<>>) = NewSessionHead
  BY <1>1, HeadsAre DEF Decode
<1>4. ItemsOf(<<>>) = <<>>
  BY <1>1, ItemsAre DEF ItemsOf
<1>5. TurnsOf(<<>>) = {}
  BY <1>1 DEF TurnsOf
<1>6. Decodable(<<>>)
  BY <1>1, <1>2 DEF Decodable
<1>7. HeadFits(<<>>)
  BY <1>1, <1>3, <1>4, <1>5, NewHeadIs, LastTurnNone DEF HeadFits
<1> QED
  BY <1>1, <1>3, <1>6, <1>7 DEF LogOK, Chained, TurnsDiffer, StatusesKnown

(* What decoding and the items of a log become with one more record.       *)
LEMMA OneMore ==
  ASSUME NEW log \in Seq(Record), NEW r \in Record, r.kind # "fork"
  PROVE  LET longer == Append(log, r)
             k == Len(log)
         IN  /\ longer \in Seq(Record) /\ Len(longer) = k + 1 /\ longer[k + 1] = r
             /\ \A n \in 1 .. k : longer[n] = log[n]
             /\ LastFork(longer) = LastFork(log)
             /\ \A n \in 0 .. k : /\ Heads(longer, LastFork(log))[n] = Heads(log, LastFork(log))[n]
                                  /\ ItemsUpTo(longer)[n] = ItemsUpTo(log)[n]
                                  /\ LastTurn(longer, n) = LastTurn(log, n)
             /\ Decode(longer) = Extend(Decode(log), r)
             /\ ItemsOf(longer) = IF IsItem(r) THEN Append(ItemsOf(log), r) ELSE ItemsOf(log)
             /\ LastTurn(longer, k + 1) = IF r.kind = "turn" THEN r.turn ELSE LastTurn(log, k)
             /\ TurnsOf(longer) = IF r.kind = "turn" THEN TurnsOf(log) \cup {r.turn} ELSE TurnsOf(log)
<1> DEFINE longer == Append(log, r)
           k == Len(log)
           fork == LastFork(log)
<1>1. /\ longer \in Seq(Record) /\ Len(longer) = k + 1 /\ longer[k + 1] = r /\ k \in Nat
      /\ DOMAIN longer = 1 .. k + 1 /\ DOMAIN log = 1 .. k
      /\ \A n \in 1 .. k : longer[n] = log[n]
  OBVIOUS
<1>2. fork \in 0 .. k
  BY LastForkIs
<1> HIDE DEF longer, k, fork
<1>3. LastFork(longer) = fork
  <2>1. fork > 0 => longer[fork].kind = "fork"
    BY <1>1, <1>2, LastForkIs DEF fork
  <2>2. ASSUME NEW n \in DOMAIN longer, n > fork PROVE longer[n].kind # "fork"
    BY <1>1, <1>2, <2>2, LastForkIs DEF fork
  <2>3. fork \in 0 .. Len(longer)
    BY <1>1, <1>2
  <2> QED
    BY <1>1, <2>1, <2>2, <2>3, LastForkAt
<1>4. \A n \in 0 .. k : Heads(longer, fork)[n] = Heads(log, fork)[n]
  <2>1. \A n \in 1 .. k : \A h : StepOf(h, longer[n], n <= fork) = StepOf(h, log[n], n <= fork)
    BY <1>1
  <2>2. Len(longer) \in Nat /\ Len(log) \in Nat /\ k <= Len(longer) /\ k <= Len(log)
    BY <1>1 DEF k
  <2> QED
    BY <1>1, <2>1, <2>2, SameHeads
<1>5. \A n \in 0 .. k : ItemsUpTo(longer)[n] = ItemsUpTo(log)[n]
  <2>1. Len(longer) \in Nat /\ Len(log) \in Nat /\ k <= Len(longer) /\ k <= Len(log)
    BY <1>1 DEF k
  <2> QED
    BY <1>1, <2>1, SameItems
<1>6. \A n \in 0 .. k : LastTurn(longer, n) = LastTurn(log, n)
  <2>1. ASSUME NEW n \in 0 .. k PROVE LastTurn(longer, n) = LastTurn(log, n)
    <3>1. n \in Nat /\ \A m \in 1 .. n : longer[m] = log[m]
      BY <1>1
    <3> QED
      BY <3>1, LastTurnSame
  <2> QED
    BY <2>1
<1>7. Decode(longer) = Extend(Decode(log), r)
  <2>1. Decode(longer) = Heads(longer, fork)[k + 1] /\ Decode(log) = Heads(log, fork)[k]
    BY <1>1, <1>3 DEF Decode, k, fork
  <2>2. Heads(longer, fork)[k + 1] = StepOf(Heads(longer, fork)[k], longer[k + 1], k + 1 <= fork)
    BY <1>1, HeadsAre
  <2>3. ~(k + 1 <= fork) /\ k \in 0 .. k
    BY <1>1, <1>2
  <2> QED
    BY <1>1, <1>4, <2>1, <2>2, <2>3 DEF StepOf
<1>8. ItemsOf(longer) = IF IsItem(r) THEN Append(ItemsOf(log), r) ELSE ItemsOf(log)
  <2>1. ItemsOf(longer) = ItemsUpTo(longer)[k + 1] /\ ItemsOf(log) = ItemsUpTo(log)[k] /\ k \in 0 .. k
    BY <1>1 DEF ItemsOf, k
  <2>2. ItemsUpTo(longer)[k + 1] =
          IF IsItem(longer[k + 1]) THEN Append(ItemsUpTo(longer)[k], longer[k + 1]) ELSE ItemsUpTo(longer)[k]
    BY <1>1, ItemsAre
  <2> QED
    BY <1>1, <1>5, <2>1, <2>2
<1>9. LastTurn(longer, k + 1) = IF r.kind = "turn" THEN r.turn ELSE LastTurn(log, k)
  <2>1. k \in 0 .. k
    BY <1>1
  <2> QED
    BY <1>1, <1>6, <2>1, LastTurnNext
<1>10. TurnsOf(longer) = IF r.kind = "turn" THEN TurnsOf(log) \cup {r.turn} ELSE TurnsOf(log)
  <2>1. ASSUME NEW t \in TurnsOf(longer) PROVE t \in TurnsOf(log) \/ (r.kind = "turn" /\ r.turn = t)
    <3>1. PICK n \in 1 .. k + 1 : longer[n].kind = "turn" /\ longer[n].turn = t
      BY <1>1, <2>1 DEF TurnsOf
    <3>2. CASE n = k + 1
      BY <1>1, <3>1, <3>2
    <3>3. CASE n # k + 1
      <4>1. n \in DOMAIN log /\ log[n].kind = "turn" /\ log[n].turn = t
        BY <1>1, <3>1, <3>3
      <4>2. t \in TurnsOf(log)
        BY <4>1, Zenon DEF TurnsOf
      <4> QED
        BY <4>2
    <3> QED
      BY <3>2, <3>3
  <2>2. ASSUME NEW t \in TurnsOf(log) PROVE t \in TurnsOf(longer)
    BY <1>1, <2>2 DEF TurnsOf
  <2>3. r.kind = "turn" => r.turn \in TurnsOf(longer)
    BY <1>1 DEF TurnsOf
  <2>4. CASE r.kind = "turn"
    BY <2>1, <2>2, <2>3, <2>4
  <2>5. CASE r.kind # "turn"
    BY <2>1, <2>2, <2>5
  <2> QED
    BY <2>4, <2>5
<1> QED
  BY <1>1, <1>3, <1>4, <1>5, <1>6, <1>7, <1>8, <1>9, <1>10 DEF longer, k, fork

(* A record that the head of a log accepts keeps the log in order.         *)
LEMMA AppendKeeps ==
  ASSUME NEW log, LogOK(log), NEW r \in Record, Accepts(Decode(log), r),
         IsItem(r) => r.seq = Decode(log).seq + 1,
         r.kind = "status" => DOMAIN r.ops \subseteq DOMAIN Extend(Decode(log), r).ops
  PROVE  LogOK(Append(log, r)) /\ Decode(Append(log, r)) = Extend(Decode(log), r)
<1> DEFINE longer == Append(log, r)
           k == Len(log)
           h == Decode(log)
           e == Extend(h, r)
           fork == LastFork(log)
<1>1. log \in Seq(Record) /\ k \in Nat /\ DOMAIN log = 1 .. k
  BY DEF LogOK
<1>2. r.kind # "fork"
  BY DEF Accepts
<1>3. /\ longer \in Seq(Record) /\ Len(longer) = k + 1 /\ longer[k + 1] = r
      /\ \A n \in 1 .. k : longer[n] = log[n]
      /\ DOMAIN longer = 1 .. k + 1
  BY <1>1, <1>2, OneMore
<1>4. LastFork(longer) = fork /\ Decode(longer) = e
  BY <1>1, <1>2, OneMore
<1>5. \A n \in 0 .. k : /\ Heads(longer, fork)[n] = Heads(log, fork)[n]
                        /\ ItemsUpTo(longer)[n] = ItemsUpTo(log)[n]
                        /\ LastTurn(longer, n) = LastTurn(log, n)
  BY <1>1, <1>2, OneMore
<1>6. /\ ItemsOf(longer) = IF IsItem(r) THEN Append(ItemsOf(log), r) ELSE ItemsOf(log)
      /\ LastTurn(longer, k + 1) = IF r.kind = "turn" THEN r.turn ELSE LastTurn(log, k)
      /\ TurnsOf(longer) = IF r.kind = "turn" THEN TurnsOf(log) \cup {r.turn} ELSE TurnsOf(log)
  BY <1>1, <1>2, OneMore
<1>7. /\ h \in HeadType /\ h.seq = Len(ItemsOf(log)) /\ h.latest = LastTurn(log, k)
      /\ h.turns = TurnsOf(log)
  BY DEF LogOK, HeadFits
<1>8. fork \in 0 .. k
  BY <1>1, LastForkIs
<1>9. /\ e \in HeadType
      /\ e.seq = IF IsItem(r) THEN h.seq + 1 ELSE h.seq
      /\ e.latest = IF r.kind = "turn" THEN r.turn ELSE h.latest
      /\ e.turns = IF r.kind = "turn" THEN h.turns \cup {r.turn} ELSE h.turns
      /\ h.statuses \subseteq e.statuses
      /\ r.kind = "status" => <<r.turn, r.call>> \in e.statuses
      /\ DOMAIN h.ops \subseteq DOMAIN e.ops
  BY <1>2, <1>7, ExtendIs
<1>10. ItemsOf(log) \in Seq(Record) /\ ItemsOf(log) = ItemsUpTo(log)[k]
  BY <1>1, ItemsType DEF ItemsOf
<1>11. Len(ItemsOf(longer)) = IF IsItem(r) THEN Len(ItemsOf(log)) + 1 ELSE Len(ItemsOf(log))
  BY <1>6, <1>10
<1>12. ItemsOf(longer) = ItemsUpTo(longer)[k + 1]
  BY <1>3 DEF ItemsOf
<1>13. h = Heads(log, fork)[k]
  BY DEF Decode
<1> HIDE DEF longer, k, h, e, fork
<1>14. Decodable(longer)
  <2>1. ASSUME NEW n \in DOMAIN longer, IsItem(longer[n])
        PROVE  longer[n].seq = Len(ItemsUpTo(longer)[n])
    <3>1. CASE n = k + 1
      BY <1>3, <1>7, <1>11, <1>12, <2>1, <3>1 DEF h
    <3>2. CASE n # k + 1
      <4>1. n \in DOMAIN log /\ n \in 0 .. k /\ longer[n] = log[n]
        BY <1>1, <1>3, <2>1, <3>2
      <4> QED
        BY <1>5, <2>1, <4>1 DEF LogOK, Decodable
    <3> QED
      BY <3>1, <3>2
  <2>2. ASSUME NEW n \in 1 .. fork
        PROVE  longer[n].kind # "operation" /\ (longer[n].kind = "status" => longer[n].ops = NoOperations)
    <3>1. longer[n] = log[n]
      BY <1>1, <1>3, <1>8, <2>2
    <3> QED
      BY <2>2, <3>1 DEF LogOK, Decodable, fork
  <2>3. ASSUME NEW n \in fork + 1 .. k + 1
        PROVE  Accepts(Heads(longer, fork)[n - 1], longer[n])
    <3>1. CASE n = k + 1
      <4>1. n - 1 = k /\ k \in 0 .. k /\ longer[n] = r
        BY <1>1, <1>3, <3>1
      <4> QED
        BY <1>5, <1>13, <4>1 DEF h
    <3>2. CASE n # k + 1
      <4>1. n \in fork + 1 .. k /\ n - 1 \in 0 .. k /\ longer[n] = log[n]
        BY <1>1, <1>3, <1>8, <2>3, <3>2
      <4>2. Accepts(Heads(log, fork)[n - 1], log[n])
        BY <4>1 DEF LogOK, Decodable, fork, k
      <4> QED
        BY <1>5, <4>1, <4>2
    <3> QED
      BY <3>1, <3>2
  <2> QED
    BY <1>3, <1>4, <2>1, <2>2, <2>3 DEF Decodable
<1>15. Chained(longer)
  <2> SUFFICES ASSUME NEW n \in DOMAIN longer
               PROVE  /\ longer[n].kind = "turn" => longer[n].prev = LastTurn(longer, n - 1)
                      /\ longer[n].kind = "fork" => longer[n].turn = LastTurn(longer, n - 1)
    BY DEF Chained
  <2>1. CASE n = k + 1
    <3>1. n - 1 = k /\ k \in 0 .. k /\ longer[n] = r
      BY <1>1, <1>3, <2>1
    <3>2. r.kind = "turn" => r.prev = h.latest
      BY DEF Accepts, h
    <3> QED
      BY <1>2, <1>5, <1>7, <3>1, <3>2
  <2>2. CASE n # k + 1
    <3>1. n \in DOMAIN log /\ n - 1 \in 0 .. k /\ longer[n] = log[n]
      BY <1>1, <1>3, <2>2
    <3>2. LastTurn(longer, n - 1) = LastTurn(log, n - 1)
      BY <1>5, <3>1
    <3> QED
      BY <3>1, <3>2 DEF LogOK, Chained
  <2> QED
    BY <2>1, <2>2
<1>16. TurnsDiffer(longer)
  <2>1. r.kind = "turn" => r.turn \notin TurnsOf(log)
    BY <1>7 DEF Accepts, h
  <2>2. ASSUME NEW n \in 1 .. k, log[n].kind = "turn", r.kind = "turn" PROVE log[n].turn # r.turn
    BY <1>1, <2>1, <2>2 DEF TurnsOf
  <2> SUFFICES ASSUME NEW m \in DOMAIN longer, NEW n \in DOMAIN longer,
                      longer[m].kind = "turn", longer[n].kind = "turn", longer[m].turn = longer[n].turn
               PROVE  m = n
    BY DEF TurnsDiffer
  <2>3. CASE m = k + 1 /\ n # k + 1
    <3>1. n \in 1 .. k /\ longer[n] = log[n] /\ longer[m] = r
      BY <1>1, <1>3, <2>3
    <3> QED
      BY <2>2, <3>1
  <2>4. CASE n = k + 1 /\ m # k + 1
    <3>1. m \in 1 .. k /\ longer[m] = log[m] /\ longer[n] = r
      BY <1>1, <1>3, <2>4
    <3> QED
      BY <2>2, <3>1
  <2>5. CASE m # k + 1 /\ n # k + 1
    <3>1. m \in DOMAIN log /\ n \in DOMAIN log /\ longer[m] = log[m] /\ longer[n] = log[n]
      BY <1>1, <1>3, <2>5
    <3> QED
      BY <3>1 DEF LogOK, TurnsDiffer
  <2> QED
    BY <2>3, <2>4, <2>5
<1>17. HeadFits(longer)
  <2>1. e.seq = Len(ItemsOf(longer)) /\ e.latest = LastTurn(longer, k + 1) /\ e.turns = TurnsOf(longer)
    BY <1>6, <1>7, <1>9, <1>11
  <2> QED
    BY <1>3, <1>4, <1>9, <2>1 DEF HeadFits
<1>18. StatusesKnown(longer)
  <2> SUFFICES ASSUME NEW n \in DOMAIN longer, n > fork, longer[n].kind = "status"
               PROVE  <<longer[n].turn, longer[n].call>> \in e.statuses /\ DOMAIN longer[n].ops \subseteq DOMAIN e.ops
    BY <1>4 DEF StatusesKnown
  <2>1. CASE n = k + 1
    BY <1>3, <1>9, <2>1 DEF e, h
  <2>2. CASE n # k + 1
    <3>1. n \in DOMAIN log /\ longer[n] = log[n]
      BY <1>1, <1>3, <2>2
    <3>2. <<log[n].turn, log[n].call>> \in h.statuses /\ DOMAIN log[n].ops \subseteq DOMAIN h.ops
      BY <3>1 DEF LogOK, StatusesKnown, fork, h
    <3> QED
      BY <1>9, <3>1, <3>2
  <2> QED
    BY <2>1, <2>2
<1> QED
  BY <1>3, <1>4, <1>14, <1>15, <1>16, <1>17, <1>18 DEF LogOK, longer, e, h

-----------------------------------------------------------------------------
(* A fork.                                                                 *)

(* Where the records of a log are among its items.                         *)
PlacedUpTo(log, n) ==
  LET items == ItemsUpTo(log)[n]
      at(m) == Len(ItemsUpTo(log)[m])
  IN  /\ \A m \in 0 .. n : at(m) <= Len(items)
      /\ \A m \in 1 .. n : IsItem(log[m]) => at(m) \in 1 .. Len(items) /\ items[at(m)] = log[m]
      /\ \A k \in 1 .. Len(items) : \E m \in 1 .. n : IsItem(log[m]) /\ at(m) = k
      /\ \A l, m \in 1 .. n : l < m /\ IsItem(log[m]) => at(l) < at(m)

(* The items of a prefix are in place, for every prefix of a log.          *)
LEMMA ItemsPlacedUpTo ==
  ASSUME NEW log \in Seq(Record)
  PROVE  PlacedUpTo(log, Len(log))
<1> DEFINE T == {n \in Nat : n <= Len(log) => PlacedUpTo(log, n)}
<1>1. 0 \in T
  <2>1. Len(log) \in Nat
    OBVIOUS
  <2>2. ItemsUpTo(log)[0] = <<>>
    BY <2>1, ItemsAre
  <2> QED
    BY <2>2 DEF PlacedUpTo
<1>2. ASSUME NEW n \in T PROVE n + 1 \in T
  <2> SUFFICES ASSUME n + 1 <= Len(log) PROVE PlacedUpTo(log, n + 1)
    OBVIOUS
  <2>1. n \in Nat /\ Len(log) \in Nat /\ PlacedUpTo(log, n)
    OBVIOUS
  <2> DEFINE a == ItemsUpTo(log)[n]
             b == ItemsUpTo(log)[n + 1]
             r == log[n + 1]
             at(m) == Len(ItemsUpTo(log)[m])
  <2>2. a \in Seq(Record) /\ r \in Record
    BY <2>1, ItemsType
  <2>3. b = IF IsItem(r) THEN Append(a, r) ELSE a
    BY <2>1, ItemsAre
  <2>4. \A m \in 0 .. n + 1 : at(m) \in Nat
    BY <2>1, ItemsType
  <2>5. /\ \A m \in 0 .. n : at(m) <= Len(a)
        /\ \A m \in 1 .. n : IsItem(log[m]) => at(m) \in 1 .. Len(a) /\ a[at(m)] = log[m]
        /\ \A k \in 1 .. Len(a) : \E m \in 1 .. n : IsItem(log[m]) /\ at(m) = k
        /\ \A l, m \in 1 .. n : l < m /\ IsItem(log[m]) => at(l) < at(m)
    BY <2>1 DEF PlacedUpTo
  <2>6. at(n + 1) = Len(b)
    OBVIOUS
  <2> HIDE DEF a, b, r, at
  <2>7. CASE IsItem(r)
    <3>1. /\ Len(a) \in Nat /\ Len(b) = Len(a) + 1 /\ b[Len(b)] = r
          /\ \A k \in 1 .. Len(a) : b[k] = a[k]
      BY <2>2, <2>3, <2>7
    <3>2. \A m \in 0 .. n + 1 : at(m) <= Len(b)
      BY <2>1, <2>4, <2>5, <2>6, <3>1
    <3>3. ASSUME NEW m \in 1 .. n + 1, IsItem(log[m]) PROVE at(m) \in 1 .. Len(b) /\ b[at(m)] = log[m]
      <4>1. CASE m = n + 1
        BY <2>6, <3>1, <4>1 DEF r
      <4>2. CASE m # n + 1
        BY <2>1, <2>5, <3>1, <3>3, <4>2
      <4> QED
        BY <4>1, <4>2
    <3>4. ASSUME NEW k \in 1 .. Len(b) PROVE \E m \in 1 .. n + 1 : IsItem(log[m]) /\ at(m) = k
      <4>1. CASE k = Len(b)
        BY <2>1, <2>6, <2>7, <4>1 DEF r
      <4>2. CASE k # Len(b)
        <5>1. PICK m \in 1 .. n : IsItem(log[m]) /\ at(m) = k
          BY <2>5, <3>1, <4>2
        <5> QED
          BY <2>1, <5>1
      <4> QED
        BY <4>1, <4>2
    <3>5. ASSUME NEW l \in 1 .. n + 1, NEW m \in 1 .. n + 1, l < m, IsItem(log[m]) PROVE at(l) < at(m)
      <4>1. l \in 0 .. n /\ l \in 1 .. n /\ at(l) \in Nat
        BY <2>1, <2>4, <3>5
      <4>2. CASE m = n + 1
        BY <2>5, <2>6, <3>1, <4>1, <4>2
      <4>3. CASE m # n + 1
        <5>1. m \in 1 .. n
          BY <2>1, <4>3
        <5> QED
          BY <2>5, <3>5, <4>1, <5>1, Zenon
      <4> QED
        BY <4>2, <4>3
    <3> QED
      BY <3>2, <3>3, <3>4, <3>5 DEF PlacedUpTo, b, at
  <2>8. CASE ~IsItem(r)
    <3>1. b = a
      BY <2>3, <2>8
    <3>2. \A m \in 0 .. n + 1 : at(m) <= Len(b)
      BY <2>1, <2>4, <2>5, <2>6, <3>1
    <3>3. ASSUME NEW m \in 1 .. n + 1, IsItem(log[m])
          PROVE  m \in 1 .. n
      BY <2>1, <2>8, <3>3 DEF r
    <3>4. \A m \in 1 .. n + 1 : IsItem(log[m]) => at(m) \in 1 .. Len(b) /\ b[at(m)] = log[m]
      BY <2>5, <3>1, <3>3
    <3>5. ASSUME NEW k \in 1 .. Len(b) PROVE \E m \in 1 .. n + 1 : IsItem(log[m]) /\ at(m) = k
      <4>1. PICK m \in 1 .. n : IsItem(log[m]) /\ at(m) = k
        BY <2>5, <3>1
      <4> QED
        BY <2>1, <4>1
    <3>6. ASSUME NEW l \in 1 .. n + 1, NEW m \in 1 .. n + 1, l < m, IsItem(log[m]) PROVE at(l) < at(m)
      <4>1. l \in 1 .. n /\ m \in 1 .. n
        BY <2>1, <3>3, <3>6
      <4> QED
        BY <2>5, <3>6, <4>1
    <3> QED
      BY <3>2, <3>4, <3>5, <3>6 DEF PlacedUpTo, b, at
  <2> QED
    BY <2>7, <2>8
<1> HIDE DEF T
<1>3. T = Nat
  BY <1>1, <1>2, Induction DEF T
<1> QED
  BY <1>3 DEF T

(* In a log that decodes, the sequence number of an item is its place      *)
(* among the items.                                                        *)
LEMMA ItemsPlaced ==
  ASSUME NEW log, LogOK(log)
  PROVE  /\ ItemsOf(log) \in Seq(Record)
         /\ \A n \in DOMAIN log : IsItem(log[n]) =>
              log[n].seq \in DOMAIN ItemsOf(log) /\ ItemsOf(log)[log[n].seq] = log[n]
         /\ \A k \in DOMAIN ItemsOf(log) : \E n \in DOMAIN log : IsItem(log[n]) /\ log[n].seq = k
         /\ \A m, n \in DOMAIN log :
              m < n /\ IsItem(log[m]) /\ IsItem(log[n]) => log[m].seq < log[n].seq
<1> DEFINE k == Len(log)
           items == ItemsOf(log)
           at(m) == Len(ItemsUpTo(log)[m])
<1>1. log \in Seq(Record) /\ k \in Nat /\ DOMAIN log = 1 .. k
  BY DEF LogOK
<1>2. items \in Seq(Record) /\ items = ItemsUpTo(log)[k] /\ DOMAIN items = 1 .. Len(items)
  <2>1. items = ItemsUpTo(log)[k]
    BY DEF ItemsOf
  <2>2. items \in Seq(Record)
    BY <1>1, <2>1, ItemsType
  <2> QED
    BY <2>1, <2>2
<1>3. PlacedUpTo(log, k)
  BY <1>1, ItemsPlacedUpTo
<1>4. /\ \A m \in 1 .. k : IsItem(log[m]) => at(m) \in 1 .. Len(items) /\ items[at(m)] = log[m]
      /\ \A j \in 1 .. Len(items) : \E m \in 1 .. k : IsItem(log[m]) /\ at(m) = j
      /\ \A l, m \in 1 .. k : l < m /\ IsItem(log[m]) => at(l) < at(m)
  BY <1>2, <1>3 DEF PlacedUpTo
<1>5. \A n \in 1 .. k : IsItem(log[n]) => log[n].seq = at(n)
  BY <1>1 DEF LogOK, Decodable
<1> HIDE DEF k, items, at
<1>6. \A n \in DOMAIN log : IsItem(log[n]) => log[n].seq \in DOMAIN items /\ items[log[n].seq] = log[n]
  BY <1>1, <1>2, <1>4, <1>5
<1>7. \A j \in DOMAIN items : \E n \in DOMAIN log : IsItem(log[n]) /\ log[n].seq = j
  BY <1>1, <1>2, <1>4, <1>5
<1>8. \A m, n \in DOMAIN log :
        m < n /\ IsItem(log[m]) /\ IsItem(log[n]) => log[m].seq < log[n].seq
  BY <1>1, <1>4, <1>5
<1> QED
  BY <1>2, <1>6, <1>7, <1>8 DEF items

(* When all records are items, each is at its own place.                   *)
LEMMA AllItems ==
  ASSUME NEW log \in Seq(Record), \A n \in DOMAIN log : IsItem(log[n])
  PROVE  \A n \in 0 .. Len(log) : Len(ItemsUpTo(log)[n]) = n
<1> DEFINE T == {n \in Nat : n <= Len(log) => Len(ItemsUpTo(log)[n]) = n}
<1>0. Len(log) \in Nat
  OBVIOUS
<1>1. 0 \in T
  BY <1>0, ItemsAre
<1>2. ASSUME NEW n \in T PROVE n + 1 \in T
  <2> SUFFICES ASSUME n + 1 <= Len(log) PROVE Len(ItemsUpTo(log)[n + 1]) = n + 1
    OBVIOUS
  <2>1. n \in Nat /\ Len(ItemsUpTo(log)[n]) = n /\ IsItem(log[n + 1]) /\ log[n + 1] \in Record
    BY <1>0
  <2>2. ItemsUpTo(log)[n] \in Seq(Record)
    BY <1>0, <2>1, ItemsType
  <2>3. ItemsUpTo(log)[n + 1] = Append(ItemsUpTo(log)[n], log[n + 1])
    BY <1>0, <2>1, ItemsAre
  <2> QED
    BY <2>1, <2>2, <2>3
<1> HIDE DEF T
<1>3. T = Nat
  BY <1>1, <1>2, Induction DEF T
<1> QED
  BY <1>3 DEF T

(* The head of records that were inherited.                                *)
InheritedFits(log, n, h) ==
  /\ h \in HeadType /\ h.seq = n /\ h.latest = LastTurn(log, n) /\ h.ops = NoOperations
  /\ h.turns = {log[m].turn : m \in {i \in 1 .. n : log[i].kind = "turn"}}

(* What inheritItem makes of a prefix is what the prefix says, for every   *)
(* prefix of a log.                                                        *)
LEMMA InheritedHeads ==
  ASSUME NEW log \in Seq(Record)
  PROVE  \A n \in 0 .. Len(log) : InheritedFits(log, n, Heads(log, Len(log))[n])
<1> DEFINE T == {n \in Nat : n <= Len(log) => InheritedFits(log, n, Heads(log, Len(log))[n])}
<1>0. Len(log) \in Nat
  OBVIOUS
<1>1. 0 \in T
  <2>1. Heads(log, Len(log))[0] = NewSessionHead
    BY <1>0, HeadsAre
  <2>2. {log[m].turn : m \in {i \in 1 .. 0 : log[i].kind = "turn"}} = {}
    OBVIOUS
  <2>3. InheritedFits(log, 0, NewSessionHead)
    BY <2>2, NewHeadIs, LastTurnNone DEF InheritedFits
  <2> QED
    BY <2>1, <2>3
<1>2. ASSUME NEW n \in T PROVE n + 1 \in T
  <2> SUFFICES ASSUME n + 1 <= Len(log) PROVE InheritedFits(log, n + 1, Heads(log, Len(log))[n + 1])
    OBVIOUS
  <2> DEFINE h == Heads(log, Len(log))[n]
             r == log[n + 1]
             e == Inherit(h, r)
             S == {log[m].turn : m \in {i \in 1 .. n : log[i].kind = "turn"}}
             U == {log[m].turn : m \in {i \in 1 .. n + 1 : log[i].kind = "turn"}}
  <2>1. n \in Nat /\ InheritedFits(log, n, h) /\ r \in Record
    BY <1>0
  <2>2. Heads(log, Len(log))[n + 1] = e
    BY <1>0, <2>1, HeadsAre DEF StepOf
  <2>3. /\ h \in HeadType /\ h.seq = n /\ h.latest = LastTurn(log, n) /\ h.ops = NoOperations
        /\ h.turns = S
    BY <2>1 DEF InheritedFits
  <2>4. LastTurn(log, n + 1) = IF r.kind = "turn" THEN r.turn ELSE LastTurn(log, n)
    BY <2>1, LastTurnNext
  <2>5. U = IF r.kind = "turn" THEN S \cup {r.turn} ELSE S
    <3>1. CASE r.kind = "turn"
      <4>1. {i \in 1 .. n + 1 : log[i].kind = "turn"} = {i \in 1 .. n : log[i].kind = "turn"} \cup {n + 1}
        BY <2>1, <3>1
      <4> QED
        BY <3>1, <4>1
    <3>2. CASE r.kind # "turn"
      <4>1. {i \in 1 .. n + 1 : log[i].kind = "turn"} = {i \in 1 .. n : log[i].kind = "turn"}
        BY <2>1, <3>2
      <4> QED
        BY <3>2, <4>1
    <3> QED
      BY <3>1, <3>2
  <2> HIDE DEF h, r, e, S, U
  <2>6. /\ e \in HeadType /\ e.seq = h.seq + 1 /\ e.ops = NoOperations
        /\ e.latest = IF r.kind = "turn" THEN r.turn ELSE h.latest
        /\ e.turns = IF r.kind = "turn" THEN h.turns \cup {r.turn} ELSE h.turns
    BY <2>1, <2>3, InheritIs DEF e
  <2>7. e.seq = n + 1 /\ e.latest = LastTurn(log, n + 1) /\ e.turns = U
    BY <2>3, <2>4, <2>5, <2>6
  <2> QED
    BY <2>2, <2>6, <2>7 DEF InheritedFits, U
<1> HIDE DEF T
<1>3. T = Nat
  BY <1>1, <1>2, Induction DEF T
<1> QED
  BY <1>0, <1>3 DEF T

(* An inherited item is the item, but for the operations of a status.      *)
LEMMA InheritedItemIs ==
  ASSUME NEW r \in Record
  PROVE  /\ InheritedItem(r) \in Record
         /\ InheritedItem(r).kind = r.kind
         /\ IsItem(r) => InheritedItem(r).seq = r.seq
         /\ r.kind \in {"turn", "fork"} => InheritedItem(r) = r
         /\ r.kind = "status" => InheritedItem(r).ops = NoOperations
         /\ \A h : Inherit(h, InheritedItem(r)) = Inherit(h, r)
<1>1. CASE r.kind = "status"
  <2>1. InheritedItem(r) = [r EXCEPT !.ops = NoOperations]
    BY <1>1 DEF InheritedItem
  <2>2. r \in [kind : {"status"}, seq : Nat, turn : TurnIDs, call : CallIDs, ops : StatusMaps]
    BY <1>1 DEF Record
  <2> DEFINE i == InheritedItem(r)
  <2>3. /\ i \in [kind : {"status"}, seq : Nat, turn : TurnIDs, call : CallIDs, ops : StatusMaps]
        /\ i.kind = r.kind /\ i.seq = r.seq /\ i.turn = r.turn /\ i.call = r.call
        /\ i.ops = NoOperations
    BY <2>1, <2>2, NoneIs
  <2> HIDE DEF i
  <2>4. i \in Record
    BY <2>3 DEF Record
  <2>5. \A h : Inherit(h, i) = Inherit(h, r)
    BY <1>1, <2>3 DEF Inherit
  <2> QED
    BY <1>1, <2>3, <2>4, <2>5 DEF i
<1>2. CASE r.kind # "status"
  BY <1>2 DEF InheritedItem
<1> QED
  BY <1>1, <1>2

(* The turn t begins at item k and nowhere else.                            *)
BeginsAt(items, t, k) ==
  /\ k \in DOMAIN items /\ items[k].kind = "turn" /\ items[k].turn = t
  /\ \A n \in DOMAIN items : items[n].kind = "turn" /\ items[n].turn = t => n = k

(* Item b is at or behind item k, with no turn in between.                 *)
NoTurnBetween(items, k, b) ==
  /\ b \in k .. Len(items)
  /\ \A n \in DOMAIN items : n > k /\ n <= b => items[n].kind # "turn"

(* The boundary of a turn: it is at or behind the turn, with no other turn *)
(* in between.                                                             *)
LEMMA BoundaryIs ==
  ASSUME NEW items \in Seq(Record), NEW t, NEW k, BeginsAt(items, t, k)
  PROVE  NoTurnBetween(items, k, Boundary(items, t))
<1>0. /\ k \in DOMAIN items /\ items[k].kind = "turn" /\ items[k].turn = t
      /\ \A n \in DOMAIN items : items[n].kind = "turn" /\ items[n].turn = t => n = k
  BY DEF BeginsAt
<1> DEFINE first == {n \in DOMAIN items : items[n].kind = "turn" /\ items[n].turn = t}
           later == {n \in DOMAIN items : items[n].kind = "turn" /\ \E m \in first : m < n}
           B == {n \in DOMAIN items :
                   /\ items[n].kind \in {"turn", "response", "status"}
                   /\ items[n].turn = t
                   /\ \A m \in later : n < m}
<1>1. DOMAIN items = 1 .. Len(items) /\ Len(items) \in Nat
  OBVIOUS
<1>2. first = {k}
  BY <1>0
<1>3. \A n \in DOMAIN items : n \in later <=> items[n].kind = "turn" /\ k < n
  BY <1>0, <1>2
<1>4. \A n \in later : n \in DOMAIN items
  OBVIOUS
<1>5. Boundary(items, t) = Max(B)
  BY DEF Boundary
<1> HIDE DEF first, later
<1>6. k \in B
  BY <1>0, <1>3, <1>4
<1>7. B \in SUBSET (1 .. Len(items)) /\ B # {}
  BY <1>1, <1>6
<1> HIDE DEF B
<1>8. Max(B) \in B /\ k <= Max(B)
  BY <1>1, <1>6, <1>7, MaxIs
<1>9. Max(B) \in 1 .. Len(items) /\ \A m \in later : Max(B) < m
  BY <1>1, <1>8 DEF B
<1>10. ASSUME NEW n \in DOMAIN items, n > k, n <= Max(B) PROVE items[n].kind # "turn"
  BY <1>1, <1>3, <1>9, <1>10
<1> QED
  BY <1>0, <1>1, <1>5, <1>8, <1>9, <1>10 DEF NoTurnBetween

(* Two logs whose first k records do the same to any head.                 *)
SameSteps(x, fx, y, fy, k) ==
  /\ Len(x) \in Nat /\ Len(y) \in Nat /\ k <= Len(x) /\ k <= Len(y)
  /\ \A n \in 1 .. k : \A h : StepOf(h, x[n], n <= fx) = StepOf(h, y[n], n <= fy)

(* Their heads after these records are the same.                           *)
LEMMA SameHead ==
  ASSUME NEW x, NEW fx, NEW y, NEW fy, NEW k \in Nat, SameSteps(x, fx, y, fy, k)
  PROVE  Heads(x, fx)[k] = Heads(y, fy)[k]
<1>1. k \in 0 .. k
  OBVIOUS
<1>2. /\ Len(x) \in Nat /\ Len(y) \in Nat /\ k <= Len(x) /\ k <= Len(y)
      /\ \A n \in 1 .. k : \A h : StepOf(h, x[n], n <= fx) = StepOf(h, y[n], n <= fy)
  BY DEF SameSteps
<1>3. \A n \in 0 .. k : Heads(x, fx)[n] = Heads(y, fy)[n]
  BY <1>2, SameHeads
<1> QED
  BY <1>1, <1>3

(* Fork writes a log in order, whose head is the one it caches; nothing of *)
(* the parent's work is in it.                                             *)
LEMMA ForkKeeps ==
  ASSUME NEW p, LogOK(p), NEW parent \in Sessions, NEW t \in TurnIDs, t \in Decode(p).turns
  PROVE  LET items == ItemsOf(p)
             kept  == SubSeq(items, 1, Boundary(items, t))
             log   == [n \in DOMAIN kept |-> InheritedItem(kept[n])]
             head  == Heads(kept, Len(kept))[Len(kept)]
             forked == Append(log, ForkItem(parent, t, head.seq + 1))
         IN  /\ LogOK(forked) /\ Len(forked) = Len(kept) + 1 /\ Len(kept) \in Nat
             /\ Decode(forked) = ResetOwnedState([head EXCEPT !.seq = @ + 1])
             /\ DOMAIN Decode(forked).ops = {}
<1> DEFINE items == ItemsOf(p)
           b == Boundary(items, t)
           kept == SubSeq(items, 1, b)
           log == [n \in DOMAIN kept |-> InheritedItem(kept[n])]
           head == Heads(kept, Len(kept))[Len(kept)]
           last == ForkItem(parent, t, head.seq + 1)
           L == Append(log, last)
<1>1. /\ items \in Seq(Record) /\ p \in Seq(Record)
      /\ \A n \in DOMAIN p : IsItem(p[n]) => p[n].seq \in DOMAIN items /\ items[p[n].seq] = p[n]
      /\ \A k \in DOMAIN items : \E n \in DOMAIN p : IsItem(p[n]) /\ p[n].seq = k
      /\ \A m, n \in DOMAIN p : m < n /\ IsItem(p[m]) /\ IsItem(p[n]) => p[m].seq < p[n].seq
  BY ItemsPlaced DEF LogOK
<1>2. \A n \in DOMAIN p : p[n].kind \in {"turn", "fork"} => IsItem(p[n])
  BY DEF IsItem
<1>3. PICK n0 \in DOMAIN p : p[n0].kind = "turn" /\ p[n0].turn = t
  BY DEF LogOK, HeadFits, TurnsOf
<1> DEFINE k0 == p[n0].seq
<1>4. k0 \in DOMAIN items /\ items[k0] = p[n0]
  BY <1>1, <1>2, <1>3
<1> HIDE DEF items
(* Each item has a place in the parent's log.                              *)
<1>5. ASSUME NEW k \in DOMAIN items
      PROVE  \E n \in DOMAIN p : IsItem(p[n]) /\ p[n].seq = k /\ p[n] = items[k]
  BY <1>1
<1>6. \A n \in DOMAIN items : items[n].kind = "turn" /\ items[n].turn = t => n = k0
  <2> SUFFICES ASSUME NEW n \in DOMAIN items, items[n].kind = "turn", items[n].turn = t PROVE n = k0
    OBVIOUS
  <2>1. PICK m \in DOMAIN p : IsItem(p[m]) /\ p[m].seq = n /\ p[m] = items[n]
    BY <1>5
  <2>2. m = n0
    BY <1>3, <2>1 DEF LogOK, TurnsDiffer
  <2> QED
    BY <2>1, <2>2
<1> HIDE DEF k0
<1>7. /\ b \in k0 .. Len(items)
      /\ \A n \in DOMAIN items : n > k0 /\ n <= b => items[n].kind # "turn"
  <2>1. BeginsAt(items, t, k0)
    BY <1>3, <1>4, <1>6 DEF BeginsAt
  <2>2. items \in Seq(Record)
    BY <1>1
  <2>3. NoTurnBetween(items, k0, b)
    BY <2>1, <2>2, BoundaryIs, Zenon
  <2> QED
    BY <2>3 DEF NoTurnBetween
<1>8. b \in Nat /\ b \in 1 .. Len(items) /\ k0 \in 1 .. b
  BY <1>1, <1>4, <1>7
<1> HIDE DEF b
<1>9. /\ kept \in Seq(Record) /\ Len(kept) = b /\ DOMAIN kept = 1 .. b
      /\ \A n \in 1 .. b : kept[n] = items[n] /\ n \in DOMAIN items /\ kept[n] \in Record
  BY <1>1, <1>8
<1> HIDE DEF kept
<1>10. /\ log \in Seq(Record) /\ Len(log) = b
       /\ \A n \in 1 .. b : log[n] = InheritedItem(items[n])
  <2>1. log \in [1 .. b -> Record]
    BY <1>9, InheritedItemIs
  <2> QED
    BY <1>8, <1>9, <2>1
<1>11. InheritedFits(kept, b, head)
  <2>1. b \in 0 .. Len(kept)
    BY <1>8, <1>9
  <2> QED
    BY <1>9, <2>1, InheritedHeads
<1>12. head \in HeadType /\ head.seq = b
  BY <1>11 DEF InheritedFits
<1>13. /\ last \in Record /\ last.kind = "fork" /\ last.seq = b + 1 /\ last.turn = t
  <2>1. last = [kind |-> "fork", seq |-> b + 1, parent |-> parent, turn |-> t]
    BY <1>12 DEF ForkItem
  <2>2. last \in [kind : {"fork"}, seq : Nat, parent : Sessions, turn : TurnIDs]
    BY <1>8, <2>1
  <2>3. last \in Record
    BY <2>2 DEF Record
  <2> QED
    BY <2>1, <2>3
<1> HIDE DEF log, last
<1>14. /\ L \in Seq(Record) /\ Len(L) = b + 1 /\ L[b + 1] = last /\ DOMAIN L = 1 .. b + 1
       /\ \A n \in 1 .. b : L[n] = InheritedItem(items[n])
  BY <1>8, <1>10, <1>13
<1> HIDE DEF L
<1>15. ASSUME NEW n \in 1 .. b
       PROVE  \E m \in DOMAIN p :
                /\ IsItem(p[m]) /\ p[m].seq = n /\ p[m] = items[n] /\ p[m] \in Record
                /\ L[n] \in Record /\ L[n].kind = p[m].kind /\ L[n].seq = n
                /\ p[m].kind \in {"turn", "fork"} => L[n] = p[m]
                /\ L[n].kind = "status" => L[n].ops = NoOperations
  <2>1. PICK m \in DOMAIN p : IsItem(p[m]) /\ p[m].seq = n /\ p[m] = items[n]
    BY <1>5, <1>9
  <2>2. L[n] = InheritedItem(p[m]) /\ p[m] \in Record
    BY <1>1, <1>14, <2>1
  <2> QED
    BY <2>1, <2>2, InheritedItemIs
(* A turn of the parent's log is at its place.                             *)
<1>16. ASSUME NEW m \in DOMAIN p, p[m].kind = "turn", p[m].seq <= b
       PROVE  p[m].seq \in 1 .. b /\ L[p[m].seq] = p[m]
  <2>1. p[m].seq \in DOMAIN items /\ items[p[m].seq] = p[m] /\ p[m] \in Record
    BY <1>1, <1>2, <1>16
  <2>2. p[m].seq \in 1 .. b
    BY <1>1, <1>8, <1>16, <2>1
  <2> QED
    BY <1>14, <1>16, <2>1, <2>2, InheritedItemIs
<1>17. LastFork(L) = b + 1
  <2>1. b + 1 \in 0 .. Len(L) /\ L[b + 1].kind = "fork"
    BY <1>8, <1>13, <1>14
  <2>2. \A n \in DOMAIN L : n > b + 1 => L[n].kind # "fork"
    BY <1>8, <1>14
  <2> QED
    BY <1>14, <2>1, <2>2, LastForkAt
<1>18. InheritedFits(L, b + 1, Decode(L))
  <2>1. b + 1 \in 0 .. Len(L) /\ Decode(L) = Heads(L, Len(L))[b + 1]
    BY <1>8, <1>14, <1>17 DEF Decode
  <2> QED
    BY <1>14, <2>1, InheritedHeads
<1>19. Decodable(L)
  <2>1. \A n \in DOMAIN L : IsItem(L[n])
    <3>1. ASSUME NEW n \in DOMAIN L PROVE IsItem(L[n])
      <4>1. CASE n = b + 1
        BY <1>13, <1>14, <4>1 DEF IsItem
      <4>2. CASE n # b + 1
        <5>1. n \in 1 .. b
          BY <1>8, <1>14, <4>2
        <5> QED
          BY <1>15, <5>1 DEF IsItem
      <4> QED
        BY <4>1, <4>2
    <3> QED
      BY <3>1
  <2>2. ASSUME NEW n \in DOMAIN L PROVE L[n].seq = Len(ItemsUpTo(L)[n])
    <3>1. Len(ItemsUpTo(L)[n]) = n
      BY <1>14, <2>1, AllItems
    <3>2. CASE n = b + 1
      BY <1>13, <1>14, <3>1, <3>2
    <3>3. CASE n # b + 1
      <4>1. n \in 1 .. b
        BY <1>8, <1>14, <3>3
      <4> QED
        BY <1>15, <3>1, <4>1
    <3> QED
      BY <3>2, <3>3
  <2>3. ASSUME NEW n \in 1 .. b + 1, L[n].kind = "status" PROVE L[n].ops = NoOperations
    <3>1. n \in 1 .. b
      BY <1>8, <1>13, <1>14, <2>3
    <3> QED
      BY <1>15, <2>3, <3>1
  <2> QED
    BY <1>8, <1>14, <1>17, <2>1, <2>2, <2>3 DEF Decodable, IsItem
<1>20. Chained(L)
  <2>1. ASSUME NEW n \in 1 .. b, L[n].kind \in {"turn", "fork"}
        PROVE  /\ L[n].kind = "turn" => L[n].prev = LastTurn(L, n - 1)
               /\ L[n].kind = "fork" => L[n].turn = LastTurn(L, n - 1)
    <3>1. PICK j \in DOMAIN p : IsItem(p[j]) /\ p[j].seq = n /\ L[n] = p[j]
      BY <1>15, <2>1
    <3>2. j \in Nat /\ j - 1 \in Nat /\ n - 1 \in Nat /\ DOMAIN p = 1 .. Len(p) /\ Len(p) \in Nat
      BY <1>1, <1>8
    <3>3. ASSUME NEW m \in 1 .. n - 1, L[m].kind = "turn"
          PROVE  \E i \in 1 .. j - 1 : p[i].kind = "turn" /\ p[i].seq = m
      <4>1. m \in 1 .. b /\ m < n
        BY <1>8, <3>3
      <4>2. PICK i \in DOMAIN p : IsItem(p[i]) /\ p[i].seq = m /\ p[i].kind = "turn"
        BY <1>15, <3>3, <4>1
      <4>3. i < j
        <5>1. ~(j < i)
          <6>1. j < i => p[j].seq < p[i].seq
            BY <1>1, <3>1, <4>2, Zenon
          <6> QED
            BY <3>1, <4>1, <4>2, <6>1
        <5>2. i # j
          BY <3>1, <4>1, <4>2
        <5> QED
          BY <3>2, <5>1, <5>2
      <4> QED
        BY <3>2, <4>2, <4>3
    <3>4. LastTurn(L, n - 1) = LastTurn(p, j - 1)
      <4>1. CASE LastTurn(p, j - 1) = NoTurn /\ \A m \in 1 .. j - 1 : p[m].kind # "turn"
        <5>1. \A m \in 1 .. n - 1 : L[m].kind # "turn"
          BY <3>3, <4>1
        <5> QED
          BY <3>2, <4>1, <5>1, LastTurnIs
      <4>2. CASE \E k \in 1 .. j - 1 : /\ p[k].kind = "turn" /\ LastTurn(p, j - 1) = p[k].turn
                                       /\ \A m \in 1 .. j - 1 : m > k => p[m].kind # "turn"
        <5>1. PICK k \in 1 .. j - 1 : /\ p[k].kind = "turn" /\ LastTurn(p, j - 1) = p[k].turn
                                      /\ \A m \in 1 .. j - 1 : m > k => p[m].kind # "turn"
          BY <4>2
        <5>2. k \in DOMAIN p /\ k < j /\ IsItem(p[k])
          BY <1>2, <3>2, <5>1
        <5>3. p[k].seq < n /\ p[k].seq \in Nat
          <6>1. p[k].seq < p[j].seq
            BY <1>1, <3>1, <5>2, Zenon
          <6>2. p[k] \in Record
            BY <1>1, <5>2
          <6> QED
            BY <3>1, <5>2, <6>1, <6>2, RecordIs DEF IsItem
        <5>4. p[k].seq \in 1 .. b /\ L[p[k].seq] = p[k]
          BY <1>8, <1>16, <5>1, <5>2, <5>3
        <5>5. p[k].seq \in 1 .. n - 1
          BY <3>2, <5>3, <5>4
        <5>6. ASSUME NEW m \in 1 .. n - 1, m > p[k].seq PROVE L[m].kind # "turn"
          <6> SUFFICES ASSUME L[m].kind = "turn" PROVE FALSE
            OBVIOUS
          <6>1. PICK i \in 1 .. j - 1 : p[i].kind = "turn" /\ p[i].seq = m
            BY <3>3
          <6>2. i \in DOMAIN p /\ IsItem(p[i]) /\ ~(i > k)
            BY <1>2, <3>2, <5>1, <6>1
          <6>3. i # k
            BY <5>6, <6>1
          <6>4. i < k
            BY <3>2, <6>2, <6>3
          <6>5. p[i].seq < p[k].seq
            BY <1>1, <5>2, <6>2, <6>4
          <6> QED
            BY <5>3, <5>6, <6>1, <6>5
        <5> QED
          BY <3>2, <5>1, <5>4, <5>5, <5>6, LastTurnAt
      <4> QED
        BY <3>2, <4>1, <4>2, LastTurnIs
    <3>5. /\ p[j].kind = "turn" => p[j].prev = LastTurn(p, j - 1)
          /\ p[j].kind = "fork" => p[j].turn = LastTurn(p, j - 1)
      BY DEF LogOK, Chained
    <3> QED
      BY <3>1, <3>4, <3>5
  <2>2. L[b + 1].turn = LastTurn(L, (b + 1) - 1)
    <3>1. L[k0] = p[n0]
      BY <1>3, <1>8, <1>16 DEF k0
    <3>2. ASSUME NEW m \in 1 .. b, m > k0 PROVE L[m].kind # "turn"
      <4>1. items[m].kind # "turn" /\ m \in DOMAIN items
        BY <1>7, <1>8, <1>9, <3>2
      <4> QED
        BY <1>15, <4>1
    <3>3. LastTurn(L, b) = t
      BY <1>3, <1>8, <3>1, <3>2, LastTurnAt
    <3> QED
      BY <1>8, <1>13, <1>14, <3>3
  <2>3. ASSUME NEW n \in DOMAIN L
        PROVE  /\ L[n].kind = "turn" => L[n].prev = LastTurn(L, n - 1)
               /\ L[n].kind = "fork" => L[n].turn = LastTurn(L, n - 1)
    <3>1. CASE n = b + 1
      BY <1>13, <1>14, <2>2, <3>1
    <3>2. CASE n # b + 1
      <4>1. n \in 1 .. b
        BY <1>8, <1>14, <3>2
      <4> QED
        BY <2>1, <4>1
    <3> QED
      BY <3>1, <3>2
  <2> QED
    BY <2>3 DEF Chained
<1>21. TurnsDiffer(L)
  <2> SUFFICES ASSUME NEW m \in DOMAIN L, NEW n \in DOMAIN L,
                      L[m].kind = "turn", L[n].kind = "turn", L[m].turn = L[n].turn
               PROVE  m = n
    BY DEF TurnsDiffer
  <2>1. m \in 1 .. b /\ n \in 1 .. b
    BY <1>8, <1>13, <1>14
  <2>2. PICK i \in DOMAIN p : p[i].seq = m /\ L[m] = p[i]
    BY <1>15, <2>1
  <2>3. PICK j \in DOMAIN p : p[j].seq = n /\ L[n] = p[j]
    BY <1>15, <2>1
  <2>4. i = j
    BY <2>2, <2>3 DEF LogOK, TurnsDiffer
  <2> QED
    BY <2>2, <2>3, <2>4
<1>22. HeadFits(L)
  <2>1. /\ Decode(L) \in HeadType /\ Decode(L).seq = b + 1 /\ Decode(L).latest = LastTurn(L, b + 1)
        /\ Decode(L).turns = {L[m].turn : m \in {i \in 1 .. b + 1 : L[i].kind = "turn"}}
    BY <1>18 DEF InheritedFits
  <2>2. Decode(L).turns = TurnsOf(L)
    BY <1>14, <2>1 DEF TurnsOf
  <2>3. Len(ItemsOf(L)) = b + 1
    <3>1. \A n \in DOMAIN L : IsItem(L[n])
      <4>1. ASSUME NEW n \in DOMAIN L PROVE IsItem(L[n])
        <5>1. CASE n = b + 1
          BY <1>13, <1>14, <5>1 DEF IsItem
        <5>2. CASE n # b + 1
          <6>1. n \in 1 .. b
            BY <1>8, <1>14, <5>2
          <6> QED
            BY <1>15, <6>1 DEF IsItem
        <5> QED
          BY <5>1, <5>2
      <4> QED
        BY <4>1
    <3> QED
      BY <1>8, <1>14, <3>1, AllItems DEF ItemsOf
  <2> QED
    BY <1>14, <2>1, <2>2, <2>3 DEF HeadFits
<1>23. StatusesKnown(L)
  BY <1>8, <1>14, <1>17 DEF StatusesKnown
<1>24. Decode(L) = ResetOwnedState([head EXCEPT !.seq = @ + 1])
  <2>1. Decode(L) = Heads(L, b + 1)[b + 1]
    BY <1>14, <1>17 DEF Decode
  <2>2. Heads(L, b + 1)[b + 1] = StepOf(Heads(L, b + 1)[b], last, b + 1 <= b + 1)
    BY <1>8, <1>14, HeadsAre
  <2>3. Heads(L, b + 1)[b] = Heads(kept, b)[b]
    <3>1. ASSUME NEW n \in 1 .. b, NEW h
          PROVE  StepOf(h, L[n], n <= b + 1) = StepOf(h, kept[n], n <= b)
      <4>1. n <= b + 1 /\ n <= b /\ L[n] = InheritedItem(kept[n]) /\ kept[n] \in Record
        BY <1>8, <1>9, <1>14
      <4> QED
        BY <4>1, InheritedItemIs DEF StepOf
    <3>2. Len(L) \in Nat /\ Len(kept) \in Nat /\ b <= Len(L) /\ b <= Len(kept) /\ b \in 0 .. b
      BY <1>8, <1>9, <1>14
    <3>3. SameSteps(L, b + 1, kept, b, b)
      BY <3>1, <3>2 DEF SameSteps
    <3>4. b \in Nat
      BY <1>8
    <3> QED
      BY <3>3, <3>4, SameHead
  <2>4. head = Heads(kept, b)[b]
    BY <1>9
  <2> QED
    BY <1>8, <1>13, <2>1, <2>2, <2>3, <2>4 DEF StepOf, Inherit
<1>25. DOMAIN Decode(L).ops = {}
  BY <1>18, NoneIs DEF InheritedFits
<1>26. LogOK(L)
  BY <1>14, <1>19, <1>20, <1>21, <1>22, <1>23 DEF LogOK
<1> QED
  BY <1>8, <1>9, <1>14, <1>24, <1>25, <1>26 DEF L, last, log, kept, b, items


-----------------------------------------------------------------------------
(* The steps.                                                              *)

(* A file replaced or extended by a log in order, whose operations belong  *)
(* to no other session.                                                    *)
LEMMA LogReplaced ==
  ASSUME RecordsInv, NEW s \in Sessions, NEW log, NEW c,
         LogOK(log), Len(log) <= MaxRecords, c \in {NoHead, Decode(log)},
         logs' = [logs EXCEPT ![s] = log], cache' = [cache EXCEPT ![s] = c],
         used \subseteq used', used' \subseteq TurnIDs \cup OperationIDs,
         DOMAIN Decode(log).ops \subseteq used',
         \A x \in Existing : x # s => DOMAIN Decode(log).ops \cap DOMAIN Decode(logs[x]).ops = {}
  PROVE  RecordsInv'
<1>1. /\ DOMAIN logs = Sessions /\ DOMAIN cache = Sessions
      /\ \A x \in Existing : LogOK(logs[x]) /\ Len(logs[x]) <= MaxRecords
      /\ \A x \in Sessions : cache[x] # NoHead => x \in Existing /\ cache[x] = Decode(logs[x])
      /\ OperationsOwned
  BY DEF RecordsInv
<1>2. log # NoLog
  BY NoLogAssumption DEF LogOK
<1>3. /\ DOMAIN logs' = Sessions /\ DOMAIN cache' = Sessions
      /\ logs'[s] = log /\ cache'[s] = c
      /\ \A x \in Sessions : x # s => logs'[x] = logs[x] /\ cache'[x] = cache[x]
  BY <1>1
<1>4. Existing' = Existing \cup {s}
  BY <1>2, <1>3 DEF Existing
<1>5. \A x \in Existing' : x # s => x \in Existing /\ x \in Sessions
  BY <1>4 DEF Existing
<1>6. \A x \in Existing' : LogOK(logs'[x]) /\ Len(logs'[x]) <= MaxRecords
  BY <1>1, <1>3, <1>5
<1>7. \A x \in Sessions : cache'[x] # NoHead => x \in Existing' /\ cache'[x] = Decode(logs'[x])
  BY <1>1, <1>3, <1>4
<1>8. \A x \in Existing' : DOMAIN Decode(logs'[x]).ops \subseteq used'
  BY <1>1, <1>3, <1>5 DEF OperationsOwned
<1>9. \A x, y \in Existing' :
        x # y => DOMAIN Decode(logs'[x]).ops \cap DOMAIN Decode(logs'[y]).ops = {}
  <2> SUFFICES ASSUME NEW x \in Existing', NEW y \in Existing', x # y
               PROVE  DOMAIN Decode(logs'[x]).ops \cap DOMAIN Decode(logs'[y]).ops = {}
    OBVIOUS
  <2>1. CASE x = s
    BY <1>3, <1>5, <2>1
  <2>2. CASE y = s
    BY <1>3, <1>5, <2>2
  <2>3. CASE x # s /\ y # s
    BY <1>1, <1>3, <1>5, <2>3 DEF OperationsOwned
  <2> QED
    BY <2>1, <2>2, <2>3
<1> QED
  BY <1>3, <1>6, <1>7, <1>8, <1>9 DEF RecordsInv, OperationsOwned

(* The files stay, and what is cached is forgotten or read from them.      *)
LEMMA LogsStay ==
  ASSUME RecordsInv, logs' = logs, DOMAIN cache' = Sessions,
         used \subseteq used', used' \subseteq TurnIDs \cup OperationIDs,
         \A x \in Sessions : \/ cache'[x] = NoHead
                             \/ cache'[x] = cache[x]
                             \/ x \in Existing /\ cache'[x] = Decode(logs[x])
  PROVE  RecordsInv'
<1>1. Existing' = Existing
  BY DEF Existing
<1>2. \A x \in Sessions : cache'[x] # NoHead => x \in Existing' /\ cache'[x] = Decode(logs'[x])
  BY <1>1 DEF RecordsInv
<1> QED
  BY <1>1, <1>2 DEF RecordsInv, OperationsOwned

(* The head a call works with is the one of the file.                      *)
LEMMA HeadIs ==
  ASSUME RecordsInv, NEW s \in Existing
  PROVE  /\ s \in Sessions /\ LogOK(logs[s]) /\ WriteState(s) = Decode(logs[s])
         /\ Decode(logs[s]) \in HeadType
BY DEF RecordsInv, WriteState, Existing, LogOK, HeadFits

(* A record that the head accepts, whether or not the append reports it.   *)
LEMMA RecordWritten ==
  ASSUME RecordsInv, NEW s \in Existing, NEW r \in Record,
         AppendSucceeds(s, r) \/ AppendFails(s, r),
         Len(logs[s]) < MaxRecords,
         Accepts(Decode(logs[s]), r),
         IsItem(r) => r.seq = Decode(logs[s]).seq + 1,
         r.kind = "status" => DOMAIN r.ops \subseteq DOMAIN Extend(Decode(logs[s]), r).ops,
         used \subseteq used', used' \subseteq TurnIDs \cup OperationIDs,
         DOMAIN Extend(Decode(logs[s]), r).ops \subseteq DOMAIN Decode(logs[s]).ops \cup (used' \ used)
  PROVE  RecordsInv'
<1> DEFINE log == Append(logs[s], r)
           e == Extend(Decode(logs[s]), r)
<1>1. /\ s \in Sessions /\ LogOK(logs[s]) /\ WriteState(s) = Decode(logs[s])
  BY HeadIs
<1>2. LogOK(log) /\ Decode(log) = e
  BY <1>1, AppendKeeps
<1>3. Len(log) <= MaxRecords
  BY <1>1, MaxRecordsAssumption DEF LogOK
<1>4. DOMAIN Decode(log).ops \subseteq used'
  BY <1>2 DEF RecordsInv, OperationsOwned
<1>5. \A x \in Existing : x # s => DOMAIN Decode(log).ops \cap DOMAIN Decode(logs[x]).ops = {}
  BY <1>2 DEF RecordsInv, OperationsOwned
<1>6. CASE AppendSucceeds(s, r)
  <2>1. logs' = [logs EXCEPT ![s] = log] /\ cache' = [cache EXCEPT ![s] = Decode(log)]
    BY <1>1, <1>2, <1>6 DEF AppendSucceeds
  <2> HIDE DEF log
  <2>2. Decode(log) \in {NoHead, Decode(log)}
    OBVIOUS
  <2> QED
    BY <1>1, <1>2, <1>3, <1>4, <1>5, <2>1, <2>2, LogReplaced
<1>7. CASE AppendFails(s, r)
  <2>1. cache' = [cache EXCEPT ![s] = NoHead]
    BY <1>7 DEF AppendFails
  <2>2. CASE logs' = logs
    <3>1. DOMAIN cache' = Sessions /\ \A x \in Sessions : cache'[x] = NoHead \/ cache'[x] = cache[x]
      BY <1>1, <2>1 DEF RecordsInv
    <3> QED
      BY <2>2, <3>1, LogsStay
  <2>3. CASE logs' # logs
    <3>1. logs' = [logs EXCEPT ![s] = log]
      BY <1>7, <2>3 DEF AppendFails
    <3> HIDE DEF log
    <3>2. NoHead \in {NoHead, Decode(log)}
      OBVIOUS
    <3> QED
      BY <1>1, <1>2, <1>3, <1>4, <1>5, <2>1, <3>1, <3>2, LogReplaced
  <2> QED
    BY <2>2, <2>3
<1> QED
  BY <1>6, <1>7

(* AppendInput keeps the invariant.                                        *)
LEMMA AppendInputKeeps ==
  ASSUME RecordsInv, NEW s \in Existing, AppendInput(s)
  PROVE  RecordsInv'
<1> DEFINE h == Decode(logs[s])
           r == [kind |-> "input", seq |-> h.seq + 1]
<1>1. WriteState(s) = h /\ h \in HeadType /\ h.seq \in Nat
  BY HeadIs DEF HeadType
<1>2. Len(logs[s]) < MaxRecords /\ used' = used /\ (AppendSucceeds(s, r) \/ AppendFails(s, r))
  BY <1>1 DEF AppendInput, Write, InputItem, IsItem
<1>3. r \in Record
  BY <1>1 DEF Record
<1>4. Accepts(h, r) /\ r.kind = "input" /\ r.seq = h.seq + 1
  BY DEF Accepts
<1> HIDE DEF r
<1>5. DOMAIN Extend(h, r).ops = DOMAIN h.ops
  BY <1>1, <1>3, <1>4, ExtendIs
<1> QED
  BY <1>2, <1>3, <1>4, <1>5, RecordWritten DEF RecordsInv

(* AppendTurn keeps the invariant: the turn names the head's latest one.   *)
LEMMA AppendTurnKeeps ==
  ASSUME RecordsInv, NEW s \in Existing, NEW t \in TurnIDs, NEW prev \in TurnIDs \cup {NoTurn},
         AppendTurn(s, t, prev)
  PROVE  RecordsInv'
<1> DEFINE h == Decode(logs[s])
           r == [kind |-> "turn", seq |-> h.seq + 1, turn |-> t, prev |-> prev]
<1>1. WriteState(s) = h /\ h \in HeadType /\ h.seq \in Nat
  BY HeadIs DEF HeadType
<1>2. /\ Len(logs[s]) < MaxRecords /\ used' = used \cup {t}
      /\ AppendSucceeds(s, r) \/ AppendFails(s, r)
      /\ Accepts(h, TurnItem(t, prev))
  BY <1>1 DEF AppendTurn, Write, TurnItem, IsItem
<1>3. r \in Record
  BY <1>1 DEF Record
<1>4. Accepts(h, r) /\ r.kind = "turn" /\ r.seq = h.seq + 1
  BY <1>2 DEF Accepts, TurnItem
<1> HIDE DEF r
<1>5. DOMAIN Extend(h, r).ops = DOMAIN h.ops
  BY <1>1, <1>3, <1>4, ExtendIs
<1>6. used \subseteq used' /\ used' \subseteq TurnIDs \cup OperationIDs
  BY <1>2 DEF RecordsInv
<1> QED
  BY <1>2, <1>3, <1>4, <1>5, <1>6, RecordWritten

(* AppendModelResponse keeps the invariant.                                *)
LEMMA AppendModelResponseKeeps ==
  ASSUME RecordsInv, NEW s \in Existing, NEW t \in TurnIDs, AppendModelResponse(s, t)
  PROVE  RecordsInv'
<1> DEFINE h == Decode(logs[s])
           r == [kind |-> "response", seq |-> h.seq + 1, turn |-> t]
<1>1. WriteState(s) = h /\ h \in HeadType /\ h.seq \in Nat
  BY HeadIs DEF HeadType
<1>2. /\ Len(logs[s]) < MaxRecords /\ used' = used
      /\ AppendSucceeds(s, r) \/ AppendFails(s, r)
      /\ Accepts(h, ResponseItem(t))
  BY <1>1 DEF AppendModelResponse, Write, ResponseItem, IsItem
<1>3. r \in Record
  BY <1>1 DEF Record
<1>4. Accepts(h, r) /\ r.kind = "response" /\ r.seq = h.seq + 1
  BY <1>2 DEF Accepts, ResponseItem
<1> HIDE DEF r
<1>5. DOMAIN Extend(h, r).ops = DOMAIN h.ops
  BY <1>1, <1>3, <1>4, ExtendIs
<1> QED
  BY <1>2, <1>3, <1>4, <1>5, RecordWritten DEF RecordsInv

(* SaveOperation keeps the invariant: the operation is one of the head's.  *)
LEMMA SaveOperationKeeps ==
  ASSUME RecordsInv, NEW s \in Existing, NEW o \in OperationIDs, NEW x \in Statuses,
         SaveOperation(s, o, x)
  PROVE  RecordsInv'
<1> DEFINE h == Decode(logs[s])
           r == OperationRecord(o, x)
<1>1. WriteState(s) = h /\ h \in HeadType
  BY HeadIs
<1>2. r = [kind |-> "operation", op |-> o, status |-> x]
  BY DEF OperationRecord
<1>3. r \in Record /\ r.kind = "operation" /\ ~IsItem(r)
  BY <1>2 DEF Record, IsItem
<1> HIDE DEF r
<1>4. /\ Len(logs[s]) < MaxRecords /\ used' = used
      /\ AppendSucceeds(s, r) \/ AppendFails(s, r)
      /\ Accepts(h, r)
  BY <1>1, <1>3 DEF SaveOperation, Write, r
<1>5. DOMAIN Extend(h, r).ops = DOMAIN h.ops
  BY <1>1, <1>3, ExtendIs
<1> QED
  BY <1>3, <1>4, <1>5, RecordWritten DEF RecordsInv

(* The record of a status.                                                 *)
LEMMA StatusRecord ==
  ASSUME NEW a \in Nat, NEW t \in TurnIDs, NEW c \in CallIDs, NEW f \in StatusMaps
  PROVE  LET r == [StatusItem(t, c, f) EXCEPT !.seq = a]
         IN  /\ r \in Record /\ r.kind = "status" /\ r.seq = a /\ r.turn = t /\ r.call = c
             /\ r.ops = f /\ IsItem(StatusItem(t, c, f))
             /\ \A h : Accepts(h, r) = Accepts(h, StatusItem(t, c, f))
<1> DEFINE i == StatusItem(t, c, f)
           r == [kind |-> "status", seq |-> a, turn |-> t, call |-> c, ops |-> f]
<1>1. i = [kind |-> "status", seq |-> 0, turn |-> t, call |-> c, ops |-> f]
  BY DEF StatusItem
<1>2. [i EXCEPT !.seq = a] = r
  BY <1>1
<1>3. r \in [kind : {"status"}, seq : Nat, turn : TurnIDs, call : CallIDs, ops : StatusMaps]
  OBVIOUS
<1>4. r \in Record
  BY <1>3 DEF Record
<1>5. /\ r.kind = "status" /\ r.seq = a /\ r.turn = t /\ r.call = c /\ r.ops = f
      /\ i.kind = "status" /\ i.turn = t /\ i.call = c /\ i.ops = f
  BY <1>1
<1> HIDE DEF r, i
<1>6. \A h : Accepts(h, r) = Accepts(h, i)
  BY <1>5 DEF Accepts
<1>7. IsItem(i)
  BY <1>5 DEF IsItem
<1> QED
  BY <1>2, <1>4, <1>5, <1>6, <1>7 DEF i

(* A status, the operations of which are new or known.                     *)
LEMMA StatusWritten ==
  ASSUME RecordsInv, NEW s \in Existing, NEW t \in TurnIDs, NEW c \in CallIDs,
         NEW f \in StatusMaps, Write(s, StatusItem(t, c, f)),
         used \subseteq used', used' \subseteq TurnIDs \cup OperationIDs,
         \/ <<t, c>> \in Decode(logs[s]).statuses /\ DOMAIN f \subseteq DOMAIN Decode(logs[s]).ops
         \/ <<t, c>> \notin Decode(logs[s]).statuses /\ DOMAIN f \subseteq used' \ used
  PROVE  RecordsInv'
<1> DEFINE h == Decode(logs[s])
           i == StatusItem(t, c, f)
           r == [i EXCEPT !.seq = h.seq + 1]
<1>1. WriteState(s) = h /\ h \in HeadType /\ h.seq \in Nat /\ h.seq + 1 \in Nat
  BY HeadIs DEF HeadType
<1>2. /\ r \in Record /\ r.kind = "status" /\ r.seq = h.seq + 1 /\ r.turn = t /\ r.call = c
      /\ r.ops = f /\ IsItem(i) /\ (Accepts(h, r) = Accepts(h, i))
  BY <1>1, StatusRecord
<1>3. /\ Len(logs[s]) < MaxRecords
      /\ AppendSucceeds(s, r) \/ AppendFails(s, r)
      /\ Accepts(h, i)
  BY <1>1, <1>2 DEF Write
<1> HIDE DEF r, i
<1>4. DOMAIN Extend(h, r).ops = IF <<t, c>> \notin h.statuses THEN DOMAIN f \cup DOMAIN h.ops
                                ELSE DOMAIN h.ops
  BY <1>1, <1>2, ExtendIs
<1>5. /\ DOMAIN r.ops \subseteq DOMAIN Extend(h, r).ops
      /\ DOMAIN Extend(h, r).ops \subseteq DOMAIN h.ops \cup (used' \ used)
  BY <1>2, <1>4
<1> QED
  BY <1>2, <1>3, <1>5, RecordWritten

(* The first status of a call.                                             *)
LEMMA AppendFirstStatusKeeps ==
  ASSUME RecordsInv, NEW s \in Existing, NEW t \in TurnIDs, NEW c \in CallIDs,
         NEW o \in OperationIDs, AppendFirstStatus(s, t, c, o)
  PROVE  RecordsInv'
<1> DEFINE f == [x \in {o} |-> "ready"]
<1>1. f \in StatusMaps /\ DOMAIN f = {o}
  <2>1. f \in [{o} -> Statuses] /\ DOMAIN f = {o}
    BY DEF Statuses
  <2> QED
    BY <2>1, MapsAre
<1> HIDE DEF f
<1>2. /\ o \notin used /\ used' = used \cup {o} /\ Write(s, StatusItem(t, c, f))
      /\ <<t, c>> \notin Decode(logs[s]).statuses
  BY HeadIs DEF AppendFirstStatus, f
<1>3. used \subseteq used' /\ used' \subseteq TurnIDs \cup OperationIDs /\ DOMAIN f \subseteq used' \ used
  BY <1>1, <1>2 DEF RecordsInv
<1> QED
  BY <1>1, <1>2, <1>3, StatusWritten

(* A later status of a call: the call and its operation are known, because *)
(* a status that shows an operation comes after the last fork.             *)
LEMMA AppendLaterStatusKeeps ==
  ASSUME RecordsInv, NEW s \in Existing, NEW t \in TurnIDs, NEW c \in CallIDs,
         NEW o \in OperationIDs, AppendLaterStatus(s, t, c, o)
  PROVE  RecordsInv'
<1> DEFINE h == Decode(logs[s])
           f == [x \in {o} |-> h.ops[o]]
<1>1. WriteState(s) = h /\ h \in HeadType /\ LogOK(logs[s])
  BY HeadIs
<1>2. o \in DOMAIN h.ops /\ used' = used /\ Write(s, StatusItem(t, c, f))
  BY <1>1 DEF AppendLaterStatus
<1>3. h.ops \in [DOMAIN h.ops -> Statuses]
  BY <1>1, MapsAre DEF HeadType
<1>4. f \in StatusMaps /\ DOMAIN f = {o}
  <2>1. f \in [{o} -> Statuses] /\ DOMAIN f = {o}
    BY <1>2, <1>3
  <2> QED
    BY <2>1, MapsAre
<1> HIDE DEF f
<1>5. PICK n \in DOMAIN logs[s] :
        /\ logs[s][n].kind = "status" /\ o \in DOMAIN logs[s][n].ops
        /\ <<logs[s][n].turn, logs[s][n].call>> = <<t, c>>
  BY DEF AppendLaterStatus
<1>6. n > LastFork(logs[s])
  <2>1. /\ logs[s] \in Seq(Record) /\ LastFork(logs[s]) \in 0 .. Len(logs[s])
        /\ n \in Nat /\ n >= 1
    BY <1>1, LastForkIs DEF LogOK
  <2>2. \A m \in 1 .. LastFork(logs[s]) :
          logs[s][m].kind = "status" => logs[s][m].ops = NoOperations
    BY <1>1 DEF LogOK, Decodable
  <2> QED
    BY <1>5, <2>1, <2>2, NoneIs
<1>7. <<t, c>> \in h.statuses
  BY <1>1, <1>5, <1>6 DEF LogOK, StatusesKnown
<1>8. used \subseteq used' /\ used' \subseteq TurnIDs \cup OperationIDs /\ DOMAIN f \subseteq DOMAIN h.ops
  BY <1>2, <1>4 DEF RecordsInv
<1> QED
  BY <1>2, <1>4, <1>7, <1>8, StatusWritten

(* A file published as a whole, whose operations are none.                 *)
LEMMA PublishKeeps ==
  ASSUME RecordsInv, NEW s \in Sessions, NEW log, NEW head, Publish(s, log, head),
         LogOK(log), Len(log) <= MaxRecords, head = Decode(log),
         DOMAIN Decode(log).ops = {}, used' = used
  PROVE  RecordsInv'
<1>1. /\ used \subseteq used' /\ used' \subseteq TurnIDs \cup OperationIDs
      /\ DOMAIN Decode(log).ops \subseteq used'
      /\ \A x \in Existing : x # s => DOMAIN Decode(log).ops \cap DOMAIN Decode(logs[x]).ops = {}
  BY DEF RecordsInv
<1>2. CASE logs' = [logs EXCEPT ![s] = log] /\ cache' = [cache EXCEPT ![s] = head]
  <2>1. head \in {NoHead, Decode(log)}
    OBVIOUS
  <2> QED
    BY <1>1, <1>2, <2>1, LogReplaced
<1>3. CASE logs' = [logs EXCEPT ![s] = log] /\ cache' = [cache EXCEPT ![s] = NoHead]
  <2>1. NoHead \in {NoHead, Decode(log)}
    OBVIOUS
  <2> QED
    BY <1>1, <1>3, <2>1, LogReplaced
<1>4. CASE logs' = logs /\ cache' = [cache EXCEPT ![s] = NoHead]
  <2>1. DOMAIN cache' = Sessions /\ \A x \in Sessions : cache'[x] = NoHead \/ cache'[x] = cache[x]
    BY <1>4 DEF RecordsInv
  <2> QED
    BY <1>1, <1>4, <2>1, LogsStay
<1> QED
  BY <1>2, <1>3, <1>4 DEF Publish

(* Create keeps the invariant: the file it publishes has no records.       *)
LEMMA CreateKeeps ==
  ASSUME RecordsInv, NEW s \in Sessions, Create(s)
  PROVE  RecordsInv'
<1>1. LogOK(<<>>) /\ Decode(<<>>) = NewSessionHead
  BY EmptyLogOK
<1>2. Len(<<>>) <= MaxRecords
  BY MaxRecordsAssumption
<1>3. DOMAIN Decode(<<>>).ops = {}
  BY <1>1, NewHeadIs, NoneIs
<1> QED
  BY <1>1, <1>2, <1>3, PublishKeeps DEF Create

(* Fork keeps the invariant: the copy it publishes is in order.            *)
LEMMA ForkStepKeeps ==
  ASSUME RecordsInv, NEW s \in Sessions, NEW parent \in Existing, NEW t \in TurnIDs,
         Fork(s, parent, t)
  PROVE  RecordsInv'
<1> DEFINE items == ItemsOf(logs[parent])
           kept == SubSeq(items, 1, Boundary(items, t))
           log == [n \in DOMAIN kept |-> InheritedItem(kept[n])]
           head == Heads(kept, Len(kept))[Len(kept)]
           forked == Append(log, ForkItem(parent, t, head.seq + 1))
           reset == ResetOwnedState([head EXCEPT !.seq = @ + 1])
<1>1. parent \in Sessions /\ LogOK(logs[parent])
  BY HeadIs
<1>2. /\ t \in Decode(logs[parent]).turns /\ Len(kept) < MaxRecords
      /\ Publish(s, forked, reset) /\ used' = used
  BY DEF Fork
<1>3. /\ LogOK(forked) /\ Len(forked) = Len(kept) + 1 /\ Len(kept) \in Nat
      /\ Decode(forked) = reset /\ DOMAIN Decode(forked).ops = {}
  BY <1>1, <1>2, ForkKeeps
<1> HIDE DEF forked, reset, kept
<1>4. Len(forked) <= MaxRecords
  BY <1>2, <1>3, MaxRecordsAssumption
<1> QED
  BY <1>2, <1>3, <1>4, PublishKeeps

(* A rejected call keeps the invariant: it only touches the cache.         *)
LEMMA RejectedCallKeeps ==
  ASSUME RecordsInv, NEW s \in Existing, RejectedCall(s)
  PROVE  RecordsInv'
<1>1. logs' = logs /\ used' = used /\ cache' = [cache EXCEPT ![s] = Decode(logs[s])]
  BY DEF RejectedCall
<1>2. /\ DOMAIN cache' = Sessions
      /\ \A x \in Sessions : \/ cache'[x] = cache[x]
                             \/ x \in Existing /\ cache'[x] = Decode(logs[x])
  BY <1>1 DEF RecordsInv
<1>3. used \subseteq used' /\ used' \subseteq TurnIDs \cup OperationIDs
  BY <1>1 DEF RecordsInv
<1> QED
  BY <1>1, <1>2, <1>3, LogsStay

(* A restart keeps the invariant: the next process has nothing cached.     *)
LEMMA RestartKeeps ==
  ASSUME RecordsInv, Restart
  PROVE  RecordsInv'
<1>1. logs' = logs /\ used' = used /\ cache' = [x \in Sessions |-> NoHead]
  BY DEF Restart
<1>2. DOMAIN cache' = Sessions /\ \A x \in Sessions : cache'[x] = NoHead
  BY <1>1
<1>3. used \subseteq used' /\ used' \subseteq TurnIDs \cup OperationIDs
  BY <1>1 DEF RecordsInv
<1> QED
  BY <1>1, <1>2, <1>3, LogsStay

(* RecordsInv holds at the start.                                          *)
LEMMA InitRecords == Init => RecordsInv
<1> SUFFICES ASSUME Init PROVE RecordsInv
  OBVIOUS
<1>1. Existing = {}
  BY DEF Init, Existing
<1> QED
  BY <1>1 DEF Init, RecordsInv, OperationsOwned

(* Every step keeps RecordsInv.                                            *)
LEMMA NextRecords == RecordsInv /\ [Next]_vars => RecordsInv'
<1> SUFFICES ASSUME RecordsInv, [Next]_vars PROVE RecordsInv'
  OBVIOUS
<1>1. ASSUME NEW s \in Sessions, Create(s) PROVE RecordsInv'
  BY <1>1, CreateKeeps
<1>2. ASSUME NEW s \in Existing, RejectedCall(s) PROVE RecordsInv'
  BY <1>2, RejectedCallKeeps
<1>3. ASSUME NEW s \in Existing, AppendInput(s) PROVE RecordsInv'
  BY <1>3, AppendInputKeeps
<1>4. ASSUME NEW s \in Existing, NEW t \in TurnIDs, NEW prev \in TurnIDs \cup {NoTurn},
             AppendTurn(s, t, prev)
      PROVE  RecordsInv'
  BY <1>4, AppendTurnKeeps
<1>5. ASSUME NEW s \in Existing, NEW t \in TurnIDs, AppendModelResponse(s, t) PROVE RecordsInv'
  BY <1>5, AppendModelResponseKeeps
<1>6. ASSUME NEW s \in Existing, NEW t \in TurnIDs, NEW c \in CallIDs, NEW o \in OperationIDs,
             AppendFirstStatus(s, t, c, o) \/ AppendLaterStatus(s, t, c, o)
      PROVE  RecordsInv'
  BY <1>6, AppendFirstStatusKeeps, AppendLaterStatusKeeps
<1>7. ASSUME NEW s \in Existing, NEW o \in OperationIDs, NEW x \in Statuses, SaveOperation(s, o, x)
      PROVE  RecordsInv'
  BY <1>7, SaveOperationKeeps
<1>8. ASSUME NEW s \in Sessions, NEW parent \in Existing, NEW t \in TurnIDs, Fork(s, parent, t)
      PROVE  RecordsInv'
  BY <1>8, ForkStepKeeps
<1>9. CASE Restart
  BY <1>9, RestartKeeps
<1>10. CASE UNCHANGED vars
  BY <1>10 DEF vars, RecordsInv, OperationsOwned, Existing
<1> QED
  BY <1>1, <1>2, <1>3, <1>4, <1>5, <1>6, <1>7, <1>8, <1>9, <1>10 DEF Next

(* RecordsInv holds in every reachable state.                              *)
LEMMA AlwaysRecords == Spec => []RecordsInv
BY InitRecords, NextRecords, PTL DEF Spec

-----------------------------------------------------------------------------
(* What the store guarantees.                                              *)

(* RecordsInv has the cache agree with the files and the turns chained.    *)
LEMMA RecordsStore == RecordsInv => StoreInv
<1> SUFFICES ASSUME RecordsInv PROVE StoreInv
  OBVIOUS
<1>1. \A s \in Existing : LogOK(logs[s]) /\ Len(logs[s]) <= MaxRecords
  BY DEF RecordsInv
<1>2. ASSUME NEW s \in Existing, NEW n \in DOMAIN logs[s]
      PROVE  logs[s][n].kind \in {"input", "turn", "response", "status", "fork", "operation"}
  <2>1. logs[s][n] \in Record
    BY <1>1 DEF LogOK
  <2> QED
    BY <2>1, RecordIs
<1>3. TypeOK
  BY <1>1, <1>2 DEF TypeOK, RecordsInv
<1>4. CacheCoherent
  BY DEF CacheCoherent, RecordsInv, Existing
<1>5. TurnsChained
  BY <1>1 DEF TurnsChained, LogOK, Chained
<1> QED
  BY <1>3, <1>4, <1>5 DEF StoreInv

(* A status after the fork: its operations are resumed, or shown as        *)
(* finished by the last status that shows them.                            *)
LEMMA NoneForgotten == RecordsInv => NothingForgotten
<1> SUFFICES ASSUME RecordsInv, NEW s \in Existing, NEW n \in DOMAIN logs[s],
                    n > LastFork(logs[s]), logs[s][n].kind = "status",
                    NEW o \in DOMAIN logs[s][n].ops,
                    o \notin Resumed(logs[s])
             PROVE  \E m \in n .. Len(logs[s]) :
                      /\ logs[s][m].kind = "status" /\ o \in DOMAIN logs[s][m].ops
                      /\ logs[s][m].ops[o] = "finished"
  BY DEF NothingForgotten
<1> DEFINE log == logs[s]
           S == {m \in DOMAIN log : log[m].kind = "status" /\ o \in DOMAIN log[m].ops}
<1>1. LogOK(log) /\ log \in Seq(Record) /\ DOMAIN log = 1 .. Len(log) /\ Len(log) \in Nat
  BY DEF RecordsInv, LogOK
<1>2. o \in DOMAIN Decode(log).ops
  BY <1>1 DEF LogOK, StatusesKnown
<1>3. o \in OperationIDs
  BY <1>1, <1>2, MapsAre DEF LogOK, HeadFits, HeadType
<1>4. o \notin Pending(log)
  BY <1>2 DEF Resumed
<1>5. S \in SUBSET (1 .. Len(log)) /\ n \in S /\ S # {}
  BY <1>1
<1>6. log[Max(S)].ops[o] = "finished"
  BY <1>3, <1>4, <1>5 DEF Pending
<1> HIDE DEF S
<1>7. Max(S) \in S /\ n <= Max(S)
  BY <1>1, <1>5, MaxIs
<1>8. Max(S) \in n .. Len(log) /\ log[Max(S)].kind = "status" /\ o \in DOMAIN log[Max(S)].ops
  BY <1>1, <1>5, <1>7 DEF S
<1> QED
  BY <1>6, <1>8

(* The operations that two sessions resume differ.                         *)
LEMMA NoneTwice == RecordsInv => ResumedOnce
<1>1. \A log : Resumed(log) \subseteq DOMAIN Decode(log).ops
  BY DEF Resumed
<1> QED
  BY <1>1 DEF ResumedOnce, RecordsInv, OperationsOwned

(* The cached write state is what decoding the file would give, and the    *)
(* turns of a file form one chain, after any mixture of failed appends,    *)
(* forks, replaced sessions and restarts.                                  *)
THEOREM StoreInvariant == Spec => []StoreInv
BY AlwaysRecords, RecordsStore, PTL

(* decodeLog accepts every log the store has written, forks of forks       *)
(* included.                                                               *)
THEOREM LogsStayDecodable == Spec => []AlwaysDecodable
<1>1. RecordsInv => AlwaysDecodable
  BY DEF RecordsInv, LogOK, AlwaysDecodable
<1> QED
  BY <1>1, AlwaysRecords, PTL

(* Work in progress goes on after a restart in one session and is not      *)
(* lost: storedState.resume returns every operation that no status shows   *)
(* as finished, and no fork takes over an operation of its parent.         *)
THEOREM WorkIsResumedOnce == Spec => []WorkResumedOnce
<1>1. RecordsInv => WorkResumedOnce
  BY NoneForgotten, NoneTwice DEF WorkResumedOnce
<1> QED
  BY <1>1, AlwaysRecords, PTL

=============================================================================
