------------------------- MODULE CoordinatorProofs -------------------------
(***************************************************************************)
(* The inductive invariant of the coordinator and what follows from it.    *)
(* The properties of Coordinator.tla are not inductive: a restart is only  *)
(* harmless because the live state reflects the history at every step, the *)
(* store takes an item only because the local state agrees with it, and    *)
(* Run leaves nothing open only because everything the store shows         *)
(* unfinished is in the manager's hands.  CoordInv says all of it, and has *)
(* one lemma per action.                                                   *)
(*                                                                         *)
(* First, what the history of a session says, and what the coordinator's   *)
(* local state has to do with it (harness/coordinator/loop.go: loadHistory *)
(* and the addXToLocalState functions).  A local state reflects a history  *)
(* when its turn is the latest one, its calls are those the model asked    *)
(* for and that are not settled, and its counts are those of the inputs    *)
(* and results that were told, shown by a turn and answered.  Every item   *)
(* the coordinator appends keeps this so; therefore replaying a history    *)
(* gives a state that reflects it.                                         *)
(***************************************************************************)
EXTENDS Coordinator, FiniteSetTheorems, WellFoundedInduction, TLAPS

(* Induction over the natural numbers, for a set.                          *)
LEMMA LeastElement ==
  ASSUME NEW T \in SUBSET Nat, T # {}
  PROVE  \E n \in T : \A m \in T : n <= m
<1> DEFINE R == OpToRel(<, Nat)
<1>1. IsWellFoundedOn(R, Nat)
  BY NatLessThanWellFounded
<1>2. \A x \in Nat, y \in Nat : <<x, y>> \in R <=> x < y
  BY DEF OpToRel
<1> HIDE DEF R
<1>3. \E x \in T : \A y \in T : ~(<<y, x>> \in R)
  BY <1>1, WFMin
<1>4. PICK x \in T : \A y \in T : ~(<<y, x>> \in R)
  BY <1>3
<1>5. ASSUME NEW y \in T PROVE x <= y
  <2>1. x \in Nat /\ y \in Nat
    OBVIOUS
  <2>2. ~(y < x)
    BY <1>2, <1>4, <2>1, Zenon
  <2> QED
    BY <2>1, <2>2
<1> QED
  BY <1>5

(* A set that holds 0 and with every number the next one holds them all.   *)
LEMMA Induction ==
  ASSUME NEW T \in SUBSET Nat, 0 \in T, \A n \in T : n + 1 \in T
  PROVE  T = Nat
<1> SUFFICES ASSUME Nat \ T # {} PROVE FALSE
  OBVIOUS
<1>1. PICK n \in Nat \ T : \A m \in Nat \ T : n <= m
  BY LeastElement
<1> QED
  BY <1>1

(* The last of some positions of a sequence.                               *)
LEMMA MaxIs ==
  ASSUME NEW n \in Nat, NEW S \in SUBSET (1 .. n), S # {}
  PROVE  Max(S) \in S /\ \A x \in S : x <= Max(S)
<1> DEFINE T == {n - x : x \in S}
<1>1. T \in SUBSET Nat /\ T # {}
  <2>1. \A x \in S : n - x \in Nat
    OBVIOUS
  <2>2. PICK x \in S : TRUE
    OBVIOUS
  <2>3. n - x \in T
    BY <2>2
  <2> QED
    BY <2>1, <2>3
<1>2. PICK a \in T : \A b \in T : a <= b
  BY <1>1, LeastElement
<1>3. PICK y \in S : a = n - y
  BY <1>2
<1>4. \A x \in S : x <= y
  BY <1>2, <1>3
<1>5. \E x \in S : \A z \in S : x >= z
  BY <1>4
<1> QED
  BY <1>5 DEF Max

-----------------------------------------------------------------------------
(* Values.                                                                 *)

Statuses == {"ready", "awaiting", "finished"}
StatusMaps == UNION {[D -> Statuses] : D \in SUBSET Ops}
CallMaps == UNION {[D -> [scheduled : BOOLEAN, ops : SUBSET Ops]] : D \in SUBSET Keys}

Item ==
  [kind : {"input"}, id : Inputs \cup HeartbeatIDs]
    \cup [kind : {"turn"}, turn : Turns, type : {"regular", "compaction"}]
    \cup [kind : {"response"}, turn : Turns, calls : SUBSET CallIDs]
    \cup [kind : {"status"}, key : Keys, waitingFor : SUBSET Ops, ops : StatusMaps]
    \cup [kind : {"fork"}, turn : Turns]

LoopState ==
  [turn : 0 .. MaxTurns, type : {"regular", "compaction"}, calls : CallMaps, ops : StatusMaps,
   available : Nat, delivered : Nat, turnInputs : Nat,
   graceCalls : SUBSET Keys, grace : BOOLEAN]

(* What it is to be a map of operation statuses, or of pending tool calls.  *)
LEMMA MapsAre ==
  ASSUME NEW f
  PROVE  /\ f \in StatusMaps <=> f \in [DOMAIN f -> Statuses] /\ DOMAIN f \subseteq Ops
         /\ f \in CallMaps <=> /\ f \in [DOMAIN f -> [scheduled : BOOLEAN, ops : SUBSET Ops]]
                               /\ DOMAIN f \subseteq Keys
BY DEF StatusMaps, CallMaps

(* A call has operations of its own: calls share none, and a translated     *)
(* call has at least one.                                                   *)
LEMMA OpsAre ==
  ASSUME NEW key \in Keys
  PROVE  /\ OpsOf(key) \subseteq Ops /\ OpsOf(key) # {}
         /\ \A other \in Keys : other # key => OpsOf(key) \cap OpsOf(other) = {}
<1>1. <<key, 1>> \in OpsOf(key)
  BY BoundsAssumption DEF OpsOf
<1>2. OpsOf(key) \subseteq Ops
  BY DEF OpsOf, Ops
<1>3. \A other \in Keys : other # key => OpsOf(key) \cap OpsOf(other) = {}
  BY DEF OpsOf
<1> QED
  BY <1>1, <1>2, <1>3

(* The fields of an item, by its kind.                                      *)
LEMMA KindsAre ==
  ASSUME NEW item \in Item
  PROVE  /\ item.kind \in {"input", "turn", "response", "status", "fork"}
         /\ item.kind = "input" => item.id \in Inputs \cup HeartbeatIDs
         /\ item.kind = "turn" => item.turn \in Turns /\ item.type \in {"regular", "compaction"}
         /\ item.kind = "response" => item.turn \in Turns /\ item.calls \subseteq CallIDs
         /\ item.kind = "status" => /\ item.key \in Keys /\ item.waitingFor \subseteq Ops
                                    /\ item.ops \in StatusMaps
         /\ item.kind = "fork" => item.turn \in Turns
BY DEF Item

(* Writing statuses over statuses gives statuses: addOperationToLocalState  *)
(* keeps the map's type.                                                    *)
LEMMA OverIs ==
  ASSUME NEW f \in StatusMaps, NEW g \in StatusMaps
  PROVE  Over(f, g) \in StatusMaps
<1>1. /\ f \in [DOMAIN f -> Statuses] /\ DOMAIN f \subseteq Ops
      /\ g \in [DOMAIN g -> Statuses] /\ DOMAIN g \subseteq Ops
  BY MapsAre
<1>2. /\ DOMAIN Over(f, g) = DOMAIN f \cup DOMAIN g
      /\ Over(f, g) \in [DOMAIN Over(f, g) -> Statuses]
  BY <1>1 DEF Over
<1> QED
  BY <1>1, <1>2, MapsAre

(* newLoopState has its type.                                               *)
LEMMA NewIs == NewLoopState \in LoopState
<1>1. <<>> \in StatusMaps /\ <<>> \in CallMaps
  <2>1. <<>> = [x \in {} |-> x]
    OBVIOUS
  <2>2. \A S : [x \in {} |-> x] \in [{} -> S]
    OBVIOUS
  <2> QED
    BY <2>1, <2>2 DEF StatusMaps, CallMaps
<1>2. 0 \in 0 .. MaxTurns
  BY BoundsAssumption
<1>3. FALSE \in BOOLEAN
  OBVIOUS
<1> QED
  BY <1>1, <1>2, <1>3 DEF NewLoopState, LoopState

-----------------------------------------------------------------------------
(* How an item changes the local state.                                    *)

(* addInputToLocalState counts an input the model is told of, and changes   *)
(* nothing else.                                                            *)
LEMMA AddInputIs ==
  ASSUME NEW s \in LoopState, NEW i
  PROVE  /\ AddInput(s, i) \in LoopState
         /\ \A f \in {"turn", "type", "calls", "ops", "delivered", "turnInputs",
                      "graceCalls", "grace"} : AddInput(s, i)[f] = s[f]
         /\ AddInput(s, i).available =
              s.available + IF KindOf(i) \in {"external", "heartbeat"} THEN 1 ELSE 0
BY DEF AddInput, LoopState

(* addTurnToLocalState notes the turn and how many inputs it shows the      *)
(* model.                                                                   *)
LEMMA AddTurnIs ==
  ASSUME NEW s \in LoopState, NEW t \in Turns, NEW type \in {"regular", "compaction"}
  PROVE  LET r == AddTurn(s, t, type)
         IN  /\ r \in LoopState
             /\ r.turn = t /\ r.type = type /\ r.turnInputs = s.available
             /\ \A f \in {"calls", "ops", "delivered", "available", "graceCalls", "grace"} :
                  r[f] = s[f]
<1>1. t \in 0 .. MaxTurns
  BY BoundsAssumption DEF Turns
<1> QED
  BY <1>1 DEF AddTurn, LoopState

CallsAdded(s, t, cs, r) ==
  /\ r \in LoopState
  /\ r.calls = Over([key \in {t} \X cs |-> [scheduled |-> FALSE, ops |-> {}]], s.calls)
  /\ \A f \in {"turn", "type", "ops", "available", "delivered", "turnInputs",
               "graceCalls", "grace"} : r[f] = s[f]

(* The calls of an answer become pending, unscheduled.                      *)
LEMMA AddToolCallsIs ==
  ASSUME NEW s \in LoopState, NEW t, NEW cs, {t} \X cs \subseteq Keys
  PROVE  CallsAdded(s, t, cs, AddToolCalls(s, t, cs))
<1> DEFINE new == [key \in {t} \X cs |-> [scheduled |-> FALSE, ops |-> {}]]
           call == [scheduled : BOOLEAN, ops : SUBSET Ops]
<1>1. new \in [{t} \X cs -> call]
  <2>1. FALSE \in BOOLEAN
    OBVIOUS
  <2> QED
    BY <2>1
<1>2. s.calls \in [DOMAIN s.calls -> call] /\ DOMAIN s.calls \subseteq Keys
  BY MapsAre DEF LoopState
<1> HIDE DEF new
<1>3. /\ DOMAIN Over(new, s.calls) = ({t} \X cs) \cup DOMAIN s.calls
      /\ Over(new, s.calls) \in [DOMAIN Over(new, s.calls) -> call]
  BY <1>1, <1>2 DEF Over
<1>4. Over(new, s.calls) \in CallMaps
  BY <1>2, <1>3, MapsAre
<1>5. AddToolCalls(s, t, cs) = [s EXCEPT !.calls = Over(new, s.calls)]
  BY DEF AddToolCalls, new
<1>6. /\ AddToolCalls(s, t, cs) \in LoopState
      /\ AddToolCalls(s, t, cs).calls = Over(new, s.calls)
      /\ \A f \in {"turn", "type", "ops", "available", "delivered", "turnInputs",
                   "graceCalls", "grace"} : AddToolCalls(s, t, cs)[f] = s[f]
  BY <1>4, <1>5 DEF LoopState
<1> QED
  BY <1>6 DEF new, CallsAdded

(* clearToolGrace ends the grace period and changes nothing else.           *)
LEMMA ClearToolGraceIs ==
  ASSUME NEW s \in LoopState
  PROVE  LET r == ClearToolGrace(s)
         IN  /\ r \in LoopState
             /\ r.graceCalls = {} /\ r.grace = FALSE
             /\ \A f \in {"turn", "type", "calls", "ops", "available", "delivered",
                          "turnInputs"} : r[f] = s[f]
<1>1. FALSE \in BOOLEAN
  OBVIOUS
<1> QED
  BY <1>1 DEF ClearToolGrace, LoopState

(* A fork item drops the calls and operations of the parent.                *)
LEMMA AddForkIs ==
  ASSUME NEW s \in LoopState
  PROVE  LET r == AddFork(s)
         IN  /\ r \in LoopState
             /\ r.calls = <<>> /\ r.ops = <<>> /\ r.graceCalls = {} /\ r.grace = FALSE
             /\ \A f \in {"turn", "type", "available", "delivered", "turnInputs"} : r[f] = s[f]
<1> DEFINE a == [s EXCEPT !.calls = <<>>, !.ops = <<>>]
<1>1. <<>> \in StatusMaps /\ <<>> \in CallMaps
  BY NewIs DEF LoopState, NewLoopState
<1>2. /\ a \in LoopState /\ a.calls = <<>> /\ a.ops = <<>>
      /\ \A f \in {"turn", "type", "available", "delivered", "turnInputs"} : a[f] = s[f]
  BY <1>1 DEF LoopState
<1>3. AddFork(s) = ClearToolGrace(a)
  BY DEF AddFork
<1> HIDE DEF a
<1>4. /\ ClearToolGrace(a) \in LoopState
      /\ ClearToolGrace(a).graceCalls = {} /\ ClearToolGrace(a).grace = FALSE
      /\ \A f \in {"turn", "type", "calls", "ops", "available", "delivered",
                   "turnInputs"} : ClearToolGrace(a)[f] = a[f]
  BY <1>2, ClearToolGraceIs
<1> QED
  BY <1>2, <1>3, <1>4

(* finishToolCall: the call is no longer pending and its result counts as   *)
(* an input.                                                                *)
LEMMA FinishToolCallIs ==
  ASSUME NEW s \in LoopState, NEW key
  PROVE  LET r == FinishToolCall(s, key)
         IN  /\ r \in LoopState
             /\ r.calls = Without(s.calls, key)
             /\ r.graceCalls = s.graceCalls \ {key}
             /\ r.grace = (s.grace /\ s.graceCalls \ {key} # {})
             /\ r.available = s.available + 1
             /\ \A f \in {"turn", "type", "ops", "delivered", "turnInputs"} : r[f] = s[f]
<1>1. Without(s.calls, key) \in CallMaps
  <2>1. /\ s.calls \in [DOMAIN s.calls -> [scheduled : BOOLEAN, ops : SUBSET Ops]]
        /\ DOMAIN s.calls \subseteq Keys
    BY MapsAre DEF LoopState
  <2>2. /\ DOMAIN Without(s.calls, key) = DOMAIN s.calls \ {key}
        /\ Without(s.calls, key) \in [DOMAIN Without(s.calls, key) ->
                                        [scheduled : BOOLEAN, ops : SUBSET Ops]]
    BY <2>1 DEF Without
  <2> QED
    BY <2>1, <2>2, MapsAre
<1>2. (s.grace /\ s.graceCalls \ {key} # {}) \in BOOLEAN
  OBVIOUS
<1>3. s.graceCalls \ {key} \in SUBSET Keys /\ s.available + 1 \in Nat
  BY DEF LoopState
<1> DEFINE left == s.graceCalls \ {key}
           g == s.grace /\ left # {}
<1>4. FinishToolCall(s, key) =
        [s EXCEPT !.calls = Without(s.calls, key), !.graceCalls = left, !.grace = g,
                  !.available = s.available + 1]
  BY DEF FinishToolCall
<1>5. g \in BOOLEAN /\ left \in SUBSET Keys
  BY <1>2, <1>3
<1> HIDE DEF left, g
<1>6. LET r == FinishToolCall(s, key)
      IN  /\ r \in LoopState
          /\ r.calls = Without(s.calls, key)
          /\ r.graceCalls = left
          /\ r.grace = g
          /\ r.available = s.available + 1
          /\ \A f \in {"turn", "type", "ops", "delivered", "turnInputs"} : r[f] = s[f]
  BY <1>1, <1>3, <1>4, <1>5 DEF LoopState
<1> QED
  BY <1>6 DEF left, g

(* A status of a call: it ends the call when all that the call waits for   *)
(* has ended.                                                              *)
Waits(s, key, waitingFor) == s.calls[key].ops \cup waitingFor
Ends(s, key, waitingFor, f) ==
  \A o \in Waits(s, key, waitingFor) : o \in DOMAIN Over(f, s.ops) /\ Terminal(Over(f, s.ops)[o])

StatusAdded(s, key, w, f, r) ==
  /\ r \in LoopState
  /\ r.ops = Over(f, s.ops)
  /\ \A x \in {"turn", "type", "delivered", "turnInputs"} : r[x] = s[x]
  /\ key \notin DOMAIN s.calls =>
       \A x \in {"calls", "available", "graceCalls", "grace"} : r[x] = s[x]
  /\ key \in DOMAIN s.calls /\ Ends(s, key, w, f) =>
       /\ r.calls = Without(s.calls, key)
       /\ r.graceCalls = s.graceCalls \ {key}
       /\ r.grace = (s.grace /\ s.graceCalls \ {key} # {})
       /\ r.available = s.available + 1
  /\ key \in DOMAIN s.calls /\ ~Ends(s, key, w, f) =>
       /\ r.calls = [s.calls EXCEPT ![key] = [scheduled |-> TRUE, ops |-> Waits(s, key, w)]]
       /\ \A x \in {"available", "graceCalls", "grace"} : r[x] = s[x]

(* A status schedules its call, ends it when all its operations have        *)
(* ended, or leaves a state without that call alone.                        *)
LEMMA AddStatusIs ==
  ASSUME NEW s \in LoopState, NEW key \in Keys, NEW f \in StatusMaps, NEW w \in SUBSET Ops
  PROVE  StatusAdded(s, key, w, f, AddStatus(s, key, w, f))
<1> DEFINE ops == Over(f, s.ops)
           a == [s EXCEPT !.ops = Over(f, @)]
           call == [scheduled |-> TRUE, ops |-> Waits(s, key, w)]
           calls == [s.calls EXCEPT ![key] = call]
           b == [a EXCEPT !.calls = calls]
<1>1. /\ s.calls \in [DOMAIN s.calls -> [scheduled : BOOLEAN, ops : SUBSET Ops]]
      /\ DOMAIN s.calls \subseteq Keys
  BY MapsAre DEF LoopState
<1>2. ops \in StatusMaps
  BY OverIs DEF LoopState
<1>3. /\ a \in LoopState /\ a.ops = ops
      /\ \A x \in {"turn", "type", "calls", "available", "delivered", "turnInputs",
                   "graceCalls", "grace"} : a[x] = s[x]
  BY <1>2 DEF LoopState
<1>4. CASE key \notin DOMAIN s.calls
  <2>1. AddStatus(s, key, w, f) = a
    BY <1>4 DEF AddStatus
  <2> HIDE DEF a
  <2> QED
    BY <1>3, <1>4, <2>1 DEF StatusAdded
<1>5. CASE key \in DOMAIN s.calls
  <2>1. call \in [scheduled : BOOLEAN, ops : SUBSET Ops]
    <3>1. TRUE \in BOOLEAN
      OBVIOUS
    <3>2. Waits(s, key, w) \in SUBSET Ops
      BY <1>1, <1>5 DEF Waits
    <3> QED
      BY <3>1, <3>2
  <2>2. calls \in CallMaps /\ calls[key] = call /\ DOMAIN calls = DOMAIN s.calls
    <3> HIDE DEF call
    <3>1. /\ DOMAIN calls = DOMAIN s.calls /\ calls[key] = call
          /\ calls \in [DOMAIN calls -> [scheduled : BOOLEAN, ops : SUBSET Ops]]
      BY <1>1, <1>5, <2>1
    <3> QED
      BY <1>1, <3>1, MapsAre
  <2>3. /\ b \in LoopState /\ b.calls = calls /\ b.ops = ops
        /\ \A x \in {"turn", "type", "available", "delivered", "turnInputs",
                     "graceCalls", "grace"} : b[x] = s[x]
    <3> HIDE DEF a, calls, ops
    <3> QED
      BY <1>3, <2>2 DEF LoopState
  <2>4. b = [a EXCEPT !.calls[key] = [scheduled |-> TRUE, ops |-> @.ops \cup w]]
    <3>1. a.calls = s.calls
      BY <1>3
    <3> HIDE DEF a
    <3> QED
      BY <3>1 DEF Waits
  <2>5. CallIsTerminal(b, key) <=> Ends(s, key, w, f)
    <3>1. b.calls[key].ops = Waits(s, key, w) /\ b.ops = Over(f, s.ops)
      BY <2>2, <2>3
    <3> HIDE DEF b, a, calls, ops
    <3> QED
      BY <3>1 DEF CallIsTerminal, Ends
  <2>6. AddStatus(s, key, w, f) =
          IF CallIsTerminal(b, key) THEN FinishToolCall(b, key) ELSE b
    <3>1. AddStatus(s, key, w, f) =
            LET v == [a EXCEPT !.calls[key] = [scheduled |-> TRUE, ops |-> @.ops \cup w]]
            IN  IF CallIsTerminal(v, key) THEN FinishToolCall(v, key) ELSE v
      BY <1>5 DEF AddStatus
    <3> HIDE DEF b, a
    <3> QED
      BY <2>4, <3>1
  <2>7. Without(b.calls, key) = Without(s.calls, key)
    <3>1. \A k \in DOMAIN s.calls \ {key} : b.calls[k] = s.calls[k]
      BY <1>1, <2>3
    <3> HIDE DEF b
    <3> QED
      BY <2>2, <2>3, <3>1 DEF Without
  <2> HIDE DEF a, b
  <2>8. CASE Ends(s, key, w, f)
    <3>1. AddStatus(s, key, w, f) = FinishToolCall(b, key)
      BY <2>5, <2>6, <2>8
    <3> HIDE DEF calls, ops
    <3> QED
      BY <1>5, <2>3, <2>7, <2>8, <3>1, FinishToolCallIs DEF ops, StatusAdded
  <2>9. CASE ~Ends(s, key, w, f)
    <3>1. AddStatus(s, key, w, f) = b
      BY <2>5, <2>6, <2>9
    <3> QED
      BY <1>5, <2>3, <2>9, <3>1 DEF StatusAdded
  <2> QED
    BY <2>8, <2>9
<1> QED
  BY <1>4, <1>5

-----------------------------------------------------------------------------
(* What a history says, after its first n items.                           *)

NoForkAfter(h, m, n) == \A k \in m + 1 .. n : h[k].kind # "fork"

LatestAt(h, m, n) ==
  m \in 1 .. n /\ h[m].kind = "turn" /\ \A k \in m + 1 .. n : h[k].kind # "turn"

Regular(h, n) == \E m \in 1 .. n : LatestAt(h, m, n) /\ h[m].type = "regular"

(* The model has asked for a call, and it is not one of the parent.        *)
AsksFor(h, n, key) ==
  h[n].kind = "response" /\ h[n].turn = key[1] /\ key[2] \in h[n].calls /\ Regular(h, n)
Asked(h, n, key) == \E m \in 1 .. n : AsksFor(h, m, key) /\ NoForkAfter(h, m, n)

FinalAt(h, n) ==
  /\ h[n].kind = "status"
  /\ \A o \in h[n].waitingFor : o \in DOMAIN h[n].ops /\ Terminal(h[n].ops[o])

HasStatusAt(h, n, key) == \E m \in 1 .. n : h[m].kind = "status" /\ h[m].key = key
Settled(h, n, key) == \E m \in 1 .. n : FinalAt(h, m) /\ h[m].key = key

OpenKeys(h, n) == {key \in Keys : Asked(h, n, key) /\ ~Settled(h, n, key)}
CallOf(h, n, key) ==
  IF HasStatusAt(h, n, key) THEN [scheduled |-> TRUE, ops |-> OpsOf(key)]
  ELSE [scheduled |-> FALSE, ops |-> {}]
CallsOf(h, n) == [key \in OpenKeys(h, n) |-> CallOf(h, n, key)]

TellsAt(h, n) ==
  \/ h[n].kind = "input" /\ KindOf(h[n].id) \in {"external", "heartbeat"}
  \/ FinalAt(h, n)

ToldAt(h, n) == {m \in 1 .. n : TellsAt(h, m)}
BeforeTurn(h, n) == {m \in ToldAt(h, n) : \E k \in m + 1 .. n : h[k].kind = "turn"}
AnswerTo(h, k, r) ==
  /\ h[k].kind = "turn" /\ h[k].type = "regular"
  /\ h[r].kind = "response" /\ h[r].turn = h[k].turn
AnsweredAt(h, n) ==
  {m \in ToldAt(h, n) : \E k \in m + 1 .. n : \E r \in k + 1 .. n : AnswerTo(h, k, r)}

TurnIs(h, n, s) ==
  \/ (\A k \in 1 .. n : h[k].kind # "turn") /\ s.turn = 0 /\ s.type = "regular"
  \/ \E m \in 1 .. n : LatestAt(h, m, n) /\ s.turn = h[m].turn /\ s.type = h[m].type

CountsAre(h, n, s) ==
  /\ s.available = Cardinality(ToldAt(h, n))
  /\ s.turnInputs = Cardinality(BeforeTurn(h, n))
  /\ s.delivered = Cardinality(AnsweredAt(h, n))

Reflects(h, n, s) == TurnIs(h, n, s) /\ s.calls = CallsOf(h, n) /\ CountsAre(h, n, s)

(* A history that the coordinator writes.                                  *)
TurnsRise(h) ==
  \A m, n \in DOMAIN h : h[m].kind = "turn" /\ h[n].kind = "turn" /\ m < n => h[m].turn < h[n].turn

ResponsesFit(h) ==
  \A n \in DOMAIN h : h[n].kind = "response" =>
    /\ \E m \in 1 .. n : LatestAt(h, m, n) /\ h[m].turn = h[n].turn /\ NoForkAfter(h, m, n)
    /\ \A k \in DOMAIN h : h[k].kind = "response" /\ h[k].turn = h[n].turn => k = n
    /\ h[n].calls # {} => h[n].turn <= MaxToolTurns

InputsOnce(h) ==
  \A m, n \in DOMAIN h : h[m].kind = "input" /\ h[n].kind = "input" /\ h[m].id = h[n].id => m = n

Inherits(h, n) == \E k \in n + 1 .. Len(h) : h[k].kind = "fork"

StatusFits(h, n) ==
  /\ Asked(h, n, h[n].key)
  /\ FinalAt(h, n) => \A k \in n + 1 .. Len(h) : ~(h[k].kind = "status" /\ h[k].key = h[n].key)
  /\ h[n].waitingFor \in {{}, OpsOf(h[n].key)}
  /\ HasStatusAt(h, n - 1, h[n].key) => h[n].waitingFor = OpsOf(h[n].key)
  /\ DOMAIN h[n].ops = IF Inherits(h, n) THEN {} ELSE h[n].waitingFor
  /\ \E status \in {"ready", "finished"} : \A o \in DOMAIN h[n].ops : h[n].ops[o] = status

StatusesFit(h) == \A n \in DOMAIN h : h[n].kind = "status" => StatusFits(h, n)

HistoryOK(h) ==
  /\ h \in Seq(Item)
  /\ TurnsRise(h) /\ ResponsesFit(h) /\ InputsOnce(h) /\ StatusesFit(h)

-----------------------------------------------------------------------------
(* One item more.                                                          *)

(* The latest turn, one item later.                                         *)
LEMMA LatestStep ==
  ASSUME NEW h, NEW n \in Nat, NEW m
  PROVE  LatestAt(h, m, n + 1) <=>
           IF h[n + 1].kind = "turn" THEN m = n + 1 ELSE LatestAt(h, m, n)
BY DEF LatestAt

(* Which calls were asked for, one item later: a fork forgets them.         *)
LEMMA AskedStep ==
  ASSUME NEW h, NEW n \in Nat, NEW key
  PROVE  Asked(h, n + 1, key) <=>
           \/ Asked(h, n, key) /\ h[n + 1].kind # "fork"
           \/ AsksFor(h, n + 1, key)
<1>1. ASSUME NEW m \in 1 .. n
      PROVE  NoForkAfter(h, m, n + 1) <=> NoForkAfter(h, m, n) /\ h[n + 1].kind # "fork"
  BY DEF NoForkAfter
<1>2. NoForkAfter(h, n + 1, n + 1)
  BY DEF NoForkAfter
<1>3. 1 .. n + 1 = (1 .. n) \cup {n + 1}
  OBVIOUS
<1> QED
  BY <1>1, <1>2, <1>3 DEF Asked

(* Which calls have a status, and a final one, one item later.              *)
LEMMA StatusStep ==
  ASSUME NEW h, NEW n \in Nat, NEW key
  PROVE  /\ HasStatusAt(h, n + 1, key) <=>
              HasStatusAt(h, n, key) \/ (h[n + 1].kind = "status" /\ h[n + 1].key = key)
         /\ Settled(h, n + 1, key) <=>
              Settled(h, n, key) \/ (FinalAt(h, n + 1) /\ h[n + 1].key = key)
<1>1. 1 .. n + 1 = (1 .. n) \cup {n + 1}
  OBVIOUS
<1> QED
  BY <1>1 DEF HasStatusAt, Settled

(* What the model is to be told of, one item later.                         *)
LEMMA ToldStep ==
  ASSUME NEW h, NEW n \in Nat
  PROVE  ToldAt(h, n + 1) = IF TellsAt(h, n + 1) THEN ToldAt(h, n) \cup {n + 1} ELSE ToldAt(h, n)
BY DEF ToldAt

(* What the latest turn has shown the model, one item later.                *)
LEMMA BeforeTurnStep ==
  ASSUME NEW h, NEW n \in Nat
  PROVE  BeforeTurn(h, n + 1) = IF h[n + 1].kind = "turn" THEN ToldAt(h, n) ELSE BeforeTurn(h, n)
<1>1. h[n + 1].kind = "turn" => ~TellsAt(h, n + 1)
  BY DEF TellsAt, FinalAt
<1>2. \A m \in ToldAt(h, n) : m \in 1 .. n
  BY DEF ToldAt
<1>3. ASSUME NEW m \in ToldAt(h, n)
      PROVE  m \in BeforeTurn(h, n + 1) <=> m \in BeforeTurn(h, n) \/ h[n + 1].kind = "turn"
  <2>1. m + 1 .. n + 1 = (m + 1 .. n) \cup {n + 1}
    BY <1>2
  <2> QED
    BY <2>1, ToldStep DEF BeforeTurn
<1>4. n + 1 \notin BeforeTurn(h, n + 1)
  BY DEF BeforeTurn
<1>5. BeforeTurn(h, n + 1) \subseteq ToldAt(h, n) \cup {n + 1}
  BY ToldStep DEF BeforeTurn
<1> QED
  BY <1>3, <1>4, <1>5 DEF BeforeTurn

(* What the model has answered, one item later.                             *)
LEMMA AnsweredStep ==
  ASSUME NEW h, NEW n \in Nat
  PROVE  AnsweredAt(h, n + 1) =
           {m \in ToldAt(h, n) : \/ m \in AnsweredAt(h, n)
                                 \/ \E k \in m + 1 .. n : AnswerTo(h, k, n + 1)}
<1>1. \A m \in ToldAt(h, n) : m \in 1 .. n
  BY DEF ToldAt
<1>2. ASSUME NEW m \in ToldAt(h, n)
      PROVE  m \in AnsweredAt(h, n + 1) <=>
               m \in AnsweredAt(h, n) \/ \E k \in m + 1 .. n : AnswerTo(h, k, n + 1)
  <2>1. m + 1 .. n + 1 = (m + 1 .. n) \cup {n + 1}
    BY <1>1
  <2>2. \A k \in m + 1 .. n : k + 1 .. n + 1 = (k + 1 .. n) \cup {n + 1}
    BY <1>1
  <2>3. \A r : r \notin n + 2 .. n + 1
    OBVIOUS
  <2>4. m \in AnsweredAt(h, n + 1) <=>
          \E k \in m + 1 .. n + 1 : \E r \in k + 1 .. n + 1 : AnswerTo(h, k, r)
    BY ToldStep DEF AnsweredAt
  <2>5. m \in AnsweredAt(h, n) <=> \E k \in m + 1 .. n : \E r \in k + 1 .. n : AnswerTo(h, k, r)
    BY DEF AnsweredAt
  <2> QED
    BY <2>1, <2>2, <2>3, <2>4, <2>5
<1>3. n + 1 \notin AnsweredAt(h, n + 1)
  BY DEF AnsweredAt
<1>4. AnsweredAt(h, n + 1) \subseteq ToldAt(h, n) \cup {n + 1}
  BY ToldStep DEF AnsweredAt
<1> QED
  BY <1>2, <1>3, <1>4

(* The items of a history.                                                  *)
LEMMA HistoryItem ==
  ASSUME NEW h, HistoryOK(h), NEW n \in Nat, n + 1 <= Len(h)
  PROVE  n + 1 \in DOMAIN h /\ h[n + 1] \in Item
BY DEF HistoryOK

(* The sets behind the counts are finite.                                   *)
LEMMA CountsFinite ==
  ASSUME NEW h, NEW n \in Nat
  PROVE  /\ IsFiniteSet(ToldAt(h, n)) /\ IsFiniteSet(BeforeTurn(h, n)) /\ IsFiniteSet(AnsweredAt(h, n))
         /\ n + 1 \notin ToldAt(h, n)
<1>1. IsFiniteSet(1 .. n)
  BY FS_Interval
<1>2. /\ ToldAt(h, n) \in SUBSET (1 .. n) /\ BeforeTurn(h, n) \in SUBSET (1 .. n)
      /\ AnsweredAt(h, n) \in SUBSET (1 .. n)
  BY DEF ToldAt, BeforeTurn, AnsweredAt
<1> QED
  BY <1>1, <1>2, FS_Subset

(* What was answered was shown by a turn, and what was shown was            *)
(* available.                                                               *)
LEMMA CountsOrdered ==
  ASSUME NEW h, NEW n \in Nat, NEW s, CountsAre(h, n, s)
  PROVE  /\ s.available \in Nat /\ s.turnInputs \in Nat /\ s.delivered \in Nat
         /\ s.delivered <= s.turnInputs /\ s.turnInputs <= s.available
<1>1. BeforeTurn(h, n) \in SUBSET ToldAt(h, n)
  BY DEF BeforeTurn
<1>2. AnsweredAt(h, n) \in SUBSET BeforeTurn(h, n)
  BY DEF BeforeTurn, AnsweredAt, AnswerTo
<1> QED
  BY <1>1, <1>2, CountsFinite, FS_Subset, FS_CardinalityType DEF CountsAre

(* The latest turn is one.                                                 *)
LEMMA LatestUnique ==
  ASSUME NEW h, NEW n \in Nat, NEW m, LatestAt(h, m, n), NEW k, LatestAt(h, k, n)
  PROVE  m = k
BY DEF LatestAt

(* The local state knows the latest turn.                                   *)
LEMMA TurnKnown ==
  ASSUME NEW h, NEW n \in Nat, NEW s, TurnIs(h, n, s), NEW m, LatestAt(h, m, n)
  PROVE  s.turn = h[m].turn /\ s.type = h[m].type
<1>1. m \in 1 .. n /\ h[m].kind = "turn"
  BY DEF LatestAt
<1> QED
  BY <1>1, LatestUnique DEF TurnIs

(* An item that is no turn leaves the latest turn as it is.                 *)
LEMMA TurnSame ==
  ASSUME NEW h, NEW n \in Nat, NEW s, TurnIs(h, n, s), h[n + 1].kind # "turn",
         NEW r, r.turn = s.turn, r.type = s.type
  PROVE  TurnIs(h, n + 1, r)
<1>1. CASE \A k \in 1 .. n : h[k].kind # "turn"
  <2>1. ~\E m : LatestAt(h, m, n)
    BY <1>1 DEF LatestAt
  <2> QED
    BY <1>1, <2>1 DEF TurnIs
<1>2. ASSUME NEW m \in 1 .. n, LatestAt(h, m, n), s.turn = h[m].turn, s.type = h[m].type
      PROVE  TurnIs(h, n + 1, r)
  BY <1>2, LatestStep DEF TurnIs
<1> QED
  BY <1>1, <1>2 DEF TurnIs

(* An item that is no status, no fork and no answer with calls leaves the   *)
(* pending calls as they are.                                               *)
LEMMA CallsSame ==
  ASSUME NEW h, NEW n \in Nat, h[n + 1].kind \notin {"status", "fork"},
         \A key \in Keys : ~AsksFor(h, n + 1, key)
  PROVE  CallsOf(h, n + 1) = CallsOf(h, n)
<1>1. \A key \in Keys : Asked(h, n + 1, key) <=> Asked(h, n, key)
  BY AskedStep
<1>2. \A key : /\ HasStatusAt(h, n + 1, key) <=> HasStatusAt(h, n, key)
               /\ Settled(h, n + 1, key) <=> Settled(h, n, key)
  BY StatusStep DEF FinalAt
<1>3. OpenKeys(h, n + 1) = OpenKeys(h, n)
  BY <1>1, <1>2 DEF OpenKeys
<1>4. \A key : CallOf(h, n + 1, key) = CallOf(h, n, key)
  BY <1>2 DEF CallOf
<1> QED
  BY <1>3, <1>4 DEF CallsOf

(* Inputs, statuses and forks change only how much is available.            *)
LEMMA CountsSame ==
  ASSUME NEW h, NEW n \in Nat, h[n + 1].kind \in {"input", "status", "fork"},
         NEW s, CountsAre(h, n, s),
         NEW r, r.available = s.available + (IF TellsAt(h, n + 1) THEN 1 ELSE 0),
         r.turnInputs = s.turnInputs, r.delivered = s.delivered
  PROVE  CountsAre(h, n + 1, r)
<1>1. BeforeTurn(h, n + 1) = BeforeTurn(h, n)
  BY BeforeTurnStep
<1>2. AnsweredAt(h, n + 1) = AnsweredAt(h, n)
  <2>1. \A k : ~AnswerTo(h, k, n + 1)
    BY DEF AnswerTo
  <2> QED
    BY <2>1, AnsweredStep DEF AnsweredAt
<1>3. Cardinality(ToldAt(h, n + 1)) = Cardinality(ToldAt(h, n)) + (IF TellsAt(h, n + 1) THEN 1 ELSE 0)
  <2>1. CASE TellsAt(h, n + 1)
    <3>1. ToldAt(h, n + 1) = ToldAt(h, n) \cup {n + 1}
      BY <2>1, ToldStep
    <3>2. IsFiniteSet(ToldAt(h, n)) /\ n + 1 \notin ToldAt(h, n)
      BY CountsFinite
    <3>3. Cardinality(ToldAt(h, n) \cup {n + 1}) = Cardinality(ToldAt(h, n)) + 1
      BY <3>2, FS_AddElement
    <3> QED
      BY <2>1, <3>1, <3>3
  <2>2. CASE ~TellsAt(h, n + 1)
    <3>1. ToldAt(h, n + 1) = ToldAt(h, n)
      BY <2>2, ToldStep
    <3>2. Cardinality(ToldAt(h, n)) \in Nat
      BY CountsFinite, FS_CardinalityType
    <3> QED
      BY <2>2, <3>1, <3>2
  <2> QED
    BY <2>1, <2>2
<1> QED
  BY <1>1, <1>2, <1>3 DEF CountsAre

(* An input keeps the local state a reflection of the history.              *)
LEMMA InputStep ==
  ASSUME NEW h, NEW n \in Nat, h[n + 1].kind = "input", NEW s \in LoopState, Reflects(h, n, s)
  PROVE  Reflects(h, n + 1, AddInput(s, h[n + 1].id))
<1> DEFINE r == AddInput(s, h[n + 1].id)
<1>1. /\ r.turn = s.turn /\ r.type = s.type /\ r.calls = s.calls
      /\ r.turnInputs = s.turnInputs /\ r.delivered = s.delivered
      /\ r.available = s.available + IF KindOf(h[n + 1].id) \in {"external", "heartbeat"} THEN 1 ELSE 0
  BY AddInputIs
<1> HIDE DEF r
<1>2. TellsAt(h, n + 1) <=> KindOf(h[n + 1].id) \in {"external", "heartbeat"}
  BY DEF TellsAt, FinalAt
<1>3. TurnIs(h, n + 1, r)
  BY <1>1, TurnSame DEF Reflects
<1>4. CallsOf(h, n + 1) = CallsOf(h, n)
  <2>1. \A key \in Keys : ~AsksFor(h, n + 1, key)
    BY DEF AsksFor
  <2> QED
    BY <2>1, CallsSame
<1>5. CountsAre(h, n + 1, r)
  BY <1>1, <1>2, CountsSame DEF Reflects
<1> QED
  BY <1>1, <1>3, <1>4, <1>5 DEF Reflects, r

(* So does a turn.                                                          *)
LEMMA TurnStep ==
  ASSUME NEW h, NEW n \in Nat, h[n + 1].kind = "turn", h[n + 1].turn \in Turns,
         h[n + 1].type \in {"regular", "compaction"}, NEW s \in LoopState, Reflects(h, n, s)
  PROVE  Reflects(h, n + 1, AddTurn(s, h[n + 1].turn, h[n + 1].type))
<1> DEFINE r == AddTurn(s, h[n + 1].turn, h[n + 1].type)
<1>1. /\ r.turn = h[n + 1].turn /\ r.type = h[n + 1].type /\ r.calls = s.calls
      /\ r.turnInputs = s.available /\ r.delivered = s.delivered /\ r.available = s.available
  BY AddTurnIs
<1> HIDE DEF r
<1>2. ~TellsAt(h, n + 1) /\ \A k : ~AnswerTo(h, k, n + 1)
  BY DEF TellsAt, FinalAt, AnswerTo
<1>3. TurnIs(h, n + 1, r)
  <2>1. LatestAt(h, n + 1, n + 1)
    BY LatestStep
  <2> QED
    BY <1>1, <2>1 DEF TurnIs
<1>4. CallsOf(h, n + 1) = CallsOf(h, n)
  <2>1. \A key \in Keys : ~AsksFor(h, n + 1, key)
    BY DEF AsksFor
  <2> QED
    BY <2>1, CallsSame
<1>5. AnsweredAt(h, n + 1) = AnsweredAt(h, n)
  BY <1>2, AnsweredStep DEF AnsweredAt
<1>6. CountsAre(h, n + 1, r)
  BY <1>1, <1>2, <1>5, ToldStep, BeforeTurnStep DEF CountsAre, Reflects
<1> QED
  BY <1>1, <1>3, <1>4, <1>6 DEF Reflects, r

(* A response belongs to the latest turn, and its calls have no status yet. *)
LEMMA ResponseOf ==
  ASSUME NEW h, HistoryOK(h), NEW n \in Nat, n + 1 \in DOMAIN h, h[n + 1].kind = "response"
  PROVE  \E m \in 1 .. n : LatestAt(h, m, n) /\ h[m].turn = h[n + 1].turn
<1>1. PICK m \in 1 .. n + 1 : LatestAt(h, m, n + 1) /\ h[m].turn = h[n + 1].turn
  BY DEF HistoryOK, ResponsesFit
<1>2. LatestAt(h, m, n)
  BY <1>1, LatestStep
<1> QED
  BY <1>1, <1>2 DEF LatestAt

(* The calls of a new answer have no status yet: no later turn answers for  *)
(* this one.                                                                *)
LEMMA FreshCalls ==
  ASSUME NEW h, HistoryOK(h), NEW n \in Nat, n + 1 \in DOMAIN h, h[n + 1].kind = "response",
         NEW key, key[1] = h[n + 1].turn
  PROVE  ~HasStatusAt(h, n + 1, key) /\ ~Settled(h, n + 1, key)
<1>1. ASSUME NEW m \in 1 .. n + 1, h[m].kind = "status", h[m].key = key PROVE FALSE
  <2>1. m \in DOMAIN h /\ m # n + 1
    BY <1>1 DEF HistoryOK
  <2>2. Asked(h, m, key)
    BY <1>1, <2>1 DEF HistoryOK, StatusesFit, StatusFits
  <2>3. PICK k \in 1 .. m : h[k].kind = "response" /\ h[k].turn = key[1]
    BY <2>2 DEF Asked, AsksFor
  <2>4. k \in DOMAIN h
    BY <2>1, <2>3 DEF HistoryOK
  <2>5. k = n + 1
    BY <2>3, <2>4 DEF HistoryOK, ResponsesFit
  <2> QED
    BY <2>1, <2>3, <2>5
<1> QED
  BY <1>1 DEF HasStatusAt, Settled, FinalAt

(* The answer to a compaction asks for no calls and answers no input.       *)
LEMMA CompactionStep ==
  ASSUME NEW h, HistoryOK(h), NEW n \in Nat, n + 1 \in DOMAIN h, h[n + 1].kind = "response",
         NEW s \in LoopState, Reflects(h, n, s), s.type = "compaction"
  PROVE  Reflects(h, n + 1, s)
<1>1. PICK m \in 1 .. n : LatestAt(h, m, n) /\ h[m].turn = h[n + 1].turn
  BY ResponseOf
<1>2. h[m].type = "compaction" /\ h[m].kind = "turn"
  BY <1>1, TurnKnown DEF Reflects, LatestAt
<1>3. TurnIs(h, n + 1, s)
  BY TurnSame DEF Reflects
<1>4. ~Regular(h, n + 1)
  <2>1. LatestAt(h, m, n + 1)
    BY <1>1, LatestStep
  <2> QED
    BY <1>2, <2>1, LatestUnique DEF Regular
<1>5. CallsOf(h, n + 1) = CallsOf(h, n)
  <2>1. \A key \in Keys : ~AsksFor(h, n + 1, key)
    BY <1>4 DEF AsksFor
  <2> QED
    BY <2>1, CallsSame
<1>6. ToldAt(h, n + 1) = ToldAt(h, n) /\ BeforeTurn(h, n + 1) = BeforeTurn(h, n)
  BY ToldStep, BeforeTurnStep DEF TellsAt, FinalAt
<1>7. ASSUME NEW k \in 1 .. n PROVE ~AnswerTo(h, k, n + 1)
  <2>1. SUFFICES ASSUME h[k].kind = "turn", h[k].type = "regular", h[k].turn = h[m].turn
                 PROVE  FALSE
    BY <1>1 DEF AnswerTo
  <2>2. k \in DOMAIN h /\ m \in DOMAIN h /\ h[k] \in Item /\ h[m] \in Item
    BY DEF HistoryOK
  <2>3. h[k].turn \in Nat /\ h[m].turn \in Nat
    BY <1>2, <2>1, <2>2, KindsAre, BoundsAssumption DEF Turns
  <2>4. ~(k < m) /\ ~(m < k)
    BY <1>2, <2>1, <2>2, <2>3 DEF HistoryOK, TurnsRise
  <2> QED
    BY <1>2, <2>1, <2>4
<1>8. AnsweredAt(h, n + 1) = AnsweredAt(h, n)
  <2>1. \A j \in ToldAt(h, n) : \A k \in j + 1 .. n : k \in 1 .. n
    BY DEF ToldAt
  <2> QED
    BY <1>7, <2>1, AnsweredStep DEF AnsweredAt
<1> QED
  BY <1>3, <1>5, <1>6, <1>8 DEF Reflects, CountsAre

(* The answer to a regular turn delivers what the turn showed, not what     *)
(* came since, and opens its calls.                                         *)
LEMMA RegularStep ==
  ASSUME NEW h, HistoryOK(h), NEW n \in Nat, n + 1 \in DOMAIN h, h[n + 1].kind = "response",
         NEW s \in LoopState, Reflects(h, n, s), s.type = "regular",
         NEW r \in LoopState, r.turn = s.turn, r.type = s.type,
         r.available = s.available, r.turnInputs = s.turnInputs, r.delivered = s.turnInputs,
         r.calls = Over([key \in {h[n + 1].turn} \X h[n + 1].calls |->
                           [scheduled |-> FALSE, ops |-> {}]], s.calls)
  PROVE  Reflects(h, n + 1, r)
<1> DEFINE t == h[n + 1].turn
           cs == h[n + 1].calls
<1>1. PICK m \in 1 .. n : LatestAt(h, m, n) /\ h[m].turn = t
  BY ResponseOf
<1>2. h[m].type = "regular" /\ h[m].kind = "turn"
  BY <1>1, TurnKnown DEF Reflects, LatestAt
<1>3. TurnIs(h, n + 1, r)
  BY TurnSame DEF Reflects
<1>4. Regular(h, n + 1)
  <2>1. LatestAt(h, m, n + 1)
    BY <1>1, LatestStep
  <2> QED
    BY <1>2, <2>1 DEF Regular
<1>5. ToldAt(h, n + 1) = ToldAt(h, n) /\ BeforeTurn(h, n + 1) = BeforeTurn(h, n)
  BY ToldStep, BeforeTurnStep DEF TellsAt, FinalAt
<1>6. AnsweredAt(h, n + 1) = BeforeTurn(h, n)
  <2>1. AnswerTo(h, m, n + 1)
    BY <1>1, <1>2 DEF AnswerTo
  <2>2. ASSUME NEW j \in ToldAt(h, n), NEW k \in j + 1 .. n, h[k].kind = "turn"
        PROVE  m \in j + 1 .. n
    BY <1>1, <2>2 DEF LatestAt, ToldAt
  <2>3. AnsweredAt(h, n) \subseteq BeforeTurn(h, n)
    BY DEF AnsweredAt, BeforeTurn, AnswerTo
  <2>4. \A j \in ToldAt(h, n) : (\E k \in j + 1 .. n : AnswerTo(h, k, n + 1)) => j \in BeforeTurn(h, n)
    BY DEF BeforeTurn, AnswerTo
  <2>5. \A j \in BeforeTurn(h, n) : j \in ToldAt(h, n) /\ \E k \in j + 1 .. n : AnswerTo(h, k, n + 1)
    BY <2>1, <2>2 DEF BeforeTurn
  <2> QED
    BY <2>3, <2>4, <2>5, AnsweredStep
<1>7. {t} \X cs \subseteq Keys
  <2>1. h[n + 1] \in Item
    BY DEF HistoryOK
  <2>2. t \in Turns /\ cs \subseteq CallIDs
    BY <2>1, KindsAre
  <2>3. cs # {} => t <= MaxToolTurns
    BY DEF HistoryOK, ResponsesFit
  <2> QED
    BY <2>2, <2>3, BoundsAssumption DEF Keys, Turns
<1>8. \A key \in Keys : AsksFor(h, n + 1, key) <=> key \in {t} \X cs
  BY <1>4 DEF AsksFor, Keys
<1>9. ASSUME NEW key \in {t} \X cs
      PROVE  /\ key \in OpenKeys(h, n + 1)
             /\ CallOf(h, n + 1, key) = [scheduled |-> FALSE, ops |-> {}]
  <2>1. key[1] = t
    OBVIOUS
  <2>2. ~HasStatusAt(h, n + 1, key) /\ ~Settled(h, n + 1, key)
    BY <2>1, FreshCalls
  <2>3. Asked(h, n + 1, key)
    BY <1>7, <1>8, AskedStep
  <2> QED
    BY <1>7, <2>2, <2>3 DEF OpenKeys, CallOf
<1>10. ASSUME NEW key \in Keys, key \notin {t} \X cs
       PROVE  /\ key \in OpenKeys(h, n + 1) <=> key \in OpenKeys(h, n)
              /\ CallOf(h, n + 1, key) = CallOf(h, n, key)
  <2>1. Asked(h, n + 1, key) <=> Asked(h, n, key)
    BY <1>8, <1>10, AskedStep
  <2>2. /\ HasStatusAt(h, n + 1, key) <=> HasStatusAt(h, n, key)
        /\ Settled(h, n + 1, key) <=> Settled(h, n, key)
    BY StatusStep DEF FinalAt
  <2> QED
    BY <2>1, <2>2 DEF OpenKeys, CallOf
<1>11. OpenKeys(h, n + 1) = ({t} \X cs) \cup OpenKeys(h, n)
  <2>1. OpenKeys(h, n) \subseteq Keys /\ OpenKeys(h, n + 1) \subseteq Keys
    BY DEF OpenKeys
  <2> QED
    BY <1>7, <1>9, <1>10, <2>1
<1>12. CallsOf(h, n + 1) = r.calls
  <2>1. s.calls = [key \in OpenKeys(h, n) |-> CallOf(h, n, key)]
    BY DEF Reflects, CallsOf
  <2>2. OpenKeys(h, n) \subseteq Keys
    BY DEF OpenKeys
  <2> HIDE DEF t, cs
  <2>3. r.calls = Over([key \in {t} \X cs |-> [scheduled |-> FALSE, ops |-> {}]], s.calls)
    BY DEF t, cs
  <2>4. r.calls = [key \in ({t} \X cs) \cup OpenKeys(h, n) |->
                     IF key \in {t} \X cs THEN [scheduled |-> FALSE, ops |-> {}]
                     ELSE CallOf(h, n, key)]
    <3> DEFINE D == {t} \X cs
               f == [key \in D |-> [scheduled |-> FALSE, ops |-> {}]]
               O == OpenKeys(h, n)
    <3>1. DOMAIN f = D /\ \A key \in D : f[key] = [scheduled |-> FALSE, ops |-> {}]
      OBVIOUS
    <3>2. DOMAIN s.calls = O /\ \A key \in O : s.calls[key] = CallOf(h, n, key)
      BY <2>1
    <3> HIDE DEF f, D, O
    <3>3. Over(f, s.calls) = [key \in D \cup O |-> IF key \in D THEN [scheduled |-> FALSE, ops |-> {}]
                                                ELSE CallOf(h, n, key)]
      BY <3>1, <3>2 DEF Over
    <3>4. r.calls = Over(f, s.calls)
      BY <2>3 DEF f, D
    <3> QED
      BY <3>3, <3>4 DEF D, O
  <2> QED
    BY <1>9, <1>10, <1>11, <2>2, <2>4 DEF CallsOf
<1> QED
  BY <1>3, <1>5, <1>6, <1>12 DEF Reflects, CountsAre

(* The operations that the statuses of a history hold: the last one counts. *)
Holds(h, m, o) == h[m].kind = "status" /\ o \in DOMAIN h[m].ops
LastHolds(h, n, m, o) == m \in 1 .. n /\ Holds(h, m, o) /\ \A k \in m + 1 .. n : ~Holds(h, k, o)

OpsMatch(h, n, s) ==
  /\ DOMAIN s.ops = {o \in Ops : \E m \in 1 .. n : Holds(h, m, o)}
  /\ \A m \in 1 .. n : \A o \in Ops : LastHolds(h, n, m, o) => s.ops[o] = h[m].ops[o]

(* Nothing is left of a parent's operations.                               *)
NothingInherited(h, n, s) == Inherits(h, n) => DOMAIN s.ops = {}

(* No operation of the parent is left in the local state after a fork.      *)
LEMMA InheritedOpsGone ==
  ASSUME NEW h, HistoryOK(h), NEW n \in Nat, n <= Len(h), NEW s, OpsMatch(h, n, s)
  PROVE  NothingInherited(h, n, s)
<1> SUFFICES ASSUME Inherits(h, n), NEW m \in 1 .. n, NEW o, Holds(h, m, o) PROVE FALSE
  BY DEF OpsMatch, NothingInherited
<1>1. Len(h) \in Nat
  BY DEF HistoryOK
<1>2. Inherits(h, m)
  BY <1>1 DEF Inherits
<1>3. m \in DOMAIN h
  BY <1>1 DEF HistoryOK
<1> QED
  BY <1>2, <1>3 DEF Holds, HistoryOK, StatusesFit, StatusFits

(* A status belongs to a call that is open, and says all it waits for.     *)
LEMMA StatusOf ==
  ASSUME NEW h, HistoryOK(h), NEW n \in Nat, n + 1 \in DOMAIN h, h[n + 1].kind = "status",
         NEW s \in LoopState, s.calls = CallsOf(h, n), NothingInherited(h, n + 1, s)
  PROVE  LET key == h[n + 1].key
             w == h[n + 1].waitingFor
         IN  /\ key \in Keys /\ key \in OpenKeys(h, n) /\ key \in DOMAIN s.calls
             /\ Waits(s, key, w) = w
             /\ Ends(s, key, w, h[n + 1].ops) <=> FinalAt(h, n + 1)
             /\ ~FinalAt(h, n + 1) => w = OpsOf(key)
<1> DEFINE key == h[n + 1].key
           w == h[n + 1].waitingFor
           f == h[n + 1].ops
<1>1. key \in Keys /\ f \in StatusMaps
  <2>1. h[n + 1] \in Item
    BY DEF HistoryOK
  <2> QED
    BY <2>1, KindsAre
<1>2. StatusFits(h, n + 1)
  BY DEF HistoryOK, StatusesFit
<1>3. Asked(h, n, key)
  BY <1>2, AskedStep DEF StatusFits, AsksFor
<1>4. ~Settled(h, n, key)
  <2> SUFFICES ASSUME NEW m \in 1 .. n, FinalAt(h, m), h[m].key = key PROVE FALSE
    BY DEF Settled
  <2>1. m \in DOMAIN h /\ Len(h) \in Nat /\ n + 1 <= Len(h)
    BY DEF HistoryOK
  <2>2. StatusFits(h, m)
    BY <2>1 DEF HistoryOK, StatusesFit, FinalAt
  <2> QED
    BY <2>1, <2>2 DEF StatusFits
<1>5. key \in OpenKeys(h, n)
  BY <1>1, <1>3, <1>4 DEF OpenKeys
<1>6. key \in DOMAIN s.calls /\ s.calls[key] = CallOf(h, n, key)
  BY <1>5 DEF CallsOf
<1>7. Waits(s, key, w) = w
  <2>1. CASE HasStatusAt(h, n, key)
    <3>1. w = OpsOf(key)
      <4>1. (n + 1) - 1 = n
        OBVIOUS
      <4> QED
        BY <1>2, <2>1, <4>1 DEF StatusFits
    <3> QED
      BY <1>6, <2>1, <3>1 DEF Waits, CallOf
  <2>2. CASE ~HasStatusAt(h, n, key)
    BY <1>6, <2>2 DEF Waits, CallOf
  <2> QED
    BY <2>1, <2>2
<1>8. Ends(s, key, w, f) <=> FinalAt(h, n + 1)
  <2>1. CASE Inherits(h, n + 1)
    <3>1. DOMAIN f = {} /\ DOMAIN s.ops = {}
      BY <1>2, <2>1 DEF StatusFits, NothingInherited
    <3>2. DOMAIN Over(f, s.ops) = {}
      BY <3>1 DEF Over
    <3> QED
      BY <1>7, <3>1, <3>2 DEF Ends, FinalAt
  <2>2. CASE ~Inherits(h, n + 1)
    <3>1. DOMAIN f = w
      BY <1>2, <2>2 DEF StatusFits
    <3>2. \A o \in w : o \in DOMAIN Over(f, s.ops) /\ Over(f, s.ops)[o] = f[o]
      BY <3>1 DEF Over
    <3> QED
      BY <1>7, <3>1, <3>2 DEF Ends, FinalAt
  <2> QED
    BY <2>1, <2>2
<1>9. ~FinalAt(h, n + 1) => w = OpsOf(key)
  BY <1>2 DEF StatusFits, FinalAt
<1> QED
  BY <1>1, <1>5, <1>6, <1>7, <1>8, <1>9

(* A status keeps the local state a reflection of the history.              *)
LEMMA CallStatusStep ==
  ASSUME NEW h, HistoryOK(h), NEW n \in Nat, n + 1 \in DOMAIN h, h[n + 1].kind = "status",
         NEW s \in LoopState, Reflects(h, n, s), NothingInherited(h, n + 1, s)
  PROVE  Reflects(h, n + 1, AddStatus(s, h[n + 1].key, h[n + 1].waitingFor, h[n + 1].ops))
<1> DEFINE key == h[n + 1].key
           w == h[n + 1].waitingFor
           f == h[n + 1].ops
           r == AddStatus(s, key, w, f)
<1>1. key \in Keys /\ f \in StatusMaps /\ w \in SUBSET Ops
  <2>1. h[n + 1] \in Item
    BY DEF HistoryOK
  <2> QED
    BY <2>1, KindsAre
<1>2. /\ key \in OpenKeys(h, n) /\ key \in DOMAIN s.calls
      /\ Waits(s, key, w) = w
      /\ Ends(s, key, w, f) <=> FinalAt(h, n + 1)
      /\ ~FinalAt(h, n + 1) => w = OpsOf(key)
  BY StatusOf DEF Reflects
<1>3. /\ r.turn = s.turn /\ r.type = s.type /\ r.turnInputs = s.turnInputs
      /\ r.delivered = s.delivered
      /\ FinalAt(h, n + 1) => r.calls = Without(s.calls, key) /\ r.available = s.available + 1
      /\ ~FinalAt(h, n + 1) =>
           /\ r.calls = [s.calls EXCEPT ![key] = [scheduled |-> TRUE, ops |-> w]]
           /\ r.available = s.available
  <2>1. StatusAdded(s, key, w, f, r)
    <3> HIDE DEF key, w, f
    <3> QED
      BY <1>1, AddStatusIs
  <2> QED
    BY <1>2, <2>1 DEF StatusAdded
<1> HIDE DEF r
<1>4. TurnIs(h, n + 1, r)
  BY <1>3, TurnSame DEF Reflects
<1>5. TellsAt(h, n + 1) <=> FinalAt(h, n + 1)
  BY DEF TellsAt
<1>6. CountsAre(h, n + 1, r)
  <2>1. r.available = s.available + (IF TellsAt(h, n + 1) THEN 1 ELSE 0)
    BY <1>3, <1>5 DEF LoopState
  <2> QED
    BY <1>3, <2>1, CountsSame DEF Reflects
<1>7. \A k \in Keys : Asked(h, n + 1, k) <=> Asked(h, n, k)
  BY AskedStep DEF AsksFor
<1>8. \A k \in Keys : k # key =>
        /\ k \in OpenKeys(h, n + 1) <=> k \in OpenKeys(h, n)
        /\ CallOf(h, n + 1, k) = CallOf(h, n, k)
  BY <1>7, StatusStep DEF OpenKeys, CallOf
<1>9. key \in OpenKeys(h, n + 1) <=> ~FinalAt(h, n + 1)
  BY <1>1, <1>2, <1>7, StatusStep DEF OpenKeys
<1>10. s.calls = [k \in OpenKeys(h, n) |-> CallOf(h, n, k)]
  BY DEF Reflects, CallsOf
<1>11. OpenKeys(h, n) \subseteq Keys /\ OpenKeys(h, n + 1) \subseteq Keys
  BY DEF OpenKeys
<1>12. CallsOf(h, n + 1) = r.calls
  <2>1. CASE FinalAt(h, n + 1)
    <3>1. OpenKeys(h, n + 1) = OpenKeys(h, n) \ {key}
      BY <1>8, <1>9, <1>11, <2>1
    <3>2. r.calls = [k \in OpenKeys(h, n) \ {key} |-> CallOf(h, n, k)]
      BY <1>3, <1>10, <2>1 DEF Without
    <3> QED
      BY <1>8, <1>11, <3>1, <3>2 DEF CallsOf
  <2>2. CASE ~FinalAt(h, n + 1)
    <3>1. OpenKeys(h, n + 1) = OpenKeys(h, n)
      BY <1>2, <1>8, <1>9, <1>11, <2>2
    <3>2. CallOf(h, n + 1, key) = [scheduled |-> TRUE, ops |-> w]
      BY <1>2, <2>2, StatusStep DEF CallOf
    <3>3. r.calls = [k \in OpenKeys(h, n) |->
                       IF k = key THEN [scheduled |-> TRUE, ops |-> w] ELSE CallOf(h, n, k)]
      BY <1>2, <1>3, <1>10, <2>2
    <3> QED
      BY <1>8, <1>11, <3>1, <3>2, <3>3 DEF CallsOf
  <2> QED
    BY <2>1, <2>2
<1>13. Reflects(h, n + 1, r)
  BY <1>4, <1>6, <1>12 DEF Reflects
<1> QED
  BY <1>13 DEF r

(* So does a fork item.                                                     *)
LEMMA ForkStep ==
  ASSUME NEW h, NEW n \in Nat, h[n + 1].kind = "fork", NEW s \in LoopState, Reflects(h, n, s)
  PROVE  Reflects(h, n + 1, AddFork(s))
<1> DEFINE r == AddFork(s)
<1>1. /\ r.turn = s.turn /\ r.type = s.type /\ r.calls = <<>>
      /\ r.available = s.available /\ r.turnInputs = s.turnInputs /\ r.delivered = s.delivered
  BY AddForkIs
<1> HIDE DEF r
<1>2. TurnIs(h, n + 1, r)
  BY <1>1, TurnSame DEF Reflects
<1>3. CountsAre(h, n + 1, r)
  <2>1. r.available = s.available + (IF TellsAt(h, n + 1) THEN 1 ELSE 0)
    BY <1>1 DEF TellsAt, FinalAt, LoopState
  <2> QED
    BY <1>1, <2>1, CountsSame DEF Reflects
<1>4. OpenKeys(h, n + 1) = {}
  BY AskedStep DEF OpenKeys, AsksFor
<1>5. CallsOf(h, n + 1) = <<>>
  <2>1. <<>> = [x \in {} |-> CallOf(h, n + 1, x)]
    OBVIOUS
  <2> QED
    BY <1>4, <2>1 DEF CallsOf
<1>6. Reflects(h, n + 1, r)
  BY <1>1, <1>2, <1>3, <1>5 DEF Reflects
<1> QED
  BY <1>6 DEF r

(* AddItem keeps the local state what the history says.                    *)
LEMMA ItemStep ==
  ASSUME NEW h, HistoryOK(h), NEW n \in Nat, n + 1 <= Len(h),
         NEW s \in LoopState, Reflects(h, n, s), NothingInherited(h, n + 1, s)
  PROVE  /\ AddItem(s, h[n + 1]) \in LoopState
         /\ Reflects(h, n + 1, AddItem(s, h[n + 1]))
         /\ AddItem(s, h[n + 1]).ops =
              IF h[n + 1].kind = "status" THEN Over(h[n + 1].ops, s.ops)
              ELSE IF h[n + 1].kind = "fork" THEN <<>> ELSE s.ops
<1> DEFINE item == h[n + 1]
<1>1. n + 1 \in DOMAIN h /\ item \in Item
  BY HistoryItem
<1>2. CASE item.kind = "input"
  <2>1. AddItem(s, item) = AddInput(s, item.id)
    BY <1>2 DEF AddItem
  <2> QED
    BY <1>2, <2>1, AddInputIs, InputStep
<1>3. CASE item.kind = "turn"
  <2>1. AddItem(s, item) = AddTurn(s, item.turn, item.type)
    BY <1>3 DEF AddItem
  <2>2. item.turn \in Turns /\ item.type \in {"regular", "compaction"}
    BY <1>1, <1>3, KindsAre
  <2> QED
    BY <1>3, <2>1, <2>2, AddTurnIs, TurnStep
<1>4. CASE item.kind = "response"
  <2>1. AddItem(s, item) = AddResponse(s, item.turn, item.calls)
    BY <1>4 DEF AddItem
  <2>2. PICK m \in 1 .. n : LatestAt(h, m, n) /\ h[m].turn = item.turn
    BY <1>1, <1>4, ResponseOf
  <2>3. s.turn = item.turn
    <3>1. TurnIs(h, n, s)
      BY DEF Reflects
    <3>2. s.turn = h[m].turn
      BY <2>2, <3>1, TurnKnown
    <3> QED
      BY <2>2, <3>2
  <2>4. CASE s.type = "compaction"
    <3>1. AddResponse(s, item.turn, item.calls) = s
      BY <2>3, <2>4 DEF AddResponse
    <3> QED
      BY <1>1, <1>4, <2>1, <2>4, <3>1, CompactionStep
  <2>5. CASE s.type = "regular"
    <3> DEFINE a == [s EXCEPT !.delivered = s.turnInputs]
               r == AddToolCalls(a, item.turn, item.calls)
               new == [key \in {item.turn} \X item.calls |-> [scheduled |-> FALSE, ops |-> {}]]
    <3>1. AddResponse(s, item.turn, item.calls) = r
      BY <2>3, <2>5 DEF AddResponse
    <3>2. /\ a \in LoopState /\ a.delivered = s.turnInputs
          /\ \A f \in {"turn", "type", "calls", "ops", "available", "turnInputs",
                       "graceCalls", "grace"} : a[f] = s[f]
      BY DEF LoopState
    <3>3. {item.turn} \X item.calls \subseteq Keys
      <4>1. item.turn \in Turns /\ item.calls \subseteq CallIDs
        BY <1>1, <1>4, KindsAre
      <4>2. item.calls # {} => item.turn <= MaxToolTurns
        BY <1>1, <1>4 DEF HistoryOK, ResponsesFit
      <4> QED
        BY <4>1, <4>2, BoundsAssumption DEF Keys, Turns
    <3> DEFINE t == item.turn
               cs == item.calls
    <3>4. CallsAdded(a, t, cs, r)
      <4>1. {t} \X cs \subseteq Keys
        BY <3>3
      <4> HIDE DEF a, item, t, cs
      <4> QED
        BY <3>2, <4>1, AddToolCallsIs DEF t, cs
    <3> HIDE DEF a
    <3> HIDE DEF r
    <3>5. /\ r.turn = s.turn /\ r.type = s.type /\ r.available = s.available
          /\ r.turnInputs = s.turnInputs /\ r.delivered = s.turnInputs
          /\ r.calls = Over(new, s.calls) /\ r.ops = s.ops /\ r \in LoopState
      BY <3>2, <3>4 DEF CallsAdded
    <3>6. Reflects(h, n + 1, r)
      BY <1>1, <1>4, <2>5, <3>5, RegularStep
    <3> QED
      BY <1>4, <2>1, <3>1, <3>5, <3>6
  <2> QED
    BY <2>4, <2>5 DEF LoopState
<1>5. CASE item.kind = "status"
  <2>1. AddItem(s, item) = AddStatus(s, item.key, item.waitingFor, item.ops)
    BY <1>5 DEF AddItem
  <2>2. item.key \in Keys /\ item.waitingFor \in SUBSET Ops /\ item.ops \in StatusMaps
    BY <1>1, <1>5, KindsAre
  <2>3. Reflects(h, n + 1, AddStatus(s, item.key, item.waitingFor, item.ops))
    BY <1>1, <1>5, CallStatusStep
  <2>4. /\ AddStatus(s, item.key, item.waitingFor, item.ops) \in LoopState
        /\ AddStatus(s, item.key, item.waitingFor, item.ops).ops = Over(item.ops, s.ops)
    <3> DEFINE key == item.key
               w == item.waitingFor
               f == item.ops
    <3>1. key \in Keys /\ w \in SUBSET Ops /\ f \in StatusMaps
      BY <2>2
    <3> HIDE DEF key, w, f
    <3>2. StatusAdded(s, key, w, f, AddStatus(s, key, w, f))
      BY <3>1, AddStatusIs
    <3> QED
      BY <3>2 DEF key, w, f, StatusAdded
  <2> QED
    BY <1>5, <2>1, <2>3, <2>4
<1>6. CASE item.kind = "fork"
  <2>1. AddItem(s, item) = AddFork(s)
    BY <1>6 DEF AddItem
  <2> QED
    BY <1>6, <2>1, AddForkIs, ForkStep
<1> QED
  BY <1>1, <1>2, <1>3, <1>4, <1>5, <1>6, KindsAre

-----------------------------------------------------------------------------
(* Replay, by induction over the history.                                  *)

ReplayOf(h, f, m) == f = [n \in 0 .. m |-> IF n = 0 THEN NewLoopState ELSE AddItem(f[n - 1], h[n])]

(* The replay of every prefix of a history is defined: by induction on its  *)
(* length.                                                                  *)
LEMMA ReplayExists ==
  ASSUME NEW h
  PROVE  \A m \in Nat : \E f : ReplayOf(h, f, m)
<1> DEFINE T == {m \in Nat : \E f : ReplayOf(h, f, m)}
<1>1. 0 \in T
  <2>1. ReplayOf(h, [n \in 0 .. 0 |-> NewLoopState], 0)
    BY DEF ReplayOf
  <2> QED
    BY <2>1
<1>2. ASSUME NEW m \in T PROVE m + 1 \in T
  <2>1. PICK f : ReplayOf(h, f, m)
    OBVIOUS
  <2> DEFINE g == [n \in 0 .. m + 1 |-> IF n = m + 1 THEN AddItem(f[m], h[m + 1]) ELSE f[n]]
  <2>2. ReplayOf(h, g, m + 1)
    <3>1. ASSUME NEW n \in 0 .. m + 1
          PROVE  g[n] = IF n = 0 THEN NewLoopState ELSE AddItem(g[n - 1], h[n])
      <4>1. CASE n = m + 1
        BY <4>1
      <4>2. CASE n # m + 1
        BY <2>1, <4>2 DEF ReplayOf
      <4> QED
        BY <4>1, <4>2
    <3> QED
      BY <3>1 DEF ReplayOf
  <2> QED
    BY <2>2
<1> HIDE DEF T
<1>3. T = Nat
  BY <1>1, <1>2, Induction DEF T
<1> QED
  BY <1>3 DEF T

(* The recursive definition of the replay, unrolled by one item.            *)
LEMMA ReplayIs ==
  ASSUME NEW h, Len(h) \in Nat
  PROVE  /\ Replay(h)[0] = NewLoopState
         /\ \A n \in Nat : n + 1 <= Len(h) => Replay(h)[n + 1] = AddItem(Replay(h)[n], h[n + 1])
<1>1. Replay(h) = CHOOSE f : ReplayOf(h, f, Len(h))
  BY DEF ReplayOf, Replay
<1>2. \E f : ReplayOf(h, f, Len(h))
  BY ReplayExists
<1>3. ReplayOf(h, Replay(h), Len(h))
  BY <1>1, <1>2
<1> DEFINE f == Replay(h)
<1>4. f = [n \in 0 .. Len(h) |-> IF n = 0 THEN NewLoopState ELSE AddItem(f[n - 1], h[n])]
  BY <1>3 DEF ReplayOf
<1> HIDE DEF f
<1>5. f[0] = NewLoopState
  BY <1>4
<1>6. ASSUME NEW n \in Nat, n + 1 <= Len(h) PROVE f[n + 1] = AddItem(f[n], h[n + 1])
  <2>1. n + 1 \in 0 .. Len(h) /\ n + 1 # 0 /\ (n + 1) - 1 = n
    BY <1>6
  <2> QED
    BY <1>4, <2>1
<1> QED
  BY <1>5, <1>6 DEF f

(* The empty local state reflects the empty history.                        *)
LEMMA ReflectsNew ==
  ASSUME NEW h
  PROVE  Reflects(h, 0, NewLoopState) /\ OpsMatch(h, 0, NewLoopState)
<1>1. /\ ToldAt(h, 0) = {} /\ BeforeTurn(h, 0) = {} /\ AnsweredAt(h, 0) = {}
      /\ OpenKeys(h, 0) = {}
  BY DEF ToldAt, BeforeTurn, AnsweredAt, OpenKeys, Asked
<1>2. Cardinality({}) = 0
  BY FS_EmptySet
<1>3. CallsOf(h, 0) = <<>>
  <2>1. <<>> = [x \in {} |-> CallOf(h, 0, x)]
    OBVIOUS
  <2> QED
    BY <1>1, <2>1 DEF CallsOf
<1>4. TurnIs(h, 0, NewLoopState)
  BY DEF TurnIs, NewLoopState
<1>5. OpsMatch(h, 0, NewLoopState)
  <2>1. DOMAIN NewLoopState.ops = {}
    BY DEF NewLoopState
  <2> QED
    BY <2>1 DEF OpsMatch
<1>6. NewLoopState.calls = <<>>
  BY DEF NewLoopState
<1>7. CountsAre(h, 0, NewLoopState)
  BY <1>1, <1>2 DEF CountsAre, NewLoopState
<1> QED
  BY <1>3, <1>4, <1>5, <1>6, <1>7 DEF Reflects

(* The statuses of the replayed operations are the last ones that the       *)
(* history holds.                                                           *)
LEMMA OpsStep ==
  ASSUME NEW h, HistoryOK(h), NEW n \in Nat, n + 1 <= Len(h),
         NEW s \in LoopState, OpsMatch(h, n, s), NEW r,
         r.ops = IF h[n + 1].kind = "status" THEN Over(h[n + 1].ops, s.ops)
                 ELSE IF h[n + 1].kind = "fork" THEN <<>> ELSE s.ops
  PROVE  OpsMatch(h, n + 1, r)
<1>1. 1 .. n + 1 = (1 .. n) \cup {n + 1}
  OBVIOUS
<1>2. \A m \in 1 .. n, o \in Ops : LastHolds(h, n + 1, m, o) <=> LastHolds(h, n, m, o) /\ ~Holds(h, n + 1, o)
  <2>1. ASSUME NEW m \in 1 .. n PROVE m + 1 .. n + 1 = (m + 1 .. n) \cup {n + 1}
    OBVIOUS
  <2> QED
    BY <1>1, <2>1 DEF LastHolds
<1>3. \A m, o : LastHolds(h, n, m, o) => Holds(h, m, o) /\ m \in 1 .. n
  BY DEF LastHolds
<1>4. CASE h[n + 1].kind \notin {"status", "fork"}
  <2>1. \A o : ~Holds(h, n + 1, o)
    BY <1>4 DEF Holds
  <2> QED
    BY <1>1, <1>2, <1>4, <2>1 DEF OpsMatch, LastHolds
<1>5. CASE h[n + 1].kind = "fork"
  <2>1. Inherits(h, n)
    BY <1>5 DEF Inherits, HistoryOK
  <2>2. DOMAIN s.ops = {}
    BY <2>1, InheritedOpsGone DEF NothingInherited
  <2>3. \A o \in Ops : \A m \in 1 .. n + 1 : ~Holds(h, m, o)
    BY <1>1, <1>5, <2>2 DEF OpsMatch, Holds
  <2>4. DOMAIN r.ops = {}
    BY <1>5
  <2> QED
    BY <2>3, <2>4 DEF OpsMatch, LastHolds
<1>6. CASE h[n + 1].kind = "status"
  <2> DEFINE f == h[n + 1].ops
  <2>1. f \in StatusMaps
    BY <1>6, HistoryItem, KindsAre
  <2>2. DOMAIN f \subseteq Ops
    BY <2>1, MapsAre
  <2>3. r.ops = Over(f, s.ops)
    BY <1>6
  <2>4. \A o : Holds(h, n + 1, o) <=> o \in DOMAIN f
    BY <1>6 DEF Holds
  <2> HIDE DEF f
  <2>5. /\ DOMAIN r.ops = DOMAIN f \cup DOMAIN s.ops
        /\ \A o \in DOMAIN r.ops : r.ops[o] = IF o \in DOMAIN f THEN f[o] ELSE s.ops[o]
    BY <2>3 DEF Over
  <2>6. DOMAIN r.ops = {o \in Ops : \E m \in 1 .. n + 1 : Holds(h, m, o)}
    BY <1>1, <2>2, <2>4, <2>5 DEF OpsMatch
  <2>7. ASSUME NEW m \in 1 .. n + 1, NEW o \in Ops, LastHolds(h, n + 1, m, o)
        PROVE  r.ops[o] = h[m].ops[o]
    <3>1. CASE m = n + 1
      BY <2>4, <2>5, <2>7, <3>1 DEF LastHolds, f
    <3>2. CASE m \in 1 .. n
      <4>1. LastHolds(h, n, m, o) /\ o \notin DOMAIN f
        BY <1>2, <2>4, <2>7, <3>2
      <4>2. o \in DOMAIN s.ops /\ s.ops[o] = h[m].ops[o]
        BY <1>3, <3>2, <4>1 DEF OpsMatch
      <4> QED
        BY <2>5, <4>1, <4>2
    <3> QED
      BY <1>1, <3>1, <3>2
  <2> QED
    BY <2>6, <2>7 DEF OpsMatch
<1> QED
  BY <1>4, <1>5, <1>6

(* The calls with a grace period are open ones, and while there are any the *)
(* timer runs; only the coordinator's own steps give a call one.           *)
GraceOK(s) == s.graceCalls \subseteq DOMAIN s.calls /\ (s.grace <=> s.graceCalls # {})

(* No item starts a grace period, and one that ends a call ends its share   *)
(* of it.                                                                   *)
LEMMA GraceStep ==
  ASSUME NEW s \in LoopState, GraceOK(s), NEW item \in Item,
         item.kind = "response" => {item.turn} \X item.calls \subseteq Keys
  PROVE  GraceOK(AddItem(s, item)) /\ AddItem(s, item).graceCalls \subseteq s.graceCalls
<1>1. CASE item.kind = "input"
  <2>1. AddItem(s, item) = AddInput(s, item.id)
    BY <1>1 DEF AddItem
  <2> QED
    BY <2>1, AddInputIs DEF GraceOK
<1>2. CASE item.kind = "turn"
  <2>1. AddItem(s, item) = AddTurn(s, item.turn, item.type)
    BY <1>2 DEF AddItem
  <2> QED
    BY <1>2, <2>1, AddTurnIs, KindsAre DEF GraceOK
<1>3. CASE item.kind = "response"
  <2> DEFINE d == IF item.turn = s.turn THEN s.turnInputs ELSE s.delivered
             a == [s EXCEPT !.delivered = d]
             t == item.turn
             cs == item.calls
  <2>1. AddItem(s, item) = s \/ AddItem(s, item) = AddToolCalls(a, t, cs)
    BY <1>3 DEF AddItem, AddResponse
  <2>2. a \in LoopState /\ a.graceCalls = s.graceCalls /\ a.grace = s.grace /\ a.calls = s.calls
    <3>1. d \in Nat
      BY DEF LoopState
    <3> HIDE DEF d
    <3> QED
      BY <3>1 DEF LoopState
  <2>3. {t} \X cs \subseteq Keys
    BY <1>3
  <2> HIDE DEF a, t, cs
  <2>4. CallsAdded(a, t, cs, AddToolCalls(a, t, cs))
    BY <2>2, <2>3, AddToolCallsIs
  <2>5. \A f : DOMAIN Over(f, s.calls) = DOMAIN f \cup DOMAIN s.calls
    BY DEF Over
  <2> DEFINE r == AddToolCalls(a, t, cs)
  <2> HIDE DEF r
  <2>6. r.graceCalls = s.graceCalls /\ r.grace = s.grace /\ DOMAIN s.calls \subseteq DOMAIN r.calls
    <3>1. CallsAdded(a, t, cs, r)
      BY <2>4 DEF r
    <3> QED
      BY <2>2, <2>5, <3>1 DEF CallsAdded
  <2>7. CASE AddItem(s, item) = s
    BY <2>7
  <2>8. CASE AddItem(s, item) = r
    BY <2>6, <2>8 DEF GraceOK
  <2> QED
    BY <2>1, <2>7, <2>8 DEF r
<1>4. CASE item.kind = "status"
  <2> DEFINE key == item.key
             w == item.waitingFor
             f == item.ops
             r == AddStatus(s, key, w, f)
  <2>1. key \in Keys /\ w \in SUBSET Ops /\ f \in StatusMaps
    BY <1>4, KindsAre
  <2>2. AddItem(s, item) = r
    BY <1>4 DEF AddItem
  <2> HIDE DEF key, w, f
  <2>3. StatusAdded(s, key, w, f, r)
    BY <2>1, AddStatusIs
  <2> HIDE DEF r
  <2>4. CASE key \notin DOMAIN s.calls
    BY <2>2, <2>3, <2>4 DEF StatusAdded, GraceOK
  <2>5. CASE key \in DOMAIN s.calls /\ Ends(s, key, w, f)
    <3>1. DOMAIN r.calls = DOMAIN s.calls \ {key}
      BY <2>3, <2>5 DEF StatusAdded, Without
    <3>2. r.graceCalls = s.graceCalls \ {key} /\ (r.grace <=> s.grace /\ s.graceCalls \ {key} # {})
      BY <2>3, <2>5 DEF StatusAdded
    <3> QED
      BY <2>2, <3>1, <3>2 DEF GraceOK
  <2>6. CASE key \in DOMAIN s.calls /\ ~Ends(s, key, w, f)
    <3>1. DOMAIN r.calls = DOMAIN s.calls
      BY <2>3, <2>6 DEF StatusAdded
    <3>2. r.graceCalls = s.graceCalls /\ r.grace = s.grace
      BY <2>3, <2>6 DEF StatusAdded
    <3> QED
      BY <2>2, <3>1, <3>2 DEF GraceOK
  <2> QED
    BY <2>4, <2>5, <2>6
<1>5. CASE item.kind = "fork"
  <2>1. AddItem(s, item) = AddFork(s)
    BY <1>5 DEF AddItem
  <2> QED
    BY <2>1, AddForkIs DEF GraceOK
<1> QED
  BY <1>1, <1>2, <1>3, <1>4, <1>5, KindsAre

ReplayedAt(h, n) ==
  LET s == Replay(h)[n]
  IN  s \in LoopState /\ Reflects(h, n, s) /\ OpsMatch(h, n, s) /\ s.graceCalls = {} /\ GraceOK(s)

(* Restore finds the state that the history describes.                     *)
LEMMA Replayed ==
  ASSUME NEW h, HistoryOK(h)
  PROVE  ReplayedAt(h, Len(h))
<1>1. Len(h) \in Nat
  BY DEF HistoryOK
<1> DEFINE T == {n \in Nat : n <= Len(h) => ReplayedAt(h, n)}
<1>2. 0 \in T
  <2>1. Replay(h)[0] = NewLoopState
    BY <1>1, ReplayIs
  <2>2. NewLoopState.graceCalls = {} /\ GraceOK(NewLoopState)
    BY DEF NewLoopState, GraceOK
  <2> QED
    BY <2>1, <2>2, NewIs, ReflectsNew DEF ReplayedAt
<1>3. ASSUME NEW n \in T PROVE n + 1 \in T
  <2> SUFFICES ASSUME n + 1 <= Len(h) PROVE ReplayedAt(h, n + 1)
    OBVIOUS
  <2>1. ReplayedAt(h, n)
    BY <1>1
  <2> DEFINE s == Replay(h)[n]
             r == Replay(h)[n + 1]
  <2>2. s \in LoopState /\ Reflects(h, n, s) /\ OpsMatch(h, n, s) /\ s.graceCalls = {} /\ GraceOK(s)
    BY <2>1 DEF ReplayedAt
  <2>3. r = AddItem(s, h[n + 1])
    BY <1>1, ReplayIs
  <2> HIDE DEF s, r
  <2>4. NothingInherited(h, n + 1, s)
    <3>1. NothingInherited(h, n, s)
      BY <1>1, <2>2, InheritedOpsGone
    <3>2. Inherits(h, n + 1) => Inherits(h, n)
      BY <1>1 DEF Inherits
    <3> QED
      BY <3>1, <3>2 DEF NothingInherited
  <2>5. /\ r \in LoopState /\ Reflects(h, n + 1, r)
        /\ r.ops = IF h[n + 1].kind = "status" THEN Over(h[n + 1].ops, s.ops)
                   ELSE IF h[n + 1].kind = "fork" THEN <<>> ELSE s.ops
    BY <2>2, <2>3, <2>4, ItemStep
  <2>6. OpsMatch(h, n + 1, r)
    BY <2>2, <2>5, OpsStep
  <2>7. n + 1 \in DOMAIN h /\ h[n + 1] \in Item
    BY HistoryItem
  <2>8. h[n + 1].kind = "response" => {h[n + 1].turn} \X h[n + 1].calls \subseteq Keys
    <3> SUFFICES ASSUME h[n + 1].kind = "response" PROVE {h[n + 1].turn} \X h[n + 1].calls \subseteq Keys
      OBVIOUS
    <3>1. h[n + 1].turn \in Turns /\ h[n + 1].calls \subseteq CallIDs
      BY <2>7, KindsAre
    <3>2. h[n + 1].calls # {} => h[n + 1].turn <= MaxToolTurns
      BY <2>7 DEF HistoryOK, ResponsesFit
    <3> QED
      BY <3>1, <3>2, BoundsAssumption DEF Keys, Turns
  <2>9. r.graceCalls = {} /\ GraceOK(r)
    BY <2>2, <2>3, <2>7, <2>8, GraceStep
  <2> QED
    BY <2>5, <2>6, <2>9 DEF ReplayedAt, r
<1> HIDE DEF T
<1>4. T = Nat
  BY <1>2, <1>3, Induction DEF T
<1> QED
  BY <1>1, <1>4 DEF T

-----------------------------------------------------------------------------
(* What a history says after n items depends on these items only.          *)
LEMMA SamePrefix ==
  ASSUME NEW h, NEW g, NEW n \in Nat, \A k \in 1 .. n : g[k] = h[k]
  PROVE  /\ \A m : LatestAt(g, m, n) <=> LatestAt(h, m, n)
         /\ \A key : Asked(g, n, key) <=> Asked(h, n, key)
         /\ \A key : HasStatusAt(g, n, key) <=> HasStatusAt(h, n, key)
         /\ \A key : Settled(g, n, key) <=> Settled(h, n, key)
         /\ \A m \in 1 .. n : \A o : Holds(g, m, o) <=> Holds(h, m, o)
         /\ \A s : Reflects(g, n, s) <=> Reflects(h, n, s)
<1>1. \A m : LatestAt(g, m, n) <=> LatestAt(h, m, n)
  BY DEF LatestAt
<1>2. \A m \in 1 .. n : FinalAt(g, m) <=> FinalAt(h, m)
  BY DEF FinalAt
<1>3. \A key : HasStatusAt(g, n, key) <=> HasStatusAt(h, n, key)
  BY DEF HasStatusAt
<1>4. \A key : Settled(g, n, key) <=> Settled(h, n, key)
  BY <1>2 DEF Settled
<1>5. \A m \in 1 .. n : \A o : Holds(g, m, o) <=> Holds(h, m, o)
  BY DEF Holds
<1>6. \A m \in 1 .. n : Regular(g, m) <=> Regular(h, m)
  BY DEF Regular, LatestAt
<1>7. \A m \in 1 .. n : \A key : AsksFor(g, m, key) <=> AsksFor(h, m, key)
  BY <1>6 DEF AsksFor
<1>8. \A m \in 1 .. n : NoForkAfter(g, m, n) <=> NoForkAfter(h, m, n)
  BY DEF NoForkAfter
<1>9. \A key : Asked(g, n, key) <=> Asked(h, n, key)
  BY <1>7, <1>8 DEF Asked
<1>10. ToldAt(g, n) = ToldAt(h, n)
  BY <1>2 DEF ToldAt, TellsAt
<1>11. \A m \in ToldAt(h, n) : m \in 1 .. n
  BY DEF ToldAt
<1>12. BeforeTurn(g, n) = BeforeTurn(h, n)
  BY <1>10, <1>11 DEF BeforeTurn
<1>13. \A k, r \in 1 .. n : AnswerTo(g, k, r) <=> AnswerTo(h, k, r)
  BY DEF AnswerTo
<1>14. AnsweredAt(g, n) = AnsweredAt(h, n)
  <2>1. \A m \in ToldAt(h, n) : \A k \in m + 1 .. n : k \in 1 .. n /\ \A r \in k + 1 .. n : r \in 1 .. n
    BY <1>11
  <2> QED
    BY <1>10, <1>13, <2>1 DEF AnsweredAt
<1>15. CallsOf(g, n) = CallsOf(h, n)
  <2>1. OpenKeys(g, n) = OpenKeys(h, n)
    BY <1>4, <1>9 DEF OpenKeys
  <2>2. \A key : CallOf(g, n, key) = CallOf(h, n, key)
    BY <1>3 DEF CallOf
  <2> QED
    BY <2>1, <2>2 DEF CallsOf
<1>16. \A s : TurnIs(g, n, s) <=> TurnIs(h, n, s)
  BY <1>1 DEF TurnIs
<1>17. \A s : CountsAre(g, n, s) <=> CountsAre(h, n, s)
  BY <1>10, <1>12, <1>14 DEF CountsAre
<1>18. \A s : Reflects(g, n, s) <=> Reflects(h, n, s)
  BY <1>15, <1>16, <1>17 DEF Reflects
<1> QED
  BY <1>1, <1>3, <1>4, <1>5, <1>9, <1>18

-----------------------------------------------------------------------------
(* What the coordinator may append to a history.                           *)

FitsInput(h, item) ==
  item.kind = "input" /\ \A n \in DOMAIN h : h[n].kind = "input" => h[n].id # item.id

FitsTurn(h, item) ==
  item.kind = "turn" /\ \A n \in DOMAIN h : h[n].kind = "turn" => h[n].turn < item.turn

FitsResponse(h, item) ==
  /\ item.kind = "response"
  /\ \E m \in DOMAIN h : LatestAt(h, m, Len(h)) /\ h[m].turn = item.turn /\ NoForkAfter(h, m, Len(h))
  /\ \A n \in DOMAIN h : h[n].kind = "response" => h[n].turn # item.turn
  /\ item.calls # {} => item.turn <= MaxToolTurns

FitsStatus(h, item) ==
  /\ item.kind = "status"
  /\ Asked(h, Len(h), item.key) /\ ~Settled(h, Len(h), item.key)
  /\ item.waitingFor \in {{}, OpsOf(item.key)}
  /\ HasStatusAt(h, Len(h), item.key) => item.waitingFor = OpsOf(item.key)
  /\ DOMAIN item.ops = item.waitingFor
  /\ \E status \in {"ready", "finished"} : \A o \in DOMAIN item.ops : item.ops[o] = status

Fits(h, item) ==
  item \in Item /\ (FitsInput(h, item) \/ FitsTurn(h, item) \/ FitsResponse(h, item) \/ FitsStatus(h, item))

(* A history with one item more.                                            *)
LEMMA AppendIs ==
  ASSUME NEW h \in Seq(Item), NEW item \in Item
  PROVE  LET g == Append(h, item)
         IN  /\ g \in Seq(Item) /\ Len(g) = Len(h) + 1 /\ Len(h) \in Nat
             /\ DOMAIN g = 1 .. Len(h) + 1 /\ DOMAIN h = 1 .. Len(h)
             /\ g[Len(h) + 1] = item /\ \A k \in 1 .. Len(h) : g[k] = h[k]
OBVIOUS

(* The statuses of a history stay in order when an item is appended.        *)
LEMMA AppendStatuses ==
  ASSUME NEW h, HistoryOK(h), NEW g, NEW N \in Nat, Len(h) = N, DOMAIN h = 1 .. N, Len(g) = N + 1,
         \A k \in 1 .. N : g[k] = h[k], g[N + 1].kind # "fork",
         g[N + 1].kind = "status" => ~Settled(h, N, g[N + 1].key),
         NEW n \in 1 .. N, h[n].kind = "status"
  PROVE  StatusFits(g, n)
<1>1. StatusFits(h, n)
  BY DEF HistoryOK, StatusesFit
<1>2. g[n] = h[n] /\ \A k \in 1 .. n : g[k] = h[k]
  OBVIOUS
<1>3. Asked(g, n, g[n].key)
  <2>1. \A key : Asked(g, n, key) <=> Asked(h, n, key)
    BY <1>2, SamePrefix
  <2> QED
    BY <1>1, <1>2, <2>1 DEF StatusFits
<1>4. FinalAt(g, n) <=> FinalAt(h, n)
  BY <1>2 DEF FinalAt
<1>5. n - 1 \in Nat /\ \A k \in 1 .. n - 1 : g[k] = h[k]
  OBVIOUS
<1>6. \A key : HasStatusAt(g, n - 1, key) <=> HasStatusAt(h, n - 1, key)
  BY <1>5, SamePrefix
<1>7. Inherits(g, n) <=> Inherits(h, n)
  <2>1. n + 1 .. N + 1 = (n + 1 .. N) \cup {N + 1}
    OBVIOUS
  <2> QED
    BY <2>1 DEF Inherits
<1>8. FinalAt(h, n) => \A k \in n + 1 .. N + 1 : ~(g[k].kind = "status" /\ g[k].key = h[n].key)
  <2>1. n + 1 .. N + 1 = (n + 1 .. N) \cup {N + 1}
    OBVIOUS
  <2>2. FinalAt(h, n) => Settled(h, N, h[n].key)
    BY DEF Settled
  <2> QED
    BY <1>1, <2>1, <2>2 DEF StatusFits
<1> QED
  BY <1>1, <1>2, <1>3, <1>4, <1>6, <1>7, <1>8 DEF StatusFits

(* A history stays well formed when the coordinator appends an item that    *)
(* fits.                                                                    *)
LEMMA AppendOK ==
  ASSUME NEW h, HistoryOK(h), NEW item, Fits(h, item)
  PROVE  HistoryOK(Append(h, item))
<1> DEFINE g == Append(h, item)
           N == Len(h)
<1>1. item \in Item /\ h \in Seq(Item)
  BY DEF Fits, HistoryOK
<1>2. /\ g \in Seq(Item) /\ Len(g) = N + 1 /\ N \in Nat
      /\ DOMAIN g = 1 .. N + 1 /\ DOMAIN h = 1 .. N
      /\ g[N + 1] = item /\ \A k \in 1 .. N : g[k] = h[k]
  BY <1>1, AppendIs
<1>3. item.kind \in {"input", "turn", "response", "status"}
  BY DEF Fits, FitsInput, FitsTurn, FitsResponse, FitsStatus
<1>4. /\ item.kind = "input" => FitsInput(h, item)
      /\ item.kind = "turn" => FitsTurn(h, item)
      /\ item.kind = "response" => FitsResponse(h, item)
      /\ item.kind = "status" => FitsStatus(h, item)
  BY DEF Fits, FitsInput, FitsTurn, FitsResponse, FitsStatus
<1> HIDE DEF g, N
<1>5. N = Len(h)
  BY DEF N
<1>6. TurnsRise(g)
  BY <1>2, <1>4 DEF TurnsRise, FitsTurn, HistoryOK
<1>7. InputsOnce(g)
  BY <1>2, <1>4 DEF InputsOnce, FitsInput, HistoryOK
<1>8. ResponsesFit(g)
  <2>1. ASSUME NEW n \in 1 .. N, h[n].kind = "response"
        PROVE  \E m \in 1 .. n : LatestAt(g, m, n) /\ g[m].turn = g[n].turn /\ NoForkAfter(g, m, n)
    <3>1. PICK m \in 1 .. n : LatestAt(h, m, n) /\ h[m].turn = h[n].turn /\ NoForkAfter(h, m, n)
      BY <1>2, <2>1 DEF HistoryOK, ResponsesFit
    <3>2. LatestAt(g, m, n)
      BY <1>2, <3>1 DEF LatestAt
    <3>3. NoForkAfter(g, m, n)
      BY <1>2, <3>1 DEF NoForkAfter
    <3> QED
      BY <1>2, <3>1, <3>2, <3>3
  <2>2. ASSUME item.kind = "response"
        PROVE  \E m \in 1 .. N + 1 : LatestAt(g, m, N + 1) /\ g[m].turn = item.turn
                                      /\ NoForkAfter(g, m, N + 1)
    <3>1. PICK m \in 1 .. N : LatestAt(h, m, N) /\ h[m].turn = item.turn /\ NoForkAfter(h, m, N)
      BY <1>2, <1>4, <1>5, <2>2 DEF FitsResponse
    <3>2. LatestAt(g, m, N)
      BY <1>2, <3>1, SamePrefix
    <3>3. LatestAt(g, m, N + 1)
      BY <1>2, <2>2, <3>2, LatestStep
    <3>4. NoForkAfter(g, m, N + 1)
      BY <1>2, <2>2, <3>1 DEF NoForkAfter
    <3> QED
      BY <1>2, <3>1, <3>3, <3>4
  <2>3. \A k \in 1 .. N + 1 : k \in 1 .. N \/ k = N + 1
    BY <1>2
  <2>4. ASSUME NEW n \in 1 .. N + 1, NEW k \in 1 .. N + 1,
               g[n].kind = "response", g[k].kind = "response", g[k].turn = g[n].turn
        PROVE  k = n
    <3>1. CASE k \in 1 .. N /\ n \in 1 .. N
      BY <1>2, <2>4, <3>1 DEF HistoryOK, ResponsesFit
    <3>2. CASE k = N + 1 /\ n \in 1 .. N
      BY <1>2, <1>4, <2>4, <3>2 DEF FitsResponse
    <3>3. CASE k \in 1 .. N /\ n = N + 1
      BY <1>2, <1>4, <2>4, <3>3 DEF FitsResponse
    <3> QED
      BY <2>3, <3>1, <3>2, <3>3
  <2>5. ASSUME NEW n \in 1 .. N + 1, g[n].kind = "response"
        PROVE  g[n].calls # {} => g[n].turn <= MaxToolTurns
    BY <1>2, <1>4, <2>3, <2>5 DEF FitsResponse, HistoryOK, ResponsesFit
  <2> QED
    BY <1>2, <2>1, <2>2, <2>3, <2>4, <2>5 DEF ResponsesFit
<1>9. StatusesFit(g)
  <2>1. item.kind = "status" => ~Settled(h, N, item.key)
    BY <1>4, <1>5 DEF FitsStatus
  <2>2. ASSUME NEW n \in 1 .. N, h[n].kind = "status" PROVE StatusFits(g, n)
    BY <1>2, <1>3, <1>5, <2>1, <2>2, AppendStatuses
  <2>3. ASSUME item.kind = "status" PROVE StatusFits(g, N + 1)
    <3>1. FitsStatus(h, item)
      BY <1>4, <2>3
    <3>2. /\ Asked(g, N, item.key) <=> Asked(h, N, item.key)
          /\ HasStatusAt(g, N, item.key) <=> HasStatusAt(h, N, item.key)
      BY <1>2, SamePrefix
    <3>3. Asked(g, N + 1, item.key)
      BY <1>2, <1>5, <2>3, <3>1, <3>2, AskedStep DEF FitsStatus
    <3>4. (N + 1) - 1 = N /\ \A k : k \notin N + 2 .. N + 1
      BY <1>2
    <3>5. ~Inherits(g, N + 1)
      BY <1>2, <3>4 DEF Inherits
    <3> QED
      BY <1>2, <1>5, <3>1, <3>2, <3>3, <3>4, <3>5 DEF StatusFits, FitsStatus
  <2> QED
    BY <1>2, <2>2, <2>3 DEF StatusesFit
<1>10. HistoryOK(g)
  BY <1>2, <1>6, <1>7, <1>8, <1>9 DEF HistoryOK
<1> QED
  BY <1>10 DEF g

(* The local state stays what the history says when both get the item.     *)
LEMMA AppendLive ==
  ASSUME NEW h, HistoryOK(h), NEW item, Fits(h, item),
         NEW s \in LoopState, Reflects(h, Len(h), s)
  PROVE  /\ AddItem(s, item) \in LoopState
         /\ Reflects(Append(h, item), Len(h) + 1, AddItem(s, item))
         /\ AddItem(s, item).ops = IF item.kind = "status" THEN Over(item.ops, s.ops) ELSE s.ops
<1> DEFINE g == Append(h, item)
           N == Len(h)
<1>1. item \in Item /\ h \in Seq(Item)
  BY DEF Fits, HistoryOK
<1>2. Len(g) = N + 1 /\ N \in Nat /\ g[N + 1] = item /\ \A k \in 1 .. N : g[k] = h[k]
  BY <1>1, AppendIs
<1>3. HistoryOK(g)
  BY AppendOK
<1>4. item.kind # "fork"
  BY DEF Fits, FitsInput, FitsTurn, FitsResponse, FitsStatus
<1> HIDE DEF g
<1>5. Reflects(g, N, s)
  BY <1>2, SamePrefix
<1>6. NothingInherited(g, N + 1, s)
  BY <1>2 DEF NothingInherited, Inherits
<1> HIDE DEF N
<1>7. /\ AddItem(s, g[N + 1]) \in LoopState
      /\ Reflects(g, N + 1, AddItem(s, g[N + 1]))
      /\ AddItem(s, g[N + 1]).ops =
           IF g[N + 1].kind = "status" THEN Over(g[N + 1].ops, s.ops)
           ELSE IF g[N + 1].kind = "fork" THEN <<>> ELSE s.ops
  BY <1>2, <1>3, <1>5, <1>6, ItemStep
<1> QED
  BY <1>2, <1>4, <1>7 DEF g, N

-----------------------------------------------------------------------------
(* The store.                                                              *)

(* Operations are stored with the first status of their call.              *)
SavedOK(h, f) ==
  f \in StatusMaps /\ DOMAIN f = {o \in Ops : \E m \in 1 .. Len(h) : Holds(h, m, o)}

(* LastSnapshot is the status that the last item on an operation shows.     *)
LEMMA SnapshotIs ==
  ASSUME HistoryOK(items), NEW o \in Ops, \E m \in 1 .. Len(items) : Holds(items, m, o)
  PROVE  \E m \in 1 .. Len(items) :
           LastHolds(items, Len(items), m, o) /\ LastSnapshot(o) = items[m].ops[o]
<1> DEFINE ns == {n \in ItemsOf("status") : o \in DOMAIN items[n].ops}
<1>1. Len(items) \in Nat /\ DOMAIN items = 1 .. Len(items)
  BY DEF HistoryOK
<1>2. \A n : n \in ns <=> n \in 1 .. Len(items) /\ Holds(items, n, o)
  BY <1>1 DEF ItemsOf, Holds
<1>3. LastSnapshot(o) = items[Max(ns)].ops[o]
  BY DEF LastSnapshot
<1>4. ns \in SUBSET (1 .. Len(items)) /\ ns # {}
  BY <1>2
<1> HIDE DEF ns
<1>5. Max(ns) \in ns /\ \A n \in ns : n <= Max(ns)
  BY <1>1, <1>4, MaxIs
<1>6. LastHolds(items, Len(items), Max(ns), o)
  BY <1>1, <1>2, <1>5 DEF LastHolds
<1> QED
  BY <1>2, <1>3, <1>5, <1>6

(* A new coordinator finds what the history says and the stored operations. *)
LEMMA RestoreIs ==
  ASSUME HistoryOK(items), SavedOK(items, saved)
  PROVE  /\ Restore \in LoopState /\ Reflects(items, Len(items), Restore)
         /\ Restore.ops = saved /\ Restore.graceCalls = {} /\ GraceOK(Restore)
<1> DEFINE s == Replay(items)[Len(items)]
           resumed == [o \in ResumeOperations |-> saved[o]]
           ops == Over(resumed, s.ops)
<1>1. /\ s \in LoopState /\ Reflects(items, Len(items), s) /\ OpsMatch(items, Len(items), s)
      /\ s.graceCalls = {} /\ GraceOK(s)
  BY Replayed DEF ReplayedAt
<1>2. Restore = [s EXCEPT !.ops = ops]
  BY DEF Restore
<1>3. saved \in [DOMAIN saved -> Statuses] /\ DOMAIN saved \subseteq Ops
  BY MapsAre DEF SavedOK
<1> HIDE DEF s
<1>4. DOMAIN s.ops = DOMAIN saved
  BY <1>1 DEF OpsMatch, SavedOK
<1>5. ASSUME NEW o \in DOMAIN saved PROVE s.ops[o] = LastSnapshot(o)
  <2>1. o \in Ops /\ \E m \in 1 .. Len(items) : Holds(items, m, o)
    BY <1>3 DEF SavedOK
  <2>2. PICK m \in 1 .. Len(items) :
               LastHolds(items, Len(items), m, o) /\ LastSnapshot(o) = items[m].ops[o]
    BY <2>1, SnapshotIs
  <2> QED
    BY <1>1, <2>1, <2>2 DEF OpsMatch
<1>6. /\ ResumeOperations \subseteq DOMAIN saved
      /\ \A o \in DOMAIN saved \ ResumeOperations : saved[o] = LastSnapshot(o)
  BY DEF ResumeOperations, Terminal
<1>7. /\ DOMAIN ops = DOMAIN saved
      /\ \A o \in DOMAIN saved : ops[o] = IF o \in ResumeOperations THEN saved[o] ELSE s.ops[o]
  BY <1>4, <1>6 DEF Over
<1>8. ops = saved
  <2>1. \A o \in DOMAIN saved : ops[o] = saved[o]
    BY <1>5, <1>6, <1>7
  <2>2. ops = [o \in DOMAIN ops |-> ops[o]]
    BY DEF Over
  <2>3. saved = [o \in DOMAIN saved |-> saved[o]]
    BY <1>3
  <2> HIDE DEF ops
  <2> QED
    BY <1>7, <2>1, <2>2, <2>3
<1> HIDE DEF ops
<1>9. Restore = [s EXCEPT !.ops = saved]
  BY <1>2, <1>8
<1>10. /\ Restore \in LoopState /\ Restore.ops = saved
       /\ \A f \in {"turn", "type", "calls", "available", "delivered", "turnInputs",
                    "graceCalls", "grace"} : Restore[f] = s[f]
  BY <1>1, <1>9 DEF LoopState, SavedOK
<1>11. Reflects(items, Len(items), Restore)
  BY <1>1, <1>10 DEF Reflects, TurnIs, CountsAre
<1> QED
  BY <1>1, <1>10, <1>11 DEF GraceOK

(* The turn that the local state holds is the latest one of the history.   *)
LEMMA LatestTurnIs ==
  ASSUME HistoryOK(items), NEW s, TurnIs(items, Len(items), s)
  PROVE  /\ s.turn = LatestTurn /\ LatestTurn \in 0 .. MaxTurns
         /\ \A n \in TurnItems : items[n].turn <= LatestTurn
<1>1. /\ Len(items) \in Nat /\ DOMAIN items = 1 .. Len(items)
      /\ \A n \in DOMAIN items : items[n] \in Item
  BY DEF HistoryOK
<1>2. \A n : n \in TurnItems <=> n \in 1 .. Len(items) /\ items[n].kind = "turn"
  BY <1>1 DEF TurnItems, ItemsOf
<1>3. \A n \in TurnItems : items[n].turn \in Nat /\ items[n].turn \in 0 .. MaxTurns
  BY <1>1, <1>2, KindsAre, BoundsAssumption DEF Turns
<1>4. CASE TurnItems = {}
  <2>1. LatestTurn = 0
    BY <1>4 DEF LatestTurn
  <2>2. \A m : ~LatestAt(items, m, Len(items))
    BY <1>2, <1>4 DEF LatestAt
  <2>3. s.turn = 0
    BY <2>2 DEF TurnIs
  <2>4. 0 \in 0 .. MaxTurns
    BY BoundsAssumption
  <2> QED
    BY <1>4, <2>1, <2>3, <2>4
<1>5. CASE TurnItems # {}
  <2> DEFINE M == Max(TurnItems)
  <2>1. M \in TurnItems /\ \A n \in TurnItems : n <= M
    <3>1. TurnItems \in SUBSET (1 .. Len(items))
      BY <1>2
    <3> QED
      BY <1>1, <1>5, <3>1, MaxIs
  <2>2. LatestTurn = items[M].turn
    BY <1>5 DEF LatestTurn
  <2> HIDE DEF M
  <2>3. LatestAt(items, M, Len(items))
    BY <1>1, <1>2, <2>1 DEF LatestAt
  <2>4. s.turn = items[M].turn
    BY <1>1, <2>3, TurnKnown
  <2>5. ASSUME NEW n \in TurnItems PROVE items[n].turn <= items[M].turn
    <3>1. CASE n = M
      BY <1>3, <2>1, <3>1
    <3>2. CASE n < M
      BY <1>1, <1>2, <1>3, <2>1, <3>2 DEF HistoryOK, TurnsRise
    <3> QED
      BY <1>1, <1>2, <2>1, <3>1, <3>2
  <2> QED
    BY <1>3, <2>1, <2>2, <2>4, <2>5
<1> QED
  BY <1>4, <1>5

-----------------------------------------------------------------------------
(* Fork.                                                                   *)

(* The items of a parent keep all but the operations of their statuses.    *)
Copies(h, g, n) ==
  \A k \in 1 .. n :
    /\ g[k].kind = h[k].kind
    /\ h[k].kind = "input" => g[k].id = h[k].id
    /\ h[k].kind = "turn" => g[k].turn = h[k].turn /\ g[k].type = h[k].type
    /\ h[k].kind = "response" => g[k].turn = h[k].turn /\ g[k].calls = h[k].calls
    /\ h[k].kind = "status" => /\ g[k].key = h[k].key /\ g[k].waitingFor = h[k].waitingFor
                               /\ DOMAIN g[k].ops = {}

(* A fork copies what was asked for and answered.                           *)
LEMMA CopyAsked ==
  ASSUME NEW h, NEW g, NEW n \in Nat, Copies(h, g, n)
  PROVE  /\ \A m : LatestAt(g, m, n) <=> LatestAt(h, m, n)
         /\ \A key : Asked(g, n, key) <=> Asked(h, n, key)
         /\ \A key : HasStatusAt(g, n, key) <=> HasStatusAt(h, n, key)
<1>1. \A m : LatestAt(g, m, n) <=> LatestAt(h, m, n)
  BY DEF LatestAt, Copies
<1>2. \A key : HasStatusAt(g, n, key) <=> HasStatusAt(h, n, key)
  BY DEF HasStatusAt, Copies
<1>3. \A m \in 1 .. n : Regular(g, m) <=> Regular(h, m)
  BY DEF Regular, LatestAt, Copies
<1>4. \A m \in 1 .. n : \A key : AsksFor(g, m, key) <=> AsksFor(h, m, key)
  BY <1>3 DEF AsksFor, Copies
<1>5. \A m \in 1 .. n : NoForkAfter(g, m, n) <=> NoForkAfter(h, m, n)
  BY DEF NoForkAfter, Copies
<1>6. \A key : Asked(g, n, key) <=> Asked(h, n, key)
  BY <1>4, <1>5 DEF Asked
<1> QED
  BY <1>1, <1>2, <1>6

(* A prefix of a well-formed history, with its statuses stripped of         *)
(* operations and a fork item behind it, is a well-formed history.          *)
LEMMA CopyOK ==
  ASSUME NEW h, HistoryOK(h), NEW g \in Seq(Item), NEW B \in Nat, B <= Len(h), Copies(h, g, B),
         Len(g) = B + 1, g[B + 1].kind = "fork"
  PROVE  HistoryOK(g)
<1>1. /\ DOMAIN g = 1 .. B + 1 /\ DOMAIN h = 1 .. Len(h) /\ Len(h) \in Nat
      /\ \A n \in 1 .. B : n \in DOMAIN h
  BY DEF HistoryOK
<1>2. \A n \in 1 .. B + 1 : n \in 1 .. B \/ n = B + 1
  OBVIOUS
<1>3. TurnsRise(g)
  BY <1>1, <1>2 DEF TurnsRise, HistoryOK, Copies
<1>4. InputsOnce(g)
  BY <1>1, <1>2 DEF InputsOnce, HistoryOK, Copies
<1>5. \A n \in 1 .. B : n \in Nat /\ Copies(h, g, n) /\ n - 1 \in Nat /\ Copies(h, g, n - 1)
  BY DEF Copies
<1>6. ResponsesFit(g)
  <2>1. ASSUME NEW n \in 1 .. B, h[n].kind = "response"
        PROVE  \E m \in 1 .. n : LatestAt(g, m, n) /\ g[m].turn = g[n].turn /\ NoForkAfter(g, m, n)
    <3>1. PICK m \in 1 .. n : LatestAt(h, m, n) /\ h[m].turn = h[n].turn /\ NoForkAfter(h, m, n)
      BY <1>1, <2>1 DEF HistoryOK, ResponsesFit
    <3>2. LatestAt(g, m, n)
      BY <1>5, <3>1, CopyAsked
    <3>3. NoForkAfter(g, m, n)
      BY <3>1 DEF NoForkAfter, Copies
    <3>4. g[m].turn = g[n].turn
      BY <2>1, <3>1 DEF Copies, LatestAt
    <3> QED
      BY <3>2, <3>3, <3>4
  <2>2. ASSUME NEW n \in 1 .. B, NEW k \in 1 .. B,
               g[n].kind = "response", g[k].kind = "response", g[k].turn = g[n].turn
        PROVE  k = n
    BY <1>1, <2>2 DEF HistoryOK, ResponsesFit, Copies
  <2>3. ASSUME NEW n \in 1 .. B, g[n].kind = "response"
        PROVE  g[n].calls # {} => g[n].turn <= MaxToolTurns
    BY <1>1, <2>3 DEF HistoryOK, ResponsesFit, Copies
  <2>4. \A n \in 1 .. B : g[n].kind = h[n].kind
    BY DEF Copies
  <2> QED
    BY <1>1, <1>2, <2>1, <2>2, <2>3, <2>4 DEF ResponsesFit
<1>7. ASSUME NEW n \in 1 .. B, g[n].kind = "status" PROVE StatusFits(g, n)
  <2>1. StatusFits(h, n)
    BY <1>1, <1>7 DEF HistoryOK, StatusesFit, Copies
  <2>2. g[n].key = h[n].key /\ g[n].waitingFor = h[n].waitingFor /\ DOMAIN g[n].ops = {} /\ h[n].kind = "status"
    BY <1>7 DEF Copies
  <2>3. Asked(g, n, g[n].key)
    <3>1. \A key : Asked(g, n, key) <=> Asked(h, n, key)
      BY <1>5, CopyAsked
    <3> QED
      BY <2>1, <2>2, <3>1 DEF StatusFits
  <2>4. \A key : HasStatusAt(g, n - 1, key) <=> HasStatusAt(h, n - 1, key)
    BY <1>5, CopyAsked
  <2>5. Inherits(g, n)
    BY DEF Inherits
  <2>6. FinalAt(g, n) => FinalAt(h, n)
    BY <2>2 DEF FinalAt
  <2>7. FinalAt(g, n) => \A k \in n + 1 .. Len(g) : ~(g[k].kind = "status" /\ g[k].key = g[n].key)
    <3> SUFFICES ASSUME FinalAt(g, n), NEW k \in n + 1 .. B + 1 PROVE ~(g[k].kind = "status" /\ g[k].key = g[n].key)
      OBVIOUS
    <3>1. CASE k = B + 1
      BY <3>1
    <3>2. CASE k \in 1 .. B
      <4>1. k \in n + 1 .. Len(h)
        BY <1>1, <3>2
      <4>2. g[k].kind = h[k].kind /\ (h[k].kind = "status" => g[k].key = h[k].key)
        BY <3>2 DEF Copies
      <4> QED
        BY <2>1, <2>2, <2>6, <4>1, <4>2 DEF StatusFits
    <3> QED
      BY <3>1, <3>2
  <2> QED
    BY <2>1, <2>2, <2>3, <2>4, <2>5, <2>7 DEF StatusFits
<1>8. StatusesFit(g)
  BY <1>1, <1>2, <1>7 DEF StatusesFit
<1> QED
  BY <1>3, <1>4, <1>6, <1>8 DEF HistoryOK

(* A turn that can be forked ends at some item of the history.              *)
LEMMA BoundaryIs ==
  ASSUME HistoryOK(items), NEW t, \E n \in TurnItems : items[n].turn = t
  PROVE  Boundary(t) \in 1 .. Len(items)
<1> DEFINE start == CHOOSE n \in TurnItems : items[n].turn = t
           later == {n \in TurnItems : n > start}
           ofTurn(n) ==
             \/ items[n].kind \in {"turn", "response"} /\ items[n].turn = t
             \/ items[n].kind = "status" /\ items[n].key[1] = t
           S == {n \in DOMAIN items : ofTurn(n) /\ \A m \in later : n < m}
<1>1. start \in TurnItems /\ items[start].turn = t
  OBVIOUS
<1>2. Len(items) \in Nat /\ DOMAIN items = 1 .. Len(items)
  BY DEF HistoryOK
<1>3. start \in DOMAIN items /\ items[start].kind = "turn"
  BY <1>1 DEF TurnItems, ItemsOf
<1>4. \A m \in later : m > start
  OBVIOUS
<1>5. \A m \in later : m \in DOMAIN items
  BY DEF TurnItems, ItemsOf
<1> HIDE DEF start, later
<1>6. start \in S
  BY <1>1, <1>2, <1>3, <1>4, <1>5
<1>7. Boundary(t) = Max(S)
  BY DEF Boundary, start, later
<1>8. S \in SUBSET (1 .. Len(items))
  BY <1>2
<1> HIDE DEF S
<1> QED
  BY <1>2, <1>6, <1>7, <1>8, MaxIs

(* A sequence with one element behind it.                                   *)
LEMMA ConcatIs ==
  ASSUME NEW p \in Seq(Item), NEW x \in Item
  PROVE  /\ p \o <<x>> \in Seq(Item) /\ Len(p \o <<x>>) = Len(p) + 1
         /\ (p \o <<x>>)[Len(p) + 1] = x /\ \A k \in 1 .. Len(p) : (p \o <<x>>)[k] = p[k]
OBVIOUS

(* An inherited item is the parent's, without operations.                   *)
LEMMA InheritedIs ==
  ASSUME NEW item \in Item
  PROVE  /\ Inherited(item) \in Item /\ Inherited(item).kind = item.kind
         /\ item.kind # "status" => Inherited(item) = item
         /\ item.kind = "status" => /\ Inherited(item).key = item.key
                                    /\ Inherited(item).waitingFor = item.waitingFor
                                    /\ DOMAIN Inherited(item).ops = {}
<1>1. <<>> \in StatusMaps
  BY NewIs DEF NewLoopState, LoopState
<1>2. DOMAIN <<>> = {}
  OBVIOUS
<1>3. CASE item.kind # "status"
  BY <1>3 DEF Inherited
<1>4. CASE item.kind = "status"
  <2>1. item \in [kind : {"status"}, key : Keys, waitingFor : SUBSET Ops, ops : StatusMaps]
    BY <1>4 DEF Item
  <2>2. Inherited(item) = [item EXCEPT !.ops = <<>>]
    BY <1>4 DEF Inherited
  <2>3. /\ Inherited(item) \in [kind : {"status"}, key : Keys, waitingFor : SUBSET Ops, ops : StatusMaps]
        /\ Inherited(item).key = item.key /\ Inherited(item).waitingFor = item.waitingFor
        /\ Inherited(item).ops = <<>> /\ Inherited(item).kind = item.kind
    BY <1>1, <2>1, <2>2
  <2> QED
    BY <1>2, <1>4, <2>3 DEF Item
<1> QED
  BY <1>3, <1>4

(* forkStoredState makes a well-formed history that owns no operation.      *)
LEMMA ForkCopy ==
  ASSUME NEW h, HistoryOK(h), NEW p \in Seq(Item), Len(p) <= Len(h),
         \A k \in 1 .. Len(p) : p[k] = Inherited(h[k]), NEW x \in Item, x.kind = "fork"
  PROVE  HistoryOK(p \o <<x>>) /\ SavedOK(p \o <<x>>, <<>>)
<1> DEFINE g == p \o <<x>>
           B == Len(p)
<1>1. B \in Nat
  OBVIOUS
<1>2. Len(h) \in Nat /\ \A n \in 1 .. B : h[n] \in Item
  BY <1>1 DEF HistoryOK
<1>3. g \in Seq(Item) /\ Len(g) = B + 1 /\ g[B + 1] = x /\ \A k \in 1 .. B : g[k] = p[k]
  BY ConcatIs
<1> HIDE DEF g, B
<1>4. Copies(h, g, B)
  <2>1. ASSUME NEW k \in 1 .. B
        PROVE  /\ g[k].kind = h[k].kind
               /\ h[k].kind # "status" => g[k] = h[k]
               /\ h[k].kind = "status" => /\ g[k].key = h[k].key
                                          /\ g[k].waitingFor = h[k].waitingFor
                                          /\ DOMAIN g[k].ops = {}
    <3>1. g[k] = Inherited(h[k])
      BY <1>3 DEF B
    <3>2. h[k] \in Item
      BY <1>2
    <3> QED
      BY <3>1, <3>2, InheritedIs
  <2> QED
    BY <2>1 DEF Copies
<1>5. B <= Len(h)
  BY DEF B
<1>6. HistoryOK(g)
  BY <1>1, <1>3, <1>4, <1>5, CopyOK
<1>7. \A m \in 1 .. Len(g) : \A o : ~Holds(g, m, o)
  <2>1. \A m \in 1 .. B + 1 : m \in 1 .. B \/ m = B + 1
    BY <1>1
  <2> QED
    BY <1>3, <1>4, <2>1 DEF Holds, Copies
<1>8. <<>> \in StatusMaps /\ DOMAIN <<>> = {}
  BY NewIs DEF NewLoopState, LoopState
<1>9. SavedOK(g, <<>>)
  BY <1>7, <1>8 DEF SavedOK
<1> QED
  BY <1>6, <1>9 DEF g

(* Forking at any turn does so.                                             *)
LEMMA ForkOK ==
  ASSUME HistoryOK(items), NEW t \in Turns, \E n \in TurnItems : items[n].turn = t
  PROVE  LET g == [n \in 1 .. Boundary(t) |-> Inherited(items[n])] \o <<ForkItem(t)>>
         IN  HistoryOK(g) /\ SavedOK(g, <<>>)
<1> DEFINE B == Boundary(t)
           p == [n \in 1 .. B |-> Inherited(items[n])]
           x == ForkItem(t)
<1>1. B \in 1 .. Len(items)
  BY BoundaryIs
<1>2. /\ Len(items) \in Nat /\ \A n \in 1 .. Len(items) : items[n] \in Item
  BY DEF HistoryOK
<1>3. x \in Item /\ x.kind = "fork"
  BY DEF ForkItem, Item
<1> HIDE DEF B, x
<1>4. \A n \in 1 .. B : Inherited(items[n]) \in Item
  BY <1>1, <1>2, InheritedIs
<1>5. p \in Seq(Item) /\ Len(p) = B /\ \A k \in 1 .. B : p[k] = Inherited(items[k])
  BY <1>1, <1>2, <1>4
<1>6. Len(p) <= Len(items)
  BY <1>1, <1>2, <1>5
<1> HIDE DEF p
<1>7. HistoryOK(p \o <<x>>) /\ SavedOK(p \o <<x>>, <<>>)
  BY <1>3, <1>5, <1>6, ForkCopy
<1> QED
  BY <1>7 DEF p, x, B

-----------------------------------------------------------------------------
(* The inductive invariant.                                                *)

LoopPCs == {"inputs", "updates", "reconcile", "decide", "select"}
LivePCs == LoopPCs \cup {"startup", "schedule"}

(* Where the loop is; the store rejects nothing.                           *)
PcOK == pc \in LivePCs \cup {"down", "restore", "returned"} /\ stop \in {"none", "hard", "when_idle"}

StoreOK == HistoryOK(items) /\ SavedOK(items, saved)

(* The local state, also one that nobody uses any more.                    *)
LocalOK ==
  /\ st \in LoopState /\ GraceOK(st)
  /\ st.delivered <= st.turnInputs /\ st.turnInputs <= st.available
  /\ \A key \in DOMAIN st.calls : st.calls[key].ops \subseteq OpsOf(key)

(* What the inbox hands over is new to the history, each input once.       *)
InboxOK ==
  Alive =>
    /\ queue \in Seq(Inputs \cup HeartbeatIDs)
    /\ RecordedInputIDs \subseteq seen
    /\ \A k \in DOMAIN queue : queue[k] \in seen /\ queue[k] \notin RecordedInputIDs
    /\ \A j, k \in DOMAIN queue : queue[j] = queue[k] => j = k

ManagerOK ==
  /\ DOMAIN running \subseteq accepted /\ canceling \subseteq DOMAIN running
  /\ asks \subseteq Turns

(* An operation ends once: while the manager works on it or has checkpoints *)
(* of it to deliver the store shows it unfinished, and the checkpoint that *)
(* ends it is the last one.                                                *)
EndIsAnnounced(o) == \E k \in DOMAIN updates : updates[k].op = o /\ Terminal(updates[k].status)

WorkOK ==
  Alive =>
    /\ accepted \subseteq DOMAIN saved
    /\ updates \in Seq([op : Ops, status : {"awaiting", "finished"}])
    /\ \A k \in DOMAIN updates : updates[k].op \in accepted /\ ~Terminal(saved[updates[k].op])
    /\ \A k \in DOMAIN updates : Terminal(updates[k].status) =>
         /\ updates[k].op \notin DOMAIN running
         /\ \A j \in DOMAIN updates : j > k => updates[j].op # updates[k].op
    /\ \A o \in DOMAIN running : ~Terminal(saved[o])
    /\ \A o \in accepted : Terminal(saved[o]) \/ o \in DOMAIN running \/ EndIsAnnounced(o)

(* What the store holds unfinished was handed to the manager, or will be   *)
(* with the calls that are being scheduled.                                *)
HandedOver ==
  /\ pc \in LoopPCs => \A o \in DOMAIN saved : Terminal(saved[o]) \/ o \in accepted
  /\ pc = "schedule" =>
       /\ \A o \in DOMAIN saved :
            Terminal(saved[o]) \/ o \in accepted \/ \E b \in batch : b[2] /\ o \in OpsOf(b[1])
       /\ \A b \in batch : b[2] => OpsOf(b[1]) \subseteq DOMAIN saved
  /\ pc \in {"restore", "inputs", "updates", "decide", "select"} => batch = {}

LiveOK ==
  /\ pc \in LivePCs => Reflects(items, Len(items), st) /\ st.ops = saved
  /\ pc \in LoopPCs => \A key \in DOMAIN st.calls : st.calls[key].scheduled
  /\ pc = "decide" => Reconcilable = {}
  /\ pc = "schedule" => \A b \in batch : b[2] => b[1] \in DOMAIN st.calls /\ st.calls[b[1]].scheduled

(* The latest turn is the session's own, and not answered.                 *)
Awaited(h) ==
  \E m \in DOMAIN h :
    /\ LatestAt(h, m, Len(h)) /\ NoForkAfter(h, m, Len(h))
    /\ \A n \in DOMAIN h : h[n].kind = "response" => h[n].turn # h[m].turn

TurnOK ==
  /\ Alive /\ cancelled => stop = "hard" /\ ~model
  /\ pc \in {"restore", "startup", "schedule"} => ~model /\ ~cancelled
  /\ Alive /\ model => Awaited(items)

CoordInv ==
  /\ PcOK /\ StoreOK /\ LocalOK /\ InboxOK /\ ManagerOK /\ WorkOK /\ HandedOver /\ LiveOK /\ TurnOK
  /\ NoLostWakeup /\ StopsSettle

-----------------------------------------------------------------------------
(* What the coordinator writes, the store takes.                           *)

(* A pending call is one the model asked for and that is not settled; it    *)
(* is scheduled exactly when it has a status.                               *)
LEMMA CallFacts ==
  ASSUME NEW h, NEW n \in Nat, NEW s \in LoopState, Reflects(h, n, s), NEW key \in DOMAIN s.calls
  PROVE  /\ key \in Keys /\ Asked(h, n, key) /\ ~Settled(h, n, key)
         /\ s.calls[key].scheduled <=> HasStatusAt(h, n, key)
         /\ s.calls[key].ops = IF s.calls[key].scheduled THEN OpsOf(key) ELSE {}
<1>1. key \in OpenKeys(h, n) /\ s.calls[key] = CallOf(h, n, key)
  BY DEF Reflects, CallsOf
<1> QED
  BY <1>1 DEF OpenKeys, CallOf

(* A state that reflects a history has its counts in order.                 *)
LEMMA LocalFacts ==
  ASSUME NEW h, NEW n \in Nat, NEW s \in LoopState, Reflects(h, n, s)
  PROVE  /\ s.delivered <= s.turnInputs /\ s.turnInputs <= s.available
         /\ \A key \in DOMAIN s.calls : s.calls[key].ops \subseteq OpsOf(key)
<1>1. s.delivered <= s.turnInputs /\ s.turnInputs <= s.available
  BY CountsOrdered DEF Reflects
<1>2. \A key \in DOMAIN s.calls : s.calls[key].ops \subseteq OpsOf(key)
  BY CallFacts
<1> QED
  BY <1>1, <1>2

(* A history is a sequence of items.                                        *)
LEMMA HistoryIs ==
  ASSUME HistoryOK(items)
  PROVE  /\ items \in Seq(Item) /\ Len(items) \in Nat /\ DOMAIN items = 1 .. Len(items)
         /\ \A n \in 1 .. Len(items) : items[n] \in Item
BY DEF HistoryOK

StoreTakes(item, previous) ==
  /\ Fits(items, item) /\ StoreAccepts(item, previous)
  /\ InitializeOperations(item) = IF item.kind = "status" THEN Over(item.ops, saved) ELSE saved

(* The store takes the input at the head of the inbox: its ID is new.       *)
LEMMA TakesInput ==
  ASSUME CoordInv, Alive, queue # <<>>
  PROVE  StoreTakes(InputItem(Head(queue)), 0)
<1> DEFINE i == Head(queue)
           item == InputItem(i)
<1>1. queue \in Seq(Inputs \cup HeartbeatIDs) /\ 1 \in DOMAIN queue /\ i = queue[1]
  BY DEF CoordInv, InboxOK
<1>2. i \in Inputs \cup HeartbeatIDs /\ i \notin RecordedInputIDs
  BY <1>1 DEF CoordInv, InboxOK
<1> HIDE DEF i
<1>3. item \in Item /\ item.kind = "input" /\ item.id = i
  BY <1>2 DEF InputItem, Item
<1>4. FitsInput(items, item)
  BY <1>2, <1>3 DEF FitsInput, RecordedInputIDs, ItemsOf
<1> HIDE DEF item
<1>5. Fits(items, item) /\ StoreAccepts(item, 0) /\ InitializeOperations(item) = saved
  BY <1>3, <1>4 DEF Fits, StoreAccepts, InitializeOperations
<1>6. StoreTakes(item, 0)
  BY <1>3, <1>5 DEF StoreTakes
<1> QED
  BY <1>6 DEF item, i

(* The store takes the turn that requestModelResponse writes: the local     *)
(* state knows the previous one, and the number is new.                     *)
LEMMA TakesTurn ==
  ASSUME CoordInv, pc \in LivePCs, LatestTurn < MaxTurns, NEW type \in {"regular", "compaction"}
  PROVE  LatestTurn + 1 \in Turns /\ StoreTakes(TurnItem(LatestTurn + 1, type), st.turn)
<1> DEFINE t == LatestTurn + 1
           item == TurnItem(t, type)
<1>1. /\ st.turn = LatestTurn /\ LatestTurn \in 0 .. MaxTurns
      /\ \A n \in TurnItems : items[n].turn <= LatestTurn
  BY LatestTurnIs DEF CoordInv, StoreOK, LiveOK, Reflects
<1>2. t \in Turns
  BY <1>1, BoundsAssumption DEF Turns
<1>3. item \in Item /\ item.kind = "turn" /\ item.turn = t
  BY <1>2 DEF TurnItem, Item
<1>4. \A n \in TurnItems : items[n].turn < t
  <2>1. \A n \in TurnItems : items[n].turn \in Nat
    <3>1. \A n \in TurnItems : n \in DOMAIN items /\ items[n].kind = "turn"
      BY DEF TurnItems, ItemsOf
    <3>2. \A n \in DOMAIN items : items[n] \in Item
      BY HistoryIs DEF CoordInv, StoreOK
    <3> QED
      BY <3>1, <3>2, KindsAre, BoundsAssumption DEF Turns
  <2> QED
    BY <1>1, <2>1
<1> HIDE DEF t
<1>5. FitsTurn(items, item)
  BY <1>3, <1>4 DEF FitsTurn, TurnItems, ItemsOf
<1> HIDE DEF item
<1>6. StoreAccepts(item, st.turn)
  <2>1. \A n \in TurnItems : items[n].turn # t
    <3>1. t \in Nat /\ \A n \in TurnItems : items[n].turn < t
      BY <1>2, <1>4, BoundsAssumption DEF Turns
    <3> QED
      BY <3>1
  <2> QED
    BY <1>1, <1>3, <2>1 DEF StoreAccepts
<1>7. Fits(items, item) /\ InitializeOperations(item) = saved
  BY <1>3, <1>5 DEF Fits, InitializeOperations
<1>8. StoreTakes(item, st.turn)
  BY <1>3, <1>6, <1>7 DEF StoreTakes
<1> QED
  BY <1>2, <1>8 DEF item, t

(* An item that no fork follows is the session's own.                       *)
LEMMA OwnedIs ==
  ASSUME HistoryOK(items), NEW n \in DOMAIN items, NoForkAfter(items, n, Len(items)), items[n].kind # "fork"
  PROVE  Owned(n)
<1>1. Len(items) \in Nat /\ DOMAIN items = 1 .. Len(items)
  BY HistoryIs
<1> QED
  BY <1>1 DEF Owned, ItemsOf, NoForkAfter

(* The store takes the answer to the turn that is awaited: it is the        *)
(* latest one, owned and unanswered.                                        *)
LEMMA TakesResponse ==
  ASSUME CoordInv, pc \in LivePCs, model, NEW t, t = st.turn, NEW cs \in SUBSET CallIDs,
         cs # {} => t <= MaxToolTurns
  PROVE  StoreTakes(ResponseItem(t, cs), 0)
<1> DEFINE item == ResponseItem(t, cs)
<1>1. Len(items) \in Nat /\ DOMAIN items = 1 .. Len(items) /\ \A n \in DOMAIN items : items[n] \in Item
  BY HistoryIs DEF CoordInv, StoreOK
<1>2. Awaited(items)
  BY DEF CoordInv, TurnOK, Alive, LivePCs, LoopPCs
<1>3. PICK m \in DOMAIN items :
             /\ LatestAt(items, m, Len(items)) /\ NoForkAfter(items, m, Len(items))
             /\ \A n \in DOMAIN items : items[n].kind = "response" => items[n].turn # items[m].turn
  BY <1>2 DEF Awaited
<1>4. t = items[m].turn /\ items[m].kind = "turn"
  <2>1. TurnIs(items, Len(items), st)
    BY DEF CoordInv, LiveOK, Reflects
  <2> QED
    BY <1>1, <1>3, <2>1, TurnKnown DEF LatestAt
<1>5. t \in Turns
  BY <1>1, <1>4, KindsAre
<1>6. item \in Item /\ item.kind = "response" /\ item.turn = t /\ item.calls = cs
  BY <1>5 DEF ResponseItem, Item
<1>7. FitsResponse(items, item)
  BY <1>3, <1>4, <1>6 DEF FitsResponse
<1> HIDE DEF item
<1>8. StoreAccepts(item, 0)
  <2>1. Owned(m)
    BY <1>3, <1>4, OwnedIs DEF CoordInv, StoreOK
  <2>2. m \in TurnItems
    BY <1>4 DEF TurnItems, ItemsOf
  <2>3. ~Responded(t)
    BY <1>3, <1>4 DEF Responded, ItemsOf
  <2> QED
    BY <1>4, <1>6, <2>1, <2>2, <2>3 DEF StoreAccepts, OwnsTurn
<1>9. Fits(items, item) /\ InitializeOperations(item) = saved
  BY <1>6, <1>7 DEF Fits, InitializeOperations
<1>10. StoreTakes(item, 0)
  BY <1>6, <1>8, <1>9 DEF StoreTakes
<1> QED
  BY <1>10 DEF item

(* The turn in which the model asked for a call that is pending is one of   *)
(* the session's own: no fork lies between them, and none behind.           *)
LEMMA AskedInOwnTurn ==
  ASSUME HistoryOK(items), NEW key, Asked(items, Len(items), key)
  PROVE  OwnsTurn(key[1])
<1>1. Len(items) \in Nat /\ DOMAIN items = 1 .. Len(items)
  BY HistoryIs
<1>2. PICK r \in 1 .. Len(items) : AsksFor(items, r, key) /\ NoForkAfter(items, r, Len(items))
  BY DEF Asked
<1>3. r \in DOMAIN items /\ items[r].kind = "response" /\ items[r].turn = key[1]
  BY <1>1, <1>2 DEF AsksFor
<1>4. PICK m \in 1 .. r : /\ LatestAt(items, m, r) /\ items[m].turn = items[r].turn
                          /\ NoForkAfter(items, m, r)
  BY <1>3 DEF HistoryOK, ResponsesFit
<1>5. m \in DOMAIN items /\ items[m].kind = "turn" /\ NoForkAfter(items, m, Len(items))
  BY <1>1, <1>2, <1>4 DEF LatestAt, NoForkAfter
<1>6. Owned(m) /\ m \in TurnItems
  BY <1>5, OwnedIs DEF TurnItems, ItemsOf
<1> QED
  BY <1>3, <1>4, <1>6 DEF OwnsTurn

(* The operations of a status are those of its call.                       *)
LEMMA HeldBy ==
  ASSUME HistoryOK(items), NEW m \in 1 .. Len(items), NEW o, Holds(items, m, o)
  PROVE  items[m].key \in Keys /\ o \in OpsOf(items[m].key)
<1>1. m \in DOMAIN items /\ items[m] \in Item /\ items[m].kind = "status"
  BY HistoryIs DEF Holds
<1>2. StatusFits(items, m)
  BY <1>1 DEF HistoryOK, StatusesFit
<1>3. items[m].key \in Keys
  BY <1>1, KindsAre
<1> QED
  BY <1>2, <1>3 DEF StatusFits, Holds

(* The store takes the first status of a call: its operations are new.      *)
LEMMA TakesSchedule ==
  ASSUME CoordInv, pc \in LivePCs, NEW key \in Unscheduled, NEW translated \in BOOLEAN
  PROVE  LET ops == IF translated THEN OpsOf(key) ELSE {}
         IN  /\ StoreTakes(StatusItem(key, [o \in ops |-> "ready"]), 0)
             /\ key \in Keys /\ ops \subseteq Ops /\ ops \cap DOMAIN saved = {}
<1> DEFINE ops == IF translated THEN OpsOf(key) ELSE {}
           f == [o \in ops |-> "ready"]
           item == StatusItem(key, f)
<1>1. /\ Len(items) \in Nat /\ HistoryOK(items) /\ st \in LoopState
      /\ Reflects(items, Len(items), st) /\ SavedOK(items, saved)
  BY HistoryIs DEF CoordInv, StoreOK, LocalOK, LiveOK
<1>2. key \in DOMAIN st.calls /\ ~st.calls[key].scheduled
  BY DEF Unscheduled
<1>3. /\ key \in Keys /\ Asked(items, Len(items), key) /\ ~Settled(items, Len(items), key)
      /\ ~HasStatusAt(items, Len(items), key)
  BY <1>1, <1>2, CallFacts
<1>4. ops \in {{}, OpsOf(key)} /\ ops \subseteq Ops
  BY <1>3, OpsAre
<1>5. f \in StatusMaps /\ DOMAIN f = ops /\ \A o \in ops : f[o] = "ready"
  BY <1>4 DEF StatusMaps, Statuses
<1> HIDE DEF f, ops
<1>6. item \in Item /\ item.kind = "status" /\ item.key = key /\ item.waitingFor = ops /\ item.ops = f
  BY <1>3, <1>4, <1>5 DEF StatusItem, Item
<1> HIDE DEF item
<1>7. FitsStatus(items, item)
  BY <1>3, <1>4, <1>5, <1>6 DEF FitsStatus
<1>8. ~HasStatus(key)
  BY <1>1, <1>3, HistoryIs DEF HasStatus, HasStatusAt, ItemsOf
<1>9. DOMAIN f \cap DOMAIN saved = {}
  <2> SUFFICES ASSUME NEW o \in ops, o \in DOMAIN saved PROVE FALSE
    BY <1>5
  <2>1. PICK m \in 1 .. Len(items) : Holds(items, m, o)
    BY <1>1 DEF SavedOK
  <2>2. items[m].key \in Keys /\ o \in OpsOf(items[m].key)
    BY <1>1, <2>1, HeldBy
  <2>3. o \in OpsOf(key)
    BY <1>4
  <2>4. items[m].key = key
    BY <1>3, <2>2, <2>3, OpsAre
  <2> QED
    BY <1>3, <2>1, <2>4 DEF HasStatusAt, Holds
<1>9a. OwnsTurn(key[1])
  BY <1>1, <1>3, AskedInOwnTurn
<1>10. Fits(items, item) /\ StoreAccepts(item, 0) /\ InitializeOperations(item) = Over(item.ops, saved)
  BY <1>6, <1>7, <1>8, <1>9, <1>9a DEF Fits, StoreAccepts, InitializeOperations
<1>11. StoreTakes(item, 0) /\ key \in Keys /\ ops \subseteq Ops /\ ops \cap DOMAIN saved = {}
  BY <1>3, <1>4, <1>5, <1>6, <1>9, <1>10 DEF StoreTakes
<1> QED
  BY <1>11 DEF item, f, ops

(* A call that is open and has a status owns it, with its operations.      *)
LEMMA ScheduledCall ==
  ASSUME CoordInv, pc \in LivePCs, NEW key \in DOMAIN st.calls, st.calls[key].scheduled
  PROVE  HasStatus(key) /\ OpsOf(key) \subseteq DOMAIN saved
<1>1. /\ Len(items) \in Nat /\ HistoryOK(items) /\ st \in LoopState
      /\ Reflects(items, Len(items), st) /\ SavedOK(items, saved)
  BY HistoryIs DEF CoordInv, StoreOK, LocalOK, LiveOK
<1>2. /\ key \in Keys /\ Asked(items, Len(items), key) /\ ~Settled(items, Len(items), key)
      /\ HasStatusAt(items, Len(items), key)
  BY <1>1, CallFacts
<1>3. PICK m \in 1 .. Len(items) : items[m].kind = "status" /\ items[m].key = key
  BY <1>2 DEF HasStatusAt
<1>4. PICK r \in 1 .. Len(items) : AsksFor(items, r, key) /\ NoForkAfter(items, r, Len(items))
  BY <1>2 DEF Asked
<1>5. m \in DOMAIN items /\ r \in DOMAIN items
  BY <1>1, HistoryIs
<1>6. StatusFits(items, m)
  BY <1>1, <1>3, <1>5 DEF HistoryOK, StatusesFit
<1>7. r < m
  <2>1. PICK k \in 1 .. m : items[k].kind = "response" /\ items[k].turn = key[1]
    BY <1>3, <1>6 DEF StatusFits, Asked, AsksFor
  <2>2. k \in DOMAIN items
    BY <1>1, <1>3, <2>1, HistoryIs
  <2>3. k = r
    BY <1>1, <1>4, <1>5, <2>1, <2>2 DEF HistoryOK, ResponsesFit, AsksFor
  <2>4. k # m
    BY <1>3, <2>1
  <2> QED
    BY <2>1, <2>3, <2>4
<1>8. NoForkAfter(items, m, Len(items))
  BY <1>1, <1>4, <1>7 DEF NoForkAfter
<1>9. HasStatus(key)
  BY <1>1, <1>3, <1>5, <1>8, OwnedIs DEF HasStatus, ItemsOf
<1>10. ~Inherits(items, m)
  BY <1>8 DEF Inherits, NoForkAfter
<1>11. ~FinalAt(items, m)
  BY <1>2, <1>3 DEF Settled
<1>12. items[m].waitingFor = OpsOf(key) /\ DOMAIN items[m].ops = OpsOf(key)
  BY <1>3, <1>6, <1>10, <1>11 DEF StatusFits, FinalAt
<1>13. \A o \in OpsOf(key) : o \in Ops /\ Holds(items, m, o)
  BY <1>2, <1>3, <1>12, OpsAre DEF Holds
<1> QED
  BY <1>1, <1>9, <1>13 DEF SavedOK

(* The store takes the final status of a call, which shows the statuses     *)
(* the store already has.                                                   *)
LEMMA TakesReconcile ==
  ASSUME CoordInv, pc \in LivePCs, NEW key \in Reconcilable, st.calls[key].scheduled
  PROVE  LET item == StatusItem(key, [o \in st.calls[key].ops |-> st.ops[o]])
         IN  StoreTakes(item, 0) /\ Over(item.ops, saved) = saved /\ item.kind = "status"
<1> DEFINE ops == st.calls[key].ops
           f == [o \in ops |-> st.ops[o]]
           item == StatusItem(key, f)
<1>1. /\ Len(items) \in Nat /\ HistoryOK(items) /\ st \in LoopState
      /\ Reflects(items, Len(items), st) /\ SavedOK(items, saved) /\ st.ops = saved
  BY HistoryIs DEF CoordInv, StoreOK, LocalOK, LiveOK
<1>2. key \in DOMAIN st.calls /\ CallIsTerminal(st, key)
  BY DEF Reconcilable
<1>3. /\ key \in Keys /\ Asked(items, Len(items), key) /\ ~Settled(items, Len(items), key)
      /\ ops = OpsOf(key)
  BY <1>1, <1>2, CallFacts
<1>4. HasStatus(key) /\ OpsOf(key) \subseteq DOMAIN saved
  BY <1>2, ScheduledCall
<1>5. \A o \in ops : st.ops[o] = "finished"
  BY <1>2 DEF CallIsTerminal, Terminal
<1>6. OpsOf(key) \subseteq Ops
  BY <1>3, OpsAre
<1> HIDE DEF ops
<1>7. f \in StatusMaps /\ DOMAIN f = ops /\ \A o \in ops : f[o] = "finished" /\ f[o] = saved[o]
  BY <1>1, <1>3, <1>5, <1>6 DEF StatusMaps, Statuses
<1> HIDE DEF f
<1>8. item \in Item /\ item.kind = "status" /\ item.key = key /\ item.waitingFor = ops /\ item.ops = f
  BY <1>3, <1>6, <1>7 DEF StatusItem, Item
<1> HIDE DEF item
<1>9. FitsStatus(items, item)
  BY <1>3, <1>7, <1>8 DEF FitsStatus
<1>10. Over(f, saved) = saved
  <2>1. saved \in [DOMAIN saved -> Statuses]
    BY <1>1, MapsAre DEF SavedOK
  <2>2. DOMAIN f \cup DOMAIN saved = DOMAIN saved
    BY <1>3, <1>4, <1>7
  <2> QED
    BY <1>7, <2>1, <2>2 DEF Over
<1>10a. OwnsTurn(key[1])
  BY <1>1, <1>3, AskedInOwnTurn
<1>11. Fits(items, item) /\ StoreAccepts(item, 0) /\ InitializeOperations(item) = saved
  BY <1>4, <1>8, <1>9, <1>10a DEF Fits, StoreAccepts, InitializeOperations
<1>12. StoreTakes(item, 0) /\ Over(item.ops, saved) = saved /\ item.kind = "status"
  BY <1>8, <1>10, <1>11 DEF StoreTakes
<1> QED
  BY <1>12 DEF item, f, ops

(* The store holds the operations of the history's statuses, and of no      *)
(* other.                                                                   *)
LEMMA AppendSaved ==
  ASSUME NEW h, HistoryOK(h), NEW item, Fits(h, item), NEW f, SavedOK(h, f)
  PROVE  SavedOK(Append(h, item), IF item.kind = "status" THEN Over(item.ops, f) ELSE f)
<1> DEFINE g == Append(h, item)
           N == Len(h)
<1>1. item \in Item /\ h \in Seq(Item)
  BY DEF Fits, HistoryOK
<1>2. Len(g) = N + 1 /\ N \in Nat /\ g[N + 1] = item /\ \A k \in 1 .. N : g[k] = h[k]
  BY <1>1, AppendIs
<1> HIDE DEF g, N
<1>3. 1 .. N + 1 = (1 .. N) \cup {N + 1}
  BY <1>2
<1>4. \A o : (\E m \in 1 .. N + 1 : Holds(g, m, o)) <=>
               (\E m \in 1 .. N : Holds(h, m, o)) \/ (item.kind = "status" /\ o \in DOMAIN item.ops)
  BY <1>2, <1>3 DEF Holds
<1>5. f \in StatusMaps /\ DOMAIN f = {o \in Ops : \E m \in 1 .. N : Holds(h, m, o)}
  BY DEF SavedOK, N
<1>6. CASE item.kind # "status"
  BY <1>2, <1>4, <1>5, <1>6 DEF SavedOK, g
<1>7. CASE item.kind = "status"
  <2>1. item.ops \in StatusMaps
    BY <1>1, <1>7, KindsAre
  <2>2. DOMAIN item.ops \subseteq Ops
    BY <2>1, MapsAre
  <2>3. Over(item.ops, f) \in StatusMaps /\ DOMAIN Over(item.ops, f) = DOMAIN item.ops \cup DOMAIN f
    BY <1>5, <2>1, OverIs DEF Over
  <2> QED
    BY <1>2, <1>4, <1>5, <1>7, <2>2, <2>3 DEF SavedOK, g
<1> QED
  BY <1>6, <1>7

(* The turn that is awaited stays so until it is answered.                 *)
LEMMA AppendAwaited ==
  ASSUME NEW h, HistoryOK(h), NEW item, Fits(h, item), item.kind \in {"input", "status"}, Awaited(h)
  PROVE  Awaited(Append(h, item))
<1> DEFINE g == Append(h, item)
           N == Len(h)
<1>1. item \in Item /\ h \in Seq(Item)
  BY DEF Fits, HistoryOK
<1>2. /\ Len(g) = N + 1 /\ N \in Nat /\ g[N + 1] = item /\ \A k \in 1 .. N : g[k] = h[k]
      /\ DOMAIN g = 1 .. N + 1 /\ DOMAIN h = 1 .. N
  BY <1>1, AppendIs
<1>3. PICK m \in 1 .. N :
             /\ LatestAt(h, m, N) /\ NoForkAfter(h, m, N)
             /\ \A n \in 1 .. N : h[n].kind = "response" => h[n].turn # h[m].turn
  BY <1>2 DEF Awaited
<1> HIDE DEF g, N
<1>4. LatestAt(g, m, N)
  BY <1>2, <1>3, SamePrefix
<1>5. LatestAt(g, m, N + 1)
  BY <1>2, <1>4, LatestStep
<1>6. NoForkAfter(g, m, N + 1)
  BY <1>2, <1>3 DEF NoForkAfter
<1>7. \A n \in 1 .. N + 1 : g[n].kind = "response" => g[n].turn # g[m].turn
  BY <1>2, <1>3
<1>8. Awaited(g)
  BY <1>2, <1>5, <1>6, <1>7 DEF Awaited
<1> QED
  BY <1>8 DEF g

(* A new turn is awaited.                                                   *)
LEMMA AppendTurnAwaited ==
  ASSUME NEW h, HistoryOK(h), NEW item, Fits(h, item), item.kind = "turn"
  PROVE  Awaited(Append(h, item))
<1> DEFINE g == Append(h, item)
           N == Len(h)
<1>1. item \in Item /\ h \in Seq(Item)
  BY DEF Fits, HistoryOK
<1>2. /\ Len(g) = N + 1 /\ N \in Nat /\ g[N + 1] = item /\ \A k \in 1 .. N : g[k] = h[k]
      /\ DOMAIN g = 1 .. N + 1 /\ DOMAIN h = 1 .. N
  BY <1>1, AppendIs
<1> HIDE DEF g, N
<1>3. LatestAt(g, N + 1, N + 1)
  BY <1>2, LatestStep
<1>4. NoForkAfter(g, N + 1, N + 1)
  BY <1>2 DEF NoForkAfter
<1>5. FitsTurn(h, item)
  BY DEF Fits, FitsInput, FitsResponse, FitsStatus
<1>6. ASSUME NEW n \in 1 .. N, h[n].kind = "response" PROVE h[n].turn # item.turn
  <2>1. PICK m \in 1 .. n : LatestAt(h, m, n) /\ h[m].turn = h[n].turn
    BY <1>2, <1>6 DEF HistoryOK, ResponsesFit
  <2>2. m \in DOMAIN h /\ h[m].kind = "turn" /\ h[m] \in Item
    BY <1>1, <1>2, <2>1 DEF LatestAt
  <2>3. h[m].turn < item.turn
    BY <1>5, <2>2 DEF FitsTurn
  <2>4. h[m].turn \in Nat /\ item.turn \in Nat
    BY <1>1, <2>2, KindsAre, BoundsAssumption DEF Turns
  <2> QED
    BY <2>1, <2>3, <2>4
<1>7. Awaited(g)
  BY <1>2, <1>3, <1>4, <1>6 DEF Awaited
<1> QED
  BY <1>7 DEF g

(* The whole of a store write, seen from the loop.                         *)
LEMMA Stored ==
  ASSUME CoordInv, pc \in LivePCs, NEW item, NEW previous, NEW next,
         StoreTakes(item, previous), Store(item, previous, next)
  PROVE  /\ items' = Append(items, item) /\ pc' = next /\ StoreOK'
         /\ saved' = IF item.kind = "status" THEN Over(item.ops, saved) ELSE saved
         /\ AddItem(st, item) \in LoopState
         /\ Reflects(items', Len(items'), AddItem(st, item))
         /\ AddItem(st, item).ops = saved'
         /\ GraceOK(AddItem(st, item))
         /\ RecordedInputIDs' = RecordedInputIDs \cup (IF item.kind = "input" THEN {item.id} ELSE {})
         /\ item.kind # "turn" => TurnItems' = TurnItems
<1>1. HistoryOK(items) /\ SavedOK(items, saved)
  BY DEF CoordInv, StoreOK
<1>2. Fits(items, item) /\ item \in Item
  BY DEF StoreTakes, Fits
<1>3. /\ items' = Append(items, item) /\ pc' = next
      /\ saved' = IF item.kind = "status" THEN Over(item.ops, saved) ELSE saved
  BY DEF StoreTakes, Store
<1>4. StoreOK'
  <2>1. HistoryOK(Append(items, item))
    BY <1>1, <1>2, AppendOK
  <2>2. SavedOK(Append(items, item), IF item.kind = "status" THEN Over(item.ops, saved) ELSE saved)
    BY <1>1, <1>2, AppendSaved
  <2> QED
    BY <1>3, <2>1, <2>2 DEF StoreOK
<1>5. st \in LoopState /\ GraceOK(st) /\ Reflects(items, Len(items), st) /\ st.ops = saved
  BY DEF CoordInv, LocalOK, LiveOK
<1>6. /\ Len(items') = Len(items) + 1 /\ Len(items) \in Nat
      /\ DOMAIN items' = 1 .. Len(items) + 1 /\ DOMAIN items = 1 .. Len(items)
      /\ items'[Len(items) + 1] = item /\ \A k \in 1 .. Len(items) : items'[k] = items[k]
  BY <1>1, <1>2, <1>3, AppendIs DEF HistoryOK
<1>7. /\ AddItem(st, item) \in LoopState
      /\ Reflects(items', Len(items'), AddItem(st, item))
      /\ AddItem(st, item).ops = IF item.kind = "status" THEN Over(item.ops, st.ops) ELSE st.ops
  BY <1>1, <1>2, <1>3, <1>5, <1>6, AppendLive
<1>8. AddItem(st, item).ops = saved'
  BY <1>3, <1>5, <1>7
<1>9. GraceOK(AddItem(st, item))
  <2>1. ASSUME item.kind = "response" PROVE {item.turn} \X item.calls \subseteq Keys
    <3>1. FitsResponse(items, item)
      BY <1>2, <2>1 DEF Fits, FitsInput, FitsTurn, FitsStatus
    <3>2. item.turn \in Turns /\ item.calls \subseteq CallIDs
      BY <1>2, <2>1, KindsAre
    <3> QED
      BY <3>1, <3>2, BoundsAssumption DEF FitsResponse, Keys, Turns
  <2> QED
    BY <1>2, <1>5, <2>1, GraceStep
<1>10. \A n : n \in DOMAIN items' <=> n \in DOMAIN items \/ n = Len(items) + 1
  BY <1>6
<1>11. \A kind : ItemsOf(kind)' = ItemsOf(kind) \cup (IF item.kind = kind THEN {Len(items) + 1} ELSE {})
  BY <1>6, <1>10 DEF ItemsOf
<1>12. RecordedInputIDs' = RecordedInputIDs \cup (IF item.kind = "input" THEN {item.id} ELSE {})
  <2>1. \A n \in ItemsOf("input") : n \in 1 .. Len(items) /\ items'[n] = items[n]
    BY <1>6 DEF ItemsOf
  <2> QED
    BY <1>6, <1>11, <2>1 DEF RecordedInputIDs
<1>13. item.kind # "turn" => TurnItems' = TurnItems
  BY <1>11 DEF TurnItems
<1> QED
  BY <1>3, <1>4, <1>7, <1>8, <1>9, <1>12, <1>13

-----------------------------------------------------------------------------
(* Steps of the processes around the loop.                                 *)

(* The empty map has every map's type.                                      *)
LEMMA EmptyIs == <<>> \in StatusMaps /\ <<>> \in CallMaps /\ DOMAIN <<>> = {}
BY NewIs DEF NewLoopState, LoopState

(* The session begins in the invariant.                                     *)
LEMMA InitOK == Init => CoordInv
<1> SUFFICES ASSUME Init PROVE CoordInv
  OBVIOUS
<1>1. items = <<>> /\ saved = <<>> /\ st = NewLoopState /\ pc = "down" /\ stop = "none"
      /\ accepted = {} /\ running = <<>> /\ canceling = {} /\ asks = {}
  BY DEF Init
<1>2. PcOK
  BY <1>1 DEF PcOK
<1>3. StoreOK
  <2>1. items \in Seq(Item) /\ DOMAIN items = {} /\ Len(items) = 0
    BY <1>1
  <2>2. HistoryOK(items)
    BY <2>1 DEF HistoryOK, TurnsRise, ResponsesFit, InputsOnce, StatusesFit
  <2>3. SavedOK(items, saved)
    BY <1>1, <2>1, EmptyIs DEF SavedOK
  <2> QED
    BY <2>2, <2>3 DEF StoreOK
<1>4. LocalOK
  <2>1. /\ NewLoopState.delivered = 0 /\ NewLoopState.turnInputs = 0 /\ NewLoopState.available = 0
        /\ NewLoopState.calls = <<>> /\ GraceOK(NewLoopState)
    BY DEF NewLoopState, GraceOK
  <2> QED
    BY <1>1, <2>1, NewIs, EmptyIs DEF LocalOK
<1>5. InboxOK /\ WorkOK /\ HandedOver /\ LiveOK /\ TurnOK /\ NoLostWakeup /\ StopsSettle
  BY <1>1 DEF InboxOK, WorkOK, HandedOver, LiveOK, TurnOK, NoLostWakeup, StopsSettle, Alive, LivePCs, LoopPCs
<1>6. ManagerOK
  BY <1>1 DEF ManagerOK
<1> QED
  BY <1>2, <1>3, <1>4, <1>5, <1>6 DEF CoordInv

(* A new process opens the session: its inbox is seeded, its manager        *)
(* empty.                                                                   *)
LEMMA StartOK == CoordInv /\ Start => CoordInv'
<1> SUFFICES ASSUME CoordInv, Start PROVE CoordInv'
  OBVIOUS
<1> USE DEF CoordInv
<1>1. UNCHANGED <<items, saved>> /\ st' = NewLoopState /\ pc' = "restore" /\ stop' = "none"
      /\ queue' = <<>> /\ seen' = RecordedInputIDs /\ ~cancelled' /\ ~model'
      /\ accepted' = {} /\ running' = <<>> /\ canceling' = {} /\ asks' = {} /\ updates' = <<>> /\ batch' = {}
  BY DEF Start, storeVars
<1>2. PcOK'
  BY <1>1 DEF PcOK
<1>3. StoreOK'
  BY <1>1 DEF StoreOK
<1>4. LocalOK'
  <2>1. /\ NewLoopState.delivered = 0 /\ NewLoopState.turnInputs = 0 /\ NewLoopState.available = 0
        /\ NewLoopState.calls = <<>> /\ GraceOK(NewLoopState)
    BY DEF NewLoopState, GraceOK
  <2> QED
    BY <1>1, <2>1, NewIs, EmptyIs DEF LocalOK
<1>5. InboxOK'
  <2>1. RecordedInputIDs' = RecordedInputIDs
    BY <1>1 DEF RecordedInputIDs, ItemsOf
  <2>2. <<>> \in Seq(Inputs \cup HeartbeatIDs) /\ DOMAIN <<>> = {}
    OBVIOUS
  <2> QED
    BY <1>1, <2>1, <2>2 DEF InboxOK
<1>6. ManagerOK' /\ WorkOK'
  <2>1. <<>> \in Seq([op : Ops, status : {"awaiting", "finished"}]) /\ DOMAIN <<>> = {}
    OBVIOUS
  <2> QED
    BY <1>1, <2>1 DEF ManagerOK, WorkOK
<1>7. HandedOver' /\ LiveOK' /\ TurnOK' /\ NoLostWakeup' /\ StopsSettle'
  BY <1>1 DEF Start, HandedOver, LiveOK, TurnOK, NoLostWakeup, StopsSettle, LivePCs, LoopPCs
<1> QED
  BY <1>2, <1>3, <1>4, <1>5, <1>6, <1>7

(* A session nobody runs.                                                  *)
LEMMA DownOK ==
  ASSUME CoordInv, pc' = "down", StoreOK', UNCHANGED <<st, stop, running, accepted, canceling, asks>>
  PROVE  CoordInv'
<1>1. PcOK'
  BY DEF CoordInv, PcOK
<1>2. LocalOK' /\ ManagerOK'
  BY DEF CoordInv, LocalOK, ManagerOK
<1>3. InboxOK' /\ WorkOK' /\ HandedOver' /\ LiveOK' /\ TurnOK' /\ NoLostWakeup' /\ StopsSettle'
  BY DEF InboxOK, WorkOK, HandedOver, LiveOK, TurnOK, NoLostWakeup, StopsSettle, Alive, LivePCs, LoopPCs
<1> QED
  BY <1>1, <1>2, <1>3 DEF CoordInv

(* The fork of a session is a session that can be opened.                   *)
LEMMA ForkStepOK == ASSUME CoordInv, NEW t \in Turns, Fork(t) PROVE CoordInv'
<1>1. StoreOK'
  <2> DEFINE g == [n \in 1 .. Boundary(t) |-> Inherited(items[n])] \o <<ForkItem(t)>>
  <2>1. HistoryOK(items) /\ \E n \in TurnItems : items[n].turn = t
    BY DEF CoordInv, StoreOK, Fork
  <2>2. HistoryOK(g) /\ SavedOK(g, <<>>)
    BY <2>1, ForkOK
  <2>3. items' = g /\ saved' = <<>>
    BY DEF Fork
  <2> HIDE DEF g
  <2> QED
    BY <2>2, <2>3 DEF StoreOK
<1>2. pc' = "down" /\ UNCHANGED <<st, stop, running, accepted, canceling, asks>>
  BY DEF Fork, managerVars, stopVars
<1> QED
  BY <1>1, <1>2, DownOK

(* The process may die at any step.                                         *)
LEMMA CrashOK == CoordInv /\ Crash => CoordInv'
<1> SUFFICES ASSUME CoordInv, Crash PROVE CoordInv'
  OBVIOUS
<1>1. StoreOK'
  BY DEF CoordInv, StoreOK, Crash, storeVars
<1>2. pc' = "down" /\ UNCHANGED <<st, stop, running, accepted, canceling, asks>>
  BY DEF Crash, managerVars, stopVars
<1> QED
  BY <1>1, <1>2, DownOK

(* A step that changes nothing.                                             *)
LEMMA StutterOK == CoordInv /\ UNCHANGED vars => CoordInv'
<1> SUFFICES ASSUME CoordInv, UNCHANGED vars PROVE CoordInv'
  OBVIOUS
<1> USE DEF vars, storeVars, inboxVars, managerVars, stopVars
<1>1. PcOK' /\ StoreOK' /\ LocalOK' /\ ManagerOK'
  BY DEF CoordInv, PcOK, StoreOK, LocalOK, ManagerOK
<1>2. InboxOK'
  BY DEF CoordInv, InboxOK, Alive, RecordedInputIDs, ItemsOf
<1>3. WorkOK' /\ HandedOver'
  BY DEF CoordInv, WorkOK, HandedOver, Alive, EndIsAnnounced
<1>4. LiveOK' /\ TurnOK'
  BY DEF CoordInv, LiveOK, TurnOK, Reconcilable, Alive, CallIsTerminal
<1>5. NoLostWakeup' /\ StopsSettle'
  <2>1. NoLostWakeup'
    BY DEF CoordInv, NoLostWakeup, PendingInputs, HasPendingOps
  <2>2. EveryCallSettled' <=> EveryCallSettled
    BY DEF EveryCallSettled, Final, TurnItems, ItemsOf, Owned
  <2>3. \A n : (Tells(n)' <=> Tells(n)) /\ (Answered(n)' <=> Answered(n))
    BY DEF Tells, Answered, Final, TurnItems, ItemsOf
  <2>4. StopsSettle'
    BY <2>2, <2>3 DEF CoordInv, StopsSettle
  <2> QED
    BY <2>1, <2>4
<1> QED
  BY <1>1, <1>2, <1>3, <1>4, <1>5 DEF CoordInv

(* A step that leaves the session and the loop alone; while Run goes on,   *)
(* nothing it waits for is lost.                                           *)
LEMMA AsideOK ==
  ASSUME CoordInv, Alive,
         UNCHANGED <<items, saved, st, model, stop, cancelled, batch, pc, accepted, asks>>,
         InboxOK', ManagerOK', WorkOK'
  PROVE  CoordInv'
<1>1. PcOK' /\ StoreOK' /\ LocalOK'
  BY DEF CoordInv, PcOK, StoreOK, LocalOK
<1>2. HandedOver' /\ LiveOK' /\ TurnOK'
  BY DEF CoordInv, HandedOver, LiveOK, TurnOK, Reconcilable, Alive, CallIsTerminal
<1>3. NoLostWakeup'
  BY DEF CoordInv, NoLostWakeup, PendingInputs, HasPendingOps
<1>4. StopsSettle'
  BY DEF StopsSettle, Alive
<1> QED
  BY <1>1, <1>2, <1>3, <1>4 DEF CoordInv

(* Submit: the inbox drops the IDs it has seen, so what it queues is new.   *)
LEMMA SubmitOK == ASSUME CoordInv, NEW i \in Inputs, Submit(i) PROVE CoordInv'
<1>1. /\ Alive /\ i \notin seen /\ seen' = seen \cup {i} /\ queue' = Append(queue, i)
      /\ UNCHANGED <<items, saved, st, model, stop, cancelled, batch, pc, accepted, asks,
                     running, canceling, updates>>
  BY DEF Submit, storeVars, managerVars, stopVars
<1>2. InboxOK'
  <2>1. RecordedInputIDs' = RecordedInputIDs
    BY <1>1 DEF RecordedInputIDs, ItemsOf
  <2>2. /\ queue \in Seq(Inputs \cup HeartbeatIDs) /\ RecordedInputIDs \subseteq seen
        /\ \A k \in DOMAIN queue : queue[k] \in seen /\ queue[k] \notin RecordedInputIDs
        /\ \A j, k \in DOMAIN queue : queue[j] = queue[k] => j = k
    BY <1>1 DEF CoordInv, InboxOK
  <2>3. /\ queue' \in Seq(Inputs \cup HeartbeatIDs) /\ Len(queue) \in Nat
        /\ DOMAIN queue = 1 .. Len(queue) /\ DOMAIN queue' = 1 .. Len(queue) + 1
        /\ queue'[Len(queue) + 1] = i /\ \A k \in 1 .. Len(queue) : queue'[k] = queue[k]
    BY <1>1, <2>2
  <2>4. \A k \in 1 .. Len(queue) + 1 : k \in 1 .. Len(queue) \/ k = Len(queue) + 1
    BY <2>3
  <2>5. \A k \in DOMAIN queue' : queue'[k] \in seen' /\ queue'[k] \notin RecordedInputIDs
    BY <1>1, <2>2, <2>3, <2>4
  <2>6. \A j, k \in DOMAIN queue' : queue'[j] = queue'[k] => j = k
    BY <1>1, <2>2, <2>3, <2>4
  <2> QED
    BY <1>1, <2>1, <2>2, <2>3, <2>5, <2>6 DEF InboxOK
<1>3. ManagerOK' /\ WorkOK'
  BY <1>1 DEF CoordInv, ManagerOK, WorkOK, Alive, EndIsAnnounced
<1> QED
  BY <1>1, <1>2, <1>3, AsideOK

(* A step that leaves the inbox and the history alone.                      *)
LEMMA QuietInbox ==
  ASSUME CoordInv, Alive, Alive', UNCHANGED <<items, queue, seen>>
  PROVE  InboxOK'
<1>1. RecordedInputIDs' = RecordedInputIDs
  BY DEF RecordedInputIDs, ItemsOf
<1> QED
  BY <1>1 DEF CoordInv, InboxOK

(* A checkpoint is put behind the others.                                  *)
LEMMA CheckpointIs ==
  ASSUME CoordInv, Alive, NEW o \in Ops, NEW status \in {"awaiting", "finished"},
         updates' = Append(updates, [op |-> o, status |-> status])
  PROVE  LET N == Len(updates)
         IN  /\ N \in Nat /\ DOMAIN updates = 1 .. N /\ DOMAIN updates' = 1 .. N + 1
             /\ updates' \in Seq([op : Ops, status : {"awaiting", "finished"}])
             /\ updates'[N + 1].op = o /\ updates'[N + 1].status = status
             /\ \A k \in 1 .. N : updates'[k] = updates[k]
             /\ \A k \in 1 .. N + 1 : k \in 1 .. N \/ k = N + 1
<1> DEFINE u == [op |-> o, status |-> status]
<1>1. updates \in Seq([op : Ops, status : {"awaiting", "finished"}])
  BY DEF CoordInv, WorkOK
<1>2. u \in [op : Ops, status : {"awaiting", "finished"}] /\ u.op = o /\ u.status = status
  OBVIOUS
<1> HIDE DEF u
<1>3. updates' = Append(updates, u)
  BY DEF u
<1> QED
  BY <1>1, <1>2, <1>3

(* A checkpoint of an operation that goes on.                               *)
LEMMA OperationAwaitsOK == ASSUME CoordInv, NEW o \in Ops, OperationAwaits(o) PROVE CoordInv'
<1> DEFINE N == Len(updates)
<1>1. /\ Alive /\ o \in DOMAIN running /\ DOMAIN running' = DOMAIN running
      /\ updates' = Append(updates, [op |-> o, status |-> "awaiting"])
      /\ UNCHANGED <<items, saved, st, model, stop, cancelled, batch, pc, accepted, asks,
                     canceling, queue, seen>>
  BY DEF OperationAwaits, storeVars, inboxVars, stopVars
<1>2. /\ N \in Nat /\ DOMAIN updates = 1 .. N /\ DOMAIN updates' = 1 .. N + 1
      /\ updates' \in Seq([op : Ops, status : {"awaiting", "finished"}])
      /\ updates'[N + 1].op = o /\ updates'[N + 1].status = "awaiting"
      /\ \A k \in 1 .. N : updates'[k] = updates[k]
      /\ \A k \in 1 .. N + 1 : k \in 1 .. N \/ k = N + 1
  BY <1>1, CheckpointIs
<1> HIDE DEF N
<1>3. InboxOK'
  BY <1>1, QuietInbox DEF Alive
<1>4. ManagerOK'
  BY <1>1 DEF CoordInv, ManagerOK
<1>5. WorkOK'
  <2>1. ~Terminal("awaiting")
    BY DEF Terminal
  <2>2. /\ accepted \subseteq DOMAIN saved /\ DOMAIN running \subseteq accepted
        /\ \A k \in 1 .. N : updates[k].op \in accepted /\ ~Terminal(saved[updates[k].op])
        /\ \A k \in 1 .. N : Terminal(updates[k].status) =>
             /\ updates[k].op \notin DOMAIN running
             /\ \A j \in 1 .. N : j > k => updates[j].op # updates[k].op
        /\ \A x \in DOMAIN running : ~Terminal(saved[x])
        /\ \A x \in accepted : Terminal(saved[x]) \/ x \in DOMAIN running \/ EndIsAnnounced(x)
    BY <1>1, <1>2 DEF CoordInv, WorkOK, ManagerOK
  <2>3. \A x : EndIsAnnounced(x) => EndIsAnnounced(x)'
    BY <1>2 DEF EndIsAnnounced
  <2>4. \A k \in 1 .. N + 1 : updates'[k].op \in accepted /\ ~Terminal(saved[updates'[k].op])
    BY <1>1, <1>2, <2>2
  <2>5. \A k \in 1 .. N + 1 : Terminal(updates'[k].status) =>
          /\ updates'[k].op \notin DOMAIN running
          /\ \A j \in 1 .. N + 1 : j > k => updates'[j].op # updates'[k].op
    BY <1>1, <1>2, <2>1, <2>2
  <2> QED
    BY <1>1, <1>2, <2>2, <2>3, <2>4, <2>5 DEF WorkOK
<1> QED
  BY <1>1, <1>3, <1>4, <1>5, AsideOK

(* The checkpoint that ends an operation is its last one.                   *)
LEMMA OperationFinishesOK == ASSUME CoordInv, NEW o \in Ops, OperationFinishes(o) PROVE CoordInv'
<1> DEFINE N == Len(updates)
<1>1. /\ Alive /\ o \in DOMAIN running /\ DOMAIN running' = DOMAIN running \ {o}
      /\ canceling' = canceling \ {o}
      /\ updates' = Append(updates, [op |-> o, status |-> "finished"])
      /\ UNCHANGED <<items, saved, st, model, stop, cancelled, batch, pc, accepted, asks, queue, seen>>
  BY DEF OperationFinishes, Without, storeVars, inboxVars, stopVars
<1>2. /\ N \in Nat /\ DOMAIN updates = 1 .. N /\ DOMAIN updates' = 1 .. N + 1
      /\ updates' \in Seq([op : Ops, status : {"awaiting", "finished"}])
      /\ updates'[N + 1].op = o /\ updates'[N + 1].status = "finished"
      /\ \A k \in 1 .. N : updates'[k] = updates[k]
      /\ \A k \in 1 .. N + 1 : k \in 1 .. N \/ k = N + 1
  BY <1>1, CheckpointIs
<1> HIDE DEF N
<1>3. InboxOK'
  BY <1>1, QuietInbox DEF Alive
<1>4. ManagerOK'
  BY <1>1 DEF CoordInv, ManagerOK
<1>5. WorkOK'
  <2>1. Terminal("finished")
    BY DEF Terminal
  <2>2. /\ accepted \subseteq DOMAIN saved /\ DOMAIN running \subseteq accepted
        /\ \A k \in 1 .. N : updates[k].op \in accepted /\ ~Terminal(saved[updates[k].op])
        /\ \A k \in 1 .. N : Terminal(updates[k].status) =>
             /\ updates[k].op \notin DOMAIN running
             /\ \A j \in 1 .. N : j > k => updates[j].op # updates[k].op
        /\ \A x \in DOMAIN running : ~Terminal(saved[x])
        /\ \A x \in accepted : Terminal(saved[x]) \/ x \in DOMAIN running \/ EndIsAnnounced(x)
    BY <1>1, <1>2 DEF CoordInv, WorkOK, ManagerOK
  <2>3. \A x : EndIsAnnounced(x) => EndIsAnnounced(x)'
    BY <1>2 DEF EndIsAnnounced
  <2>4. EndIsAnnounced(o)'
    BY <1>2, <2>1 DEF EndIsAnnounced
  <2>5. \A k \in 1 .. N + 1 : updates'[k].op \in accepted /\ ~Terminal(saved[updates'[k].op])
    BY <1>1, <1>2, <2>2
  <2>6. \A k \in 1 .. N + 1 : Terminal(updates'[k].status) =>
          /\ updates'[k].op \notin DOMAIN running'
          /\ \A j \in 1 .. N + 1 : j > k => updates'[j].op # updates'[k].op
    BY <1>1, <1>2, <2>2
  <2> QED
    BY <1>1, <1>2, <2>2, <2>3, <2>4, <2>5, <2>6 DEF WorkOK
<1> QED
  BY <1>1, <1>3, <1>4, <1>5, AsideOK

-----------------------------------------------------------------------------
(* Steps of the loop.                                                      *)

(* The places of a running coordinator.                                     *)
LEMMA AliveIs == pc \in LivePCs => Alive
BY DEF Alive, LivePCs, LoopPCs

(* The grace period is no part of what the history says.                   *)
SameBut(s, r) ==
  \A f \in {"turn", "type", "calls", "available", "delivered", "turnInputs"} : r[f] = s[f]

(* A state that differs in its operations and its grace period reflects     *)
(* the same history.                                                        *)
LEMMA ReflectsSame ==
  ASSUME NEW h, NEW n, NEW s, Reflects(h, n, s), NEW r, SameBut(s, r)
  PROVE  Reflects(h, n, r)
<1>1. /\ r.turn = s.turn /\ r.type = s.type /\ r.calls = s.calls /\ r.available = s.available
      /\ r.delivered = s.delivered /\ r.turnInputs = s.turnInputs
  BY DEF SameBut
<1> QED
  BY <1>1 DEF Reflects, TurnIs, CountsAre

(* Ending the grace period keeps what the state says of the history.        *)
LEMMA ClearedIs ==
  ASSUME NEW s \in LoopState
  PROVE  /\ ClearToolGrace(s) \in LoopState /\ GraceOK(ClearToolGrace(s))
         /\ SameBut(s, ClearToolGrace(s)) /\ ClearToolGrace(s).ops = s.ops
         /\ ClearToolGrace(s).calls = s.calls
<1>1. LET r == ClearToolGrace(s)
      IN  /\ r \in LoopState /\ r.graceCalls = {} /\ r.grace = FALSE
          /\ \A f \in {"turn", "type", "calls", "ops", "available", "delivered", "turnInputs"} : r[f] = s[f]
  BY ClearToolGraceIs
<1> QED
  BY <1>1 DEF GraceOK, SameBut

(* A step that leaves the work of the manager alone.                        *)
LEMMA QuietWork ==
  ASSUME CoordInv, Alive, UNCHANGED <<accepted, updates, saved>>, DOMAIN running' = DOMAIN running
  PROVE  WorkOK'
<1>1. \A o : EndIsAnnounced(o)' <=> EndIsAnnounced(o)
  BY DEF EndIsAnnounced
<1> QED
  BY <1>1 DEF CoordInv, WorkOK

(* The local state after a step of the loop.                               *)
LEMMA LocalIs ==
  ASSUME StoreOK', st' \in LoopState, GraceOK(st'), Reflects(items', Len(items'), st')
  PROVE  LocalOK'
<1>1. Len(items') \in Nat
  BY DEF StoreOK, HistoryOK
<1> QED
  BY <1>1, LocalFacts DEF LocalOK

(* restore rebuilds a state that reflects the history and knows what the    *)
(* store knows.                                                             *)
LEMMA LoadHistoryOK == CoordInv /\ LoadHistory => CoordInv'
<1> SUFFICES ASSUME CoordInv, LoadHistory PROVE CoordInv'
  OBVIOUS
<1>1. /\ pc = "restore" /\ pc' = "startup" /\ st' = Restore
      /\ UNCHANGED <<items, saved, queue, seen, accepted, running, canceling, updates, asks,
                     model, stop, cancelled, batch>>
  BY DEF LoadHistory, storeVars, inboxVars, managerVars, stopVars
<1>2. Alive /\ Alive'
  BY <1>1 DEF Alive
<1>3. StoreOK'
  BY <1>1 DEF CoordInv, StoreOK
<1>4. /\ Restore \in LoopState /\ Reflects(items, Len(items), Restore)
      /\ Restore.ops = saved /\ GraceOK(Restore)
  BY RestoreIs DEF CoordInv, StoreOK
<1>5. LocalOK'
  <2>1. st' \in LoopState /\ GraceOK(st') /\ Reflects(items', Len(items'), st')
    BY <1>1, <1>4
  <2> QED
    BY <1>3, <2>1, LocalIs
<1>6. LiveOK'
  BY <1>1, <1>4 DEF LiveOK, LivePCs, LoopPCs
<1>7. InboxOK'
  BY <1>1, <1>2, QuietInbox
<1>8. WorkOK'
  BY <1>1, <1>2, QuietWork
<1>9. PcOK' /\ ManagerOK' /\ HandedOver' /\ NoLostWakeup' /\ StopsSettle'
  BY <1>1 DEF CoordInv, PcOK, ManagerOK, HandedOver, NoLostWakeup, StopsSettle, LivePCs, LoopPCs
<1>10. TurnOK'
  BY <1>1, <1>2 DEF CoordInv, TurnOK
<1> QED
  BY <1>3, <1>5, <1>6, <1>7, <1>8, <1>9, <1>10 DEF CoordInv

(* The loop goes on to its next part, or is woken up.                      *)
LEMMA MoveOK ==
  ASSUME CoordInv, pc \in LoopPCs \ {"reconcile"}, pc' \in {"inputs", "updates", "reconcile"},
         UNCHANGED <<items, saved, accepted, running, canceling, updates, model, stop, cancelled, batch>>,
         asks' \subseteq asks, InboxOK',
         st' \in LoopState, GraceOK(st'), SameBut(st, st'), st'.ops = st.ops
  PROVE  CoordInv'
<1>1. Alive /\ pc \in LivePCs
  BY DEF Alive, LivePCs, LoopPCs
<1>2. StoreOK'
  BY DEF CoordInv, StoreOK
<1>3. Reflects(items', Len(items'), st') /\ st'.calls = st.calls
  BY <1>1, ReflectsSame DEF CoordInv, LiveOK, SameBut
<1>4. LocalOK'
  BY <1>2, <1>3, LocalIs
<1>5. LiveOK'
  BY <1>1, <1>3 DEF CoordInv, LiveOK, LivePCs, LoopPCs
<1>6. WorkOK'
  BY <1>1, QuietWork
<1>7. PcOK' /\ ManagerOK' /\ NoLostWakeup' /\ StopsSettle'
  BY DEF CoordInv, PcOK, ManagerOK, NoLostWakeup, StopsSettle, LivePCs, LoopPCs
<1>8. HandedOver'
  BY DEF CoordInv, HandedOver, LivePCs, LoopPCs
<1>9. TurnOK'
  BY <1>1 DEF CoordInv, TurnOK, Alive
<1> QED
  BY <1>2, <1>4, <1>5, <1>6, <1>7, <1>8, <1>9 DEF CoordInv

(* A state says the same as itself.                                         *)
LEMMA SameSame == SameBut(st, st)
BY DEF SameBut

(* A channel is drained and the loop goes on.                               *)
LEMMA IdleOK == CoordInv /\ (InputsIdle \/ UpdatesIdle) => CoordInv'
<1> SUFFICES ASSUME CoordInv, InputsIdle \/ UpdatesIdle PROVE CoordInv'
  OBVIOUS
<1>1. /\ pc \in LoopPCs \ {"reconcile"} /\ pc' \in {"updates", "reconcile"}
      /\ UNCHANGED <<items, saved, queue, seen, accepted, running, canceling, updates, asks,
                     model, stop, cancelled, batch, st>>
  BY DEF InputsIdle, UpdatesIdle, storeVars, inboxVars, managerVars, stopVars, LoopPCs
<1>2. InboxOK'
  <2>1. Alive /\ Alive'
    BY <1>1 DEF Alive, LoopPCs
  <2> QED
    BY <1>1, <2>1, QuietInbox
<1>3. st' \in LoopState /\ GraceOK(st') /\ SameBut(st, st') /\ st'.ops = st.ops
  BY <1>1, SameSame DEF CoordInv, LocalOK
<1> QED
  BY <1>1, <1>2, <1>3, MoveOK

(* The grace timer fires.                                                   *)
LEMMA GraceExpiresOK == CoordInv /\ GraceExpires => CoordInv'
<1> SUFFICES ASSUME CoordInv, GraceExpires PROVE CoordInv'
  OBVIOUS
<1>1. /\ pc = "select" /\ pc' = "inputs" /\ st' = ClearToolGrace(st)
      /\ UNCHANGED <<items, saved, queue, seen, accepted, running, canceling, updates, asks,
                     model, stop, cancelled, batch>>
  BY DEF GraceExpires, storeVars, inboxVars, managerVars, stopVars
<1>2. InboxOK'
  <2>1. Alive /\ Alive'
    BY <1>1 DEF Alive
  <2> QED
    BY <1>1, <2>1, QuietInbox
<1>3. st' \in LoopState /\ GraceOK(st') /\ SameBut(st, st') /\ st'.ops = st.ops
  BY <1>1, ClearedIs DEF CoordInv, LocalOK
<1>4. pc \in LoopPCs \ {"reconcile"} /\ pc' \in {"inputs", "updates", "reconcile"}
  BY <1>1 DEF LoopPCs
<1> QED
  BY <1>1, <1>2, <1>3, <1>4, MoveOK

(* A late answer is dropped.                                                *)
LEMMA DropResponseOK == ASSUME CoordInv, NEW t, DropResponse(t) PROVE CoordInv'
<1>1. /\ pc = "select" /\ pc' = "inputs" /\ asks' \subseteq asks
      /\ UNCHANGED <<items, saved, queue, seen, accepted, running, canceling, updates,
                     model, stop, cancelled, batch, st>>
  BY DEF DropResponse, storeVars, inboxVars, managerVars, stopVars
<1>2. InboxOK'
  <2>1. Alive /\ Alive'
    BY <1>1 DEF Alive
  <2> QED
    BY <1>1, <2>1, QuietInbox
<1>3. st' \in LoopState /\ GraceOK(st') /\ SameBut(st, st') /\ st'.ops = st.ops
  BY <1>1, SameSame DEF CoordInv, LocalOK
<1>4. pc \in LoopPCs \ {"reconcile"} /\ pc' \in {"inputs", "updates", "reconcile"}
  BY <1>1 DEF LoopPCs
<1> QED
  BY <1>1, <1>2, <1>3, <1>4, MoveOK

(* An input goes to the end of the inbox.                                  *)
LEMMA QueuedOK ==
  ASSUME CoordInv, Alive, Alive', NEW i \in Inputs \cup HeartbeatIDs,
         i \notin seen, i \notin RecordedInputIDs,
         seen' = seen \cup {i}, queue' = Append(queue, i), UNCHANGED items
  PROVE  InboxOK'
<1>1. RecordedInputIDs' = RecordedInputIDs
  BY DEF RecordedInputIDs, ItemsOf
<1>2. /\ queue \in Seq(Inputs \cup HeartbeatIDs) /\ RecordedInputIDs \subseteq seen
      /\ \A k \in DOMAIN queue : queue[k] \in seen /\ queue[k] \notin RecordedInputIDs
      /\ \A j, k \in DOMAIN queue : queue[j] = queue[k] => j = k
  BY DEF CoordInv, InboxOK
<1>3. /\ queue' \in Seq(Inputs \cup HeartbeatIDs) /\ Len(queue) \in Nat
      /\ DOMAIN queue = 1 .. Len(queue) /\ DOMAIN queue' = 1 .. Len(queue) + 1
      /\ queue'[Len(queue) + 1] = i /\ \A k \in 1 .. Len(queue) : queue'[k] = queue[k]
  BY <1>2
<1>4. \A k \in 1 .. Len(queue) + 1 : k \in 1 .. Len(queue) \/ k = Len(queue) + 1
  BY <1>3
<1>5. \A k \in DOMAIN queue' : queue'[k] \in seen' /\ queue'[k] \notin RecordedInputIDs
  BY <1>2, <1>3, <1>4
<1>6. \A j, k \in DOMAIN queue' : queue'[j] = queue'[k] => j = k
  BY <1>2, <1>3, <1>4
<1> QED
  BY <1>1, <1>2, <1>3, <1>5, <1>6 DEF InboxOK

(* The heartbeat timer fires: the coordinator submits a message with a      *)
(* fresh ID.                                                                *)
LEMMA PostHeartbeatOK == CoordInv /\ PostHeartbeat => CoordInv'
<1> SUFFICES ASSUME CoordInv, PostHeartbeat PROVE CoordInv'
  OBVIOUS
<1>1. /\ pc = "select" /\ pc' = "inputs"
      /\ UNCHANGED <<items, saved, accepted, running, canceling, updates, asks,
                     model, stop, cancelled, batch, st>>
  BY DEF PostHeartbeat, storeVars, managerVars, stopVars
<1>2. PICK i \in HeartbeatIDs \ (seen \cup RecordedInputIDs) :
             seen' = seen \cup {i} /\ queue' = Append(queue, i)
  BY DEF PostHeartbeat
<1>3. InboxOK'
  <2>1. Alive /\ Alive'
    BY <1>1 DEF Alive
  <2> QED
    BY <1>1, <1>2, <2>1, QueuedOK
<1>4. st' \in LoopState /\ GraceOK(st') /\ SameBut(st, st') /\ st'.ops = st.ops
  BY <1>1, SameSame DEF CoordInv, LocalOK
<1>5. pc \in LoopPCs \ {"reconcile"} /\ pc' \in {"inputs", "updates", "reconcile"}
  BY <1>1 DEF LoopPCs
<1> QED
  BY <1>1, <1>3, <1>4, <1>5, MoveOK

(* A queue without its first entry.                                        *)
LEMMA TailIs ==
  ASSUME NEW S, NEW q \in Seq(S), q # <<>>
  PROVE  /\ 1 \in DOMAIN q /\ Head(q) = q[1] /\ Head(q) \in S /\ Tail(q) \in Seq(S)
         /\ \A k \in DOMAIN Tail(q) : /\ k \in Nat /\ k + 1 \in DOMAIN q /\ k + 1 > 1
                                      /\ Tail(q)[k] = q[k + 1]
         /\ \A k \in DOMAIN q : k \in Nat /\ (k # 1 => k - 1 \in DOMAIN Tail(q) /\ (k - 1) + 1 = k)
<1>1. /\ Len(q) \in Nat /\ Len(q) # 0 /\ DOMAIN q = 1 .. Len(q)
      /\ Tail(q) \in Seq(S) /\ Len(Tail(q)) = Len(q) - 1 /\ DOMAIN Tail(q) = 1 .. Len(q) - 1
      /\ Head(q) = q[1]
  OBVIOUS
<1>2. 1 \in DOMAIN q /\ q[1] \in S
  BY <1>1
<1>3. ASSUME NEW k \in DOMAIN Tail(q)
      PROVE  k \in Nat /\ k + 1 \in DOMAIN q /\ k + 1 > 1 /\ Tail(q)[k] = q[k + 1]
  BY <1>1
<1>4. ASSUME NEW k \in DOMAIN q
      PROVE  k \in Nat /\ (k # 1 => k - 1 \in DOMAIN Tail(q) /\ (k - 1) + 1 = k)
  BY <1>1
<1> QED
  BY <1>1, <1>2, <1>3, <1>4

(* handleInboxInput: the input is recorded and its ID leaves the inbox,     *)
(* which holds it once.                                                     *)
LEMMA HandleInputOK == CoordInv /\ HandleInput => CoordInv'
<1> SUFFICES ASSUME CoordInv, HandleInput PROVE CoordInv'
  OBVIOUS
<1> DEFINE i == Head(queue)
           item == InputItem(i)
           s == AddItem(st, item)
<1>1. /\ pc \in {"inputs", "select"} /\ queue # <<>> /\ queue' = Tail(queue)
      /\ Store(item, 0, "inputs")
      /\ st' = s \/ st' = ClearToolGrace(s)
      /\ stop' = stop \/ (stop # "hard" /\ stop' \in {"hard", "when_idle"})
      /\ UNCHANGED <<seen, accepted, running, canceling, updates, asks, model, cancelled, batch>>
  BY DEF HandleInput, managerVars, AcceptStop
<1>2. pc \in LivePCs /\ Alive /\ pc \in LoopPCs
  BY <1>1 DEF Alive, LivePCs, LoopPCs
<1>3. StoreTakes(item, 0)
  BY <1>1, <1>2, TakesInput
<1>4. item.kind = "input" /\ item.id = i
  BY DEF InputItem
<1>5. s.calls = st.calls
  <2>1. s = AddInput(st, i)
    BY <1>4 DEF AddItem
  <2>2. st \in LoopState
    BY DEF CoordInv, LocalOK
  <2> HIDE DEF s
  <2> QED
    BY <2>1, <2>2, AddInputIs
<1> HIDE DEF item, s, i
<1>6. /\ items' = Append(items, item) /\ pc' = "inputs" /\ StoreOK' /\ saved' = saved
      /\ s \in LoopState /\ Reflects(items', Len(items'), s) /\ s.ops = saved' /\ GraceOK(s)
      /\ RecordedInputIDs' = RecordedInputIDs \cup {i}
  BY <1>1, <1>2, <1>3, <1>4, Stored DEF s
<1>7. /\ st' \in LoopState /\ Reflects(items', Len(items'), st') /\ st'.ops = saved'
      /\ GraceOK(st') /\ st'.calls = st.calls
  BY <1>1, <1>5, <1>6, ClearedIs, ReflectsSame
<1>8. LocalOK'
  BY <1>6, <1>7, LocalIs
<1>9. LiveOK'
  BY <1>2, <1>6, <1>7 DEF CoordInv, LiveOK, LoopPCs, LivePCs
<1>10. InboxOK'
  <2>1. /\ queue \in Seq(Inputs \cup HeartbeatIDs) /\ RecordedInputIDs \subseteq seen
        /\ \A k \in DOMAIN queue : queue[k] \in seen /\ queue[k] \notin RecordedInputIDs
        /\ \A j, k \in DOMAIN queue : queue[j] = queue[k] => j = k
    BY <1>2 DEF CoordInv, InboxOK
  <2>2. /\ queue' \in Seq(Inputs \cup HeartbeatIDs) /\ 1 \in DOMAIN queue /\ i = queue[1]
        /\ \A k \in DOMAIN queue' : k + 1 \in DOMAIN queue /\ k + 1 # 1 /\ queue'[k] = queue[k + 1]
        /\ \A k \in DOMAIN queue' : k \in Nat
    BY <1>1, <2>1 DEF i
  <2>3. \A k \in DOMAIN queue' : queue'[k] # i
    BY <2>1, <2>2
  <2>4. \A j, k \in DOMAIN queue' : queue'[j] = queue'[k] => j = k
    <3> SUFFICES ASSUME NEW j \in DOMAIN queue', NEW k \in DOMAIN queue', queue'[j] = queue'[k]
                 PROVE  j = k
      OBVIOUS
    <3>1. j + 1 = k + 1 /\ j \in Nat /\ k \in Nat
      BY <2>1, <2>2
    <3> QED
      BY <3>1
  <2> QED
    BY <1>1, <1>6, <2>1, <2>2, <2>3, <2>4 DEF InboxOK
<1>11. WorkOK'
  BY <1>1, <1>2, <1>6, QuietWork
<1>12. PcOK' /\ ManagerOK' /\ NoLostWakeup' /\ StopsSettle'
  BY <1>1, <1>6 DEF CoordInv, PcOK, ManagerOK, NoLostWakeup, StopsSettle, LivePCs, LoopPCs
<1>13. HandedOver'
  BY <1>1, <1>2, <1>6 DEF CoordInv, HandedOver, LoopPCs
<1>14. TurnOK'
  <2>1. model => Awaited(items')
    <3>1. model => Awaited(items)
      BY <1>2 DEF CoordInv, TurnOK
    <3>2. HistoryOK(items) /\ Fits(items, item)
      BY <1>3 DEF CoordInv, StoreOK, StoreTakes
    <3> QED
      BY <1>4, <1>6, <3>1, <3>2, AppendAwaited
  <2> QED
    BY <1>1, <1>2, <1>6, <2>1 DEF CoordInv, TurnOK
<1> QED
  BY <1>6, <1>8, <1>9, <1>10, <1>11, <1>12, <1>13, <1>14 DEF CoordInv

(* handleOperationUpdate: the store and the local state take the            *)
(* checkpoint; an operation that has ended gets no further one.             *)
LEMMA HandleUpdateOK == CoordInv /\ HandleUpdate => CoordInv'
<1> SUFFICES ASSUME CoordInv, HandleUpdate PROVE CoordInv'
  OBVIOUS
<1> DEFINE u == Head(updates)
<1>1. /\ pc \in {"updates", "select"} /\ updates # <<>> /\ updates' = Tail(updates)
      /\ st' = [st EXCEPT !.ops = Over([o \in {u.op} |-> u.status], @)]
      /\ saved' = [saved EXCEPT ![u.op] = u.status]
      /\ u.op \in DOMAIN saved => pc' \in {"inputs", "updates"}
      /\ UNCHANGED <<items, queue, seen, accepted, running, canceling, asks, model, stop, cancelled, batch>>
  BY DEF HandleUpdate, inboxVars, stopVars
<1>2. pc \in LivePCs /\ Alive /\ pc \in LoopPCs
  BY <1>1 DEF Alive, LivePCs, LoopPCs
<1>3. /\ updates \in Seq([op : Ops, status : {"awaiting", "finished"}])
      /\ accepted \subseteq DOMAIN saved
      /\ \A k \in DOMAIN updates : updates[k].op \in accepted /\ ~Terminal(saved[updates[k].op])
      /\ \A k \in DOMAIN updates : Terminal(updates[k].status) =>
           /\ updates[k].op \notin DOMAIN running
           /\ \A j \in DOMAIN updates : j > k => updates[j].op # updates[k].op
      /\ \A o \in DOMAIN running : ~Terminal(saved[o])
      /\ \A o \in accepted : Terminal(saved[o]) \/ o \in DOMAIN running \/ EndIsAnnounced(o)
  BY <1>2 DEF CoordInv, WorkOK
<1>4. /\ 1 \in DOMAIN updates /\ u = updates[1] /\ u.op \in Ops /\ u.status \in {"awaiting", "finished"}
      /\ updates' \in Seq([op : Ops, status : {"awaiting", "finished"}])
      /\ \A k \in DOMAIN updates' : /\ k \in Nat /\ k + 1 \in DOMAIN updates /\ k + 1 > 1
                                    /\ updates'[k] = updates[k + 1]
      /\ \A k \in DOMAIN updates : k \in Nat /\ (k # 1 => k - 1 \in DOMAIN updates' /\ (k - 1) + 1 = k)
  <2> DEFINE S == [op : Ops, status : {"awaiting", "finished"}]
  <2>1. \A x \in S : x.op \in Ops /\ x.status \in {"awaiting", "finished"}
    OBVIOUS
  <2>2. updates \in Seq(S)
    BY <1>3
  <2> HIDE DEF S
  <2>3. /\ 1 \in DOMAIN updates /\ u = updates[1] /\ u \in S /\ updates' \in Seq(S)
        /\ \A k \in DOMAIN updates' : /\ k \in Nat /\ k + 1 \in DOMAIN updates /\ k + 1 > 1
                                      /\ updates'[k] = updates[k + 1]
        /\ \A k \in DOMAIN updates : k \in Nat /\ (k # 1 => k - 1 \in DOMAIN updates' /\ (k - 1) + 1 = k)
    BY <1>1, <2>2, TailIs
  <2> QED
    BY <2>1, <2>3 DEF S
<1>5. u.op \in accepted /\ ~Terminal(saved[u.op])
  BY <1>3, <1>4
<1> HIDE DEF u
<1>6. saved \in [DOMAIN saved -> Statuses] /\ DOMAIN saved \subseteq Ops
  BY MapsAre DEF CoordInv, StoreOK, SavedOK
<1>7. /\ DOMAIN saved' = DOMAIN saved /\ saved'[u.op] = u.status
      /\ \A o \in DOMAIN saved : o # u.op => saved'[o] = saved[o]
      /\ saved' \in StatusMaps
  <2>1. /\ DOMAIN saved' = DOMAIN saved /\ saved'[u.op] = u.status
        /\ \A o \in DOMAIN saved : o # u.op => saved'[o] = saved[o]
        /\ saved' \in [DOMAIN saved' -> Statuses]
    BY <1>1, <1>3, <1>4, <1>5, <1>6 DEF Statuses
  <2> QED
    BY <1>6, <2>1, MapsAre
<1>8. StoreOK'
  BY <1>1, <1>7 DEF CoordInv, StoreOK, SavedOK
<1>9. /\ st' \in LoopState /\ st'.ops = saved' /\ SameBut(st, st')
      /\ st'.graceCalls = st.graceCalls /\ st'.grace = st.grace /\ st'.calls = st.calls
  <2> DEFINE f == Over([o \in {u.op} |-> u.status], st.ops)
  <2>1. st.ops = saved /\ st \in LoopState
    BY <1>2 DEF CoordInv, LiveOK, LocalOK
  <2>2. f = saved'
    <3>1. f = [o \in DOMAIN saved |-> IF o = u.op THEN u.status ELSE saved[o]]
      BY <1>3, <1>5, <2>1 DEF Over
    <3>2. saved' = [o \in DOMAIN saved |-> IF o = u.op THEN u.status ELSE saved[o]]
      BY <1>1, <1>6
    <3> QED
      BY <3>1, <3>2
  <2>3. st' = [st EXCEPT !.ops = saved']
    BY <1>1, <2>2
  <2> QED
    BY <1>7, <2>1, <2>3 DEF LoopState, SameBut
<1>10. Reflects(items', Len(items'), st') /\ GraceOK(st')
  BY <1>1, <1>2, <1>9, ReflectsSame DEF CoordInv, LiveOK, LocalOK, GraceOK
<1>11. LocalOK'
  BY <1>8, <1>9, <1>10, LocalIs
<1>12. pc' \in {"inputs", "updates"}
  BY <1>1, <1>3, <1>5
<1>13. LiveOK'
  BY <1>2, <1>9, <1>10, <1>12 DEF CoordInv, LiveOK, LoopPCs, LivePCs
<1>14. InboxOK'
  <2>1. Alive'
    BY <1>12 DEF Alive
  <2> QED
    BY <1>1, <1>2, <2>1, QuietInbox
<1>15. WorkOK'
  <2>1. \A k \in DOMAIN updates' : updates'[k].op \in accepted /\ ~Terminal(saved'[updates'[k].op])
    <3> SUFFICES ASSUME NEW k \in DOMAIN updates'
                 PROVE  updates'[k].op \in accepted /\ ~Terminal(saved'[updates'[k].op])
      OBVIOUS
    <3>1. updates'[k] = updates[k + 1] /\ k + 1 \in DOMAIN updates /\ k + 1 > 1
      BY <1>4
    <3>2. CASE updates'[k].op = u.op
      <4>1. ~Terminal(u.status)
        BY <1>3, <1>4, <3>1, <3>2
      <4> QED
        BY <1>5, <1>7, <3>2, <4>1
    <3>3. CASE updates'[k].op # u.op
      BY <1>3, <1>7, <3>1, <3>3
    <3> QED
      BY <3>2, <3>3
  <2>2. \A k \in DOMAIN updates' : Terminal(updates'[k].status) =>
          /\ updates'[k].op \notin DOMAIN running
          /\ \A j \in DOMAIN updates' : j > k => updates'[j].op # updates'[k].op
    <3> SUFFICES ASSUME NEW k \in DOMAIN updates', Terminal(updates'[k].status)
                 PROVE  /\ updates'[k].op \notin DOMAIN running
                        /\ \A j \in DOMAIN updates' : j > k => updates'[j].op # updates'[k].op
      OBVIOUS
    <3>1. updates'[k] = updates[k + 1] /\ k + 1 \in DOMAIN updates /\ k \in Nat
      BY <1>4
    <3>2. \A j \in DOMAIN updates' : /\ j \in Nat /\ updates'[j] = updates[j + 1] /\ j + 1 \in DOMAIN updates
                                     /\ (j > k => j + 1 > k + 1)
      BY <1>4, <3>1
    <3> QED
      BY <1>3, <3>1, <3>2
  <2>3. \A o \in DOMAIN running : ~Terminal(saved'[o])
    <3>1. DOMAIN running \subseteq DOMAIN saved
      BY <1>3 DEF CoordInv, ManagerOK
    <3>2. u.op \in DOMAIN running => ~Terminal(u.status)
      BY <1>3, <1>4
    <3> QED
      BY <1>3, <1>7, <3>1, <3>2
  <2>4. \A o \in accepted : Terminal(saved'[o]) \/ o \in DOMAIN running \/ EndIsAnnounced(o)'
    <3> SUFFICES ASSUME NEW o \in accepted, o \notin DOMAIN running
                 PROVE  Terminal(saved'[o]) \/ EndIsAnnounced(o)'
      OBVIOUS
    <3>1. CASE Terminal(saved[o])
      BY <1>3, <1>5, <1>7, <3>1
    <3>2. CASE EndIsAnnounced(o)
      <4>1. PICK k \in DOMAIN updates : updates[k].op = o /\ Terminal(updates[k].status)
        BY <3>2 DEF EndIsAnnounced
      <4>2. CASE k = 1
        BY <1>4, <1>7, <4>1, <4>2
      <4>3. CASE k # 1
        <5>1. k - 1 \in DOMAIN updates' /\ (k - 1) + 1 = k
          BY <1>4, <4>3
        <5>2. updates'[k - 1] = updates[k]
          BY <1>4, <5>1
        <5> QED
          BY <4>1, <5>1, <5>2 DEF EndIsAnnounced
      <4> QED
        BY <4>2, <4>3
    <3> QED
      BY <1>3, <3>1, <3>2
  <2> QED
    BY <1>1, <1>3, <1>4, <1>7, <2>1, <2>2, <2>3, <2>4 DEF WorkOK
<1>16. PcOK' /\ ManagerOK' /\ NoLostWakeup' /\ StopsSettle'
  BY <1>1, <1>12 DEF CoordInv, PcOK, ManagerOK, NoLostWakeup, StopsSettle, LivePCs, LoopPCs
<1>17. HandedOver'
  <2>1. \A o \in DOMAIN saved' : Terminal(saved'[o]) \/ o \in accepted
    BY <1>2, <1>5, <1>7 DEF CoordInv, HandedOver
  <2> QED
    BY <1>1, <1>12, <2>1 DEF CoordInv, HandedOver
<1>18. TurnOK'
  BY <1>1, <1>2, <1>12 DEF CoordInv, TurnOK
<1> QED
  BY <1>8, <1>11, <1>13, <1>14, <1>15, <1>16, <1>17, <1>18 DEF CoordInv

(* reconcileToolCalls: the final status of a call whose operations have     *)
(* ended.                                                                   *)
LEMMA ReconcileToolCallOK == ASSUME CoordInv, NEW key, ReconcileToolCall(key) PROVE CoordInv'
<1> DEFINE f == [o \in st.calls[key].ops |-> st.ops[o]]
           item == StatusItem(key, f)
           s == AddItem(st, item)
<1>1. pc = "reconcile" /\ key \in Reconcilable /\ key \in DOMAIN st.calls
  BY DEF ReconcileToolCall, Reconcilable
<1>2. pc \in LivePCs /\ Alive /\ pc \in LoopPCs
  BY <1>1 DEF Alive, LivePCs, LoopPCs
<1>3. st.calls[key].scheduled
  BY <1>1, <1>2 DEF CoordInv, LiveOK
<1>4. /\ Store(item, 0, "reconcile") /\ st' = s
      /\ UNCHANGED <<queue, seen, accepted, running, canceling, updates, asks, model, stop, cancelled>>
  BY <1>3 DEF ReconcileToolCall, inboxVars, managerVars, stopVars
<1>5. StoreTakes(item, 0) /\ Over(item.ops, saved) = saved /\ item.kind = "status"
  BY <1>1, <1>2, <1>3, TakesReconcile
<1>6. \A k \in DOMAIN s.calls : s.calls[k].scheduled
  <2> DEFINE w == item.waitingFor
             g == item.ops
  <2>1. item \in Item
    BY <1>5 DEF StoreTakes, Fits
  <2>2. key \in Keys /\ w \in SUBSET Ops /\ g \in StatusMaps /\ item.key = key
    BY <1>5, <2>1, KindsAre DEF StatusItem
  <2>3. s = AddStatus(st, key, w, g)
    BY <1>5, <2>2 DEF AddItem
  <2>4. st \in LoopState /\ \A k \in DOMAIN st.calls : st.calls[k].scheduled
    BY <1>2 DEF CoordInv, LocalOK, LiveOK
  <2> HIDE DEF w, g, s
  <2>5. StatusAdded(st, key, w, g, s)
    BY <2>2, <2>3, <2>4, AddStatusIs
  <2>6. CASE Ends(st, key, w, g)
    BY <1>1, <2>4, <2>5, <2>6 DEF StatusAdded, Without
  <2>7. CASE ~Ends(st, key, w, g)
    BY <1>1, <2>4, <2>5, <2>7 DEF StatusAdded
  <2> QED
    BY <2>6, <2>7
<1> HIDE DEF item, s
<1>7. /\ items' = Append(items, item) /\ pc' = "reconcile" /\ StoreOK' /\ saved' = saved
      /\ s \in LoopState /\ Reflects(items', Len(items'), s) /\ s.ops = saved' /\ GraceOK(s)
      /\ RecordedInputIDs' = RecordedInputIDs
  BY <1>2, <1>4, <1>5, Stored DEF s
<1>8. LocalOK'
  BY <1>4, <1>7, LocalIs
<1>9. LiveOK'
  BY <1>4, <1>6, <1>7 DEF LiveOK, LoopPCs, LivePCs
<1>10. InboxOK'
  BY <1>2, <1>4, <1>7 DEF CoordInv, InboxOK
<1>11. WorkOK'
  BY <1>2, <1>4, <1>7, QuietWork
<1>12. PcOK' /\ ManagerOK' /\ NoLostWakeup' /\ StopsSettle'
  BY <1>4, <1>7 DEF CoordInv, PcOK, ManagerOK, NoLostWakeup, StopsSettle, LivePCs, LoopPCs
<1>13. HandedOver'
  BY <1>2, <1>4, <1>7 DEF CoordInv, HandedOver, LoopPCs
<1>14. TurnOK'
  <2>1. model => Awaited(items')
    <3>1. model => Awaited(items)
      BY <1>2 DEF CoordInv, TurnOK
    <3>2. HistoryOK(items) /\ Fits(items, item)
      BY <1>5 DEF CoordInv, StoreOK, StoreTakes
    <3> QED
      BY <1>5, <1>7, <3>1, <3>2, AppendAwaited
  <2> QED
    BY <1>2, <1>4, <1>7, <2>1 DEF CoordInv, TurnOK
<1> QED
  BY <1>7, <1>8, <1>9, <1>10, <1>11, <1>12, <1>13, <1>14 DEF CoordInv

(* The siblings of completed calls get a grace period; no call is left to   *)
(* reconcile.                                                               *)
LEMMA ReconcileDoneOK == CoordInv /\ ReconcileDone => CoordInv'
<1> SUFFICES ASSUME CoordInv, ReconcileDone PROVE CoordInv'
  OBVIOUS
<1> DEFINE siblings == {key \in DOMAIN st.calls : \E done \in batch : done[1] = key[1]}
           g == st.grace \/ siblings # {}
<1>1. /\ pc = "reconcile" /\ Reconcilable = {} /\ pc' = "decide" /\ batch' = {}
      /\ st' = [st EXCEPT !.graceCalls = st.graceCalls \cup siblings, !.grace = g]
      /\ UNCHANGED <<items, saved, queue, seen, accepted, running, canceling, updates, asks, model, stop, cancelled>>
  BY DEF ReconcileDone, storeVars, inboxVars, managerVars, stopVars
<1>2. pc \in LivePCs /\ Alive /\ pc \in LoopPCs /\ Alive'
  BY <1>1 DEF Alive, LivePCs, LoopPCs
<1>3. siblings \subseteq DOMAIN st.calls /\ g \in BOOLEAN /\ (g <=> st.grace \/ siblings # {})
  OBVIOUS
<1> HIDE DEF siblings, g
<1>4. st \in LoopState /\ GraceOK(st) /\ DOMAIN st.calls \subseteq Keys
  <2>1. st \in LoopState /\ GraceOK(st)
    BY DEF CoordInv, LocalOK
  <2>2. st.calls \in CallMaps
    BY <2>1 DEF LoopState
  <2> QED
    BY <2>1, <2>2, MapsAre
<1>5. /\ st' \in LoopState /\ SameBut(st, st') /\ st'.ops = st.ops /\ st'.calls = st.calls
      /\ st'.graceCalls = st.graceCalls \cup siblings /\ st'.grace = g
  BY <1>1, <1>3, <1>4 DEF LoopState, SameBut
<1>6. GraceOK(st')
  BY <1>3, <1>4, <1>5 DEF GraceOK
<1>7. Reflects(items', Len(items'), st')
  BY <1>1, <1>2, <1>5, ReflectsSame DEF CoordInv, LiveOK
<1>8. StoreOK'
  BY <1>1 DEF CoordInv, StoreOK
<1>9. LocalOK'
  BY <1>5, <1>6, <1>7, <1>8, LocalIs
<1>10. LiveOK'
  <2>1. Reconcilable' = {}
    BY <1>1, <1>5 DEF Reconcilable, CallIsTerminal
  <2> QED
    BY <1>1, <1>2, <1>5, <1>7, <2>1 DEF CoordInv, LiveOK, LoopPCs, LivePCs
<1>11. InboxOK'
  BY <1>1, <1>2, QuietInbox
<1>12. WorkOK'
  BY <1>1, <1>2, QuietWork
<1>13. PcOK' /\ ManagerOK' /\ NoLostWakeup' /\ StopsSettle'
  BY <1>1 DEF CoordInv, PcOK, ManagerOK, NoLostWakeup, StopsSettle, LivePCs, LoopPCs
<1>14. HandedOver'
  BY <1>1, <1>2 DEF CoordInv, HandedOver, LoopPCs
<1>15. TurnOK'
  BY <1>1, <1>2 DEF CoordInv, TurnOK
<1> QED
  BY <1>8, <1>9, <1>10, <1>11, <1>12, <1>13, <1>14, <1>15 DEF CoordInv

-----------------------------------------------------------------------------
(* Decisions of the loop.                                                  *)

(* What the history tells and has answered, as the counts see it.          *)
LEMMA HistoryTells ==
  ASSUME HistoryOK(items), NEW n \in DOMAIN items
  PROVE  /\ Tells(n) <=> n \in ToldAt(items, Len(items))
         /\ Tells(n) => (Answered(n) <=> n \in AnsweredAt(items, Len(items)))
<1>1. Len(items) \in Nat /\ DOMAIN items = 1 .. Len(items)
  BY HistoryIs
<1>2. Tells(n) <=> n \in ToldAt(items, Len(items))
  BY <1>1 DEF Tells, ToldAt, TellsAt, Final, FinalAt
<1>3. ASSUME Tells(n) PROVE Answered(n) <=> n \in AnsweredAt(items, Len(items))
  <2>1. n \in AnsweredAt(items, Len(items)) <=>
          \E k \in n + 1 .. Len(items) : \E r \in k + 1 .. Len(items) : AnswerTo(items, k, r)
    BY <1>2, <1>3 DEF AnsweredAt
  <2>2. ASSUME NEW m \in TurnItems, NEW r \in ItemsOf("response"), n < m, m < r,
               items[m].turn = items[r].turn, items[m].type = "regular"
        PROVE  m \in n + 1 .. Len(items) /\ r \in m + 1 .. Len(items) /\ AnswerTo(items, m, r)
    BY <1>1, <2>2 DEF TurnItems, ItemsOf, AnswerTo
  <2>3. ASSUME NEW k \in n + 1 .. Len(items), NEW r \in k + 1 .. Len(items), AnswerTo(items, k, r)
        PROVE  /\ k \in TurnItems /\ r \in ItemsOf("response") /\ n < k /\ k < r
               /\ items[k].turn = items[r].turn /\ items[k].type = "regular"
    BY <1>1, <2>3 DEF TurnItems, ItemsOf, AnswerTo
  <2> QED
    BY <2>1, <2>2, <2>3 DEF Answered
<1> QED
  BY <1>2, <1>3

(* Without calls that are open every call of the history is settled.       *)
LEMMA NoneOpen ==
  ASSUME HistoryOK(items), OpenKeys(items, Len(items)) = {}
  PROVE  EveryCallSettled
<1> SUFFICES ASSUME NEW n \in ItemsOf("response"), Owned(n), NEW c \in items[n].calls
             PROVE  \/ \E m \in TurnItems : items[m] = TurnItem(items[n].turn, "compaction")
                    \/ \E m \in ItemsOf("status") : items[m].key = <<items[n].turn, c>> /\ Final(m)
  BY DEF EveryCallSettled
<1> DEFINE key == <<items[n].turn, c>>
<1>1. Len(items) \in Nat /\ DOMAIN items = 1 .. Len(items) /\ \A k \in 1 .. Len(items) : items[k] \in Item
  BY HistoryIs
<1>2. n \in 1 .. Len(items) /\ items[n].kind = "response" /\ items[n] \in Item
  BY <1>1 DEF ItemsOf
<1>3. /\ \E m \in 1 .. n : LatestAt(items, m, n) /\ items[m].turn = items[n].turn
      /\ items[n].turn <= MaxToolTurns
  BY <1>1, <1>2 DEF HistoryOK, ResponsesFit
<1>4. PICK m \in 1 .. n : LatestAt(items, m, n) /\ items[m].turn = items[n].turn
  BY <1>3
<1>5. items[n].turn \in Turns /\ items[n].calls \subseteq CallIDs
  BY <1>2, KindsAre
<1>6. key \in Keys
  BY <1>3, <1>5, BoundsAssumption DEF Keys, Turns
<1>7. m \in 1 .. Len(items) /\ items[m] \in Item /\ items[m].kind = "turn"
  BY <1>1, <1>2, <1>4 DEF LatestAt
<1>8. CASE items[m].type # "regular"
  <2>1. m \in TurnItems
    BY <1>1, <1>7 DEF TurnItems, ItemsOf
  <2>2. items[m] \in [kind : {"turn"}, turn : Turns, type : {"regular", "compaction"}]
    BY <1>7 DEF Item
  <2>3. items[m] = TurnItem(items[n].turn, "compaction")
    BY <1>4, <1>8, <2>2 DEF TurnItem
  <2> QED
    BY <2>1, <2>3
<1>9. CASE items[m].type = "regular"
  <2>1. AsksFor(items, n, key)
    <3>1. Regular(items, n)
      BY <1>4, <1>9 DEF Regular
    <3> QED
      BY <1>2, <3>1 DEF AsksFor
  <2>2. NoForkAfter(items, n, Len(items))
    BY <1>1, <1>2 DEF Owned, NoForkAfter, ItemsOf
  <2>3. Asked(items, Len(items), key)
    BY <1>2, <2>1, <2>2 DEF Asked
  <2>4. Settled(items, Len(items), key)
    BY <1>6, <2>3 DEF OpenKeys
  <2>5. PICK k \in 1 .. Len(items) : FinalAt(items, k) /\ items[k].key = key
    BY <2>4 DEF Settled
  <2> QED
    BY <1>1, <2>5 DEF ItemsOf, Final, FinalAt
<1> QED
  BY <1>8, <1>9

(* When no operation is pending there is none running and no call open.    *)
LEMMA SettledAtDecide ==
  ASSUME CoordInv, pc = "decide", ~HasPendingOps(st)
  PROVE  (\A o \in DOMAIN saved : Terminal(saved[o])) /\ DOMAIN running = {} /\ EveryCallSettled
<1>1. /\ pc \in LivePCs /\ pc \in LoopPCs /\ Alive
  BY DEF LivePCs, LoopPCs, Alive
<1>2. /\ Len(items) \in Nat /\ HistoryOK(items) /\ st \in LoopState
      /\ Reflects(items, Len(items), st) /\ st.ops = saved /\ Reconcilable = {}
      /\ \A key \in DOMAIN st.calls : st.calls[key].scheduled
  BY <1>1, HistoryIs DEF CoordInv, StoreOK, LocalOK, LiveOK
<1>3. \A o \in DOMAIN saved : Terminal(saved[o])
  BY <1>2 DEF HasPendingOps
<1>4. DOMAIN running = {}
  BY <1>1, <1>3 DEF CoordInv, WorkOK, ManagerOK
<1>5. DOMAIN st.calls = {}
  <2> SUFFICES ASSUME NEW key \in DOMAIN st.calls PROVE FALSE
    OBVIOUS
  <2>1. st.calls[key].ops = OpsOf(key)
    BY <1>2, CallFacts
  <2>2. OpsOf(key) \subseteq DOMAIN saved
    BY <1>1, <1>2, ScheduledCall
  <2>3. key \in Reconcilable
    BY <1>2, <1>3, <2>1, <2>2 DEF Reconcilable, CallIsTerminal
  <2> QED
    BY <1>2, <2>3
<1>6. OpenKeys(items, Len(items)) = {}
  BY <1>2, <1>5 DEF Reflects, CallsOf
<1> QED
  BY <1>2, <1>3, <1>4, <1>6, NoneOpen

(* Whether calls are settled is up to the history.                          *)
LEMMA SettledSame ==
  ASSUME EveryCallSettled, UNCHANGED items
  PROVE  EveryCallSettled'
BY DEF EveryCallSettled, ItemsOf, TurnItems, Owned, Final

(* So is what has been answered.                                            *)
LEMMA AnsweredSame ==
  ASSUME \A n \in DOMAIN items : Tells(n) => Answered(n), UNCHANGED items
  PROVE  (\A n \in DOMAIN items : Tells(n) => Answered(n))'
BY DEF Tells, Answered, ItemsOf, TurnItems, Final

(* A step that only decides where the loop goes on.                        *)
LEMMA DecideOK ==
  ASSUME CoordInv, pc = "decide", pc' \in {"select", "returned"},
         UNCHANGED <<items, saved, queue, seen, accepted, running, updates, asks, st, stop, batch>>,
         canceling' \subseteq DOMAIN running, TurnOK', NoLostWakeup', StopsSettle'
  PROVE  CoordInv'
<1>1. Alive /\ pc \in LivePCs /\ pc \in LoopPCs
  BY DEF Alive, LivePCs, LoopPCs
<1>2. StoreOK' /\ LocalOK' /\ PcOK' /\ ManagerOK'
  BY DEF CoordInv, StoreOK, LocalOK, PcOK, ManagerOK, LivePCs, LoopPCs
<1>3. LiveOK'
  BY <1>1 DEF CoordInv, LiveOK, LivePCs, LoopPCs
<1>4. InboxOK'
  <2>1. CASE pc' = "select"
    BY <1>1, <2>1, QuietInbox DEF Alive
  <2>2. CASE pc' = "returned"
    BY <2>2 DEF InboxOK, Alive
  <2> QED
    BY <2>1, <2>2
<1>5. WorkOK'
  BY <1>1, QuietWork
<1>6. HandedOver'
  BY <1>1 DEF CoordInv, HandedOver, LoopPCs
<1> QED
  BY <1>2, <1>3, <1>4, <1>5, <1>6 DEF CoordInv

(* handleStop: Run returns only when no operation is pending, and then      *)
(* nothing is open.                                                         *)
LEMMA HandleStopOK == CoordInv /\ HandleStop => CoordInv'
<1> SUFFICES ASSUME CoordInv, HandleStop PROVE CoordInv'
  OBVIOUS
<1>1. /\ pc = "decide" /\ stop = "hard" /\ cancelled' = TRUE /\ model' = (model /\ cancelled)
      /\ canceling' = IF cancelled THEN canceling ELSE canceling \cup CancelOperations
      /\ pc' = IF HasPendingOps(st) THEN "select" ELSE "returned"
      /\ UNCHANGED <<items, saved, queue, seen, accepted, running, updates, asks, st, stop, batch>>
  BY DEF HandleStop, storeVars, inboxVars
<1>2. Alive
  BY <1>1 DEF Alive
<1>3. canceling' \subseteq DOMAIN running
  BY <1>1 DEF CoordInv, ManagerOK, CancelOperations
<1>4. TurnOK'
  <2>1. ~model'
    BY <1>1, <1>2 DEF CoordInv, TurnOK
  <2> QED
    BY <1>1, <2>1 DEF TurnOK
<1>5. NoLostWakeup'
  BY <1>1 DEF NoLostWakeup, HasPendingOps
<1>6. StopsSettle'
  <2> SUFFICES ASSUME pc' = "returned" PROVE StopsSettle'
    BY DEF StopsSettle
  <2>1. ~HasPendingOps(st)
    BY <1>1
  <2>2. (\A o \in DOMAIN saved : Terminal(saved[o])) /\ DOMAIN running = {} /\ EveryCallSettled
    BY <1>1, <2>1, SettledAtDecide
  <2>3. EveryCallSettled'
    BY <1>1, <2>2, SettledSame
  <2> QED
    BY <1>1, <2>2, <2>3 DEF StopsSettle
<1>7. pc' \in {"select", "returned"}
  BY <1>1
<1> QED
  BY <1>1, <1>3, <1>4, <1>5, <1>6, <1>7, DecideOK

(* The loop blocks when the model is not wanted: inputs it has not          *)
(* delivered wait for an answer or for a timer.                             *)
LEMMA WaitOK == CoordInv /\ Wait => CoordInv'
<1> SUFFICES ASSUME CoordInv, Wait PROVE CoordInv'
  OBVIOUS
<1>1. /\ pc = "decide" /\ stop # "hard" /\ ~WantsModel
      /\ pc' = IF stop = "when_idle" /\ IsIdle THEN "returned" ELSE "select"
      /\ UNCHANGED <<items, saved, queue, seen, accepted, running, canceling, updates, asks, st,
                     model, stop, cancelled, batch>>
  BY DEF Wait, storeVars, inboxVars, managerVars, stopVars
<1>2. Alive /\ pc \in LivePCs
  BY <1>1 DEF Alive, LivePCs, LoopPCs
<1>3. canceling' \subseteq DOMAIN running
  BY <1>1 DEF CoordInv, ManagerOK
<1>4. TurnOK'
  BY <1>1, <1>2 DEF CoordInv, TurnOK
<1>5. NoLostWakeup'
  <2>1. PendingInputs(st) > 0 => model \/ st.grace
    BY <1>1 DEF WantsModel, CoordInv, LocalOK, GraceOK
  <2> QED
    BY <1>1, <2>1 DEF NoLostWakeup, PendingInputs
<1>6. StopsSettle'
  <2> SUFFICES ASSUME pc' = "returned" PROVE StopsSettle'
    BY DEF StopsSettle
  <2>1. IsIdle
    BY <1>1
  <2>2. (\A o \in DOMAIN saved : Terminal(saved[o])) /\ DOMAIN running = {} /\ EveryCallSettled
    BY <1>1, <2>1, SettledAtDecide DEF IsIdle
  <2>3. EveryCallSettled'
    BY <1>1, <2>2, SettledSame
  <2>4. HistoryOK(items) /\ Len(items) \in Nat /\ CountsAre(items, Len(items), st)
    BY <1>2, HistoryIs DEF CoordInv, StoreOK, LiveOK, Reflects
  <2>5. st.available = st.delivered
    <3>1. st.available \in Nat /\ st.delivered \in Nat
      BY <2>4, CountsOrdered
    <3> QED
      BY <2>1, <3>1 DEF IsIdle, PendingInputs
  <2>6. ToldAt(items, Len(items)) = AnsweredAt(items, Len(items))
    <3>1. AnsweredAt(items, Len(items)) \in SUBSET ToldAt(items, Len(items))
      BY DEF AnsweredAt
    <3>2. Cardinality(ToldAt(items, Len(items))) = Cardinality(AnsweredAt(items, Len(items)))
      BY <2>4, <2>5 DEF CountsAre
    <3>3. IsFiniteSet(ToldAt(items, Len(items)))
      BY <2>4, CountsFinite
    <3> QED
      BY <3>1, <3>2, <3>3, FS_Subset
  <2>7. \A n \in DOMAIN items : Tells(n) => Answered(n)
    BY <2>4, <2>6, HistoryTells
  <2>8. (\A n \in DOMAIN items : Tells(n) => Answered(n))'
    BY <1>1, <2>7, AnsweredSame
  <2> QED
    BY <1>1, <2>2, <2>3, <2>8 DEF StopsSettle
<1>7. pc' \in {"select", "returned"}
  BY <1>1
<1> QED
  BY <1>1, <1>3, <1>4, <1>5, <1>6, <1>7, DecideOK

(* requestModelResponse: a turn is stored, and awaited.                     *)
LEMMA RequestModelOK ==
  ASSUME CoordInv, NEW type \in {"regular", "compaction"}, RequestModel(type) PROVE CoordInv'
<1> DEFINE t == LatestTurn + 1
           item == TurnItem(t, type)
           s == AddItem(st, item)
<1>1. /\ pc = "decide" /\ stop # "hard" /\ LatestTurn < MaxTurns
      /\ Store(item, st.turn, "select") /\ st' = ClearToolGrace(s) /\ asks' = asks \cup {t} /\ model' = TRUE
      /\ UNCHANGED <<queue, seen, accepted, running, canceling, updates, stop, cancelled, batch>>
  BY DEF RequestModel, inboxVars, managerVars, stopVars
<1>2. pc \in LivePCs /\ Alive /\ pc \in LoopPCs
  BY <1>1 DEF Alive, LivePCs, LoopPCs
<1>3. t \in Turns /\ StoreTakes(item, st.turn)
  BY <1>1, <1>2, TakesTurn
<1>4. item.kind = "turn" /\ item.turn = t /\ item.type = type
  BY DEF TurnItem
<1>5. s.calls = st.calls
  <2>1. s = AddTurn(st, t, type)
    BY <1>4 DEF AddItem
  <2>2. st \in LoopState
    BY DEF CoordInv, LocalOK
  <2> HIDE DEF s, t
  <2> QED
    BY <1>3, <2>1, <2>2, AddTurnIs
<1> HIDE DEF item, s, t
<1>6. /\ items' = Append(items, item) /\ pc' = "select" /\ StoreOK' /\ saved' = saved
      /\ s \in LoopState /\ Reflects(items', Len(items'), s) /\ s.ops = saved'
      /\ RecordedInputIDs' = RecordedInputIDs
  BY <1>1, <1>2, <1>3, <1>4, Stored DEF s
<1>7. /\ st' \in LoopState /\ Reflects(items', Len(items'), st') /\ st'.ops = saved'
      /\ GraceOK(st') /\ st'.calls = st.calls
  BY <1>1, <1>5, <1>6, ClearedIs, ReflectsSame
<1>8. LocalOK'
  BY <1>6, <1>7, LocalIs
<1>9. LiveOK'
  BY <1>2, <1>6, <1>7 DEF CoordInv, LiveOK, LoopPCs, LivePCs
<1>10. InboxOK'
  BY <1>1, <1>2, <1>6 DEF CoordInv, InboxOK
<1>11. WorkOK'
  BY <1>1, <1>2, <1>6, QuietWork
<1>12. PcOK' /\ ManagerOK' /\ NoLostWakeup' /\ StopsSettle'
  BY <1>1, <1>3, <1>6 DEF CoordInv, PcOK, ManagerOK, NoLostWakeup, StopsSettle, LivePCs, LoopPCs
<1>13. HandedOver'
  BY <1>1, <1>2, <1>6 DEF CoordInv, HandedOver, LoopPCs
<1>14. TurnOK'
  <2>1. Awaited(items')
    <3>1. HistoryOK(items) /\ Fits(items, item)
      BY <1>3 DEF CoordInv, StoreOK, StoreTakes
    <3> QED
      BY <1>4, <1>6, <3>1, AppendTurnAwaited
  <2>2. ~cancelled
    BY <1>1, <1>2 DEF CoordInv, TurnOK
  <2> QED
    BY <1>1, <1>6, <2>1, <2>2 DEF TurnOK
<1> QED
  BY <1>6, <1>8, <1>9, <1>10, <1>11, <1>12, <1>13, <1>14 DEF CoordInv

-----------------------------------------------------------------------------
(* Answers and tool calls.                                                 *)

(* processModelResponse: the answer to the awaited turn is stored and its   *)
(* calls are pending.                                                       *)
LEMMA ReceiveResponseOK ==
  ASSUME CoordInv, NEW t \in Turns, NEW cs \in SUBSET CallIDs, ReceiveResponse(t, cs) PROVE CoordInv'
<1> DEFINE item == ResponseItem(t, cs)
           s == AddItem(st, item)
<1>1. /\ pc = "select" /\ model /\ t = st.turn /\ (cs # {} => t <= MaxToolTurns)
      /\ Store(item, 0, "schedule") /\ st' = s /\ asks' = asks \ {t} /\ model' = FALSE
      /\ UNCHANGED <<queue, seen, accepted, running, canceling, updates, stop, cancelled, batch>>
  BY DEF ReceiveResponse, inboxVars, managerVars, stopVars
<1>2. pc \in LivePCs /\ Alive /\ pc \in LoopPCs
  BY <1>1 DEF Alive, LivePCs, LoopPCs
<1>3. StoreTakes(item, 0)
  BY <1>1, <1>2, TakesResponse
<1>4. item.kind = "response"
  BY DEF ResponseItem
<1> HIDE DEF item, s
<1>5. /\ items' = Append(items, item) /\ pc' = "schedule" /\ StoreOK' /\ saved' = saved
      /\ s \in LoopState /\ Reflects(items', Len(items'), s) /\ s.ops = saved' /\ GraceOK(s)
      /\ RecordedInputIDs' = RecordedInputIDs
  BY <1>1, <1>2, <1>3, <1>4, Stored DEF s
<1>6. batch = {}
  BY <1>1 DEF CoordInv, HandedOver
<1>7. LocalOK'
  BY <1>1, <1>5, LocalIs
<1>8. LiveOK'
  BY <1>1, <1>5, <1>6 DEF LiveOK, LoopPCs, LivePCs
<1>9. InboxOK'
  BY <1>1, <1>2, <1>5 DEF CoordInv, InboxOK
<1>10. WorkOK'
  BY <1>1, <1>2, <1>5, QuietWork
<1>11. PcOK' /\ ManagerOK' /\ NoLostWakeup' /\ StopsSettle'
  BY <1>1, <1>5 DEF CoordInv, PcOK, ManagerOK, NoLostWakeup, StopsSettle, LivePCs, LoopPCs
<1>12. HandedOver'
  BY <1>1, <1>2, <1>5, <1>6 DEF CoordInv, HandedOver, LoopPCs
<1>13. TurnOK'
  BY <1>1, <1>2, <1>5 DEF CoordInv, TurnOK
<1> QED
  BY <1>5, <1>7, <1>8, <1>9, <1>10, <1>11, <1>12, <1>13 DEF CoordInv

(* scheduleToolCall: the first status of a call stores its operations,      *)
(* which the manager does not have yet.                                     *)
LEMMA ScheduleToolCallOK ==
  ASSUME CoordInv, NEW key, NEW translated \in BOOLEAN, ScheduleToolCall(key, translated) PROVE CoordInv'
<1> DEFINE ops == IF translated THEN OpsOf(key) ELSE {}
           f == [o \in ops |-> "ready"]
           item == StatusItem(key, f)
           s == AddItem(st, item)
<1>1. /\ pc \in {"startup", "schedule"} /\ key \in Unscheduled
      /\ Store(item, 0, pc) /\ st' = s /\ batch' = batch \cup {<<key, translated>>}
      /\ UNCHANGED <<queue, seen, accepted, running, canceling, updates, asks, model, stop, cancelled>>
  BY DEF ScheduleToolCall, inboxVars, managerVars, stopVars
<1>2. pc \in LivePCs /\ Alive /\ pc \notin LoopPCs /\ key \in DOMAIN st.calls /\ ~st.calls[key].scheduled
  BY <1>1 DEF Alive, LivePCs, LoopPCs, Unscheduled
<1>3. StoreTakes(item, 0) /\ key \in Keys /\ ops \subseteq Ops /\ ops \cap DOMAIN saved = {}
  BY <1>1, <1>2, TakesSchedule
<1>4. item.kind = "status" /\ item.ops = f /\ item.key = key /\ item.waitingFor = DOMAIN f
  BY DEF StatusItem
<1>5. DOMAIN f = ops /\ \A o \in ops : f[o] = "ready" /\ ~Terminal(f[o])
  BY DEF Terminal
<1>6. translated => ops = OpsOf(key) /\ OpsOf(key) # {}
  BY <1>3, OpsAre
<1>7. ~translated => ops = {}
  OBVIOUS
<1>8. st \in LoopState /\ st.ops = saved /\ saved \in StatusMaps
  BY <1>2 DEF CoordInv, LocalOK, LiveOK, StoreOK, SavedOK
<1>9. f \in StatusMaps
  BY <1>3 DEF StatusMaps, Statuses
<1>10. s = AddStatus(st, key, ops, f)
  BY <1>4, <1>5 DEF AddItem
<1> HIDE DEF item, s, f, ops
<1>11. /\ items' = Append(items, item) /\ pc' = pc /\ StoreOK' /\ saved' = Over(f, saved)
       /\ s \in LoopState /\ Reflects(items', Len(items'), s) /\ s.ops = saved' /\ GraceOK(s)
       /\ RecordedInputIDs' = RecordedInputIDs
  BY <1>1, <1>2, <1>3, <1>4, Stored DEF s
<1>12. /\ DOMAIN saved' = ops \cup DOMAIN saved
       /\ \A o \in ops : ~Terminal(saved'[o])
       /\ \A o \in DOMAIN saved : saved'[o] = saved[o]
  BY <1>3, <1>5, <1>11 DEF Over
<1>13. StatusAdded(st, key, ops, f, s)
  BY <1>3, <1>8, <1>9, <1>10, AddStatusIs
<1>14. translated => ~Ends(st, key, ops, f)
  BY <1>5, <1>6 DEF Ends, Waits, Over
<1>15. translated => key \in DOMAIN s.calls /\ s.calls[key].scheduled
  BY <1>2, <1>13, <1>14 DEF StatusAdded
<1>16. \A other \in DOMAIN st.calls : other # key => other \in DOMAIN s.calls /\ s.calls[other] = st.calls[other]
  <2>1. CASE Ends(st, key, ops, f)
    BY <1>2, <1>13, <2>1 DEF StatusAdded, Without
  <2>2. CASE ~Ends(st, key, ops, f)
    BY <1>2, <1>13, <2>2 DEF StatusAdded
  <2> QED
    BY <2>1, <2>2
<1>17. LocalOK'
  BY <1>1, <1>11, LocalIs
<1>18. LiveOK'
  <2>1. ASSUME pc = "schedule", NEW b \in batch', b[2] PROVE b[1] \in DOMAIN st'.calls /\ st'.calls[b[1]].scheduled
    <3>1. CASE b \in batch
      <4>1. b[1] \in DOMAIN st.calls /\ st.calls[b[1]].scheduled
        BY <2>1, <3>1 DEF CoordInv, LiveOK
      <4> QED
        BY <1>1, <1>2, <1>16, <4>1
    <3>2. CASE b = <<key, translated>>
      BY <1>1, <1>15, <2>1, <3>2
    <3> QED
      BY <1>1, <3>1, <3>2
  <2> QED
    BY <1>1, <1>2, <1>11, <2>1 DEF LiveOK, LoopPCs, LivePCs
<1>19. InboxOK'
  BY <1>1, <1>2, <1>11 DEF CoordInv, InboxOK
<1>20. WorkOK'
  <2>1. /\ accepted \subseteq DOMAIN saved
        /\ updates \in Seq([op : Ops, status : {"awaiting", "finished"}])
        /\ \A k \in DOMAIN updates : updates[k].op \in accepted /\ ~Terminal(saved[updates[k].op])
        /\ \A k \in DOMAIN updates : Terminal(updates[k].status) =>
             /\ updates[k].op \notin DOMAIN running
             /\ \A j \in DOMAIN updates : j > k => updates[j].op # updates[k].op
        /\ \A o \in DOMAIN running : ~Terminal(saved[o])
        /\ \A o \in accepted : Terminal(saved[o]) \/ o \in DOMAIN running \/ EndIsAnnounced(o)
    BY <1>2 DEF CoordInv, WorkOK
  <2>2. DOMAIN running \subseteq accepted
    BY DEF CoordInv, ManagerOK
  <2>3. \A o : EndIsAnnounced(o)' <=> EndIsAnnounced(o)
    BY <1>1 DEF EndIsAnnounced
  <2>4. \A o \in accepted : saved'[o] = saved[o]
    BY <1>12, <2>1
  <2> QED
    BY <1>1, <1>12, <2>1, <2>2, <2>3, <2>4 DEF WorkOK
<1>21. PcOK' /\ ManagerOK' /\ NoLostWakeup' /\ StopsSettle'
  BY <1>1, <1>11 DEF CoordInv, PcOK, ManagerOK, NoLostWakeup, StopsSettle, LivePCs, LoopPCs
<1>22. HandedOver'
  <2>1. ASSUME pc = "schedule", NEW b \in batch', b[2] PROVE OpsOf(b[1]) \subseteq DOMAIN saved'
    <3>1. CASE b \in batch
      BY <1>12, <2>1, <3>1 DEF CoordInv, HandedOver
    <3>2. CASE b = <<key, translated>>
      BY <1>6, <1>12, <2>1, <3>2
    <3> QED
      BY <1>1, <3>1, <3>2
  <2>2. ASSUME pc = "schedule", NEW o \in DOMAIN saved'
        PROVE  Terminal(saved'[o]) \/ o \in accepted \/ \E b \in batch' : b[2] /\ o \in OpsOf(b[1])
    <3>1. CASE o \in DOMAIN saved
      BY <1>1, <1>12, <2>2, <3>1 DEF CoordInv, HandedOver
    <3>2. CASE o \in ops
      <4>1. translated /\ o \in OpsOf(key)
        BY <1>6, <1>7, <3>2
      <4>2. <<key, translated>> \in batch' /\ <<key, translated>>[2] /\ o \in OpsOf(<<key, translated>>[1])
        BY <1>1, <4>1
      <4> QED
        BY <4>2
    <3> QED
      BY <1>12, <3>1, <3>2
  <2> QED
    BY <1>1, <1>2, <1>11, <2>1, <2>2 DEF HandedOver, LoopPCs
<1>23. TurnOK'
  BY <1>1, <1>2, <1>11 DEF CoordInv, TurnOK
<1> QED
  BY <1>11, <1>17, <1>18, <1>19, <1>20, <1>21, <1>22, <1>23 DEF CoordInv

(* Operations of the store that are not finished go to the manager.        *)
LEMMA AddedOK ==
  ASSUME CoordInv, pc \in LivePCs, NEW ops, ops \subseteq DOMAIN saved, AddToManager(ops), UNCHANGED saved
  PROVE  /\ WorkOK' /\ \A o \in ops : Terminal(saved[o]) \/ o \in accepted'
         /\ accepted \subseteq accepted' /\ DOMAIN running' \subseteq accepted' /\ canceling' \subseteq DOMAIN running'
<1> DEFINE new == {o \in ops : ~Terminal(saved[o])} \ accepted
<1>1. Alive /\ st.ops = saved
  BY AliveIs DEF CoordInv, LiveOK
<1>2. /\ accepted' = accepted \cup new /\ DOMAIN running' = DOMAIN running \cup new
      /\ UNCHANGED <<canceling, updates>>
  BY <1>1 DEF AddToManager, Over
<1>3. /\ \A o \in new : o \in DOMAIN saved /\ ~Terminal(saved[o]) /\ o \notin accepted
      /\ \A o \in ops : Terminal(saved[o]) \/ o \in accepted'
  BY <1>2
<1> HIDE DEF new
<1>4. /\ accepted \subseteq DOMAIN saved
      /\ updates \in Seq([op : Ops, status : {"awaiting", "finished"}])
      /\ \A k \in DOMAIN updates : updates[k].op \in accepted /\ ~Terminal(saved[updates[k].op])
      /\ \A k \in DOMAIN updates : Terminal(updates[k].status) =>
           /\ updates[k].op \notin DOMAIN running
           /\ \A j \in DOMAIN updates : j > k => updates[j].op # updates[k].op
      /\ \A o \in DOMAIN running : ~Terminal(saved[o])
      /\ \A o \in accepted : Terminal(saved[o]) \/ o \in DOMAIN running \/ EndIsAnnounced(o)
  BY <1>1 DEF CoordInv, WorkOK
<1>5. \A o : EndIsAnnounced(o)' <=> EndIsAnnounced(o)
  BY <1>2 DEF EndIsAnnounced
<1>6. WorkOK'
  BY <1>2, <1>3, <1>4, <1>5 DEF WorkOK
<1>7. DOMAIN running \subseteq accepted /\ canceling \subseteq DOMAIN running
  BY DEF CoordInv, ManagerOK
<1> QED
  BY <1>2, <1>3, <1>6, <1>7

(* The loop begins, or goes on, when every call is scheduled.              *)
LEMMA EnterLoopOK ==
  ASSUME CoordInv, pc \in {"startup", "schedule"}, pc' = "inputs", Unscheduled = {},
         UNCHANGED <<items, saved, queue, seen, asks, model, stop, cancelled>>, batch' = {},
         WorkOK', \A o \in DOMAIN saved : Terminal(saved[o]) \/ o \in accepted',
         DOMAIN running' \subseteq accepted', canceling' \subseteq DOMAIN running',
         st' \in LoopState, SameBut(st, st'), st'.ops = st.ops, GraceOK(st')
  PROVE  CoordInv'
<1>1. Alive /\ pc \in LivePCs /\ Alive'
  BY DEF Alive, LivePCs, LoopPCs
<1>2. StoreOK'
  BY DEF CoordInv, StoreOK
<1>3. Reflects(items', Len(items'), st') /\ st'.calls = st.calls
  BY <1>1, ReflectsSame DEF CoordInv, LiveOK, SameBut
<1>4. LocalOK'
  BY <1>2, <1>3, LocalIs
<1>5. LiveOK'
  BY <1>1, <1>3 DEF CoordInv, LiveOK, LivePCs, LoopPCs, Unscheduled
<1>6. InboxOK'
  BY <1>1, QuietInbox
<1>7. PcOK' /\ ManagerOK' /\ NoLostWakeup' /\ StopsSettle'
  BY DEF CoordInv, PcOK, ManagerOK, NoLostWakeup, StopsSettle, LivePCs, LoopPCs
<1>8. HandedOver'
  BY DEF HandedOver, LoopPCs
<1>9. TurnOK'
  BY <1>1 DEF CoordInv, TurnOK
<1> QED
  BY <1>2, <1>4, <1>5, <1>6, <1>7, <1>8, <1>9 DEF CoordInv

(* Run before the loop: every unfinished operation of the store goes to     *)
(* the new manager.                                                         *)
LEMMA StartupDoneOK == CoordInv /\ StartupDone => CoordInv'
<1> SUFFICES ASSUME CoordInv, StartupDone PROVE CoordInv'
  OBVIOUS
<1>1. /\ pc = "startup" /\ Unscheduled = {} /\ AddToManager(DOMAIN st.ops) /\ batch' = {} /\ pc' = "inputs"
      /\ UNCHANGED <<items, saved, queue, seen, asks, st, model, stop, cancelled>>
  BY DEF StartupDone, storeVars, inboxVars, stopVars
<1>2. pc \in LivePCs /\ pc \in {"startup", "schedule"}
  BY <1>1 DEF LivePCs
<1>3. st.ops = saved
  BY <1>2 DEF CoordInv, LiveOK
<1>4. /\ WorkOK' /\ \A o \in DOMAIN saved : Terminal(saved[o]) \/ o \in accepted'
      /\ DOMAIN running' \subseteq accepted' /\ canceling' \subseteq DOMAIN running'
  BY <1>1, <1>2, <1>3, AddedOK
<1>5. st' \in LoopState /\ SameBut(st, st') /\ st'.ops = st.ops /\ GraceOK(st')
  BY <1>1, SameSame DEF CoordInv, LocalOK
<1> QED
  BY <1>1, <1>2, <1>4, <1>5, EnterLoopOK

(* The end of processModelResponse: the operations of the scheduled calls   *)
(* go to the manager, and the calls get a grace period.                     *)
LEMMA ScheduleDoneOK == CoordInv /\ ScheduleDone => CoordInv'
<1> SUFFICES ASSUME CoordInv, ScheduleDone PROVE CoordInv'
  OBVIOUS
<1> DEFINE ops == UNION {OpsOf(status[1]) : status \in {b \in batch : b[2]}}
           keys == {status[1] : status \in batch}
<1>1. /\ pc = "schedule" /\ Unscheduled = {} /\ AddToManager(ops) /\ batch' = {} /\ pc' = "inputs"
      /\ st' = IF RequireModelResponse \/ batch = {} THEN st
               ELSE [st EXCEPT !.graceCalls = st.graceCalls \cup keys, !.grace = TRUE]
      /\ UNCHANGED <<items, saved, queue, seen, asks, model, stop, cancelled>>
  BY DEF ScheduleDone, storeVars, inboxVars, stopVars
<1>2. pc \in LivePCs /\ pc \in {"startup", "schedule"}
  BY <1>1 DEF LivePCs
<1>3. /\ \A o \in DOMAIN saved : Terminal(saved[o]) \/ o \in accepted \/ \E b \in batch : b[2] /\ o \in OpsOf(b[1])
      /\ \A b \in batch : b[2] => OpsOf(b[1]) \subseteq DOMAIN saved
  BY <1>1 DEF CoordInv, HandedOver
<1>4. ops \subseteq DOMAIN saved /\ \A o : (o \in ops <=> \E b \in batch : b[2] /\ o \in OpsOf(b[1]))
  BY <1>3
<1>5. batch # {} => keys # {}
  OBVIOUS
<1>6. ASSUME ~RequireModelResponse PROVE keys \subseteq DOMAIN st.calls
  <2>1. \A b \in batch : b[2]
    BY <1>6 DEF RequireModelResponse
  <2> QED
    BY <1>1, <2>1 DEF CoordInv, LiveOK
<1> HIDE DEF ops, keys
<1>7. /\ WorkOK' /\ \A o \in ops : Terminal(saved[o]) \/ o \in accepted'
      /\ accepted \subseteq accepted' /\ DOMAIN running' \subseteq accepted' /\ canceling' \subseteq DOMAIN running'
  BY <1>1, <1>2, <1>4, AddedOK
<1>8. \A o \in DOMAIN saved : Terminal(saved[o]) \/ o \in accepted'
  BY <1>3, <1>4, <1>7
<1>9. st \in LoopState /\ GraceOK(st) /\ DOMAIN st.calls \subseteq Keys
  <2>1. st \in LoopState /\ GraceOK(st)
    BY DEF CoordInv, LocalOK
  <2>2. st.calls \in CallMaps
    BY <2>1 DEF LoopState
  <2> QED
    BY <2>1, <2>2, MapsAre
<1>10. st' \in LoopState /\ SameBut(st, st') /\ st'.ops = st.ops /\ GraceOK(st')
  <2>1. CASE RequireModelResponse \/ batch = {}
    BY <1>1, <1>9, <2>1, SameSame
  <2>2. CASE ~RequireModelResponse /\ batch # {}
    <3>1. keys \subseteq DOMAIN st.calls /\ keys # {}
      BY <1>5, <1>6, <2>2
    <3>2. st' = [st EXCEPT !.graceCalls = st.graceCalls \cup keys, !.grace = TRUE]
      BY <1>1, <2>2
    <3>3. /\ st' \in LoopState /\ SameBut(st, st') /\ st'.ops = st.ops /\ st'.calls = st.calls
          /\ st'.graceCalls = st.graceCalls \cup keys /\ st'.grace = TRUE
      BY <1>9, <3>1, <3>2 DEF LoopState, SameBut
    <3> QED
      BY <1>9, <3>1, <3>3 DEF GraceOK
  <2> QED
    BY <2>1, <2>2
<1> QED
  BY <1>1, <1>2, <1>7, <1>8, <1>10, EnterLoopOK

-----------------------------------------------------------------------------
(* The invariant holds.                                                    *)

(* Every step of the coordinator keeps the invariant.                       *)
LEMMA CoordinateOK == CoordInv /\ Coordinate => CoordInv'
<1> SUFFICES ASSUME CoordInv, Coordinate PROVE CoordInv'
  OBVIOUS
<1>1. CASE HandleInput
  BY <1>1, HandleInputOK
<1>2. CASE InputsIdle \/ UpdatesIdle
  BY <1>2, IdleOK
<1>3. CASE HandleUpdate
  BY <1>3, HandleUpdateOK
<1>4. CASE \E key \in Keys : ReconcileToolCall(key)
  BY <1>4, ReconcileToolCallOK
<1>5. CASE ReconcileDone
  BY <1>5, ReconcileDoneOK
<1>6. CASE HandleStop
  BY <1>6, HandleStopOK
<1>7. CASE \E type \in {"regular", "compaction"} : RequestModel(type)
  BY <1>7, RequestModelOK
<1>8. CASE Wait
  BY <1>8, WaitOK
<1>9. CASE PostHeartbeat
  BY <1>9, PostHeartbeatOK
<1>10. CASE GraceExpires
  BY <1>10, GraceExpiresOK
<1>11. CASE \E t \in Turns : DropResponse(t)
  BY <1>11, DropResponseOK
<1>12. CASE \E t \in Turns, cs \in SUBSET CallIDs : ReceiveResponse(t, cs)
  BY <1>12, ReceiveResponseOK
<1>13. CASE \E key \in Keys, translated \in BOOLEAN : ScheduleToolCall(key, translated)
  BY <1>13, ScheduleToolCallOK
<1>14. CASE StartupDone
  BY <1>14, StartupDoneOK
<1>15. CASE ScheduleDone
  BY <1>15, ScheduleDoneOK
<1> QED
  BY <1>1, <1>2, <1>3, <1>4, <1>5, <1>6, <1>7, <1>8, <1>9, <1>10, <1>11, <1>12, <1>13, <1>14, <1>15
     DEF Coordinate

(* Every step of the session keeps the invariant.                           *)
LEMMA NextOK == CoordInv /\ [Next]_vars => CoordInv'
<1> SUFFICES ASSUME CoordInv, [Next]_vars PROVE CoordInv'
  OBVIOUS
<1>1. CASE Start
  BY <1>1, StartOK
<1>2. CASE \E t \in Turns : Fork(t)
  BY <1>2, ForkStepOK
<1>3. CASE Crash
  BY <1>3, CrashOK
<1>4. CASE \E i \in Inputs : Submit(i)
  BY <1>4, SubmitOK
<1>5. CASE \E o \in Ops : OperationAwaits(o) \/ OperationFinishes(o)
  BY <1>5, OperationAwaitsOK, OperationFinishesOK
<1>6. CASE LoadHistory
  BY <1>6, LoadHistoryOK
<1>7. CASE Coordinate
  BY <1>7, CoordinateOK
<1>8. CASE UNCHANGED vars
  BY <1>8, StutterOK
<1> QED
  BY <1>1, <1>2, <1>3, <1>4, <1>5, <1>6, <1>7, <1>8 DEF Next

(* The inductive invariant holds in every reachable state, for any inputs,  *)
(* calls, operations and bounds: across crashes, restarts and forks the     *)
(* running coordinator's state is what the history says, the store takes    *)
(* what it writes, and what the store holds unfinished is being worked on.  *)
THEOREM CoordinatorInvariant == Spec => []CoordInv
BY InitOK, NextOK, PTL DEF Spec

-----------------------------------------------------------------------------
(* The loop state has its type, with its counts in order.                   *)
LEMMA TypesFollow == CoordInv => TypeOK
<1> SUFFICES ASSUME CoordInv PROVE TypeOK
  OBVIOUS
<1>1. /\ st \in LoopState /\ GraceOK(st)
      /\ st.delivered <= st.turnInputs /\ st.turnInputs <= st.available
      /\ \A key \in DOMAIN st.calls : st.calls[key].ops \subseteq OpsOf(key)
  BY DEF CoordInv, LocalOK
<1>2. /\ st.turn \in 0 .. MaxTurns /\ st.type \in {"regular", "compaction"}
      /\ st.calls \in CallMaps /\ st.ops \in StatusMaps
      /\ st.available \in Nat /\ st.delivered \in Nat /\ st.turnInputs \in Nat
  BY <1>1 DEF LoopState
<1>3. DOMAIN st.calls \subseteq Keys /\ DOMAIN st.ops \subseteq Ops
  BY <1>2, MapsAre
<1>4. st.delivered \in 0 .. st.turnInputs /\ st.turnInputs \in 0 .. st.available
  BY <1>1, <1>2
<1>5. st.graceCalls \subseteq DOMAIN st.calls /\ st.grace = (st.graceCalls # {})
  BY <1>1 DEF GraceOK, LoopState
<1>6. asks \subseteq Turns /\ DOMAIN running \subseteq accepted /\ canceling \subseteq DOMAIN running
  BY DEF CoordInv, ManagerOK
<1>7. /\ stop \in {"none", "hard", "when_idle"}
      /\ pc \in {"down", "restore", "startup", "inputs", "updates", "reconcile", "decide",
                 "select", "schedule", "returned", "failed"}
  BY DEF CoordInv, PcOK, LivePCs, LoopPCs
<1> QED
  BY <1>1, <1>2, <1>3, <1>4, <1>5, <1>6, <1>7 DEF TypeOK

(* The latest turn before an answer is the one it answers.                  *)
LEMMA AnswersFollow == CoordInv => ResponsesMatchTurns
<1> SUFFICES ASSUME CoordInv, NEW n \in ItemsOf("response")
             PROVE  /\ items[n].turn = items[Max({m \in TurnItems : m < n})].turn
                    /\ \A m \in ItemsOf("response") : items[m].turn = items[n].turn => m = n
  BY DEF ResponsesMatchTurns
<1> DEFINE S == {m \in TurnItems : m < n}
<1>1. HistoryOK(items) /\ Len(items) \in Nat /\ DOMAIN items = 1 .. Len(items)
  BY HistoryIs DEF CoordInv, StoreOK
<1>2. n \in 1 .. Len(items) /\ items[n].kind = "response"
  BY <1>1 DEF ItemsOf
<1>3. /\ \E m \in 1 .. n : LatestAt(items, m, n) /\ items[m].turn = items[n].turn
      /\ \A k \in DOMAIN items : items[k].kind = "response" /\ items[k].turn = items[n].turn => k = n
  BY <1>1, <1>2 DEF HistoryOK, ResponsesFit
<1>4. PICK m \in 1 .. n : LatestAt(items, m, n) /\ items[m].turn = items[n].turn
  BY <1>3
<1>5. m # n /\ items[m].kind = "turn"
  BY <1>2, <1>4 DEF LatestAt
<1>6. m \in S /\ S \in SUBSET (1 .. Len(items))
  BY <1>1, <1>2, <1>5 DEF TurnItems, ItemsOf
<1>7. \A k \in S : k \in 1 .. Len(items) /\ items[k].kind = "turn" /\ k < n
  BY <1>1 DEF TurnItems, ItemsOf
<1> HIDE DEF S
<1>8. Max(S) \in S /\ m <= Max(S)
  BY <1>1, <1>6, MaxIs
<1>9. Max(S) = m
  BY <1>2, <1>4, <1>7, <1>8 DEF LatestAt
<1>10. \A k \in ItemsOf("response") : items[k].turn = items[n].turn => k = n
  BY <1>3 DEF ItemsOf
<1> QED
  BY <1>4, <1>9, <1>10 DEF S

(* The invariant implies the well-formedness of the session.                *)
LEMMA LoopFollows == CoordInv => LoopInv
<1> SUFFICES ASSUME CoordInv PROVE LoopInv
  OBVIOUS
<1>1. HistoryOK(items) /\ Len(items) \in Nat /\ DOMAIN items = 1 .. Len(items)
  BY HistoryIs DEF CoordInv, StoreOK
<1>2. StoreNeverRejects
  BY DEF CoordInv, PcOK, StoreNeverRejects, LivePCs, LoopPCs
<1>3. CommittedBeforeDispatch
  BY DEF CoordInv, WorkOK, CommittedBeforeDispatch
<1>4. InputsRecordedOnce
  BY <1>1 DEF HistoryOK, InputsOnce, InputsRecordedOnce, ItemsOf
<1>5. CallsSettledOnce
  <2> SUFFICES ASSUME NEW n \in ItemsOf("status"), Final(n), NEW m \in ItemsOf("status"),
                      items[m].key = items[n].key
               PROVE  m <= n
    BY DEF CallsSettledOnce
  <2>1. /\ n \in 1 .. Len(items) /\ items[n].kind = "status" /\ FinalAt(items, n)
        /\ m \in 1 .. Len(items) /\ items[m].kind = "status"
    BY <1>1 DEF ItemsOf, Final, FinalAt
  <2>2. \A k \in n + 1 .. Len(items) : ~(items[k].kind = "status" /\ items[k].key = items[n].key)
    BY <1>1, <2>1 DEF HistoryOK, StatusesFit, StatusFits
  <2>3. m \notin n + 1 .. Len(items)
    BY <2>1, <2>2
  <2> QED
    BY <1>1, <2>1, <2>3
<1> QED
  BY <1>2, <1>3, <1>4, <1>5, TypesFollow, AnswersFollow DEF LoopInv

(* The session stays well formed: the store rejects nothing the             *)
(* coordinator writes, operations are stored before they are dispatched,    *)
(* and every input, every answer and every call's outcome is recorded       *)
(* once, whatever is submitted again, interrupted, crashed or forked.       *)
THEOREM SessionStaysWellFormed == Spec => []LoopInv
BY CoordinatorInvariant, LoopFollows, PTL

(* A coordinator that has restored its state is in its loop, or on the way  *)
(* to it.                                                                   *)
LEMMA LiveIs == CoordInv /\ Alive /\ pc # "restore" => pc \in LivePCs
BY DEF CoordInv, PcOK, Alive

(* The state that a restart would rebuild is the live one: both reflect     *)
(* the same history.                                                        *)
LEMMA ReplayFollows == CoordInv => ReplayMatchesLive
<1> SUFFICES ASSUME CoordInv, Alive, pc # "restore" PROVE Recoverable(st) = Recoverable(Restore)
  BY DEF ReplayMatchesLive
<1> DEFINE r == Restore
           N == Len(items)
<1>1. HistoryOK(items) /\ SavedOK(items, saved) /\ N \in Nat
  BY HistoryIs DEF CoordInv, StoreOK
<1>2. Reflects(items, N, st) /\ st.ops = saved
  BY LiveIs DEF CoordInv, LiveOK
<1>3. Reflects(items, N, r) /\ r.ops = saved
  BY <1>1, RestoreIs
<1> HIDE DEF r, N
<1>4. st.calls = r.calls /\ st.available = r.available /\ st.delivered = r.delivered /\ st.turnInputs = r.turnInputs
  BY <1>2, <1>3 DEF Reflects, CountsAre
<1>5. st.turn = r.turn /\ st.type = r.type
  <2>1. TurnIs(items, N, st) /\ TurnIs(items, N, r)
    BY <1>2, <1>3 DEF Reflects
  <2>2. CASE \A k \in 1 .. N : items[k].kind # "turn"
    BY <2>1, <2>2 DEF TurnIs, LatestAt
  <2>3. CASE ~\A k \in 1 .. N : items[k].kind # "turn"
    <3>1. PICK m \in 1 .. N : LatestAt(items, m, N) /\ st.turn = items[m].turn /\ st.type = items[m].type
      BY <2>1, <2>3 DEF TurnIs
    <3> QED
      BY <1>1, <2>1, <3>1, TurnKnown
  <2> QED
    BY <2>2, <2>3
<1> QED
  BY <1>2, <1>3, <1>4, <1>5 DEF Recoverable, r

(* Whatever step the process dies in, loadHistory and Resume rebuild the    *)
(* state it had: no call, no operation and no undelivered input is          *)
(* forgotten or invented.                                                   *)
THEOREM RestartForgetsNothing == Spec => []ReplayMatchesLive
BY CoordinatorInvariant, ReplayFollows, PTL

(* What the store shows unfinished was handed over, and what was handed     *)
(* over runs or has announced its end.                                      *)
LEMMA DrivenFollows == CoordInv => OperationsAreDriven
<1> SUFFICES ASSUME CoordInv, pc \in LoopPCs, NEW o \in DOMAIN st.ops
             PROVE  \/ Terminal(st.ops[o]) \/ o \in DOMAIN running
                    \/ \E k \in DOMAIN updates : updates[k].op = o /\ Terminal(updates[k].status)
  BY DEF OperationsAreDriven, LoopPCs
<1>1. pc \in LivePCs /\ Alive
  BY DEF LivePCs, LoopPCs, Alive
<1>2. st.ops = saved
  BY <1>1 DEF CoordInv, LiveOK
<1>3. Terminal(saved[o]) \/ o \in accepted
  BY <1>2 DEF CoordInv, HandedOver
<1>4. o \in accepted => Terminal(saved[o]) \/ o \in DOMAIN running \/ EndIsAnnounced(o)
  BY <1>1 DEF CoordInv, WorkOK
<1> QED
  BY <1>2, <1>3, <1>4 DEF EndIsAnnounced

(* Inside the loop no operation waits for nobody: one the coordinator       *)
(* believes unfinished is in the manager's hands, or its last checkpoint    *)
(* is on its way.                                                           *)
THEOREM EveryOperationIsDriven == Spec => []OperationsAreDriven
BY CoordinatorInvariant, DrivenFollows, PTL

(* The loop never blocks in its select with undelivered inputs unless an    *)
(* answer, a grace timer or the operations a hard stop has canceled will    *)
(* wake it.                                                                 *)
THEOREM WakeupsAreNotLost == Spec => []NoLostWakeup
<1>1. CoordInv => NoLostWakeup
  BY DEF CoordInv
<1> QED
  BY <1>1, CoordinatorInvariant, PTL

(* Run returns from a stop with every operation ended and stored, and       *)
(* every tool call of the history settled; from an idle stop, with every    *)
(* input and result answered too.                                           *)
THEOREM StopsLeaveNothingOpen == Spec => []StopsSettle
<1>1. CoordInv => StopsSettle
  BY DEF CoordInv
<1> QED
  BY <1>1, CoordinatorInvariant, PTL

(* What is pending is told and not answered.                                *)
LEMMA PendingFollows == CoordInv => PendingMatchesHistory
<1> SUFFICES ASSUME CoordInv, Alive, pc # "restore"
             PROVE  PendingInputs(st) = Cardinality({n \in DOMAIN items : Tells(n) /\ ~Answered(n)})
  BY DEF PendingMatchesHistory
<1> DEFINE T == ToldAt(items, Len(items))
           A == AnsweredAt(items, Len(items))
           P == {n \in DOMAIN items : Tells(n) /\ ~Answered(n)}
<1>1. HistoryOK(items) /\ Len(items) \in Nat /\ DOMAIN items = 1 .. Len(items)
  BY HistoryIs DEF CoordInv, StoreOK
<1>2. CountsAre(items, Len(items), st)
  BY LiveIs DEF CoordInv, LiveOK, Reflects
<1>3. IsFiniteSet(T) /\ A \subseteq T /\ T \subseteq DOMAIN items
  BY <1>1, CountsFinite DEF AnsweredAt, ToldAt
<1>4. P = T \ A
  BY <1>1, <1>3, HistoryTells
<1>5. st.available = Cardinality(T) /\ st.delivered = Cardinality(A)
  BY <1>2 DEF CountsAre
<1> HIDE DEF T, A, P
<1>6. Cardinality(T \ A) = Cardinality(T) - Cardinality(T \cap A)
  BY <1>3, FS_Difference
<1>7. T \cap A = A
  BY <1>3
<1>8. Cardinality(P) = PendingInputs(st)
  BY <1>4, <1>5, <1>6, <1>7 DEF PendingInputs
<1> QED
  BY <1>8 DEF P

(* availableInputs - deliveredInputs is the number of inputs and results    *)
(* in the history that no answered regular turn came after: interruptions   *)
(* and compactions deliver nothing.                                         *)
THEOREM CountsMatchTheHistory == Spec => []PendingMatchesHistory
BY CoordinatorInvariant, PendingFollows, PTL

-----------------------------------------------------------------------------
(* What a step may not do once a hard stop is in force.                    *)

NothingNew ==
  /\ Alive /\ stop = "hard" => TurnItems' = TurnItems
  /\ cancelled /\ cancelled' => Unfinished(st') \subseteq Unfinished(st)

(* A step that leaves the history and the local state alone.                *)
LEMMA QuietStep == ASSUME UNCHANGED <<items, st>> PROVE NothingNew
BY DEF NothingNew, TurnItems, ItemsOf, Unfinished

(* A step of the loop that leaves the store's operations alone.             *)
LEMMA SameOps ==
  ASSUME CoordInv, CoordInv', pc \in LivePCs, pc' \in LivePCs, UNCHANGED saved
  PROVE  Unfinished(st') \subseteq Unfinished(st)
<1>1. st.ops = saved /\ st'.ops = saved'
  BY DEF CoordInv, LiveOK
<1> QED
  BY <1>1 DEF Unfinished

(* Once the cancellation is requested no answer is awaited, so no call is   *)
(* scheduled.                                                               *)
LEMMA CancelledIs ==
  ASSUME CoordInv, Alive, cancelled
  PROVE  ~model /\ pc \in LoopPCs
BY DEF CoordInv, TurnOK, PcOK, Alive, LivePCs

(* Every step of the session admits nothing new after a hard stop.          *)
LEMMA NothingNewStep == CoordInv /\ CoordInv' /\ [Next]_vars => NothingNew
<1> SUFFICES ASSUME CoordInv, CoordInv', [Next]_vars PROVE NothingNew
  OBVIOUS
<1> USE DEF storeVars, inboxVars, managerVars, stopVars
<1>1. CASE Start
  BY <1>1 DEF Start, NothingNew, Alive
<1>2. CASE \E t \in Turns : Fork(t)
  BY <1>2 DEF Fork, NothingNew, Alive
<1>3. CASE Crash \/ (\E i \in Inputs : Submit(i)) \/ (\E o \in Ops : OperationAwaits(o) \/ OperationFinishes(o))
  <2>1. UNCHANGED <<items, st>>
    BY <1>3 DEF Crash, Submit, OperationAwaits, OperationFinishes
  <2> QED
    BY <2>1, QuietStep
<1>4. CASE LoadHistory
  <2>1. UNCHANGED items /\ pc = "restore"
    BY <1>4 DEF LoadHistory
  <2>2. ~cancelled
    BY <2>1, CancelledIs DEF Alive, LoopPCs
  <2> QED
    BY <2>1, <2>2 DEF NothingNew, TurnItems, ItemsOf
<1>5. CASE InputsIdle \/ UpdatesIdle \/ HandleStop \/ Wait \/ PostHeartbeat \/ StartupDone
           \/ \E t \in Turns : DropResponse(t)
  <2>1. UNCHANGED <<items, st>>
    BY <1>5 DEF InputsIdle, UpdatesIdle, HandleStop, Wait, PostHeartbeat, StartupDone, DropResponse
  <2> QED
    BY <2>1, QuietStep
<1>6. CASE HandleInput
  <2> DEFINE item == InputItem(Head(queue))
  <2>1. pc \in LivePCs /\ Alive /\ queue # <<>> /\ Store(item, 0, "inputs")
    BY <1>6 DEF HandleInput, LivePCs, LoopPCs, Alive
  <2>2. StoreTakes(item, 0)
    BY <2>1, TakesInput
  <2>3. item.kind = "input"
    BY DEF InputItem
  <2> HIDE DEF item
  <2>4. TurnItems' = TurnItems /\ saved' = saved /\ pc' = "inputs"
    BY <2>1, <2>2, <2>3, Stored
  <2>5. Unfinished(st') \subseteq Unfinished(st)
    BY <2>1, <2>4, SameOps DEF LivePCs, LoopPCs
  <2> QED
    BY <2>4, <2>5 DEF NothingNew
<1>7. CASE HandleUpdate
  <2> DEFINE u == Head(updates)
  <2>1. /\ pc \in {"updates", "select"} /\ updates # <<>> /\ saved' = [saved EXCEPT ![u.op] = u.status]
        /\ u.op \in DOMAIN saved => pc' \in {"inputs", "updates"}
        /\ UNCHANGED items
    BY <1>7 DEF HandleUpdate
  <2>2. pc \in LivePCs /\ Alive
    BY <2>1 DEF LivePCs, LoopPCs, Alive
  <2>3. 1 \in DOMAIN updates /\ u = updates[1]
    <3> DEFINE S == [op : Ops, status : {"awaiting", "finished"}]
    <3>1. updates \in Seq(S)
      BY <2>2 DEF CoordInv, WorkOK
    <3> HIDE DEF S
    <3> QED
      BY <2>1, <3>1, TailIs
  <2> HIDE DEF u
  <2>4. u.op \in accepted /\ accepted \subseteq DOMAIN saved /\ ~Terminal(saved[u.op])
    BY <2>2, <2>3 DEF CoordInv, WorkOK
  <2>5. saved \in StatusMaps
    BY DEF CoordInv, StoreOK, SavedOK
  <2>6. saved \in [DOMAIN saved -> Statuses]
    BY <2>5, MapsAre
  <2>7. /\ DOMAIN saved' = DOMAIN saved
        /\ \A o \in DOMAIN saved : o # u.op => saved'[o] = saved[o]
    BY <2>1, <2>6
  <2>8. st.ops = saved /\ st'.ops = saved'
    BY <2>1, <2>2, <2>4 DEF CoordInv, LiveOK, LivePCs, LoopPCs
  <2>9. Unfinished(st') \subseteq Unfinished(st)
    BY <2>4, <2>7, <2>8 DEF Unfinished
  <2> QED
    BY <2>1, <2>9 DEF NothingNew, TurnItems, ItemsOf
<1>8. CASE \E key \in Keys : ReconcileToolCall(key)
  <2>1. PICK key \in Keys : ReconcileToolCall(key)
    BY <1>8
  <2> DEFINE item == StatusItem(key, [o \in st.calls[key].ops |-> st.ops[o]])
  <2>2. pc = "reconcile" /\ key \in Reconcilable /\ key \in DOMAIN st.calls
    BY <2>1 DEF ReconcileToolCall, Reconcilable
  <2>3. pc \in LivePCs /\ pc \in LoopPCs
    BY <2>2 DEF LivePCs, LoopPCs
  <2>4. st.calls[key].scheduled
    BY <2>2, <2>3 DEF CoordInv, LiveOK
  <2>5. Store(item, 0, "reconcile")
    BY <2>1, <2>4 DEF ReconcileToolCall
  <2>6. StoreTakes(item, 0) /\ Over(item.ops, saved) = saved /\ item.kind = "status"
    BY <2>2, <2>3, <2>4, TakesReconcile
  <2> HIDE DEF item
  <2>7. TurnItems' = TurnItems /\ saved' = saved /\ pc' = "reconcile"
    BY <2>3, <2>5, <2>6, Stored
  <2>8. Unfinished(st') \subseteq Unfinished(st)
    BY <2>3, <2>7, SameOps DEF LivePCs, LoopPCs
  <2> QED
    BY <2>7, <2>8 DEF NothingNew
<1>9. CASE ReconcileDone \/ GraceExpires \/ ScheduleDone
  <2>1. pc \in LivePCs /\ pc' \in LivePCs /\ UNCHANGED <<items, saved>>
    BY <1>9 DEF ReconcileDone, GraceExpires, ScheduleDone, LivePCs, LoopPCs
  <2>2. Unfinished(st') \subseteq Unfinished(st)
    BY <2>1, SameOps
  <2> QED
    BY <2>1, <2>2 DEF NothingNew, TurnItems, ItemsOf
<1>10. CASE \E type \in {"regular", "compaction"} : RequestModel(type)
  <2>1. pc = "decide" /\ stop # "hard"
    BY <1>10 DEF RequestModel
  <2>2. ~cancelled
    BY <2>1 DEF CoordInv, TurnOK, Alive
  <2> QED
    BY <2>1, <2>2 DEF NothingNew
<1>11. CASE \E t \in Turns, cs \in SUBSET CallIDs : ReceiveResponse(t, cs)
  <2>1. PICK t \in Turns : \E cs \in SUBSET CallIDs : ReceiveResponse(t, cs)
    BY <1>11
  <2>2. PICK cs \in SUBSET CallIDs : ReceiveResponse(t, cs)
    BY <2>1
  <2> DEFINE item == ResponseItem(t, cs)
  <2>3. /\ pc = "select" /\ model /\ t = st.turn /\ (cs # {} => t <= MaxToolTurns)
        /\ Store(item, 0, "schedule")
    BY <2>2 DEF ReceiveResponse
  <2>4. pc \in LivePCs /\ ~cancelled
    BY <2>3, CancelledIs DEF LivePCs, LoopPCs, Alive
  <2>5. StoreTakes(item, 0) /\ item.kind = "response"
    BY <2>3, <2>4, TakesResponse DEF ResponseItem
  <2> HIDE DEF item
  <2>6. TurnItems' = TurnItems
    BY <2>3, <2>4, <2>5, Stored
  <2> QED
    BY <2>4, <2>6 DEF NothingNew
<1>12. CASE \E key \in Keys, translated \in BOOLEAN : ScheduleToolCall(key, translated)
  <2>1. PICK key \in Keys : \E translated \in BOOLEAN : ScheduleToolCall(key, translated)
    BY <1>12
  <2>2. PICK translated \in BOOLEAN : ScheduleToolCall(key, translated)
    BY <2>1
  <2> DEFINE ops == IF translated THEN OpsOf(key) ELSE {}
             item == StatusItem(key, [o \in ops |-> "ready"])
  <2>3. pc \in {"startup", "schedule"} /\ key \in Unscheduled /\ Store(item, 0, pc)
    BY <2>2 DEF ScheduleToolCall
  <2>4. pc \in LivePCs /\ ~cancelled
    BY <2>3, CancelledIs DEF LivePCs, LoopPCs, Alive
  <2>5. StoreTakes(item, 0) /\ item.kind = "status"
    BY <2>3, <2>4, TakesSchedule DEF StatusItem
  <2> HIDE DEF item
  <2>6. TurnItems' = TurnItems
    BY <2>3, <2>4, <2>5, Stored
  <2> QED
    BY <2>4, <2>6 DEF NothingNew
<1>13. CASE UNCHANGED vars
  <2>1. UNCHANGED <<items, st>>
    BY <1>13 DEF vars
  <2> QED
    BY <2>1, QuietStep
<1> QED
  BY <1>1, <1>2, <1>3, <1>4, <1>5, <1>6, <1>7, <1>8, <1>9, <1>10, <1>11, <1>12, <1>13
     DEF Next, Coordinate

(* After a hard stop no turn is stored, and once the operations are         *)
(* canceled no unfinished operation enters the coordinator's state.         *)
THEOREM HardStopAdmitsNothing == Spec => NothingNewAfterHardStop
<1>1. CoordInv /\ CoordInv' /\ [Next]_vars =>
        [/\ Alive /\ stop = "hard" => TurnItems' = TurnItems
         /\ cancelled /\ cancelled' => Unfinished(st') \subseteq Unfinished(st)]_vars
  BY NothingNewStep DEF NothingNew
<1> QED
  BY <1>1, CoordinatorInvariant, PTL DEF Spec, NothingNewAfterHardStop

=============================================================================
