------------------------- MODULE ContextBuilderProofs -------------------------
(***************************************************************************)
(* The context builder's invariant is inductive, for any inputs, calls,    *)
(* token counts, thresholds and any number of answers; from it, nothing    *)
(* given is lost or repeated, running calls stay, answers stay behind what *)
(* they answer, and what is sent has a result for every call, unless a     *)
(* fork has inherited a call without it.                                   *)
(*                                                                         *)
(* The invariant says of the whole context, committed and staged, that it  *)
(* is a history (History), where its items come from (Sourced), where the  *)
(* given ones are (Present) and which calls are open (CallsOK).  A step    *)
(* does one of four things to a context: it appends an item, replaces a    *)
(* running result by the final one, inserts an answer with its calls       *)
(* behind the committed part, or replaces a prefix by a summary and what   *)
(* CarryForward keeps.  A lemma for each shows that it leaves a history    *)
(* (...KeepsHistory) and the whole of ContextOK (...OK); the last part is  *)
(* one lemma for each action (...Keeps).                                   *)
(*                                                                         *)
(* The second half is about the messages made of a request.  A history in  *)
(* which the result of each call is in the turn behind it (PromptTo,       *)
(* FullTo) is converted without an error, one block for each item, and     *)
(* what is made of its beginning stays as it is (ConversionOK,             *)
(* WireBegins).  That the builder's histories are of this kind needs a     *)
(* second invariant, Timely, with a lemma for each action (...Timely).  It *)
(* holds as long as no fork has lost a result; once one has, the call is   *)
(* in the context without a result for good (CallsOK), and a history with  *)
(* such a call is refused (Refused).                                       *)
(***************************************************************************)
EXTENDS ModelRequests, FiniteSetTheorems, WellFoundedInduction, TLAPS

-----------------------------------------------------------------------------
(* What the invariant is made of.                                          *)

(* What the context is made of.                                            *)
Messages == {InputItem(i) : i \in Inputs} \cup {ResultItem(c, FALSE) : c \in CallIDs}

(* The items of a context.                                                 *)
Item ==
  [kind : {"input"}, id : Inputs] \cup [kind : {"call"}, id : CallIDs]
    \cup [kind : {"result"}, id : CallIDs, running : BOOLEAN] \cup [kind : {"summary"}]
    \cup [kind : {"answer"}, id : Nat, saw : SUBSET Messages]

(* What the model is told, an item at a time.                              *)
IsTold(x) == x.kind = "input" \/ (x.kind = "result" /\ ~x.running)

(* Nothing but a summary is there twice.                                   *)
OnceEach(s) ==
  \A p, q \in 1 .. Len(s) : s[p] = s[q] /\ s[p] # SummaryItem => p = q

(* A result comes after its call.                                          *)
CallsFirst(s) ==
  \A p \in 1 .. Len(s), c \in CallIDs, r \in BOOLEAN :
    s[p] = ResultItem(c, r) => \E q \in 1 .. Len(s) : q < p /\ s[q] = CallItem(c)

(* The final result of a call is its last.                                 *)
FinalsLast(s) ==
  \A p, q \in 1 .. Len(s), c \in CallIDs, r \in BOOLEAN :
    s[p] = ResultItem(c, FALSE) /\ s[q] = ResultItem(c, r) => q <= p

(* An answer has seen what stands before it, and nothing else.             *)
AnswersPlaced(s) ==
  \A p, q \in 1 .. Len(s) :
    s[p].kind = "answer" /\ IsTold(s[q]) => (s[q] \in s[p].saw <=> q < p)

(* What makes a sequence of items a history.                               *)
History(s) == OnceEach(s) /\ CallsFirst(s) /\ FinalsLast(s) /\ AnswersPlaced(s)

(* Where the items of the context come from, and where those given are.    *)
Sourced(s, G) ==
  \A p \in 1 .. Len(s) :
    s[p] \in G \/ s[p] = SummaryItem \/ \E c \in CallIDs : s[p] = ResultItem(c, TRUE)

Present(s, G, S) ==
  \A x \in G : Contains(s, x) \/ x \in S

(* Only a call has a final result, and an answer, by its number one of     *)
(* those so far, has seen only what was given.                             *)
GivenOK(G, n) ==
  /\ G \subseteq Item
  /\ SummaryItem \notin G
  /\ \A c \in CallIDs :
       /\ ResultItem(c, TRUE) \notin G
       /\ ResultItem(c, FALSE) \in G => CallItem(c) \in G
  /\ \A x \in G : x.kind = "answer" => x.id <= n /\ x.saw \subseteq G

(* The calls without a final result.                                       *)
CallsOK(s, U, R, G) ==
  /\ \A c \in U \cup R : Contains(s, CallItem(c)) /\ ResultItem(c, FALSE) \notin G
  /\ \A c \in R : Contains(s, ResultItem(c, TRUE))
  /\ \A c \in U : ~Contains(s, ResultItem(c, TRUE))
  /\ \A c \in CallIDs : Contains(s, CallItem(c)) =>
        c \in U \cup R \/ Contains(s, ResultItem(c, FALSE))

(* A context s with the calls U without result and R that run, when G was  *)
(* given, S summarized and n answers taken.                                *)
ContextOK(s, U, R, G, S, n) ==
  /\ s \in Seq(Item) /\ U \subseteq CallIDs /\ R \subseteq CallIDs \ U /\ n \in Nat
  /\ GivenOK(G, n)
  /\ History(s) /\ Sourced(s, G) /\ Present(s, G, S)
  /\ CallsOK(s, U, R, G)

(* What the request under way was built from is still there.               *)
AskedOK ==
  /\ asked # "none" => unscheduled = {}
  /\ asked = "regular" => sent = ToSet(committedPrefix)
  /\ asked = "compaction" => HasCutoff /\ sent = ToSet(CompactionRequest)

(* The parts of the builder; an answer is never staged.                    *)
StateOK ==
  /\ committedPrefix \in Seq(Item) /\ stagedSuffix \in Seq(Item)
  /\ prefixTokens \in Seq([index : Nat, tokens : Nat])
  /\ \A p \in 1 .. Len(stagedSuffix) : stagedSuffix[p].kind # "answer"

(* The calls without a result, of which some may still get one, and those  *)
(* with a running one.                                                     *)
Unanswered == unscheduled \cup lost
Shown == running \ lost

(* The inductive invariant.                                                *)
IInv ==
  /\ StateOK /\ TypeOK
  /\ ContextOK(Context, Unanswered, Shown, given, summarized, answers)
  /\ AskedOK

-----------------------------------------------------------------------------
(* Numbers.                                                                *)

(* A set of numbers has a least element.                                   *)
LEMMA LeastElement ==
  ASSUME NEW T \in SUBSET Nat, T # {}
  PROVE  \E n \in T : \A m \in T : n <= m
<1> DEFINE R == OpToRel(<, Nat)
<1>1. IsWellFoundedOn(R, Nat)
  BY NatLessThanWellFounded
<1>2. \A x \in Nat, y \in Nat : <<x, y>> \in R <=> x < y
  BY DEF OpToRel
<1> HIDE DEF R
<1>3. PICK x \in T : \A y \in T : ~(<<y, x>> \in R)
  BY <1>1, WFMin
<1>4. ASSUME NEW y \in T PROVE x <= y
  <2>1. x \in Nat /\ y \in Nat
    OBVIOUS
  <2>2. ~(y < x)
    BY <1>2, <1>3, <2>1, Zenon
  <2> QED
    BY <2>1, <2>2
<1> QED
  BY <1>4

(* A set that holds 0 and with every number the next one holds them all.   *)
LEMMA Induction ==
  ASSUME NEW T \in SUBSET Nat, 0 \in T, \A n \in T : n + 1 \in T
  PROVE  T = Nat
<1> SUFFICES ASSUME Nat \ T # {} PROVE FALSE
  OBVIOUS
<1>1. PICK n \in Nat \ T : \A m \in Nat \ T : n <= m
  BY LeastElement
<1> QED
  BY <1>1

(* The first of some positions.                                            *)
LEMMA MinIs ==
  ASSUME NEW S \in SUBSET Nat, S # {}
  PROVE  Min(S) \in S /\ \A x \in S : Min(S) <= x
<1>1. \E x \in S : \A y \in S : x =< y
  BY LeastElement
<1> QED
  BY <1>1 DEF Min

-----------------------------------------------------------------------------
(* Items.                                                                  *)

(* An item determines what it was made from.                               *)
LEMMA ItemsDiffer ==
  /\ \A i, j : InputItem(i) = InputItem(j) => i = j
  /\ \A c, d : CallItem(c) = CallItem(d) => c = d
  /\ \A c, d : \A r, q \in BOOLEAN : ResultItem(c, r) = ResultItem(d, q) => c = d /\ (r <=> q)
BY DEF InputItem, CallItem, ResultItem

(* The fields of items.                                                    *)
LEMMA ItemFields ==
  /\ \A i : InputItem(i).kind = "input"
  /\ \A c : CallItem(c).kind = "call" /\ CallItem(c).id = c
  /\ \A c, r : ResultItem(c, r).kind = "result" /\ ResultItem(c, r).id = c
  /\ SummaryItem.kind = "summary"
  /\ \A n, S : /\ AnswerItem(n, S).kind = "answer"
               /\ AnswerItem(n, S).id = n /\ AnswerItem(n, S).saw = S
BY DEF InputItem, CallItem, ResultItem, SummaryItem, AnswerItem

(* A result is no other item, and the running one not the final one.       *)
LEMMA ResultsDiffer ==
  ASSUME NEW c, NEW d
  PROVE  /\ ResultItem(c, TRUE) # ResultItem(d, FALSE)
         /\ \A r \in BOOLEAN : /\ ResultItem(c, r) # CallItem(d)
                               /\ ResultItem(c, r) # InputItem(d)
                               /\ ResultItem(c, r) # SummaryItem
         /\ CallItem(c) # SummaryItem /\ CallItem(c) # InputItem(d)
         /\ InputItem(c) # SummaryItem
         /\ ResultItem(c, TRUE).kind = "result" /\ ResultItem(c, FALSE).kind = "result"
         /\ ResultItem(c, TRUE).kind # "answer" /\ ResultItem(c, FALSE).kind # "answer"
         /\ CallItem(c).kind # "answer" /\ InputItem(c).kind # "answer"
<1>1. ResultItem(c, TRUE) # ResultItem(d, FALSE)
  BY ItemsDiffer
<1>2. ASSUME NEW r \in BOOLEAN
      PROVE  ResultItem(c, r) # CallItem(d) /\ ResultItem(c, r) # InputItem(d)
               /\ ResultItem(c, r) # SummaryItem
  BY DEF ResultItem, CallItem, InputItem, SummaryItem
<1>3. /\ CallItem(c) # SummaryItem /\ CallItem(c) # InputItem(d)
      /\ InputItem(c) # SummaryItem
  BY DEF CallItem, InputItem, SummaryItem
<1>4. /\ ResultItem(c, TRUE).kind = "result" /\ ResultItem(c, FALSE).kind = "result"
      /\ CallItem(c).kind # "answer" /\ InputItem(c).kind # "answer"
  BY DEF ResultItem, CallItem, InputItem
<1> QED
  BY <1>1, <1>2, <1>3, <1>4

(* Items of different kinds differ.                                        *)
LEMMA Distinct ==
  /\ \A c, d : /\ ResultItem(c, TRUE) # ResultItem(d, FALSE)
               /\ ResultItem(c, TRUE) # CallItem(d) /\ ResultItem(c, FALSE) # CallItem(d)
               /\ ResultItem(c, TRUE) # InputItem(d) /\ ResultItem(c, FALSE) # InputItem(d)
               /\ CallItem(c) # InputItem(d)
  /\ \A c : /\ ResultItem(c, TRUE) # SummaryItem /\ ResultItem(c, FALSE) # SummaryItem
            /\ CallItem(c) # SummaryItem /\ InputItem(c) # SummaryItem
<1>1. TRUE \in BOOLEAN /\ FALSE \in BOOLEAN
  OBVIOUS
<1> QED
  BY <1>1, ResultsDiffer, Zenon

(* One item of a sequence is replaced.                                     *)
LEMMA ReplaceIs ==
  ASSUME NEW X, NEW s \in Seq(X), NEW k \in 1 .. Len(s), NEW x \in X
  PROVE  /\ [s EXCEPT ![k] = x] \in Seq(X) /\ Len([s EXCEPT ![k] = x]) = Len(s)
         /\ [s EXCEPT ![k] = x][k] = x
         /\ \A p \in 1 .. Len(s) : p # k => [s EXCEPT ![k] = x][p] = s[p]
OBVIOUS

(* Which items are told.                                                   *)
LEMMA ToldItems ==
  /\ \A i : IsTold(InputItem(i))
  /\ \A c : ~IsTold(CallItem(c))
  /\ \A c : IsTold(ResultItem(c, FALSE)) /\ ~IsTold(ResultItem(c, TRUE))
  /\ ~IsTold(SummaryItem)
  /\ \A n, S : ~IsTold(AnswerItem(n, S))
<1>1. \A c : ResultItem(c, FALSE).running = FALSE /\ ResultItem(c, TRUE).running = TRUE
  BY DEF ResultItem
<1> QED
  BY <1>1, ItemFields, ZenonT(60) DEF IsTold

(* Every item is one of the five.                                          *)
LEMMA ItemKinds ==
  ASSUME NEW x \in Item
  PROVE  \/ \E i \in Inputs : x = InputItem(i)
         \/ \E c \in CallIDs : x = CallItem(c)
         \/ \E c \in CallIDs, r \in BOOLEAN : x = ResultItem(c, r)
         \/ x = SummaryItem
         \/ \E n \in Nat, S \in SUBSET Messages : x = AnswerItem(n, S)
<1>1. CASE x \in [kind : {"input"}, id : Inputs]
  <2>1. x.id \in Inputs /\ x = InputItem(x.id)
    BY <1>1 DEF InputItem
  <2> QED
    BY <2>1
<1>2. CASE x \in [kind : {"call"}, id : CallIDs]
  <2>1. x.id \in CallIDs /\ x = CallItem(x.id)
    BY <1>2 DEF CallItem
  <2> QED
    BY <2>1
<1>3. CASE x \in [kind : {"result"}, id : CallIDs, running : BOOLEAN]
  <2>1. x.id \in CallIDs /\ x.running \in BOOLEAN /\ x = ResultItem(x.id, x.running)
    BY <1>3 DEF ResultItem
  <2> QED
    BY <2>1
<1>4. CASE x \in [kind : {"summary"}]
  BY <1>4 DEF SummaryItem
<1>5. CASE x \in [kind : {"answer"}, id : Nat, saw : SUBSET Messages]
  <2>1. x.id \in Nat /\ x.saw \in SUBSET Messages /\ x = AnswerItem(x.id, x.saw)
    BY <1>5 DEF AnswerItem
  <2> QED
    BY <2>1
<1> QED
  BY <1>1, <1>2, <1>3, <1>4, <1>5 DEF Item

(* What the builder adds are items.                                        *)
LEMMA ItemsAre ==
  /\ \A i \in Inputs : InputItem(i) \in Item
  /\ \A c \in CallIDs : /\ CallItem(c) \in Item
                        /\ ResultItem(c, TRUE) \in Item /\ ResultItem(c, FALSE) \in Item
  /\ SummaryItem \in Item
  /\ \A n \in Nat, S \in SUBSET Messages : AnswerItem(n, S) \in Item
BY DEF Item, InputItem, CallItem, ResultItem, SummaryItem, AnswerItem

(* The kind of an item says what it is.                                    *)
LEMMA KindIs ==
  ASSUME NEW x \in Item
  PROVE  /\ x.kind = "call" => \E c \in CallIDs : x = CallItem(c)
         /\ x.kind = "result" => \E c \in CallIDs, r \in BOOLEAN : x = ResultItem(c, r)
         /\ x.kind = "answer" => \E n \in Nat, S \in SUBSET Messages : x = AnswerItem(n, S)
         /\ x.kind = "answer" => ~IsTold(x)
BY ItemKinds, ItemFields, ToldItems

-----------------------------------------------------------------------------
(* How the order of a history survives what is done to it.                 *)

(* An item that may come last: it is new, a result has its call before it  *)
(* and no final result, and no answer has seen it.                         *)
Addable(s, x) ==
  /\ x \in Item /\ x.kind # "answer"
  /\ ~Contains(s, x)
  /\ \A c \in CallIDs, r \in BOOLEAN : x = ResultItem(c, r) =>
       Contains(s, CallItem(c)) /\ ~Contains(s, ResultItem(c, FALSE))
  /\ IsTold(x) => \A p \in 1 .. Len(s) : s[p].kind = "answer" => x \notin s[p].saw

(* An item is appended to a history.                                       *)
LEMMA AppendKeepsHistory ==
  ASSUME NEW s \in Seq(Item), NEW x, History(s), Addable(s, x)
  PROVE  History(Append(s, x))
<1> DEFINE t == Append(s, x)
<1>1. /\ Len(t) = Len(s) + 1 /\ Len(s) \in Nat /\ t[Len(t)] = x
      /\ \A p \in 1 .. Len(s) : t[p] = s[p]
      /\ \A p \in 1 .. Len(t) : p \in 1 .. Len(s) \/ p = Len(t)
  OBVIOUS
<1> HIDE DEF t
<1>2. OnceEach(t)
  BY <1>1 DEF OnceEach, History, Addable, Contains
<1>3. CallsFirst(t)
  <2> SUFFICES ASSUME NEW p \in 1 .. Len(t), NEW c \in CallIDs, NEW r \in BOOLEAN,
                      t[p] = ResultItem(c, r)
               PROVE  \E q \in 1 .. Len(t) : q < p /\ t[q] = CallItem(c)
    BY DEF CallsFirst
  <2>1. CASE p \in 1 .. Len(s)
    <3>1. s[p] = ResultItem(c, r)
      BY <1>1, <2>1
    <3>2. PICK q \in 1 .. Len(s) : q < p /\ s[q] = CallItem(c)
      BY <2>1, <3>1 DEF History, CallsFirst
    <3> QED
      BY <1>1, <3>2
  <2>2. CASE p = Len(t)
    <3>1. x = ResultItem(c, r)
      BY <1>1, <2>2
    <3>2. PICK q \in 1 .. Len(s) : s[q] = CallItem(c)
      BY <3>1 DEF Addable, Contains
    <3> QED
      BY <1>1, <2>2, <3>2
  <2> QED
    BY <1>1, <2>1, <2>2
<1>4. FinalsLast(t)
  <2> SUFFICES ASSUME NEW p \in 1 .. Len(t), NEW q \in 1 .. Len(t), NEW c \in CallIDs,
                      NEW r \in BOOLEAN, t[p] = ResultItem(c, FALSE), t[q] = ResultItem(c, r)
               PROVE  q <= p
    BY DEF FinalsLast
  <2>1. CASE p = Len(t)
    BY <1>1, <2>1
  <2>2. CASE p \in 1 .. Len(s) /\ q \in 1 .. Len(s)
    <3>1. s[p] = ResultItem(c, FALSE) /\ s[q] = ResultItem(c, r)
      BY <1>1, <2>2
    <3> QED
      BY <2>2, <3>1 DEF History, FinalsLast
  <2>3. CASE p \in 1 .. Len(s) /\ q = Len(t)
    <3>1. s[p] = ResultItem(c, FALSE) /\ x = ResultItem(c, r)
      BY <1>1, <2>3
    <3> QED
      BY <2>3, <3>1 DEF Addable, Contains
  <2> QED
    BY <1>1, <2>1, <2>2, <2>3
<1>5. AnswersPlaced(t)
  <2> SUFFICES ASSUME NEW p \in 1 .. Len(t), NEW q \in 1 .. Len(t),
                      t[p].kind = "answer", IsTold(t[q])
               PROVE  t[q] \in t[p].saw <=> q < p
    BY DEF AnswersPlaced
  <2>1. p \in 1 .. Len(s) /\ t[p] = s[p]
    BY <1>1 DEF Addable
  <2>2. CASE q \in 1 .. Len(s)
    <3>1. t[q] = s[q]
      BY <1>1, <2>2
    <3> QED
      BY <2>1, <2>2, <3>1 DEF History, AnswersPlaced
  <2>3. CASE q = Len(t)
    BY <1>1, <2>1, <2>3 DEF Addable
  <2> QED
    BY <1>1, <2>2, <2>3
<1> QED
  BY <1>2, <1>3, <1>4, <1>5 DEF History, t

(* A running result is replaced by the final one.                          *)
Replaceable(s, k, c) ==
  /\ c \in CallIDs /\ k \in 1 .. Len(s) /\ s[k] = ResultItem(c, TRUE)
  /\ ~Contains(s, ResultItem(c, FALSE))
  /\ \A p \in 1 .. Len(s) : s[p].kind = "answer" =>
       p < k /\ ResultItem(c, FALSE) \notin s[p].saw

(* A running result becomes the final one where it stands.                 *)
LEMMA ReplaceKeepsHistory ==
  ASSUME NEW s \in Seq(Item), NEW k, NEW c, History(s), Replaceable(s, k, c)
  PROVE  History([s EXCEPT ![k] = ResultItem(c, FALSE)])
<1> DEFINE t == [s EXCEPT ![k] = ResultItem(c, FALSE)]
<1>1. /\ Len(t) = Len(s) /\ Len(s) \in Nat /\ t[k] = ResultItem(c, FALSE)
      /\ k \in 1 .. Len(s) /\ c \in CallIDs
      /\ \A p \in 1 .. Len(s) : p # k => t[p] = s[p]
  <2>1. k \in 1 .. Len(s) /\ c \in CallIDs /\ Len(s) \in Nat
    BY DEF Replaceable
  <2>2. ResultItem(c, FALSE) \in Item
    BY <2>1, ItemsAre, Zenon
  <2>3. /\ Len(t) = Len(s) /\ t[k] = ResultItem(c, FALSE)
        /\ \A p \in 1 .. Len(s) : p # k => t[p] = s[p]
    <3> DEFINE x == ResultItem(c, FALSE)
    <3>1. x \in Item
      BY <2>2
    <3> HIDE DEF x
    <3>2. /\ Len([s EXCEPT ![k] = x]) = Len(s) /\ [s EXCEPT ![k] = x][k] = x
          /\ \A p \in 1 .. Len(s) : p # k => [s EXCEPT ![k] = x][p] = s[p]
      BY <2>1, <3>1, ReplaceIs
    <3> QED
      BY <3>2 DEF x
  <2> QED
    BY <2>1, <2>3, Zenon
<1> HIDE DEF t
<1>2. OnceEach(t)
  BY <1>1 DEF OnceEach, History, Replaceable, Contains
<1>3. CallsFirst(t)
  <2> SUFFICES ASSUME NEW p \in 1 .. Len(t), NEW d \in CallIDs, NEW r \in BOOLEAN,
                      t[p] = ResultItem(d, r)
               PROVE  \E q \in 1 .. Len(t) : q < p /\ t[q] = CallItem(d)
    BY DEF CallsFirst
  <2>1. \E b \in BOOLEAN : s[p] = ResultItem(d, b)
    <3>1. CASE p = k
      <4>1. d = c
        BY <1>1, <3>1, ItemsDiffer
      <4> QED
        BY <3>1, <4>1 DEF Replaceable
    <3>2. CASE p # k
      BY <1>1, <3>2
    <3> QED
      BY <3>1, <3>2
  <2>2. PICK q \in 1 .. Len(s) : q < p /\ s[q] = CallItem(d)
    BY <1>1, <2>1 DEF History, CallsFirst
  <2>3. q # k
    BY <2>2, ResultsDiffer DEF Replaceable
  <2> QED
    BY <1>1, <2>2, <2>3
<1>4. FinalsLast(t)
  <2> SUFFICES ASSUME NEW p \in 1 .. Len(t), NEW q \in 1 .. Len(t), NEW d \in CallIDs,
                      NEW r \in BOOLEAN, t[p] = ResultItem(d, FALSE), t[q] = ResultItem(d, r)
               PROVE  q <= p
    BY DEF FinalsLast
  <2>1. CASE p = k
    <3>1. d = c
      BY <1>1, <2>1, ItemsDiffer
    <3>2. q = k
      <4> SUFFICES ASSUME q # k PROVE FALSE
        OBVIOUS
      <4>1. s[q] = ResultItem(c, r) /\ q \in 1 .. Len(s)
        BY <1>1, <3>1
      <4>2. CASE r = TRUE
        BY <4>1, <4>2, ResultsDiffer DEF History, OnceEach, Replaceable
      <4>3. CASE r = FALSE
        BY <4>1, <4>3 DEF Replaceable, Contains
      <4> QED
        BY <4>2, <4>3
    <3> QED
      BY <1>1, <2>1, <3>2
  <2>2. CASE p # k
    <3>1. s[p] = ResultItem(d, FALSE) /\ p \in 1 .. Len(s)
      BY <1>1, <2>2
    <3>2. CASE q = k
      <4>1. d = c
        BY <1>1, <3>2, ItemsDiffer
      <4> QED
        BY <3>1, <4>1 DEF Replaceable, Contains
    <3>3. CASE q # k
      <4>1. s[q] = ResultItem(d, r) /\ q \in 1 .. Len(s)
        BY <1>1, <3>3
      <4> QED
        BY <3>1, <4>1 DEF History, FinalsLast
    <3> QED
      BY <3>2, <3>3
  <2> QED
    BY <2>1, <2>2
<1>5. AnswersPlaced(t)
  <2> SUFFICES ASSUME NEW p \in 1 .. Len(t), NEW q \in 1 .. Len(t),
                      t[p].kind = "answer", IsTold(t[q])
               PROVE  t[q] \in t[p].saw <=> q < p
    BY DEF AnswersPlaced
  <2>1. p # k /\ t[p] = s[p] /\ p \in 1 .. Len(s)
    BY <1>1, ResultsDiffer
  <2>2. CASE q = k
    <3>1. p < k /\ ResultItem(c, FALSE) \notin s[p].saw
      BY <2>1 DEF Replaceable
    <3>2. t[q] = ResultItem(c, FALSE)
      BY <1>1, <2>2
    <3>3. p \in Nat /\ q \in Nat /\ p < q
      BY <1>1, <2>2, <3>1
    <3>4. t[q] \notin t[p].saw
      BY <2>1, <3>1, <3>2
    <3>5. ~(q < p)
      BY <3>3
    <3> QED
      BY <3>4, <3>5
  <2>3. CASE q # k
    <3>1. t[q] = s[q]
      BY <1>1, <2>3
    <3> QED
      BY <1>1, <2>1, <3>1 DEF History, AnswersPlaced
  <2> QED
    BY <2>2, <2>3
<1> QED
  BY <1>2, <1>3, <1>4, <1>5 DEF History, t

(* The items at the positions Old of t are items of s, in the same order.  *)
Moved(s, t, Old, b) ==
  /\ Old \subseteq 1 .. Len(t)
  /\ \A p \in Old : b[p] \in 1 .. Len(s) /\ t[p] = s[b[p]]
  /\ \A p, q \in Old : p < q <=> b[p] < b[q]

(* Items that keep their order keep what a history says of two of them.    *)
LEMMA MovedItems ==
  ASSUME NEW s \in Seq(Item), NEW t \in Seq(Item), NEW Old, NEW b, History(s), Moved(s, t, Old, b)
  PROVE  /\ \A p, q \in Old : t[p] = t[q] /\ t[p] # SummaryItem => p = q
         /\ \A p, q \in Old, c \in CallIDs, r \in BOOLEAN :
              t[p] = ResultItem(c, FALSE) /\ t[q] = ResultItem(c, r) => q <= p
         /\ \A p, q \in Old :
              t[p].kind = "answer" /\ IsTold(t[q]) => (t[q] \in t[p].saw <=> q < p)
<1>1. \A p \in Old : /\ p \in Nat /\ b[p] \in Nat
                     /\ b[p] \in 1 .. Len(s) /\ t[p] = s[b[p]]
  BY DEF Moved
<1>2. \A p, q \in Old : p < q <=> b[p] < b[q]
  BY DEF Moved
<1>3. ASSUME NEW p \in Old, NEW q \in Old, t[p] = t[q], t[p] # SummaryItem PROVE p = q
  <2>1. b[p] = b[q]
    BY <1>1, <1>3 DEF History, OnceEach
  <2>2. ~(p < q) /\ ~(q < p)
    BY <1>1, <1>2, <2>1
  <2> QED
    BY <1>1, <2>2
<1>4. ASSUME NEW p \in Old, NEW q \in Old, NEW c \in CallIDs, NEW r \in BOOLEAN,
             t[p] = ResultItem(c, FALSE), t[q] = ResultItem(c, r)
      PROVE  q <= p
  <2>1. b[q] <= b[p]
    BY <1>1, <1>4 DEF History, FinalsLast
  <2>2. ~(p < q)
    BY <1>1, <1>2, <2>1
  <2> QED
    BY <1>1, <2>2
<1>5. ASSUME NEW p \in Old, NEW q \in Old, t[p].kind = "answer", IsTold(t[q])
      PROVE  t[q] \in t[p].saw <=> q < p
  <2>1. s[b[q]] \in s[b[p]].saw <=> b[q] < b[p]
    BY <1>1, <1>5 DEF History, AnswersPlaced
  <2>2. t[p] = s[b[p]] /\ t[q] = s[b[q]] /\ (q < p <=> b[q] < b[p])
    BY <1>1, <1>2
  <2> QED
    BY <2>1, <2>2, Zenon
<1> QED
  BY <1>3, <1>4, <1>5, Zenon

-----------------------------------------------------------------------------
(* Sequences.                                                              *)

(* The items of a concatenation.                                           *)
LEMMA ConcatIs ==
  ASSUME NEW X, NEW a \in Seq(X), NEW b \in Seq(X)
  PROVE  /\ a \o b \in Seq(X) /\ Len(a \o b) = Len(a) + Len(b)
         /\ Len(a) \in Nat /\ Len(b) \in Nat
         /\ \A p \in 1 .. Len(a) : p \in 1 .. Len(a) + Len(b) /\ (a \o b)[p] = a[p]
         /\ \A p \in 1 .. Len(b) : (a \o b)[Len(a) + p] = b[p]
         /\ \A p \in 1 .. Len(a) + Len(b) :
              (a \o b)[p] = IF p <= Len(a) THEN a[p] ELSE b[p - Len(a)]
OBVIOUS

(* The items of a part of a sequence.                                      *)
LEMMA SubSeqIs ==
  ASSUME NEW X, NEW s \in Seq(X), NEW m \in Nat, NEW n \in Nat,
         1 <= m, m <= n + 1, n <= Len(s)
  PROVE  /\ SubSeq(s, m, n) \in Seq(X) /\ Len(SubSeq(s, m, n)) = n + 1 - m
         /\ \A p \in 1 .. n + 1 - m : SubSeq(s, m, n)[p] = s[p + m - 1]
<1>1. \A p \in m .. n : p \in 1 .. Len(s) /\ s[p] \in X
  OBVIOUS
<1>2. n + 1 - m \in Nat
  OBVIOUS
<1>3. SubSeq(s, m, n) = [p \in 1 .. n + 1 - m |-> s[p + m - 1]]
  OBVIOUS
<1>4. \A p \in 1 .. n + 1 - m : p + m - 1 \in m .. n
  OBVIOUS
<1> DEFINE k == n + 1 - m
           g == [p \in 1 .. k |-> s[p + m - 1]]
<1>5. k \in Nat /\ g \in [1 .. k -> X] /\ \A p \in 1 .. k : g[p] = s[p + m - 1]
  BY <1>1, <1>2, <1>4
<1>6. SubSeq(s, m, n) = g
  BY <1>3
<1> HIDE DEF g
<1>7. g \in Seq(X) /\ Len(g) = k
  BY <1>5
<1> QED
  BY <1>5, <1>6, <1>7

-----------------------------------------------------------------------------
(* What a response adds in the middle: an answer that has seen everything  *)
(* before it and nothing behind it, and new calls.                         *)
Insertable(A, O, B) ==
  /\ \A k \in 1 .. Len(O) : O[k].kind = "answer" \/ \E c \in CallIDs : O[k] = CallItem(c)
  /\ \A j, k \in 1 .. Len(O) : O[j] = O[k] => j = k
  /\ \A k \in 1 .. Len(O) : ~Contains(A, O[k]) /\ ~Contains(B, O[k])
  /\ \A k \in 1 .. Len(O) : O[k].kind = "answer" =>
       /\ \A p \in 1 .. Len(A) : IsTold(A[p]) => A[p] \in O[k].saw
       /\ \A p \in 1 .. Len(B) : IsTold(B[p]) => B[p] \notin O[k].saw

(* The items when some are inserted.                                       *)
LEMMA InsertedIs ==
  ASSUME NEW A \in Seq(Item), NEW O \in Seq(Item), NEW B \in Seq(Item)
  PROVE  /\ A \o B \in Seq(Item) /\ (A \o O) \o B \in Seq(Item)
         /\ Len(A) \in Nat /\ Len(O) \in Nat /\ Len(B) \in Nat
         /\ Len(A \o B) = Len(A) + Len(B) /\ Len((A \o O) \o B) = Len(A) + Len(O) + Len(B)
         /\ \A p \in 1 .. Len(A) : ((A \o O) \o B)[p] = A[p] /\ (A \o B)[p] = A[p]
         /\ \A p \in 1 .. Len(O) : ((A \o O) \o B)[Len(A) + p] = O[p]
         /\ \A p \in 1 .. Len(B) : /\ ((A \o O) \o B)[Len(A) + Len(O) + p] = B[p]
                                   /\ (A \o B)[Len(A) + p] = B[p]
<1>1. A \o O \in Seq(Item) /\ Len(A \o O) = Len(A) + Len(O)
  BY ConcatIs
<1> QED
  BY <1>1, ConcatIs

(* An answer with its calls is inserted into a history.                    *)
LEMMA InsertKeepsHistory ==
  ASSUME NEW A \in Seq(Item), NEW O \in Seq(Item), NEW B \in Seq(Item),
         History(A \o B), Insertable(A, O, B)
  PROVE  History((A \o O) \o B)
<1> DEFINE s == A \o B
           t == (A \o O) \o B
           a == Len(A)
           o == Len(O)
           n == Len(B)
           Mid == (a + 1) .. (a + o)
           Old == (1 .. a) \cup ((a + o + 1) .. (a + o + n))
           b == [p \in Old |-> IF p <= a THEN p ELSE p - o]
<1>1. /\ s \in Seq(Item) /\ t \in Seq(Item)
      /\ a \in Nat /\ o \in Nat /\ n \in Nat /\ Len(s) = a + n /\ Len(t) = a + o + n
      /\ \A p \in 1 .. a : t[p] = A[p] /\ s[p] = A[p]
      /\ \A p \in 1 .. o : t[a + p] = O[p]
      /\ \A p \in 1 .. n : t[a + o + p] = B[p] /\ s[a + p] = B[p]
  BY InsertedIs
<1> HIDE DEF s, t
<1>2. \A p \in Mid : p - a \in 1 .. o /\ t[p] = O[p - a]
  <2> SUFFICES ASSUME NEW p \in Mid PROVE p - a \in 1 .. o /\ t[p] = O[p - a]
    OBVIOUS
  <2>1. p - a \in 1 .. o /\ a + (p - a) = p
    BY <1>1
  <2> QED
    BY <1>1, <2>1
<1>3. \A p \in (a + o + 1) .. (a + o + n) :
        p - (a + o) \in 1 .. n /\ t[p] = B[p - (a + o)] /\ s[p - o] = B[p - (a + o)]
  <2> SUFFICES ASSUME NEW p \in (a + o + 1) .. (a + o + n)
               PROVE  p - (a + o) \in 1 .. n /\ t[p] = B[p - (a + o)] /\ s[p - o] = B[p - (a + o)]
    OBVIOUS
  <2>1. p - (a + o) \in 1 .. n /\ a + o + (p - (a + o)) = p /\ a + (p - (a + o)) = p - o
    BY <1>1
  <2> QED
    BY <1>1, <2>1
<1>4. Moved(s, t, Old, b)
  <2>1. Old \subseteq 1 .. Len(t)
    BY <1>1
  <2>2. \A p \in Old : b[p] \in 1 .. Len(s) /\ t[p] = s[b[p]]
    BY <1>1, <1>3
  <2>3. \A p, q \in Old : p < q <=> b[p] < b[q]
    BY <1>1
  <2> QED
    BY <2>1, <2>2, <2>3 DEF Moved
<1>5. \A k \in 1 .. Len(s) : \E p \in Old : b[p] = k
  <2> SUFFICES ASSUME NEW k \in 1 .. Len(s) PROVE \E p \in Old : b[p] = k
    OBVIOUS
  <2>1. CASE k <= a
    <3>1. k \in Old /\ b[k] = k
      BY <1>1, <2>1
    <3> QED
      BY <3>1
  <2>2. CASE k > a
    <3>1. k + o \in Old /\ b[k + o] = k
      BY <1>1, <2>2
    <3> QED
      BY <3>1
  <2>3. k \in Nat /\ a \in Nat
    BY <1>1
  <2>4. k <= a \/ k > a
    BY <2>3
  <2> QED
    BY <2>1, <2>2, <2>4
<1>6. 1 .. Len(t) = Mid \cup Old /\ \A p \in Mid, q \in Old : p # q
  BY <1>1
<1>7. /\ \A p \in Old : t[p] \in {A[k] : k \in 1 .. a} \cup {B[k] : k \in 1 .. n}
      /\ \A p \in Mid : t[p].kind = "answer" \/ \E c \in CallIDs : t[p] = CallItem(c)
  <2>1. \A p \in Old : t[p] \in {A[k] : k \in 1 .. a} \cup {B[k] : k \in 1 .. n}
    BY <1>1, <1>3
  <2> QED
    BY <1>2, <2>1, SMTT(30) DEF Insertable
<1>8. \A p \in Mid, q \in Old :
        /\ t[p] # t[q]
        /\ t[p].kind = "answer" /\ IsTold(t[q]) => (t[q] \in t[p].saw <=> q < p)
  <2> SUFFICES ASSUME NEW p \in Mid, NEW q \in Old
               PROVE  /\ t[p] # t[q]
                      /\ t[p].kind = "answer" /\ IsTold(t[q]) => (t[q] \in t[p].saw <=> q < p)
    OBVIOUS
  <2>1. p - a \in 1 .. o /\ t[p] = O[p - a]
    BY <1>2
  <2>2. t[p] # t[q]
    BY <1>7, <2>1, ZenonT(60) DEF Insertable, Contains
  <2>3. ASSUME t[p].kind = "answer", IsTold(t[q])
        PROVE  t[q] \in t[p].saw <=> q < p
    <3>1. CASE q \in 1 .. a
      <4>1. q < p /\ t[q] = A[q]
        BY <1>1, <3>1
      <4>2. A[q] \in O[p - a].saw
        BY <2>1, <2>3, <3>1, <4>1 DEF Insertable
      <4> QED
        BY <2>1, <4>1, <4>2
    <3>2. CASE q \in (a + o + 1) .. (a + o + n)
      <4>1. ~(q < p) /\ q - (a + o) \in 1 .. n /\ t[q] = B[q - (a + o)]
        BY <1>1, <1>3, <3>2
      <4>2. B[q - (a + o)] \notin O[p - a].saw
        BY <2>1, <2>3, <4>1 DEF Insertable
      <4> QED
        BY <2>1, <4>1, <4>2
    <3> QED
      BY <3>1, <3>2
  <2> QED
    BY <2>2, <2>3
<1>9. \A p \in Mid : ~IsTold(t[p]) /\ \A c \in CallIDs, r \in BOOLEAN : t[p] # ResultItem(c, r)
  <2> SUFFICES ASSUME NEW p \in Mid
               PROVE  ~IsTold(t[p]) /\ \A c \in CallIDs, r \in BOOLEAN : t[p] # ResultItem(c, r)
    OBVIOUS
  <2>1. t[p] \in Item
    BY <1>1, <1>6
  <2>2. CASE t[p].kind = "answer"
    BY <2>1, <2>2, KindIs, ItemFields
  <2>3. CASE \E c \in CallIDs : t[p] = CallItem(c)
    BY <2>3, ToldItems, ResultsDiffer
  <2> QED
    BY <1>7, <2>2, <2>3
<1> HIDE DEF Old, Mid, b
<1>10. /\ \A p, q \in Old : t[p] = t[q] /\ t[p] # SummaryItem => p = q
       /\ \A p, q \in Old, c \in CallIDs, r \in BOOLEAN :
            t[p] = ResultItem(c, FALSE) /\ t[q] = ResultItem(c, r) => q <= p
       /\ \A p, q \in Old :
            t[p].kind = "answer" /\ IsTold(t[q]) => (t[q] \in t[p].saw <=> q < p)
  BY <1>1, <1>4, MovedItems DEF s
<1>11. OnceEach(t)
  <2> SUFFICES ASSUME NEW p \in 1 .. Len(t), NEW q \in 1 .. Len(t), t[p] = t[q], t[p] # SummaryItem
               PROVE  p = q
    BY DEF OnceEach
  <2>1. CASE p \in Mid /\ q \in Mid
    <3>1. p - a = q - a
      BY <1>2, <2>1 DEF Insertable
    <3> QED
      BY <1>1, <3>1
  <2>2. CASE p \in Old /\ q \in Old
    BY <1>10, <2>2
  <2> QED
    BY <1>6, <1>8, <2>1, <2>2
<1>12. CallsFirst(t)
  <2> SUFFICES ASSUME NEW p \in 1 .. Len(t), NEW c \in CallIDs, NEW r \in BOOLEAN,
                      t[p] = ResultItem(c, r)
               PROVE  \E q \in 1 .. Len(t) : q < p /\ t[q] = CallItem(c)
    BY DEF CallsFirst
  <2>1. p \in Old
    BY <1>6, <1>9
  <2>2. b[p] \in 1 .. Len(s) /\ s[b[p]] = ResultItem(c, r)
    BY <1>4, <2>1 DEF Moved
  <2>3. PICK k \in 1 .. Len(s) : k < b[p] /\ s[k] = CallItem(c)
    BY <2>2 DEF History, CallsFirst, s
  <2>4. PICK q \in Old : b[q] = k
    BY <1>5
  <2>5. q < p /\ t[q] = CallItem(c)
    BY <1>4, <2>1, <2>3, <2>4 DEF Moved
  <2> QED
    BY <1>6, <2>5
<1>13. FinalsLast(t)
  BY <1>6, <1>9, <1>10 DEF FinalsLast
<1>14. AnswersPlaced(t)
  <2> SUFFICES ASSUME NEW p \in 1 .. Len(t), NEW q \in 1 .. Len(t),
                      t[p].kind = "answer", IsTold(t[q])
               PROVE  t[q] \in t[p].saw <=> q < p
    BY DEF AnswersPlaced
  <2>1. q \in Old
    BY <1>6, <1>9
  <2>2. CASE p \in Mid
    BY <1>8, <2>1, <2>2
  <2>3. CASE p \in Old
    BY <1>10, <2>1, <2>3
  <2> QED
    BY <1>6, <2>2, <2>3
<1> QED
  BY <1>11, <1>12, <1>13, <1>14 DEF History, t

-----------------------------------------------------------------------------
(* What a compaction puts in the place of a prefix P: nothing but the      *)
(* summary and the pending calls, each with its running result.            *)
CarryOK(P, H) ==
  /\ \A p \in 1 .. Len(H) :
       \/ H[p] = SummaryItem
       \/ /\ Contains(P, H[p])
          /\ \E c \in CallIDs : H[p] = CallItem(c) \/ H[p] = ResultItem(c, TRUE)
  /\ \A p, q \in 1 .. Len(H) : H[p] = H[q] /\ H[p] # SummaryItem => p = q
  /\ \A p \in 1 .. Len(H), c \in CallIDs :
       H[p] = ResultItem(c, TRUE) => \E q \in 1 .. Len(H) : q < p /\ H[q] = CallItem(c)
  /\ \A c \in CallIDs :
       Contains(P, CallItem(c)) /\ ~Contains(P, ResultItem(c, FALSE)) =>
         /\ Contains(H, CallItem(c))
         /\ Contains(P, ResultItem(c, TRUE)) => Contains(H, ResultItem(c, TRUE))
  /\ \A c \in CallIDs : Contains(H, CallItem(c)) => ~Contains(P, ResultItem(c, FALSE))

(* The items of one sequence behind another.                               *)
LEMMA ContainsConcat ==
  ASSUME NEW X, NEW a \in Seq(X), NEW b \in Seq(X), NEW x
  PROVE  Contains(a \o b, x) <=> Contains(a, x) \/ Contains(b, x)
<1> DEFINE t == a \o b
<1>1. /\ Len(t) = Len(a) + Len(b) /\ Len(a) \in Nat /\ Len(b) \in Nat
      /\ \A p \in 1 .. Len(a) : p \in 1 .. Len(t) /\ t[p] = a[p]
      /\ \A p \in 1 .. Len(b) : t[Len(a) + p] = b[p] /\ Len(a) + p \in 1 .. Len(t)
      /\ \A p \in 1 .. Len(t) : t[p] = IF p <= Len(a) THEN a[p] ELSE b[p - Len(a)]
  BY ConcatIs
<1> HIDE DEF t
<1>2. ASSUME Contains(t, x) PROVE Contains(a, x) \/ Contains(b, x)
  <2>1. PICK p \in 1 .. Len(t) : t[p] = x
    BY <1>2 DEF Contains
  <2>2. CASE p <= Len(a)
    BY <1>1, <2>1, <2>2 DEF Contains
  <2>3. CASE ~(p <= Len(a))
    <3>1. p - Len(a) \in 1 .. Len(b) /\ b[p - Len(a)] = x
      BY <1>1, <2>1, <2>3
    <3> QED
      BY <3>1 DEF Contains
  <2> QED
    BY <2>2, <2>3
<1>3. ASSUME Contains(a, x) PROVE Contains(t, x)
  BY <1>1, <1>3 DEF Contains
<1>4. ASSUME Contains(b, x) PROVE Contains(t, x)
  BY <1>1, <1>4 DEF Contains
<1> QED
  BY <1>2, <1>3, <1>4 DEF t

(* Two places of a history: an item but a summary is in one part of it.    *)
LEMMA OncePart ==
  ASSUME NEW P \in Seq(Item), NEW R \in Seq(Item), OnceEach(P \o R), NEW x, x # SummaryItem,
         Contains(P, x), Contains(R, x)
  PROVE  FALSE
<1> DEFINE s == P \o R
<1>1. /\ Len(s) = Len(P) + Len(R) /\ Len(P) \in Nat /\ Len(R) \in Nat
      /\ \A p \in 1 .. Len(P) : p \in 1 .. Len(s) /\ s[p] = P[p]
      /\ \A p \in 1 .. Len(R) : s[Len(P) + p] = R[p] /\ Len(P) + p \in 1 .. Len(s)
  BY ConcatIs
<1>2. PICK p \in 1 .. Len(P) : P[p] = x
  BY DEF Contains
<1>3. PICK q \in 1 .. Len(R) : R[q] = x
  BY DEF Contains
<1>4. OnceEach(s)
  OBVIOUS
<1> HIDE DEF s
<1>5. p = Len(P) + q
  BY <1>1, <1>2, <1>3, <1>4 DEF OnceEach
<1> QED
  BY <1>1, <1>5

(* The call of a result that a prefix holds is in the prefix.              *)
LEMMA CallInPrefix ==
  ASSUME NEW P \in Seq(Item), NEW R \in Seq(Item), CallsFirst(P \o R),
         NEW c \in CallIDs, NEW r \in BOOLEAN, Contains(P, ResultItem(c, r))
  PROVE  Contains(P, CallItem(c))
<1> DEFINE s == P \o R
<1>1. /\ Len(s) = Len(P) + Len(R) /\ Len(P) \in Nat /\ Len(R) \in Nat
      /\ \A p \in 1 .. Len(P) : p \in 1 .. Len(s) /\ s[p] = P[p]
  BY ConcatIs
<1>2. PICK p \in 1 .. Len(P) : P[p] = ResultItem(c, r)
  BY DEF Contains
<1>3. CallsFirst(s)
  OBVIOUS
<1> HIDE DEF s
<1>4. PICK q \in 1 .. Len(s) : q < p /\ s[q] = CallItem(c)
  BY <1>1, <1>2, <1>3 DEF CallsFirst
<1> QED
  BY <1>1, <1>4 DEF Contains

(* A prefix of a history is replaced by what is carried of it.             *)
LEMMA CompactKeepsHistory ==
  ASSUME NEW P \in Seq(Item), NEW R \in Seq(Item), NEW H \in Seq(Item),
         History(P \o R), CarryOK(P, H)
  PROVE  History(H \o R)
<1> DEFINE s == P \o R
           t == H \o R
           a == Len(P)
           h == Len(H)
           n == Len(R)
           Old == (h + 1) .. (h + n)
           b == [p \in Old |-> p - h + a]
<1>1. /\ s \in Seq(Item) /\ t \in Seq(Item)
      /\ a \in Nat /\ h \in Nat /\ n \in Nat /\ Len(s) = a + n /\ Len(t) = h + n
      /\ \A p \in 1 .. a : s[p] = P[p]
      /\ \A p \in 1 .. h : t[p] = H[p]
      /\ \A p \in 1 .. n : t[h + p] = R[p] /\ s[a + p] = R[p]
  BY ConcatIs
<1>2. OnceEach(s) /\ CallsFirst(s) /\ FinalsLast(s)
  BY DEF History
<1> HIDE DEF s, t
<1>3. \A p \in Old : p - h \in 1 .. n /\ t[p] = R[p - h] /\ b[p] = a + (p - h) /\ t[p] = s[b[p]]
  <2> SUFFICES ASSUME NEW p \in Old
               PROVE  p - h \in 1 .. n /\ t[p] = R[p - h] /\ b[p] = a + (p - h) /\ t[p] = s[b[p]]
    OBVIOUS
  <2>1. p - h \in 1 .. n /\ h + (p - h) = p /\ b[p] = a + (p - h)
    BY <1>1
  <2> DEFINE k == p - h
  <2> HIDE DEF k
  <2>2. t[h + k] = R[k] /\ s[a + k] = R[k]
    BY <1>1, <2>1 DEF k
  <2> QED
    BY <2>1, <2>2 DEF k
<1>4. Moved(s, t, Old, b)
  <2>1. Old \subseteq 1 .. Len(t)
    BY <1>1
  <2>2. \A p \in Old : b[p] \in 1 .. Len(s)
    BY <1>1
  <2>3. \A p, q \in Old : p < q <=> b[p] < b[q]
    BY <1>1
  <2> QED
    BY <1>3, <2>1, <2>2, <2>3 DEF Moved
<1>5. /\ \A p \in 1 .. Len(t) : p \in 1 .. h \/ p \in Old
      /\ \A p \in 1 .. h : p \in 1 .. Len(t)
      /\ \A p \in 1 .. h, q \in Old : p < q
      /\ \A p \in Old : b[p] > a
      /\ \A k \in 1 .. Len(s) : k > a => k - a + h \in Old /\ b[k - a + h] = k
  BY <1>1
<1> HIDE DEF Old, b
<1>6. /\ \A p, q \in Old : t[p] = t[q] /\ t[p] # SummaryItem => p = q
      /\ \A p, q \in Old, c \in CallIDs, r \in BOOLEAN :
           t[p] = ResultItem(c, FALSE) /\ t[q] = ResultItem(c, r) => q <= p
      /\ \A p, q \in Old :
           t[p].kind = "answer" /\ IsTold(t[q]) => (t[q] \in t[p].saw <=> q < p)
  BY <1>1, <1>4, MovedItems DEF s
<1>7. \A p \in 1 .. h :
        \/ t[p] = SummaryItem
        \/ /\ Contains(P, t[p])
           /\ \E c \in CallIDs : t[p] = CallItem(c) \/ t[p] = ResultItem(c, TRUE)
  <2> SUFFICES ASSUME NEW p \in 1 .. h
               PROVE  \/ t[p] = SummaryItem
                      \/ /\ Contains(P, t[p])
                         /\ \E c \in CallIDs : t[p] = CallItem(c) \/ t[p] = ResultItem(c, TRUE)
    OBVIOUS
  <2>1. t[p] = H[p]
    BY <1>1
  <2>2. \/ H[p] = SummaryItem
        \/ /\ Contains(P, H[p])
           /\ \E c \in CallIDs : H[p] = CallItem(c) \/ H[p] = ResultItem(c, TRUE)
    BY DEF CarryOK
  <2> QED
    BY <2>1, <2>2, Zenon
<1>8. \A p \in Old : Contains(R, t[p])
  BY <1>3 DEF Contains
<1>9. \A p \in 1 .. h : /\ t[p].kind # "answer" /\ ~IsTold(t[p])
                        /\ \A c \in CallIDs : t[p] # ResultItem(c, FALSE)
  <2> SUFFICES ASSUME NEW p \in 1 .. h
               PROVE  /\ t[p].kind # "answer" /\ ~IsTold(t[p])
                      /\ \A c \in CallIDs : t[p] # ResultItem(c, FALSE)
    OBVIOUS
  <2>1. CASE t[p] = SummaryItem
    BY <2>1, ItemFields, ToldItems, ResultsDiffer
  <2>2. ASSUME NEW c \in CallIDs, t[p] = CallItem(c)
        PROVE  /\ t[p].kind # "answer" /\ ~IsTold(t[p])
               /\ \A d \in CallIDs : t[p] # ResultItem(d, FALSE)
    BY <2>2, ToldItems, ResultsDiffer
  <2>3. ASSUME NEW c \in CallIDs, t[p] = ResultItem(c, TRUE)
        PROVE  /\ t[p].kind # "answer" /\ ~IsTold(t[p])
               /\ \A d \in CallIDs : t[p] # ResultItem(d, FALSE)
    BY <2>3, ToldItems, ResultsDiffer
  <2> QED
    BY <1>7, <2>1, <2>2, <2>3
<1>10. OnceEach(t)
  <2> SUFFICES ASSUME NEW p \in 1 .. Len(t), NEW q \in 1 .. Len(t), t[p] = t[q], t[p] # SummaryItem
               PROVE  p = q
    BY DEF OnceEach
  <2>1. CASE p \in 1 .. h /\ q \in 1 .. h
    BY <1>1, <2>1, SMTT(30) DEF CarryOK
  <2>2. CASE p \in Old /\ q \in Old
    BY <1>6, <2>2
  <2>3. ASSUME NEW i \in 1 .. h, NEW j \in Old, t[i] = t[j], t[i] # SummaryItem PROVE FALSE
    <3>1. Contains(P, t[i]) /\ Contains(R, t[i])
      BY <1>7, <1>8, <2>3
    <3> QED
      BY <1>2, <2>3, <3>1, OncePart DEF s
  <2> QED
    BY <1>5, <2>1, <2>2, <2>3
<1>11. CallsFirst(t)
  <2> SUFFICES ASSUME NEW p \in 1 .. Len(t), NEW c \in CallIDs, NEW r \in BOOLEAN,
                      t[p] = ResultItem(c, r)
               PROVE  \E q \in 1 .. Len(t) : q < p /\ t[q] = CallItem(c)
    BY DEF CallsFirst
  <2>1. CASE p \in 1 .. h
    <3>1. t[p] = ResultItem(c, TRUE)
      <4>1. r = TRUE \/ r = FALSE
        OBVIOUS
      <4> QED
        BY <1>9, <2>1, <4>1
    <3>2. H[p] = ResultItem(c, TRUE)
      BY <1>1, <2>1, <3>1
    <3>3. PICK q \in 1 .. h : q < p /\ H[q] = CallItem(c)
      BY <2>1, <3>2 DEF CarryOK
    <3> QED
      BY <1>1, <1>5, <3>3
  <2>2. CASE p \in Old
    <3>1. b[p] \in 1 .. Len(s) /\ s[b[p]] = ResultItem(c, r) /\ b[p] > a
      BY <1>4, <1>5, <2>2 DEF Moved
    <3>2. PICK k \in 1 .. Len(s) : k < b[p] /\ s[k] = CallItem(c)
      BY <1>2, <3>1 DEF CallsFirst
    <3>3. CASE k > a
      <4>1. k - a + h \in Old /\ b[k - a + h] = k
        BY <1>5, <3>3
      <4>2. PICK q \in Old : b[q] = k
        BY <4>1
      <4>3. q < p /\ t[q] = CallItem(c) /\ q \in 1 .. Len(t)
        BY <1>4, <2>2, <3>2, <4>2 DEF Moved
      <4> QED
        BY <4>3
    <3>4. CASE ~(k > a)
      <4>1. k \in 1 .. a
        BY <1>1, <3>4
      <4>2. Contains(P, CallItem(c))
        BY <1>1, <3>2, <4>1 DEF Contains
      <4>3. ~Contains(P, ResultItem(c, FALSE))
        <5> SUFFICES ASSUME NEW j \in 1 .. a, P[j] = ResultItem(c, FALSE) PROVE FALSE
          BY DEF Contains
        <5>1. j \in 1 .. Len(s)
          BY <1>1
        <5>2. s[j] = P[j]
          BY <1>1
        <5>3. b[p] <= j
          BY <1>2, <3>1, <5>1, <5>2 DEF FinalsLast
        <5> QED
          BY <1>1, <3>1, <5>3
      <4>4. PICK q \in 1 .. h : H[q] = CallItem(c)
        BY <4>2, <4>3 DEF CarryOK, Contains
      <4> QED
        BY <1>1, <1>5, <2>2, <4>4
    <3> QED
      BY <3>3, <3>4
  <2> QED
    BY <1>5, <2>1, <2>2
<1>12. FinalsLast(t)
  <2> SUFFICES ASSUME NEW p \in 1 .. Len(t), NEW q \in 1 .. Len(t), NEW c \in CallIDs,
                      NEW r \in BOOLEAN, t[p] = ResultItem(c, FALSE), t[q] = ResultItem(c, r)
               PROVE  q <= p
    BY DEF FinalsLast
  <2>1. p \in Old
    BY <1>5, <1>9
  <2>2. CASE q \in 1 .. h
    BY <1>1, <1>5, <2>1, <2>2
  <2>3. CASE q \in Old
    BY <1>6, <2>1, <2>3
  <2> QED
    BY <1>5, <2>2, <2>3
<1>13. AnswersPlaced(t)
  BY <1>5, <1>6, <1>9 DEF AnswersPlaced
<1> QED
  BY <1>10, <1>11, <1>12, <1>13 DEF History, t

-----------------------------------------------------------------------------
(* FlattenSeq, the concatenation of a sequence of sequences.               *)

(* Concatenation and the sequences it makes step by step.                  *)
Join(a, b) == a \o b

FlattenOf(seqs, f, m) ==
  f = [i \in 1 .. m |-> IF i = 1 THEN seqs[i] ELSE Join(f[i - 1], seqs[i])]

(* The concatenations of the first i sequences are defined: by induction.  *)
LEMMA FlattenExists ==
  ASSUME NEW seqs
  PROVE  \A m \in Nat : \E f : FlattenOf(seqs, f, m)
<1> DEFINE T == {m \in Nat : \E f : FlattenOf(seqs, f, m)}
<1>1. 0 \in T
  <2>1. FlattenOf(seqs, [i \in 1 .. 0 |-> seqs[i]], 0)
    BY DEF FlattenOf
  <2> QED
    BY <2>1
<1>2. ASSUME NEW m \in T PROVE m + 1 \in T
  <2>1. PICK f : FlattenOf(seqs, f, m)
    OBVIOUS
  <2> DEFINE g == [i \in 1 .. m + 1 |-> IF i = m + 1
                                        THEN IF i = 1 THEN seqs[i] ELSE Join(f[m], seqs[i])
                                        ELSE f[i]]
  <2>2. FlattenOf(seqs, g, m + 1)
    <3>1. ASSUME NEW i \in 1 .. m + 1
          PROVE  g[i] = IF i = 1 THEN seqs[i] ELSE Join(g[i - 1], seqs[i])
      <4>1. CASE i = m + 1
        BY <4>1
      <4>2. CASE i # m + 1
        BY <2>1, <4>2 DEF FlattenOf
      <4> QED
        BY <4>1, <4>2
    <3> QED
      BY <3>1 DEF FlattenOf
  <2> QED
    BY <2>2
<1> HIDE DEF T
<1>3. T = Nat
  BY <1>1, <1>2, Induction DEF T
<1> QED
  BY <1>3 DEF T

(* FlattenSeq by its steps.                                                *)
LEMMA FlattenIs ==
  ASSUME NEW seqs, Len(seqs) \in Nat, Len(seqs) # 0
  PROVE  \E f : /\ FlattenSeq(seqs) = f[Len(seqs)]
                /\ f[1] = seqs[1]
                /\ \A i \in 1 .. Len(seqs) : i # 1 => f[i] = f[i - 1] \o seqs[i]
<1> DEFINE f == CHOOSE g : FlattenOf(seqs, g, Len(seqs))
<1>1. \E g : FlattenOf(seqs, g, Len(seqs))
  BY FlattenExists
<1>2. FlattenOf(seqs, f, Len(seqs))
  BY <1>1
<1>3. FlattenSeq(seqs) = f[Len(seqs)]
  BY DEF FlattenSeq, FlattenOf, Join
<1> HIDE DEF f
<1>4. f = [i \in 1 .. Len(seqs) |-> IF i = 1 THEN seqs[i] ELSE Join(f[i - 1], seqs[i])]
  BY <1>2 DEF FlattenOf
<1>5. f[1] = seqs[1] /\ \A i \in 1 .. Len(seqs) : i # 1 => f[i] = Join(f[i - 1], seqs[i])
  BY <1>4
<1> QED
  BY <1>3, <1>5 DEF Join

(* Where the items of the first m sequences are in their concatenation F:  *)
(* one behind the other.                                                   *)
Laid(seqs, m, F, off) ==
  /\ \A k \in 1 .. m : off[k] \in Nat
  /\ \A k \in 1 .. m : \A j \in 1 .. Len(seqs[k]) :
       off[k] + j \in 1 .. Len(F) /\ F[off[k] + j] = seqs[k][j]
  /\ \A p \in 1 .. Len(F) : \E k \in 1 .. m : \E j \in 1 .. Len(seqs[k]) : p = off[k] + j
  /\ \A k, l \in 1 .. m : \A j \in 1 .. Len(seqs[k]) : k < l => off[k] + j <= off[l]

(* The next sequence is laid behind the earlier ones.                      *)
LEMMA LaidFurther ==
  ASSUME NEW X, NEW seqs \in Seq(Seq(X)), NEW m \in 1 .. Len(seqs), m + 1 <= Len(seqs),
         NEW F \in Seq(X), NEW off, Laid(seqs, m, F, off), off[m + 1] = Len(F)
  PROVE  Laid(seqs, m + 1, F \o seqs[m + 1], off)
<1> DEFINE s == seqs[m + 1]
           G == F \o s
<1>1. s \in Seq(X) /\ Len(seqs) \in Nat /\ m \in Nat
  OBVIOUS
<1>2. /\ Len(G) = Len(F) + Len(s) /\ Len(F) \in Nat /\ Len(s) \in Nat
      /\ \A p \in 1 .. Len(F) : p \in 1 .. Len(G) /\ G[p] = F[p]
      /\ \A p \in 1 .. Len(s) : G[Len(F) + p] = s[p] /\ Len(F) + p \in 1 .. Len(G)
  <2>1. s \in Seq(X)
    BY <1>1
  <2> HIDE DEF s
  <2>2. /\ Len(G) = Len(F) + Len(s) /\ Len(F) \in Nat /\ Len(s) \in Nat
        /\ \A p \in 1 .. Len(F) : p \in 1 .. Len(F) + Len(s) /\ G[p] = F[p]
        /\ \A p \in 1 .. Len(s) : G[Len(F) + p] = s[p]
    BY <2>1, ConcatIs
  <2> HIDE DEF G
  <2>3. ASSUME NEW p \in 1 .. Len(F) PROVE p \in 1 .. Len(G) /\ G[p] = F[p]
    BY <2>2
  <2>4. ASSUME NEW p \in 1 .. Len(s) PROVE G[Len(F) + p] = s[p] /\ Len(F) + p \in 1 .. Len(G)
    <3>1. G[Len(F) + p] = s[p]
      BY <2>2
    <3>2. Len(F) + p \in 1 .. Len(G)
      BY <2>2
    <3> QED
      BY <3>1, <3>2
  <2> QED
    BY <2>2, <2>3, <2>4
<1> HIDE DEF G
<1>3. /\ \A k \in 1 .. m : off[k] \in Nat
      /\ \A k \in 1 .. m : \A j \in 1 .. Len(seqs[k]) :
           off[k] + j \in 1 .. Len(F) /\ F[off[k] + j] = seqs[k][j]
      /\ \A p \in 1 .. Len(F) : \E k \in 1 .. m : \E j \in 1 .. Len(seqs[k]) : p = off[k] + j
  BY DEF Laid
<1>4. \A k \in 1 .. m + 1 : k \in 1 .. m \/ k = m + 1
  BY <1>1
<1>5. \A k \in 1 .. m + 1 : off[k] \in Nat
  BY <1>2, <1>3, <1>4
<1>6. ASSUME NEW k \in 1 .. m + 1, NEW j \in 1 .. Len(seqs[k])
      PROVE  off[k] + j \in 1 .. Len(G) /\ G[off[k] + j] = seqs[k][j]
  <2>1. CASE k \in 1 .. m
    BY <1>2, <1>3, <2>1
  <2>2. CASE k = m + 1
    BY <1>2, <2>2
  <2> QED
    BY <1>4, <2>1, <2>2
<1>7. ASSUME NEW p \in 1 .. Len(G)
      PROVE  \E k \in 1 .. m + 1 : \E j \in 1 .. Len(seqs[k]) : p = off[k] + j
  <2>1. CASE p \in 1 .. Len(F)
    <3>1. PICK k \in 1 .. m : \E j \in 1 .. Len(seqs[k]) : p = off[k] + j
      BY <1>3, <2>1
    <3>2. k \in 1 .. m + 1
      BY <1>1
    <3> QED
      BY <3>1, <3>2
  <2>2. CASE ~(p \in 1 .. Len(F))
    <3>1. p - Len(F) \in 1 .. Len(s) /\ p = off[m + 1] + (p - Len(F)) /\ m + 1 \in 1 .. m + 1
      BY <1>1, <1>2, <2>2
    <3> QED
      BY <3>1
  <2> QED
    BY <2>1, <2>2
<1>8. ASSUME NEW k \in 1 .. m + 1, NEW l \in 1 .. m + 1, NEW j \in 1 .. Len(seqs[k]), k < l
      PROVE  off[k] + j <= off[l]
  <2>1. k \in 1 .. m
    BY <1>1, <1>8
  <2>2. CASE l \in 1 .. m
    BY <1>8, <2>1, <2>2 DEF Laid
  <2>3. CASE l = m + 1
    BY <1>2, <1>3, <2>1, <2>3
  <2> QED
    BY <1>4, <2>2, <2>3
<1> QED
  BY <1>5, <1>6, <1>7, <1>8 DEF Laid, G

(* FlattenSeq lays the sequences one behind the other.                     *)
LEMMA FlattenLayout ==
  ASSUME NEW X, NEW seqs \in Seq(Seq(X))
  PROVE  FlattenSeq(seqs) \in Seq(X) /\ \E off : Laid(seqs, Len(seqs), FlattenSeq(seqs), off)
<1>1. Len(seqs) \in Nat
  OBVIOUS
<1>2. CASE Len(seqs) = 0
  <2>1. seqs = <<>> /\ FlattenSeq(seqs) = seqs
    BY <1>2 DEF FlattenSeq
  <2>2. Laid(seqs, Len(seqs), <<>>, <<>>)
    BY <1>2 DEF Laid
  <2>3. <<>> \in Seq(X)
    OBVIOUS
  <2> QED
    BY <2>1, <2>2, <2>3
<1>3. CASE Len(seqs) # 0
  <2>1. PICK f : /\ FlattenSeq(seqs) = f[Len(seqs)]
                 /\ f[1] = seqs[1]
                 /\ \A i \in 1 .. Len(seqs) : i # 1 => f[i] = f[i - 1] \o seqs[i]
    BY <1>1, <1>3, FlattenIs
  <2> DEFINE off == [k \in 1 .. Len(seqs) |-> IF k = 1 THEN 0 ELSE Len(f[k - 1])]
             T == {m \in Nat : m + 1 <= Len(seqs) =>
                     f[m + 1] \in Seq(X) /\ Laid(seqs, m + 1, f[m + 1], off)}
  <2>2. 0 \in T
    <3>1. seqs[1] \in Seq(X) /\ Len(seqs[1]) \in Nat
      BY <1>1, <1>3
    <3>2. off[1] = 0
      BY <1>1, <1>3
    <3> HIDE DEF off
    <3>3. Laid(seqs, 1, f[1], off)
      BY <2>1, <3>1, <3>2 DEF Laid
    <3> QED
      BY <2>1, <3>1, <3>3
  <2>3. ASSUME NEW m \in T PROVE m + 1 \in T
    <3> SUFFICES ASSUME m + 2 <= Len(seqs)
                 PROVE  f[m + 2] \in Seq(X) /\ Laid(seqs, m + 2, f[m + 2], off)
      OBVIOUS
    <3>1. /\ m \in Nat /\ m + 1 \in 1 .. Len(seqs) /\ m + 2 \in 1 .. Len(seqs) /\ m + 2 # 1
          /\ (m + 2) - 1 = m + 1 /\ (m + 1) + 1 = m + 2
          /\ f[m + 1] \in Seq(X) /\ Laid(seqs, m + 1, f[m + 1], off)
      BY <1>1
    <3>2. f[m + 2] = f[m + 1] \o seqs[m + 2]
      BY <2>1, <3>1
    <3>3. off[m + 2] = Len(f[m + 1]) /\ seqs[m + 2] \in Seq(X)
      BY <3>1
    <3> HIDE DEF off, T
    <3>4. f[m + 2] \in Seq(X)
      BY <3>1, <3>2, <3>3, ConcatIs
    <3>5. Laid(seqs, (m + 1) + 1, f[m + 1] \o seqs[(m + 1) + 1], off)
      BY <3>1, <3>3, LaidFurther
    <3> QED
      BY <3>1, <3>2, <3>4, <3>5
  <2> HIDE DEF T, off
  <2>4. T = Nat
    BY <2>2, <2>3, Induction DEF T
  <2>5. Len(seqs) - 1 \in T /\ (Len(seqs) - 1) + 1 = Len(seqs)
    BY <1>1, <1>3, <2>4
  <2>6. f[Len(seqs)] \in Seq(X) /\ Laid(seqs, Len(seqs), f[Len(seqs)], off)
    BY <1>1, <2>5 DEF T
  <2> QED
    BY <2>1, <2>6
<1> QED
  BY <1>2, <1>3

-----------------------------------------------------------------------------
(* carryForwardContext.                                                    *)

(* What CarryForward keeps of a call.                                      *)
Carried(P, c) ==
  IF ShownRunning(P, c) THEN <<CallItem(c), ResultItem(c, TRUE)>> ELSE <<CallItem(c)>>

(* Where the pending calls of a history are.                               *)
LEMMA PendingIs ==
  ASSUME NEW P \in Seq(Item), NEW k \in 1 .. Len(P)
  PROVE  /\ k \in PendingToolCalls(P) =>
              \E c \in CallIDs : /\ P[k] = CallItem(c) /\ P[k].id = c
                                 /\ ~Contains(P, ResultItem(c, FALSE))
         /\ \A c \in CallIDs : P[k] = CallItem(c) /\ ~Contains(P, ResultItem(c, FALSE)) =>
              k \in PendingToolCalls(P) /\ P[k].id = c
<1>1. P[k] \in Item /\ DOMAIN P = 1 .. Len(P)
  OBVIOUS
<1>2. ASSUME k \in PendingToolCalls(P)
      PROVE  \E c \in CallIDs : /\ P[k] = CallItem(c) /\ P[k].id = c
                                /\ ~Contains(P, ResultItem(c, FALSE))
  <2>1. P[k].kind = "call" /\ ~Contains(P, ResultItem(P[k].id, FALSE))
    BY <1>2 DEF PendingToolCalls, Positions
  <2>2. PICK c \in CallIDs : P[k] = CallItem(c)
    BY <1>1, <2>1, KindIs
  <2>3. P[k].id = c
    BY <2>2, ItemFields
  <2> QED
    BY <2>1, <2>2, <2>3
<1>3. ASSUME NEW c \in CallIDs, P[k] = CallItem(c), ~Contains(P, ResultItem(c, FALSE))
      PROVE  k \in PendingToolCalls(P) /\ P[k].id = c
  <2>1. P[k].id = c /\ P[k].kind = "call"
    BY <1>3, ItemFields
  <2>2. ~Contains(P, ResultItem(P[k].id, FALSE))
    BY <1>3, <2>1
  <2> QED
    BY <1>1, <2>1, <2>2 DEF PendingToolCalls, Positions
<1> QED
  BY <1>2, <1>3

(* What is carried of a call.                                              *)
LEMMA CarriedIs ==
  ASSUME NEW P, NEW c \in CallIDs
  PROVE  /\ Carried(P, c) \in Seq(Item)
         /\ 1 \in 1 .. Len(Carried(P, c)) /\ Carried(P, c)[1] = CallItem(c)
         /\ Contains(P, ResultItem(c, TRUE)) =>
              2 \in 1 .. Len(Carried(P, c)) /\ Carried(P, c)[2] = ResultItem(c, TRUE)
         /\ \A j \in 1 .. Len(Carried(P, c)) :
              j = 1 \/ (j = 2 /\ Contains(P, ResultItem(c, TRUE)))
<1> DEFINE x == CallItem(c)
           y == ResultItem(c, TRUE)
<1>1. x \in Item /\ y \in Item
  BY ItemsAre, Zenon
<1>2. Carried(P, c) = IF Contains(P, y) THEN <<x, y>> ELSE <<x>>
  BY DEF Carried, ShownRunning
<1> HIDE DEF x, y
<1>3. CASE Contains(P, y)
  <2>1. Carried(P, c) = <<x, y>>
    BY <1>2, <1>3
  <2>2. <<x, y>> \in Seq(Item) /\ Len(<<x, y>>) = 2 /\ <<x, y>>[1] = x /\ <<x, y>>[2] = y
    BY <1>1
  <2> DEFINE s == Carried(P, c)
  <2>3. s \in Seq(Item) /\ Len(s) = 2 /\ s[1] = x /\ s[2] = y
    BY <2>1, <2>2
  <2> HIDE DEF s
  <2>4. 1 \in 1 .. Len(s) /\ 2 \in 1 .. Len(s) /\ \A j \in 1 .. Len(s) : j = 1 \/ j = 2
    BY <2>3
  <2> QED
    BY <1>3, <2>3, <2>4, Zenon DEF s, x, y
<1>4. CASE ~Contains(P, y)
  <2>1. Carried(P, c) = <<x>>
    BY <1>2, <1>4
  <2>2. <<x>> \in Seq(Item) /\ Len(<<x>>) = 1 /\ <<x>>[1] = x
    BY <1>1
  <2> DEFINE s == Carried(P, c)
  <2>3. s \in Seq(Item) /\ Len(s) = 1 /\ s[1] = x
    BY <2>1, <2>2
  <2> HIDE DEF s
  <2>4. 1 \in 1 .. Len(s) /\ \A j \in 1 .. Len(s) : j = 1
    BY <2>3
  <2> QED
    BY <1>4, <2>3, <2>4, Zenon DEF s, x, y
<1> QED
  BY <1>3, <1>4

(* Where an item of what is carried comes from: the k-th item of the       *)
(* prefix is its call, and j tells the call from its running result.       *)
Origin(P, x, k, j) ==
  \E c \in CallIDs :
    /\ P[k] = CallItem(c) /\ ~Contains(P, ResultItem(c, FALSE))
    /\ \/ j = 1 /\ x = CallItem(c)
       \/ j = 2 /\ x = ResultItem(c, TRUE) /\ Contains(P, ResultItem(c, TRUE))

(* An item that is carried comes from one place.                           *)
LEMMA OriginIsOne ==
  ASSUME NEW P, OnceEach(P), NEW x, NEW k \in 1 .. Len(P), NEW l \in 1 .. Len(P),
         NEW i, NEW j, Origin(P, x, k, i), Origin(P, x, l, j)
  PROVE  k = l /\ i = j
<1>1. PICK c \in CallIDs : /\ P[k] = CallItem(c)
                           /\ (i = 1 /\ x = CallItem(c)) \/ (i = 2 /\ x = ResultItem(c, TRUE))
  BY DEF Origin
<1>2. PICK d \in CallIDs : /\ P[l] = CallItem(d)
                           /\ (j = 1 /\ x = CallItem(d)) \/ (j = 2 /\ x = ResultItem(d, TRUE))
  BY DEF Origin
<1>3. CallItem(c) # ResultItem(d, TRUE) /\ CallItem(d) # ResultItem(c, TRUE)
  BY ResultsDiffer
<1>4. c = d
  BY <1>1, <1>2, <1>3, ItemsDiffer
<1>5. P[k] = P[l] /\ P[k] # SummaryItem
  BY <1>1, <1>2, <1>4, ResultsDiffer
<1> QED
  BY <1>1, <1>2, <1>3, <1>4, <1>5 DEF OnceEach

(* CarryForward lays the open calls, each with its running result.         *)
LEMMA CarryForwardIs ==
  ASSUME NEW P \in Seq(Item)
  PROVE  /\ CarryForward(P) \in Seq(Item)
         /\ \E off : \E seqs \in Seq(Seq(Item)) :
              /\ Laid(seqs, Len(P), CarryForward(P), off)
              /\ \A k \in 1 .. Len(P) : \A j \in 1 .. Len(seqs[k]) :
                   Origin(P, seqs[k][j], k, j) /\ 1 \in 1 .. Len(seqs[k])
              /\ \A k \in 1 .. Len(P), c \in CallIDs :
                   P[k] = CallItem(c) /\ ~Contains(P, ResultItem(c, FALSE)) =>
                     /\ 1 \in 1 .. Len(seqs[k]) /\ seqs[k][1] = CallItem(c)
                     /\ Contains(P, ResultItem(c, TRUE)) =>
                          2 \in 1 .. Len(seqs[k]) /\ seqs[k][2] = ResultItem(c, TRUE)
<1> DEFINE Q == PendingToolCalls(P)
           seqs == [k \in 1 .. Len(P) |-> IF k \in Q THEN Carried(P, P[k].id) ELSE <<>>]
<1>1. DOMAIN P = 1 .. Len(P) /\ Len(P) \in Nat
  OBVIOUS
<1>2. CarryForward(P) = FlattenSeq(seqs)
  BY <1>1 DEF CarryForward, Carried
<1>3. \A k \in 1 .. Len(P) : k \in Q => seqs[k] = Carried(P, P[k].id)
  OBVIOUS
<1>4. \A k \in 1 .. Len(P) : k \notin Q => seqs[k] = <<>>
  OBVIOUS
<1>5. \A k \in 1 .. Len(P) : seqs[k] \in Seq(Item)
  <2> SUFFICES ASSUME NEW k \in 1 .. Len(P) PROVE seqs[k] \in Seq(Item)
    OBVIOUS
  <2>1. CASE k \in Q
    <3>1. PICK c \in CallIDs : P[k] = CallItem(c) /\ P[k].id = c
      BY <2>1, PendingIs, ZenonT(60)
    <3>2. seqs[k] = Carried(P, c)
      BY <1>3, <2>1, <3>1
    <3> HIDE DEF seqs
    <3> QED
      BY <3>2, CarriedIs
  <2>2. CASE k \notin Q
    <3>1. seqs[k] = <<>>
      BY <1>4, <2>2
    <3> HIDE DEF seqs
    <3> QED
      BY <3>1
  <2> QED
    BY <2>1, <2>2
<1>6. seqs \in Seq(Seq(Item)) /\ Len(seqs) = Len(P)
  <2>1. seqs \in [1 .. Len(P) -> Seq(Item)]
    BY <1>5
  <2> HIDE DEF seqs
  <2> QED
    BY <1>1, <2>1
<1> HIDE DEF Q, seqs
<1>7. CarryForward(P) \in Seq(Item) /\ \E off : Laid(seqs, Len(P), CarryForward(P), off)
  BY <1>2, <1>6, FlattenLayout
<1>8. ASSUME NEW k \in 1 .. Len(P), NEW j \in 1 .. Len(seqs[k])
      PROVE  Origin(P, seqs[k][j], k, j) /\ 1 \in 1 .. Len(seqs[k])
  <2>1. k \in Q
    <3> SUFFICES ASSUME k \notin Q PROVE FALSE
      OBVIOUS
    <3>1. seqs[k] = <<>>
      BY <1>4
    <3> QED
      BY <3>1
  <2>2. PICK c \in CallIDs : /\ P[k] = CallItem(c) /\ P[k].id = c
                             /\ ~Contains(P, ResultItem(c, FALSE))
    BY <2>1, PendingIs DEF Q
  <2>3. seqs[k] = Carried(P, c)
    BY <1>3, <2>1, <2>2
  <2>4. /\ 1 \in 1 .. Len(seqs[k]) /\ seqs[k][1] = CallItem(c)
        /\ Contains(P, ResultItem(c, TRUE)) => seqs[k][2] = ResultItem(c, TRUE)
        /\ j = 1 \/ (j = 2 /\ Contains(P, ResultItem(c, TRUE)))
    BY <2>3, CarriedIs
  <2> QED
    BY <2>2, <2>4 DEF Origin
<1>9. ASSUME NEW k \in 1 .. Len(P), NEW c \in CallIDs, P[k] = CallItem(c),
             ~Contains(P, ResultItem(c, FALSE))
      PROVE  /\ 1 \in 1 .. Len(seqs[k]) /\ seqs[k][1] = CallItem(c)
             /\ Contains(P, ResultItem(c, TRUE)) =>
                  2 \in 1 .. Len(seqs[k]) /\ seqs[k][2] = ResultItem(c, TRUE)
  <2>1. k \in Q /\ P[k].id = c
    BY <1>9, PendingIs DEF Q
  <2>2. seqs[k] = Carried(P, c)
    BY <1>3, <2>1
  <2> QED
    BY <2>2, CarriedIs
<1> QED
  BY <1>6, <1>7, <1>8, <1>9

(* What comes before the rest of a compacted history.                      *)
LEMMA CarryForwardOK ==
  ASSUME NEW P \in Seq(Item), OnceEach(P)
  PROVE  /\ <<SummaryItem>> \o CarryForward(P) \in Seq(Item)
         /\ CarryOK(P, <<SummaryItem>> \o CarryForward(P))
<1> DEFINE F == CarryForward(P)
           H == <<SummaryItem>> \o F
<1>1. F \in Seq(Item) /\ <<SummaryItem>> \in Seq(Item) /\ Len(<<SummaryItem>>) = 1
  <2>1. SummaryItem \in Item
    BY ItemsAre, Zenon
  <2>2. F \in Seq(Item)
    BY CarryForwardIs, Zenon
  <2> QED
    BY <2>1, <2>2
<1>2. /\ H \in Seq(Item) /\ Len(H) = 1 + Len(F) /\ Len(F) \in Nat
      /\ H[1] = SummaryItem
      /\ \A p \in 1 .. Len(F) : 1 + p \in 1 .. Len(H) /\ H[1 + p] = F[p]
      /\ \A p \in 1 .. Len(H) : p = 1 \/ (p - 1 \in 1 .. Len(F) /\ p = 1 + (p - 1))
  BY <1>1, ConcatIs
<1>3. PICK off : \E seqs \in Seq(Seq(Item)) :
              /\ Laid(seqs, Len(P), F, off)
              /\ \A k \in 1 .. Len(P) : \A j \in 1 .. Len(seqs[k]) :
                   Origin(P, seqs[k][j], k, j) /\ 1 \in 1 .. Len(seqs[k])
              /\ \A k \in 1 .. Len(P), c \in CallIDs :
                   P[k] = CallItem(c) /\ ~Contains(P, ResultItem(c, FALSE)) =>
                     /\ 1 \in 1 .. Len(seqs[k]) /\ seqs[k][1] = CallItem(c)
                     /\ Contains(P, ResultItem(c, TRUE)) =>
                          2 \in 1 .. Len(seqs[k]) /\ seqs[k][2] = ResultItem(c, TRUE)
  BY CarryForwardIs
<1>4. PICK seqs \in Seq(Seq(Item)) :
              /\ Laid(seqs, Len(P), F, off)
              /\ \A k \in 1 .. Len(P) : \A j \in 1 .. Len(seqs[k]) :
                   Origin(P, seqs[k][j], k, j) /\ 1 \in 1 .. Len(seqs[k])
              /\ \A k \in 1 .. Len(P), c \in CallIDs :
                   P[k] = CallItem(c) /\ ~Contains(P, ResultItem(c, FALSE)) =>
                     /\ 1 \in 1 .. Len(seqs[k]) /\ seqs[k][1] = CallItem(c)
                     /\ Contains(P, ResultItem(c, TRUE)) =>
                          2 \in 1 .. Len(seqs[k]) /\ seqs[k][2] = ResultItem(c, TRUE)
  BY <1>3
<1>5. /\ \A k \in 1 .. Len(P) : off[k] \in Nat
      /\ \A k \in 1 .. Len(P) : \A j \in 1 .. Len(seqs[k]) :
           off[k] + j \in 1 .. Len(F) /\ F[off[k] + j] = seqs[k][j]
      /\ \A p \in 1 .. Len(F) : \E k \in 1 .. Len(P) : \E j \in 1 .. Len(seqs[k]) : p = off[k] + j
  BY <1>4 DEF Laid
<1> HIDE DEF F, H
<1>6. \A p \in 1 .. Len(F) : \E k \in 1 .. Len(P) : \E j \in 1 .. Len(seqs[k]) :
        /\ p = off[k] + j /\ Origin(P, F[p], k, j)
        /\ 1 \in 1 .. Len(seqs[k]) /\ Origin(P, seqs[k][1], k, 1)
  <2> SUFFICES ASSUME NEW p \in 1 .. Len(F)
               PROVE  \E k \in 1 .. Len(P) : \E j \in 1 .. Len(seqs[k]) :
                        /\ p = off[k] + j /\ Origin(P, F[p], k, j)
                        /\ 1 \in 1 .. Len(seqs[k]) /\ Origin(P, seqs[k][1], k, 1)
    OBVIOUS
  <2>1. PICK k \in 1 .. Len(P) : \E j \in 1 .. Len(seqs[k]) : p = off[k] + j
    BY <1>5
  <2>2. PICK j \in 1 .. Len(seqs[k]) : p = off[k] + j
    BY <2>1
  <2>3. F[p] = seqs[k][j]
    BY <1>5, <2>2
  <2>4. Origin(P, seqs[k][j], k, j) /\ 1 \in 1 .. Len(seqs[k])
    BY <1>4
  <2>5. Origin(P, seqs[k][1], k, 1)
    BY <1>4, <2>4
  <2>6. Origin(P, F[p], k, j)
    BY <2>3, <2>4
  <2> QED
    BY <2>2, <2>4, <2>5, <2>6
<1>7. ASSUME NEW p \in 1 .. Len(F)
      PROVE  /\ Contains(P, F[p])
             /\ \E c \in CallIDs : /\ F[p] = CallItem(c) \/ F[p] = ResultItem(c, TRUE)
                                   /\ ~Contains(P, ResultItem(c, FALSE))
  <2>1. PICK k \in 1 .. Len(P) : \E j : Origin(P, F[p], k, j)
    BY <1>6
  <2>2. PICK c \in CallIDs :
          /\ P[k] = CallItem(c) /\ ~Contains(P, ResultItem(c, FALSE))
          /\ F[p] = CallItem(c) \/ (F[p] = ResultItem(c, TRUE) /\ Contains(P, ResultItem(c, TRUE)))
    BY <2>1 DEF Origin
  <2>3. Contains(P, CallItem(c))
    BY <2>2 DEF Contains
  <2> QED
    BY <2>2, <2>3
<1>8. ASSUME NEW p \in 1 .. Len(F), NEW q \in 1 .. Len(F), F[p] = F[q] PROVE p = q
  <2>1. PICK k \in 1 .. Len(P) : \E j \in 1 .. Len(seqs[k]) : p = off[k] + j /\ Origin(P, F[p], k, j)
    BY <1>6
  <2>2. PICK j \in 1 .. Len(seqs[k]) : p = off[k] + j /\ Origin(P, F[p], k, j)
    BY <2>1
  <2>3. PICK l \in 1 .. Len(P) : \E i \in 1 .. Len(seqs[l]) : q = off[l] + i /\ Origin(P, F[q], l, i)
    BY <1>6
  <2>4. PICK i \in 1 .. Len(seqs[l]) : q = off[l] + i /\ Origin(P, F[q], l, i)
    BY <2>3
  <2>5. Origin(P, F[p], l, i)
    BY <1>8, <2>4
  <2>6. k = l /\ j = i
    BY <2>2, <2>5, OriginIsOne
  <2> QED
    BY <2>2, <2>4, <2>6
<1>9. ASSUME NEW p \in 1 .. Len(F), NEW c \in CallIDs, F[p] = ResultItem(c, TRUE)
      PROVE  \E q \in 1 .. Len(F) : q < p /\ F[q] = CallItem(c)
  <2>1. PICK k \in 1 .. Len(P) : \E j \in 1 .. Len(seqs[k]) :
          /\ p = off[k] + j /\ Origin(P, F[p], k, j)
          /\ 1 \in 1 .. Len(seqs[k]) /\ Origin(P, seqs[k][1], k, 1)
    BY <1>6
  <2>2. PICK j \in 1 .. Len(seqs[k]) :
          /\ p = off[k] + j /\ Origin(P, F[p], k, j)
          /\ 1 \in 1 .. Len(seqs[k]) /\ Origin(P, seqs[k][1], k, 1)
    BY <2>1
  <2>3. P[k] = CallItem(c) /\ j = 2
    <3>1. PICK d \in CallIDs : /\ P[k] = CallItem(d)
                               /\ (j = 1 /\ F[p] = CallItem(d)) \/ (j = 2 /\ F[p] = ResultItem(d, TRUE))
      BY <2>2 DEF Origin
    <3>2. F[p] # CallItem(d)
      BY <1>9, ResultsDiffer
    <3>3. d = c
      BY <1>9, <3>1, <3>2, ItemsDiffer
    <3> QED
      BY <3>1, <3>2, <3>3
  <2>4. seqs[k][1] = P[k]
    BY <2>2 DEF Origin
  <2>5. /\ off[k] \in Nat /\ off[k] + 1 \in 1 .. Len(F) /\ F[off[k] + 1] = CallItem(c)
    BY <1>5, <2>2, <2>3, <2>4
  <2>6. off[k] + 1 < p
    BY <2>2, <2>3, <2>5
  <2> QED
    BY <2>5, <2>6
<1>10. ASSUME NEW c \in CallIDs, Contains(P, CallItem(c)), ~Contains(P, ResultItem(c, FALSE))
       PROVE  /\ Contains(F, CallItem(c))
              /\ Contains(P, ResultItem(c, TRUE)) => Contains(F, ResultItem(c, TRUE))
  <2>1. PICK k \in 1 .. Len(P) : P[k] = CallItem(c)
    BY <1>10 DEF Contains
  <2>2. /\ 1 \in 1 .. Len(seqs[k]) /\ seqs[k][1] = CallItem(c)
        /\ Contains(P, ResultItem(c, TRUE)) =>
             2 \in 1 .. Len(seqs[k]) /\ seqs[k][2] = ResultItem(c, TRUE)
    BY <1>4, <1>10, <2>1
  <2>3. Contains(F, CallItem(c))
    <3>1. off[k] + 1 \in 1 .. Len(F) /\ F[off[k] + 1] = CallItem(c)
      BY <1>5, <2>2
    <3> QED
      BY <3>1 DEF Contains
  <2>4. ASSUME Contains(P, ResultItem(c, TRUE)) PROVE Contains(F, ResultItem(c, TRUE))
    <3>1. off[k] + 2 \in 1 .. Len(F) /\ F[off[k] + 2] = ResultItem(c, TRUE)
      BY <1>5, <2>2, <2>4
    <3> QED
      BY <3>1 DEF Contains
  <2> QED
    BY <2>3, <2>4
<1>11. \A x : Contains(F, x) => Contains(H, x)
  BY <1>2 DEF Contains
<1>12. CarryOK(P, H)
  <2>1. ASSUME NEW p \in 1 .. Len(H)
        PROVE  \/ H[p] = SummaryItem
               \/ /\ Contains(P, H[p])
                  /\ \E c \in CallIDs : H[p] = CallItem(c) \/ H[p] = ResultItem(c, TRUE)
    <3>1. CASE p = 1
      BY <1>2, <3>1
    <3>2. CASE p # 1
      <4>1. p - 1 \in 1 .. Len(F) /\ H[p] = F[p - 1]
        BY <1>2, <3>2
      <4> QED
        BY <1>7, <4>1
    <3> QED
      BY <3>1, <3>2
  <2>2. ASSUME NEW p \in 1 .. Len(H), NEW q \in 1 .. Len(H), H[p] = H[q], H[p] # SummaryItem
        PROVE  p = q
    <3>1. p # 1 /\ q # 1
      BY <1>2, <2>2
    <3>2. /\ p - 1 \in 1 .. Len(F) /\ H[p] = F[p - 1]
          /\ q - 1 \in 1 .. Len(F) /\ H[q] = F[q - 1]
      BY <1>2, <3>1
    <3>3. p - 1 = q - 1
      BY <1>8, <2>2, <3>2
    <3> QED
      BY <1>2, <3>3
  <2>3. ASSUME NEW p \in 1 .. Len(H), NEW c \in CallIDs, H[p] = ResultItem(c, TRUE)
        PROVE  \E q \in 1 .. Len(H) : q < p /\ H[q] = CallItem(c)
    <3>1. p # 1
      BY <1>2, <2>3, ResultsDiffer
    <3>2. p - 1 \in 1 .. Len(F) /\ H[p] = F[p - 1]
      BY <1>2, <3>1
    <3>3. PICK q \in 1 .. Len(F) : q < p - 1 /\ F[q] = CallItem(c)
      BY <1>9, <2>3, <3>2
    <3>4. 1 + q \in 1 .. Len(H) /\ H[1 + q] = CallItem(c) /\ 1 + q < p
      BY <1>2, <3>3
    <3> QED
      BY <3>4
  <2>4. ASSUME NEW c \in CallIDs, Contains(P, CallItem(c)), ~Contains(P, ResultItem(c, FALSE))
        PROVE  /\ Contains(H, CallItem(c))
               /\ Contains(P, ResultItem(c, TRUE)) => Contains(H, ResultItem(c, TRUE))
    BY <1>10, <1>11, <2>4
  <2>5. ASSUME NEW c \in CallIDs, Contains(H, CallItem(c))
        PROVE  ~Contains(P, ResultItem(c, FALSE))
    <3>1. PICK p \in 1 .. Len(H) : H[p] = CallItem(c)
      BY <2>5 DEF Contains
    <3>2. p # 1
      BY <1>2, <3>1, ResultsDiffer
    <3>3. p - 1 \in 1 .. Len(F) /\ F[p - 1] = CallItem(c)
      BY <1>2, <3>1, <3>2
    <3>4. PICK d \in CallIDs : /\ F[p - 1] = CallItem(d) \/ F[p - 1] = ResultItem(d, TRUE)
                               /\ ~Contains(P, ResultItem(d, FALSE))
      BY <1>7, <3>3
    <3>5. d = c
      BY <3>3, <3>4, ItemsDiffer, ResultsDiffer
    <3> QED
      BY <3>4, <3>5
  <2> QED
    BY <2>1, <2>2, <2>3, <2>4, <2>5 DEF CarryOK
<1> QED
  BY <1>2, <1>12 DEF H, F

-----------------------------------------------------------------------------
(* What is in a context, and what each change leaves of it.                *)

(* Where an item of the context comes from.                                *)
LEMMA SourceIs ==
  ASSUME NEW s \in Seq(Item), NEW G, Sourced(s, G), NEW x, Contains(s, x)
  PROVE  x \in G \/ x = SummaryItem \/ \E c \in CallIDs : x = ResultItem(c, TRUE)
<1>1. PICK p \in 1 .. Len(s) : s[p] = x
  BY DEF Contains
<1>2. s[p] \in G \/ s[p] = SummaryItem \/ \E c \in CallIDs : s[p] = ResultItem(c, TRUE)
  BY DEF Sourced
<1> QED
  BY <1>1, <1>2

(* An item of its own kind that is in the context was given.               *)
LEMMA WasGiven ==
  ASSUME NEW s \in Seq(Item), NEW G, Sourced(s, G)
  PROVE  /\ \A c \in CallIDs : Contains(s, CallItem(c)) => CallItem(c) \in G
         /\ \A c \in CallIDs : Contains(s, ResultItem(c, FALSE)) => ResultItem(c, FALSE) \in G
         /\ \A i \in Inputs : Contains(s, InputItem(i)) => InputItem(i) \in G
         /\ \A p \in 1 .. Len(s) : s[p].kind = "answer" => s[p] \in G
<1>1. ASSUME NEW c \in CallIDs, Contains(s, CallItem(c)) PROVE CallItem(c) \in G
  <2>1. CallItem(c) \in G \/ CallItem(c) = SummaryItem \/ \E d \in CallIDs : CallItem(c) = ResultItem(d, TRUE)
    BY <1>1, SourceIs
  <2> QED
    BY <2>1, Distinct
<1>2. ASSUME NEW c \in CallIDs, Contains(s, ResultItem(c, FALSE)) PROVE ResultItem(c, FALSE) \in G
  <2>1. ResultItem(c, FALSE) \in G \/ ResultItem(c, FALSE) = SummaryItem \/ \E d \in CallIDs : ResultItem(c, FALSE) = ResultItem(d, TRUE)
    BY <1>2, SourceIs
  <2> QED
    BY <2>1, Distinct
<1>3. ASSUME NEW i \in Inputs, Contains(s, InputItem(i)) PROVE InputItem(i) \in G
  <2>1. InputItem(i) \in G \/ InputItem(i) = SummaryItem \/ \E d \in CallIDs : InputItem(i) = ResultItem(d, TRUE)
    BY <1>3, SourceIs
  <2> QED
    BY <2>1, Distinct
<1>4. ASSUME NEW p \in 1 .. Len(s), s[p].kind = "answer" PROVE s[p] \in G
  <2>1. s[p] \in G \/ s[p] = SummaryItem \/ \E c \in CallIDs : s[p] = ResultItem(c, TRUE)
    BY DEF Sourced
  <2>2. s[p] # SummaryItem
    BY <1>4, ItemFields
  <2>3. \A c \in CallIDs : s[p] # ResultItem(c, TRUE)
    BY <1>4, ResultsDiffer
  <2> QED
    BY <2>1, <2>2, <2>3
<1> QED
  BY <1>1, <1>2, <1>3, <1>4

(* What is not given yet was seen by no answer.                            *)
LEMMA NotSeen ==
  ASSUME NEW s \in Seq(Item), NEW G, NEW n, Sourced(s, G), GivenOK(G, n), NEW x, x \notin G
  PROVE  \A p \in 1 .. Len(s) : s[p].kind = "answer" => x \notin s[p].saw
BY WasGiven DEF GivenOK

(* The items of a sequence with one more.                                  *)
LEMMA ContainsAppend ==
  ASSUME NEW s \in Seq(Item), NEW x \in Item, NEW y
  PROVE  Contains(Append(s, x), y) <=> Contains(s, y) \/ x = y
<1> DEFINE t == Append(s, x)
<1>1. /\ Len(t) = Len(s) + 1 /\ Len(s) \in Nat /\ t[Len(t)] = x
      /\ Len(t) \in 1 .. Len(t)
      /\ \A p \in 1 .. Len(s) : t[p] = s[p] /\ p \in 1 .. Len(t)
      /\ \A p \in 1 .. Len(t) : p \in 1 .. Len(s) \/ p = Len(t)
  OBVIOUS
<1> HIDE DEF t
<1>2. Contains(t, y) <=> Contains(s, y) \/ x = y
  BY <1>1 DEF Contains
<1> QED
  BY <1>2 DEF t

(* The sources when an item is appended.                                   *)
LEMMA SourcedAppend ==
  ASSUME NEW s \in Seq(Item), NEW x \in Item, NEW G, NEW K, Sourced(s, G), G \subseteq K,
         x \in K \/ \E c \in CallIDs : x = ResultItem(c, TRUE)
  PROVE  Sourced(Append(s, x), K)
<1> DEFINE t == Append(s, x)
<1>1. /\ \A p \in 1 .. Len(s) : t[p] = s[p]
      /\ \A p \in 1 .. Len(t) : p \in 1 .. Len(s) \/ t[p] = x
  OBVIOUS
<1> HIDE DEF t
<1>2. Sourced(t, K)
  BY <1>1 DEF Sourced
<1> QED
  BY <1>2 DEF t

(* Another input.                                                          *)
LEMMA InputOK ==
  ASSUME NEW s, NEW U, NEW R, NEW G, NEW S, NEW n, ContextOK(s, U, R, G, S, n),
         NEW i \in Inputs, InputItem(i) \notin G
  PROVE  ContextOK(Append(s, InputItem(i)), U, R, G \cup {InputItem(i)}, S, n)
<1> DEFINE x == InputItem(i)
           t == Append(s, x)
           K == G \cup {x}
<1>1. /\ s \in Seq(Item) /\ U \subseteq CallIDs /\ R \subseteq CallIDs \ U /\ n \in Nat
      /\ GivenOK(G, n) /\ History(s) /\ Sourced(s, G) /\ Present(s, G, S) /\ CallsOK(s, U, R, G)
  BY DEF ContextOK
<1>2. /\ x \in Item /\ x.kind # "answer" /\ x # SummaryItem
      /\ \A c : x # CallItem(c) /\ x # ResultItem(c, TRUE) /\ x # ResultItem(c, FALSE)
  <2>1. x \in Item /\ x.kind # "answer"
    BY ItemsAre, ResultsDiffer, Zenon
  <2> QED
    BY <2>1, Distinct
<1>3. ~Contains(s, x)
  BY <1>1, WasGiven
<1>4. \A c \in CallIDs, r \in BOOLEAN : x # ResultItem(c, r)
  BY ResultsDiffer
<1>5. Addable(s, x)
  BY <1>1, <1>2, <1>3, <1>4, NotSeen DEF Addable
<1> HIDE DEF x
<1>6. History(t)
  BY <1>1, <1>5, AppendKeepsHistory
<1>7. t \in Seq(Item)
  BY <1>1, <1>2
<1>8. Sourced(t, K)
  <2>1. G \subseteq K /\ x \in K
    OBVIOUS
  <2> HIDE DEF K
  <2> QED
    BY <1>1, <1>2, <2>1, SourcedAppend
<1>9. \A y : Contains(t, y) <=> Contains(s, y) \/ x = y
  BY <1>1, <1>2, ContainsAppend
<1> HIDE DEF t
<1>10. Present(t, K, S)
  BY <1>1, <1>9 DEF Present
<1>11. GivenOK(K, n)
  BY <1>1, <1>2 DEF GivenOK
<1>12. CallsOK(t, U, R, K)
  BY <1>1, <1>2, <1>9 DEF CallsOK
<1> QED
  BY <1>1, <1>6, <1>7, <1>8, <1>10, <1>11, <1>12 DEF ContextOK, t, x

(* A call begins to run.                                                   *)
LEMMA RunningOK ==
  ASSUME NEW s, NEW U, NEW R, NEW G, NEW S, NEW n, ContextOK(s, U, R, G, S, n), NEW c \in U
  PROVE  ContextOK(Append(s, ResultItem(c, TRUE)), U \ {c}, R \cup {c}, G, S, n)
<1> DEFINE x == ResultItem(c, TRUE)
           t == Append(s, x)
<1>1. /\ s \in Seq(Item) /\ U \subseteq CallIDs /\ R \subseteq CallIDs \ U /\ n \in Nat
      /\ GivenOK(G, n) /\ History(s) /\ Sourced(s, G) /\ Present(s, G, S) /\ CallsOK(s, U, R, G)
      /\ c \in CallIDs
  BY DEF ContextOK
<1>2. /\ x \in Item /\ x.kind # "answer" /\ ~IsTold(x)
      /\ \A d : x # CallItem(d) /\ x # ResultItem(d, FALSE)
      /\ \A d : d # c => x # ResultItem(d, TRUE)
  <2>1. x \in Item /\ x.kind # "answer" /\ ~IsTold(x)
    BY <1>1, ItemsAre, ResultsDiffer, ToldItems
  <2>2. \A d : x # CallItem(d) /\ x # ResultItem(d, FALSE)
    BY ResultsDiffer
  <2>3. \A d : d # c => x # ResultItem(d, TRUE)
    BY ItemsDiffer
  <2> QED
    BY <2>1, <2>2, <2>3
<1>3. /\ Contains(s, CallItem(c)) /\ ~Contains(s, ResultItem(c, FALSE)) /\ ~Contains(s, x)
  BY <1>1, WasGiven DEF CallsOK
<1>4. Addable(s, x)
  <2>1. \A d \in CallIDs, r \in BOOLEAN : x = ResultItem(d, r) => d = c
    BY ItemsDiffer
  <2> HIDE DEF x
  <2> QED
    BY <1>2, <1>3, <2>1 DEF Addable
<1>5. \A d \in CallIDs : x = ResultItem(d, TRUE) => d = c
  BY <1>2
<1>6. \E d \in CallIDs : x = ResultItem(d, TRUE)
  BY <1>1
<1> HIDE DEF x
<1>7. History(t)
  BY <1>1, <1>4, AppendKeepsHistory
<1>8. t \in Seq(Item)
  BY <1>1, <1>2
<1>9. Sourced(t, G)
  BY <1>1, <1>2, <1>6, SourcedAppend
<1>10. \A y : Contains(t, y) <=> Contains(s, y) \/ x = y
  BY <1>1, <1>2, ContainsAppend
<1> HIDE DEF t
<1>11. Present(t, G, S)
  BY <1>1, <1>10 DEF Present
<1>12. CallsOK(t, U \ {c}, R \cup {c}, G)
  <2>1. Contains(t, ResultItem(c, TRUE))
    BY <1>10 DEF x
  <2> QED
    BY <1>1, <1>2, <1>10, <2>1 DEF CallsOK
<1>13. U \ {c} \subseteq CallIDs /\ R \cup {c} \subseteq CallIDs \ (U \ {c})
  BY <1>1
<1> QED
  BY <1>1, <1>7, <1>8, <1>9, <1>11, <1>12, <1>13 DEF ContextOK, t, x

(* What the final result of a call changes besides the context.            *)
LEMMA FinalGiven ==
  ASSUME NEW s, NEW U, NEW R, NEW G, NEW S, NEW n, ContextOK(s, U, R, G, S, n), NEW c \in U \cup R
  PROVE  /\ c \in CallIDs /\ Contains(s, CallItem(c))
         /\ ResultItem(c, FALSE) \notin G /\ ~Contains(s, ResultItem(c, FALSE))
         /\ GivenOK(G \cup {ResultItem(c, FALSE)}, n)
         /\ U \ {c} \subseteq CallIDs /\ R \ {c} \subseteq CallIDs \ (U \ {c})
<1> DEFINE x == ResultItem(c, FALSE)
<1>1. /\ s \in Seq(Item) /\ U \subseteq CallIDs /\ R \subseteq CallIDs \ U
      /\ GivenOK(G, n) /\ Sourced(s, G) /\ CallsOK(s, U, R, G) /\ c \in CallIDs
  BY DEF ContextOK
<1>2. Contains(s, CallItem(c)) /\ x \notin G
  BY <1>1 DEF CallsOK
<1>3. ~Contains(s, x) /\ CallItem(c) \in G
  BY <1>1, <1>2, WasGiven
<1>4. x \in Item /\ x.kind # "answer" /\ x # SummaryItem /\ \A d : x # ResultItem(d, TRUE)
  BY <1>1, ItemsAre, ResultsDiffer, Distinct
<1>5. \A d : x = ResultItem(d, FALSE) => d = c
  BY ItemsDiffer
<1> HIDE DEF x
<1>6. GivenOK(G \cup {x}, n)
  <2>1. \A d \in CallIDs : ResultItem(d, FALSE) \in G \cup {x} => CallItem(d) \in G \cup {x}
    BY <1>1, <1>3, <1>5 DEF GivenOK
  <2> QED
    BY <1>1, <1>4, <2>1 DEF GivenOK
<1> QED
  BY <1>1, <1>2, <1>3, <1>6 DEF x

(* A final result behind everything else.                                  *)
LEMMA FinalOK ==
  ASSUME NEW s, NEW U, NEW R, NEW G, NEW S, NEW n, ContextOK(s, U, R, G, S, n), NEW c \in U \cup R
  PROVE  ContextOK(Append(s, ResultItem(c, FALSE)), U \ {c}, R \ {c},
                   G \cup {ResultItem(c, FALSE)}, S, n)
<1> DEFINE x == ResultItem(c, FALSE)
           t == Append(s, x)
           K == G \cup {x}
<1>1. /\ s \in Seq(Item) /\ n \in Nat
      /\ GivenOK(G, n) /\ History(s) /\ Sourced(s, G) /\ Present(s, G, S) /\ CallsOK(s, U, R, G)
  BY DEF ContextOK
<1>2. /\ c \in CallIDs /\ Contains(s, CallItem(c)) /\ x \notin G /\ ~Contains(s, x) /\ GivenOK(K, n)
      /\ U \ {c} \subseteq CallIDs /\ R \ {c} \subseteq CallIDs \ (U \ {c})
  BY FinalGiven, ZenonT(100)
<1>3. /\ x \in Item /\ x.kind # "answer"
      /\ \A d : x # CallItem(d) /\ x # ResultItem(d, TRUE)
      /\ \A d : x = ResultItem(d, FALSE) => d = c
  <2>1. x \in Item /\ x.kind # "answer"
    BY <1>2, ItemsAre, ResultsDiffer
  <2>2. \A d : x # CallItem(d) /\ x # ResultItem(d, TRUE)
    BY Distinct
  <2>3. \A d : x = ResultItem(d, FALSE) => d = c
    BY ItemsDiffer
  <2> QED
    BY <2>1, <2>2, <2>3
<1>4. Addable(s, x)
  <2>1. \A d \in CallIDs, r \in BOOLEAN : x = ResultItem(d, r) => d = c
    BY ItemsDiffer
  <2>2. \A p \in 1 .. Len(s) : s[p].kind = "answer" => x \notin s[p].saw
    BY <1>1, <1>2, NotSeen
  <2>3. ~Contains(s, ResultItem(c, FALSE))
    BY <1>2
  <2> HIDE DEF x
  <2> QED
    BY <1>2, <1>3, <2>1, <2>2, <2>3 DEF Addable
<1> HIDE DEF x
<1>5. G \subseteq K /\ x \in K
  OBVIOUS
<1>6. History(t)
  BY <1>1, <1>4, AppendKeepsHistory
<1>7. t \in Seq(Item)
  BY <1>1, <1>3
<1>8. \A y : Contains(t, y) <=> Contains(s, y) \/ x = y
  BY <1>1, <1>3, ContainsAppend
<1>9. Present(t, K, S)
  BY <1>1, <1>8 DEF Present
<1>10. CallsOK(t, U \ {c}, R \ {c}, K)
  <2>1. Contains(t, ResultItem(c, FALSE))
    BY <1>8 DEF x
  <2> HIDE DEF t
  <2> QED
    BY <1>1, <1>3, <1>8, <2>1 DEF CallsOK
<1> HIDE DEF K
<1>11. Sourced(t, K)
  BY <1>1, <1>3, <1>5, SourcedAppend
<1> QED
  BY <1>1, <1>2, <1>6, <1>7, <1>9, <1>10, <1>11 DEF ContextOK, t, x, K

(* A final result in the place of a running one that nobody has seen.      *)
LEMMA ReplacedOK ==
  ASSUME NEW s, NEW U, NEW R, NEW G, NEW S, NEW n, ContextOK(s, U, R, G, S, n), NEW c \in U \cup R,
         NEW k \in 1 .. Len(s), s[k] = ResultItem(c, TRUE),
         \A p \in 1 .. Len(s) : s[p].kind = "answer" => p < k
  PROVE  ContextOK([s EXCEPT ![k] = ResultItem(c, FALSE)], U \ {c}, R \ {c},
                   G \cup {ResultItem(c, FALSE)}, S, n)
<1> DEFINE x == ResultItem(c, FALSE)
           y == ResultItem(c, TRUE)
           t == [s EXCEPT ![k] = x]
           K == G \cup {x}
<1>1. /\ s \in Seq(Item) /\ n \in Nat
      /\ GivenOK(G, n) /\ History(s) /\ Sourced(s, G) /\ Present(s, G, S) /\ CallsOK(s, U, R, G)
  BY DEF ContextOK
<1>2. /\ c \in CallIDs /\ Contains(s, CallItem(c)) /\ x \notin G /\ ~Contains(s, x) /\ GivenOK(K, n)
      /\ U \ {c} \subseteq CallIDs /\ R \ {c} \subseteq CallIDs \ (U \ {c})
  BY FinalGiven, ZenonT(100)
<1>3. /\ x \in Item /\ x # y /\ y # SummaryItem /\ s[k] = y /\ y \notin G
      /\ \A d : x # CallItem(d) /\ y # CallItem(d) /\ y # ResultItem(d, FALSE) /\ x # ResultItem(d, TRUE)
      /\ \A d : x = ResultItem(d, FALSE) => d = c
      /\ \A d : y = ResultItem(d, TRUE) => d = c
  <2>1. x \in Item /\ x # y /\ y # SummaryItem /\ s[k] = y
    BY <1>2, ItemsAre, Distinct
  <2>2. \A d : x # CallItem(d) /\ y # CallItem(d) /\ y # ResultItem(d, FALSE) /\ x # ResultItem(d, TRUE)
    BY Distinct
  <2>3. /\ \A d : x = ResultItem(d, FALSE) => d = c
        /\ \A d : y = ResultItem(d, TRUE) => d = c
    BY ItemsDiffer
  <2>4. y \notin G
    BY <1>1, <1>2 DEF GivenOK
  <2> QED
    BY <2>1, <2>2, <2>3, <2>4
<1>4. History(t)
  <2>1. \A p \in 1 .. Len(s) : s[p].kind = "answer" => x \notin s[p].saw
    BY <1>1, <1>2, NotSeen
  <2>2. Replaceable(s, k, c)
    BY <1>2, <2>1 DEF Replaceable
  <2> QED
    BY <1>1, <2>2, ReplaceKeepsHistory
<1>5. y = ResultItem(c, TRUE) /\ x = ResultItem(c, FALSE)
  OBVIOUS
<1> HIDE DEF x, y
<1>6. /\ t \in Seq(Item) /\ Len(t) = Len(s) /\ t[k] = x
      /\ \A p \in 1 .. Len(s) : p # k => t[p] = s[p]
  BY <1>1, <1>3, ReplaceIs
<1> HIDE DEF t
<1>7. \A z : z # y => (Contains(t, z) <=> Contains(s, z) \/ x = z)
  BY <1>3, <1>6 DEF Contains
<1>8. Present(t, K, S)
  BY <1>1, <1>3, <1>7 DEF Present
<1>9. Sourced(t, K)
  BY <1>1, <1>6 DEF Sourced
<1>10. CallsOK(t, U \ {c}, R \ {c}, K)
  <2>1. \A d \in CallIDs : /\ Contains(t, CallItem(d)) <=> Contains(s, CallItem(d))
                           /\ Contains(s, ResultItem(d, FALSE)) => Contains(t, ResultItem(d, FALSE))
                           /\ d # c => (Contains(t, ResultItem(d, TRUE)) <=> Contains(s, ResultItem(d, TRUE)))
                           /\ d # c => ResultItem(d, FALSE) # x
    BY <1>3, <1>7
  <2>2. Contains(t, ResultItem(c, FALSE))
    BY <1>3, <1>5, <1>7
  <2>3. U \subseteq CallIDs /\ R \subseteq CallIDs
    BY DEF ContextOK
  <2> QED
    BY <1>1, <2>1, <2>2, <2>3 DEF CallsOK
<1> QED
  BY <1>1, <1>2, <1>4, <1>6, <1>8, <1>9, <1>10 DEF ContextOK, t, x, K

(* The output of a response: one answer and the calls C, each once.        *)
Output(O, C, n, T) ==
  /\ O \in Seq(Item) /\ C \subseteq CallIDs /\ T \subseteq Messages
  /\ \A k \in 1 .. Len(O) : O[k] = AnswerItem(n, T) \/ \E c \in C : O[k] = CallItem(c)
  /\ \A j, k \in 1 .. Len(O) : O[j] = O[k] => j = k
  /\ \A c \in C : Contains(O, CallItem(c))

(* The items of a response.                                                *)
LEMMA ContainsOutput ==
  ASSUME NEW O, NEW C, NEW n, NEW T, Output(O, C, n, T), NEW x, Contains(O, x)
  PROVE  x = AnswerItem(n, T) \/ \E c \in C : x = CallItem(c)
<1>1. PICK k \in 1 .. Len(O) : O[k] = x
  BY DEF Contains
<1>2. O[k] = AnswerItem(n, T) \/ \E c \in C : O[k] = CallItem(c)
  BY DEF Output
<1> QED
  BY <1>1, <1>2

(* The items of a sequence with a response in it.                          *)
LEMMA ContainsInserted ==
  ASSUME NEW A \in Seq(Item), NEW O \in Seq(Item), NEW B \in Seq(Item), NEW x
  PROVE  Contains((A \o O) \o B, x) <=> Contains(A \o B, x) \/ Contains(O, x)
<1>1. A \o O \in Seq(Item)
  BY ConcatIs
<1>2. Contains((A \o O) \o B, x) <=> Contains(A \o O, x) \/ Contains(B, x)
  BY <1>1, ContainsConcat
<1>3. Contains(A \o O, x) <=> Contains(A, x) \/ Contains(O, x)
  BY ContainsConcat
<1>4. Contains(A \o B, x) <=> Contains(A, x) \/ Contains(B, x)
  BY ContainsConcat
<1> QED
  BY <1>2, <1>3, <1>4

(* An answer, which has seen what stands before it, and its calls.         *)
LEMMA AnswerOK ==
  ASSUME NEW A \in Seq(Item), NEW B \in Seq(Item), NEW U, NEW R, NEW G, NEW S, NEW n,
         ContextOK(A \o B, U, R, G, S, n),
         NEW O, NEW C, NEW T, Output(O, C, n + 1, T), T \subseteq G,
         \A c \in C : CallItem(c) \notin G,
         \A p \in 1 .. Len(A) : IsTold(A[p]) => A[p] \in T,
         \A p \in 1 .. Len(B) : IsTold(B[p]) => B[p] \notin T
  PROVE  ContextOK((A \o O) \o B, C \cup U, R, G \cup ToSet(O), S, n + 1)
<1> DEFINE s == A \o B
           t == (A \o O) \o B
           K == G \cup ToSet(O)
           w == AnswerItem(n + 1, T)
<1>1. /\ s \in Seq(Item) /\ U \subseteq CallIDs /\ R \subseteq CallIDs \ U /\ n \in Nat
      /\ GivenOK(G, n) /\ History(s) /\ Sourced(s, G) /\ Present(s, G, S) /\ CallsOK(s, U, R, G)
  BY DEF ContextOK
<1>2. O \in Seq(Item) /\ C \subseteq CallIDs /\ T \subseteq Messages /\ n + 1 \in Nat
  BY <1>1 DEF Output
<1>3. w.kind = "answer" /\ w.id = n + 1 /\ w.saw = T /\ w \notin G
  <2>1. w.kind = "answer" /\ w.id = n + 1 /\ w.saw = T
    BY ItemFields
  <2>2. ASSUME w \in G PROVE FALSE
    <3>1. n + 1 <= n
      BY <1>1, <2>1, <2>2 DEF GivenOK
    <3> QED
      BY <1>1, <3>1
  <2> QED
    BY <2>1, <2>2
<1>4. \A x : Contains(O, x) => x = w \/ \E c \in C : x = CallItem(c)
  BY ContainsOutput
<1>5. \A x : Contains(O, x) <=> x \in ToSet(O)
  <2>1. DOMAIN O = 1 .. Len(O)
    BY <1>2
  <2> QED
    BY <2>1 DEF Contains, ToSet
<1>6. w # SummaryItem /\ \A c : w # ResultItem(c, TRUE) /\ w # ResultItem(c, FALSE) /\ w # CallItem(c)
  <2>1. w # SummaryItem
    BY <1>3, ItemFields
  <2>2. ASSUME NEW c PROVE w # ResultItem(c, TRUE) /\ w # ResultItem(c, FALSE) /\ w # CallItem(c)
    BY <1>3, ResultsDiffer
  <2> QED
    BY <2>1, <2>2
<1>7. \A x : Contains(O, x) => /\ x \notin G /\ ~Contains(s, x) /\ x # SummaryItem
                               /\ \A c : x # ResultItem(c, TRUE) /\ x # ResultItem(c, FALSE)
  <2> SUFFICES ASSUME NEW x, Contains(O, x)
               PROVE  /\ x \notin G /\ ~Contains(s, x) /\ x # SummaryItem
                      /\ \A c : x # ResultItem(c, TRUE) /\ x # ResultItem(c, FALSE)
    OBVIOUS
  <2>1. /\ x \notin G /\ x # SummaryItem
        /\ \A c : x # ResultItem(c, TRUE) /\ x # ResultItem(c, FALSE)
    <3>1. CASE x = w
      BY <1>3, <1>6, <3>1
    <3>2. CASE \E c \in C : x = CallItem(c)
      BY <3>2, Distinct
    <3> QED
      BY <1>4, <3>1, <3>2
  <2>2. ~Contains(s, x)
    BY <1>1, <2>1, SourceIs
  <2> QED
    BY <2>1, <2>2
<1> HIDE DEF w
<1>8. \A x : Contains(s, x) <=> Contains(A, x) \/ Contains(B, x)
  BY ContainsConcat
<1>9. \A x : Contains(t, x) <=> Contains(s, x) \/ Contains(O, x)
  BY <1>2, ContainsInserted
<1>10. Insertable(A, O, B)
  <2>1. \A k \in 1 .. Len(O) : O[k] = w \/ \E c \in CallIDs : O[k] = CallItem(c)
    BY <1>2 DEF Output, w
  <2>2. \A k \in 1 .. Len(O) : O[k].kind = "answer" => O[k] = w
    BY <2>1, ResultsDiffer
  <2>3. \A k \in 1 .. Len(O) : Contains(O, O[k])
    BY DEF Contains
  <2>4. \A k \in 1 .. Len(O) : ~Contains(A, O[k]) /\ ~Contains(B, O[k])
    BY <1>7, <1>8, <2>3
  <2>5. \A j, k \in 1 .. Len(O) : O[j] = O[k] => j = k
    BY DEF Output
  <2> QED
    BY <1>3, <2>1, <2>2, <2>4, <2>5 DEF Insertable
<1>11. History(t)
  BY <1>1, <1>2, <1>10, InsertKeepsHistory
<1>12. t \in Seq(Item)
  BY <1>2, InsertedIs
<1>13. \A p \in 1 .. Len(t) : Contains(t, t[p])
  BY DEF Contains
<1> HIDE DEF s, t
<1>14. Sourced(t, K)
  <2> SUFFICES ASSUME NEW p \in 1 .. Len(t)
               PROVE  t[p] \in K \/ t[p] = SummaryItem \/ \E c \in CallIDs : t[p] = ResultItem(c, TRUE)
    BY DEF Sourced
  <2>1. Contains(s, t[p]) \/ Contains(O, t[p])
    BY <1>9, <1>13
  <2>2. CASE Contains(s, t[p])
    BY <1>1, <2>2, SourceIs
  <2>3. CASE Contains(O, t[p])
    BY <1>5, <2>3
  <2> QED
    BY <2>1, <2>2, <2>3
<1>15. Present(t, K, S)
  BY <1>1, <1>5, <1>9 DEF Present
<1>16. ToSet(O) \subseteq Item
  BY <1>2 DEF ToSet
<1>17. GivenOK(K, n + 1)
  <2>1. \A c \in CallIDs : ResultItem(c, TRUE) \notin K /\ (ResultItem(c, FALSE) \in K => CallItem(c) \in K)
    BY <1>1, <1>5, <1>7 DEF GivenOK
  <2>2. SummaryItem \notin K
    BY <1>1, <1>5, <1>7 DEF GivenOK
  <2>3. ASSUME NEW x \in K, x.kind = "answer" PROVE x.id <= n + 1 /\ x.saw \subseteq K
    <3>1. CASE x \in G
      <4>1. x.id <= n /\ x.saw \subseteq G /\ x \in Item
        BY <1>1, <2>3, <3>1 DEF GivenOK
      <4>2. x.id \in Nat
        BY <2>3, <4>1, KindIs, ItemFields
      <4> QED
        BY <1>1, <4>1, <4>2
    <3>2. CASE x \in ToSet(O)
      <4>1. x = w
        BY <1>4, <1>5, <2>3, <3>2, ResultsDiffer
      <4> QED
        BY <1>1, <1>3, <4>1
    <3> QED
      BY <3>1, <3>2
  <2> QED
    BY <1>1, <1>16, <2>1, <2>2, <2>3 DEF GivenOK
<1>18. \A c \in CallIDs : /\ Contains(t, ResultItem(c, TRUE)) <=> Contains(s, ResultItem(c, TRUE))
                          /\ Contains(t, ResultItem(c, FALSE)) <=> Contains(s, ResultItem(c, FALSE))
                          /\ ResultItem(c, FALSE) \in K <=> ResultItem(c, FALSE) \in G
  BY <1>5, <1>7, <1>9
<1>19. \A c \in CallIDs : /\ Contains(t, CallItem(c)) <=> Contains(s, CallItem(c)) \/ c \in C
                          /\ c \in C => ~Contains(s, CallItem(c)) /\ CallItem(c) \notin G
  <2> SUFFICES ASSUME NEW c \in CallIDs
               PROVE  /\ Contains(t, CallItem(c)) <=> Contains(s, CallItem(c)) \/ c \in C
                      /\ c \in C => ~Contains(s, CallItem(c)) /\ CallItem(c) \notin G
    OBVIOUS
  <2>1. c \in C => Contains(O, CallItem(c))
    BY DEF Output
  <2>2. ASSUME Contains(O, CallItem(c)) PROVE c \in C
    <3>1. PICK d \in C : CallItem(c) = CallItem(d)
      BY <1>4, <1>6, <2>2
    <3> QED
      BY <3>1, ItemsDiffer
  <2> QED
    BY <1>7, <1>9, <2>1, <2>2
<1>20. \A c \in CallIDs : Contains(s, ResultItem(c, TRUE)) => Contains(s, CallItem(c))
  <2> SUFFICES ASSUME NEW c \in CallIDs, Contains(s, ResultItem(c, TRUE))
               PROVE  Contains(s, CallItem(c))
    OBVIOUS
  <2>1. PICK p \in 1 .. Len(s) : s[p] = ResultItem(c, TRUE)
    BY DEF Contains
  <2> QED
    BY <1>1, <2>1 DEF History, CallsFirst, Contains
<1>21. \A c \in CallIDs : c \in C => ResultItem(c, FALSE) \notin G
  BY <1>1, <1>19 DEF GivenOK
<1>22. C \cup U \subseteq CallIDs /\ R \subseteq CallIDs \ (C \cup U)
  BY <1>1, <1>2, <1>19 DEF CallsOK
<1>23. CallsOK(t, C \cup U, R, K)
  <2>1. \A c \in (C \cup U) \cup R : Contains(t, CallItem(c)) /\ ResultItem(c, FALSE) \notin K
    <3>1. \A c \in C : Contains(t, CallItem(c)) /\ ResultItem(c, FALSE) \notin K
      BY <1>2, <1>18, <1>19, <1>21
    <3>2. \A c \in U \cup R : Contains(t, CallItem(c)) /\ ResultItem(c, FALSE) \notin K
      BY <1>1, <1>18, <1>19 DEF CallsOK
    <3> QED
      BY <3>1, <3>2
  <2>2. \A c \in R : Contains(t, ResultItem(c, TRUE))
    BY <1>1, <1>18 DEF CallsOK
  <2>3. \A c \in C \cup U : ~Contains(t, ResultItem(c, TRUE))
    <3>1. \A c \in C : ~Contains(t, ResultItem(c, TRUE))
      BY <1>2, <1>18, <1>19, <1>20
    <3>2. \A c \in U : ~Contains(t, ResultItem(c, TRUE))
      BY <1>1, <1>18 DEF CallsOK
    <3> QED
      BY <3>1, <3>2
  <2>4. \A c \in CallIDs : Contains(t, CallItem(c)) =>
          c \in (C \cup U) \cup R \/ Contains(t, ResultItem(c, FALSE))
    BY <1>1, <1>18, <1>19 DEF CallsOK
  <2> QED
    BY <2>1, <2>2, <2>3, <2>4 DEF CallsOK
<1> QED
  BY <1>11, <1>12, <1>14, <1>15, <1>17, <1>2, <1>22, <1>23 DEF ContextOK, t

(* A prefix is replaced by its summary and what is carried of it.          *)
LEMMA CompactedOK ==
  ASSUME NEW P \in Seq(Item), NEW Q \in Seq(Item), NEW H \in Seq(Item), NEW U, NEW R, NEW G, NEW S,
         NEW n, ContextOK(P \o Q, U, R, G, S, n), CarryOK(P, H), NEW Z,
         \A x : Contains(P, x) => x \in Z
  PROVE  ContextOK(H \o Q, U, R, G, S \cup Z, n)
<1> DEFINE s == P \o Q
           t == H \o Q
<1>1. /\ s \in Seq(Item) /\ U \subseteq CallIDs /\ R \subseteq CallIDs \ U /\ n \in Nat
      /\ GivenOK(G, n) /\ History(s) /\ Sourced(s, G) /\ Present(s, G, S) /\ CallsOK(s, U, R, G)
  BY DEF ContextOK
<1>2. History(t)
  BY <1>1, CompactKeepsHistory
<1>3. t \in Seq(Item)
  BY ConcatIs
<1>4. \A x : Contains(s, x) <=> Contains(P, x) \/ Contains(Q, x)
  BY ContainsConcat
<1>5. \A x : Contains(t, x) <=> Contains(H, x) \/ Contains(Q, x)
  BY ContainsConcat
<1>6. \A x : Contains(H, x) =>
        x = SummaryItem \/ (Contains(P, x) /\ \E c \in CallIDs : x = CallItem(c) \/ x = ResultItem(c, TRUE))
  <2> SUFFICES ASSUME NEW x, Contains(H, x)
               PROVE  \/ x = SummaryItem
                      \/ Contains(P, x) /\ \E c \in CallIDs : x = CallItem(c) \/ x = ResultItem(c, TRUE)
    OBVIOUS
  <2>1. PICK p \in 1 .. Len(H) : H[p] = x
    BY DEF Contains
  <2>2. \/ H[p] = SummaryItem
        \/ /\ Contains(P, H[p])
           /\ \E c \in CallIDs : H[p] = CallItem(c) \/ H[p] = ResultItem(c, TRUE)
    BY DEF CarryOK
  <2> QED
    BY <2>1, <2>2
<1>7. /\ \A c \in CallIDs :
           Contains(P, CallItem(c)) /\ ~Contains(P, ResultItem(c, FALSE)) =>
             /\ Contains(H, CallItem(c))
             /\ Contains(P, ResultItem(c, TRUE)) => Contains(H, ResultItem(c, TRUE))
      /\ \A c \in CallIDs : Contains(H, CallItem(c)) => ~Contains(P, ResultItem(c, FALSE))
  BY DEF CarryOK
<1>8. \A c \in CallIDs : Contains(P, ResultItem(c, TRUE)) \/ Contains(P, ResultItem(c, FALSE)) =>
                           Contains(P, CallItem(c))
  <2>1. CallsFirst(P \o Q) /\ TRUE \in BOOLEAN /\ FALSE \in BOOLEAN
    BY <1>1 DEF History
  <2> QED
    BY <2>1, CallInPrefix
<1>9. \A x : x # SummaryItem => ~(Contains(P, x) /\ Contains(Q, x))
  <2>1. OnceEach(P \o Q)
    BY <1>1 DEF History
  <2> QED
    BY <2>1, OncePart
<1>10. \A p \in 1 .. Len(t) : Contains(t, t[p])
  BY DEF Contains
<1>11. \A c \in U \cup R : ~Contains(s, ResultItem(c, FALSE)) /\ c \in CallIDs
  BY <1>1, WasGiven DEF CallsOK
<1> HIDE DEF s, t
<1>12. Sourced(t, G)
  <2> SUFFICES ASSUME NEW p \in 1 .. Len(t)
               PROVE  t[p] \in G \/ t[p] = SummaryItem \/ \E c \in CallIDs : t[p] = ResultItem(c, TRUE)
    BY DEF Sourced
  <2>1. t[p] = SummaryItem \/ Contains(s, t[p])
    BY <1>4, <1>5, <1>6, <1>10
  <2>2. CASE Contains(s, t[p])
    BY <1>1, <2>2, SourceIs
  <2> QED
    BY <2>1, <2>2
<1>13. Present(t, G, S \cup Z)
  BY <1>1, <1>4, <1>5 DEF Present
<1>14. CallsOK(t, U, R, G)
  <2>1. \A c \in U \cup R : Contains(t, CallItem(c)) /\ ResultItem(c, FALSE) \notin G
    BY <1>1, <1>4, <1>5, <1>7, <1>11 DEF CallsOK
  <2>2. \A c \in R : Contains(t, ResultItem(c, TRUE))
    BY <1>1, <1>4, <1>5, <1>7, <1>8, <1>11 DEF CallsOK
  <2>3. \A c \in U : ~Contains(t, ResultItem(c, TRUE))
    BY <1>1, <1>4, <1>5, <1>6, Distinct DEF CallsOK
  <2>4. ASSUME NEW c \in CallIDs, Contains(t, CallItem(c))
        PROVE  c \in U \cup R \/ Contains(t, ResultItem(c, FALSE))
    <3>1. CallItem(c) # SummaryItem
      BY Distinct
    <3>2. Contains(s, CallItem(c))
      BY <1>4, <1>5, <1>6, <2>4, <3>1
    <3>3. c \in U \cup R \/ Contains(s, ResultItem(c, FALSE))
      BY <1>1, <3>2 DEF CallsOK
    <3>4. ASSUME Contains(P, ResultItem(c, FALSE)) PROVE FALSE
      BY <1>5, <1>7, <1>8, <1>9, <2>4, <3>1, <3>4
    <3> QED
      BY <1>4, <1>5, <3>3, <3>4
  <2> QED
    BY <2>1, <2>2, <2>3, <2>4 DEF CallsOK
<1> QED
  BY <1>1, <1>2, <1>3, <1>12, <1>13, <1>14 DEF ContextOK, t

(* A prefix of a history holds nothing twice.                              *)
LEMMA OncePrefix ==
  ASSUME NEW P \in Seq(Item), NEW Q \in Seq(Item), OnceEach(P \o Q)
  PROVE  OnceEach(P)
<1> DEFINE s == P \o Q
<1>1. \A p \in 1 .. Len(P) : p \in 1 .. Len(s) /\ s[p] = P[p]
  BY ConcatIs
<1>2. OnceEach(s)
  OBVIOUS
<1> HIDE DEF s
<1> QED
  BY <1>1, <1>2 DEF OnceEach

-----------------------------------------------------------------------------
(* The cutoff and what a compaction asks for.                              *)

(* There is a latest checkpoint when there is a cutoff.                    *)
LEMMA LastIs ==
  ASSUME StateOK, TypeOK, HasCutoff
  PROVE  /\ Len(prefixTokens) \in Nat /\ Len(prefixTokens) \in 1 .. Len(prefixTokens)
         /\ \A k \in 1 .. Len(prefixTokens) :
              /\ prefixTokens[k].index \in 1 .. Len(committedPrefix)
              /\ prefixTokens[k].tokens \in Nat
<1>1. prefixTokens \in Seq([index : Nat, tokens : Nat]) /\ prefixTokens # <<>>
  BY DEF StateOK, HasCutoff
<1>2. Len(prefixTokens) \in Nat /\ Len(prefixTokens) # 0 /\ DOMAIN prefixTokens = 1 .. Len(prefixTokens)
  BY <1>1
<1> DEFINE X == [index : Nat, tokens : Nat]
<1>3. \A k \in 1 .. Len(prefixTokens) : prefixTokens[k].tokens \in Nat
  <2>1. \A x \in X : x.tokens \in Nat
    OBVIOUS
  <2>2. prefixTokens \in Seq(X)
    BY <1>1
  <2> HIDE DEF X
  <2>3. \A k \in 1 .. Len(prefixTokens) : prefixTokens[k] \in X
    BY <2>2
  <2> QED
    BY <2>1, <2>3
<1> QED
  BY <1>2, <1>3 DEF TypeOK

(* The cutoff is a checkpoint, a position of the committed history.        *)
LEMMA CutoffIs ==
  ASSUME StateOK, TypeOK, HasCutoff
  PROVE  /\ Cutoff \in 1 .. Len(committedPrefix) /\ Len(committedPrefix) \in Nat
         /\ Cutoff \in {prefixTokens[k].index : k \in DOMAIN prefixTokens}
<1> DEFINE n == Len(prefixTokens)
           latest == Last(prefixTokens).tokens
           K == {k \in DOMAIN prefixTokens :
                   \A m \in k .. n : latest - prefixTokens[m].tokens <= Retained}
<1>1. /\ n \in Nat /\ n \in 1 .. n /\ DOMAIN prefixTokens = 1 .. n
      /\ \A k \in 1 .. n : /\ prefixTokens[k].index \in 1 .. Len(committedPrefix)
                           /\ prefixTokens[k].tokens \in Nat
  BY LastIs DEF StateOK
<1>2. n \in K
  <2>1. latest = prefixTokens[n].tokens
    BY DEF Last
  <2>2. Retained \in Nat
    BY UsageAssumption
  <2>3. \A m \in n .. n : m = n
    <3>1. n \in Nat
      BY <1>1
    <3> HIDE DEF n
    <3> QED
      BY <3>1
  <2>4. latest - latest <= Retained
    BY <1>1, <2>1, <2>2
  <2> QED
    BY <1>1, <2>1, <2>3, <2>4
<1>3. K \in SUBSET Nat /\ K # {}
  BY <1>1, <1>2
<1>4. Cutoff = prefixTokens[Min(K)].index
  BY DEF Cutoff
<1>5. Min(K) \in K
  BY <1>3, MinIs
<1>6. Min(K) \in 1 .. n
  BY <1>1, <1>5
<1>7. Cutoff \in {prefixTokens[k].index : k \in DOMAIN prefixTokens}
  BY <1>1, <1>4, <1>6, Zenon
<1>8. Cutoff \in 1 .. Len(committedPrefix) /\ Len(committedPrefix) \in Nat
  BY <1>1, <1>4, <1>6 DEF StateOK
<1> QED
  BY <1>7, <1>8

(* BuildCompaction shows a running result for each pending call without.   *)
ShownAt(P, k) ==
  IF k \in PendingToolCalls(P) /\ ~ShownRunning(P, P[k].id) THEN <<ResultItem(P[k].id, TRUE)>>
  ELSE <<>>

Open(P) == FlattenSeq([k \in DOMAIN P |-> ShownAt(P, k)])

(* The request for a compaction: a prefix and the results it lacks.        *)
LEMMA CompactionRequestIs ==
  CompactionRequest = SubSeq(committedPrefix, 1, Cutoff) \o Open(SubSeq(committedPrefix, 1, Cutoff))
BY DEF CompactionRequest, Open, ShownAt

(* Running results are shown for the open calls that have none.            *)
LEMMA OpenIs ==
  ASSUME NEW P \in Seq(Item)
  PROVE  /\ Open(P) \in Seq(Item)
         /\ \A p \in 1 .. Len(Open(P)) : \E c \in CallIDs :
              /\ Open(P)[p] = ResultItem(c, TRUE)
              /\ Contains(P, CallItem(c)) /\ ~Contains(P, ResultItem(c, FALSE))
         /\ \A c \in CallIDs :
              /\ Contains(P, CallItem(c)) /\ ~Contains(P, ResultItem(c, FALSE))
              /\ ~Contains(P, ResultItem(c, TRUE))
              => Contains(Open(P), ResultItem(c, TRUE))
<1> DEFINE seqs == [k \in 1 .. Len(P) |-> ShownAt(P, k)]
           E == Open(P)
<1>1. DOMAIN P = 1 .. Len(P) /\ Len(P) \in Nat
  OBVIOUS
<1>2. E = FlattenSeq(seqs)
  BY <1>1 DEF Open
<1>3. \A k \in 1 .. Len(P) : seqs[k] = ShownAt(P, k)
  OBVIOUS
<1>4. ASSUME NEW k \in 1 .. Len(P)
      PROVE  /\ seqs[k] \in Seq(Item)
             /\ \A j \in 1 .. Len(seqs[k]) : \E c \in CallIDs :
                  /\ seqs[k][j] = ResultItem(c, TRUE)
                  /\ P[k] = CallItem(c) /\ ~Contains(P, ResultItem(c, FALSE))
  <2>1. CASE k \in PendingToolCalls(P) /\ ~ShownRunning(P, P[k].id)
    <3>1. PICK c \in CallIDs : /\ P[k] = CallItem(c) /\ P[k].id = c
                               /\ ~Contains(P, ResultItem(c, FALSE))
      BY <2>1, PendingIs
    <3> DEFINE x == ResultItem(c, TRUE)
    <3>2. seqs[k] = <<x>>
      BY <1>3, <2>1, <3>1 DEF ShownAt
    <3>3. x \in Item
      BY ItemsAre
    <3> HIDE DEF seqs, x
    <3>4. seqs[k] \in Seq(Item) /\ Len(seqs[k]) = 1 /\ seqs[k][1] = x
      BY <3>2, <3>3
    <3>5. \A j \in 1 .. Len(seqs[k]) : seqs[k][j] = x
      BY <3>4
    <3> QED
      BY <3>1, <3>4, <3>5 DEF x
  <2>2. CASE ~(k \in PendingToolCalls(P) /\ ~ShownRunning(P, P[k].id))
    <3>1. seqs[k] = <<>>
      BY <1>3, <2>2 DEF ShownAt
    <3> HIDE DEF seqs
    <3> QED
      BY <3>1
  <2> QED
    BY <2>1, <2>2
<1>5. ASSUME NEW k \in 1 .. Len(P), NEW c \in CallIDs, P[k] = CallItem(c),
             ~Contains(P, ResultItem(c, FALSE)), ~Contains(P, ResultItem(c, TRUE))
      PROVE  1 \in 1 .. Len(seqs[k]) /\ seqs[k][1] = ResultItem(c, TRUE)
  <2>1. k \in PendingToolCalls(P) /\ P[k].id = c
    BY <1>5, PendingIs
  <2>2. ~ShownRunning(P, c)
    BY <1>5 DEF ShownRunning
  <2>3. seqs[k] = <<ResultItem(c, TRUE)>>
    BY <1>3, <2>1, <2>2 DEF ShownAt
  <2> HIDE DEF seqs
  <2> QED
    BY <2>3
<1>6. seqs \in Seq(Seq(Item)) /\ Len(seqs) = Len(P)
  <2>1. seqs \in [1 .. Len(P) -> Seq(Item)]
    BY <1>4
  <2> HIDE DEF seqs
  <2> QED
    BY <1>1, <2>1
<1> HIDE DEF seqs
<1>7. E \in Seq(Item) /\ \E off : Laid(seqs, Len(P), E, off)
  BY <1>2, <1>6, FlattenLayout
<1>8. PICK off : Laid(seqs, Len(P), E, off)
  BY <1>7
<1>9. /\ \A k \in 1 .. Len(P) : \A j \in 1 .. Len(seqs[k]) :
           off[k] + j \in 1 .. Len(E) /\ E[off[k] + j] = seqs[k][j]
      /\ \A p \in 1 .. Len(E) : \E k \in 1 .. Len(P) : \E j \in 1 .. Len(seqs[k]) : p = off[k] + j
  BY <1>8 DEF Laid
<1> HIDE DEF E
<1>10. ASSUME NEW p \in 1 .. Len(E)
       PROVE  \E c \in CallIDs : /\ E[p] = ResultItem(c, TRUE)
                                 /\ Contains(P, CallItem(c)) /\ ~Contains(P, ResultItem(c, FALSE))
  <2>1. PICK k \in 1 .. Len(P) : \E j \in 1 .. Len(seqs[k]) : p = off[k] + j
    BY <1>9
  <2>2. PICK j \in 1 .. Len(seqs[k]) : p = off[k] + j
    BY <2>1
  <2>3. E[p] = seqs[k][j]
    BY <1>9, <2>2
  <2>4. PICK c \in CallIDs : /\ seqs[k][j] = ResultItem(c, TRUE)
                             /\ P[k] = CallItem(c) /\ ~Contains(P, ResultItem(c, FALSE))
    BY <1>4
  <2>5. Contains(P, CallItem(c))
    BY <2>4 DEF Contains
  <2> QED
    BY <2>3, <2>4, <2>5
<1>11. ASSUME NEW c \in CallIDs, Contains(P, CallItem(c)), ~Contains(P, ResultItem(c, FALSE)),
              ~Contains(P, ResultItem(c, TRUE))
       PROVE  Contains(E, ResultItem(c, TRUE))
  <2>1. PICK k \in 1 .. Len(P) : P[k] = CallItem(c)
    BY <1>11 DEF Contains
  <2>2. 1 \in 1 .. Len(seqs[k]) /\ seqs[k][1] = ResultItem(c, TRUE)
    BY <1>5, <1>11, <2>1
  <2>3. off[k] + 1 \in 1 .. Len(E) /\ E[off[k] + 1] = ResultItem(c, TRUE)
    BY <1>9, <2>2
  <2> QED
    BY <2>3 DEF Contains
<1> QED
  BY <1>7, <1>10, <1>11 DEF E

(* The two parts of the context around a cutoff.                           *)
LEMMA SplitIs ==
  ASSUME NEW A \in Seq(Item), NEW B \in Seq(Item), NEW k \in 1 .. Len(A)
  PROVE  /\ SubSeq(A, 1, k) \in Seq(Item) /\ SubSeq(A, k + 1, Len(A)) \in Seq(Item)
         /\ SubSeq(A, k + 1, Len(A)) \o B \in Seq(Item)
         /\ A \o B = SubSeq(A, 1, k) \o (SubSeq(A, k + 1, Len(A)) \o B)
         /\ \A H \in Seq(Item) : (H \o SubSeq(A, k + 1, Len(A))) \o B
                                   = H \o (SubSeq(A, k + 1, Len(A)) \o B)
<1> DEFINE P == SubSeq(A, 1, k)
           Q == SubSeq(A, k + 1, Len(A))
<1>1. Len(A) \in Nat /\ k \in Nat /\ 1 <= k /\ k <= Len(A)
  OBVIOUS
<1>2. /\ P \in Seq(Item) /\ Len(P) = k + 1 - 1
      /\ \A p \in 1 .. k + 1 - 1 : P[p] = A[p + 1 - 1]
  BY <1>1, SubSeqIs
<1>3. /\ Q \in Seq(Item) /\ Len(Q) = Len(A) + 1 - (k + 1)
      /\ \A p \in 1 .. Len(A) + 1 - (k + 1) : Q[p] = A[p + (k + 1) - 1]
  BY <1>1, SubSeqIs
<1>4. Len(P) = k /\ Len(Q) = Len(A) - k
  BY <1>1, <1>2, <1>3
<1>5. \A p \in 1 .. k : P[p] = A[p]
  BY <1>1, <1>2
<1>6. \A p \in 1 .. Len(A) - k : Q[p] = A[p + k]
  BY <1>1, <1>3
<1> HIDE DEF P, Q
<1>7. A \o B = P \o (Q \o B)
  <2> DEFINE s == A \o B
             w == Q \o B
             t == P \o w
  <2>1. /\ s \in Seq(Item) /\ Len(s) = Len(A) + Len(B) /\ Len(B) \in Nat
        /\ \A p \in 1 .. Len(A) + Len(B) : s[p] = IF p <= Len(A) THEN A[p] ELSE B[p - Len(A)]
    BY ConcatIs
  <2>2. /\ w \in Seq(Item) /\ Len(w) = Len(A) - k + Len(B)
        /\ \A p \in 1 .. Len(w) : w[p] = IF p <= Len(Q) THEN Q[p] ELSE B[p - Len(Q)]
    <3>1. /\ w \in Seq(Item) /\ Len(w) = Len(Q) + Len(B)
          /\ \A p \in 1 .. Len(Q) + Len(B) : w[p] = IF p <= Len(Q) THEN Q[p] ELSE B[p - Len(Q)]
      <4>1. Q \in Seq(Item)
        BY <1>3
      <4> QED
        BY <4>1, ConcatIs
    <3> QED
      BY <1>4, <3>1
  <2> HIDE DEF w
  <2>3. /\ t \in Seq(Item) /\ Len(t) = k + Len(w)
        /\ \A p \in 1 .. k + Len(w) : t[p] = IF p <= k THEN P[p] ELSE w[p - k]
    <3>1. /\ t \in Seq(Item) /\ Len(t) = Len(P) + Len(w)
          /\ \A p \in 1 .. Len(P) + Len(w) : t[p] = IF p <= Len(P) THEN P[p] ELSE w[p - Len(P)]
      BY <1>2, <2>2, ConcatIs
    <3> QED
      BY <1>4, <3>1
  <2>4. Len(s) = Len(t)
    BY <1>1, <2>1, <2>2, <2>3
  <2> HIDE DEF s, t
  <2>5. ASSUME NEW p \in 1 .. Len(s) PROVE s[p] = t[p]
    <3>1. CASE p <= k
      BY <1>1, <1>5, <2>1, <2>3, <2>4, <3>1
    <3>2. CASE p > k /\ p <= Len(A)
      <4>1. p - k \in 1 .. Len(A) - k /\ p - k + k = p /\ p - k \in 1 .. Len(w)
        BY <1>1, <2>1, <2>2, <3>2
      <4>2. t[p] = w[p - k] /\ w[p - k] = Q[p - k] /\ Q[p - k] = A[p - k + k] /\ s[p] = A[p]
        BY <1>1, <1>4, <1>6, <2>1, <2>2, <2>3, <2>4, <3>2, <4>1
      <4> QED
        BY <4>1, <4>2
    <3>3. CASE p > Len(A)
      <4>1. p - k \in 1 .. Len(w) /\ ~(p - k <= Len(Q)) /\ (p - k) - Len(Q) = p - Len(A) /\ ~(p <= k)
        BY <1>1, <1>4, <2>1, <2>2, <3>3
      <4>2. t[p] = w[p - k]
        BY <1>1, <2>3, <2>4, <4>1
      <4>3. w[p - k] = B[p - Len(A)]
        BY <2>2, <4>1
      <4>4. s[p] = B[p - Len(A)]
        BY <1>1, <2>1, <3>3
      <4> QED
        BY <4>2, <4>3, <4>4
    <3> QED
      BY <1>1, <2>1, <3>1, <3>2, <3>3
  <2>6. s = t
    BY <2>1, <2>3, <2>4, <2>5
  <2> QED
    BY <2>6 DEF s, t, w
<1>8. \A H \in Seq(Item) : (H \o Q) \o B = H \o (Q \o B)
  BY <1>3
<1>9. Q \o B \in Seq(Item)
  BY <1>3, ConcatIs
<1> QED
  BY <1>2, <1>3, <1>7, <1>8, <1>9 DEF P, Q

-----------------------------------------------------------------------------
(* The steps of the specification.                                         *)

(* What is appended to the staged part is appended to the context.         *)
LEMMA ConcatAppend ==
  ASSUME NEW A \in Seq(Item), NEW B \in Seq(Item), NEW x \in Item
  PROVE  Append(B, x) \in Seq(Item) /\ A \o Append(B, x) = Append(A \o B, x)
OBVIOUS

(* A sequence with another item at a position.                             *)
Replaced(s, k, x) == [s EXCEPT ![k] = x]

(* What is replaced in the staged part is replaced in the context.         *)
LEMMA ConcatReplace ==
  ASSUME NEW A \in Seq(Item), NEW B \in Seq(Item), NEW x \in Item, NEW k \in 1 .. Len(B)
  PROVE  /\ Replaced(B, k, x) \in Seq(Item) /\ Len(A) + k \in 1 .. Len(A \o B)
         /\ (A \o B)[Len(A) + k] = B[k]
         /\ A \o Replaced(B, k, x) = Replaced(A \o B, Len(A) + k, x)
<1> DEFINE C == [B EXCEPT ![k] = x]
           s == A \o B
           t == A \o C
           m == Len(A) + k
           u == [s EXCEPT ![m] = x]
<1>1. /\ C \in Seq(Item) /\ Len(C) = Len(B) /\ C[k] = x
      /\ \A p \in 1 .. Len(B) : p # k => C[p] = B[p]
  BY ReplaceIs
<1> HIDE DEF C
<1>2. /\ s \in Seq(Item) /\ Len(s) = Len(A) + Len(B) /\ Len(A) \in Nat /\ Len(B) \in Nat
      /\ \A p \in 1 .. Len(B) : s[Len(A) + p] = B[p]
      /\ \A p \in 1 .. Len(A) + Len(B) : s[p] = IF p <= Len(A) THEN A[p] ELSE B[p - Len(A)]
  BY ConcatIs
<1>3. /\ t \in Seq(Item) /\ Len(t) = Len(A) + Len(C)
      /\ \A p \in 1 .. Len(A) + Len(C) : t[p] = IF p <= Len(A) THEN A[p] ELSE C[p - Len(A)]
  <2>1. C \in Seq(Item)
    BY <1>1
  <2> QED
    BY <2>1, ConcatIs
<1> HIDE DEF s, t
<1>4. m \in 1 .. Len(s) /\ s[m] = B[k] /\ m \in Nat /\ m > Len(A) /\ m - Len(A) = k
  BY <1>2
<1> HIDE DEF m
<1>5. /\ u \in Seq(Item) /\ Len(u) = Len(s) /\ u[m] = x
      /\ \A p \in 1 .. Len(s) : p # m => u[p] = s[p]
  BY <1>2, <1>4, ReplaceIs
<1> HIDE DEF u
<1>6. ASSUME NEW p \in 1 .. Len(t) PROVE t[p] = u[p]
  <2>1. p \in 1 .. Len(A) + Len(B) /\ p \in 1 .. Len(A) + Len(C) /\ p \in 1 .. Len(s)
    BY <1>1, <1>2, <1>3
  <2>2. CASE p = m
    <3>1. p - Len(A) = k /\ ~(p <= Len(A))
      BY <1>2, <1>4, <2>2
    <3>2. t[p] = C[p - Len(A)]
      BY <1>3, <2>1, <3>1
    <3> QED
      BY <1>1, <1>5, <2>2, <3>1, <3>2
  <2>3. CASE p # m /\ p <= Len(A)
    BY <1>2, <1>3, <1>5, <2>1, <2>3
  <2>4. CASE p # m /\ ~(p <= Len(A))
    <3>1. p - Len(A) \in 1 .. Len(B) /\ p - Len(A) # k
      BY <1>2, <1>4, <2>1, <2>4
    <3>2. t[p] = C[p - Len(A)] /\ s[p] = B[p - Len(A)] /\ u[p] = s[p]
      BY <1>2, <1>3, <1>5, <2>1, <2>4
    <3> QED
      BY <1>1, <3>1, <3>2
  <2> QED
    BY <2>2, <2>3, <2>4
<1>7. Len(t) = Len(u)
  BY <1>1, <1>2, <1>3, <1>5
<1>8. t = u
  BY <1>3, <1>5, <1>6, <1>7
<1> QED
  BY <1>1, <1>4, <1>8 DEF s, t, u, m, C, Replaced

(* The request for a compaction depends on the committed history only.     *)
LEMMA SameCompaction ==
  ASSUME committedPrefix' = committedPrefix, prefixTokens' = prefixTokens
  PROVE  CompactionRequest' = CompactionRequest /\ HasCutoff' = HasCutoff /\ Cutoff' = Cutoff
BY DEF CompactionRequest, HasCutoff, Cutoff

(* The empty builder.                                                      *)
LEMMA InitKeeps ==
  ASSUME Init
  PROVE  IInv
<1>1. Context = <<>> /\ committedPrefix = <<>> /\ stagedSuffix = <<>> /\ prefixTokens = <<>>
  BY DEF Init, Context
<1>2. <<>> \in Seq(Item) /\ <<>> \in Seq([index : Nat, tokens : Nat]) /\ Len(<<>>) = 0
      /\ DOMAIN <<>> = {}
  OBVIOUS
<1>3. StateOK
  BY <1>1, <1>2 DEF StateOK
<1>4. TypeOK
  BY <1>1, <1>2 DEF TypeOK, LostApart, Init
<1>5. AskedOK
  BY DEF AskedOK, Init
<1>6. History(<<>>)
  BY <1>2 DEF History, OnceEach, CallsFirst, FinalsLast, AnswersPlaced
<1>7. Sourced(<<>>, {}) /\ Present(<<>>, {}, {}) /\ \A x : ~Contains(<<>>, x)
  BY <1>2 DEF Sourced, Present, Contains
<1>8. GivenOK({}, 0)
  BY DEF GivenOK
<1>9. CallsOK(<<>>, {}, {}, {})
  BY <1>7 DEF CallsOK
<1>10. ContextOK(<<>>, {}, {}, {}, {}, 0)
  BY <1>2, <1>6, <1>7, <1>8, <1>9 DEF ContextOK
<1>11. Unanswered = {} /\ Shown = {}
  BY DEF Init, Unanswered, Shown
<1> QED
  BY <1>1, <1>3, <1>4, <1>5, <1>10, <1>11 DEF IInv, Init

(* Steps that leave the committed history and its checkpoints alone.       *)
LEMMA SameCommitted ==
  ASSUME IInv, committedPrefix' = committedPrefix, prefixTokens' = prefixTokens,
         threshold' = threshold, unscheduled' \subseteq unscheduled, running' \subseteq CallIDs \ unscheduled',
         LostApart',
         (asked' = "none" /\ sent' = {}) \/ (asked' = asked /\ sent' = sent)
  PROVE  TypeOK' /\ AskedOK'
<1>1. TypeOK /\ AskedOK
  BY DEF IInv
<1>2. TypeOK'
  BY <1>1 DEF TypeOK
<1>3. AskedOK'
  <2>1. CASE asked' = "none" /\ sent' = {}
    BY <2>1 DEF AskedOK
  <2>2. CASE asked' = asked /\ sent' = sent
    BY <1>1, <2>2, SameCompaction DEF AskedOK
  <2> QED
    BY <2>1, <2>2
<1> QED
  BY <1>2, <1>3

(* Steps that leave the calls alone.                                       *)
LEMMA SameCalls ==
  ASSUME unscheduled' = unscheduled, running' = running, lost' = lost, inherited' = inherited
  PROVE  Unanswered' = Unanswered /\ Shown' = Shown /\ LostApart' = LostApart
BY DEF Unanswered, Shown, LostApart

(* Steps that leave the builder alone, and the calls without a result.     *)
LEMMA QuietKeeps ==
  ASSUME IInv, UNCHANGED <<builderVars, answers, given, summarized>>,
         unscheduled' \subseteq unscheduled, running' \subseteq CallIDs \ unscheduled',
         LostApart', Unanswered' = Unanswered, Shown' = Shown,
         (asked' = "none" /\ sent' = {}) \/ (asked' = asked /\ sent' = sent)
  PROVE  IInv'
<1>1. /\ committedPrefix' = committedPrefix /\ stagedSuffix' = stagedSuffix
      /\ prefixTokens' = prefixTokens /\ threshold' = threshold
      /\ answers' = answers /\ given' = given /\ summarized' = summarized
  BY DEF builderVars
<1>2. TypeOK' /\ AskedOK'
  BY <1>1, SameCommitted
<1>3. StateOK'
  BY <1>1 DEF IInv, StateOK
<1>4. Context' = Context
  BY <1>1 DEF Context
<1> QED
  BY <1>1, <1>2, <1>3, <1>4 DEF IInv

(* An input is staged.                                                     *)
LEMMA StageKeeps ==
  ASSUME IInv, NEW i \in Inputs, Stage(i),
         (asked' = "none" /\ sent' = {}) \/ (asked' = asked /\ sent' = sent)
  PROVE  IInv'
<1> DEFINE x == InputItem(i)
<1>1. /\ StateOK /\ TypeOK /\ ContextOK(Context, Unanswered, Shown, given, summarized, answers)
      /\ committedPrefix \in Seq(Item) /\ stagedSuffix \in Seq(Item)
  BY DEF IInv, StateOK
<1>2. /\ committedPrefix' = committedPrefix /\ prefixTokens' = prefixTokens /\ threshold' = threshold
      /\ unscheduled' = unscheduled /\ running' = running /\ answers' = answers
      /\ summarized' = summarized
      /\ stagedSuffix' = Append(stagedSuffix, x) /\ given' = given \cup {x} /\ x \notin given
      /\ lost' = lost /\ inherited' = inherited
  BY DEF Stage
<1>3. x \in Item /\ x.kind # "answer"
  BY ItemsAre, ResultsDiffer
<1>4. TypeOK' /\ AskedOK' /\ Unanswered' = Unanswered /\ Shown' = Shown
  BY <1>1, <1>2, SameCalls, SameCommitted DEF TypeOK
<1>5. stagedSuffix' \in Seq(Item) /\ Context' = Append(Context, x)
  BY <1>1, <1>2, <1>3, ConcatAppend DEF Context
<1>6. ContextOK(Append(Context, x), Unanswered, Shown, given \cup {x}, summarized, answers)
  BY <1>1, <1>2, InputOK
<1>7. StateOK'
  <2>1. \A p \in 1 .. Len(stagedSuffix) : stagedSuffix[p].kind # "answer"
    BY <1>1 DEF StateOK
  <2> HIDE DEF x
  <2>2. \A p \in 1 .. Len(Append(stagedSuffix, x)) : Append(stagedSuffix, x)[p].kind # "answer"
    BY <1>1, <1>3, <2>1
  <2> QED
    BY <1>1, <1>2, <1>5, <2>2 DEF StateOK
<1> QED
  BY <1>2, <1>4, <1>5, <1>6, <1>7 DEF IInv

(* The settings change.                                                    *)
LEMMA UpdateSettingsKeeps ==
  ASSUME IInv, NEW limit \in Thresholds, NEW sameModel \in BOOLEAN, UpdateSettings(limit, sameModel)
  PROVE  IInv'
<1>1. StateOK /\ TypeOK /\ ContextOK(Context, Unanswered, Shown, given, summarized, answers)
  BY DEF IInv
<1>2. /\ committedPrefix' = committedPrefix /\ stagedSuffix' = stagedSuffix /\ threshold' = limit
      /\ unscheduled' = unscheduled /\ running' = running /\ answers' = answers
      /\ given' = given /\ summarized' = summarized /\ asked' = "none"
      /\ prefixTokens' = prefixTokens \/ prefixTokens' = <<>>
      /\ lost' = lost /\ inherited' = inherited
  BY DEF UpdateSettings
<1>3. AskedOK'
  BY <1>2 DEF AskedOK
<1>4. Context' = Context
  BY <1>2 DEF Context
<1>5. StateOK' /\ TypeOK'
  <2>0. LostApart'
    BY <1>1, <1>2, SameCalls DEF TypeOK
  <2>1. CASE prefixTokens' = prefixTokens
    BY <1>1, <1>2, <2>0, <2>1 DEF StateOK, TypeOK
  <2>2. CASE prefixTokens' = <<>>
    <3>1. <<>> \in Seq([index : Nat, tokens : Nat]) /\ DOMAIN <<>> = {}
      OBVIOUS
    <3> QED
      BY <1>1, <1>2, <2>0, <2>2, <3>1 DEF StateOK, TypeOK
  <2> QED
    BY <1>2, <2>1, <2>2
<1> QED
  BY <1>1, <1>2, <1>3, <1>4, <1>5, SameCalls DEF IInv

(* The model is asked, and a regular turn commits what is staged.          *)
LEMMA RequestTurnKeeps ==
  ASSUME IInv, RequestTurn
  PROVE  IInv'
<1>1. /\ StateOK /\ TypeOK /\ ContextOK(Context, Unanswered, Shown, given, summarized, answers)
      /\ committedPrefix \in Seq(Item) /\ stagedSuffix \in Seq(Item)
  BY DEF IInv, StateOK
<1>2. /\ prefixTokens' = prefixTokens /\ threshold' = threshold
      /\ unscheduled' = unscheduled /\ running' = running /\ answers' = answers
      /\ given' = given /\ summarized' = summarized /\ unscheduled = {}
      /\ Unanswered' = Unanswered /\ Shown' = Shown /\ LostApart'
  <2>1. /\ prefixTokens' = prefixTokens /\ threshold' = threshold
        /\ unscheduled' = unscheduled /\ running' = running /\ answers' = answers
        /\ given' = given /\ summarized' = summarized /\ unscheduled = {}
        /\ lost' = lost /\ inherited' = inherited
    BY DEF RequestTurn
  <2> QED
    BY <1>1, <2>1, SameCalls DEF TypeOK
<1>3. CASE NeedsCompaction /\ HasCutoff
  <2>1. /\ asked' = "compaction" /\ sent' = ToSet(CompactionRequest)
        /\ committedPrefix' = committedPrefix /\ stagedSuffix' = stagedSuffix
    BY <1>3 DEF RequestTurn
  <2>2. AskedOK'
    BY <1>2, <1>3, <2>1, SameCompaction DEF AskedOK
  <2>3. StateOK' /\ TypeOK'
    BY <1>1, <1>2, <2>1 DEF StateOK, TypeOK
  <2>4. Context' = Context
    BY <2>1 DEF Context
  <2> QED
    BY <1>1, <1>2, <2>2, <2>3, <2>4 DEF IInv
<1>4. CASE ~(NeedsCompaction /\ HasCutoff)
  <2>1. /\ asked' = "regular" /\ sent' = ToSet(Context)
        /\ committedPrefix' = Context /\ stagedSuffix' = <<>>
    BY <1>4 DEF RequestTurn, Commit
  <2>2. Context \in Seq(Item) /\ Len(Context) = Len(committedPrefix) + Len(stagedSuffix)
          /\ Len(committedPrefix) \in Nat /\ Len(stagedSuffix) \in Nat
    BY <1>1, ConcatIs DEF Context
  <2>3. Context' = Context
    <3>1. Context \o <<>> = Context
      BY <2>2
    <3>2. Context' = committedPrefix' \o stagedSuffix'
      BY DEF Context
    <3> QED
      BY <2>1, <3>1, <3>2
  <2>4. AskedOK'
    BY <1>2, <2>1 DEF AskedOK
  <2>5. <<>> \in Seq(Item) /\ Len(<<>>) = 0
    OBVIOUS
  <2>6. StateOK'
    BY <1>1, <1>2, <2>1, <2>2, <2>5 DEF StateOK
  <2>7. TypeOK'
    <3>1. \A k \in DOMAIN prefixTokens : prefixTokens[k].index \in 1 .. Len(Context)
      BY <1>1, <2>2 DEF TypeOK
    <3> QED
      BY <1>1, <1>2, <2>1, <3>1 DEF TypeOK
  <2> QED
    BY <1>1, <1>2, <2>3, <2>4, <2>6, <2>7 DEF IInv
<1> QED
  BY <1>3, <1>4

(* The two ways of AddToolResult.                                          *)
LEMMA AddToolResultIs ==
  ASSUME NEW B \in Seq(Item), NEW c, NEW r
  PROVE  \/ /\ ~Contains(B, ResultItem(c, TRUE))
            /\ AddToolResult(B, c, r) = Append(B, ResultItem(c, r))
         \/ \E k \in 1 .. Len(B) : /\ B[k] = ResultItem(c, TRUE)
                                   /\ AddToolResult(B, c, r) = Replaced(B, k, ResultItem(c, r))
<1> DEFINE at == {p \in Positions(B, "result") : B[p] = ResultItem(c, TRUE)}
<1>1. DOMAIN B = 1 .. Len(B) /\ Len(B) \in Nat
  OBVIOUS
<1>2. AddToolResult(B, c, r) = IF at # {} THEN Replaced(B, Min(at), ResultItem(c, r))
                               ELSE Append(B, ResultItem(c, r))
  BY DEF AddToolResult, Replaced
<1>3. at = {p \in 1 .. Len(B) : B[p] = ResultItem(c, TRUE)}
  <2>1. \A p \in 1 .. Len(B) : B[p] = ResultItem(c, TRUE) => B[p].kind = "result"
    BY ResultsDiffer
  <2> QED
    BY <1>1, <2>1 DEF Positions
<1> HIDE DEF at
<1>4. CASE at = {}
  BY <1>2, <1>3, <1>4 DEF Contains
<1>5. CASE at # {}
  <2>1. at \in SUBSET Nat
    <3>1. 1 .. Len(B) \subseteq Nat
      OBVIOUS
    <3>2. at \subseteq 1 .. Len(B)
      BY <1>3, Zenon
    <3> QED
      BY <3>1, <3>2
  <2>2. Min(at) \in at
    BY <1>5, <2>1, MinIs
  <2> QED
    BY <1>2, <1>3, <1>5, <2>2
<1> QED
  BY <1>4, <1>5

(* Where the answers of a context are.                                     *)
LEMMA AnswersCommitted ==
  ASSUME StateOK, NEW p \in 1 .. Len(Context), Context[p].kind = "answer"
  PROVE  p <= Len(committedPrefix)
<1>1. /\ committedPrefix \in Seq(Item) /\ stagedSuffix \in Seq(Item)
      /\ \A k \in 1 .. Len(stagedSuffix) : stagedSuffix[k].kind # "answer"
  BY DEF StateOK
<1>2. /\ Len(Context) = Len(committedPrefix) + Len(stagedSuffix)
      /\ Len(committedPrefix) \in Nat /\ Len(stagedSuffix) \in Nat
      /\ \A k \in 1 .. Len(committedPrefix) + Len(stagedSuffix) :
           Context[k] = IF k <= Len(committedPrefix) THEN committedPrefix[k]
                        ELSE stagedSuffix[k - Len(committedPrefix)]
  BY <1>1, ConcatIs DEF Context
<1>3. ASSUME ~(p <= Len(committedPrefix)) PROVE FALSE
  <2>1. p - Len(committedPrefix) \in 1 .. Len(stagedSuffix)
    BY <1>2, <1>3
  <2>2. Context[p] = stagedSuffix[p - Len(committedPrefix)]
    BY <1>2, <1>3
  <2> QED
    BY <1>1, <2>1, <2>2
<1> QED
  BY <1>3

(* The status of a call.                                                   *)
LEMMA StatusKeeps ==
  ASSUME IInv, NEW c \in unscheduled \cup Shown, NEW r \in BOOLEAN,
         r = TRUE => c \in unscheduled /\ ~inherited,
         stagedSuffix' = AddToolResult(stagedSuffix, c, r),
         given' = (IF r THEN given ELSE given \cup {ResultItem(c, FALSE)}),
         unscheduled' = unscheduled \ {c},
         running' = (IF r THEN running \cup {c} ELSE running \ {c}),
         UNCHANGED <<committedPrefix, prefixTokens, threshold, asked, sent, answers, summarized>>,
         UNCHANGED <<lost, inherited>>
  PROVE  IInv'
<1>1. /\ StateOK /\ TypeOK /\ ContextOK(Context, Unanswered, Shown, given, summarized, answers)
      /\ committedPrefix \in Seq(Item) /\ stagedSuffix \in Seq(Item)
      /\ unscheduled \subseteq CallIDs /\ running \subseteq CallIDs \ unscheduled /\ c \in CallIDs
      /\ LostApart /\ c \notin lost /\ c \in Unanswered \cup Shown
  BY DEF IInv, StateOK, TypeOK, LostApart, Unanswered, Shown
<1>2. Context' = committedPrefix \o stagedSuffix'
  BY DEF Context
<1>3. TypeOK' /\ AskedOK'
  <2>1. running' \subseteq CallIDs \ unscheduled'
    BY <1>1
  <2>2. LostApart'
    BY <1>1 DEF LostApart
  <2> QED
    BY <2>1, <2>2, SameCommitted
<1>c. /\ Unanswered' = Unanswered \ {c}
      /\ Shown' = IF r THEN Shown \cup {c} ELSE Shown \ {c}
  BY <1>1 DEF Unanswered, Shown
<1>4. ResultItem(c, TRUE) \in Item /\ ResultItem(c, FALSE) \in Item
  BY <1>1, ItemsAre
<1>5. \A p \in 1 .. Len(stagedSuffix) : stagedSuffix[p].kind # "answer"
  BY <1>1 DEF StateOK
<1>6. stagedSuffix' \in Seq(Item) /\ \A p \in 1 .. Len(stagedSuffix') : stagedSuffix'[p].kind # "answer"
  <2> DEFINE x == ResultItem(c, r)
  <2>1. x \in Item /\ x.kind # "answer"
    <3>1. r = TRUE \/ r = FALSE
      OBVIOUS
    <3> QED
      BY <1>4, <3>1, ResultsDiffer
  <2>2. stagedSuffix' = Append(stagedSuffix, x)
          \/ \E k \in 1 .. Len(stagedSuffix) : stagedSuffix' = Replaced(stagedSuffix, k, x)
    <3>1. stagedSuffix \in Seq(Item)
      BY <1>1
    <3>2. \/ AddToolResult(stagedSuffix, c, r) = Append(stagedSuffix, x)
          \/ \E k \in 1 .. Len(stagedSuffix) :
               AddToolResult(stagedSuffix, c, r) = Replaced(stagedSuffix, k, x)
      BY <3>1, AddToolResultIs, Zenon
    <3> QED
      BY <3>2, Zenon
  <2> HIDE DEF x
  <2>3. CASE stagedSuffix' = Append(stagedSuffix, x)
    <3>1. /\ Append(stagedSuffix, x) \in Seq(Item)
          /\ \A p \in 1 .. Len(Append(stagedSuffix, x)) : Append(stagedSuffix, x)[p].kind # "answer"
      BY <1>1, <1>5, <2>1
    <3> QED
      BY <2>3, <3>1
  <2>4. ASSUME NEW k \in 1 .. Len(stagedSuffix), stagedSuffix' = Replaced(stagedSuffix, k, x)
        PROVE  /\ stagedSuffix' \in Seq(Item)
               /\ \A p \in 1 .. Len(stagedSuffix') : stagedSuffix'[p].kind # "answer"
    <3> DEFINE t == [stagedSuffix EXCEPT ![k] = x]
    <3>1. /\ t \in Seq(Item) /\ Len(t) = Len(stagedSuffix) /\ t[k] = x
          /\ \A p \in 1 .. Len(stagedSuffix) : p # k => t[p] = stagedSuffix[p]
      BY <1>1, <2>1, ReplaceIs
    <3>2. stagedSuffix' = t
      BY <2>4 DEF Replaced
    <3> HIDE DEF t
    <3>3. \A p \in 1 .. Len(t) : t[p].kind # "answer"
      BY <1>5, <2>1, <3>1
    <3> QED
      BY <3>1, <3>2, <3>3
  <2> QED
    BY <2>2, <2>3, <2>4
<1>7. StateOK'
  BY <1>1, <1>6 DEF StateOK
<1>8. \A x : Contains(Context, x) <=> Contains(committedPrefix, x) \/ Contains(stagedSuffix, x)
  BY <1>1, ContainsConcat DEF Context
<1>9. CASE r = TRUE
  <2>1. c \in Unanswered
    BY <1>9 DEF Unanswered
  <2>2. ~Contains(Context, ResultItem(c, TRUE))
    BY <1>1, <2>1 DEF ContextOK, CallsOK
  <2>3. ~Contains(stagedSuffix, ResultItem(c, TRUE))
    BY <1>8, <2>2
  <2>4. stagedSuffix' = Append(stagedSuffix, ResultItem(c, TRUE))
    <3>1. stagedSuffix' = AddToolResult(stagedSuffix, c, TRUE)
      BY <1>9
    <3> QED
      BY <1>1, <2>3, <3>1, AddToolResultIs DEF Contains
  <2>5. Context' = Append(Context, ResultItem(c, TRUE))
    <3> DEFINE x == ResultItem(c, TRUE)
    <3>1. x \in Item /\ stagedSuffix' = Append(stagedSuffix, x)
      BY <1>4, <2>4
    <3> HIDE DEF x
    <3>2. committedPrefix \o Append(stagedSuffix, x) = Append(committedPrefix \o stagedSuffix, x)
      BY <1>1, <3>1, ConcatAppend
    <3>3. Context' = Append(Context, x)
      BY <1>2, <3>1, <3>2 DEF Context
    <3> QED
      BY <3>3 DEF x
  <2>6. ContextOK(Append(Context, ResultItem(c, TRUE)), Unanswered \ {c}, Shown \cup {c}, given,
                  summarized, answers)
    BY <1>1, <2>1, RunningOK
  <2>7. given' = given /\ Shown' = Shown \cup {c}
    BY <1>9, <1>c
  <2> QED
    BY <1>c, <1>3, <1>7, <2>5, <2>6, <2>7 DEF IInv
<1>10. CASE r = FALSE
  <2>1. /\ given' = given \cup {ResultItem(c, FALSE)}
        /\ Unanswered' = Unanswered \ {c} /\ Shown' = Shown \ {c}
        /\ stagedSuffix' = AddToolResult(stagedSuffix, c, FALSE)
    BY <1>10, <1>c
  <2>2. CASE stagedSuffix' = Append(stagedSuffix, ResultItem(c, FALSE))
    <3>1. Context' = Append(Context, ResultItem(c, FALSE))
      <4> DEFINE x == ResultItem(c, FALSE)
      <4>1. x \in Item /\ stagedSuffix' = Append(stagedSuffix, x)
        BY <1>4, <2>2
      <4> HIDE DEF x
      <4>2. committedPrefix \o Append(stagedSuffix, x) = Append(committedPrefix \o stagedSuffix, x)
        BY <1>1, <4>1, ConcatAppend
      <4>3. Context' = Append(Context, x)
        BY <1>2, <4>1, <4>2 DEF Context
      <4> QED
        BY <4>3 DEF x
    <3>2. ContextOK(Append(Context, ResultItem(c, FALSE)), Unanswered \ {c}, Shown \ {c},
                    given \cup {ResultItem(c, FALSE)}, summarized, answers)
      BY <1>1, FinalOK
    <3> QED
      BY <1>3, <1>7, <2>1, <3>1, <3>2 DEF IInv
  <2>3. ASSUME NEW k \in 1 .. Len(stagedSuffix), stagedSuffix[k] = ResultItem(c, TRUE),
               stagedSuffix' = Replaced(stagedSuffix, k, ResultItem(c, FALSE))
        PROVE  IInv'
    <3> DEFINE m == Len(committedPrefix) + k
    <3>1. /\ m \in 1 .. Len(Context) /\ Context[m] = ResultItem(c, TRUE)
          /\ Context' = Replaced(Context, m, ResultItem(c, FALSE))
      <4> DEFINE x == ResultItem(c, FALSE)
                 y == ResultItem(c, TRUE)
      <4>1. /\ x \in Item /\ stagedSuffix[k] = y
            /\ stagedSuffix' = Replaced(stagedSuffix, k, x)
        BY <1>4, <2>3
      <4> HIDE DEF x, y
      <4>2. /\ m \in 1 .. Len(committedPrefix \o stagedSuffix)
            /\ (committedPrefix \o stagedSuffix)[m] = stagedSuffix[k]
            /\ committedPrefix \o Replaced(stagedSuffix, k, x)
                 = Replaced(committedPrefix \o stagedSuffix, m, x)
        <5>1. committedPrefix \in Seq(Item) /\ stagedSuffix \in Seq(Item) /\ x \in Item
          BY <1>1, <4>1
        <5> QED
          BY <5>1, ConcatReplace, Zenon
      <4>3. m \in 1 .. Len(Context) /\ Context[m] = y /\ Context' = Replaced(Context, m, x)
        BY <1>2, <4>1, <4>2 DEF Context
      <4> QED
        BY <4>3 DEF x, y
    <3>2. \A p \in 1 .. Len(Context) : Context[p].kind = "answer" => p < m
      <4> SUFFICES ASSUME NEW p \in 1 .. Len(Context), Context[p].kind = "answer" PROVE p < m
        OBVIOUS
      <4>1. p <= Len(committedPrefix)
        BY <1>1, AnswersCommitted
      <4>2. Len(committedPrefix) \in Nat /\ Len(stagedSuffix) \in Nat
        BY <1>1
      <4> QED
        BY <4>1, <4>2
    <3> HIDE DEF m
    <3>3. ContextOK(Replaced(Context, m, ResultItem(c, FALSE)), Unanswered \ {c}, Shown \ {c},
                    given \cup {ResultItem(c, FALSE)}, summarized, answers)
      BY <1>1, <3>1, <3>2, ReplacedOK DEF Replaced
    <3> QED
      BY <1>3, <1>7, <2>1, <3>1, <3>3 DEF IInv
  <2>4. \/ AddToolResult(stagedSuffix, c, FALSE) = Append(stagedSuffix, ResultItem(c, FALSE))
        \/ \E k \in 1 .. Len(stagedSuffix) :
             /\ stagedSuffix[k] = ResultItem(c, TRUE)
             /\ AddToolResult(stagedSuffix, c, FALSE)
                  = Replaced(stagedSuffix, k, ResultItem(c, FALSE))
    <3>1. stagedSuffix \in Seq(Item)
      BY <1>1
    <3> QED
      BY <3>1, AddToolResultIs, Zenon
  <2> QED
    BY <2>1, <2>2, <2>3, <2>4, ZenonT(30)
<1> QED
  BY <1>9, <1>10

(* A call gets its first status; if a fork inherits it, without result.    *)
LEMMA ScheduleCallKeeps ==
  ASSUME IInv, NEW c \in CallIDs, NEW r \in BOOLEAN, ScheduleCall(c, r)
  PROVE  IInv'
<1>1. /\ c \in unscheduled /\ running \subseteq CallIDs \ unscheduled /\ LostApart
      /\ unscheduled \subseteq CallIDs
  BY DEF ScheduleCall, IInv, TypeOK
<1>2. running \ {c} = running
  BY <1>1
<1>3. /\ given' = (IF r THEN given ELSE given \cup {ResultItem(c, FALSE)})
      /\ unscheduled' = unscheduled \ {c}
      /\ running' = (IF r THEN running \cup {c} ELSE running \ {c})
      /\ UNCHANGED <<committedPrefix, prefixTokens, threshold, asked, sent, answers, summarized>>
      /\ inherited' = inherited
  BY <1>2, Zenon DEF ScheduleCall
<1>4. CASE r /\ inherited
  <2>1. lost' = lost \cup {c} /\ stagedSuffix' = stagedSuffix
    BY <1>4 DEF ScheduleCall
  <2>2. LostApart' /\ Unanswered' = Unanswered /\ Shown' = Shown
    BY <1>1, <1>3, <1>4, <2>1 DEF LostApart, Unanswered, Shown
  <2>3. UNCHANGED <<builderVars, answers, given, summarized>>
    BY <1>3, <1>4, <2>1 DEF builderVars
  <2>4. unscheduled' \subseteq unscheduled /\ running' \subseteq CallIDs \ unscheduled'
    BY <1>1, <1>3, <1>4
  <2> QED
    BY <1>3, <2>2, <2>3, <2>4, QuietKeeps
<1>5. CASE ~(r /\ inherited)
  <2>1. stagedSuffix' = AddToolResult(stagedSuffix, c, r) /\ lost' = lost
    BY <1>5 DEF ScheduleCall
  <2>2. c \in unscheduled \cup Shown /\ (r = TRUE => c \in unscheduled /\ ~inherited)
    BY <1>1, <1>5
  <2> QED
    BY <1>3, <2>1, <2>2, StatusKeeps, ZenonT(30)
<1> QED
  BY <1>4, <1>5

(* A call that runs gets its final status; again perhaps without result.   *)
LEMMA CallFinishesKeeps ==
  ASSUME IInv, NEW c \in CallIDs, CallFinishes(c)
  PROVE  IInv'
<1> DEFINE r == FALSE
<1>1. /\ c \in running /\ unscheduled = {} /\ LostApart
      /\ running \subseteq CallIDs \ unscheduled
  BY DEF CallFinishes, IInv, TypeOK
<1>2. unscheduled \ {c} = unscheduled
  BY <1>1
<1>3. /\ unscheduled' = unscheduled \ {c} /\ unscheduled' = unscheduled
      /\ running' = running \ {c}
      /\ UNCHANGED <<committedPrefix, prefixTokens, threshold, asked, sent, answers, summarized>>
      /\ UNCHANGED <<lost, inherited>>
  BY <1>2, Zenon DEF CallFinishes
<1>4. CASE c \in lost
  <2>1. stagedSuffix' = stagedSuffix /\ given' = given
    BY <1>4 DEF CallFinishes
  <2>2. LostApart' /\ Unanswered' = Unanswered /\ Shown' = Shown
    BY <1>1, <1>3, <1>4 DEF LostApart, Unanswered, Shown
  <2>3. UNCHANGED <<builderVars, answers, given, summarized>>
    BY <1>3, <2>1 DEF builderVars
  <2>4. unscheduled' \subseteq unscheduled /\ running' \subseteq CallIDs \ unscheduled'
    BY <1>1, <1>3
  <2> QED
    BY <1>3, <2>2, <2>3, <2>4, QuietKeeps
<1>5. CASE c \notin lost
  <2>1. /\ stagedSuffix' = AddToolResult(stagedSuffix, c, r)
        /\ given' = (IF r THEN given ELSE given \cup {ResultItem(c, FALSE)})
        /\ running' = (IF r THEN running \cup {c} ELSE running \ {c})
    BY <1>3, <1>5, Zenon DEF CallFinishes
  <2>2. c \in unscheduled \cup Shown /\ r \in BOOLEAN
        /\ (r = TRUE => c \in unscheduled /\ ~inherited)
    BY <1>1, <1>5 DEF Shown
  <2> HIDE DEF r
  <2> QED
    BY <1>3, <2>1, <2>2, StatusKeeps, ZenonT(30)
<1> QED
  BY <1>4, <1>5

(* The fork item: the calls that were to run have no result for good.      *)
LEMMA ForkKeeps ==
  ASSUME IInv, Fork
  PROVE  IInv'
<1>1. /\ unscheduled \subseteq CallIDs /\ running \subseteq CallIDs \ unscheduled
      /\ LostApart /\ inherited
  BY DEF Fork, IInv, TypeOK
<1>2. /\ lost' = lost \cup unscheduled /\ unscheduled' = {} /\ running' = {}
      /\ asked' = "none" /\ sent' = {}
      /\ UNCHANGED <<builderVars, answers, given, summarized>>
  BY DEF Fork
<1>3. LostApart' /\ Unanswered' = Unanswered /\ Shown' = Shown
  BY <1>1, <1>2 DEF LostApart, Unanswered, Shown
<1>4. unscheduled' \subseteq unscheduled /\ running' \subseteq CallIDs \ unscheduled'
  BY <1>2
<1> QED
  BY <1>2, <1>3, <1>4, QuietKeeps

(* The calls of a response are finitely many, each made once.              *)
LEMMA CallListsAre ==
  ASSUME NEW calls \in CallLists
  PROVE  /\ calls \in Seq(CallIDs) /\ DOMAIN calls = 1 .. Len(calls) /\ Len(calls) \in Nat
         /\ \A j, k \in 1 .. Len(calls) : calls[j] = calls[k] => j = k
<1>1. PICK S \in SUBSET CallIDs : calls \in SetToSeqs(S)
  BY DEF CallLists
<1>2. IsFiniteSet(S)
  BY CallIDsAssumption, FS_Subset
<1>3. Cardinality(S) \in Nat
  BY <1>2, FS_CardinalityType
<1> DEFINE n == Cardinality(S)
<1>4. calls \in [1 .. n -> S] /\ \A i, j \in 1 .. n : i # j => calls[i] # calls[j]
  BY <1>1 DEF SetToSeqs
<1>5. n \in Nat
  BY <1>3
<1> HIDE DEF n
<1>6. calls \in Seq(S) /\ Len(calls) = n
  BY <1>4, <1>5
<1>7. calls \in Seq(CallIDs)
  BY <1>6
<1> QED
  BY <1>4, <1>5, <1>6, <1>7

(* The items of a response: the answer, then the calls.                    *)
LEMMA OutputIs ==
  ASSUME NEW calls \in CallLists, NEW n \in Nat, NEW T \in SUBSET Messages
  PROVE  Output(<<AnswerItem(n, T)>> \o [k \in DOMAIN calls |-> CallItem(calls[k])],
                ToSet(calls), n, T)
           /\ Len(<<AnswerItem(n, T)>> \o [k \in DOMAIN calls |-> CallItem(calls[k])]) > 0
<1> DEFINE a == <<AnswerItem(n, T)>>
           b == [k \in DOMAIN calls |-> CallItem(calls[k])]
           O == a \o b
<1>1. /\ calls \in Seq(CallIDs) /\ DOMAIN calls = 1 .. Len(calls) /\ Len(calls) \in Nat
      /\ \A j, k \in 1 .. Len(calls) : calls[j] = calls[k] => j = k
  BY CallListsAre
<1>2. /\ b \in Seq(Item) /\ Len(b) = Len(calls)
      /\ \A k \in 1 .. Len(calls) : calls[k] \in CallIDs /\ b[k] = CallItem(calls[k])
  <2>1. \A k \in 1 .. Len(calls) : calls[k] \in CallIDs /\ CallItem(calls[k]) \in Item
    <3>1. \A k \in 1 .. Len(calls) : calls[k] \in CallIDs
      BY <1>1
    <3>2. \A c \in CallIDs : CallItem(c) \in Item
      BY ItemsAre
    <3> QED
      BY <3>1, <3>2
  <2>2. b = [k \in 1 .. Len(calls) |-> CallItem(calls[k])]
    BY <1>1
  <2>3. \A k \in 1 .. Len(calls) : b[k] = CallItem(calls[k])
    BY <2>2
  <2> HIDE DEF b
  <2>4. b \in [1 .. Len(calls) -> Item]
    BY <2>1, <2>2
  <2>5. b \in Seq(Item) /\ Len(b) = Len(calls)
    BY <1>1, <2>4
  <2> QED
    BY <2>1, <2>3, <2>5
<1>3. a \in Seq(Item) /\ Len(a) = 1 /\ a[1] = AnswerItem(n, T)
  <2> DEFINE x == AnswerItem(n, T)
  <2>1. x \in Item
    BY ItemsAre
  <2> HIDE DEF x
  <2>2. <<x>> \in Seq(Item) /\ Len(<<x>>) = 1 /\ <<x>>[1] = x
    BY <2>1
  <2> QED
    BY <2>2 DEF x
<1> HIDE DEF a, b
<1>4. /\ O \in Seq(Item) /\ Len(O) = 1 + Len(calls)
      /\ \A p \in 1 .. 1 + Len(calls) : O[p] = IF p <= 1 THEN a[p] ELSE b[p - 1]
  <2>1. a \in Seq(Item) /\ b \in Seq(Item)
    BY <1>2, <1>3
  <2>2. /\ O \in Seq(Item) /\ Len(O) = Len(a) + Len(b)
        /\ \A p \in 1 .. Len(a) + Len(b) : O[p] = IF p <= Len(a) THEN a[p] ELSE b[p - Len(a)]
    BY <2>1, ConcatIs
  <2>3. Len(a) = 1 /\ Len(b) = Len(calls)
    BY <1>2, <1>3
  <2> HIDE DEF O
  <2> QED
    BY <2>2, <2>3
<1> HIDE DEF O
<1>5. O[1] = AnswerItem(n, T)
        /\ \A p \in 2 .. 1 + Len(calls) : p - 1 \in 1 .. Len(calls) /\ O[p] = CallItem(calls[p - 1])
  <2>1. O[1] = a[1]
    BY <1>1, <1>4
  <2>2. \A p \in 2 .. 1 + Len(calls) : p - 1 \in 1 .. Len(calls) /\ O[p] = b[p - 1]
    BY <1>1, <1>4
  <2> QED
    BY <1>2, <1>3, <2>1, <2>2
<1>6. \A k \in 1 .. Len(calls) : calls[k] \in ToSet(calls)
  BY <1>1 DEF ToSet
<1>7. ToSet(calls) \subseteq CallIDs
  BY <1>1, <1>2 DEF ToSet
<1>8. \A k \in 1 .. Len(O) : O[k] = AnswerItem(n, T) \/ \E c \in ToSet(calls) : O[k] = CallItem(c)
  <2> SUFFICES ASSUME NEW k \in 1 .. Len(O), k # 1
               PROVE  \E c \in ToSet(calls) : O[k] = CallItem(c)
    BY <1>5
  <2>1. k \in 2 .. 1 + Len(calls)
    BY <1>1, <1>4
  <2> QED
    BY <1>5, <1>6, <2>1
<1>9. \A j, k \in 1 .. Len(O) : O[j] = O[k] => j = k
  <2> SUFFICES ASSUME NEW j \in 1 .. Len(O), NEW k \in 1 .. Len(O), O[j] = O[k] PROVE j = k
    OBVIOUS
  <2>1. j \in Nat /\ k \in Nat /\ (j # 1 => j \in 2 .. 1 + Len(calls)) /\ (k # 1 => k \in 2 .. 1 + Len(calls))
    BY <1>1, <1>4
  <2>2. CASE j # 1 /\ k # 1
    <3>1. /\ j - 1 \in 1 .. Len(calls) /\ k - 1 \in 1 .. Len(calls)
          /\ CallItem(calls[j - 1]) = CallItem(calls[k - 1])
      BY <1>5, <2>1, <2>2
    <3>2. calls[j - 1] = calls[k - 1]
      BY <3>1, ItemFields
    <3>3. j - 1 = k - 1
      BY <1>1, <3>1, <3>2
    <3> QED
      BY <2>1, <3>3
  <2>3. \A c : AnswerItem(n, T) # CallItem(c)
    <3>1. AnswerItem(n, T).kind = "answer" /\ \A c : CallItem(c).kind = "call"
      BY ItemFields
    <3> QED
      BY <3>1
  <2> QED
    BY <1>5, <2>1, <2>2, <2>3
<1>10. ASSUME NEW c \in ToSet(calls) PROVE Contains(O, CallItem(c))
  <2>1. PICK k \in 1 .. Len(calls) : calls[k] = c
    BY <1>1 DEF ToSet
  <2>2. k + 1 \in 2 .. 1 + Len(calls) /\ (k + 1) - 1 = k /\ k + 1 \in 1 .. Len(O)
    BY <1>1, <1>4
  <2>3. O[k + 1] = CallItem(c)
    BY <1>5, <2>1, <2>2
  <2> QED
    BY <2>2, <2>3 DEF Contains
<1>11. Output(O, ToSet(calls), n, T)
  BY <1>4, <1>7, <1>8, <1>9, <1>10 DEF Output
<1> QED
  BY <1>1, <1>4, <1>11 DEF O, a, b

(* What the model was told of the committed history are messages it was    *)
(* given, and none of them is staged.                                      *)
LEMMA ToldIs ==
  ASSUME NEW A \in Seq(Item), NEW B \in Seq(Item), NEW G, OnceEach(A \o B), Sourced(A \o B, G)
  PROVE  /\ Told(ToSet(A)) \in SUBSET Messages /\ Told(ToSet(A)) \subseteq G
         /\ \A p \in 1 .. Len(A) : IsTold(A[p]) => A[p] \in Told(ToSet(A))
         /\ \A p \in 1 .. Len(B) : IsTold(B[p]) => B[p] \notin Told(ToSet(A))
<1> DEFINE T == Told(ToSet(A))
<1>1. DOMAIN A = 1 .. Len(A) /\ DOMAIN B = 1 .. Len(B) /\ Len(A) \in Nat
  OBVIOUS
<1>2. \A x : x \in T <=> (\E p \in 1 .. Len(A) : A[p] = x) /\ IsTold(x)
  BY <1>1 DEF Told, ToSet, IsTold
<1> HIDE DEF T
<1>3. ASSUME NEW x \in T PROVE x \in Messages /\ x \in G
  <2>1. PICK p \in 1 .. Len(A) : A[p] = x
    BY <1>2
  <2>2. IsTold(x) /\ x \in Item
    BY <1>2, <2>1
  <2>3. x # SummaryItem /\ (\A c : x # ResultItem(c, TRUE)) /\ (\A c : x # CallItem(c))
          /\ (\A n, S : x # AnswerItem(n, S))
    BY <2>2, ToldItems
  <2>4. (\E i \in Inputs : x = InputItem(i)) \/ (\E c \in CallIDs : x = ResultItem(c, FALSE))
    <3>1. \A c \in CallIDs, r \in BOOLEAN : x = ResultItem(c, r) => x = ResultItem(c, FALSE)
      <4> SUFFICES ASSUME NEW c \in CallIDs, NEW r \in BOOLEAN, x = ResultItem(c, r)
                   PROVE  x = ResultItem(c, FALSE)
        OBVIOUS
      <4>1. r = TRUE \/ r = FALSE
        OBVIOUS
      <4> QED
        BY <2>3, <4>1, Zenon
    <3> QED
      BY <2>2, <2>3, <3>1, ItemKinds, Zenon
  <2>5. x \in Messages
    BY <2>4, Zenon DEF Messages
  <2>6. p \in 1 .. Len(A \o B) /\ (A \o B)[p] = x
    BY <2>1
  <2>7. x \in G
    BY <2>3, <2>6, Zenon DEF Sourced
  <2> QED
    BY <2>5, <2>7
<1>4. ASSUME NEW p \in 1 .. Len(B), IsTold(B[p]), B[p] \in T PROVE FALSE
  <2>1. Contains(A, B[p]) /\ Contains(B, B[p]) /\ B[p] # SummaryItem
    BY <1>2, <1>4, ToldItems DEF Contains
  <2> QED
    BY <2>1, OncePart
<1> QED
  BY <1>2, <1>3, <1>4 DEF T

(* A checkpoint behind all others.                                         *)
LEMMA CheckpointKeeps ==
  ASSUME StateOK, TypeOK, NEW n \in Nat, n > Len(committedPrefix), NEW tokens \in Nat,
         prefixTokens' = Append(prefixTokens, [index |-> n, tokens |-> tokens]),
         Len(committedPrefix') = n
  PROVE  /\ prefixTokens' \in Seq([index : Nat, tokens : Nat])
         /\ \A k \in DOMAIN prefixTokens' :
              /\ prefixTokens'[k].index \in 1 .. Len(committedPrefix')
              /\ k > 1 => prefixTokens'[k - 1].index < prefixTokens'[k].index
<1> DEFINE X == [index : Nat, tokens : Nat]
           x == [index |-> n, tokens |-> tokens]
           t == Append(prefixTokens, x)
           m == Len(prefixTokens)
<1>1. prefixTokens \in Seq(X) /\ committedPrefix \in Seq(Item)
  BY DEF StateOK
<1>2. x \in X /\ x.index = n
  OBVIOUS
<1>3. /\ \A k \in 1 .. m : prefixTokens[k].index \in 1 .. Len(committedPrefix)
      /\ \A k \in 1 .. m : k > 1 => prefixTokens[k - 1].index < prefixTokens[k].index
  <2>1. DOMAIN prefixTokens = 1 .. m
    BY <1>1
  <2> QED
    BY <1>1, <2>1 DEF TypeOK
<1>4. Len(committedPrefix) \in Nat /\ m \in Nat
  BY <1>1
<1> HIDE DEF X, x
<1>5. /\ t \in Seq(X) /\ Len(t) = m + 1 /\ t[m + 1] = x /\ DOMAIN t = 1 .. m + 1
      /\ \A k \in 1 .. m : t[k] = prefixTokens[k]
  BY <1>1, <1>2
<1> HIDE DEF t, m
<1>6. ASSUME NEW k \in 1 .. m + 1
      PROVE  t[k].index \in 1 .. n /\ (k > 1 => t[k - 1].index < t[k].index)
  <2>1. CASE k = m + 1
    <3>1. t[k].index = n
      BY <1>2, <1>5, <2>1
    <3>2. ASSUME k > 1 PROVE t[k - 1].index < n
      <4>1. k - 1 \in 1 .. m
        BY <1>4, <2>1, <3>2
      <4>2. t[k - 1].index \in 1 .. Len(committedPrefix)
        BY <1>3, <1>5, <4>1
      <4> QED
        BY <1>4, <4>2
    <3> QED
      BY <1>4, <3>1, <3>2
  <2>2. CASE k # m + 1
    <3>1. k \in 1 .. m
      BY <1>4, <2>2
    <3>2. t[k].index \in 1 .. Len(committedPrefix)
      BY <1>3, <1>5, <3>1
    <3>3. ASSUME k > 1 PROVE t[k - 1].index < t[k].index
      <4>1. k - 1 \in 1 .. m
        BY <1>4, <3>1, <3>3
      <4>2. t[k] = prefixTokens[k] /\ t[k - 1] = prefixTokens[k - 1]
        BY <1>5, <3>1, <4>1
      <4> QED
        BY <1>3, <3>1, <3>3, <4>2
    <3> QED
      BY <1>4, <3>2, <3>3
  <2> QED
    BY <2>1, <2>2
<1>7. prefixTokens' = t
  BY DEF t, x
<1>8. \A k \in DOMAIN t : /\ t[k].index \in 1 .. Len(committedPrefix')
                          /\ k > 1 => t[k - 1].index < t[k].index
  BY <1>5, <1>6
<1>9. t \in Seq([index : Nat, tokens : Nat])
  BY <1>5 DEF X
<1> QED
  BY <1>7, <1>8, <1>9

(* The answer to a regular turn.                                           *)
LEMMA RegularAnswerKeeps ==
  ASSUME IInv, NEW calls \in CallLists, NEW tokens \in Usages, RegularAnswer(calls, tokens)
  PROVE  IInv'
<1> DEFINE T == Told(ToSet(committedPrefix))
           C == ToSet(calls)
           O == <<AnswerItem(answers + 1, T)>> \o [k \in DOMAIN calls |-> CallItem(calls[k])]
<1>1. /\ StateOK /\ TypeOK /\ ContextOK(Context, Unanswered, Shown, given, summarized, answers)
      /\ committedPrefix \in Seq(Item) /\ stagedSuffix \in Seq(Item) /\ answers \in Nat
  BY DEF IInv, StateOK, ContextOK
<1>2. unscheduled = {} /\ sent = ToSet(committedPrefix)
  BY DEF IInv, AskedOK, RegularAnswer
<1>3. /\ committedPrefix' = committedPrefix \o O /\ stagedSuffix' = stagedSuffix
      /\ prefixTokens' = Append(prefixTokens, [index |-> Len(committedPrefix'), tokens |-> tokens])
      /\ given' = given \cup ToSet(O) /\ unscheduled' = C /\ answers' = answers + 1
      /\ asked' = "none" /\ sent' = {} /\ threshold' = threshold
      /\ running' = running /\ summarized' = summarized
      /\ lost' = lost /\ inherited' = inherited
      /\ \A c \in C : CallItem(c) \notin given
  BY <1>2 DEF RegularAnswer, AddModelResponse
<1>4. /\ T \in SUBSET Messages /\ T \subseteq given
      /\ \A p \in 1 .. Len(committedPrefix) : IsTold(committedPrefix[p]) => committedPrefix[p] \in T
      /\ \A p \in 1 .. Len(stagedSuffix) : IsTold(stagedSuffix[p]) => stagedSuffix[p] \notin T
  <2>1. OnceEach(committedPrefix \o stagedSuffix) /\ Sourced(committedPrefix \o stagedSuffix, given)
    BY <1>1 DEF ContextOK, History, Context
  <2> QED
    BY <1>1, <2>1, ToldIs
<1>5. Output(O, C, answers + 1, T) /\ Len(O) > 0
  <2>1. answers + 1 \in Nat /\ T \in SUBSET Messages
    BY <1>1, <1>4
  <2> HIDE DEF T
  <2> QED
    BY <2>1, OutputIs
<1> HIDE DEF T, C, O
<1>6. ContextOK((committedPrefix \o O) \o stagedSuffix, C \cup Unanswered, Shown,
                given \cup ToSet(O), summarized, answers + 1)
  <2>1. ContextOK(committedPrefix \o stagedSuffix, Unanswered, Shown, given, summarized, answers)
    BY <1>1 DEF Context
  <2> QED
    BY <1>1, <1>3, <1>4, <1>5, <2>1, AnswerOK, ZenonT(30)
<1>c. Unanswered' = C \cup Unanswered /\ Shown' = Shown
  BY <1>2, <1>3 DEF Unanswered, Shown
<1>7. ContextOK(Context, Unanswered, Shown, given, summarized, answers)'
  BY <1>3, <1>6, <1>c DEF Context
<1>8. O \in Seq(Item)
  BY <1>5 DEF Output
<1> DEFINE n == Len(committedPrefix \o O)
<1>9. committedPrefix \o O \in Seq(Item) /\ n \in Nat /\ n > Len(committedPrefix)
  BY <1>1, <1>5, <1>8
<1>10. Len(committedPrefix') = n
  BY <1>3
<1> HIDE DEF n
<1>11. tokens \in Nat
  BY UsageAssumption
<1>12. /\ prefixTokens' \in Seq([index : Nat, tokens : Nat])
       /\ \A k \in DOMAIN prefixTokens' :
              /\ prefixTokens'[k].index \in 1 .. Len(committedPrefix')
              /\ k > 1 => prefixTokens'[k - 1].index < prefixTokens'[k].index
  BY <1>1, <1>3, <1>9, <1>10, <1>11, CheckpointKeeps
<1>13. /\ unscheduled' \subseteq CallIDs /\ running' \subseteq CallIDs \ unscheduled'
       /\ LostApart'
  <2>1. /\ C \subseteq CallIDs /\ LostApart /\ running \subseteq CallIDs
        /\ Unanswered \subseteq CallIDs /\ Shown \subseteq CallIDs
    BY <1>1, <1>5 DEF Output, TypeOK, ContextOK
  <2>2. \A c \in Unanswered \cup Shown : CallItem(c) \in given
    <3>1. Context \in Seq(Item) /\ Sourced(Context, given)
          /\ \A c \in Unanswered \cup Shown : Contains(Context, CallItem(c))
      BY <1>1 DEF ContextOK, CallsOK
    <3> QED
      BY <2>1, <3>1, WasGiven
  <2>3. C \cap (Unanswered \cup Shown) = {}
    BY <1>3, <2>2
  <2>4. lost \subseteq Unanswered /\ running \subseteq Unanswered \cup Shown
    BY DEF Unanswered, Shown
  <2> QED
    BY <1>2, <1>3, <2>1, <2>3, <2>4 DEF LostApart
<1>14. TypeOK'
  BY <1>1, <1>3, <1>12, <1>13 DEF TypeOK
<1>15. StateOK'
  BY <1>1, <1>3, <1>9, <1>12 DEF StateOK
<1>16. AskedOK'
  BY <1>3 DEF AskedOK
<1> QED
  BY <1>7, <1>14, <1>15, <1>16 DEF IInv

(* The answer to a compaction.                                             *)
LEMMA CompactionAnswerKeeps ==
  ASSUME IInv, NEW complete \in BOOLEAN, CompactionAnswer(complete)
  PROVE  IInv'
<1> DEFINE k == Cutoff
           P == SubSeq(committedPrefix, 1, k)
           D == SubSeq(committedPrefix, k + 1, Len(committedPrefix))
           H == <<SummaryItem>> \o CarryForward(P)
<1>1. /\ StateOK /\ TypeOK /\ ContextOK(Context, Unanswered, Shown, given, summarized, answers)
      /\ committedPrefix \in Seq(Item) /\ stagedSuffix \in Seq(Item) /\ answers \in Nat
  BY DEF IInv, StateOK, ContextOK
<1>2. /\ HasCutoff /\ sent = ToSet(CompactionRequest)
  BY DEF IInv, AskedOK, CompactionAnswer
<1>3. /\ asked' = "none" /\ sent' = {} /\ unscheduled' = unscheduled /\ running' = running
      /\ given' = given /\ answers' = answers + 1
      /\ Unanswered' = Unanswered /\ Shown' = Shown /\ LostApart'
  <2>1. /\ asked' = "none" /\ sent' = {} /\ unscheduled' = unscheduled /\ running' = running
        /\ given' = given /\ answers' = answers + 1 /\ lost' = lost /\ inherited' = inherited
    BY DEF CompactionAnswer
  <2> QED
    BY <1>1, <2>1, SameCalls DEF TypeOK
<1>4. AskedOK'
  BY <1>3 DEF AskedOK
<1>5. \A s, S : ContextOK(s, Unanswered, Shown, given, S, answers)
                  => ContextOK(s, Unanswered, Shown, given, S, answers + 1)
  <2>1. GivenOK(given, answers) => GivenOK(given, answers + 1)
    <3> SUFFICES ASSUME GivenOK(given, answers)
                 PROVE  \A x \in given : x.kind = "answer" => x.id <= answers + 1
      BY DEF GivenOK
    <3> SUFFICES ASSUME NEW x \in given, x.kind = "answer" PROVE x.id <= answers + 1
      OBVIOUS
    <3>1. x \in Item /\ x.id <= answers
      BY DEF GivenOK
    <3>2. PICK n \in Nat : \E S \in SUBSET Messages : x = AnswerItem(n, S)
      BY <3>1, KindIs
    <3>3. x.id = n
      BY <3>2, ItemFields
    <3> QED
      BY <1>1, <3>1, <3>3
  <2> QED
    BY <1>1, <2>1 DEF ContextOK
<1>6. CASE ~complete
  <2>1. UNCHANGED <<builderVars, summarized>>
    BY <1>6 DEF CompactionAnswer
  <2>2. /\ committedPrefix' = committedPrefix /\ stagedSuffix' = stagedSuffix
        /\ prefixTokens' = prefixTokens /\ threshold' = threshold /\ summarized' = summarized
    BY <2>1 DEF builderVars
  <2>3. Context' = Context
    BY <2>2 DEF Context
  <2>4. StateOK' /\ TypeOK'
    BY <1>1, <1>3, <2>2 DEF StateOK, TypeOK
  <2> QED
    BY <1>1, <1>3, <1>4, <1>5, <2>2, <2>3, <2>4 DEF IInv
<1>7. CASE complete
  <2>1. /\ committedPrefix' = Compacted(committedPrefix) /\ prefixTokens' = <<>>
        /\ stagedSuffix' = stagedSuffix /\ threshold' = threshold
        /\ summarized' = summarized \cup sent
    BY <1>2, <1>7 DEF CompactionAnswer, Compact
  <2>2. k \in 1 .. Len(committedPrefix)
    BY <1>1, <1>2, CutoffIs
  <2>3. committedPrefix' = H \o D
    BY <2>1 DEF Compacted
  <2>4. sent = ToSet(P \o Open(P))
    BY <1>2, CompactionRequestIs
  <2> HIDE DEF k
  <2>5. /\ P \in Seq(Item) /\ D \in Seq(Item) /\ D \o stagedSuffix \in Seq(Item)
        /\ committedPrefix \o stagedSuffix = P \o (D \o stagedSuffix)
        /\ \A h \in Seq(Item) : (h \o D) \o stagedSuffix = h \o (D \o stagedSuffix)
    BY <1>1, <2>2, SplitIs, ZenonT(30)
  <2> HIDE DEF P, D
  <2> DEFINE Q == D \o stagedSuffix
  <2>6. ContextOK(P \o Q, Unanswered, Shown, given, summarized, answers)
    BY <1>1, <2>5 DEF Context
  <2>7. OnceEach(P)
    <3>1. OnceEach(P \o Q)
      BY <2>6 DEF ContextOK, History
    <3>2. Q \in Seq(Item)
      BY <2>5
    <3> HIDE DEF Q
    <3> QED
      BY <2>5, <3>1, <3>2, OncePrefix
  <2>8. H \in Seq(Item) /\ CarryOK(P, H)
    BY <2>5, <2>7, CarryForwardOK
  <2> HIDE DEF H
  <2>9. \A x : Contains(P, x) => x \in sent
    <3> SUFFICES ASSUME NEW x, Contains(P, x) PROVE x \in sent
      OBVIOUS
    <3>1. Open(P) \in Seq(Item)
      BY <2>5, OpenIs
    <3>2. Contains(P \o Open(P), x)
      BY <2>5, <3>1, ContainsConcat
    <3> DEFINE s == P \o Open(P)
    <3>3. s \in Seq(Item)
      BY <2>5, <3>1
    <3>4. Contains(s, x) /\ sent = ToSet(s)
      BY <2>4, <3>2
    <3> HIDE DEF s
    <3> QED
      BY <3>3, <3>4 DEF Contains, ToSet
  <2>10. (H \o D) \o stagedSuffix = H \o Q
    BY <2>5, <2>8
  <2>11. Q \in Seq(Item)
    BY <2>5
  <2> HIDE DEF Q
  <2>12. ContextOK(H \o Q, Unanswered, Shown, given, summarized \cup sent, answers)
    BY <2>5, <2>6, <2>8, <2>9, <2>11, CompactedOK, ZenonT(30)
  <2>13. Context' = H \o Q
    BY <2>1, <2>3, <2>10 DEF Context
  <2>14. ContextOK(Context, Unanswered, Shown, given, summarized, answers)'
    BY <1>3, <1>5, <2>1, <2>12, <2>13
  <2>15. H \o D \in Seq(Item)
    BY <2>5, <2>8
  <2>16. <<>> \in Seq([index : Nat, tokens : Nat]) /\ DOMAIN <<>> = {}
    OBVIOUS
  <2>17. StateOK' /\ TypeOK'
    BY <1>1, <1>3, <2>1, <2>3, <2>15, <2>16 DEF StateOK, TypeOK
  <2> QED
    BY <1>4, <2>14, <2>17 DEF IInv
<1> QED
  BY <1>6, <1>7

-----------------------------------------------------------------------------
(* The theorems.                                                           *)

(* Every step keeps the invariant.                                         *)
LEMMA NextKeeps ==
  ASSUME IInv, [Next]_vars
  PROVE  IInv'
<1>1. CASE UNCHANGED vars
  <2>1. /\ UNCHANGED <<builderVars, answers, given, summarized>>
        /\ unscheduled' = unscheduled /\ running' = running /\ lost' = lost
        /\ inherited' = inherited /\ asked' = asked /\ sent' = sent
    BY <1>1 DEF vars, forkVars
  <2>2. LostApart /\ running \subseteq CallIDs \ unscheduled
    BY DEF IInv, TypeOK
  <2> QED
    BY <2>1, <2>2, SameCalls, QuietKeeps
<1>2. ASSUME NEW i \in Inputs, AddExternalInput(i) \/ AddHeartbeat(i) PROVE IInv'
  BY <1>2, StageKeeps DEF AddExternalInput, AddHeartbeat
<1>3. ASSUME NEW limit \in Thresholds, NEW sameModel \in BOOLEAN, UpdateSettings(limit, sameModel)
      PROVE  IInv'
  BY <1>3, UpdateSettingsKeeps
<1>4. CASE RequestTurn
  BY <1>4, RequestTurnKeeps
<1>5. ASSUME NEW calls \in CallLists, NEW tokens \in Usages, RegularAnswer(calls, tokens) PROVE IInv'
  BY <1>5, RegularAnswerKeeps
<1>6. ASSUME NEW c \in CallIDs, NEW runs \in BOOLEAN, ScheduleCall(c, runs) PROVE IInv'
  BY <1>6, ScheduleCallKeeps
<1>7. ASSUME NEW c \in CallIDs, CallFinishes(c) PROVE IInv'
  BY <1>7, CallFinishesKeeps
<1>8. ASSUME NEW complete \in BOOLEAN, CompactionAnswer(complete) PROVE IInv'
  BY <1>8, CompactionAnswerKeeps
<1>9. CASE Fork
  BY <1>9, ForkKeeps
<1> QED
  BY <1>1, <1>2, <1>3, <1>4, <1>5, <1>6, <1>7, <1>8, <1>9, Zenon DEF Next

(* The builder's invariant is inductive.                                   *)
THEOREM BuilderInvariant == Spec => []IInv
<1>1. Init => IInv
  BY InitKeeps
<1>2. IInv /\ [Next]_vars => IInv'
  BY NextKeeps
<1> QED
  BY <1>1, <1>2, PTL DEF Spec

(* Checkpoints are positions of the committed history in their order, and  *)
(* a call that runs stays in the context with its running result, however  *)
(* often Compact has replaced what is around it.                           *)
THEOREM BuilderCorrect == Spec => []BuilderInv
<1>1. IInv => BuilderInv
  <2> SUFFICES ASSUME IInv PROVE BuilderInv
    OBVIOUS
  <2>1. CallsOK(Context, Unanswered, Shown, given)
    BY DEF IInv, ContextOK
  <2>2. RunningCallsStay
    BY <2>1, Zenon DEF CallsOK, RunningCallsStay, ShownRunning, Shown
  <2> QED
    BY <2>2 DEF IInv, BuilderInv
<1> QED
  BY <1>1, BuilderInvariant, PTL

(* Every input, answer, call and final result is in the context exactly    *)
(* once, or was part of a request whose complete answer is now a summary.  *)
THEOREM BuilderLosesNothing == Spec => []NothingLost
<1>1. IInv => NothingLost
  <2> SUFFICES ASSUME IInv, NEW x \in given
               PROVE  /\ \A p, q \in {p \in DOMAIN Context : Context[p] = x} : p = q
                      /\ {p \in DOMAIN Context : Context[p] = x} = {} => x \in summarized
    BY DEF NothingLost
  <2>1. /\ Context \in Seq(Item) /\ OnceEach(Context) /\ Present(Context, given, summarized)
        /\ x # SummaryItem
    BY DEF IInv, ContextOK, History, GivenOK
  <2>2. DOMAIN Context = 1 .. Len(Context)
    BY <2>1
  <2>3. Contains(Context, x) \/ x \in summarized
    BY <2>1 DEF Present
  <2> QED
    BY <2>1, <2>2, <2>3 DEF OnceEach, Contains
<1> QED
  BY <1>1, BuilderInvariant, PTL

(* An answer stands behind what the request it answers told the model, and *)
(* before everything else.                                                 *)
THEOREM AnswersInPlace == Spec => []AnswersFollowTheirInputs
<1>1. IInv => AnswersFollowTheirInputs
  <2> SUFFICES ASSUME IInv, NEW p \in Positions(Context, "answer")
               PROVE  /\ Told(ToSet(SubSeq(Context, 1, p))) \subseteq Context[p].saw
                      /\ Told(ToSet(SubSeq(Context, p, Len(Context)))) \cap Context[p].saw = {}
    BY DEF AnswersFollowTheirInputs
  <2> DEFINE A == SubSeq(Context, 1, p)
             B == SubSeq(Context, p, Len(Context))
  <2>1. Context \in Seq(Item) /\ AnswersPlaced(Context)
    BY DEF IInv, ContextOK, History
  <2>2. p \in 1 .. Len(Context) /\ Context[p].kind = "answer" /\ Len(Context) \in Nat
    BY <2>1 DEF Positions
  <2>3. /\ \A q \in 1 .. Len(Context) : IsTold(Context[q]) => (Context[q] \in Context[p].saw <=> q < p)
        /\ ~IsTold(Context[p])
    <3>1. Context[p] \in Item
      BY <2>1, <2>2
    <3> QED
      BY <2>1, <2>2, <3>1, KindIs DEF AnswersPlaced
  <2>4. A \in Seq(Item) /\ Len(A) = p /\ \A q \in 1 .. p : A[q] = Context[q]
    <3>1. /\ A \in Seq(Item) /\ Len(A) = p + 1 - 1
          /\ \A q \in 1 .. p + 1 - 1 : A[q] = Context[q + 1 - 1]
      BY <2>1, <2>2, SubSeqIs
    <3> HIDE DEF A
    <3> QED
      BY <2>2, <3>1
  <2>5. /\ B \in Seq(Item) /\ Len(B) = Len(Context) + 1 - p
        /\ \A q \in 1 .. Len(Context) + 1 - p : B[q] = Context[q + p - 1]
    BY <2>1, <2>2, SubSeqIs
  <2> HIDE DEF A, B
  <2>6. ASSUME NEW x \in Told(ToSet(A)) PROVE x \in Context[p].saw
    <3>1. PICK q \in 1 .. p : A[q] = x
      BY <2>4 DEF Told, ToSet
    <3>2. IsTold(x)
      BY DEF Told, IsTold
    <3>3. q \in 1 .. Len(Context) /\ Context[q] = x /\ IsTold(Context[q])
      BY <2>2, <2>4, <3>1, <3>2
    <3>4. q # p
      BY <2>3, <3>3
    <3>5. q < p
      BY <2>2, <3>3, <3>4
    <3> QED
      BY <2>3, <3>3, <3>5
  <2>7. ASSUME NEW x \in Told(ToSet(B)) PROVE x \notin Context[p].saw
    <3>1. PICK q \in 1 .. Len(Context) + 1 - p : B[q] = x
      BY <2>5 DEF Told, ToSet
    <3>2. IsTold(x)
      BY DEF Told, IsTold
    <3> DEFINE m == q + p - 1
    <3>3. m \in 1 .. Len(Context) /\ ~(m < p)
      BY <2>2, <3>1
    <3>4. Context[m] = x
      BY <2>5, <3>1
    <3> HIDE DEF m
    <3> QED
      BY <2>3, <3>2, <3>3, <3>4
  <2> QED
    BY <2>6, <2>7 DEF A, B
<1> QED
  BY <1>1, BuilderInvariant, PTL

-----------------------------------------------------------------------------
(* What is sent.                                                           *)

(* The calls of a history are there once, and each has a result.           *)
CallsOnce(s) ==
  \A p, q \in 1 .. Len(s), c \in CallIDs : s[p] = CallItem(c) /\ s[q] = CallItem(c) => p = q

Answered(s) ==
  \A c \in CallIDs : Contains(s, CallItem(c)) =>
    Contains(s, ResultItem(c, TRUE)) \/ Contains(s, ResultItem(c, FALSE))

(* Such a history is one the Responses API takes.                          *)
LEMMA NativeIs ==
  ASSUME NEW s \in Seq(Item), CallsOnce(s), CallsFirst(s), FinalsLast(s), Answered(s)
  PROVE  NativeHistory(s)
<1>1. DOMAIN s = 1 .. Len(s) /\ \A p \in 1 .. Len(s) : s[p] \in Item
  OBVIOUS
<1>2. \A k, p : p \in Positions(s, k) <=> p \in 1 .. Len(s) /\ s[p].kind = k
  BY <1>1, Zenon DEF Positions
<1>3. ASSUME NEW p \in Positions(s, "result")
      PROVE  \E q \in Positions(s, "call") : q < p /\ s[q].id = s[p].id
  <2>1. p \in 1 .. Len(s) /\ s[p].kind = "result" /\ s[p] \in Item
    BY <1>1, <1>2
  <2>2. PICK c \in CallIDs : \E r \in BOOLEAN : s[p] = ResultItem(c, r)
    BY <2>1, KindIs
  <2>3. PICK r \in BOOLEAN : s[p] = ResultItem(c, r)
    BY <2>2
  <2>4. PICK q \in 1 .. Len(s) : q < p /\ s[q] = CallItem(c)
    BY <2>1, <2>3 DEF CallsFirst
  <2>5. s[q].kind = "call" /\ s[q].id = c /\ s[p].id = c
    BY <2>2, <2>4, ItemFields
  <2> QED
    BY <1>2, <2>4, <2>5
<1>4. ASSUME NEW q \in Positions(s, "call")
      PROVE  \E p \in Positions(s, "result") : q < p /\ s[p].id = s[q].id
  <2>1. q \in 1 .. Len(s) /\ s[q].kind = "call" /\ s[q] \in Item
    BY <1>1, <1>2
  <2>2. PICK c \in CallIDs : s[q] = CallItem(c)
    BY <2>1, KindIs
  <2>3. Contains(s, CallItem(c))
    BY <2>1, <2>2 DEF Contains
  <2>4. \E r \in BOOLEAN : Contains(s, ResultItem(c, r))
    BY <2>3 DEF Answered
  <2>5. PICK r \in BOOLEAN : Contains(s, ResultItem(c, r))
    BY <2>4
  <2>6. PICK p \in 1 .. Len(s) : s[p] = ResultItem(c, r)
    BY <2>5 DEF Contains
  <2>7. PICK k \in 1 .. Len(s) : k < p /\ s[k] = CallItem(c)
    BY <2>6 DEF CallsFirst
  <2>8. k = q
    BY <2>1, <2>2, <2>7 DEF CallsOnce
  <2>9. s[p].kind = "result" /\ s[p].id = c /\ s[q].id = c
    BY <2>2, <2>6, ItemFields
  <2> QED
    BY <1>2, <2>7, <2>8, <2>9
<1>5. ASSUME NEW p \in Positions(s, "result"), NEW q \in Positions(s, "result"),
             s[p].id = s[q].id, ~s[p].running
      PROVE  q <= p
  <2>1. /\ p \in 1 .. Len(s) /\ s[p].kind = "result" /\ s[p] \in Item
        /\ q \in 1 .. Len(s) /\ s[q].kind = "result" /\ s[q] \in Item
    BY <1>1, <1>2
  <2>2. PICK c \in CallIDs : \E r \in BOOLEAN : s[p] = ResultItem(c, r)
    BY <2>1, KindIs
  <2>3. PICK d \in CallIDs : \E r \in BOOLEAN : s[q] = ResultItem(d, r)
    BY <2>1, KindIs
  <2>4. c = d
    BY <1>5, <2>2, <2>3, ItemFields
  <2>5. ResultItem(c, TRUE).running
    BY DEF ResultItem
  <2>6. s[p] = ResultItem(c, FALSE)
    BY <1>5, <2>2, <2>5
  <2> QED
    BY <2>1, <2>3, <2>4, <2>6 DEF FinalsLast
<1> QED
  BY <1>3, <1>4, <1>5, Zenon DEF NativeHistory

(* What BuildCompaction asks for, without the instruction.                 *)
LEMMA CompactionIsNative ==
  ASSUME NEW P \in Seq(Item), NEW Q \in Seq(Item), History(P \o Q)
  PROVE  P \o Open(P) \in Seq(Item) /\ NativeHistory(P \o Open(P))
<1> DEFINE B == Open(P)
           E == P \o B
           W == P \o Q
<1>1. B \in Seq(Item)
  BY OpenIs
<1>2. \A p \in 1 .. Len(B) : \E c \in CallIDs :
        B[p] = ResultItem(c, TRUE) /\ Contains(P, CallItem(c)) /\ ~Contains(P, ResultItem(c, FALSE))
  BY OpenIs
<1>3. \A c \in CallIDs : /\ Contains(P, CallItem(c)) /\ ~Contains(P, ResultItem(c, FALSE))
                         /\ ~Contains(P, ResultItem(c, TRUE))
                         => Contains(B, ResultItem(c, TRUE))
  BY OpenIs
<1> HIDE DEF B
<1>4. /\ E \in Seq(Item) /\ Len(E) = Len(P) + Len(B) /\ Len(P) \in Nat /\ Len(B) \in Nat
      /\ \A p \in 1 .. Len(P) : p \in 1 .. Len(P) + Len(B) /\ E[p] = P[p]
      /\ \A p \in 1 .. Len(B) : E[Len(P) + p] = B[p]
      /\ \A p \in 1 .. Len(P) + Len(B) : E[p] = IF p <= Len(P) THEN P[p] ELSE B[p - Len(P)]
  BY <1>1, ConcatIs
<1>5. \A x : Contains(E, x) <=> Contains(P, x) \/ Contains(B, x)
  BY <1>1, ContainsConcat
<1>6. /\ Len(W) = Len(P) + Len(Q) /\ Len(Q) \in Nat
      /\ \A p \in 1 .. Len(P) : p \in 1 .. Len(W) /\ W[p] = P[p]
  BY ConcatIs
<1>7. OnceEach(W) /\ CallsFirst(W) /\ FinalsLast(W)
  BY DEF History
<1> HIDE DEF E, W
<1>8. ASSUME NEW p \in 1 .. Len(E), ~(p <= Len(P))
      PROVE  \E c \in CallIDs : /\ E[p] = ResultItem(c, TRUE) /\ Contains(P, CallItem(c))
                                /\ ~Contains(P, ResultItem(c, FALSE))
  <2>1. p - Len(P) \in 1 .. Len(B) /\ E[p] = B[p - Len(P)]
    BY <1>4, <1>8
  <2> QED
    BY <1>2, <2>1
<1>9. \A p \in 1 .. Len(E) : p <= Len(P) => p \in 1 .. Len(P) /\ E[p] = W[p] /\ p \in 1 .. Len(W)
  BY <1>4, <1>6
<1>10. CallsOnce(E)
  <2> SUFFICES ASSUME NEW p \in 1 .. Len(E), NEW q \in 1 .. Len(E), NEW c \in CallIDs,
                      E[p] = CallItem(c), E[q] = CallItem(c)
               PROVE  p = q
    BY DEF CallsOnce
  <2>1. \A d : ResultItem(d, TRUE) # CallItem(c)
    BY ResultsDiffer
  <2>2. p <= Len(P) /\ q <= Len(P)
    BY <1>8, <2>1
  <2>3. CallItem(c) # SummaryItem
    <3>1. CallItem(c).kind = "call" /\ SummaryItem.kind = "summary"
      BY ItemFields
    <3> QED
      BY <3>1
  <2> QED
    BY <1>7, <1>9, <2>2, <2>3 DEF OnceEach
<1>11. CallsFirst(E)
  <2> SUFFICES ASSUME NEW p \in 1 .. Len(E), NEW c \in CallIDs, NEW r \in BOOLEAN,
                      E[p] = ResultItem(c, r)
               PROVE  \E q \in 1 .. Len(E) : q < p /\ E[q] = CallItem(c)
    BY DEF CallsFirst
  <2>1. CASE p <= Len(P)
    <3>1. p \in 1 .. Len(W) /\ W[p] = ResultItem(c, r)
      BY <1>9, <2>1
    <3>2. PICK q \in 1 .. Len(W) : q < p /\ W[q] = CallItem(c)
      BY <1>7, <3>1 DEF CallsFirst
    <3>3. q \in 1 .. Len(E) /\ q <= Len(P)
      BY <1>4, <1>6, <2>1, <3>2
    <3> QED
      BY <1>9, <3>2, <3>3
  <2>2. CASE ~(p <= Len(P))
    <3>1. PICK d \in CallIDs : E[p] = ResultItem(d, TRUE) /\ Contains(P, CallItem(d))
      BY <1>8, <2>2
    <3>2. c = d
      <4>1. ResultItem(c, r).id = c /\ ResultItem(d, TRUE).id = d
        BY ItemFields, Zenon
      <4>2. ResultItem(c, r) = ResultItem(d, TRUE)
        BY <3>1, Zenon
      <4> QED
        BY <4>1, <4>2, Zenon
    <3>3. PICK q \in 1 .. Len(P) : P[q] = CallItem(c)
      BY <3>1, <3>2 DEF Contains
    <3>4. q \in 1 .. Len(E) /\ q < p /\ E[q] = P[q]
      BY <1>4, <2>2
    <3> QED
      BY <3>3, <3>4
  <2> QED
    BY <2>1, <2>2
<1>12. FinalsLast(E)
  <2> SUFFICES ASSUME NEW p \in 1 .. Len(E), NEW q \in 1 .. Len(E), NEW c \in CallIDs,
                      NEW r \in BOOLEAN, E[p] = ResultItem(c, FALSE), E[q] = ResultItem(c, r)
               PROVE  q <= p
    BY DEF FinalsLast
  <2>1. p <= Len(P)
    <3>1. \A d : ResultItem(d, TRUE) # ResultItem(c, FALSE)
      BY ResultsDiffer
    <3> QED
      BY <1>8, <3>1
  <2>2. Contains(P, ResultItem(c, FALSE))
    BY <1>4, <1>9, <2>1 DEF Contains
  <2>3. q <= Len(P)
    <3>1. ASSUME ~(q <= Len(P)) PROVE FALSE
      <4>1. PICK d \in CallIDs : E[q] = ResultItem(d, TRUE) /\ ~Contains(P, ResultItem(d, FALSE))
        BY <1>8, <3>1
      <4>2. c = d
        <5>1. ResultItem(c, r).id = c /\ ResultItem(d, TRUE).id = d
          BY ItemFields, Zenon
        <5>2. ResultItem(c, r) = ResultItem(d, TRUE)
          BY <4>1, Zenon
        <5> QED
          BY <5>1, <5>2, Zenon
      <4> QED
        BY <2>2, <4>1, <4>2
    <3> QED
      BY <3>1
  <2>4. /\ p \in 1 .. Len(W) /\ W[p] = ResultItem(c, FALSE)
        /\ q \in 1 .. Len(W) /\ W[q] = ResultItem(c, r)
    BY <1>9, <2>1, <2>3
  <2> QED
    BY <1>7, <2>4 DEF FinalsLast
<1>13. Answered(E)
  <2> SUFFICES ASSUME NEW c \in CallIDs, Contains(E, CallItem(c))
               PROVE  Contains(E, ResultItem(c, TRUE)) \/ Contains(E, ResultItem(c, FALSE))
    BY DEF Answered
  <2>1. Contains(P, CallItem(c))
    <3>1. ASSUME Contains(B, CallItem(c)) PROVE FALSE
      <4>1. PICK p \in 1 .. Len(B) : B[p] = CallItem(c)
        BY <3>1 DEF Contains
      <4>2. \A d : ResultItem(d, TRUE) # CallItem(c)
        BY ResultsDiffer
      <4> QED
        BY <1>2, <4>1, <4>2
    <3> QED
      BY <1>5, <3>1
  <2> QED
    BY <1>3, <1>5, <2>1, Zenon
<1>14. NativeHistory(E)
  BY <1>4, <1>10, <1>11, <1>12, <1>13, NativeIs
<1> QED
  BY <1>4, <1>14 DEF E, B

(* The instruction to summarize is no item of the history.                 *)
LEMMA InstructionKeepsNative ==
  ASSUME NEW s \in Seq(Item), NativeHistory(s)
  PROVE  NativeHistory(Append(s, Instruction))
<1> DEFINE t == Append(s, Instruction)
<1>1. /\ Len(s) \in Nat /\ Len(t) = Len(s) + 1 /\ DOMAIN t = 1 .. Len(s) + 1 /\ DOMAIN s = 1 .. Len(s)
      /\ \A p \in 1 .. Len(s) : t[p] = s[p]
      /\ t[Len(s) + 1] = Instruction
  OBVIOUS
<1>2. Instruction.kind = "instruction"
  BY DEF Instruction
<1> HIDE DEF t
<1>3. ASSUME NEW k \in {"call", "result"}
      PROVE  /\ Positions(t, k) = Positions(s, k)
             /\ \A p \in Positions(s, k) : t[p] = s[p]
  <2>1. \A p \in DOMAIN t : t[p].kind = k => p \in 1 .. Len(s)
    BY <1>1, <1>2
  <2>2. 1 .. Len(s) \subseteq DOMAIN t
    BY <1>1
  <2>3. \A p : p \in Positions(t, k) <=> p \in Positions(s, k)
    BY <1>1, <2>1, <2>2 DEF Positions
  <2> QED
    BY <1>1, <2>3, Zenon DEF Positions
<1>4. /\ Positions(t, "call") = Positions(s, "call") /\ Positions(t, "result") = Positions(s, "result")
      /\ \A p \in Positions(s, "call") : t[p] = s[p]
      /\ \A p \in Positions(s, "result") : t[p] = s[p]
  BY <1>3
<1>5. NativeHistory(t)
  <2>1. /\ \A p \in Positions(s, "result") :
             \E q \in Positions(s, "call") : q < p /\ s[q].id = s[p].id
        /\ \A q \in Positions(s, "call") :
             \E p \in Positions(s, "result") : q < p /\ s[p].id = s[q].id
        /\ \A p, q \in Positions(s, "result") :
             s[p].id = s[q].id /\ ~s[p].running => q <= p
    BY Zenon DEF NativeHistory
  <2>2. \A p \in Positions(t, "result") :
          \E q \in Positions(t, "call") : q < p /\ t[q].id = t[p].id
    BY <1>4, <2>1
  <2>3. \A q \in Positions(t, "call") :
          \E p \in Positions(t, "result") : q < p /\ t[p].id = t[q].id
    BY <1>4, <2>1
  <2>4. \A p, q \in Positions(t, "result") :
          t[p].id = t[q].id /\ ~t[p].running => q <= p
    BY <1>4, <2>1
  <2> QED
    BY <2>2, <2>3, <2>4, Zenon DEF NativeHistory
<1> QED
  BY <1>5 DEF t

(* Whatever the coordinator can ask the model next, a turn or a            *)
(* compaction, after any number of compactions with calls that run across  *)
(* them and any forks that lose no result, holds for each call, behind it, *)
(* a result, and no result without its call or behind the final one.       *)
THEOREM RequestsAreNative == Spec => []NativeRequests
<1>1. IInv => NativeRequests
  <2> SUFFICES ASSUME IInv, MayRequest, lost = {} PROVE NativeHistory(NextRequest)
    BY DEF NativeRequests
  <2>1. /\ StateOK /\ TypeOK /\ Context \in Seq(Item) /\ History(Context)
        /\ CallsOK(Context, {}, Shown, given)
        /\ committedPrefix \in Seq(Item) /\ stagedSuffix \in Seq(Item)
    <3>1. Unanswered = {}
      BY DEF MayRequest, Unanswered
    <3> QED
      BY <3>1 DEF IInv, ContextOK, StateOK
  <2>2. CASE NeedsCompaction /\ HasCutoff
    <3> DEFINE k == Cutoff
               P == SubSeq(committedPrefix, 1, k)
               Q == SubSeq(committedPrefix, k + 1, Len(committedPrefix)) \o stagedSuffix
    <3>1. k \in 1 .. Len(committedPrefix)
      BY <2>1, <2>2, CutoffIs
    <3>2. NextRequest = Append(P \o Open(P), Instruction)
      BY <2>2, CompactionRequestIs DEF NextRequest
    <3> HIDE DEF k
    <3>3. P \in Seq(Item) /\ Q \in Seq(Item) /\ committedPrefix \o stagedSuffix = P \o Q
      BY <2>1, <3>1, SplitIs, ZenonT(30)
    <3> HIDE DEF P, Q
    <3>4. History(P \o Q)
      BY <2>1, <3>3 DEF Context
    <3>5. P \o Open(P) \in Seq(Item) /\ NativeHistory(P \o Open(P))
      BY <3>3, <3>4, CompactionIsNative
    <3> QED
      BY <3>2, <3>5, InstructionKeepsNative
  <2>3. CASE ~(NeedsCompaction /\ HasCutoff)
    <3>1. NextRequest = Context
      BY <2>3 DEF NextRequest
    <3>2. CallsOnce(Context)
      <4>1. \A c : CallItem(c) # SummaryItem
        <5>1. SummaryItem.kind = "summary" /\ \A c : CallItem(c).kind = "call"
          BY ItemFields
        <5> QED
          BY <5>1
      <4> QED
        BY <2>1, <4>1 DEF History, OnceEach, CallsOnce
    <3>3. Answered(Context)
      BY <2>1, Zenon DEF CallsOK, Answered
    <3>4. NativeHistory(Context)
      BY <2>1, <3>2, <3>3, NativeIs DEF History
    <3> QED
      BY <3>1, <3>4
  <2> QED
    BY <2>2, <2>3
<1> QED
  BY <1>1, BuilderInvariant, PTL

-----------------------------------------------------------------------------
(* What the conversion of a request is made of.                            *)

(* The items of a sequence with one more.                                  *)
LEMMA AppendIs ==
  ASSUME NEW X, NEW s \in Seq(X), NEW x \in X
  PROVE  /\ Append(s, x) \in Seq(X) /\ Len(s) \in Nat /\ Len(Append(s, x)) = Len(s) + 1
         /\ \A k \in 1 .. Len(s) : Append(s, x)[k] = s[k]
         /\ Append(s, x)[Len(s) + 1] = x
OBVIOUS

(* InOrder, the numbers of a set in ascending order.                       *)

(* The sequences InOrder makes step by step.                               *)
InOrderOf(S, f, n) ==
  f = [k \in 0 .. n |-> IF k = 0 THEN <<>>
                        ELSE IF k \in S THEN Append(f[k - 1], k) ELSE f[k - 1]]

(* They are defined: by induction.                                         *)
LEMMA InOrderExists ==
  ASSUME NEW S
  PROVE  \A n \in Nat : \E f : InOrderOf(S, f, n)
<1> DEFINE T == {n \in Nat : \E f : InOrderOf(S, f, n)}
<1>1. 0 \in T
  <2>1. InOrderOf(S, [k \in 0 .. 0 |-> <<>>], 0)
    BY DEF InOrderOf
  <2> QED
    BY <2>1
<1>2. ASSUME NEW n \in T PROVE n + 1 \in T
  <2>1. PICK f : InOrderOf(S, f, n)
    OBVIOUS
  <2> DEFINE g == [k \in 0 .. n + 1 |->
                     IF k = n + 1 THEN IF k \in S THEN Append(f[n], k) ELSE f[n]
                     ELSE f[k]]
  <2>2. InOrderOf(S, g, n + 1)
    <3>1. ASSUME NEW k \in 0 .. n + 1
          PROVE  g[k] = IF k = 0 THEN <<>>
                        ELSE IF k \in S THEN Append(g[k - 1], k) ELSE g[k - 1]
      <4>1. CASE k = n + 1
        BY <4>1
      <4>2. CASE k # n + 1
        <5>1. k \in 0 .. n /\ (k # 0 => k - 1 \in 0 .. n)
          BY <4>2
        <5>2. g[k] = f[k] /\ (k # 0 => g[k - 1] = f[k - 1])
          BY <5>1
        <5> HIDE DEF g
        <5>3. f[k] = IF k = 0 THEN <<>>
                     ELSE IF k \in S THEN Append(f[k - 1], k) ELSE f[k - 1]
          BY <2>1, <5>1 DEF InOrderOf
        <5> QED
          BY <5>2, <5>3
      <4> QED
        BY <4>1, <4>2
    <3> QED
      BY <3>1 DEF InOrderOf
  <2> QED
    BY <2>2
<1> HIDE DEF T
<1>3. T = Nat
  BY <1>1, <1>2, Induction DEF T
<1> QED
  BY <1>3 DEF T

(* Its steps.                                                              *)
LEMMA InOrderOfIs ==
  ASSUME NEW S, NEW n \in Nat, NEW f, InOrderOf(S, f, n)
  PROVE  /\ f[0] = <<>>
         /\ \A k \in 1 .. n : f[k] = IF k \in S THEN Append(f[k - 1], k) ELSE f[k - 1]
<1>1. ASSUME NEW k \in 0 .. n
      PROVE  f[k] = IF k = 0 THEN <<>>
                    ELSE IF k \in S THEN Append(f[k - 1], k) ELSE f[k - 1]
  BY DEF InOrderOf
<1>2. 0 \in 0 .. n /\ \A k \in 1 .. n : k \in 0 .. n /\ k # 0
  OBVIOUS
<1> QED
  BY <1>1, <1>2

(* Two of them agree as far as both go.                                    *)
LEMMA InOrderAgree ==
  ASSUME NEW S, NEW m \in Nat, NEW n \in Nat, NEW f, NEW g,
         InOrderOf(S, f, m), InOrderOf(S, g, n)
  PROVE  \A k \in Nat : k <= m /\ k <= n => f[k] = g[k]
<1> DEFINE T == {k \in Nat : k <= m /\ k <= n => f[k] = g[k]}
<1>1. /\ f[0] = <<>> /\ g[0] = <<>>
      /\ \A k \in 1 .. m : f[k] = IF k \in S THEN Append(f[k - 1], k) ELSE f[k - 1]
      /\ \A k \in 1 .. n : g[k] = IF k \in S THEN Append(g[k - 1], k) ELSE g[k - 1]
  BY InOrderOfIs
<1>2. 0 \in T
  BY <1>1
<1>3. ASSUME NEW k \in T PROVE k + 1 \in T
  BY <1>1
<1> HIDE DEF T
<1>4. T = Nat
  BY <1>2, <1>3, Induction DEF T
<1> QED
  BY <1>4 DEF T

(* InOrder, one number at a time.                                          *)
LEMMA InOrderSteps ==
  ASSUME NEW S, NEW n \in Nat
  PROVE  /\ InOrder(S, 0) = <<>>
         /\ InOrder(S, n + 1) = IF n + 1 \in S THEN Append(InOrder(S, n), n + 1)
                                ELSE InOrder(S, n)
<1> DEFINE F(m) == CHOOSE g : InOrderOf(S, g, m)
<1>1. ASSUME NEW m \in Nat PROVE InOrder(S, m) = F(m)[m] /\ InOrderOf(S, F(m), m)
  <2>1. \E g : InOrderOf(S, g, m)
    BY InOrderExists
  <2>2. InOrder(S, m) = F(m)[m]
    BY DEF InOrder, InOrderOf
  <2> QED
    BY <2>1, <2>2
<1> DEFINE f == F(n)
           g == F(n + 1)
           z == F(0)
<1>2. /\ InOrder(S, n) = f[n] /\ InOrderOf(S, f, n)
      /\ InOrder(S, n + 1) = g[n + 1] /\ InOrderOf(S, g, n + 1)
      /\ InOrder(S, 0) = z[0] /\ InOrderOf(S, z, 0)
  BY <1>1
<1> HIDE DEF f, g, z
<1>3. f[n] = g[n]
  BY <1>2, InOrderAgree
<1>4. z[0] = <<>>
  <2>1. 0 \in Nat /\ InOrderOf(S, z, 0)
    BY <1>2
  <2> QED
    BY <2>1, InOrderOfIs, Zenon
<1>5. g[n + 1] = IF n + 1 \in S THEN Append(g[n], n + 1) ELSE g[n]
  <2>1. n + 1 \in Nat /\ n + 1 \in 1 .. n + 1 /\ (n + 1) - 1 = n
    OBVIOUS
  <2> QED
    BY <1>2, <2>1, InOrderOfIs
<1> QED
  BY <1>2, <1>3, <1>4, <1>5

(* What InOrder is.                                                        *)
Ascending(o, S, n) ==
  /\ o \in Seq(Nat)
  /\ \A i \in 1 .. Len(o) : o[i] \in S /\ o[i] \in 1 .. n
  /\ \A i, j \in 1 .. Len(o) : i < j => o[i] < o[j]
  /\ \A k \in 1 .. n : k \in S => \E i \in 1 .. Len(o) : o[i] = k

(* InOrder lists the numbers of the set, ascending.                        *)
LEMMA InOrderIs ==
  ASSUME NEW S
  PROVE  \A n \in Nat : Ascending(InOrder(S, n), S, n)
<1> DEFINE T == {n \in Nat : Ascending(InOrder(S, n), S, n)}
<1>1. 0 \in T
  <2>1. InOrder(S, 0) = <<>>
    BY InOrderSteps
  <2>2. Ascending(<<>>, S, 0)
    BY DEF Ascending
  <2> QED
    BY <2>1, <2>2
<1>2. ASSUME NEW n \in T PROVE n + 1 \in T
  <2> DEFINE o == InOrder(S, n)
             u == InOrder(S, n + 1)
  <2>1. /\ n \in Nat /\ o \in Seq(Nat) /\ Len(o) \in Nat
        /\ \A i \in 1 .. Len(o) : o[i] \in S /\ o[i] \in 1 .. n
        /\ \A i, j \in 1 .. Len(o) : i < j => o[i] < o[j]
        /\ \A k \in 1 .. n : k \in S => \E i \in 1 .. Len(o) : o[i] = k
    BY DEF Ascending
  <2>2. u = IF n + 1 \in S THEN Append(o, n + 1) ELSE o
    BY InOrderSteps
  <2> HIDE DEF o, u
  <2>3. \A k \in 1 .. n + 1 : k \in 1 .. n \/ k = n + 1
    BY <2>1
  <2>4. CASE n + 1 \in S
    <3> DEFINE v == Append(o, n + 1)
    <3>1. /\ v \in Seq(Nat) /\ Len(v) = Len(o) + 1 /\ v[Len(o) + 1] = n + 1
          /\ \A i \in 1 .. Len(o) : v[i] = o[i]
      <4>1. o \in Seq(Nat) /\ n + 1 \in Nat
        BY <2>1
      <4> QED
        BY <4>1, AppendIs
    <3>2. u = v
      BY <2>2, <2>4
    <3> HIDE DEF v
    <3>3. \A i \in 1 .. Len(v) : i \in 1 .. Len(o) \/ i = Len(o) + 1
      BY <2>1, <3>1
    <3>4. ASSUME NEW i \in 1 .. Len(v) PROVE v[i] \in S /\ v[i] \in 1 .. n + 1
      <4>1. CASE i \in 1 .. Len(o)
        <5>1. v[i] = o[i] /\ o[i] \in S /\ o[i] \in 1 .. n
          BY <2>1, <3>1, <4>1
        <5> QED
          BY <2>1, <5>1
      <4>2. CASE i = Len(o) + 1
        BY <2>1, <2>4, <3>1, <4>2
      <4> QED
        BY <3>3, <4>1, <4>2
    <3>5. \A i, j \in 1 .. Len(v) : i < j => v[i] < v[j]
      <4> SUFFICES ASSUME NEW i \in 1 .. Len(v), NEW j \in 1 .. Len(v), i < j PROVE v[i] < v[j]
        OBVIOUS
      <4>1. i \in 1 .. Len(o)
        BY <2>1, <3>1
      <4>2. CASE j \in 1 .. Len(o)
        BY <2>1, <3>1, <4>1, <4>2
      <4>3. CASE j = Len(o) + 1
        BY <2>1, <3>1, <4>1, <4>3
      <4> QED
        BY <3>3, <4>2, <4>3
    <3>6. ASSUME NEW k \in 1 .. n + 1, k \in S PROVE \E i \in 1 .. Len(v) : v[i] = k
      <4>1. CASE k \in 1 .. n
        <5>1. PICK i \in 1 .. Len(o) : o[i] = k
          BY <2>1, <3>6, <4>1
        <5>2. i \in 1 .. Len(v) /\ v[i] = k
          BY <2>1, <3>1, <5>1
        <5> QED
          BY <5>2
      <4>2. CASE k = n + 1
        <5>1. Len(o) + 1 \in 1 .. Len(v)
          BY <2>1, <3>1
        <5> QED
          BY <3>1, <4>2, <5>1
      <4> QED
        BY <2>3, <4>1, <4>2
    <3>7. Ascending(v, S, n + 1)
      BY <3>1, <3>4, <3>5, <3>6 DEF Ascending
    <3> QED
      BY <2>1, <3>2, <3>7 DEF u
  <2>5. CASE n + 1 \notin S
    <3>1. u = o
      BY <2>2, <2>5
    <3>2. Ascending(o, S, n + 1)
      BY <2>1, <2>3, <2>5 DEF Ascending
    <3> QED
      BY <2>1, <3>1, <3>2 DEF u
  <2> QED
    BY <2>4, <2>5
<1> HIDE DEF T
<1>3. T = Nat
  BY <1>1, <1>2, Induction DEF T
<1> QED
  BY <1>3 DEF T

(* As many as there are numbers in the set.                                *)
LEMMA Counted ==
  ASSUME NEW o, NEW m \in Nat, NEW S, o \in [1 .. m -> S],
         \A i, j \in 1 .. m : o[i] = o[j] => i = j,
         \A x \in S : \E i \in 1 .. m : o[i] = x
  PROVE  IsFiniteSet(S) /\ Cardinality(S) = m
<1>1. o \in Bijection(1 .. m, S)
  BY DEF Bijection, Injection, Surjection, IsInjective
<1>2. ExistsBijection(1 .. m, S)
  BY <1>1 DEF ExistsBijection
<1> QED
  BY <1>2, FS_CountingElements, FS_NatBijection

(* It lists each of them once.                                             *)
LEMMA InOrderCount ==
  ASSUME NEW n \in Nat, NEW S \in SUBSET (1 .. n)
  PROVE  /\ InOrder(S, n) \in Seq(S) /\ Len(InOrder(S, n)) = Cardinality(S)
         /\ \A i, j \in 1 .. Len(InOrder(S, n)) : InOrder(S, n)[i] = InOrder(S, n)[j] => i = j
         /\ \A x \in S : \E i \in 1 .. Len(InOrder(S, n)) : InOrder(S, n)[i] = x
         /\ IsFiniteSet(S)
<1> DEFINE o == InOrder(S, n)
<1>1. Ascending(o, S, n)
  BY InOrderIs
<1> HIDE DEF o
<1>2. o \in Seq(Nat) /\ Len(o) \in Nat /\ \A i \in 1 .. Len(o) : o[i] \in S /\ o[i] \in Nat
  BY <1>1 DEF Ascending
<1>3. o \in [1 .. Len(o) -> S] /\ o \in Seq(S)
  BY <1>2
<1>4. \A x \in S : \E i \in 1 .. Len(o) : o[i] = x
  BY <1>1 DEF Ascending
<1>5. ASSUME NEW i \in 1 .. Len(o), NEW j \in 1 .. Len(o), o[i] = o[j] PROVE i = j
  <2>1. \A x, y \in 1 .. Len(o) : x < y => o[x] < o[y]
    BY <1>1 DEF Ascending
  <2> QED
    BY <1>2, <1>5, <2>1
<1>6. IsFiniteSet(S) /\ Cardinality(S) = Len(o)
  BY <1>2, <1>3, <1>4, <1>5, Counted
<1> QED
  BY <1>3, <1>4, <1>5, <1>6 DEF o

(* Sequences of which one begins with the other.                           *)
Begins(u, v) == Len(u) <= Len(v) /\ \A k \in 1 .. Len(u) : u[k] = v[k]

(* The numbers up to m come first.                                         *)
LEMMA InOrderBegins ==
  ASSUME NEW S, NEW R, NEW m \in Nat, \A k \in 1 .. m : k \in R <=> k \in S
  PROVE  \A n \in Nat : m <= n => Begins(InOrder(R, m), InOrder(S, n))
<1> DEFINE T == {n \in Nat : n <= m => InOrder(R, n) = InOrder(S, n)}
           U == {n \in Nat : m <= n => Begins(InOrder(R, m), InOrder(S, n))}
<1>1. \A n \in Nat : InOrder(S, n) \in Seq(Nat) /\ InOrder(R, n) \in Seq(Nat)
  BY InOrderIs DEF Ascending
<1>2. /\ InOrder(S, 0) = <<>> /\ InOrder(R, 0) = <<>>
      /\ \A n \in Nat : InOrder(S, n + 1) = IF n + 1 \in S THEN Append(InOrder(S, n), n + 1)
                                            ELSE InOrder(S, n)
      /\ \A n \in Nat : InOrder(R, n + 1) = IF n + 1 \in R THEN Append(InOrder(R, n), n + 1)
                                            ELSE InOrder(R, n)
  BY InOrderSteps
<1>3. 0 \in T
  BY <1>2
<1>4. ASSUME NEW n \in T PROVE n + 1 \in T
  BY <1>2
<1> HIDE DEF T
<1>5. T = Nat
  BY <1>3, <1>4, Induction DEF T
<1>6. InOrder(R, m) = InOrder(S, m)
  BY <1>5 DEF T
<1>7. Begins(InOrder(R, m), InOrder(S, m))
  BY <1>1, <1>6 DEF Begins
<1>8. 0 \in U
  <2>1. 0 \in Nat /\ (m <= 0 => m = 0)
    OBVIOUS
  <2> QED
    BY <1>7, <2>1
<1>9. ASSUME NEW n \in U PROVE n + 1 \in U
  <2> SUFFICES ASSUME m <= n + 1 PROVE Begins(InOrder(R, m), InOrder(S, n + 1))
    OBVIOUS
  <2>1. CASE m = n + 1
    BY <1>7, <2>1
  <2>2. CASE m <= n
    <3> DEFINE u == InOrder(R, m)
               v == InOrder(S, n)
               w == InOrder(S, n + 1)
    <3>1. Begins(u, v) /\ u \in Seq(Nat) /\ v \in Seq(Nat) /\ n + 1 \in Nat
      BY <1>1, <2>2
    <3>2. w = Append(v, n + 1) \/ w = v
      BY <1>2
    <3> HIDE DEF u, v, w
    <3>5. Begins(u, w)
      <4>1. CASE w = v
        BY <3>1, <4>1
      <4>2. CASE w = Append(v, n + 1)
        <5>1. /\ Len(w) = Len(v) + 1 /\ Len(v) \in Nat /\ Len(u) \in Nat
              /\ \A i \in 1 .. Len(v) : w[i] = v[i]
          BY <3>1, <4>2, AppendIs
        <5> QED
          BY <3>1, <5>1 DEF Begins
      <4> QED
        BY <3>2, <4>1, <4>2
    <3> QED
      BY <3>5 DEF u, w
  <2> QED
    BY <2>1, <2>2
<1> HIDE DEF U
<1>10. U = Nat
  BY <1>8, <1>9, Induction DEF U
<1> QED
  BY <1>10 DEF U

-----------------------------------------------------------------------------
(* Wire, the blocks of the messages one behind the other.                  *)

(* The sequences Wire makes step by step.                                  *)
WireOf(ms, f, n) ==
  f = [m \in 0 .. n |-> IF m = 0 THEN <<>> ELSE Join(f[m - 1], SentIn(ms[m]))]

(* They are defined: by induction.                                         *)
LEMMA WireExists ==
  ASSUME NEW ms
  PROVE  \A n \in Nat : \E f : WireOf(ms, f, n)
<1> DEFINE T == {n \in Nat : \E f : WireOf(ms, f, n)}
<1>1. 0 \in T
  <2>1. WireOf(ms, [k \in 0 .. 0 |-> <<>>], 0)
    BY DEF WireOf
  <2> QED
    BY <2>1
<1>2. ASSUME NEW n \in T PROVE n + 1 \in T
  <2>1. PICK f : WireOf(ms, f, n)
    OBVIOUS
  <2> DEFINE g == [k \in 0 .. n + 1 |->
                     IF k = n + 1 THEN Join(f[n], SentIn(ms[k])) ELSE f[k]]
  <2>2. WireOf(ms, g, n + 1)
    <3>1. ASSUME NEW k \in 0 .. n + 1
          PROVE  g[k] = IF k = 0 THEN <<>> ELSE Join(g[k - 1], SentIn(ms[k]))
      <4>1. CASE k = n + 1
        BY <4>1
      <4>2. CASE k # n + 1
        <5>1. k \in 0 .. n /\ (k # 0 => k - 1 \in 0 .. n)
          BY <4>2
        <5>2. g[k] = f[k] /\ (k # 0 => g[k - 1] = f[k - 1])
          BY <5>1
        <5> HIDE DEF g
        <5>3. f[k] = IF k = 0 THEN <<>> ELSE Join(f[k - 1], SentIn(ms[k]))
          BY <2>1, <5>1 DEF WireOf
        <5> QED
          BY <5>2, <5>3
      <4> QED
        BY <4>1, <4>2
    <3> QED
      BY <3>1 DEF WireOf
  <2> QED
    BY <2>2
<1> HIDE DEF T
<1>3. T = Nat
  BY <1>1, <1>2, Induction DEF T
<1> QED
  BY <1>3 DEF T

(* Its steps.                                                              *)
LEMMA WireOfIs ==
  ASSUME NEW ms, NEW n \in Nat, NEW f, WireOf(ms, f, n)
  PROVE  f[0] = <<>> /\ \A k \in 1 .. n : f[k] = Join(f[k - 1], SentIn(ms[k]))
<1>1. ASSUME NEW k \in 0 .. n
      PROVE  f[k] = IF k = 0 THEN <<>> ELSE Join(f[k - 1], SentIn(ms[k]))
  BY DEF WireOf
<1>2. 0 \in 0 .. n /\ \A k \in 1 .. n : k \in 0 .. n /\ k # 0
  OBVIOUS
<1> QED
  BY <1>1, <1>2

(* Two of them agree as far as the messages do.                            *)
SameUpTo(ms, ns, m) == \A k \in 1 .. m : ms[k] = ns[k]

(* So do the blocks made of them.                                          *)
LEMMA WireAgree ==
  ASSUME NEW ms, NEW ns, NEW m \in Nat, NEW n \in Nat, NEW f, NEW g,
         WireOf(ms, f, m), WireOf(ns, g, n), m <= n, SameUpTo(ms, ns, m)
  PROVE  f[m] = g[m]
<1> DEFINE T == {k \in Nat : k <= m => f[k] = g[k]}
<1>1. /\ f[0] = <<>> /\ g[0] = <<>>
      /\ \A k \in 1 .. m : f[k] = Join(f[k - 1], SentIn(ms[k]))
      /\ \A k \in 1 .. n : g[k] = Join(g[k - 1], SentIn(ns[k]))
  BY WireOfIs
<1>2. 0 \in T
  BY <1>1
<1>3. ASSUME NEW k \in T PROVE k + 1 \in T
  <2> SUFFICES ASSUME k + 1 <= m PROVE f[k + 1] = g[k + 1]
    OBVIOUS
  <2>1. /\ k + 1 \in 1 .. m /\ k + 1 \in 1 .. n /\ (k + 1) - 1 = k /\ f[k] = g[k]
        /\ ms[k + 1] = ns[k + 1]
    BY DEF SameUpTo
  <2> QED
    BY <1>1, <2>1
<1> HIDE DEF T
<1>4. T = Nat
  BY <1>2, <1>3, Induction DEF T
<1> QED
  BY <1>4 DEF T

(* Wire, one message at a time.                                            *)
LEMMA WireSteps ==
  ASSUME NEW M, NEW ms \in Seq(M), NEW x \in M
  PROVE  /\ Wire(<<>>) = <<>>
         /\ Wire(Append(ms, x)) = Wire(ms) \o SentIn(x)
<1> DEFINE F(l) == CHOOSE g : WireOf(l, g, Len(l))
<1>1. ASSUME NEW l, Len(l) \in Nat PROVE Wire(l) = F(l)[Len(l)] /\ WireOf(l, F(l), Len(l))
  <2>1. \E g : WireOf(l, g, Len(l))
    BY <1>1, WireExists
  <2>2. Wire(l) = F(l)[Len(l)]
    BY DEF Wire, WireOf, Join
  <2> QED
    BY <2>1, <2>2
<1> DEFINE ns == Append(ms, x)
           n == Len(ms)
           f == F(ms)
           g == F(ns)
           e == <<>>
           z == F(e)
<1> HIDE DEF F
<1>2. /\ ns \in Seq(M) /\ n \in Nat /\ Len(ns) = n + 1
      /\ \A k \in 1 .. n : ns[k] = ms[k]
      /\ ns[n + 1] = x
  BY AppendIs
<1>3. /\ Wire(ms) = f[n] /\ WireOf(ms, f, n)
      /\ Wire(ns) = g[n + 1] /\ WireOf(ns, g, n + 1)
  <2>1. Len(ns) = n + 1 /\ n + 1 \in Nat /\ n \in Nat
    BY <1>2
  <2> HIDE DEF ns
  <2>2. Wire(ms) = f[n] /\ WireOf(ms, f, n)
    BY <1>1, <2>1
  <2>3. Wire(ns) = g[Len(ns)] /\ WireOf(ns, g, Len(ns))
    BY <1>1, <2>1
  <2> QED
    BY <2>1, <2>2, <2>3
<1>4. Wire(e) = z[0] /\ WireOf(e, z, 0)
  <2>1. Len(e) = 0
    OBVIOUS
  <2> QED
    BY <1>1, <2>1
<1> HIDE DEF f, g, z, ns, n, e
<1>5. f[n] = g[n]
  <2> DEFINE l == n + 1
  <2>1. n \in Nat /\ l \in Nat /\ n <= l /\ SameUpTo(ms, ns, n)
    BY <1>2 DEF SameUpTo
  <2>2. WireOf(ms, f, n) /\ WireOf(ns, g, l)
    BY <1>3
  <2> HIDE DEF l
  <2> QED
    BY <2>1, <2>2, WireAgree
<1>6. z[0] = <<>>
  <2>1. 0 \in Nat
    OBVIOUS
  <2> QED
    BY <1>4, <2>1, WireOfIs, Zenon
<1>7. g[n + 1] = Join(g[n], SentIn(x))
  <2>1. n + 1 \in Nat /\ n + 1 \in 1 .. n + 1 /\ (n + 1) - 1 = n
    BY <1>2
  <2> QED
    BY <1>2, <1>3, <2>1, WireOfIs
<1> QED
  BY <1>3, <1>4, <1>5, <1>6, <1>7 DEF Join, ns, e

-----------------------------------------------------------------------------
(* ConvertTurns, turn by turn.                                             *)

(* A turn is a maximal run of items of one role.                           *)
LEMMA TurnStartIs ==
  ASSUME NEW s, NEW p \in Nat, p # 0
  PROVE  /\ TurnStart(s, p) \in 1 .. p
         /\ \A q \in TurnStart(s, p) .. p : ItemRole(s[q]) = ItemRole(s[p])
         /\ TurnStart(s, p) # 1 => ItemRole(s[TurnStart(s, p) - 1]) # ItemRole(s[p])
<1> DEFINE B == {b \in 1 .. p : \A q \in b .. p : ItemRole(s[q]) = ItemRole(s[p])}
           b == TurnStart(s, p)
<1>1. p \in B
  <2>1. p \in 1 .. p /\ \A q \in p .. p : q = p
    OBVIOUS
  <2> QED
    BY <2>1
<1>2. B \in SUBSET Nat
  OBVIOUS
<1>3. b = Min(B)
  BY DEF TurnStart
<1>4. \A x : x \in B <=> x \in 1 .. p /\ \A q \in x .. p : ItemRole(s[q]) = ItemRole(s[p])
  OBVIOUS
<1> HIDE DEF B
<1>5. b \in B /\ \A x \in B : b <= x
  BY <1>1, <1>2, <1>3, MinIs
<1> HIDE DEF b
<1>6. b \in 1 .. p /\ \A q \in b .. p : ItemRole(s[q]) = ItemRole(s[p])
  BY <1>4, <1>5
<1>7. ASSUME b # 1, ItemRole(s[b - 1]) = ItemRole(s[p]) PROVE FALSE
  <2>1. b - 1 \in 1 .. p /\ \A q \in b - 1 .. p : q = b - 1 \/ q \in b .. p
    BY <1>6, <1>7
  <2>2. b - 1 \in B
    BY <1>4, <1>6, <1>7, <2>1
  <2> QED
    BY <1>5, <1>6, <2>2
<1> QED
  BY <1>6, <1>7 DEF b

(* The states the loop goes through.                                       *)
ConvertOf(s, f, n) ==
  f = [p \in 0 .. n |->
         IF p = 0 THEN NothingConverted
         ELSE ConvertTurn(f[TurnStart(s, p) - 1], SubSeq(s, TurnStart(s, p), p))]

(* They are defined: by induction.                                         *)
LEMMA ConvertExists ==
  ASSUME NEW s
  PROVE  \A n \in Nat : \E f : ConvertOf(s, f, n)
<1> DEFINE T == {n \in Nat : \E f : ConvertOf(s, f, n)}
<1>1. 0 \in T
  <2>1. ConvertOf(s, [k \in 0 .. 0 |-> NothingConverted], 0)
    BY DEF ConvertOf
  <2> QED
    BY <2>1
<1>2. ASSUME NEW n \in T PROVE n + 1 \in T
  <2>1. PICK f : ConvertOf(s, f, n)
    OBVIOUS
  <2> DEFINE C(h, k) == ConvertTurn(h[TurnStart(s, k) - 1], SubSeq(s, TurnStart(s, k), k))
             g == [k \in 0 .. n + 1 |-> IF k = n + 1 THEN C(f, k) ELSE f[k]]
  <2>2. ConvertOf(s, g, n + 1)
    <3>1. ASSUME NEW k \in 0 .. n + 1
          PROVE  g[k] = IF k = 0 THEN NothingConverted ELSE C(g, k)
      <4>1. CASE k = 0
        <5>1. g[k] = f[k] /\ k \in 0 .. n
          BY <4>1
        <5>2. f[k] = NothingConverted
          BY <2>1, <4>1, <5>1 DEF ConvertOf
        <5> QED
          BY <4>1, <5>1, <5>2
      <4>2. CASE k # 0
        <5>1. k \in Nat /\ TurnStart(s, k) \in 1 .. k
          BY <4>2, TurnStartIs
        <5>2. TurnStart(s, k) - 1 \in 0 .. n /\ TurnStart(s, k) - 1 \in 0 .. n + 1
          BY <5>1
        <5>3. g[TurnStart(s, k) - 1] = f[TurnStart(s, k) - 1]
          <6> HIDE DEF C
          <6> QED
            BY <5>2
        <5>4. C(g, k) = C(f, k)
          BY <5>3
        <5>5. g[k] = C(f, k)
          <6>1. CASE k = n + 1
            <7> HIDE DEF C
            <7> QED
              BY <6>1
          <6>2. CASE k # n + 1
            <7>1. k \in 0 .. n
              BY <6>2
            <7>2. g[k] = f[k]
              BY <6>2
            <7>3. f[k] = C(f, k)
              BY <2>1, <4>2, <7>1 DEF ConvertOf
            <7> QED
              BY <7>2, <7>3
          <6> QED
            BY <6>1, <6>2
        <5> QED
          BY <4>2, <5>4, <5>5
      <4> QED
        BY <4>1, <4>2
    <3> QED
      BY <3>1 DEF ConvertOf
  <2> QED
    BY <2>2
<1> HIDE DEF T
<1>3. T = Nat
  BY <1>1, <1>2, Induction DEF T
<1> QED
  BY <1>3 DEF T

(* Its steps.                                                              *)
LEMMA ConvertOfIs ==
  ASSUME NEW s, NEW n \in Nat, NEW f, ConvertOf(s, f, n)
  PROVE  /\ f[0] = NothingConverted
         /\ \A p \in 1 .. n :
              f[p] = ConvertTurn(f[TurnStart(s, p) - 1], SubSeq(s, TurnStart(s, p), p))
<1>1. ASSUME NEW p \in 0 .. n
      PROVE  f[p] = IF p = 0 THEN NothingConverted
                    ELSE ConvertTurn(f[TurnStart(s, p) - 1], SubSeq(s, TurnStart(s, p), p))
  BY DEF ConvertOf
<1>2. 0 \in 0 .. n /\ \A k \in 1 .. n : k \in 0 .. n /\ k # 0
  OBVIOUS
<1> QED
  BY <1>1, <1>2

(* The turns of the beginning of a sequence.                               *)
LEMMA SameTurns ==
  ASSUME NEW X, NEW s \in Seq(X), NEW n \in 0 .. Len(s), NEW p \in 1 .. n
  PROVE  /\ TurnStart(SubSeq(s, 1, n), p) = TurnStart(s, p)
         /\ SubSeq(SubSeq(s, 1, n), TurnStart(s, p), p) = SubSeq(s, TurnStart(s, p), p)
<1> DEFINE t == SubSeq(s, 1, n)
           b == TurnStart(s, p)
<1>1. t \in Seq(X) /\ Len(t) = n /\ \A q \in 1 .. n : t[q] = s[q]
  <2>1. n \in Nat /\ 1 \in Nat /\ 1 <= n + 1 /\ n <= Len(s) /\ n + 1 - 1 = n
    OBVIOUS
  <2>2. /\ t \in Seq(X) /\ Len(t) = n + 1 - 1
        /\ \A q \in 1 .. n + 1 - 1 : t[q] = s[q + 1 - 1]
    BY <2>1, SubSeqIs
  <2> HIDE DEF t
  <2> QED
    BY <2>1, <2>2
<1> HIDE DEF t
<1>2. {x \in 1 .. p : \A q \in x .. p : ItemRole(t[q]) = ItemRole(t[p])}
        = {x \in 1 .. p : \A q \in x .. p : ItemRole(s[q]) = ItemRole(s[p])}
  <2>1. \A x \in 1 .. p : \A q \in x .. p : q \in 1 .. n /\ p \in 1 .. n
    OBVIOUS
  <2> QED
    BY <1>1, <2>1
<1>3. TurnStart(t, p) = TurnStart(s, p)
  BY <1>2 DEF TurnStart
<1>4. b \in 1 .. p
  BY TurnStartIs
<1> HIDE DEF b
<1>5. SubSeq(t, b, p) = SubSeq(s, b, p)
  <2>1. b \in Nat /\ p \in Nat /\ 1 <= b /\ b <= p + 1 /\ p <= Len(t) /\ p <= Len(s)
    BY <1>1, <1>4
  <2> DEFINE u == SubSeq(t, b, p)
             v == SubSeq(s, b, p)
  <2>2. /\ u \in Seq(X) /\ Len(u) = p + 1 - b /\ \A q \in 1 .. p + 1 - b : u[q] = t[q + b - 1]
        /\ v \in Seq(X) /\ Len(v) = p + 1 - b /\ \A q \in 1 .. p + 1 - b : v[q] = s[q + b - 1]
    BY <1>1, <2>1, SubSeqIs
  <2> HIDE DEF u, v
  <2>3. \A q \in 1 .. p + 1 - b : u[q] = v[q]
    <3> SUFFICES ASSUME NEW q \in 1 .. p + 1 - b PROVE u[q] = v[q]
      OBVIOUS
    <3>1. q + b - 1 \in 1 .. n
      BY <2>1
    <3> QED
      BY <1>1, <2>2, <3>1
  <2>4. u = v
    BY <2>2, <2>3
  <2> QED
    BY <2>4 DEF u, v
<1> QED
  BY <1>3, <1>5 DEF t, b

(* What the loop has made of the first p items.                            *)
Converted(s, p) == ConvertTurns(SubSeq(s, 1, p))

(* The loop goes from the end of one turn to the end of the next.          *)
LEMMA ConvertSteps ==
  ASSUME NEW X, NEW s \in Seq(X)
  PROVE  /\ ConvertTurns(s) = Converted(s, Len(s))
         /\ Converted(s, 0) = NothingConverted
         /\ \A p \in 1 .. Len(s) :
              Converted(s, p) = ConvertTurn(Converted(s, TurnStart(s, p) - 1),
                                            SubSeq(s, TurnStart(s, p), p))
<1> DEFINE F(l) == CHOOSE g : ConvertOf(l, g, Len(l))
           h == F(s)
<1>1. ASSUME NEW l, Len(l) \in Nat
      PROVE  ConvertTurns(l) = F(l)[Len(l)] /\ ConvertOf(l, F(l), Len(l))
  <2>1. \E g : ConvertOf(l, g, Len(l))
    BY <1>1, ConvertExists
  <2>2. ConvertTurns(l) = F(l)[Len(l)]
    BY DEF ConvertTurns, ConvertOf
  <2> QED
    BY <2>1, <2>2
<1> HIDE DEF F
<1>2. Len(s) \in Nat /\ ConvertOf(s, h, Len(s))
  BY <1>1
<1> HIDE DEF h
<1>3. /\ h[0] = NothingConverted
      /\ \A p \in 1 .. Len(s) :
           h[p] = ConvertTurn(h[TurnStart(s, p) - 1], SubSeq(s, TurnStart(s, p), p))
  BY <1>2, ConvertOfIs
<1>4. ASSUME NEW n \in 0 .. Len(s) PROVE Converted(s, n) = h[n]
  <2> DEFINE t == SubSeq(s, 1, n)
             g == F(t)
             T == {k \in Nat : \A p \in 0 .. k : p <= n => g[p] = h[p]}
  <2>1. n \in Nat /\ Len(t) = n
    <3>1. n \in Nat /\ 1 \in Nat /\ 1 <= n + 1 /\ n <= Len(s) /\ n + 1 - 1 = n
      OBVIOUS
    <3>2. Len(t) = n + 1 - 1
      BY <3>1, SubSeqIs
    <3> QED
      BY <3>1, <3>2
  <2>2. Converted(s, n) = g[n] /\ ConvertOf(t, g, n)
    BY <1>1, <2>1 DEF Converted
  <2> HIDE DEF g
  <2>3. /\ g[0] = NothingConverted
        /\ \A p \in 1 .. n : g[p] = ConvertTurn(g[TurnStart(t, p) - 1], SubSeq(t, TurnStart(t, p), p))
    BY <2>1, <2>2, ConvertOfIs
  <2>4. \A p \in 1 .. n : g[p] = ConvertTurn(g[TurnStart(s, p) - 1], SubSeq(s, TurnStart(s, p), p))
    BY <2>3, SameTurns
  <2> HIDE DEF t
  <2>5. 0 \in T
    BY <1>3, <2>3
  <2>6. ASSUME NEW k \in T PROVE k + 1 \in T
    <3> SUFFICES ASSUME NEW p \in 0 .. k + 1, p <= n PROVE g[p] = h[p]
      OBVIOUS
    <3>1. CASE p \in 0 .. k
      BY <3>1
    <3>2. CASE p = k + 1
      <4>1. p \in 1 .. n /\ p \in 1 .. Len(s) /\ p \in Nat /\ p # 0
        BY <1>2, <2>1, <3>2
      <4>2. TurnStart(s, p) \in 1 .. p
        BY <4>1, TurnStartIs
      <4>3. TurnStart(s, p) - 1 \in 0 .. k /\ TurnStart(s, p) - 1 <= n
        BY <3>2, <4>1, <4>2
      <4>4. g[TurnStart(s, p) - 1] = h[TurnStart(s, p) - 1]
        BY <4>3
      <4> QED
        BY <1>3, <2>4, <4>1, <4>4
    <3> QED
      BY <3>1, <3>2
  <2> HIDE DEF T
  <2>7. T = Nat
    BY <2>5, <2>6, Induction DEF T
  <2>8. g[n] = h[n]
    BY <2>1, <2>7 DEF T
  <2> QED
    BY <2>2, <2>8
<1>5. ConvertTurns(s) = Converted(s, Len(s))
  <2>1. SubSeq(s, 1, Len(s)) = s
    OBVIOUS
  <2> QED
    BY <2>1 DEF Converted
<1>6. Converted(s, 0) = NothingConverted
  BY <1>2, <1>3, <1>4
<1>7. ASSUME NEW p \in 1 .. Len(s)
      PROVE  Converted(s, p) = ConvertTurn(Converted(s, TurnStart(s, p) - 1),
                                           SubSeq(s, TurnStart(s, p), p))
  <2>1. TurnStart(s, p) \in 1 .. p
    BY TurnStartIs
  <2>2. TurnStart(s, p) - 1 \in 0 .. Len(s) /\ p \in 0 .. Len(s)
    BY <1>2, <2>1
  <2>3. Converted(s, p) = h[p] /\ Converted(s, TurnStart(s, p) - 1) = h[TurnStart(s, p) - 1]
    BY <1>4, <2>2
  <2> QED
    BY <1>3, <2>3
<1> QED
  BY <1>5, <1>6, <1>7

-----------------------------------------------------------------------------
(* Histories whose calls are answered in the turn behind them.             *)

(* The items of a request.                                                 *)
Sendable == Item \cup {Instruction}

(* An item of the turn of the user.                                        *)
IsUser(x) == x.kind \notin {"answer", "call"}

(* The role is what tells the turns apart.                                 *)
LEMMA RoleIs ==
  ASSUME NEW x
  PROVE  /\ ItemRole(x) = IF IsUser(x) THEN "user" ELSE "assistant"
         /\ x.kind = "call" => ~IsUser(x)
         /\ x.kind = "result" => IsUser(x)
BY DEF ItemRole, IsUser

(* A result for the call at q stands at r, and what is between the two are *)
(* items of the assistant and then items of the user.                      *)
Settled(s, q, r) ==
  /\ q < r /\ s[r].kind = "result" /\ s[r].id = s[q].id
  /\ \A x, y \in q .. r : x < y /\ IsUser(s[x]) => IsUser(s[y])

(* Its result is among the first n items.                                  *)
SettledBy(s, q, n) == \E r \in 1 .. n : Settled(s, q, r)

(* The calls among the first n items are answered there, or the turn of    *)
(* the assistant they are in is the last one.                              *)
PromptTo(s, n) ==
  \A q \in 1 .. n : s[q].kind = "call" =>
    (\A x \in q .. n : ~IsUser(s[x])) \/ SettledBy(s, q, n)

(* All of them are answered there.                                         *)
FullTo(s, n) == \A q \in 1 .. n : s[q].kind = "call" => SettledBy(s, q, n)

(* Calls are made once, and results come after their calls.                *)
CallsOrdered(s) ==
  /\ \A p, q \in 1 .. Len(s) :
       s[p].kind = "call" /\ s[q].kind = "call" /\ s[p].id = s[q].id => p = q
  /\ \A p \in 1 .. Len(s) : s[p].kind = "result" =>
       \E q \in 1 .. Len(s) : q < p /\ s[q].kind = "call" /\ s[q].id = s[p].id

(* What is answered in time is so at the end of every turn.                *)
LEMMA PromptEarlier ==
  ASSUME NEW s, NEW p \in Nat, p # 0, PromptTo(s, p)
  PROVE  PromptTo(s, TurnStart(s, p) - 1)
<1> DEFINE b == TurnStart(s, p)
<1>1. /\ b \in 1 .. p
      /\ \A q \in b .. p : ItemRole(s[q]) = ItemRole(s[p])
      /\ b # 1 => ItemRole(s[b - 1]) # ItemRole(s[p])
  BY TurnStartIs
<1> HIDE DEF b
<1>2. /\ \A q \in b .. p : IsUser(s[q]) <=> IsUser(s[p])
      /\ b # 1 => (IsUser(s[b - 1]) <=> ~IsUser(s[p]))
  BY <1>1, RoleIs
<1> SUFFICES ASSUME NEW q \in 1 .. b - 1, s[q].kind = "call",
                    NEW u \in q .. b - 1, IsUser(s[u])
             PROVE  SettledBy(s, q, b - 1)
  BY <1>1 DEF PromptTo, b
<1>3. q \in 1 .. p /\ u \in q .. p /\ q \in Nat /\ u \in Nat /\ b \in Nat /\ b # 1
  BY <1>1
<1>4. PICK r \in 1 .. p : Settled(s, q, r)
  BY <1>3 DEF PromptTo, SettledBy
<1>5. IsUser(s[r]) /\ q < r /\ \A x, y \in q .. r : x < y /\ IsUser(s[x]) => IsUser(s[y])
  BY <1>4, RoleIs DEF Settled
<1>6. ASSUME r >= b PROVE FALSE
  <2>1. r \in b .. p /\ b - 1 \in q .. r /\ u \in q .. r /\ u <= b - 1
    BY <1>1, <1>3, <1>6
  <2>2. IsUser(s[p]) /\ ~IsUser(s[b - 1])
    BY <1>2, <1>3, <1>5, <2>1
  <2>3. u # b - 1
    BY <2>2
  <2>4. u < b - 1
    BY <1>3, <2>1, <2>3
  <2> QED
    BY <1>5, <2>1, <2>2, <2>4
<1>7. r \in 1 .. b - 1
  BY <1>1, <1>6
<1> QED
  BY <1>4, <1>7 DEF SettledBy

-----------------------------------------------------------------------------
(* The messages of a conversion.                                           *)

(* The blocks and messages of a conversion, and a block as it is sent.     *)
Blocks == [type : {"text", "tool_use", "tool_result"}, item : Sendable]
Message == [role : {"user", "assistant"}, blocks : Seq(Blocks)]
Sending == [role : {"user", "assistant"}, block : Blocks]

(* The blocks of a type in a message, and the calls they are about.        *)
Of(m, type) == {k \in DOMAIN m.blocks : m.blocks[k].type = type}
IdsOf(m, type) == {m.blocks[k].item.id : k \in Of(m, type)}

(* The members of a sequence.                                              *)
Elements(s) == {s[i] : i \in 1 .. Len(s)}

(* A message answers the one before it.                                    *)
Matched(m, n) ==
  /\ IdsOf(m, "tool_use") = IdsOf(n, "tool_result")
  /\ Of(n, "tool_result") = 1 .. Cardinality(Of(m, "tool_use"))

(* The messages ms for the first p items of s, when pending calls are not  *)
(* answered.                                                               *)
SentOK(s, p, pending, ms) ==
  /\ ms \in Seq(Message)
  /\ p = 0 => ms = <<>>
  /\ p # 0 => ms # <<>> /\ ms[Len(ms)].role = ItemRole(s[p])
  /\ \A m \in 1 .. Len(ms) : m > 1 => ms[m].role # ms[m - 1].role
  /\ \A m \in 1 .. Len(ms) : m + 1 <= Len(ms) => Matched(ms[m], ms[m + 1])
  /\ ms # <<>> => Of(ms[1], "tool_result") = {}
  /\ ms # <<>> => /\ IdsOf(ms[Len(ms)], "tool_use") = Elements(pending)
                  /\ Cardinality(Of(ms[Len(ms)], "tool_use")) = Len(pending)
  /\ Wire(ms) \in Seq(Sending)
  /\ Len(Wire(ms)) = p
  /\ {Wire(ms)[k].block.item : k \in 1 .. p} = {s[q] : q \in 1 .. p}

(* The message x of the items from a + 1 to p answers the calls of pending *)
(* and makes those of opened.                                              *)
TurnOK(s, a, p, pending, opened, x) ==
  /\ x \in Message
  /\ x.role = ItemRole(s[p])
  /\ a # 0 => ItemRole(s[a]) # ItemRole(s[p])
  /\ Of(x, "tool_result") = 1 .. Len(pending)
  /\ IdsOf(x, "tool_result") = Elements(pending)
  /\ IdsOf(x, "tool_use") = Elements(opened)
  /\ Cardinality(Of(x, "tool_use")) = Len(opened)
  /\ Len(x.blocks) = p - a
  /\ {x.blocks[k].item : k \in 1 .. p - a} = {s[q] : q \in a + 1 .. p}

(* What SentIn makes of a message.                                         *)
LEMMA SentInIs ==
  ASSUME NEW x \in Message
  PROVE  /\ SentIn(x) \in Seq(Sending) /\ Len(SentIn(x)) = Len(x.blocks) /\ Len(x.blocks) \in Nat
         /\ \A k \in 1 .. Len(x.blocks) : SentIn(x)[k] = [role |-> x.role, block |-> x.blocks[k]]
<1>1. /\ x.blocks \in Seq(Blocks) /\ x.role \in {"user", "assistant"}
      /\ DOMAIN x.blocks = 1 .. Len(x.blocks) /\ Len(x.blocks) \in Nat
  BY DEF Message
<1> DEFINE f == SentIn(x)
<1>2. f = [k \in 1 .. Len(x.blocks) |-> [role |-> x.role, block |-> x.blocks[k]]]
  BY <1>1 DEF SentIn
<1>3. \A k \in 1 .. Len(x.blocks) : x.blocks[k] \in Blocks
  BY <1>1
<1>4. \A k \in 1 .. Len(x.blocks) : [role |-> x.role, block |-> x.blocks[k]] \in Sending
  BY <1>1, <1>3 DEF Sending
<1>5. f \in [1 .. Len(x.blocks) -> Sending]
  BY <1>2, <1>4
<1>6. f \in Seq(Sending) /\ Len(f) = Len(x.blocks)
  <2> HIDE DEF f
  <2> QED
    BY <1>1, <1>5
<1> QED
  BY <1>1, <1>2, <1>6

(* One more message.                                                       *)
LEMMA SentFurther ==
  ASSUME NEW s, NEW a \in Nat, NEW p \in Nat, a < p, NEW pending, NEW opened, NEW x, NEW ms,
         a = 0 => pending = <<>>,
         SentOK(s, a, pending, ms), TurnOK(s, a, p, pending, opened, x)
  PROVE  SentOK(s, p, opened, Append(ms, x)) /\ Wire(Append(ms, x)) = Wire(ms) \o SentIn(x)
<1> DEFINE ns == Append(ms, x)
           n == Len(ms)
<1>1. ms \in Seq(Message) /\ x \in Message
  BY DEF SentOK, TurnOK
<1>2. /\ ns \in Seq(Message) /\ n \in Nat /\ Len(ns) = n + 1 /\ ns[n + 1] = x
      /\ \A m \in 1 .. n : ns[m] = ms[m]
  BY <1>1, AppendIs
<1>3. Wire(ns) = Wire(ms) \o SentIn(x)
  BY <1>1, WireSteps
<1>4. (a = 0 <=> ms = <<>>) /\ (ms = <<>> <=> n = 0)
  BY <1>1 DEF SentOK
<1> HIDE DEF ns, n
<1>5. ns # <<>>
  BY <1>2
<1>6. x.role = ItemRole(s[p]) /\ ns[Len(ns)] = x
  BY <1>2 DEF TurnOK
<1>7. \A m \in 1 .. n + 1 : m \in 1 .. n \/ m = n + 1
  BY <1>2
<1>8. ASSUME NEW m \in 1 .. n + 1, m > 1 PROVE ns[m].role # ns[m - 1].role
  <2>1. CASE m \in 1 .. n
    <3>1. m - 1 \in 1 .. n
      BY <1>2, <1>8, <2>1
    <3> QED
      BY <1>2, <1>8, <2>1, <3>1 DEF SentOK, n
  <2>2. CASE m = n + 1
    <3>1. n \in 1 .. n /\ n # 0 /\ m - 1 = n
      BY <1>2, <1>8, <2>2
    <3>2. ms[n].role = ItemRole(s[a]) /\ a # 0
      BY <1>4, <3>1 DEF SentOK, n
    <3>3. x.role # ms[n].role
      BY <3>2 DEF TurnOK
    <3> QED
      BY <1>2, <2>2, <3>1, <3>3
  <2> QED
    BY <1>7, <2>1, <2>2
<1>9. ASSUME NEW m \in 1 .. n + 1, m + 1 <= n + 1 PROVE Matched(ns[m], ns[m + 1])
  <2>1. m \in 1 .. n
    BY <1>2, <1>9
  <2>2. CASE m + 1 <= n
    <3>1. Matched(ms[m], ms[m + 1]) /\ m + 1 \in 1 .. n
      BY <1>2, <2>1, <2>2 DEF SentOK, n
    <3> QED
      BY <1>2, <2>1, <3>1
  <2>3. CASE m = n
    <3>1. ms # <<>>
      BY <1>2, <1>4, <2>1
    <3>2. /\ IdsOf(ms[n], "tool_use") = Elements(pending)
          /\ Cardinality(Of(ms[n], "tool_use")) = Len(pending)
      BY <3>1 DEF SentOK, n
    <3>3. Matched(ms[n], x)
      BY <3>2 DEF Matched, TurnOK
    <3> QED
      BY <1>2, <2>1, <2>3, <3>3
  <2> QED
    BY <1>2, <2>1, <2>2, <2>3
<1>10. Of(ns[1], "tool_result") = {}
  <2>1. CASE n = 0
    <3>1. pending = <<>> /\ ns[1] = x
      BY <1>2, <1>4, <2>1
    <3>2. Len(pending) = 0 /\ 1 .. 0 = {}
      BY <3>1
    <3> QED
      BY <3>1, <3>2 DEF TurnOK
  <2>2. CASE n # 0
    <3>1. ns[1] = ms[1] /\ ms # <<>>
      BY <1>2, <1>4, <2>2
    <3> QED
      BY <3>1 DEF SentOK
  <2> QED
    BY <2>1, <2>2
<1>11. /\ IdsOf(x, "tool_use") = Elements(opened)
       /\ Cardinality(Of(x, "tool_use")) = Len(opened)
  BY DEF TurnOK
<1> DEFINE u == Wire(ms)
           v == SentIn(x)
           w == Wire(ns)
<1>12. /\ u \in Seq(Sending) /\ Len(u) = a /\ v \in Seq(Sending) /\ Len(v) = p - a
       /\ \A k \in 1 .. p - a : v[k] = [role |-> x.role, block |-> x.blocks[k]]
  BY <1>1, SentInIs DEF SentOK, TurnOK
<1>13. w = u \o v
  BY <1>3
<1> HIDE DEF u, v, w
<1>14. /\ w \in Seq(Sending) /\ Len(w) = p
       /\ \A k \in 1 .. a : w[k] = u[k]
       /\ \A k \in 1 .. p - a : w[a + k] = v[k]
  <2>1. /\ w \in Seq(Sending) /\ Len(w) = Len(u) + Len(v)
        /\ \A k \in 1 .. Len(u) : w[k] = u[k]
        /\ \A k \in 1 .. Len(v) : w[Len(u) + k] = v[k]
    <3>1. u \in Seq(Sending) /\ v \in Seq(Sending)
      BY <1>12
    <3> QED
      BY <1>13, <3>1, ConcatIs
  <2>2. Len(u) = a /\ Len(v) = p - a
    BY <1>12
  <2>3. a + (p - a) = p
    OBVIOUS
  <2> QED
    BY <2>1, <2>2, <2>3
<1>15. {w[k].block.item : k \in 1 .. p} = {s[q] : q \in 1 .. p}
  <2>1. {u[k].block.item : k \in 1 .. a} = {s[q] : q \in 1 .. a}
    BY DEF SentOK, u
  <2>2. {x.blocks[k].item : k \in 1 .. p - a} = {s[q] : q \in a + 1 .. p}
    BY DEF TurnOK
  <2>3. ASSUME NEW k \in 1 .. p - a PROVE w[a + k].block.item = x.blocks[k].item
    <3>1. w[a + k] = [role |-> x.role, block |-> x.blocks[k]]
      BY <1>12, <1>14
    <3> QED
      BY <3>1
  <2>4. ASSUME NEW k \in 1 .. p PROVE w[k].block.item \in {s[q] : q \in 1 .. p}
    <3>1. CASE k \in 1 .. a
      <4>1. w[k].block.item \in {s[q] : q \in 1 .. a}
        BY <1>14, <2>1, <3>1
      <4> QED
        BY <4>1
    <3>2. CASE ~(k \in 1 .. a)
      <4>1. k - a \in 1 .. p - a /\ a + (k - a) = k
        BY <3>2
      <4>2. w[k].block.item \in {s[q] : q \in a + 1 .. p}
        BY <2>2, <2>3, <4>1
      <4> QED
        BY <4>2
    <3> QED
      BY <3>1, <3>2
  <2>5. ASSUME NEW q \in 1 .. p PROVE s[q] \in {w[k].block.item : k \in 1 .. p}
    <3>1. CASE q \in 1 .. a
      <4>1. PICK k \in 1 .. a : s[q] = u[k].block.item
        BY <2>1, <3>1
      <4>2. k \in 1 .. p /\ s[q] = w[k].block.item
        BY <1>14, <4>1
      <4> QED
        BY <4>2
    <3>2. CASE ~(q \in 1 .. a)
      <4>1. q \in a + 1 .. p
        BY <3>2
      <4>2. PICK k \in 1 .. p - a : s[q] = x.blocks[k].item
        BY <2>2, <4>1
      <4>3. a + k \in 1 .. p /\ s[q] = w[a + k].block.item
        BY <2>3, <4>2
      <4> QED
        BY <4>3
    <3> QED
      BY <3>1, <3>2
  <2> QED
    BY <2>4, <2>5
<1>16. SentOK(s, p, opened, ns)
  <2>1. Len(ns) = n + 1 /\ p # 0 /\ ns \in Seq(Message)
    BY <1>2
  <2>2. ns[Len(ns)].role = ItemRole(s[p])
    BY <1>6
  <2>3. /\ \A m \in 1 .. Len(ns) : m > 1 => ns[m].role # ns[m - 1].role
        /\ \A m \in 1 .. Len(ns) : m + 1 <= Len(ns) => Matched(ns[m], ns[m + 1])
    BY <1>8, <1>9, <2>1
  <2>4. /\ IdsOf(ns[Len(ns)], "tool_use") = Elements(opened)
        /\ Cardinality(Of(ns[Len(ns)], "tool_use")) = Len(opened)
    BY <1>6, <1>11
  <2>5. /\ Wire(ns) \in Seq(Sending) /\ Len(Wire(ns)) = p
        /\ {Wire(ns)[k].block.item : k \in 1 .. p} = {s[q] : q \in 1 .. p}
    BY <1>14, <1>15 DEF w
  <2> QED
    BY <1>5, <1>10, <2>1, <2>2, <2>3, <2>4, <2>5, Zenon DEF SentOK
<1> QED
  BY <1>3, <1>16 DEF ns

-----------------------------------------------------------------------------
(* What a turn makes of the state of the conversion.                       *)

(* The calls that the calls, or the results, of the first p items name.    *)
IdsTo(s, p, kind) == {s[q].id : q \in {x \in 1 .. p : s[x].kind = kind}}

(* The state st after the first p items: all calls are known and all that  *)
(* have a result are answered, and the others are pending, in this turn.   *)
ConvertedOK(s, p, st) ==
  /\ st = [ok |-> TRUE, calls |-> IdsTo(s, p, "call"), answered |-> IdsTo(s, p, "result"),
           pending |-> st.pending, messages |-> st.messages]
  /\ st.pending \in Seq(IdsTo(s, p, "call"))
  /\ \A i, j \in 1 .. Len(st.pending) : st.pending[i] = st.pending[j] => i = j
  /\ Elements(st.pending) = IdsTo(s, p, "call") \ IdsTo(s, p, "result")
  /\ p = 0 \/ IsUser(s[p]) => st.pending = <<>>
  /\ SentOK(s, p, st.pending, st.messages)

(* The items from a + 1 to p of s are the turn t.                          *)
TurnIs(s, a, p, t) ==
  /\ a \in Nat /\ p \in Nat /\ a < p /\ s \in Seq(Sendable) /\ p <= Len(s)
  /\ t \in Seq(Sendable) /\ Len(t) = p - a
  /\ \A i \in 1 .. p - a : t[i] = s[a + i]
  /\ \A i \in 1 .. p - a : IsUser(t[i]) <=> IsUser(s[p])
  /\ a # 0 => (IsUser(s[a]) <=> ~IsUser(s[p]))

(* The turn that ends at p.                                                *)
LEMMA TurnIsThere ==
  ASSUME NEW s \in Seq(Sendable), NEW p \in 1 .. Len(s)
  PROVE  TurnIs(s, TurnStart(s, p) - 1, p, SubSeq(s, TurnStart(s, p), p))
<1> DEFINE b == TurnStart(s, p)
           a == b - 1
           t == SubSeq(s, b, p)
<1>1. /\ b \in 1 .. p
      /\ \A q \in b .. p : ItemRole(s[q]) = ItemRole(s[p])
      /\ b # 1 => ItemRole(s[b - 1]) # ItemRole(s[p])
  BY TurnStartIs
<1> HIDE DEF b
<1>2. b \in Nat /\ p \in Nat /\ 1 <= b /\ b <= p + 1 /\ p <= Len(s) /\ p + 1 - b = p - a
  BY <1>1
<1>3. t \in Seq(Sendable) /\ Len(t) = p + 1 - b /\ \A i \in 1 .. p + 1 - b : t[i] = s[i + b - 1]
  BY <1>2, SubSeqIs
<1> HIDE DEF t
<1>4. ASSUME NEW i \in 1 .. p - a PROVE t[i] = s[a + i] /\ (IsUser(t[i]) <=> IsUser(s[p]))
  <2>1. i + b - 1 = a + i /\ a + i \in b .. p
    BY <1>2
  <2>2. t[i] = s[a + i]
    BY <1>2, <1>3, <2>1
  <2> QED
    BY <1>1, <2>1, <2>2, RoleIs
<1>5. a # 0 => (IsUser(s[a]) <=> ~IsUser(s[p]))
  BY <1>1, <1>2, RoleIs
<1>6. a \in Nat /\ a < p
  BY <1>1
<1> QED
  BY <1>2, <1>3, <1>4, <1>5, <1>6 DEF TurnIs, a, t, b

(* The calls that the calls, or the results, of a turn name.               *)
At(t, kind) == {i \in 1 .. Len(t) : t[i].kind = kind}
NamedIn(t, kind) == {t[i].id : i \in At(t, kind)}

(* What a turn adds to the calls or results that were named.               *)
LEMMA IdsFurther ==
  ASSUME NEW s, NEW a, NEW p, NEW t, NEW kind, TurnIs(s, a, p, t)
  PROVE  IdsTo(s, p, kind) = IdsTo(s, a, kind) \cup NamedIn(t, kind)
<1>1. /\ a \in Nat /\ p \in Nat /\ a < p /\ Len(t) = p - a
      /\ \A i \in 1 .. p - a : t[i] = s[a + i]
  BY DEF TurnIs
<1>2. ASSUME NEW c \in IdsTo(s, p, kind)
      PROVE  \/ c \in IdsTo(s, a, kind)
             \/ \E i \in 1 .. Len(t) : t[i].kind = kind /\ t[i].id = c
  <2>1. PICK q \in 1 .. p : s[q].kind = kind /\ s[q].id = c
    BY DEF IdsTo
  <2>2. CASE q \in 1 .. a
    BY <2>1, <2>2 DEF IdsTo
  <2>3. CASE ~(q \in 1 .. a)
    <3>1. q - a \in 1 .. Len(t) /\ t[q - a] = s[q]
      BY <1>1, <2>3
    <3> QED
      BY <2>1, <3>1
  <2> QED
    BY <2>2, <2>3
<1>3. ASSUME NEW c \in IdsTo(s, a, kind) PROVE c \in IdsTo(s, p, kind)
  <2>1. PICK q \in 1 .. a : s[q].kind = kind /\ s[q].id = c
    BY DEF IdsTo
  <2>2. q \in 1 .. p
    BY <1>1
  <2> QED
    BY <2>1, <2>2 DEF IdsTo
<1>4. ASSUME NEW i \in 1 .. Len(t), t[i].kind = kind PROVE t[i].id \in IdsTo(s, p, kind)
  <2>1. a + i \in 1 .. p /\ t[i] = s[a + i]
    BY <1>1
  <2> QED
    BY <1>4, <2>1 DEF IdsTo
<1> QED
  BY <1>2, <1>3, <1>4 DEF NamedIn, At

(* The turn of the assistant.                                              *)
AssistantMessage(t) ==
  [role |-> "assistant",
   blocks |-> [k \in DOMAIN t |-> Block(IF t[k].kind = "call" THEN "tool_use" ELSE "text", t[k])]]

(* The calls a turn of the assistant makes, in their order.                *)
Made(t) == [k \in DOMAIN CallsAt(t) |-> t[CallsAt(t)[k]].id]

(* They are the calls it names, each once.                                 *)
LEMMA MadeIs ==
  ASSUME NEW s, NEW a, NEW p, NEW t, TurnIs(s, a, p, t), CallsOrdered(s)
  PROVE  /\ Made(t) \in Seq(IdsTo(s, p, "call"))
         /\ Len(Made(t)) = Cardinality(At(t, "call"))
         /\ \A i, j \in 1 .. Len(Made(t)) : Made(t)[i] = Made(t)[j] => i = j
         /\ Elements(Made(t)) = NamedIn(t, "call")
<1> DEFINE C == At(t, "call")
           o == CallsAt(t)
           M == Made(t)
<1>1. /\ a \in Nat /\ p \in Nat /\ a < p /\ t \in Seq(Sendable) /\ Len(t) = p - a /\ p <= Len(s)
      /\ DOMAIN t = 1 .. Len(t) /\ Len(t) \in Nat
      /\ \A i \in 1 .. p - a : t[i] = s[a + i]
      /\ s \in Seq(Sendable) /\ Len(s) \in Nat
  BY DEF TurnIs
<1>2. o = InOrder(C, Len(t))
  <2>1. {k \in DOMAIN t : t[k].kind = "call"} = C
    BY <1>1 DEF At
  <2> QED
    BY <2>1, Zenon DEF CallsAt
<1>3. C \in SUBSET (1 .. Len(t)) /\ Len(t) \in Nat
  BY <1>1 DEF At
<1>4. \A k : k \in C <=> k \in 1 .. Len(t) /\ t[k].kind = "call"
  BY DEF At
<1> HIDE DEF C, o
<1>5. /\ o \in Seq(C) /\ Len(o) = Cardinality(C)
      /\ \A i, j \in 1 .. Len(o) : o[i] = o[j] => i = j
      /\ \A x \in C : \E i \in 1 .. Len(o) : o[i] = x
  BY <1>2, <1>3, InOrderCount
<1>6. DOMAIN o = 1 .. Len(o) /\ Len(o) \in Nat /\ \A i \in 1 .. Len(o) : o[i] \in C
  BY <1>5
<1>7. M = [k \in 1 .. Len(o) |-> t[o[k]].id]
  BY <1>6 DEF Made, o
<1>8. \A k \in 1 .. Len(o) : M[k] = t[o[k]].id
  BY <1>7
<1> HIDE DEF M
<1>9. \A k \in C : t[k].id \in IdsTo(s, p, "call")
  <2>1. IdsTo(s, p, "call") = IdsTo(s, a, "call") \cup NamedIn(t, "call")
    BY IdsFurther
  <2> QED
    BY <2>1 DEF NamedIn, C
<1>10. M \in Seq(IdsTo(s, p, "call")) /\ Len(M) = Len(o)
  <2>1. M \in [1 .. Len(o) -> IdsTo(s, p, "call")]
    BY <1>6, <1>7, <1>9
  <2> QED
    BY <1>6, <2>1
<1>11. ASSUME NEW i \in 1 .. Len(o), NEW j \in 1 .. Len(o), M[i] = M[j] PROVE i = j
  <2>1. /\ o[i] \in 1 .. Len(t) /\ o[j] \in 1 .. Len(t) /\ t[o[i]].id = t[o[j]].id
        /\ t[o[i]].kind = "call" /\ t[o[j]].kind = "call"
    BY <1>4, <1>6, <1>8, <1>11
  <2> DEFINE k == o[i]
             l == o[j]
  <2>2. k \in 1 .. Len(t) /\ l \in 1 .. Len(t)
    BY <2>1
  <2> HIDE DEF k, l
  <2>3. a + k \in 1 .. Len(s) /\ a + l \in 1 .. Len(s) /\ t[k] = s[a + k] /\ t[l] = s[a + l]
    BY <1>1, <2>2
  <2>4. a + k = a + l
    BY <2>1, <2>3 DEF CallsOrdered, k, l
  <2>5. o[i] = o[j]
    BY <1>1, <2>2, <2>4 DEF k, l
  <2> QED
    BY <1>5, <2>5
<1>12. Elements(M) = {t[k].id : k \in C}
  <2>1. Elements(M) = {M[i] : i \in 1 .. Len(o)}
    BY <1>10 DEF Elements
  <2> QED
    BY <1>5, <1>6, <1>8, <2>1
<1> QED
  BY <1>5, <1>10, <1>11, <1>12 DEF C, M, NamedIn

(* A turn of the assistant is converted.                                   *)
LEMMA AssistantStep ==
  ASSUME NEW s, NEW a, NEW p, NEW t, NEW st, TurnIs(s, a, p, t), CallsOrdered(s),
         ~IsUser(s[p]), ConvertedOK(s, a, st)
  PROVE  /\ ConvertedOK(s, p, AssistantTurn(st, t))
         /\ AssistantTurn(st, t).messages = Append(st.messages, AssistantMessage(t))
         /\ TurnOK(s, a, p, st.pending, AssistantTurn(st, t).pending, AssistantMessage(t))
<1> DEFINE C == At(t, "call")
           M == Made(t)
           x == AssistantMessage(t)
           next == AssistantTurn(st, t)
<1>1. /\ a \in Nat /\ p \in Nat /\ a < p /\ t \in Seq(Sendable) /\ Len(t) = p - a /\ p <= Len(s)
      /\ DOMAIN t = 1 .. Len(t) /\ Len(t) \in Nat
      /\ \A i \in 1 .. p - a : t[i] = s[a + i]
      /\ s \in Seq(Sendable) /\ Len(s) \in Nat
      /\ \A i \in 1 .. p - a : ~IsUser(t[i])
      /\ a # 0 => IsUser(s[a])
  BY DEF TurnIs
<1>2. /\ M \in Seq(IdsTo(s, p, "call")) /\ Len(M) = Cardinality(C)
      /\ \A i, j \in 1 .. Len(M) : M[i] = M[j] => i = j
      /\ Elements(M) = NamedIn(t, "call")
  BY MadeIs
<1>3. /\ st.ok = TRUE /\ st.calls = IdsTo(s, a, "call") /\ st.answered = IdsTo(s, a, "result")
      /\ st.pending = <<>> /\ SentOK(s, a, <<>>, st.messages)
      /\ st = [ok |-> TRUE, calls |-> IdsTo(s, a, "call"), answered |-> IdsTo(s, a, "result"),
               pending |-> <<>>, messages |-> st.messages]
      /\ IdsTo(s, a, "call") \ IdsTo(s, a, "result") = {}
  <2>1. st.pending = <<>>
    BY <1>1 DEF ConvertedOK
  <2>2. Elements(<<>>) = {}
    BY DEF Elements
  <2>3. st = [ok |-> TRUE, calls |-> IdsTo(s, a, "call"), answered |-> IdsTo(s, a, "result"),
              pending |-> <<>>, messages |-> st.messages]
    BY <2>1 DEF ConvertedOK
  <2>4. /\ st.ok = TRUE /\ st.calls = IdsTo(s, a, "call") /\ st.answered = IdsTo(s, a, "result")
    BY <2>3
  <2>5. SentOK(s, a, <<>>, st.messages) /\ IdsTo(s, a, "call") \ IdsTo(s, a, "result") = {}
    BY <2>1, <2>2 DEF ConvertedOK
  <2> QED
    BY <2>1, <2>3, <2>4, <2>5
<1>4. NamedIn(t, "call") = {t[k].id : k \in C}
  BY DEF NamedIn
<1>5. \A k : k \in C <=> k \in 1 .. Len(t) /\ t[k].kind = "call"
  BY DEF At
<1>6. DOMAIN M = 1 .. Len(M) /\ Len(M) \in Nat
  BY <1>2
<1>7. IsInjective(M) /\ ToSet(M) = Elements(M)
  <2> HIDE DEF M
  <2> QED
    BY <1>2, <1>6 DEF IsInjective, ToSet, Elements
<1>8. ToSet(M) \cap IdsTo(s, a, "call") = {}
  <2> SUFFICES ASSUME NEW k \in C, t[k].id \in IdsTo(s, a, "call") PROVE FALSE
    BY <1>2, <1>4, <1>7
  <2>1. PICK q \in 1 .. a : s[q].kind = "call" /\ s[q].id = t[k].id
    BY DEF IdsTo
  <2>2. k \in 1 .. p - a /\ a + k \in 1 .. Len(s) /\ q \in 1 .. Len(s) /\ s[a + k] = t[k] /\ a + k # q
    BY <1>1, <1>5
  <2> QED
    BY <1>5, <2>1, <2>2 DEF CallsOrdered
<1>9. IdsTo(s, p, "call") = IdsTo(s, a, "call") \cup ToSet(M)
  BY <1>2, <1>7, IdsFurther
<1>10. IdsTo(s, p, "result") = IdsTo(s, a, "result")
  <2>1. \A i \in 1 .. Len(t) : t[i].kind # "result"
    BY <1>1, RoleIs
  <2>2. NamedIn(t, "result") = {}
    BY <2>1 DEF NamedIn, At
  <2>3. IdsTo(s, p, "result") = IdsTo(s, a, "result") \cup NamedIn(t, "result")
    BY IdsFurther
  <2> QED
    BY <2>2, <2>3
<1>11. IdsTo(s, p, "call") \ IdsTo(s, p, "result") = Elements(M)
  <2> SUFFICES ASSUME NEW c \in Elements(M), c \in IdsTo(s, a, "result") PROVE FALSE
    BY <1>3, <1>7, <1>9, <1>10
  <2>1. PICK r \in 1 .. a : s[r].kind = "result" /\ s[r].id = c
    BY DEF IdsTo
  <2>2. r \in 1 .. Len(s)
    BY <1>1
  <2>3. PICK q \in 1 .. Len(s) : q < r /\ s[q].kind = "call" /\ s[q].id = s[r].id
    BY <2>1, <2>2 DEF CallsOrdered
  <2>4. c \in IdsTo(s, a, "call")
    BY <1>1, <2>1, <2>3 DEF IdsTo
  <2> QED
    BY <1>7, <1>8, <2>4
<1>12. <<>> \o M = M
  <2>1. M \in Seq(IdsTo(s, p, "call"))
    BY <1>2
  <2> HIDE DEF M
  <2> QED
    BY <2>1
<1>13. next = [ok |-> TRUE, calls |-> IdsTo(s, p, "call"), answered |-> IdsTo(s, p, "result"),
               pending |-> M, messages |-> Append(st.messages, x)]
  <2> DEFINE A == IdsTo(s, a, "call")
             R == IdsTo(s, a, "result")
             ms == st.messages
  <2>1. next = [st EXCEPT
                  !.ok = @ /\ IsInjective(M) /\ ToSet(M) \cap st.calls = {},
                  !.calls = @ \cup ToSet(M),
                  !.pending = @ \o M,
                  !.messages = Append(@, x)]
    BY DEF AssistantTurn, Made, AssistantMessage
  <2>2. st = [ok |-> TRUE, calls |-> A, answered |-> R, pending |-> <<>>, messages |-> ms]
    BY <1>3
  <2>3. IsInjective(M) /\ ToSet(M) \cap A = {} /\ st.calls = A
    BY <1>3, <1>7, <1>8
  <2> HIDE DEF M, x, next, A, R, ms
  <2>4. next = [ok |-> TRUE, calls |-> A \cup ToSet(M), answered |-> R,
                pending |-> <<>> \o M, messages |-> Append(ms, x)]
    BY <2>1, <2>2, <2>3
  <2> QED
    BY <1>9, <1>10, <1>12, <2>4 DEF A, R, ms
<1>14. /\ x.role = "assistant" /\ x.blocks \in Seq(Blocks) /\ Len(x.blocks) = Len(t)
       /\ \A k \in 1 .. Len(t) :
            /\ x.blocks[k].type = (IF k \in C THEN "tool_use" ELSE "text")
            /\ x.blocks[k].item = t[k]
  <2> DEFINE f == [k \in 1 .. Len(t) |->
                     Block(IF t[k].kind = "call" THEN "tool_use" ELSE "text", t[k])]
  <2>1. x.role = "assistant" /\ x.blocks = f
    BY <1>1 DEF AssistantMessage
  <2>2. ASSUME NEW k \in 1 .. Len(t)
        PROVE  f[k] \in Blocks /\ f[k].item = t[k] /\ f[k].type = (IF k \in C THEN "tool_use" ELSE "text")
    <3>1. t[k] \in Sendable
      BY <1>1
    <3>2. f[k] = [type |-> IF k \in C THEN "tool_use" ELSE "text", item |-> t[k]]
      BY <1>5 DEF Block
    <3> HIDE DEF f, C
    <3> QED
      BY <3>1, <3>2 DEF Blocks
  <2>3. f \in [1 .. Len(t) -> Blocks]
    BY <2>2
  <2> HIDE DEF f
  <2>4. f \in Seq(Blocks) /\ Len(f) = Len(t)
    <3>1. Len(t) \in Nat
      BY <1>1
    <3> QED
      BY <2>3, <3>1
  <2> QED
    BY <2>1, <2>2, <2>4
<1>15. x \in Message
  <2>1. x = [role |-> x.role, blocks |-> x.blocks]
    BY DEF AssistantMessage
  <2> HIDE DEF x
  <2> QED
    BY <1>14, <2>1 DEF Message
<1> HIDE DEF x, C, M, next
<1>16. DOMAIN x.blocks = 1 .. Len(t)
  BY <1>14
<1>17. Of(x, "tool_use") = C /\ Of(x, "tool_result") = {}
  <2>1. \A k \in 1 .. Len(t) : x.blocks[k].type = (IF k \in C THEN "tool_use" ELSE "text")
    BY <1>14
  <2>2. \A k \in C : k \in 1 .. Len(t)
    BY <1>5
  <2> QED
    BY <1>16, <2>1, <2>2 DEF Of
<1>18. IdsOf(x, "tool_use") = Elements(M) /\ IdsOf(x, "tool_result") = {}
  <2>1. \A k \in C : x.blocks[k].item = t[k]
    BY <1>5, <1>14
  <2>2. IdsOf(x, "tool_use") = {t[k].id : k \in C}
    BY <1>17, <2>1 DEF IdsOf
  <2> QED
    BY <1>2, <1>4, <1>17, <2>2 DEF IdsOf
<1>19. TurnOK(s, a, p, <<>>, M, x)
  <2>1. ItemRole(s[p]) = "assistant" /\ (a # 0 => ItemRole(s[a]) = "user")
    BY <1>1, RoleIs
  <2>2. Len(<<>>) = 0 /\ 1 .. 0 = {} /\ Elements(<<>>) = {}
    BY DEF Elements
  <2>3. {x.blocks[k].item : k \in 1 .. p - a} = {s[q] : q \in a + 1 .. p}
    <3>1. \A k \in 1 .. p - a : x.blocks[k].item = s[a + k] /\ a + k \in a + 1 .. p
      BY <1>1, <1>14
    <3>2. \A q \in a + 1 .. p : q - a \in 1 .. p - a /\ a + (q - a) = q
      BY <1>1
    <3>3. \A q \in a + 1 .. p : s[q] = x.blocks[q - a].item
      BY <3>1, <3>2
    <3> QED
      BY <3>1, <3>2, <3>3
  <2>4. Len(x.blocks) = p - a /\ Cardinality(Of(x, "tool_use")) = Len(M)
    BY <1>1, <1>2, <1>14, <1>17
  <2> QED
    BY <1>14, <1>15, <1>17, <1>18, <2>1, <2>2, <2>3, <2>4 DEF TurnOK
<1>20. SentOK(s, p, M, Append(st.messages, x))
  BY <1>1, <1>3, <1>19, SentFurther
<1>21. ConvertedOK(s, p, next)
  <2>1. next.pending = M /\ next.messages = Append(st.messages, x)
    BY <1>13
  <2>2. p # 0
    BY <1>1
  <2> QED
    BY <1>2, <1>11, <1>13, <1>20, <2>1, <2>2 DEF ConvertedOK
<1> QED
  BY <1>3, <1>13, <1>19, <1>21 DEF next, x

(* The turn of the user: where the results that answer a call are, and     *)
(* what else there is.                                                     *)
Place(st, t, c) == CHOOSE i \in Answering(st, t) : t[i].id = c

(* The results in the order of their calls, then the rest as it came.      *)
Placed(st, t) ==
  [k \in DOMAIN st.pending |-> Block("tool_result", t[Place(st, t, st.pending[k])])]

Rest(st, t) == InOrder(DOMAIN t \ Answering(st, t), Len(t))

Others(st, t) == [k \in DOMAIN Rest(st, t) |-> Block("text", t[Rest(st, t)[k]])]

UserMessage(st, t) == [role |-> "user", blocks |-> Placed(st, t) \o Others(st, t)]

(* The first results of a turn answer exactly the pending calls.           *)
AnswersOK(st, t) ==
  /\ \A i \in Answering(st, t) : i \in 1 .. Len(t) /\ t[i].kind = "result"
  /\ \A i, j \in Answering(st, t) : t[i].id = t[j].id => i = j
  /\ \A i \in Answering(st, t) : t[i].id \in Elements(st.pending)
  /\ \A c \in Elements(st.pending) : \E i \in Answering(st, t) : t[i].id = c

(* A turn of the user that comes behind calls answers each of them.        *)
LEMMA AnsweringIs ==
  ASSUME NEW s, NEW a, NEW p, NEW t, NEW st, TurnIs(s, a, p, t), CallsOrdered(s),
         IsUser(s[p]), PromptTo(s, p), ConvertedOK(s, a, st)
  PROVE  /\ AnswersOK(st, t)
         /\ \A i \in 1 .. Len(t) : t[i].kind = "result" => t[i].id \in IdsTo(s, a, "call")
<1> DEFINE R == Answering(st, t)
<1>1. /\ a \in Nat /\ p \in Nat /\ a < p /\ t \in Seq(Sendable) /\ Len(t) = p - a /\ p <= Len(s)
      /\ DOMAIN t = 1 .. Len(t) /\ Len(t) \in Nat
      /\ \A i \in 1 .. p - a : t[i] = s[a + i]
      /\ s \in Seq(Sendable) /\ Len(s) \in Nat
      /\ \A i \in 1 .. p - a : IsUser(t[i])
  BY DEF TurnIs
<1>2. /\ st.answered = IdsTo(s, a, "result")
      /\ Elements(st.pending) = IdsTo(s, a, "call") \ IdsTo(s, a, "result")
  <2>1. st = [ok |-> TRUE, calls |-> IdsTo(s, a, "call"), answered |-> IdsTo(s, a, "result"),
              pending |-> st.pending, messages |-> st.messages]
    BY DEF ConvertedOK
  <2>2. st.answered = IdsTo(s, a, "result")
    BY <2>1
  <2> QED
    BY <2>2 DEF ConvertedOK
<1>3. \A i : i \in R <=> /\ i \in 1 .. Len(t) /\ t[i].kind = "result"
                         /\ t[i].id \notin IdsTo(s, a, "result")
                         /\ \A q \in 1 .. i - 1 : t[q].kind = "result" => t[q].id # t[i].id
  BY <1>1, <1>2 DEF Answering
<1> HIDE DEF R
<1>4. ASSUME NEW i \in 1 .. Len(t), t[i].kind = "result" PROVE t[i].id \in IdsTo(s, a, "call")
  <2>1. a + i \in 1 .. Len(s) /\ t[i] = s[a + i]
    BY <1>1
  <2>2. PICK q \in 1 .. Len(s) : q < a + i /\ s[q].kind = "call" /\ s[q].id = t[i].id
    BY <1>4, <2>1 DEF CallsOrdered
  <2>3. q \in 1 .. a
    <3> SUFFICES ASSUME ~(q \in 1 .. a) PROVE FALSE
      OBVIOUS
    <3>1. q - a \in 1 .. p - a /\ a + (q - a) = q
      BY <1>1, <2>1, <2>2
    <3>2. IsUser(s[q])
      BY <1>1, <3>1
    <3> QED
      BY <2>2, <3>2, RoleIs
  <2> QED
    BY <2>2, <2>3 DEF IdsTo
<1>5. ASSUME NEW i \in R, NEW j \in R, t[i].id = t[j].id PROVE i = j
  <2>1. /\ i \in 1 .. Len(t) /\ j \in 1 .. Len(t)
        /\ \A q \in 1 .. i - 1 : t[q].kind = "result" => t[q].id # t[i].id
        /\ \A q \in 1 .. j - 1 : t[q].kind = "result" => t[q].id # t[j].id
        /\ t[i].kind = "result" /\ t[j].kind = "result"
    BY <1>3
  <2>2. ~(i \in 1 .. j - 1) /\ ~(j \in 1 .. i - 1)
    BY <1>5, <2>1
  <2> QED
    BY <1>1, <2>1, <2>2
<1>6. ASSUME NEW c \in Elements(st.pending) PROVE \E i \in R : t[i].id = c
  <2>1. c \in IdsTo(s, a, "call") /\ c \notin IdsTo(s, a, "result")
    BY <1>2
  <2>2. PICK q \in 1 .. a : s[q].kind = "call" /\ s[q].id = c
    BY <2>1 DEF IdsTo
  <2>3. q \in 1 .. p /\ p \in q .. p
    BY <1>1
  <2>4. PICK r \in 1 .. p : Settled(s, q, r)
    BY <2>2, <2>3 DEF PromptTo, SettledBy
  <2>5. s[r].kind = "result" /\ s[r].id = c
    BY <2>2, <2>4 DEF Settled
  <2>6. ~(r \in 1 .. a)
    BY <2>1, <2>5 DEF IdsTo
  <2> DEFINE T == {i \in 1 .. Len(t) : t[i].kind = "result" /\ t[i].id = c}
  <2>7. r - a \in T
    <3>1. r - a \in 1 .. p - a /\ a + (r - a) = r
      BY <1>1, <2>6
    <3> QED
      BY <1>1, <2>5, <3>1
  <2>8. PICK i \in T : \A j \in T : i <= j
    <3>1. T \in SUBSET Nat /\ T # {}
      BY <2>7
    <3> HIDE DEF T
    <3> QED
      BY <3>1, LeastElement
  <2>9. i \in 1 .. Len(t) /\ t[i].kind = "result" /\ t[i].id = c
    OBVIOUS
  <2>10. \A j \in 1 .. i - 1 : t[j].kind = "result" => t[j].id # t[i].id
    <3> SUFFICES ASSUME NEW j \in 1 .. i - 1, t[j].kind = "result", t[j].id = t[i].id PROVE FALSE
      OBVIOUS
    <3>1. j \in T /\ j < i
      BY <1>1, <2>9
    <3> QED
      BY <1>1, <2>8, <2>9, <3>1
  <2> QED
    BY <1>3, <2>1, <2>9, <2>10
<1>7. ASSUME NEW i \in R PROVE t[i].id \in Elements(st.pending)
  BY <1>2, <1>3, <1>4
<1>8. AnswersOK(st, t)
  BY <1>3, <1>5, <1>6, <1>7 DEF AnswersOK, R
<1> QED
  BY <1>4, <1>8

(* The blocks B of the turn: one result for each of the n calls, in their  *)
(* order, and then the other items o in theirs.                            *)
BlocksAre(st, t, n, o, B) ==
  /\ n \in Nat /\ o \in Seq(1 .. Len(t)) /\ n + Len(o) = Len(t)
  /\ Len(B) = Len(t) /\ B \in Seq(Blocks)
  /\ \A k \in 1 .. n : /\ Place(st, t, st.pending[k]) \in Answering(st, t)
                       /\ t[Place(st, t, st.pending[k])].id = st.pending[k]
                       /\ B[k] = Block("tool_result", t[Place(st, t, st.pending[k])])
  /\ \A k \in 1 .. Len(o) : B[n + k] = Block("text", t[o[k]])
  /\ {B[k].item : k \in 1 .. Len(t)} = {t[i] : i \in 1 .. Len(t)}

(* The blocks of its message are those.                                    *)
LEMMA UserBlocks ==
  ASSUME NEW st, NEW t \in Seq(Sendable), NEW I, st.pending \in Seq(I),
         \A i, j \in 1 .. Len(st.pending) : st.pending[i] = st.pending[j] => i = j,
         AnswersOK(st, t)
  PROVE  /\ UserMessage(st, t) \in Message
         /\ BlocksAre(st, t, Len(st.pending), Rest(st, t), UserMessage(st, t).blocks)
<1> DEFINE n == Len(st.pending)
           o == Rest(st, t)
           R == Answering(st, t)
           pos == [k \in 1 .. n |-> Place(st, t, st.pending[k])]
           S == (1 .. Len(t)) \ R
           P == Placed(st, t)
           Q == Others(st, t)
           B == P \o Q
<1>1. /\ n \in Nat /\ DOMAIN st.pending = 1 .. n /\ Len(t) \in Nat /\ DOMAIN t = 1 .. Len(t)
      /\ \A k \in 1 .. n : st.pending[k] \in Elements(st.pending)
      /\ \A i \in 1 .. Len(t) : t[i] \in Sendable
  BY DEF Elements
<1>2. /\ R \subseteq 1 .. Len(t)
      /\ \A i, j \in R : t[i].id = t[j].id => i = j
      /\ \A i \in R : t[i].id \in Elements(st.pending)
      /\ \A c \in Elements(st.pending) : \E i \in R : t[i].id = c
  BY DEF AnswersOK
<1>3. \A c \in Elements(st.pending) : Place(st, t, c) \in R /\ t[Place(st, t, c)].id = c
  BY <1>2 DEF Place
<1> HIDE DEF R
<1>4. /\ pos \in [1 .. n -> R]
      /\ \A k \in 1 .. n : pos[k] = Place(st, t, st.pending[k]) /\ t[pos[k]].id = st.pending[k]
  BY <1>1, <1>3
<1>5. \A i \in R : \E k \in 1 .. n : t[i].id = st.pending[k]
  BY <1>2 DEF Elements
<1> HIDE DEF pos, n
<1>6. \A i, j \in 1 .. n : pos[i] = pos[j] => i = j
  BY <1>4 DEF n
<1>7. ASSUME NEW i \in R PROVE \E k \in 1 .. n : pos[k] = i
  <2>1. PICK k \in 1 .. n : t[i].id = st.pending[k]
    BY <1>5
  <2>2. pos[k] \in R /\ t[pos[k]].id = t[i].id
    BY <1>4, <2>1
  <2>3. pos[k] = i
    BY <1>2, <2>2, Zenon
  <2> QED
    BY <2>3
<1>8. IsFiniteSet(R) /\ Cardinality(R) = n
  BY <1>1, <1>4, <1>6, <1>7, Counted
<1>9. /\ IsFiniteSet(1 .. Len(t)) /\ Cardinality(1 .. Len(t)) = Len(t)
      /\ Cardinality(S) = Len(t) - n
  <2>1. IsFiniteSet(1 .. Len(t)) /\ Cardinality(1 .. Len(t)) = Len(t)
    <3>1. 1 \in Int /\ Len(t) \in Int
      BY <1>1
    <3>2. /\ IsFiniteSet(1 .. Len(t))
          /\ Cardinality(1 .. Len(t)) = IF 1 > Len(t) THEN 0 ELSE Len(t) - 1 + 1
      BY <3>1, FS_Interval
    <3> QED
      BY <1>1, <3>2
  <2>2. (1 .. Len(t)) \cap R = R
    BY <1>2
  <2>3. Cardinality(S) = Cardinality(1 .. Len(t)) - Cardinality((1 .. Len(t)) \cap R)
    BY <2>1, FS_Difference
  <2> QED
    BY <1>8, <2>1, <2>2, <2>3
<1>10. o = InOrder(S, Len(t)) /\ S \in SUBSET (1 .. Len(t))
  BY <1>1 DEF Rest, R
<1>11. \A i \in 1 .. Len(t) : i \in S <=> i \notin R
  OBVIOUS
<1> HIDE DEF S, o
<1>12. /\ o \in Seq(S) /\ Len(o) = Cardinality(S)
       /\ \A x \in S : \E i \in 1 .. Len(o) : o[i] = x
  <2> DEFINE m == Len(t)
  <2>1. m \in Nat /\ S \in SUBSET (1 .. m)
    BY <1>1, <1>10
  <2>2. o = InOrder(S, m)
    BY <1>10
  <2> HIDE DEF m
  <2>3. /\ InOrder(S, m) \in Seq(S) /\ Len(InOrder(S, m)) = Cardinality(S)
        /\ \A x \in S : \E i \in 1 .. Len(InOrder(S, m)) : InOrder(S, m)[i] = x
    BY <2>1, InOrderCount, Zenon
  <2> QED
    BY <2>2, <2>3, Zenon
<1>13. /\ Len(o) \in Nat /\ DOMAIN o = 1 .. Len(o) /\ n + Len(o) = Len(t)
       /\ \A k \in 1 .. Len(o) : o[k] \in S /\ o[k] \in 1 .. Len(t)
       /\ o \in Seq(1 .. Len(t)) /\ n <= Len(t) /\ Len(o) <= Len(t)
  <2>1. o \in Seq(S) /\ Len(o) = Len(t) - n
    BY <1>9, <1>12
  <2>2. Len(o) \in Nat /\ DOMAIN o = 1 .. Len(o) /\ \A k \in 1 .. Len(o) : o[k] \in S
    BY <2>1
  <2>3. \A k \in 1 .. Len(o) : o[k] \in 1 .. Len(t)
    BY <1>10, <2>2
  <2>4. o \in [1 .. Len(o) -> 1 .. Len(t)]
    BY <2>1, <2>2, <2>3
  <2>5. o \in Seq(1 .. Len(t))
    BY <2>2, <2>4
  <2>6. n + Len(o) = Len(t) /\ n <= Len(t) /\ Len(o) <= Len(t)
    BY <1>1, <2>1, <2>2
  <2> QED
    BY <2>2, <2>3, <2>5, <2>6
<1>14. ASSUME NEW y \in Sendable, NEW type \in {"text", "tool_use", "tool_result"}
       PROVE  Block(type, y) \in Blocks /\ Block(type, y).item = y /\ Block(type, y).type = type
  BY DEF Block, Blocks
<1>15. P \in Seq(Blocks) /\ Len(P) = n /\ \A k \in 1 .. n : P[k] = Block("tool_result", t[pos[k]])
  <2>1. P = [k \in 1 .. n |-> Block("tool_result", t[Place(st, t, st.pending[k])])]
    BY <1>1 DEF Placed
  <2>2. \A k \in 1 .. n : P[k] = Block("tool_result", t[pos[k]])
    BY <1>4, <2>1
  <2>3. \A k \in 1 .. n : t[pos[k]] \in Sendable
    BY <1>1, <1>2, <1>4
  <2>4. \A k \in 1 .. n : P[k] \in Blocks
    BY <1>14, <2>2, <2>3
  <2>5. DOMAIN P = 1 .. n
    BY <2>1
  <2>6. P \in [1 .. n -> Blocks]
    BY <2>1, <2>4
  <2> HIDE DEF P
  <2> QED
    BY <1>1, <2>2, <2>6
<1>16. Q \in Seq(Blocks) /\ Len(Q) = Len(o) /\ \A k \in 1 .. Len(o) : Q[k] = Block("text", t[o[k]])
  <2>1. Q = [k \in 1 .. Len(o) |-> Block("text", t[o[k]])]
    BY <1>13 DEF Others, o
  <2>2. \A k \in 1 .. Len(o) : Q[k] = Block("text", t[o[k]])
    BY <2>1
  <2>3. \A k \in 1 .. Len(o) : t[o[k]] \in Sendable
    BY <1>1, <1>13
  <2>4. \A k \in 1 .. Len(o) : Q[k] \in Blocks
    BY <1>14, <2>2, <2>3
  <2>5. Q \in [1 .. Len(o) -> Blocks]
    BY <2>1, <2>4
  <2>6. Len(o) \in Nat
    BY <1>13
  <2> HIDE DEF Q
  <2> QED
    BY <2>2, <2>5, <2>6
<1> HIDE DEF P, Q
<1>17. /\ B \in Seq(Blocks) /\ Len(B) = Len(t)
       /\ \A k \in 1 .. n : B[k] = Block("tool_result", t[pos[k]])
       /\ \A k \in 1 .. Len(o) : B[n + k] = Block("text", t[o[k]])
  <2>1. /\ B \in Seq(Blocks) /\ Len(B) = Len(P) + Len(Q)
        /\ \A k \in 1 .. Len(P) : B[k] = P[k]
        /\ \A k \in 1 .. Len(Q) : B[Len(P) + k] = Q[k]
    <3>1. P \in Seq(Blocks) /\ Q \in Seq(Blocks)
      BY <1>15, <1>16
    <3> QED
      BY <3>1, ConcatIs
  <2> HIDE DEF B
  <2> QED
    BY <1>13, <1>15, <1>16, <2>1
<1>18. UserMessage(st, t).blocks = B /\ UserMessage(st, t) \in Message
  <2>1. UserMessage(st, t) = [role |-> "user", blocks |-> B]
    BY DEF UserMessage, P, Q
  <2> HIDE DEF B
  <2>2. UserMessage(st, t).blocks = B
    BY <2>1
  <2>3. [role |-> "user", blocks |-> B] \in Message
    BY <1>17 DEF Message
  <2> QED
    BY <2>1, <2>2, <2>3
<1> HIDE DEF B
<1>19. {B[k].item : k \in 1 .. Len(t)} = {t[i] : i \in 1 .. Len(t)}
  <2>1. ASSUME NEW k \in 1 .. Len(t) PROVE \E i \in 1 .. Len(t) : B[k].item = t[i]
    <3>1. CASE k \in 1 .. n
      <4>1. pos[k] \in 1 .. Len(t)
        BY <1>2, <1>4, <3>1
      <4>2. B[k].item = t[pos[k]]
        BY <1>1, <1>14, <1>17, <3>1, <4>1
      <4> QED
        BY <4>1, <4>2
    <3>2. CASE ~(k \in 1 .. n)
      <4>1. k - n \in 1 .. Len(o) /\ n + (k - n) = k
        BY <1>1, <1>13, <3>2
      <4>2. o[k - n] \in 1 .. Len(t) /\ B[k] = Block("text", t[o[k - n]])
        BY <1>13, <1>17, <4>1
      <4>3. B[k].item = t[o[k - n]]
        BY <1>1, <1>14, <4>2
      <4> QED
        BY <4>2, <4>3
    <3> QED
      BY <3>1, <3>2
  <2>2. ASSUME NEW i \in 1 .. Len(t) PROVE \E k \in 1 .. Len(t) : B[k].item = t[i]
    <3>1. CASE i \in R
      <4>1. PICK k \in 1 .. n : pos[k] = i
        BY <1>7, <3>1
      <4>2. k \in 1 .. Len(t) /\ B[k] = Block("tool_result", t[i])
        <5>1. B[k] = Block("tool_result", t[pos[k]])
          BY <1>17
        <5>2. k \in 1 .. Len(t)
          BY <1>1, <1>13
        <5> QED
          BY <4>1, <5>1, <5>2
      <4>3. B[k].item = t[i]
        BY <1>1, <1>14, <4>2
      <4> QED
        BY <4>2, <4>3
    <3>2. CASE i \notin R
      <4>1. PICK k \in 1 .. Len(o) : o[k] = i
        BY <1>11, <1>12, <3>2
      <4>2. n + k \in 1 .. Len(t) /\ B[n + k] = Block("text", t[i])
        <5>1. B[n + k] = Block("text", t[o[k]])
          BY <1>17
        <5>2. n + k \in 1 .. Len(t)
          BY <1>1, <1>13
        <5> QED
          BY <4>1, <5>1, <5>2
      <4>3. B[n + k].item = t[i]
        BY <1>1, <1>14, <4>2
      <4> QED
        BY <4>2, <4>3
    <3> QED
      BY <3>1, <3>2
  <2>3. ASSUME NEW y \in {B[k].item : k \in 1 .. Len(t)} PROVE y \in {t[i] : i \in 1 .. Len(t)}
    <3>1. PICK k \in 1 .. Len(t) : y = B[k].item
      BY <2>3
    <3> QED
      BY <2>1, <3>1
  <2>4. ASSUME NEW y \in {t[i] : i \in 1 .. Len(t)} PROVE y \in {B[k].item : k \in 1 .. Len(t)}
    <3>1. PICK i \in 1 .. Len(t) : y = t[i]
      BY <2>4
    <3>2. PICK k \in 1 .. Len(t) : B[k].item = t[i]
      BY <2>2
    <3> QED
      BY <3>1, <3>2
  <2> QED
    BY <2>3, <2>4
<1>20. \A k \in 1 .. n : /\ Place(st, t, st.pending[k]) \in R
                         /\ t[Place(st, t, st.pending[k])].id = st.pending[k]
                         /\ B[k] = Block("tool_result", t[Place(st, t, st.pending[k])])
  BY <1>4, <1>17
<1>21. BlocksAre(st, t, n, o, B)
  BY <1>1, <1>13, <1>17, <1>19, <1>20, Zenon DEF BlocksAre, R
<1> QED
  BY <1>18, <1>21, Zenon DEF n, o

(* A turn of the user is converted.                                        *)
LEMMA UserStep ==
  ASSUME NEW s, NEW a, NEW p, NEW t, NEW st, TurnIs(s, a, p, t), CallsOrdered(s),
         IsUser(s[p]), PromptTo(s, p), ConvertedOK(s, a, st)
  PROVE  /\ ConvertedOK(s, p, UserTurn(st, t))
         /\ UserTurn(st, t).messages = Append(st.messages, UserMessage(st, t))
         /\ TurnOK(s, a, p, st.pending, UserTurn(st, t).pending, UserMessage(st, t))
<1> DEFINE R == Answering(st, t)
           pd == st.pending
           ms == st.messages
           C == IdsTo(s, a, "call")
           A == IdsTo(s, a, "result")
           x == UserMessage(st, t)
           B == x.blocks
           n == Len(pd)
           o == Rest(st, t)
           ids == {t[i].id : i \in R}
           next == UserTurn(st, t)
<1>1. /\ a \in Nat /\ p \in Nat /\ a < p /\ t \in Seq(Sendable) /\ Len(t) = p - a /\ p <= Len(s)
      /\ DOMAIN t = 1 .. Len(t) /\ Len(t) \in Nat
      /\ \A i \in 1 .. p - a : t[i] = s[a + i]
      /\ \A i \in 1 .. p - a : IsUser(t[i])
      /\ a # 0 => ~IsUser(s[a])
  BY DEF TurnIs
<1>2. /\ AnswersOK(st, t)
      /\ \A i \in 1 .. Len(t) : t[i].kind = "result" => t[i].id \in C
  BY AnsweringIs
<1>3. /\ st = [ok |-> TRUE, calls |-> C, answered |-> A, pending |-> pd, messages |-> ms]
      /\ pd \in Seq(C)
      /\ \A i, j \in 1 .. Len(pd) : pd[i] = pd[j] => i = j
      /\ Elements(pd) = C \ A
      /\ a = 0 => pd = <<>>
      /\ SentOK(s, a, pd, ms)
  BY DEF ConvertedOK
<1>4. x \in Message /\ BlocksAre(st, t, n, o, B)
  <2>1. /\ st.pending \in Seq(C)
        /\ \A i, j \in 1 .. Len(st.pending) : st.pending[i] = st.pending[j] => i = j
        /\ t \in Seq(Sendable)
    BY <1>1, <1>3
  <2> HIDE DEF C
  <2> QED
    BY <1>2, <2>1, UserBlocks, Zenon
<1>5. ids = Elements(pd)
  <2>1. \A i \in R : t[i].id \in Elements(pd)
    BY <1>2 DEF AnswersOK
  <2>2. \A c \in Elements(pd) : \E i \in R : t[i].id = c
    BY <1>2 DEF AnswersOK
  <2> HIDE DEF R, pd
  <2> QED
    BY <2>1, <2>2
<1>6. /\ \A i \in DOMAIN t : t[i].kind = "result" => t[i].id \in st.calls
      /\ ToSet(st.pending) \subseteq ids
  <2>1. st.calls = C
    BY <1>3
  <2>2. DOMAIN pd = 1 .. Len(pd)
    BY <1>3
  <2>3. ToSet(pd) = Elements(pd)
    BY <2>2 DEF ToSet, Elements
  <2> QED
    BY <1>1, <1>2, <1>5, <2>1, <2>3
<1>7. next = [ok |-> TRUE, calls |-> C, answered |-> A \cup ids, pending |-> <<>>,
              messages |-> Append(ms, x)]
  <2>1. next = IF /\ \A i \in DOMAIN t : t[i].kind = "result" => t[i].id \in st.calls
                  /\ ToSet(st.pending) \subseteq ids
               THEN [st EXCEPT !.answered = @ \cup ids, !.pending = <<>>, !.messages = Append(@, x)]
               ELSE [st EXCEPT !.ok = FALSE]
    BY DEF UserTurn, UserMessage, Placed, Others, Rest, Place
  <2>2. next = [st EXCEPT !.answered = @ \cup ids, !.pending = <<>>, !.messages = Append(@, x)]
    BY <1>6, <2>1
  <2>3. st = [ok |-> TRUE, calls |-> C, answered |-> A, pending |-> pd, messages |-> ms]
    BY <1>3
  <2> HIDE DEF next, ids, x, C, A, pd, ms
  <2> QED
    BY <2>2, <2>3
<1>8. IdsTo(s, p, "call") = C
  <2>1. \A i \in 1 .. Len(t) : t[i].kind # "call"
    BY <1>1, RoleIs
  <2>2. NamedIn(t, "call") = {}
    BY <2>1 DEF NamedIn, At
  <2>3. IdsTo(s, p, "call") = IdsTo(s, a, "call") \cup NamedIn(t, "call")
    BY IdsFurther
  <2> QED
    BY <2>2, <2>3
<1>9. IdsTo(s, p, "result") = A \cup ids
  <2>1. IdsTo(s, p, "result") = A \cup NamedIn(t, "result")
    BY IdsFurther
  <2>2. ASSUME NEW c \in NamedIn(t, "result") PROVE c \in A \cup ids
    <3>1. c \in C
      BY <1>2 DEF NamedIn, At
    <3> QED
      BY <1>3, <1>5, <3>1
  <2>3. ids \subseteq NamedIn(t, "result")
    <3>1. \A i \in R : i \in At(t, "result")
      BY <1>2 DEF AnswersOK, At
    <3> QED
      BY <3>1 DEF NamedIn
  <2> QED
    BY <2>1, <2>2, <2>3
<1>10. C \ (A \cup ids) = {}
  BY <1>3, <1>5
<1>11. /\ n \in Nat /\ o \in Seq(1 .. Len(t)) /\ n + Len(o) = Len(t) /\ Len(o) \in Nat
       /\ B \in Seq(Blocks) /\ Len(B) = Len(t) /\ DOMAIN B = 1 .. Len(t)
       /\ \A k \in 1 .. n : B[k].type = "tool_result" /\ B[k].item.id = pd[k]
       /\ \A k \in 1 .. Len(o) : B[n + k].type = "text"
       /\ {B[k].item : k \in 1 .. Len(t)} = {t[i] : i \in 1 .. Len(t)}
  <2>1. \A y, z : Block(y, z).type = y /\ Block(y, z).item = z
    BY DEF Block
  <2> HIDE DEF R, x, B, n, o, pd
  <2>2. /\ n \in Nat /\ o \in Seq(1 .. Len(t)) /\ n + Len(o) = Len(t)
        /\ Len(B) = Len(t) /\ B \in Seq(Blocks)
        /\ {B[k].item : k \in 1 .. Len(t)} = {t[i] : i \in 1 .. Len(t)}
    BY <1>4 DEF BlocksAre
  <2>3. \A k \in 1 .. n : /\ t[Place(st, t, pd[k])].id = pd[k]
                          /\ B[k] = Block("tool_result", t[Place(st, t, pd[k])])
    BY <1>4 DEF BlocksAre, pd
  <2>4. \A k \in 1 .. n : B[k].type = "tool_result" /\ B[k].item.id = pd[k]
    BY <2>1, <2>3
  <2>5. \A k \in 1 .. Len(o) : B[n + k] = Block("text", t[o[k]])
    BY <1>4 DEF BlocksAre
  <2>6. Len(o) \in Nat /\ DOMAIN B = 1 .. Len(t)
    BY <2>2
  <2>7. \A k \in 1 .. Len(o) : B[n + k].type = "text"
    BY <2>1, <2>5
  <2> QED
    BY <2>2, <2>4, <2>6, <2>7, Zenon
<1> HIDE DEF R, x, B, n, o, ids
<1>12. \A k \in 1 .. Len(t) : k \in 1 .. n \/ B[k].type = "text"
  <2> SUFFICES ASSUME NEW k \in 1 .. Len(t), ~(k \in 1 .. n) PROVE B[k].type = "text"
    OBVIOUS
  <2>1. k - n \in 1 .. Len(o) /\ n + (k - n) = k
    BY <1>1, <1>11
  <2> QED
    BY <1>11, <2>1
<1>13. Of(x, "tool_result") = 1 .. n
  <2>1. \A k \in 1 .. n : k \in 1 .. Len(t)
    BY <1>1, <1>11
  <2>2. Of(x, "tool_result") = {k \in 1 .. Len(t) : B[k].type = "tool_result"}
    BY <1>11 DEF Of, B
  <2> QED
    BY <1>11, <1>12, <2>1, <2>2
<1>14. Of(x, "tool_use") = {}
  <2>1. Of(x, "tool_use") = {k \in 1 .. Len(t) : B[k].type = "tool_use"}
    BY <1>11 DEF Of, B
  <2> QED
    BY <1>11, <1>12, <2>1
<1>15. IdsOf(x, "tool_result") = Elements(pd) /\ IdsOf(x, "tool_use") = {}
  <2>1. IdsOf(x, "tool_result") = {B[k].item.id : k \in 1 .. n}
    BY <1>13 DEF IdsOf, B
  <2>2. Elements(pd) = {pd[k] : k \in 1 .. n}
    BY DEF Elements, n
  <2>3. \A k \in 1 .. n : B[k].item.id = pd[k]
    BY <1>11
  <2>4. {B[k].item.id : k \in 1 .. n} = {pd[k] : k \in 1 .. n}
    <3> HIDE DEF pd
    <3> QED
      BY <2>3, Zenon
  <2>5. IdsOf(x, "tool_use") = {}
    BY <1>14 DEF IdsOf
  <2> QED
    BY <2>1, <2>2, <2>4, <2>5, Zenon
<1>16. TurnOK(s, a, p, pd, <<>>, x)
  <2>1. ItemRole(s[p]) = "user" /\ (a # 0 => ItemRole(s[a]) = "assistant")
    BY <1>1, RoleIs
  <2>2. x.role = "user"
    BY DEF x, UserMessage
  <2>3. Elements(<<>>) = {} /\ Len(<<>>) = 0 /\ Cardinality({}) = 0
    BY FS_EmptySet DEF Elements
  <2>4. {x.blocks[k].item : k \in 1 .. p - a} = {s[q] : q \in a + 1 .. p}
    <3>1. {B[k].item : k \in 1 .. p - a} = {t[i] : i \in 1 .. p - a}
      BY <1>1, <1>11
    <3>2. {t[i] : i \in 1 .. p - a} = {s[q] : q \in a + 1 .. p}
      <4>1. \A i \in 1 .. p - a : t[i] = s[a + i] /\ a + i \in a + 1 .. p
        BY <1>1
      <4>2. \A q \in a + 1 .. p : q - a \in 1 .. p - a /\ a + (q - a) = q
        BY <1>1
      <4>3. \A q \in a + 1 .. p : s[q] = t[q - a]
        BY <4>1, <4>2
      <4> QED
        BY <4>1, <4>2, <4>3
    <3> QED
      BY <3>1, <3>2 DEF B
  <2>5. Len(x.blocks) = p - a
    BY <1>1, <1>11 DEF B
  <2>6. x \in Message /\ Of(x, "tool_result") = 1 .. Len(pd)
    BY <1>4, <1>13 DEF n
  <2>7. Cardinality(Of(x, "tool_use")) = Len(<<>>) /\ IdsOf(x, "tool_use") = Elements(<<>>)
    BY <1>14, <1>15, <2>3
  <2> QED
    BY <1>15, <2>1, <2>2, <2>4, <2>5, <2>6, <2>7 DEF TurnOK
<1>17. SentOK(s, p, <<>>, Append(ms, x))
  BY <1>1, <1>3, <1>16, SentFurther
<1> HIDE DEF next
<1>18. next.pending = <<>> /\ next.messages = Append(ms, x)
  BY <1>7
<1>19. ConvertedOK(s, p, next)
  <2>1. next = [ok |-> TRUE, calls |-> IdsTo(s, p, "call"), answered |-> IdsTo(s, p, "result"),
                pending |-> next.pending, messages |-> next.messages]
    BY <1>7, <1>8, <1>9, <1>18
  <2>2. <<>> \in Seq(IdsTo(s, p, "call")) /\ Elements(<<>>) = {} /\ Len(<<>>) = 0
    BY DEF Elements
  <2>3. IdsTo(s, p, "call") \ IdsTo(s, p, "result") = {}
    BY <1>8, <1>9, <1>10
  <2>4. \A i, j \in 1 .. Len(<<>>) : <<>>[i] = <<>>[j] => i = j
    OBVIOUS
  <2> QED
    BY <1>17, <1>18, <2>1, <2>2, <2>3, <2>4 DEF ConvertedOK
<1> QED
  BY <1>16, <1>18, <1>19 DEF next, x, pd, ms

(* The conversion of a history whose calls are answered in time.           *)
LEMMA ConversionOK ==
  ASSUME NEW s \in Seq(Sendable), CallsOrdered(s)
  PROVE  \A p \in 0 .. Len(s) : PromptTo(s, p) => ConvertedOK(s, p, Converted(s, p))
<1> DEFINE G(p) == PromptTo(s, p) => ConvertedOK(s, p, Converted(s, p))
           T == {k \in Nat : \A p \in 0 .. k : p <= Len(s) => G(p)}
<1>1. /\ Len(s) \in Nat /\ Converted(s, 0) = NothingConverted
      /\ \A p \in 1 .. Len(s) :
           Converted(s, p) = ConvertTurn(Converted(s, TurnStart(s, p) - 1),
                                         SubSeq(s, TurnStart(s, p), p))
  BY ConvertSteps
<1>2. G(0)
  <2> DEFINE st == NothingConverted
  <2>1. st = [ok |-> TRUE, calls |-> {}, answered |-> {}, pending |-> <<>>, messages |-> <<>>]
    BY DEF NothingConverted
  <2> HIDE DEF st
  <2>2. st.pending = <<>> /\ st.messages = <<>>
    BY <2>1
  <2>3. 1 .. 0 = {} /\ Len(<<>>) = 0 /\ <<>> \in Seq({}) /\ <<>> \in Seq(Message) /\ <<>> \in Seq(Sending)
    OBVIOUS
  <2>4. IdsTo(s, 0, "call") = {} /\ IdsTo(s, 0, "result") = {} /\ Elements(<<>>) = {}
    BY <2>3 DEF IdsTo, Elements
  <2>5. Wire(<<>>) = <<>>
    <3>1. \E y : y \in {0}
      OBVIOUS
    <3>2. <<>> \in Seq({0})
      OBVIOUS
    <3> QED
      BY <3>1, <3>2, WireSteps, Zenon
  <2>6. {Wire(<<>>)[k].block.item : k \in 1 .. 0} = {s[q] : q \in 1 .. 0}
    BY <2>3
  <2>7. SentOK(s, 0, <<>>, <<>>)
    BY <2>3, <2>5, <2>6 DEF SentOK
  <2>8. ConvertedOK(s, 0, st)
    BY <2>1, <2>2, <2>3, <2>4, <2>7 DEF ConvertedOK
  <2> QED
    BY <1>1, <2>8 DEF st
<1>3. 0 \in T
  <2>1. \A p \in 0 .. 0 : p = 0
    OBVIOUS
  <2> QED
    BY <1>2, <2>1
<1>4. ASSUME NEW k \in T PROVE k + 1 \in T
  <2> SUFFICES ASSUME k + 1 <= Len(s), PromptTo(s, k + 1)
               PROVE  ConvertedOK(s, k + 1, Converted(s, k + 1))
    <3>1. \A p \in 0 .. k + 1 : p \in 0 .. k \/ p = k + 1
      OBVIOUS
    <3> HIDE DEF G
    <3>2. (k + 1 <= Len(s) => G(k + 1)) => k + 1 \in T
      BY <3>1
    <3> QED
      BY <3>2 DEF G
  <2> DEFINE p == k + 1
             b == TurnStart(s, p)
             t == SubSeq(s, b, p)
             st == Converted(s, b - 1)
  <2>1. p \in 1 .. Len(s) /\ p \in Nat /\ p # 0
    BY <1>1
  <2>2. b \in 1 .. p /\ TurnIs(s, b - 1, p, t) /\ PromptTo(s, b - 1)
    BY <2>1, TurnStartIs, TurnIsThere, PromptEarlier
  <2>3. b - 1 \in 0 .. k /\ b - 1 <= Len(s)
    <3> HIDE DEF b
    <3> QED
      BY <1>1, <2>1, <2>2
  <2>4. ConvertedOK(s, b - 1, st)
    BY <2>2, <2>3
  <2>5. Converted(s, p) = ConvertTurn(st, t)
    BY <1>1, <2>1
  <2>6. st.ok = TRUE
    <3>1. st = [ok |-> TRUE, calls |-> IdsTo(s, b - 1, "call"),
                answered |-> IdsTo(s, b - 1, "result"),
                pending |-> st.pending, messages |-> st.messages]
      BY <2>4 DEF ConvertedOK
    <3> HIDE DEF st
    <3> QED
      BY <3>1
  <2>7. ItemRole(Head(t)) = "assistant" <=> ~IsUser(s[p])
    <3>1. t \in Seq(Sendable) /\ Len(t) = p - (b - 1) /\ \A i \in 1 .. p - (b - 1) : IsUser(t[i]) <=> IsUser(s[p])
      BY <2>2 DEF TurnIs
    <3>2. Len(t) # 0 /\ 1 \in 1 .. p - (b - 1)
      <4> HIDE DEF b, t
      <4> QED
        BY <2>1, <2>2, <3>1
    <3>3. Head(t) = t[1]
      <4> HIDE DEF t
      <4> QED
        BY <3>1, <3>2
    <3> QED
      BY <3>1, <3>2, <3>3, RoleIs
  <2> HIDE DEF p, b, t, st
  <2>8. CASE IsUser(s[p])
    <3>1. Converted(s, p) = UserTurn(st, t)
      BY <2>5, <2>6, <2>7, <2>8 DEF ConvertTurn
    <3>2. PromptTo(s, p)
      BY DEF p
    <3> QED
      BY <2>2, <2>4, <2>8, <3>1, <3>2, UserStep DEF p
  <2>9. CASE ~IsUser(s[p])
    <3>1. Converted(s, p) = AssistantTurn(st, t)
      BY <2>5, <2>6, <2>7, <2>9 DEF ConvertTurn
    <3> QED
      BY <2>2, <2>4, <2>9, <3>1, AssistantStep DEF p
  <2> QED
    BY <2>8, <2>9
<1> HIDE DEF T
<1>5. T = Nat
  BY <1>3, <1>4, Induction DEF T
<1> QED
  BY <1>1, <1>5 DEF T

-----------------------------------------------------------------------------
(* The messages of a history begin with those of its beginning.            *)

(* The message of a turn.                                                  *)
TurnMessage(st, t, last) == IF IsUser(last) THEN UserMessage(st, t) ELSE AssistantMessage(t)

(* One turn more of the conversion.                                        *)
LEMMA TurnStep ==
  ASSUME NEW s \in Seq(Sendable), CallsOrdered(s), NEW p \in 1 .. Len(s), PromptTo(s, p),
         NEW a, NEW t, NEW st,
         a = TurnStart(s, p) - 1, t = SubSeq(s, TurnStart(s, p), p), st = Converted(s, a)
  PROVE  /\ a \in 0 .. p - 1 /\ TurnIs(s, a, p, t) /\ PromptTo(s, a) /\ ConvertedOK(s, a, st)
         /\ TurnMessage(st, t, s[p]) \in Message
         /\ Wire(st.messages) \in Seq(Sending)
         /\ Wire(Converted(s, p).messages) = Wire(st.messages) \o SentIn(TurnMessage(st, t, s[p]))
<1> DEFINE b == TurnStart(s, p)
           next == Converted(s, p)
           x == TurnMessage(st, t, s[p])
<1>1. p \in Nat /\ p # 0 /\ Len(s) \in Nat
  OBVIOUS
<1>2. b \in 1 .. p /\ TurnIs(s, b - 1, p, SubSeq(s, b, p)) /\ PromptTo(s, b - 1)
  BY <1>1, TurnStartIs, TurnIsThere, PromptEarlier
<1>3. next = ConvertTurn(Converted(s, b - 1), SubSeq(s, b, p))
  BY ConvertSteps
<1>4. a = b - 1 /\ t = SubSeq(s, b, p)
  OBVIOUS
<1> HIDE DEF b
<1>5. a \in 0 .. p - 1 /\ a \in 0 .. Len(s) /\ a \in Nat /\ a < p
  BY <1>1, <1>2, <1>4
<1>6. TurnIs(s, a, p, t) /\ PromptTo(s, a) /\ next = ConvertTurn(st, t)
  BY <1>2, <1>3, <1>4
<1>7. ConvertedOK(s, a, st)
  BY <1>5, <1>6, ConversionOK
<1>8. st.ok = TRUE
  <2>1. st = [ok |-> TRUE, calls |-> IdsTo(s, a, "call"), answered |-> IdsTo(s, a, "result"),
              pending |-> st.pending, messages |-> st.messages]
    BY <1>7 DEF ConvertedOK
  <2> QED
    BY <2>1
<1>9. ItemRole(Head(t)) = "assistant" <=> ~IsUser(s[p])
  <2>1. t \in Seq(Sendable) /\ Len(t) = p - a /\ \A i \in 1 .. p - a : IsUser(t[i]) <=> IsUser(s[p])
    BY <1>6 DEF TurnIs
  <2>2. Len(t) # 0 /\ 1 \in 1 .. p - a
    BY <1>5, <2>1
  <2>3. Head(t) = t[1]
    BY <2>1, <2>2
  <2> QED
    BY <2>1, <2>2, <2>3, RoleIs
<1> HIDE DEF next
<1>10. next.messages = Append(st.messages, x) /\ TurnOK(s, a, p, st.pending, next.pending, x)
  <2>1. CASE IsUser(s[p])
    <3>1. next = UserTurn(st, t)
      BY <1>6, <1>8, <1>9, <2>1 DEF ConvertTurn
    <3>2. /\ UserTurn(st, t).messages = Append(st.messages, UserMessage(st, t))
          /\ TurnOK(s, a, p, st.pending, UserTurn(st, t).pending, UserMessage(st, t))
      BY <1>6, <1>7, <2>1, UserStep
    <3> QED
      BY <2>1, <3>1, <3>2 DEF TurnMessage
  <2>2. CASE ~IsUser(s[p])
    <3>1. next = AssistantTurn(st, t)
      BY <1>6, <1>8, <1>9, <2>2 DEF ConvertTurn
    <3>2. /\ AssistantTurn(st, t).messages = Append(st.messages, AssistantMessage(t))
          /\ TurnOK(s, a, p, st.pending, AssistantTurn(st, t).pending, AssistantMessage(t))
      BY <1>6, <1>7, <2>2, AssistantStep
    <3> QED
      BY <2>2, <3>1, <3>2 DEF TurnMessage
  <2> QED
    BY <2>1, <2>2
<1> HIDE DEF x
<1>11. SentOK(s, a, st.pending, st.messages) /\ (a = 0 => st.pending = <<>>)
  BY <1>7 DEF ConvertedOK
<1>12. x \in Message /\ Wire(st.messages) \in Seq(Sending) /\ st.messages \in Seq(Message)
  BY <1>10, <1>11 DEF TurnOK, SentOK
<1>13. Wire(Append(st.messages, x)) = Wire(st.messages) \o SentIn(x)
  BY <1>12, WireSteps
<1> QED
  BY <1>5, <1>6, <1>7, <1>10, <1>12, <1>13 DEF next, x

(* The first results are the same when the turn goes on.                   *)
LEMMA AnsweringFurther ==
  ASSUME NEW st, NEW t \in Seq(Sendable), NEW v \in Seq(Sendable), Begins(t, v)
  PROVE  \A i \in 1 .. Len(t) : i \in Answering(st, t) <=> i \in Answering(st, v)
<1>1. /\ Len(t) \in Nat /\ Len(v) \in Nat /\ Len(t) <= Len(v)
      /\ DOMAIN t = 1 .. Len(t) /\ DOMAIN v = 1 .. Len(v)
      /\ \A k \in 1 .. Len(t) : t[k] = v[k]
  BY DEF Begins
<1> TAKE i \in 1 .. Len(t)
<1>2. i \in 1 .. Len(v) /\ t[i] = v[i] /\ \A q \in 1 .. i - 1 : t[q] = v[q]
  BY <1>1
<1> QED
  <2> DEFINE F(y, k) == /\ y[k].kind = "result"
                        /\ y[k].id \notin st.answered
                        /\ \A q \in 1 .. k - 1 : y[q].kind = "result" => y[q].id # y[k].id
  <2>1. (i \in Answering(st, t) <=> F(t, i)) /\ (i \in Answering(st, v) <=> F(v, i))
    BY <1>1, <1>2 DEF Answering
  <2>2. F(t, i) <=> F(v, i)
    BY <1>2
  <2> QED
    BY <2>1, <2>2

(* The message of a longer turn of the user begins with that of a shorter  *)
(* one: the results that answer calls are in both.                         *)
LEMMA UserBegins ==
  ASSUME NEW st, NEW t \in Seq(Sendable), NEW v \in Seq(Sendable), Begins(t, v),
         NEW I, st.pending \in Seq(I),
         \A i, j \in 1 .. Len(st.pending) : st.pending[i] = st.pending[j] => i = j,
         AnswersOK(st, t), AnswersOK(st, v)
  PROVE  Begins(UserMessage(st, t).blocks, UserMessage(st, v).blocks)
<1> DEFINE n == Len(st.pending)
           o == Rest(st, t)
           r == Rest(st, v)
           B == UserMessage(st, t).blocks
           D == UserMessage(st, v).blocks
<1>1. BlocksAre(st, t, n, o, B) /\ BlocksAre(st, v, n, r, D)
  BY UserBlocks, Zenon
<1>2. /\ Len(t) \in Nat /\ Len(v) \in Nat /\ Len(t) <= Len(v)
      /\ DOMAIN t = 1 .. Len(t) /\ DOMAIN v = 1 .. Len(v)
      /\ \A k \in 1 .. Len(t) : t[k] = v[k]
  BY DEF Begins
<1>3. \A i \in 1 .. Len(t) : i \in Answering(st, t) <=> i \in Answering(st, v)
  BY AnsweringFurther
<1>4. Begins(o, r)
  <2>1. \A k \in 1 .. Len(t) : k \in DOMAIN t \ Answering(st, t) <=> k \in DOMAIN v \ Answering(st, v)
    BY <1>2, <1>3
  <2>2. Len(t) \in Nat /\ Len(v) \in Nat /\ Len(t) <= Len(v)
    BY <1>2
  <2> DEFINE S == DOMAIN t \ Answering(st, t)
             R == DOMAIN v \ Answering(st, v)
  <2>3. \A k \in 1 .. Len(t) : k \in S <=> k \in R
    BY <2>1
  <2> HIDE DEF S, R
  <2>4. Begins(InOrder(S, Len(t)), InOrder(R, Len(v)))
    BY <2>2, <2>3, InOrderBegins
  <2> QED
    BY <2>4 DEF Rest, S, R
<1> HIDE DEF n, o, r, B, D
<1>5. /\ n \in Nat /\ o \in Seq(1 .. Len(t)) /\ n + Len(o) = Len(t) /\ Len(B) = Len(t)
      /\ \A k \in 1 .. n : /\ Place(st, t, st.pending[k]) \in Answering(st, t)
                           /\ t[Place(st, t, st.pending[k])].id = st.pending[k]
                           /\ B[k] = Block("tool_result", t[Place(st, t, st.pending[k])])
      /\ \A k \in 1 .. Len(o) : B[n + k] = Block("text", t[o[k]])
  BY <1>1 DEF BlocksAre
<1>6. /\ r \in Seq(1 .. Len(v)) /\ n + Len(r) = Len(v) /\ Len(D) = Len(v)
      /\ \A k \in 1 .. n : /\ Place(st, v, st.pending[k]) \in Answering(st, v)
                           /\ v[Place(st, v, st.pending[k])].id = st.pending[k]
                           /\ D[k] = Block("tool_result", v[Place(st, v, st.pending[k])])
      /\ \A k \in 1 .. Len(r) : D[n + k] = Block("text", v[r[k]])
  BY <1>1 DEF BlocksAre
<1>7. ASSUME NEW k \in 1 .. n PROVE B[k] = D[k]
  <2> DEFINE i == Place(st, t, st.pending[k])
             j == Place(st, v, st.pending[k])
  <2>1. /\ i \in Answering(st, t) /\ t[i].id = st.pending[k] /\ B[k] = Block("tool_result", t[i])
        /\ j \in Answering(st, v) /\ v[j].id = st.pending[k] /\ D[k] = Block("tool_result", v[j])
    BY <1>5, <1>6
  <2> HIDE DEF i, j
  <2>2. i \in 1 .. Len(t)
    BY <2>1 DEF AnswersOK
  <2>3. i \in Answering(st, v) /\ v[i] = t[i]
    BY <1>2, <1>3, <2>1, <2>2
  <2>4. i = j
    BY <2>1, <2>3, Zenon DEF AnswersOK
  <2> QED
    BY <2>1, <2>3, <2>4
<1>8. ASSUME NEW k \in 1 .. Len(o) PROVE B[n + k] = D[n + k]
  <2>1. o[k] \in 1 .. Len(t) /\ k \in 1 .. Len(r) /\ o[k] = r[k]
    <3>1. o \in Seq(1 .. Len(t)) /\ r \in Seq(1 .. Len(v))
      BY <1>5, <1>6
    <3>2. Len(o) <= Len(r) /\ \A i \in 1 .. Len(o) : o[i] = r[i]
      BY <1>4 DEF Begins
    <3> QED
      BY <3>1, <3>2
  <2>2. t[o[k]] = v[r[k]]
    BY <1>2, <2>1
  <2> QED
    BY <1>5, <1>6, <2>1, <2>2
<1>9. ASSUME NEW k \in 1 .. Len(B) PROVE B[k] = D[k]
  <2>1. CASE k \in 1 .. n
    BY <1>7, <2>1
  <2>2. CASE ~(k \in 1 .. n)
    <3>1. k - n \in 1 .. Len(o) /\ n + (k - n) = k
      BY <1>2, <1>5, <2>2
    <3> QED
      BY <1>8, <3>1
  <2> QED
    BY <2>1, <2>2
<1>10. Len(B) <= Len(D)
  BY <1>2, <1>5, <1>6
<1> QED
  BY <1>9, <1>10 DEF Begins, B, D

(* So does that of a longer turn of the assistant.                         *)
LEMMA AssistantBegins ==
  ASSUME NEW t \in Seq(Sendable), NEW v \in Seq(Sendable), Begins(t, v)
  PROVE  Begins(AssistantMessage(t).blocks, AssistantMessage(v).blocks)
<1> DEFINE g(y) == Block(IF y.kind = "call" THEN "tool_use" ELSE "text", y)
           B == [k \in 1 .. Len(t) |-> g(t[k])]
           D == [k \in 1 .. Len(v) |-> g(v[k])]
<1>1. /\ Len(t) \in Nat /\ Len(v) \in Nat /\ Len(t) <= Len(v)
      /\ DOMAIN t = 1 .. Len(t) /\ DOMAIN v = 1 .. Len(v)
      /\ \A k \in 1 .. Len(t) : t[k] = v[k] /\ k \in 1 .. Len(v)
  BY DEF Begins
<1>2. AssistantMessage(t).blocks = B /\ AssistantMessage(v).blocks = D
  BY <1>1 DEF AssistantMessage
<1> HIDE DEF g
<1>3. Len(B) = Len(t) /\ Len(D) = Len(v)
  BY <1>1
<1>4. \A k \in 1 .. Len(t) : B[k] = D[k]
  BY <1>1
<1> HIDE DEF B, D
<1>5. Begins(B, D)
  BY <1>1, <1>3, <1>4 DEF Begins
<1> QED
  BY <1>2, <1>5

(* Sequences that begin alike.                                             *)
LEMMA BeginsBy ==
  ASSUME NEW X, NEW u \in Seq(X), NEW v \in Seq(X), NEW w \in Seq(X)
  PROVE  /\ Begins(u, u)
         /\ Begins(<<>>, u)
         /\ Begins(u, v) => Begins(u, v \o w)
         /\ Begins(v, w) => Begins(u \o v, u \o w)
<1>1. /\ Len(u) \in Nat /\ Len(v) \in Nat /\ Len(w) \in Nat
  OBVIOUS
<1>2. Begins(u, u) /\ Begins(<<>>, u)
  BY DEF Begins
<1>3. Begins(u, v) => Begins(u, v \o w)
  <2> DEFINE z == v \o w
  <2>1. Len(z) = Len(v) + Len(w) /\ \A k \in 1 .. Len(v) : z[k] = v[k]
    BY ConcatIs
  <2> HIDE DEF z
  <2>2. Begins(u, v) => Begins(u, z)
    BY <1>1, <2>1 DEF Begins
  <2> QED
    BY <2>2 DEF z
<1>4. ASSUME Begins(v, w) PROVE Begins(u \o v, u \o w)
  <2> DEFINE y == u \o v
             z == u \o w
  <2>1. /\ Len(y) = Len(u) + Len(v) /\ \A k \in 1 .. Len(u) : y[k] = u[k]
        /\ \A k \in 1 .. Len(v) : y[Len(u) + k] = v[k]
        /\ Len(z) = Len(u) + Len(w) /\ \A k \in 1 .. Len(u) : z[k] = u[k]
        /\ \A k \in 1 .. Len(w) : z[Len(u) + k] = w[k]
    BY ConcatIs
  <2> HIDE DEF y, z
  <2>2. Len(v) <= Len(w) /\ \A k \in 1 .. Len(v) : v[k] = w[k]
    BY <1>4 DEF Begins
  <2>3. ASSUME NEW k \in 1 .. Len(y) PROVE y[k] = z[k]
    <3>1. CASE k \in 1 .. Len(u)
      BY <2>1, <3>1
    <3>2. CASE ~(k \in 1 .. Len(u))
      <4>1. k - Len(u) \in 1 .. Len(v) /\ k - Len(u) \in 1 .. Len(w) /\ Len(u) + (k - Len(u)) = k
        BY <1>1, <2>1, <2>2, <3>2
      <4> QED
        BY <2>1, <2>2, <4>1
    <3> QED
      BY <3>1, <3>2
  <2>4. Begins(y, z)
    BY <1>1, <2>1, <2>2, <2>3 DEF Begins
  <2> QED
    BY <2>4 DEF y, z
<1> QED
  BY <1>2, <1>3, <1>4

(* Two turns that begin at the same item.                                  *)
LEMMA SameTurn ==
  ASSUME NEW s, NEW q \in Nat, NEW p \in TurnStart(s, q) .. q, q # 0
  PROVE  TurnStart(s, p) = TurnStart(s, q) /\ p # 0 /\ p \in Nat /\ (IsUser(s[p]) <=> IsUser(s[q]))
<1> DEFINE b == TurnStart(s, q)
           c == TurnStart(s, p)
<1>1. /\ b \in 1 .. q
      /\ \A k \in b .. q : ItemRole(s[k]) = ItemRole(s[q])
      /\ b # 1 => ItemRole(s[b - 1]) # ItemRole(s[q])
  BY TurnStartIs
<1>2. p \in b .. q
  OBVIOUS
<1> HIDE DEF b
<1>3. p \in Nat /\ p # 0 /\ ItemRole(s[p]) = ItemRole(s[q])
  BY <1>1, <1>2
<1>4. /\ c \in 1 .. p
      /\ \A k \in c .. p : ItemRole(s[k]) = ItemRole(s[p])
      /\ c # 1 => ItemRole(s[c - 1]) # ItemRole(s[p])
  BY <1>3, TurnStartIs
<1> HIDE DEF c
<1>5. ~(c < b)
  <2> SUFFICES ASSUME c < b PROVE FALSE
    OBVIOUS
  <2>1. b # 1 /\ b - 1 \in c .. p
    BY <1>1, <1>2, <1>4
  <2> QED
    BY <1>1, <1>3, <1>4, <2>1
<1>6. ~(b < c)
  <2> SUFFICES ASSUME b < c PROVE FALSE
    OBVIOUS
  <2>1. c # 1 /\ c - 1 \in b .. q
    BY <1>1, <1>2, <1>4
  <2> QED
    BY <1>1, <1>3, <1>4, <2>1
<1>7. b = c
  BY <1>1, <1>4, <1>5, <1>6
<1>8. IsUser(s[p]) <=> IsUser(s[q])
  BY <1>3, RoleIs
<1> QED
  BY <1>3, <1>7, <1>8 DEF b, c

(* The blocks sent for the first p items.                                  *)
WireTo(s, p) == Wire(Converted(s, p).messages)

(* One block for each item.                                                *)
LEMMA WireToIs ==
  ASSUME NEW s \in Seq(Sendable), CallsOrdered(s), NEW p \in 0 .. Len(s), PromptTo(s, p)
  PROVE  WireTo(s, p) \in Seq(Sending) /\ Len(WireTo(s, p)) = p
<1>1. SentOK(s, p, Converted(s, p).pending, Converted(s, p).messages)
  BY ConversionOK DEF ConvertedOK
<1> QED
  BY <1>1 DEF SentOK, WireTo

(* Within one turn, nothing sent is changed by what follows.               *)
LEMMA TurnBegins ==
  ASSUME NEW s \in Seq(Sendable), CallsOrdered(s), NEW q \in 1 .. Len(s), PromptTo(s, q),
         NEW p \in TurnStart(s, q) .. q, PromptTo(s, p)
  PROVE  Begins(WireTo(s, p), WireTo(s, q))
<1> DEFINE b == TurnStart(s, q)
           a == b - 1
           t == SubSeq(s, b, p)
           v == SubSeq(s, b, q)
           st == Converted(s, a)
           x == TurnMessage(st, t, s[p])
           y == TurnMessage(st, v, s[q])
<1>1. /\ q \in Nat /\ q # 0 /\ Len(s) \in Nat /\ b \in 1 .. q
  BY TurnStartIs
<1>2. TurnStart(s, p) = b /\ p # 0 /\ p \in Nat /\ (IsUser(s[p]) <=> IsUser(s[q]))
  BY <1>1, SameTurn
<1>3. p \in 1 .. Len(s) /\ p <= q
  <2>1. p \in b .. q
    OBVIOUS
  <2> HIDE DEF b
  <2> QED
    BY <1>1, <2>1
<1>4. /\ TurnIs(s, a, p, t) /\ ConvertedOK(s, a, st) /\ x \in Message
      /\ Wire(st.messages) \in Seq(Sending)
      /\ WireTo(s, p) = Wire(st.messages) \o SentIn(x)
  BY <1>2, <1>3, TurnStep, Zenon DEF WireTo
<1>5. /\ TurnIs(s, a, q, v) /\ y \in Message
      /\ WireTo(s, q) = Wire(st.messages) \o SentIn(y)
  BY TurnStep, Zenon DEF WireTo
<1> HIDE DEF b, a, t, v, st
<1>6. /\ t \in Seq(Sendable) /\ v \in Seq(Sendable)
      /\ Len(t) = p - a /\ Len(v) = q - a /\ a \in Nat /\ a < p
      /\ \A i \in 1 .. p - a : t[i] = s[a + i]
      /\ \A i \in 1 .. q - a : v[i] = s[a + i]
  BY <1>4, <1>5 DEF TurnIs
<1>7. Begins(t, v)
  <2>1. \A i \in 1 .. p - a : i \in 1 .. q - a
    BY <1>1, <1>2, <1>3, <1>6
  <2>2. Len(t) <= Len(v)
    BY <1>1, <1>2, <1>3, <1>6
  <2>3. \A i \in 1 .. Len(t) : t[i] = v[i]
    BY <1>6, <2>1
  <2> QED
    BY <2>2, <2>3 DEF Begins
<1>8. Begins(x.blocks, y.blocks)
  <2>1. CASE IsUser(s[p])
    <3>1. x = UserMessage(st, t) /\ y = UserMessage(st, v)
      BY <1>2, <2>1 DEF TurnMessage
    <3>2. AnswersOK(st, t) /\ AnswersOK(st, v)
      BY <1>2, <1>4, <1>5, <2>1, AnsweringIs
    <3>3. /\ st.pending \in Seq(IdsTo(s, a, "call"))
          /\ \A i, j \in 1 .. Len(st.pending) : st.pending[i] = st.pending[j] => i = j
      BY <1>4 DEF ConvertedOK
    <3> DEFINE I == IdsTo(s, a, "call")
    <3> HIDE DEF x, y, I
    <3>4. Begins(UserMessage(st, t).blocks, UserMessage(st, v).blocks)
      <4>1. st.pending \in Seq(I)
        BY <3>3 DEF I
      <4> QED
        BY <1>6, <1>7, <3>2, <3>3, <4>1, UserBegins, Zenon
    <3> QED
      BY <3>1, <3>4
  <2>2. CASE ~IsUser(s[p])
    <3>1. x = AssistantMessage(t) /\ y = AssistantMessage(v)
      BY <1>2, <2>2 DEF TurnMessage
    <3> QED
      BY <1>6, <1>7, <3>1, AssistantBegins
  <2> QED
    BY <2>1, <2>2
<1>9. x.role = y.role
  <2>1. CASE IsUser(s[p])
    BY <1>2, <2>1 DEF TurnMessage, UserMessage
  <2>2. CASE ~IsUser(s[p])
    BY <1>2, <2>2 DEF TurnMessage, AssistantMessage
  <2> QED
    BY <2>1, <2>2
<1> HIDE DEF x, y
<1>10. Begins(SentIn(x), SentIn(y))
  <2>1. /\ Len(SentIn(x)) = Len(x.blocks) /\ Len(x.blocks) \in Nat
        /\ \A k \in 1 .. Len(x.blocks) : SentIn(x)[k] = [role |-> x.role, block |-> x.blocks[k]]
    BY <1>4, SentInIs
  <2>2. /\ Len(SentIn(y)) = Len(y.blocks) /\ Len(y.blocks) \in Nat
        /\ \A k \in 1 .. Len(y.blocks) : SentIn(y)[k] = [role |-> y.role, block |-> y.blocks[k]]
    BY <1>5, SentInIs
  <2>3. Len(x.blocks) <= Len(y.blocks) /\ \A k \in 1 .. Len(x.blocks) : x.blocks[k] = y.blocks[k]
    BY <1>8 DEF Begins
  <2>4. ASSUME NEW k \in 1 .. Len(x.blocks) PROVE SentIn(x)[k] = SentIn(y)[k]
    <3>1. k \in 1 .. Len(y.blocks)
      BY <2>1, <2>2, <2>3
    <3>2. SentIn(x)[k] = [role |-> x.role, block |-> x.blocks[k]]
      BY <2>1
    <3>3. SentIn(y)[k] = [role |-> y.role, block |-> y.blocks[k]]
      BY <2>2, <3>1
    <3>4. x.blocks[k] = y.blocks[k]
      BY <2>3
    <3> QED
      BY <1>9, <3>2, <3>3, <3>4
  <2> QED
    BY <2>1, <2>2, <2>3, <2>4 DEF Begins
<1>11. SentIn(x) \in Seq(Sending) /\ SentIn(y) \in Seq(Sending)
  BY <1>4, <1>5, SentInIs
<1> QED
  BY <1>4, <1>5, <1>10, <1>11, BeginsBy

(* Nothing sent is changed by what follows.                                *)
LEMMA WireBegins ==
  ASSUME NEW s \in Seq(Sendable), CallsOrdered(s)
  PROVE  \A q \in 0 .. Len(s) : \A p \in 0 .. q :
           PromptTo(s, p) /\ PromptTo(s, q) => Begins(WireTo(s, p), WireTo(s, q))
<1> DEFINE G(q) == \A p \in 0 .. q :
                     PromptTo(s, p) /\ PromptTo(s, q) => Begins(WireTo(s, p), WireTo(s, q))
           T == {k \in Nat : \A q \in 0 .. k : q <= Len(s) => G(q)}
<1>1. Len(s) \in Nat
  OBVIOUS
<1>2. 0 \in T
  <2>1. \A q \in 0 .. 0 : q = 0
    OBVIOUS
  <2>2. ASSUME PromptTo(s, 0) PROVE Begins(WireTo(s, 0), WireTo(s, 0))
    <3>1. 0 \in 0 .. Len(s)
      BY <1>1
    <3>2. WireTo(s, 0) \in Seq(Sending)
      BY <2>2, <3>1, WireToIs
    <3> QED
      BY <3>2, BeginsBy
  <2>3. G(0)
    BY <2>1, <2>2
  <2> HIDE DEF G
  <2> QED
    BY <2>1, <2>3
<1>3. ASSUME NEW k \in T PROVE k + 1 \in T
  <2> SUFFICES ASSUME k + 1 <= Len(s), NEW p \in 0 .. k + 1, PromptTo(s, p), PromptTo(s, k + 1)
               PROVE  Begins(WireTo(s, p), WireTo(s, k + 1))
    <3>1. \A q \in 0 .. k + 1 : q \in 0 .. k \/ q = k + 1
      OBVIOUS
    <3>2. k + 1 <= Len(s) => G(k + 1)
      OBVIOUS
    <3> HIDE DEF G
    <3> QED
      BY <3>1, <3>2
  <2> DEFINE q == k + 1
             b == TurnStart(s, q)
             a == b - 1
             t == SubSeq(s, b, q)
             st == Converted(s, a)
             x == TurnMessage(st, t, s[q])
  <2>1. q \in 1 .. Len(s) /\ q \in Nat /\ q # 0
    BY <1>1
  <2>2. b \in 1 .. q
    BY <2>1, TurnStartIs
  <2>3. CASE p \in b .. q
    BY <2>1, <2>3, TurnBegins DEF b
  <2>4. CASE ~(p \in b .. q)
    <3>1. /\ PromptTo(s, a) /\ x \in Message /\ WireTo(s, a) \in Seq(Sending)
          /\ WireTo(s, q) = WireTo(s, a) \o SentIn(x)
      BY <2>1, TurnStep, Zenon DEF WireTo
    <3> HIDE DEF b, x
    <3>2. a \in 0 .. k /\ a <= Len(s) /\ p \in 0 .. a /\ p \in 0 .. Len(s)
      BY <1>1, <2>1, <2>2, <2>4
    <3>3. G(a)
      <4> HIDE DEF G
      <4> QED
        BY <3>2
    <3>4. Begins(WireTo(s, p), WireTo(s, a))
      BY <3>1, <3>2, <3>3
    <3>5. SentIn(x) \in Seq(Sending) /\ WireTo(s, p) \in Seq(Sending)
      BY <3>1, <3>2, SentInIs, WireToIs
    <3> HIDE DEF a, q
    <3>6. Begins(WireTo(s, p), WireTo(s, a) \o SentIn(x))
      BY <3>1, <3>4, <3>5, BeginsBy
    <3>7. Begins(WireTo(s, p), WireTo(s, q))
      BY <3>1, <3>6
    <3> QED
      BY <3>7 DEF q
  <2> QED
    BY <2>3, <2>4
<1> HIDE DEF T
<1>4. T = Nat
  BY <1>2, <1>3, Induction DEF T
<1> QED
  BY <1>1, <1>4 DEF T

-----------------------------------------------------------------------------
(* The calls of the context are answered in time.                          *)

(* From q on there are items of the assistant and then items of the user.  *)
OpenAt(s, q) == \A x, y \in q .. Len(s) : x < y /\ IsUser(s[x]) => IsUser(s[y])

(* The calls U have no result yet, but may still get one in time; all      *)
(* others have theirs.                                                     *)
CallPrompt(s, U) ==
  \A q \in 1 .. Len(s) : s[q].kind = "call" =>
    IF s[q].id \in U THEN OpenAt(s, q) ELSE SettledBy(s, q, Len(s))

(* Histories with the same calls and results at the same places.           *)
Alike(s, t, n) == \A k \in 1 .. n : s[k].kind = t[k].kind /\ s[k].id = t[k].id

(* In both, the same calls have their result in time.                      *)
LEMMA AlikeIs ==
  ASSUME NEW s, NEW t, NEW n \in Nat, Alike(s, t, n)
  PROVE  /\ \A m \in 0 .. n : PromptTo(s, m) => PromptTo(t, m)
         /\ \A m \in 0 .. n : FullTo(s, m) => FullTo(t, m)
         /\ \A m \in 0 .. n, q \in 1 .. n : SettledBy(s, q, m) => SettledBy(t, q, m)
<1>1. \A k \in 1 .. n : /\ s[k].kind = t[k].kind /\ s[k].id = t[k].id
                        /\ IsUser(s[k]) <=> IsUser(t[k])
  BY DEF Alike, IsUser
<1>2. ASSUME NEW m \in 0 .. n, NEW q \in 1 .. n, SettledBy(s, q, m) PROVE SettledBy(t, q, m)
  <2>1. PICK r \in 1 .. m : Settled(s, q, r)
    BY <1>2 DEF SettledBy
  <2>2. /\ q < r /\ s[r].kind = "result" /\ s[r].id = s[q].id /\ r \in 1 .. n
        /\ \A x, y \in q .. r : x < y /\ IsUser(s[x]) => IsUser(s[y])
    BY <2>1 DEF Settled
  <2>3. t[r].kind = "result" /\ t[r].id = t[q].id
    BY <1>1, <2>2
  <2>4. \A x \in q .. r : x \in 1 .. n
    OBVIOUS
  <2>5. \A x, y \in q .. r : x < y /\ IsUser(t[x]) => IsUser(t[y])
    BY <1>1, <2>2, <2>4
  <2> QED
    BY <2>2, <2>3, <2>5 DEF Settled, SettledBy
<1>3. ASSUME NEW m \in 0 .. n, PromptTo(s, m) PROVE PromptTo(t, m)
  <2> SUFFICES ASSUME NEW q \in 1 .. m, t[q].kind = "call",
                      ~(\A x \in q .. m : ~IsUser(t[x]))
               PROVE  SettledBy(t, q, m)
    BY DEF PromptTo
  <2>1. q \in 1 .. n /\ s[q].kind = "call" /\ \A x \in q .. m : x \in 1 .. n
    BY <1>1
  <2>2. ~(\A x \in q .. m : ~IsUser(s[x]))
    BY <1>1, <2>1
  <2>3. SettledBy(s, q, m)
    BY <1>3, <2>1, <2>2 DEF PromptTo
  <2> QED
    BY <1>2, <2>1, <2>3
<1>4. ASSUME NEW m \in 0 .. n, FullTo(s, m) PROVE FullTo(t, m)
  <2> SUFFICES ASSUME NEW q \in 1 .. m, t[q].kind = "call" PROVE SettledBy(t, q, m)
    BY DEF FullTo
  <2>1. q \in 1 .. n /\ s[q].kind = "call"
    BY <1>1
  <2>2. SettledBy(s, q, m)
    BY <1>4, <2>1 DEF FullTo
  <2> QED
    BY <1>2, <2>1, <2>2
<1> QED
  BY <1>2, <1>3, <1>4

(* What is answered stays so, and what is answered in full is in time.     *)
LEMMA SettledFurther ==
  ASSUME NEW s, NEW m \in Nat, NEW n \in Nat, m <= n
  PROVE  /\ \A q : SettledBy(s, q, m) => SettledBy(s, q, n)
         /\ FullTo(s, m) => PromptTo(s, m)
<1>1. 1 .. m \subseteq 1 .. n
  OBVIOUS
<1> QED
  BY <1>1 DEF SettledBy, FullTo, PromptTo

(* An item of the user at the end: an input, or the status of a call.      *)
LEMMA AppendPrompt ==
  ASSUME NEW s \in Seq(Item), NEW x \in Item, IsUser(x), NEW U, NEW V \in SUBSET U,
         CallPrompt(s, U), \A c \in U \ V : x.kind = "result" /\ x.id = c
  PROVE  /\ CallPrompt(Append(s, x), V)
         /\ Alike(s, Append(s, x), Len(s)) /\ Append(s, x) # <<>>
<1> DEFINE t == Append(s, x)
           n == Len(s)
<1>1. /\ t \in Seq(Item) /\ n \in Nat /\ Len(t) = n + 1 /\ t[n + 1] = x
      /\ \A k \in 1 .. n : t[k] = s[k]
  BY AppendIs
<1> HIDE DEF t, n
<1>2. Alike(s, t, n)
  BY <1>1 DEF Alike
<1>3. t # <<>>
  BY <1>1
<1>4. ASSUME NEW q \in 1 .. Len(t), t[q].kind = "call"
      PROVE  IF t[q].id \in V THEN OpenAt(t, q) ELSE SettledBy(t, q, Len(t))
  <2>1. q # n + 1
    BY <1>1, <1>4 DEF IsUser
  <2>2. q \in 1 .. n /\ s[q] = t[q] /\ q \in Nat
    BY <1>1, <2>1
  <2>3. IF s[q].id \in U THEN OpenAt(s, q) ELSE SettledBy(s, q, n)
    BY <1>4, <2>2 DEF CallPrompt, n
  <2>4. ASSUME OpenAt(s, q) PROVE \A a, b \in q .. n + 1 : a < b /\ IsUser(t[a]) => IsUser(t[b])
    <3> SUFFICES ASSUME NEW a \in q .. n + 1, NEW b \in q .. n + 1, a < b, IsUser(t[a])
                 PROVE  IsUser(t[b])
      OBVIOUS
    <3>1. a \in q .. n /\ a \in 1 .. n
      BY <1>1, <2>2
    <3>2. CASE b = n + 1
      BY <1>1, <3>2
    <3>3. CASE b # n + 1
      <4>1. b \in q .. n /\ b \in 1 .. n
        BY <1>1, <2>2, <3>3
      <4> QED
        BY <1>1, <2>4, <3>1, <4>1 DEF OpenAt, n
    <3> QED
      BY <3>2, <3>3
  <2>5. CASE t[q].id \in V
    BY <1>1, <2>2, <2>3, <2>4, <2>5 DEF OpenAt
  <2>6. CASE t[q].id \in U \ V
    <3>1. n + 1 \in 1 .. n + 1 /\ q < n + 1 /\ t[n + 1].kind = "result" /\ t[n + 1].id = t[q].id
      BY <1>1, <2>2, <2>6
    <3>2. OpenAt(s, q)
      BY <2>2, <2>3, <2>6
    <3>3. Settled(t, q, n + 1)
      BY <2>4, <3>1, <3>2 DEF Settled
    <3> QED
      BY <1>1, <2>6, <3>1, <3>3 DEF SettledBy
  <2>7. CASE t[q].id \notin U
    <3>1. SettledBy(s, q, n)
      BY <2>2, <2>3, <2>7
    <3>2. SettledBy(t, q, n)
      BY <1>1, <1>2, <2>2, <3>1, AlikeIs
    <3>3. SettledBy(t, q, n + 1)
      <4>1. n + 1 \in Nat /\ n <= n + 1
        BY <1>1
      <4> QED
        BY <1>1, <3>2, <4>1, SettledFurther
    <3> QED
      BY <1>1, <2>7, <3>3
  <2> QED
    BY <2>5, <2>6, <2>7
<1> QED
  BY <1>2, <1>3, <1>4 DEF CallPrompt, t, n

(* A running result is replaced by the final one.                          *)
LEMMA ReplacePrompt ==
  ASSUME NEW s \in Seq(Item), NEW k \in 1 .. Len(s), NEW x \in Item,
         s[k].kind = x.kind, s[k].id = x.id, NEW U, CallPrompt(s, U)
  PROVE  /\ CallPrompt(Replaced(s, k, x), U)
         /\ Alike(s, Replaced(s, k, x), Len(s)) /\ Replaced(s, k, x) # <<>>
<1> DEFINE t == Replaced(s, k, x)
           n == Len(s)
<1>1. /\ t \in Seq(Item) /\ n \in Nat /\ Len(t) = n
      /\ \A q \in 1 .. n : t[q] = IF q = k THEN x ELSE s[q]
  BY ReplaceIs DEF Replaced
<1>2. Alike(s, t, n)
  BY <1>1 DEF Alike
<1>3. t # <<>>
  BY <1>1
<1> HIDE DEF t, n
<1>4. \A q \in 1 .. n : /\ s[q].kind = t[q].kind /\ s[q].id = t[q].id
                        /\ IsUser(s[q]) <=> IsUser(t[q])
  BY <1>2 DEF Alike, IsUser
<1>5. ASSUME NEW q \in 1 .. Len(t), t[q].kind = "call"
      PROVE  IF t[q].id \in U THEN OpenAt(t, q) ELSE SettledBy(t, q, Len(t))
  <2>1. q \in 1 .. n /\ s[q].kind = "call" /\ s[q].id = t[q].id
    BY <1>1, <1>4, <1>5
  <2>2. IF s[q].id \in U THEN OpenAt(s, q) ELSE SettledBy(s, q, n)
    BY <2>1 DEF CallPrompt, n
  <2>3. SettledBy(s, q, n) => SettledBy(t, q, n)
    BY <1>1, <1>2, <2>1, AlikeIs
  <2>4. \A a \in q .. n : a \in 1 .. n
    BY <1>1, <2>1
  <2>5. OpenAt(s, q) => OpenAt(t, q)
    BY <1>1, <1>4, <2>4 DEF OpenAt, n
  <2> QED
    BY <1>1, <2>1, <2>2, <2>3, <2>5
<1> QED
  BY <1>2, <1>3, <1>5 DEF CallPrompt, t, n

(* An answer with the calls C is inserted behind what was committed, all   *)
(* of which is answered; what is staged are items of the user.             *)
LEMMA InsertPrompt ==
  ASSUME NEW A \in Seq(Item), NEW O \in Seq(Item), NEW B \in Seq(Item), NEW C,
         FullTo(A \o B, Len(A)),
         \A k \in 1 .. Len(B) : IsUser(B[k]),
         \A k \in 1 .. Len(O) : ~IsUser(O[k]),
         \A k \in 1 .. Len(O) : O[k].kind = "call" => O[k].id \in C,
         \A k \in 1 .. Len(A) : A[k].kind = "call" => A[k].id \notin C
  PROVE  /\ CallPrompt((A \o O) \o B, C)
         /\ Alike(A \o B, (A \o O) \o B, Len(A))
         /\ PromptTo((A \o O) \o B, Len(A \o O))
<1> DEFINE s == A \o B
           t == (A \o O) \o B
           a == Len(A)
           o == Len(O)
           b == Len(B)
<1>1. /\ t \in Seq(Item) /\ Len(t) = a + o + b /\ a \in Nat /\ o \in Nat /\ b \in Nat
      /\ \A p \in 1 .. a : t[p] = A[p] /\ s[p] = A[p]
      /\ \A p \in 1 .. o : t[a + p] = O[p]
      /\ \A p \in 1 .. b : t[a + o + p] = B[p]
  BY InsertedIs
<1>2. Len(A \o O) = a + o
  BY ConcatIs
<1>3. FullTo(s, a)
  OBVIOUS
<1> HIDE DEF s, t, a, o, b
<1>4. Alike(s, t, a)
  BY <1>1 DEF Alike
<1>5. ASSUME NEW p \in a + 1 .. a + o
      PROVE  ~IsUser(t[p]) /\ (t[p].kind = "call" => t[p].id \in C)
  <2>1. p - a \in 1 .. o /\ a + (p - a) = p
    BY <1>1
  <2>2. t[p] = O[p - a]
    BY <1>1, <2>1
  <2> QED
    BY <2>1, <2>2 DEF o
<1>6. ASSUME NEW p \in a + o + 1 .. a + o + b PROVE IsUser(t[p])
  <2>1. p - (a + o) \in 1 .. b /\ a + o + (p - (a + o)) = p
    BY <1>1
  <2>2. t[p] = B[p - (a + o)]
    BY <1>1, <2>1
  <2> QED
    BY <2>1, <2>2 DEF b
<1>7. FullTo(t, a)
  BY <1>1, <1>3, <1>4, AlikeIs
<1>8. ASSUME NEW q \in 1 .. a, t[q].kind = "call", NEW n \in Nat, a <= n
      PROVE  SettledBy(t, q, n) /\ t[q].id \notin C
  <2>1. SettledBy(t, q, a)
    BY <1>7, <1>8 DEF FullTo
  <2>2. t[q] = A[q]
    BY <1>1
  <2> QED
    BY <1>1, <1>8, <2>1, <2>2, SettledFurther DEF a
<1>9. ASSUME NEW q \in 1 .. Len(t), t[q].kind = "call"
      PROVE  IF t[q].id \in C THEN OpenAt(t, q) ELSE SettledBy(t, q, Len(t))
  <2>1. CASE q \in 1 .. a
    <3>1. Len(t) \in Nat /\ a <= Len(t)
      BY <1>1
    <3> QED
      BY <1>8, <1>9, <2>1, <3>1
  <2>2. CASE q \in a + 1 .. a + o
    <3>1. t[q].id \in C
      BY <1>5, <1>9, <2>2
    <3>2. ASSUME NEW x \in q .. Len(t), NEW y \in q .. Len(t), x < y, IsUser(t[x])
          PROVE  IsUser(t[y])
      <4>1. x \notin a + 1 .. a + o
        BY <1>5, <3>2
      <4>2. y \in a + o + 1 .. a + o + b
        BY <1>1, <2>2, <3>2, <4>1
      <4> QED
        BY <1>6, <4>2
    <3> QED
      BY <3>1, <3>2 DEF OpenAt
  <2>3. CASE q \in a + o + 1 .. a + o + b
    BY <1>6, <1>9, <2>3, RoleIs
  <2> QED
    BY <1>1, <2>1, <2>2, <2>3
<1>10. PromptTo(t, a + o)
  <2> SUFFICES ASSUME NEW q \in 1 .. a + o, t[q].kind = "call"
               PROVE  (\A x \in q .. a + o : ~IsUser(t[x])) \/ SettledBy(t, q, a + o)
    BY DEF PromptTo
  <2>1. CASE q \in 1 .. a
    <3>1. a + o \in Nat /\ a <= a + o
      BY <1>1
    <3> QED
      BY <1>8, <2>1, <3>1
  <2>2. CASE q \in a + 1 .. a + o
    <3>1. \A x \in q .. a + o : x \in a + 1 .. a + o
      BY <1>1, <2>2
    <3> QED
      BY <1>5, <3>1
  <2> QED
    BY <1>1, <2>1, <2>2
<1> QED
  BY <1>2, <1>4, <1>9, <1>10 DEF CallPrompt, s, t, a, o, b

(* What a compaction puts in the place of the first k items of a history   *)
(* s: its calls have their results directly behind them, or neither there  *)
(* nor in s, from the call on, is there an item of the user.               *)
HeadOK(s, k, H) ==
  \A q \in 1 .. Len(H) : H[q].kind = "call" =>
    \/ q + 1 <= Len(H) /\ H[q + 1].kind = "result" /\ H[q + 1].id = H[q].id
    \/ /\ \A x \in q .. Len(H) : ~IsUser(H[x])
       /\ \E i \in 1 .. k : /\ s[i].kind = "call" /\ s[i].id = H[q].id
                            /\ \A x \in i .. k : ~IsUser(s[x])

(* Behind such a head, results are in time as they were before.            *)
LEMMA CompactPrompt ==
  ASSUME NEW P \in Seq(Item), NEW Q \in Seq(Item), NEW H \in Seq(Item),
         HeadOK(P \o Q, Len(P), H), NEW m \in Len(P) .. Len(P \o Q)
  PROVE  /\ PromptTo(P \o Q, m) => PromptTo(H \o Q, m - Len(P) + Len(H))
         /\ FullTo(P \o Q, m) => FullTo(H \o Q, m - Len(P) + Len(H))
<1> DEFINE s == P \o Q
           t == H \o Q
           k == Len(P)
           h == Len(H)
           l == Len(Q)
           n == m - k + h
<1>1. /\ Len(s) = k + l /\ Len(t) = h + l /\ k \in Nat /\ h \in Nat /\ l \in Nat
      /\ \A p \in 1 .. l : s[k + p] = Q[p] /\ t[h + p] = Q[p]
      /\ \A p \in 1 .. h : t[p] = H[p]
  BY ConcatIs
<1>2. HeadOK(s, k, H) /\ m \in k .. Len(s)
  OBVIOUS
<1> HIDE DEF s, t, k, h, l
<1>3. m \in Nat /\ n \in h .. h + l /\ n \in Nat /\ n - h = m - k
  BY <1>1, <1>2
<1>4. ASSUME NEW p \in h + 1 .. n PROVE t[p] = s[p - h + k] /\ p - h + k \in k + 1 .. m
  <2>1. p - h \in 1 .. l /\ h + (p - h) = p /\ k + (p - h) = p - h + k /\ p - h + k \in k + 1 .. m
    BY <1>1, <1>3
  <2> QED
    BY <1>1, <2>1
<1> HIDE DEF n
<1>5. ASSUME NEW i \in 1 .. m, NEW q \in 1 .. n, NEW r \in 1 .. m, Settled(s, i, r), r > k,
             t[q].id = s[i].id,
             \A x \in q .. n : x > h => x - h + k \in i .. m,
             \A x \in q .. n : x <= h => ~IsUser(t[x]),
             q < r - k + h
      PROVE  SettledBy(t, q, n)
  <2> DEFINE w == r - k + h
  <2>1. w \in 1 .. n /\ w \in h + 1 .. n /\ w - h + k = r /\ q < w
    BY <1>1, <1>3, <1>5
  <2> HIDE DEF w
  <2>2. s[r].kind = "result" /\ s[r].id = s[i].id
    BY <1>5 DEF Settled
  <2>3. t[w].kind = "result" /\ t[w].id = t[q].id
    BY <1>4, <1>5, <2>1, <2>2
  <2>4. ASSUME NEW x \in q .. w, NEW y \in q .. w, x < y, IsUser(t[x]) PROVE IsUser(t[y])
    <3>1. x \in q .. n /\ y \in q .. n
      BY <1>3, <2>1
    <3>2. x > h
      BY <1>1, <1>5, <2>4, <3>1
    <3>3. x \in h + 1 .. n /\ y \in h + 1 .. n
      BY <1>1, <2>4, <3>1, <3>2
    <3>4. x - h + k \in i .. r /\ y - h + k \in i .. r /\ x - h + k < y - h + k
      BY <1>1, <1>5, <2>1, <2>4, <3>1, <3>3
    <3>5. t[x] = s[x - h + k] /\ t[y] = s[y - h + k]
      BY <1>4, <3>3
    <3> QED
      BY <1>5, <2>4, <3>4, <3>5 DEF Settled
  <2>5. Settled(t, q, w)
    BY <2>1, <2>3, <2>4 DEF Settled
  <2> QED
    BY <2>1, <2>5 DEF SettledBy
<1>6. ASSUME NEW q \in 1 .. n, t[q].kind = "call"
      PROVE  /\ PromptTo(s, m) => (\A x \in q .. n : ~IsUser(t[x])) \/ SettledBy(t, q, n)
             /\ FullTo(s, m) => SettledBy(t, q, n)
  <2>1. CASE q > h
    <3> DEFINE i == q - h + k
    <3>1. q \in h + 1 .. n /\ i \in k + 1 .. m /\ i \in 1 .. m /\ i \in Nat
      BY <1>1, <1>3, <2>1
    <3>2. t[q] = s[i]
      BY <1>4, <3>1
    <3>3. /\ \A x \in q .. n : x > h /\ x - h + k \in i .. m /\ t[x] = s[x - h + k]
      <4> SUFFICES ASSUME NEW x \in q .. n PROVE x > h /\ x - h + k \in i .. m /\ t[x] = s[x - h + k]
        OBVIOUS
      <4>1. x \in h + 1 .. n /\ x > h
        BY <1>1, <1>3, <2>1
      <4>2. x - h + k \in i .. m
        BY <1>1, <1>3, <4>1
      <4> QED
        BY <1>4, <4>1, <4>2
    <3>4. ASSUME SettledBy(s, i, m) PROVE SettledBy(t, q, n)
      <4>1. PICK r \in 1 .. m : Settled(s, i, r)
        BY <3>4 DEF SettledBy
      <4>2. i < r
        BY <4>1 DEF Settled
      <4>3. r > k /\ q < r - k + h
        BY <1>1, <1>3, <3>1, <4>2
      <4>4. \A x \in q .. n : (x > h => x - h + k \in i .. m) /\ (x <= h => ~IsUser(t[x]))
        BY <1>1, <1>3, <3>3
      <4> HIDE DEF i
      <4> QED
        BY <1>5, <3>1, <3>2, <4>1, <4>3, <4>4
    <3>5. (\A x \in i .. m : ~IsUser(s[x])) => \A x \in q .. n : ~IsUser(t[x])
      BY <3>3
    <3> HIDE DEF i
    <3> QED
      BY <1>6, <3>1, <3>2, <3>4, <3>5 DEF PromptTo, FullTo
  <2>2. CASE q <= h
    <3>1. q \in 1 .. h /\ t[q] = H[q] /\ q \in Nat
      BY <1>1, <1>3, <2>2
    <3>2. CASE q + 1 <= h /\ H[q + 1].kind = "result" /\ H[q + 1].id = H[q].id
      <4>1. q + 1 \in 1 .. h /\ q + 1 \in 1 .. n /\ q < q + 1
        <5>1. q \in Nat /\ q >= 1 /\ h \in Nat /\ n \in Nat /\ h <= n /\ q + 1 <= h
          <6>1. h \in Nat /\ n \in Nat /\ h <= n
            BY <1>1, <1>3
          <6>2. q \in Nat /\ q >= 1
            BY <3>1, <6>1
          <6> QED
            BY <3>2, <6>1, <6>2
        <5> QED
          BY <5>1
      <4>2. t[q + 1].kind = "result" /\ t[q + 1].id = t[q].id /\ IsUser(t[q + 1])
        BY <1>1, <3>1, <3>2, <4>1, RoleIs
      <4>3. \A x, y \in q .. q + 1 : x < y => y = q + 1
        BY <3>1
      <4>4. Settled(t, q, q + 1)
        BY <4>1, <4>2, <4>3 DEF Settled
      <4> QED
        BY <4>1, <4>4 DEF SettledBy
    <3>3. CASE /\ \A x \in q .. h : ~IsUser(H[x])
               /\ \E i \in 1 .. k : /\ s[i].kind = "call" /\ s[i].id = H[q].id
                                    /\ \A x \in i .. k : ~IsUser(s[x])
      <4>1. PICK i \in 1 .. k : /\ s[i].kind = "call" /\ s[i].id = H[q].id
                                /\ \A x \in i .. k : ~IsUser(s[x])
        BY <3>3
      <4>2. i \in 1 .. m /\ i \in Nat /\ i <= k
        <5>1. k \in Nat /\ m \in Nat /\ k <= m
          BY <1>1, <1>2, <1>3
        <5> QED
          BY <5>1
      <4>3. \A x \in q .. n : (x > h => x - h + k \in i .. m) /\ (x <= h => ~IsUser(t[x]))
        <5> SUFFICES ASSUME NEW x \in q .. n
                     PROVE  (x > h => x - h + k \in i .. m) /\ (x <= h => ~IsUser(t[x]))
          OBVIOUS
        <5>1. x > h => x - h + k \in i .. m
          <6>1. k \in Nat /\ h \in Nat /\ n \in Nat /\ m \in Nat /\ n - h = m - k
            BY <1>1, <1>3
          <6> QED
            BY <3>1, <4>2, <6>1
        <5>2. x <= h => x \in 1 .. h /\ x \in q .. h
          BY <1>1, <3>1
        <5> QED
          BY <1>1, <3>3, <5>1, <5>2
      <4>4. ASSUME SettledBy(s, i, m) PROVE SettledBy(t, q, n)
        <5>1. PICK r \in 1 .. m : Settled(s, i, r)
          BY <4>4 DEF SettledBy
        <5>2. i < r /\ IsUser(s[r])
          BY <5>1, RoleIs DEF Settled
        <5>3. r > k
          <6>1. r \notin i .. k
            BY <4>1, <5>2
          <6>2. r \in Nat /\ k \in Nat
            BY <1>1
          <6> QED
            BY <4>2, <5>2, <6>1, <6>2
        <5>4. q < r - k + h
          BY <1>1, <1>3, <2>2, <5>3
        <5> QED
          BY <1>5, <3>1, <4>1, <4>2, <4>3, <5>1, <5>3, <5>4
      <4>5. ASSUME \A x \in i .. m : ~IsUser(s[x]) PROVE \A x \in q .. n : ~IsUser(t[x])
        <5> SUFFICES ASSUME NEW x \in q .. n PROVE ~IsUser(t[x])
          OBVIOUS
        <5>1. CASE x > h
          <6>1. x \in h + 1 .. n
            BY <1>1, <1>3, <3>1, <5>1
          <6> QED
            BY <1>4, <4>3, <4>5, <5>1, <6>1
        <5>2. CASE x <= h
          BY <4>3, <5>2
        <5> QED
          BY <1>1, <1>3, <5>1, <5>2
      <4> QED
        BY <4>1, <4>2, <4>4, <4>5 DEF PromptTo, FullTo
    <3> QED
      BY <1>2, <1>6, <3>1, <3>2, <3>3 DEF HeadOK, h
  <2> QED
    BY <1>1, <1>3, <2>1, <2>2
<1> QED
  BY <1>6 DEF PromptTo, FullTo, s, t, k, h, n

(* A result of a call, running or final.                                   *)
LEMMA ResultOf ==
  ASSUME NEW P \in Seq(Item), NEW r \in 1 .. Len(P), NEW c \in CallIDs,
         P[r].kind = "result", P[r].id = c
  PROVE  Contains(P, ResultItem(c, TRUE)) \/ Contains(P, ResultItem(c, FALSE))
<1>1. P[r] \in Item /\ DOMAIN P = 1 .. Len(P)
  OBVIOUS
<1>2. PICK d \in CallIDs, b \in BOOLEAN : P[r] = ResultItem(d, b)
  BY <1>1, KindIs
<1>3. d = c
  BY <1>2, ItemFields
<1>4. CASE b = TRUE
  BY <1>1, <1>2, <1>3, <1>4 DEF Contains
<1>5. CASE b = FALSE
  BY <1>1, <1>2, <1>3, <1>5 DEF Contains
<1> QED
  BY <1>4, <1>5

(* A pending call that is not shown to run is in the last turn.            *)
LEMMA OpenCall ==
  ASSUME NEW P \in Seq(Item), NEW Q \in Seq(Item), PromptTo(P \o Q, Len(P)),
         NEW i \in 1 .. Len(P), NEW c \in CallIDs, P[i] = CallItem(c),
         ~Contains(P, ResultItem(c, FALSE)), ~Contains(P, ResultItem(c, TRUE))
  PROVE  \A x \in i .. Len(P) : ~IsUser((P \o Q)[x])
<1> DEFINE s == P \o Q
<1>1. (\A p \in 1 .. Len(P) : s[p] = P[p]) /\ Len(P) \in Nat /\ PromptTo(s, Len(P))
  BY ConcatIs
<1> HIDE DEF s
<1>2. s[i].kind = "call" /\ s[i].id = c
  BY <1>1, ItemFields
<1>3. ASSUME SettledBy(s, i, Len(P)) PROVE FALSE
  <2>1. PICK r \in 1 .. Len(P) : Settled(s, i, r)
    BY <1>3 DEF SettledBy
  <2>2. P[r].kind = "result" /\ P[r].id = c
    BY <1>1, <1>2, <2>1 DEF Settled
  <2> QED
    BY <2>2, ResultOf
<1> QED
  BY <1>1, <1>2, <1>3 DEF PromptTo, s

(* A part that ends before another begins does not reach into it.          *)
LEMMA Backwards ==
  ASSUME NEW a \in Nat, NEW b \in Nat, a + 2 <= b, b + 1 <= a + 2
  PROVE  FALSE
OBVIOUS

(* What CarryForward puts in the place of a prefix that ends with a turn.  *)
LEMMA CarryHead ==
  ASSUME NEW P \in Seq(Item), NEW Q \in Seq(Item), History(P \o Q), PromptTo(P \o Q, Len(P))
  PROVE  HeadOK(P \o Q, Len(P), <<SummaryItem>> \o CarryForward(P))
<1> DEFINE s == P \o Q
           k == Len(P)
           F == CarryForward(P)
           H == <<SummaryItem>> \o F
<1>1. /\ k \in Nat /\ \A p \in 1 .. k : s[p] = P[p] /\ p \in 1 .. Len(s)
      /\ OnceEach(s) /\ CallsFirst(s)
  BY ConcatIs DEF History
<1>2. /\ F \in Seq(Item)
      /\ \E off : \E seqs \in Seq(Seq(Item)) :
              /\ Laid(seqs, k, F, off)
              /\ \A i \in 1 .. k : \A j \in 1 .. Len(seqs[i]) :
                   Origin(P, seqs[i][j], i, j) /\ 1 \in 1 .. Len(seqs[i])
              /\ \A i \in 1 .. k, c \in CallIDs :
                   P[i] = CallItem(c) /\ ~Contains(P, ResultItem(c, FALSE)) =>
                     /\ 1 \in 1 .. Len(seqs[i]) /\ seqs[i][1] = CallItem(c)
                     /\ Contains(P, ResultItem(c, TRUE)) =>
                          2 \in 1 .. Len(seqs[i]) /\ seqs[i][2] = ResultItem(c, TRUE)
  BY CarryForwardIs
<1>3. PICK off : \E seqs \in Seq(Seq(Item)) :
              /\ Laid(seqs, k, F, off)
              /\ \A i \in 1 .. k : \A j \in 1 .. Len(seqs[i]) :
                   Origin(P, seqs[i][j], i, j) /\ 1 \in 1 .. Len(seqs[i])
              /\ \A i \in 1 .. k, c \in CallIDs :
                   P[i] = CallItem(c) /\ ~Contains(P, ResultItem(c, FALSE)) =>
                     /\ 1 \in 1 .. Len(seqs[i]) /\ seqs[i][1] = CallItem(c)
                     /\ Contains(P, ResultItem(c, TRUE)) =>
                          2 \in 1 .. Len(seqs[i]) /\ seqs[i][2] = ResultItem(c, TRUE)
  BY <1>2
<1>4. PICK seqs \in Seq(Seq(Item)) :
              /\ Laid(seqs, k, F, off)
              /\ \A i \in 1 .. k : \A j \in 1 .. Len(seqs[i]) :
                   Origin(P, seqs[i][j], i, j) /\ 1 \in 1 .. Len(seqs[i])
              /\ \A i \in 1 .. k, c \in CallIDs :
                   P[i] = CallItem(c) /\ ~Contains(P, ResultItem(c, FALSE)) =>
                     /\ 1 \in 1 .. Len(seqs[i]) /\ seqs[i][1] = CallItem(c)
                     /\ Contains(P, ResultItem(c, TRUE)) =>
                          2 \in 1 .. Len(seqs[i]) /\ seqs[i][2] = ResultItem(c, TRUE)
  BY <1>3
<1>5. SummaryItem \in Item /\ SummaryItem.kind = "summary"
  BY ItemsAre, ItemFields, Zenon
<1>6. /\ Len(H) = 1 + Len(F) /\ Len(F) \in Nat /\ H[1] = SummaryItem
      /\ \A p \in 1 .. Len(F) : H[1 + p] = F[p]
  <2>1. <<SummaryItem>> \in Seq(Item) /\ Len(<<SummaryItem>>) = 1
    BY <1>5
  <2> QED
    BY <1>2, <2>1, ConcatIs
<1> HIDE DEF s, k, F, H
<1>7. /\ \A i \in 1 .. k : off[i] \in Nat
      /\ \A i \in 1 .. k : \A j \in 1 .. Len(seqs[i]) :
           off[i] + j \in 1 .. Len(F) /\ F[off[i] + j] = seqs[i][j]
      /\ \A p \in 1 .. Len(F) : \E i \in 1 .. k : \E j \in 1 .. Len(seqs[i]) : p = off[i] + j
      /\ \A i, l \in 1 .. k : \A j \in 1 .. Len(seqs[i]) : i < l => off[i] + j <= off[l]
  BY <1>4 DEF Laid
<1>8. ASSUME NEW p \in 1 .. Len(F)
      PROVE  \E i \in 1 .. k : \E j \in 1 .. Len(seqs[i]) : \E c \in CallIDs :
               /\ p = off[i] + j
               /\ P[i] = CallItem(c) /\ ~Contains(P, ResultItem(c, FALSE))
               /\ \/ j = 1 /\ F[p] = CallItem(c)
                  \/ j = 2 /\ F[p] = ResultItem(c, TRUE) /\ Contains(P, ResultItem(c, TRUE))
  <2>1. PICK i \in 1 .. k : \E j \in 1 .. Len(seqs[i]) : p = off[i] + j
    BY <1>7
  <2>2. PICK j \in 1 .. Len(seqs[i]) : p = off[i] + j
    BY <2>1
  <2>3. Origin(P, seqs[i][j], i, j) /\ F[p] = seqs[i][j]
    BY <1>4, <1>7, <2>2
  <2>4. PICK c \in CallIDs :
          /\ P[i] = CallItem(c) /\ ~Contains(P, ResultItem(c, FALSE))
          /\ \/ j = 1 /\ F[p] = CallItem(c)
             \/ j = 2 /\ F[p] = ResultItem(c, TRUE) /\ Contains(P, ResultItem(c, TRUE))
    BY <2>3 DEF Origin
  <2> QED
    BY <2>2, <2>4
<1>9. SUFFICES ASSUME NEW q \in 1 .. Len(H), H[q].kind = "call"
               PROVE  \/ q + 1 <= Len(H) /\ H[q + 1].kind = "result" /\ H[q + 1].id = H[q].id
                      \/ /\ \A x \in q .. Len(H) : ~IsUser(H[x])
                         /\ \E i \in 1 .. k : /\ s[i].kind = "call" /\ s[i].id = H[q].id
                                              /\ \A x \in i .. k : ~IsUser(s[x])
  BY DEF HeadOK, H, s, k, F
<1> DEFINE p == q - 1
<1>10. q # 1
  BY <1>5, <1>6, <1>9
<1>11. p \in 1 .. Len(F) /\ 1 + p = q /\ H[q] = F[p] /\ p \in Nat
  <2>1. p \in 1 .. Len(F) /\ 1 + p = q /\ p \in Nat
    BY <1>6, <1>10
  <2> QED
    BY <1>6, <2>1
<1> HIDE DEF p
<1>12. PICK i \in 1 .. k : \E j \in 1 .. Len(seqs[i]) : \E c \in CallIDs :
               /\ p = off[i] + j
               /\ P[i] = CallItem(c) /\ ~Contains(P, ResultItem(c, FALSE))
               /\ \/ j = 1 /\ F[p] = CallItem(c)
                  \/ j = 2 /\ F[p] = ResultItem(c, TRUE) /\ Contains(P, ResultItem(c, TRUE))
  BY <1>8, <1>11
<1>13. PICK j \in 1 .. Len(seqs[i]) : \E c \in CallIDs :
               /\ p = off[i] + j
               /\ P[i] = CallItem(c) /\ ~Contains(P, ResultItem(c, FALSE))
               /\ \/ j = 1 /\ F[p] = CallItem(c)
                  \/ j = 2 /\ F[p] = ResultItem(c, TRUE) /\ Contains(P, ResultItem(c, TRUE))
  BY <1>12
<1>14. PICK c \in CallIDs :
               /\ p = off[i] + j
               /\ P[i] = CallItem(c) /\ ~Contains(P, ResultItem(c, FALSE))
               /\ \/ j = 1 /\ F[p] = CallItem(c)
                  \/ j = 2 /\ F[p] = ResultItem(c, TRUE) /\ Contains(P, ResultItem(c, TRUE))
  BY <1>13
<1>15. j = 1 /\ H[q].id = c
  <2>1. ResultItem(c, TRUE).kind = "result" /\ CallItem(c).id = c
    BY ItemFields, Zenon
  <2>2. F[p] # ResultItem(c, TRUE)
    BY <1>9, <1>11, <2>1
  <2> QED
    BY <1>11, <1>14, <2>1, <2>2
<1>16. off[i] \in Nat
  BY <1>7
<1>17. CASE Contains(P, ResultItem(c, TRUE))
  <2>1. 2 \in 1 .. Len(seqs[i]) /\ seqs[i][2] = ResultItem(c, TRUE)
    BY <1>4, <1>14, <1>17
  <2>2. off[i] + 2 \in 1 .. Len(F) /\ F[off[i] + 2] = ResultItem(c, TRUE)
    BY <1>7, <2>1
  <2>3. q + 1 = 1 + (off[i] + 2) /\ q + 1 <= Len(H)
    BY <1>6, <1>11, <1>14, <1>15, <1>16, <2>2
  <2>4. H[q + 1] = ResultItem(c, TRUE)
    BY <1>6, <2>2, <2>3
  <2>5. ResultItem(c, TRUE).kind = "result" /\ ResultItem(c, TRUE).id = c
    BY ItemFields, Zenon
  <2> QED
    BY <1>15, <2>3, <2>4, <2>5
<1>18. CASE ~Contains(P, ResultItem(c, TRUE))
  <2>1. \A x \in i .. k : ~IsUser(s[x])
    BY <1>14, <1>18, OpenCall DEF s, k
  <2>2. s[i].kind = "call" /\ s[i].id = H[q].id
    BY <1>1, <1>14, <1>15, ItemFields
  <2>3. ASSUME NEW x \in q .. Len(H), IsUser(H[x]) PROVE FALSE
    <3> DEFINE y == x - 1
    <3>1. y \in 1 .. Len(F) /\ 1 + y = x /\ p <= y /\ y \in Nat
      BY <1>6, <1>11
    <3> HIDE DEF y
    <3>2. H[x] = F[y]
      BY <1>6, <3>1
    <3>3. PICK l \in 1 .. k : \E m \in 1 .. Len(seqs[l]) : \E d \in CallIDs :
               /\ y = off[l] + m
               /\ P[l] = CallItem(d) /\ ~Contains(P, ResultItem(d, FALSE))
               /\ \/ m = 1 /\ F[y] = CallItem(d)
                  \/ m = 2 /\ F[y] = ResultItem(d, TRUE) /\ Contains(P, ResultItem(d, TRUE))
      BY <1>8, <3>1
    <3>4. PICK m \in 1 .. Len(seqs[l]) : \E d \in CallIDs :
               /\ y = off[l] + m
               /\ P[l] = CallItem(d) /\ ~Contains(P, ResultItem(d, FALSE))
               /\ \/ m = 1 /\ F[y] = CallItem(d)
                  \/ m = 2 /\ F[y] = ResultItem(d, TRUE) /\ Contains(P, ResultItem(d, TRUE))
      BY <3>3
    <3>5. PICK d \in CallIDs :
               /\ y = off[l] + m
               /\ P[l] = CallItem(d) /\ ~Contains(P, ResultItem(d, FALSE))
               /\ \/ m = 1 /\ F[y] = CallItem(d)
                  \/ m = 2 /\ F[y] = ResultItem(d, TRUE) /\ Contains(P, ResultItem(d, TRUE))
      BY <3>4
    <3>6. m = 2 /\ Contains(P, ResultItem(d, TRUE))
      <4>1. CallItem(d).kind = "call"
        BY ItemFields
      <4>2. F[y] # CallItem(d)
        BY <2>3, <3>2, <4>1, RoleIs
      <4> QED
        BY <3>5, <4>2
    <3>7. PICK w \in 1 .. k : P[w] = ResultItem(d, TRUE)
      BY <3>6 DEF Contains, k
    <3>8. PICK v \in 1 .. Len(s) : v < w /\ s[v] = CallItem(d)
      <4>1. s[w] = ResultItem(d, TRUE) /\ w \in 1 .. Len(s) /\ TRUE \in BOOLEAN
        BY <1>1, <3>7
      <4> QED
        BY <1>1, <4>1 DEF CallsFirst
    <3>9. v = l
      <4>1. s[l] = CallItem(d) /\ l \in 1 .. Len(s) /\ s[l] # SummaryItem
        BY <1>1, <3>5, Distinct
      <4> QED
        BY <1>1, <3>8, <4>1 DEF OnceEach
    <3>10. i <= l
      <4> SUFFICES ASSUME ~(i <= l) PROVE FALSE
        OBVIOUS
      <4>1. l < i /\ off[l] \in Nat
        BY <1>1, <1>7
      <4>4. off[l] + 2 <= off[i]
        BY <1>7, <3>6, <4>1
      <4>5. y = off[l] + 2 /\ p = off[i] + 1
        BY <1>14, <1>15, <3>5, <3>6
      <4>6. off[i] + 1 <= off[l] + 2
        BY <3>1, <4>5, Zenon
      <4> QED
        BY <1>16, <4>1, <4>4, <4>6, Backwards
    <3>11. w \in i .. k /\ IsUser(s[w])
      <4>1. w \in i .. k
        BY <1>1, <3>8, <3>9, <3>10
      <4>2. s[w].kind = "result"
        <5>1. ResultItem(d, TRUE).kind = "result"
          BY ItemFields, Zenon
        <5> QED
          BY <1>1, <3>7, <5>1
      <4> QED
        BY <4>1, <4>2, RoleIs
    <3> QED
      BY <2>1, <3>11
  <2> QED
    BY <2>1, <2>2, <2>3
<1> QED
  BY <1>17, <1>18

-----------------------------------------------------------------------------
(* The second invariant, on top of the first: results are in time.         *)

(* The ends of what was sent before, with its answers.                     *)
Ends == {prefixTokens[k].index : k \in DOMAIN prefixTokens} \cup {Len(committedPrefix)}

(* Every call that is scheduled has its result in the turn behind it, in   *)
(* the context and in what was sent at each end; a call that is not yet    *)
(* scheduled can still have it.  What is staged is of the user.            *)
Timely ==
  /\ CallPrompt(Context, unscheduled)
  /\ \A n \in Ends : PromptTo(Context, n)
  /\ asked = "regular" => FullTo(Context, Len(committedPrefix))
  /\ \A p \in 1 .. Len(stagedSuffix) : IsUser(stagedSuffix[p])
  /\ given # {} => Context # <<>>

(* The ends are positions of the committed history.                        *)
LEMMA EndsAre ==
  ASSUME IInv
  PROVE  /\ committedPrefix \in Seq(Item) /\ stagedSuffix \in Seq(Item) /\ Context \in Seq(Item)
         /\ Len(committedPrefix) \in Nat /\ Len(stagedSuffix) \in Nat
         /\ Len(Context) = Len(committedPrefix) + Len(stagedSuffix)
         /\ \A n \in Ends : n \in 0 .. Len(committedPrefix) /\ n \in 0 .. Len(Context)
         /\ Len(committedPrefix) \in Ends
         /\ Len(committedPrefix) \in 0 .. Len(Context)
<1>1. /\ committedPrefix \in Seq(Item) /\ stagedSuffix \in Seq(Item)
      /\ \A k \in DOMAIN prefixTokens : prefixTokens[k].index \in 1 .. Len(committedPrefix)
  BY DEF IInv, StateOK, TypeOK
<1>2. /\ Context \in Seq(Item)
      /\ Len(committedPrefix) \in Nat /\ Len(stagedSuffix) \in Nat
      /\ Len(Context) = Len(committedPrefix) + Len(stagedSuffix)
  BY <1>1, ConcatIs DEF Context
<1>3. ASSUME NEW n \in Ends PROVE n \in 0 .. Len(committedPrefix) /\ n \in 0 .. Len(Context)
  <2>1. CASE n = Len(committedPrefix)
    BY <1>2, <2>1
  <2>2. CASE n \in {prefixTokens[k].index : k \in DOMAIN prefixTokens}
    BY <1>1, <1>2, <2>2
  <2> QED
    BY <2>1, <2>2 DEF Ends
<1>4. Len(committedPrefix) \in Ends
  BY Zenon DEF Ends
<1> QED
  BY <1>1, <1>2, <1>3, <1>4

(* Steps that change what is staged.                                       *)
LEMMA StagedKeeps ==
  ASSUME IInv, Timely, committedPrefix' = committedPrefix, prefixTokens' = prefixTokens,
         asked' = "none" \/ asked' = asked,
         Alike(Context, Context', Len(Context)), Context' # <<>>,
         CallPrompt(Context', unscheduled'),
         \A p \in 1 .. Len(stagedSuffix') : IsUser(stagedSuffix'[p])
  PROVE  Timely'
<1>1. /\ Len(Context) \in Nat /\ Len(committedPrefix) \in 0 .. Len(Context)
      /\ \A n \in Ends : n \in 0 .. Len(Context)
  BY EndsAre
<1>2. Ends' = Ends
  BY DEF Ends
<1>3. \A n \in Ends : PromptTo(Context', n)
  BY <1>1, AlikeIs DEF Timely
<1>4. asked' = "regular" => FullTo(Context', Len(committedPrefix))
  BY <1>1, AlikeIs DEF Timely
<1> QED
  BY <1>2, <1>3, <1>4 DEF Timely

(* Initially there is nothing.                                             *)
LEMMA InitTimely ==
  ASSUME Init
  PROVE  Timely
<1>1. committedPrefix = <<>> /\ stagedSuffix = <<>> /\ prefixTokens = <<>> /\ asked = "none" /\ given = {}
  BY DEF Init
<1>2. Context = <<>> /\ Len(Context) = 0 /\ Len(stagedSuffix) = 0 /\ Len(committedPrefix) = 0
  BY <1>1 DEF Context
<1>3. Ends = {0}
  <2>1. DOMAIN prefixTokens = {}
    BY <1>1
  <2> QED
    BY <1>2, <2>1 DEF Ends
<1>4. 1 .. 0 = {}
  OBVIOUS
<1> QED
  BY <1>1, <1>2, <1>3, <1>4 DEF Timely, CallPrompt, PromptTo

(* An input is staged.                                                     *)
LEMMA StageTimely ==
  ASSUME IInv, Timely, NEW i \in Inputs, Stage(i), asked' = "none" \/ asked' = asked
  PROVE  Timely'
<1> DEFINE x == InputItem(i)
<1>1. /\ committedPrefix \in Seq(Item) /\ stagedSuffix \in Seq(Item) /\ Context \in Seq(Item)
      /\ Len(stagedSuffix) \in Nat
  BY EndsAre
<1>2. /\ committedPrefix' = committedPrefix /\ prefixTokens' = prefixTokens
      /\ unscheduled' = unscheduled /\ stagedSuffix' = Append(stagedSuffix, x)
  BY DEF Stage
<1>3. x \in Item /\ IsUser(x)
  <2>1. x.kind = "input"
    BY ItemFields
  <2> QED
    BY <2>1, ItemsAre DEF IsUser
<1> HIDE DEF x
<1>4. Context' = Append(Context, x)
  BY <1>1, <1>2, <1>3, ConcatAppend DEF Context
<1>5. /\ CallPrompt(Append(Context, x), unscheduled)
      /\ Alike(Context, Append(Context, x), Len(Context)) /\ Append(Context, x) # <<>>
  <2>1. CallPrompt(Context, unscheduled) /\ unscheduled \in SUBSET unscheduled
          /\ unscheduled \ unscheduled = {}
    BY DEF Timely
  <2> QED
    BY <1>1, <1>3, <2>1, AppendPrompt
<1>6. \A p \in 1 .. Len(stagedSuffix') : IsUser(stagedSuffix'[p])
  <2> DEFINE t == Append(stagedSuffix, x)
  <2>1. /\ Len(t) = Len(stagedSuffix) + 1 /\ t[Len(stagedSuffix) + 1] = x
        /\ \A p \in 1 .. Len(stagedSuffix) : t[p] = stagedSuffix[p]
    BY <1>1, <1>3, AppendIs
  <2> HIDE DEF t
  <2>2. \A p \in 1 .. Len(t) : p \in 1 .. Len(stagedSuffix) \/ p = Len(stagedSuffix) + 1
    BY <1>1, <2>1
  <2>3. \A p \in 1 .. Len(t) : IsUser(t[p])
    BY <1>3, <2>1, <2>2 DEF Timely
  <2> QED
    BY <1>2, <2>3 DEF t
<1> QED
  BY <1>2, <1>4, <1>5, <1>6, StagedKeeps

(* The status of a call.                                                   *)
LEMMA StatusTimely ==
  ASSUME IInv, Timely, NEW c \in unscheduled \cup running, NEW r \in BOOLEAN,
         stagedSuffix' = AddToolResult(stagedSuffix, c, r), unscheduled' = unscheduled \ {c},
         committedPrefix' = committedPrefix, prefixTokens' = prefixTokens, asked' = asked
  PROVE  Timely'
<1> DEFINE x == ResultItem(c, r)
           y == ResultItem(c, TRUE)
<1>1. /\ committedPrefix \in Seq(Item) /\ stagedSuffix \in Seq(Item) /\ Context \in Seq(Item)
      /\ Len(stagedSuffix) \in Nat
  BY EndsAre
<1>2. Context' = committedPrefix \o stagedSuffix' /\ Context = committedPrefix \o stagedSuffix
  BY DEF Context
<1>3. c \in CallIDs
  BY DEF IInv, TypeOK
<1>4. /\ x \in Item /\ IsUser(x) /\ x.kind = "result" /\ x.id = c
      /\ y \in Item /\ y.kind = "result" /\ y.id = c
  <2>1. r = TRUE \/ r = FALSE
    OBVIOUS
  <2>2. x \in Item /\ y \in Item
    BY <1>3, <2>1, ItemsAre
  <2>3. x.kind = "result" /\ x.id = c /\ y.kind = "result" /\ y.id = c
    <3>1. \A b \in BOOLEAN : ResultItem(c, b).kind = "result" /\ ResultItem(c, b).id = c
      BY DEF ResultItem
    <3> QED
      BY <3>1
  <2> HIDE DEF x, y
  <2>4. IsUser(x)
    BY <2>3, RoleIs
  <2> QED
    BY <2>2, <2>3, <2>4
<1>5. \/ stagedSuffix' = Append(stagedSuffix, x)
      \/ \E k \in 1 .. Len(stagedSuffix) : /\ stagedSuffix[k] = y
                                           /\ stagedSuffix' = Replaced(stagedSuffix, k, x)
  <2>1. \/ AddToolResult(stagedSuffix, c, r) = Append(stagedSuffix, x)
        \/ \E k \in 1 .. Len(stagedSuffix) :
             stagedSuffix[k] = y /\ AddToolResult(stagedSuffix, c, r) = Replaced(stagedSuffix, k, x)
    BY <1>1, AddToolResultIs, Zenon
  <2> QED
    BY <2>1, Zenon
<1>6. CallPrompt(Context, unscheduled) /\ \A p \in 1 .. Len(stagedSuffix) : IsUser(stagedSuffix[p])
  BY DEF Timely
<1>7. c \in unscheduled => ~Contains(Context, y)
  BY DEF IInv, ContextOK, CallsOK, Unanswered
<1> HIDE DEF x, y
<1>8. CASE stagedSuffix' = Append(stagedSuffix, x)
  <2>1. Context' = Append(Context, x)
    BY <1>1, <1>2, <1>4, <1>8, ConcatAppend
  <2>2. /\ CallPrompt(Append(Context, x), unscheduled')
        /\ Alike(Context, Append(Context, x), Len(Context)) /\ Append(Context, x) # <<>>
    <3> DEFINE V == unscheduled \ {c}
    <3>1. V \in SUBSET unscheduled /\ \A d \in unscheduled \ V : x.kind = "result" /\ x.id = d
      BY <1>4
    <3>2. unscheduled' = V
      OBVIOUS
    <3> HIDE DEF V
    <3> QED
      BY <1>1, <1>4, <1>6, <3>1, <3>2, AppendPrompt
  <2>3. \A p \in 1 .. Len(stagedSuffix') : IsUser(stagedSuffix'[p])
    <3> DEFINE t == Append(stagedSuffix, x)
    <3>1. /\ Len(t) = Len(stagedSuffix) + 1 /\ t[Len(stagedSuffix) + 1] = x
          /\ \A p \in 1 .. Len(stagedSuffix) : t[p] = stagedSuffix[p]
      BY <1>1, <1>4, AppendIs
    <3> HIDE DEF t
    <3>2. \A p \in 1 .. Len(t) : p \in 1 .. Len(stagedSuffix) \/ p = Len(stagedSuffix) + 1
      BY <1>1, <3>1
    <3>3. \A p \in 1 .. Len(t) : IsUser(t[p])
      BY <1>4, <1>6, <3>1, <3>2
    <3> QED
      BY <1>8, <3>3 DEF t
  <2> QED
    BY <2>1, <2>2, <2>3, StagedKeeps
<1>9. ASSUME NEW k \in 1 .. Len(stagedSuffix), stagedSuffix[k] = y,
             stagedSuffix' = Replaced(stagedSuffix, k, x)
      PROVE  Timely'
  <2> DEFINE m == Len(committedPrefix) + k
  <2>1. /\ m \in 1 .. Len(Context) /\ Context[m] = y
        /\ Context' = Replaced(Context, m, x)
    <3>1. /\ m \in 1 .. Len(committedPrefix \o stagedSuffix)
          /\ (committedPrefix \o stagedSuffix)[m] = stagedSuffix[k]
          /\ committedPrefix \o Replaced(stagedSuffix, k, x)
               = Replaced(committedPrefix \o stagedSuffix, m, x)
      BY <1>1, <1>4, ConcatReplace, Zenon
    <3> QED
      BY <1>2, <1>9, <3>1
  <2> HIDE DEF m
  <2>2. unscheduled' = unscheduled
    <3>1. Contains(Context, y)
      BY <2>1 DEF Contains
    <3> QED
      BY <1>7, <3>1
  <2>3. /\ CallPrompt(Replaced(Context, m, x), unscheduled)
        /\ Alike(Context, Replaced(Context, m, x), Len(Context)) /\ Replaced(Context, m, x) # <<>>
    BY <1>1, <1>4, <1>6, <2>1, ReplacePrompt
  <2>4. \A p \in 1 .. Len(stagedSuffix') : IsUser(stagedSuffix'[p])
    <3> DEFINE t == [stagedSuffix EXCEPT ![k] = x]
    <3>1. /\ Len(t) = Len(stagedSuffix) /\ t[k] = x
          /\ \A p \in 1 .. Len(stagedSuffix) : p # k => t[p] = stagedSuffix[p]
      BY <1>1, <1>4, ReplaceIs
    <3>2. stagedSuffix' = t
      BY <1>9 DEF Replaced
    <3> HIDE DEF t
    <3> QED
      BY <1>4, <1>6, <3>1, <3>2
  <2> QED
    BY <2>1, <2>2, <2>3, <2>4, StagedKeeps
<1> QED
  BY <1>5, <1>8, <1>9

(* When every call has a status, all of them are answered.                 *)
LEMMA AllSettled ==
  ASSUME NEW s
  PROVE  CallPrompt(s, {}) <=> FullTo(s, Len(s))
BY DEF CallPrompt, FullTo

(* The settings change: no new ends.                                       *)
LEMMA UpdateSettingsTimely ==
  ASSUME IInv, Timely, NEW limit \in Thresholds, NEW sameModel \in BOOLEAN,
         UpdateSettings(limit, sameModel)
  PROVE  Timely'
<1>1. /\ committedPrefix' = committedPrefix /\ stagedSuffix' = stagedSuffix
      /\ unscheduled' = unscheduled /\ given' = given /\ asked' = "none"
      /\ prefixTokens' = prefixTokens \/ prefixTokens' = <<>>
  BY DEF UpdateSettings
<1>2. Context' = Context
  BY <1>1 DEF Context
<1>3. Ends' \subseteq Ends
  <2>1. CASE prefixTokens' = prefixTokens
    BY <1>1, <2>1 DEF Ends
  <2>2. CASE prefixTokens' = <<>>
    <3>1. DOMAIN prefixTokens' = {}
      BY <2>2
    <3> QED
      BY <1>1, <3>1 DEF Ends
  <2> QED
    BY <1>1, <2>1, <2>2
<1> QED
  BY <1>1, <1>2, <1>3 DEF Timely

(* The model is asked.                                                     *)
LEMMA RequestTurnTimely ==
  ASSUME IInv, Timely, RequestTurn
  PROVE  Timely'
<1>1. /\ committedPrefix \in Seq(Item) /\ stagedSuffix \in Seq(Item) /\ Context \in Seq(Item)
      /\ Len(Context) \in Nat
      /\ \A n \in Ends : n \in 0 .. Len(Context)
  BY EndsAre
<1>2. /\ prefixTokens' = prefixTokens /\ unscheduled' = unscheduled /\ given' = given
      /\ unscheduled = {}
  BY DEF RequestTurn
<1>3. CASE NeedsCompaction /\ HasCutoff
  <2>1. /\ asked' = "compaction" /\ committedPrefix' = committedPrefix
        /\ stagedSuffix' = stagedSuffix
    BY <1>3 DEF RequestTurn
  <2>2. Context' = Context /\ Ends' = Ends
    BY <1>2, <2>1 DEF Context, Ends
  <2> QED
    BY <1>2, <2>1, <2>2 DEF Timely
<1>4. CASE ~(NeedsCompaction /\ HasCutoff)
  <2>1. asked' = "regular" /\ committedPrefix' = Context /\ stagedSuffix' = <<>>
    BY <1>4 DEF RequestTurn, Commit
  <2>2. Context' = Context
    <3>1. Context \o <<>> = Context
      BY <1>1
    <3>2. Context' = committedPrefix' \o stagedSuffix'
      BY DEF Context
    <3> QED
      BY <2>1, <3>1, <3>2
  <2>3. FullTo(Context, Len(Context)) /\ PromptTo(Context, Len(Context))
    <3>1. FullTo(Context, Len(Context))
      BY <1>2, AllSettled DEF Timely
    <3> QED
      BY <1>1, <3>1, SettledFurther
  <2>4. \A n \in Ends' : n \in Ends \/ n = Len(Context)
    BY <1>2, <2>1, Zenon DEF Ends
  <2>5. \A n \in Ends' : PromptTo(Context, n)
    BY <2>3, <2>4 DEF Timely
  <2>6. 1 .. Len(stagedSuffix') = {}
    BY <2>1
  <2> QED
    BY <1>2, <2>1, <2>2, <2>3, <2>5, <2>6 DEF Timely
<1> QED
  BY <1>3, <1>4

(* The answer to a regular turn, all calls of which are answered.          *)
LEMMA RegularAnswerTimely ==
  ASSUME IInv, Timely, NEW calls \in CallLists, NEW tokens \in Usages, RegularAnswer(calls, tokens)
  PROVE  Timely'
<1> DEFINE T == Told(ToSet(committedPrefix))
           C == ToSet(calls)
           O == <<AnswerItem(answers + 1, T)>> \o [k \in DOMAIN calls |-> CallItem(calls[k])]
           A == committedPrefix
           B == stagedSuffix
           t == (A \o O) \o B
<1>1. /\ A \in Seq(Item) /\ B \in Seq(Item) /\ Context \in Seq(Item)
      /\ Len(A) \in Nat /\ \A n \in Ends : n \in 0 .. Len(A)
  BY EndsAre
<1>2. sent = ToSet(committedPrefix) /\ asked = "regular" /\ answers \in Nat
      /\ Sourced(A \o B, given) /\ OnceEach(A \o B) /\ GivenOK(given, answers)
  BY DEF IInv, AskedOK, RegularAnswer, ContextOK, History, Context
<1>3. /\ committedPrefix' = A \o O /\ stagedSuffix' = B
      /\ prefixTokens' = Append(prefixTokens, [index |-> Len(committedPrefix'), tokens |-> tokens])
      /\ unscheduled' = C /\ asked' = "none"
      /\ \A c \in C : CallItem(c) \notin given
  BY <1>2 DEF RegularAnswer, AddModelResponse
<1>4. T \in SUBSET Messages
  BY <1>1, <1>2, ToldIs
<1>5. Output(O, C, answers + 1, T) /\ Len(O) > 0
  <2>1. answers + 1 \in Nat /\ T \in SUBSET Messages
    BY <1>2, <1>4
  <2> HIDE DEF T
  <2> QED
    BY <2>1, OutputIs
<1> HIDE DEF T, C, O
<1>6. O \in Seq(Item) /\ C \subseteq CallIDs
  BY <1>5 DEF Output
<1>7. ASSUME NEW k \in 1 .. Len(O)
      PROVE  ~IsUser(O[k]) /\ (O[k].kind = "call" => O[k].id \in C)
  <2>1. O[k] = AnswerItem(answers + 1, T) \/ \E c \in C : O[k] = CallItem(c)
    BY <1>5 DEF Output
  <2>2. CASE O[k] = AnswerItem(answers + 1, T)
    <3>1. O[k].kind = "answer"
      BY <2>2, ItemFields
    <3> QED
      BY <3>1 DEF IsUser
  <2>3. ASSUME NEW c \in C, O[k] = CallItem(c)
        PROVE  ~IsUser(O[k]) /\ (O[k].kind = "call" => O[k].id \in C)
    <3>1. O[k].kind = "call" /\ O[k].id = c
      BY <2>3, ItemFields
    <3> QED
      BY <3>1 DEF IsUser
  <2> QED
    BY <2>1, <2>2, <2>3
<1>8. ASSUME NEW k \in 1 .. Len(A), A[k].kind = "call" PROVE A[k].id \notin C
  <2>1. A[k] \in Item
    BY <1>1
  <2>2. PICK c \in CallIDs : A[k] = CallItem(c)
    BY <1>8, <2>1, KindIs
  <2>3. A[k].id = c
    BY <2>2, ItemFields
  <2>4. Contains(A \o B, CallItem(c))
    <3>1. Contains(A, CallItem(c))
      BY <2>2 DEF Contains
    <3> QED
      BY <1>1, <3>1, ContainsConcat
  <2>5. CallItem(c) \in given
    BY <1>1, <1>2, <2>4, WasGiven DEF Context
  <2> QED
    BY <1>3, <2>3, <2>5
<1>9. FullTo(A \o B, Len(A)) /\ \A k \in 1 .. Len(B) : IsUser(B[k])
  BY <1>2 DEF Timely, Context
<1>10. /\ CallPrompt(t, C) /\ Alike(A \o B, t, Len(A)) /\ PromptTo(t, Len(A \o O))
  BY <1>1, <1>6, <1>7, <1>8, <1>9, InsertPrompt
<1>11. Context' = t
  BY <1>3 DEF Context
<1>12. t # <<>>
  <2>1. Len(t) = Len(A) + Len(O) + Len(B) /\ Len(O) \in Nat /\ Len(B) \in Nat /\ Len(A) \in Nat
    BY <1>1, <1>6, InsertedIs
  <2> HIDE DEF t
  <2>2. Len(t) # 0
    BY <1>5, <2>1
  <2> QED
    BY <2>2
<1> HIDE DEF t
<1>13. \A n \in Ends : PromptTo(t, n)
  <2>1. \A n \in Ends : PromptTo(A \o B, n)
    BY DEF Timely, Context
  <2> QED
    BY <1>1, <1>10, <2>1, AlikeIs
<1>14. ASSUME NEW n \in Ends' PROVE n \in Ends \/ n = Len(A \o O)
  <2> DEFINE x == [index |-> Len(committedPrefix'), tokens |-> tokens]
             u == Append(prefixTokens, x)
  <2>1. prefixTokens \in Seq([index : Nat, tokens : Nat])
    BY DEF IInv, StateOK
  <2>2. x.index = Len(A \o O)
    BY <1>3
  <2>3. DOMAIN u = 1 .. Len(prefixTokens) + 1 /\ Len(prefixTokens) \in Nat
        /\ DOMAIN prefixTokens = 1 .. Len(prefixTokens)
        /\ u[Len(prefixTokens) + 1] = x /\ \A k \in 1 .. Len(prefixTokens) : u[k] = prefixTokens[k]
    <3> HIDE DEF x
    <3> QED
      BY <2>1
  <2>4. prefixTokens' = u
    BY <1>3
  <2> HIDE DEF u, x
  <2>5. \A k \in DOMAIN u : k \in DOMAIN prefixTokens \/ k = Len(prefixTokens) + 1
    BY <2>3
  <2>6. \A k \in DOMAIN u : u[k].index \in Ends \/ u[k].index = Len(A \o O)
    BY <2>2, <2>3, <2>5, Zenon DEF Ends
  <2>7. n \in {u[k].index : k \in DOMAIN u} \/ n = Len(A \o O)
    BY <1>3, <2>4, Zenon DEF Ends
  <2> QED
    BY <2>6, <2>7
<1>15. \A n \in Ends' : PromptTo(t, n)
  BY <1>10, <1>13, <1>14
<1> QED
  BY <1>3, <1>9, <1>10, <1>11, <1>12, <1>15 DEF Timely

(* The answer to a compaction.                                             *)
LEMMA CompactionAnswerTimely ==
  ASSUME IInv, Timely, NEW complete \in BOOLEAN, CompactionAnswer(complete)
  PROVE  Timely'
<1> DEFINE k == Cutoff
           P == SubSeq(committedPrefix, 1, k)
           D == SubSeq(committedPrefix, k + 1, Len(committedPrefix))
           H == <<SummaryItem>> \o CarryForward(P)
           Q == D \o stagedSuffix
<1>1. /\ committedPrefix \in Seq(Item) /\ stagedSuffix \in Seq(Item) /\ Context \in Seq(Item)
      /\ Len(committedPrefix) \in Nat /\ Len(stagedSuffix) \in Nat
      /\ Len(Context) = Len(committedPrefix) + Len(stagedSuffix)
      /\ Len(committedPrefix) \in Ends
  BY EndsAre
<1>2. /\ HasCutoff /\ unscheduled = {} /\ StateOK /\ TypeOK /\ History(Context)
  BY DEF IInv, AskedOK, CompactionAnswer, ContextOK
<1>3. /\ asked' = "none" /\ unscheduled' = unscheduled /\ given' = given
  BY DEF CompactionAnswer
<1>4. CASE ~complete
  <2>1. UNCHANGED <<builderVars, summarized>>
    BY <1>4 DEF CompactionAnswer
  <2>2. /\ committedPrefix' = committedPrefix /\ stagedSuffix' = stagedSuffix
        /\ prefixTokens' = prefixTokens
    BY <2>1 DEF builderVars
  <2>3. Context' = Context /\ Ends' = Ends
    BY <2>2 DEF Context, Ends
  <2> QED
    BY <1>3, <2>2, <2>3 DEF Timely
<1>5. CASE complete
  <2>1. /\ committedPrefix' = Compacted(committedPrefix) /\ prefixTokens' = <<>>
        /\ stagedSuffix' = stagedSuffix
    BY <1>2, <1>5 DEF CompactionAnswer, Compact
  <2>2. k \in 1 .. Len(committedPrefix) /\ k \in Ends
    BY <1>2, CutoffIs, Zenon DEF Ends
  <2>3. committedPrefix' = H \o D
    BY <2>1 DEF Compacted
  <2> HIDE DEF k
  <2>4. /\ P \in Seq(Item) /\ D \in Seq(Item) /\ Q \in Seq(Item)
        /\ committedPrefix \o stagedSuffix = P \o Q
        /\ \A h \in Seq(Item) : (h \o D) \o stagedSuffix = h \o Q
    BY <1>1, <2>2, SplitIs, ZenonT(30)
  <2>5. Len(P) = k /\ Len(D) = Len(committedPrefix) - k /\ k \in Nat /\ k <= Len(committedPrefix)
    BY <1>1, <2>2
  <2> HIDE DEF P, D
  <2>6. Context = P \o Q
    BY <2>4 DEF Context
  <2>7. PromptTo(P \o Q, Len(P)) /\ History(P \o Q)
    BY <1>2, <2>2, <2>5, <2>6 DEF Timely
  <2> HIDE DEF Q
  <2>8. H \in Seq(Item) /\ Len(H) \in Nat /\ HeadOK(P \o Q, Len(P), H) /\ Len(H) # 0
    <3>1. CarryForward(P) \in Seq(Item) /\ <<SummaryItem>> \in Seq(Item) /\ Len(<<SummaryItem>>) = 1
      <4>1. SummaryItem \in Item
        BY ItemsAre, Zenon
      <4>2. CarryForward(P) \in Seq(Item)
        BY <2>4, CarryForwardIs, Zenon
      <4> QED
        BY <4>1, <4>2
    <3>2. H \in Seq(Item) /\ Len(H) = 1 + Len(CarryForward(P)) /\ Len(CarryForward(P)) \in Nat
      BY <3>1, ConcatIs
    <3>3. HeadOK(P \o Q, Len(P), H)
      BY <2>4, <2>7, CarryHead
    <3> HIDE DEF H
    <3> QED
      BY <3>2, <3>3
  <2> HIDE DEF H
  <2>9. Context' = H \o Q
    BY <2>1, <2>3, <2>4, <2>8 DEF Context
  <2>10. /\ Len(H \o Q) = Len(H) + Len(Q) /\ Len(Q) \in Nat /\ Len(P \o Q) = Len(P) + Len(Q)
         /\ Len(H \o D) = Len(H) + Len(D)
    BY <2>4, <2>8, ConcatIs
  <2>11. FullTo(H \o Q, Len(H \o Q))
    <3> DEFINE m == Len(P \o Q)
    <3>1. m \in Len(P) .. Len(P \o Q) /\ m - Len(P) + Len(H) = Len(H \o Q)
      BY <2>5, <2>8, <2>10
    <3>2. FullTo(P \o Q, m)
      BY <1>2, <2>6, AllSettled DEF Timely
    <3> HIDE DEF m
    <3>3. FullTo(H \o Q, m - Len(P) + Len(H))
      BY <2>4, <2>8, <3>1, <3>2, CompactPrompt
    <3> QED
      BY <3>1, <3>3
  <2>12. PromptTo(H \o Q, Len(H \o D))
    <3> DEFINE m == Len(committedPrefix)
    <3>1. m \in Len(P) .. Len(P \o Q) /\ m - Len(P) + Len(H) = Len(H \o D)
      <4>1. Len(P \o Q) = Len(committedPrefix) + Len(stagedSuffix)
        BY <1>1, <2>6
      <4> QED
        BY <1>1, <2>5, <2>8, <2>10, <4>1
    <3>2. PromptTo(P \o Q, m)
      BY <1>1, <2>6 DEF Timely
    <3> HIDE DEF m
    <3>3. PromptTo(H \o Q, m - Len(P) + Len(H))
      BY <2>4, <2>8, <3>1, <3>2, CompactPrompt
    <3> QED
      BY <3>1, <3>3
  <2>13. Ends' = {Len(H \o D)}
    <3>1. DOMAIN prefixTokens' = {}
      BY <2>1
    <3> QED
      BY <2>3, <3>1 DEF Ends
  <2>14. H \o Q # <<>>
    <3> DEFINE t == H \o Q
    <3>1. Len(t) # 0
      BY <2>8, <2>10
    <3> HIDE DEF t
    <3>2. t # <<>>
      BY <3>1
    <3> QED
      BY <3>2 DEF t
  <2>15. CallPrompt(H \o Q, {})
    BY <2>11, AllSettled
  <2>16. \A p \in 1 .. Len(stagedSuffix) : IsUser(stagedSuffix[p])
    BY DEF Timely
  <2> QED
    BY <1>2, <1>3, <2>1, <2>9, <2>12, <2>13, <2>14, <2>15, <2>16 DEF Timely
<1> QED
  BY <1>4, <1>5

(* The fork item, when no call was to run.                                 *)
LEMMA ForkTimely ==
  ASSUME Timely, Fork, lost' = {}
  PROVE  Timely'
<1>1. /\ committedPrefix' = committedPrefix /\ stagedSuffix' = stagedSuffix
      /\ prefixTokens' = prefixTokens /\ given' = given /\ asked' = "none"
      /\ unscheduled' = unscheduled
  BY DEF Fork, builderVars
<1>2. Context' = Context /\ Ends' = Ends
  BY <1>1 DEF Context, Ends
<1> QED
  BY <1>1, <1>2 DEF Timely

(* A call whose result was lost stays so.                                  *)
LEMMA LostForGood ==
  ASSUME [Next]_vars
  PROVE  lost \subseteq lost'
<1>1. CASE UNCHANGED vars
  BY <1>1 DEF vars, forkVars
<1>2. ASSUME NEW i \in Inputs, AddExternalInput(i) \/ AddHeartbeat(i) PROVE lost \subseteq lost'
  BY <1>2 DEF AddExternalInput, AddHeartbeat, Stage
<1>3. ASSUME NEW limit \in Thresholds, NEW sameModel \in BOOLEAN, UpdateSettings(limit, sameModel)
      PROVE  lost \subseteq lost'
  BY <1>3 DEF UpdateSettings
<1>4. CASE RequestTurn
  BY <1>4 DEF RequestTurn
<1>5. ASSUME NEW calls \in CallLists, NEW tokens \in Usages, RegularAnswer(calls, tokens)
      PROVE  lost \subseteq lost'
  BY <1>5 DEF RegularAnswer
<1>6. ASSUME NEW c \in CallIDs, NEW runs \in BOOLEAN, ScheduleCall(c, runs)
      PROVE  lost \subseteq lost'
  BY <1>6 DEF ScheduleCall
<1>7. ASSUME NEW c \in CallIDs, CallFinishes(c) PROVE lost \subseteq lost'
  BY <1>7 DEF CallFinishes
<1>8. ASSUME NEW complete \in BOOLEAN, CompactionAnswer(complete) PROVE lost \subseteq lost'
  BY <1>8 DEF CompactionAnswer
<1>9. CASE Fork
  BY <1>9 DEF Fork
<1> QED
  BY <1>1, <1>2, <1>3, <1>4, <1>5, <1>6, <1>7, <1>8, <1>9, Zenon DEF Next

(* Every step that loses nothing keeps results in time.                    *)
LEMMA NextTimely ==
  ASSUME IInv, Timely, lost' = {}, [Next]_vars
  PROVE  Timely'
<1>0. lost = {}
  BY LostForGood
<1>1. CASE UNCHANGED vars
  <2>1. /\ committedPrefix' = committedPrefix /\ stagedSuffix' = stagedSuffix
        /\ prefixTokens' = prefixTokens /\ asked' = asked
        /\ unscheduled' = unscheduled /\ given' = given
    BY <1>1 DEF vars, builderVars
  <2>2. Context' = Context /\ Ends' = Ends
    BY <2>1 DEF Context, Ends
  <2> QED
    BY <2>1, <2>2 DEF Timely
<1>2. ASSUME NEW i \in Inputs, AddExternalInput(i) \/ AddHeartbeat(i) PROVE Timely'
  BY <1>2, StageTimely DEF AddExternalInput, AddHeartbeat
<1>3. ASSUME NEW limit \in Thresholds, NEW sameModel \in BOOLEAN, UpdateSettings(limit, sameModel)
      PROVE  Timely'
  BY <1>3, UpdateSettingsTimely
<1>4. CASE RequestTurn
  BY <1>4, RequestTurnTimely
<1>5. ASSUME NEW calls \in CallLists, NEW tokens \in Usages, RegularAnswer(calls, tokens)
      PROVE  Timely'
  BY <1>5, RegularAnswerTimely
<1>6. ASSUME NEW c \in CallIDs, NEW runs \in BOOLEAN, ScheduleCall(c, runs) PROVE Timely'
  <2>1. /\ c \in unscheduled \cup running
        /\ stagedSuffix' = AddToolResult(stagedSuffix, c, runs) /\ unscheduled' = unscheduled \ {c}
        /\ committedPrefix' = committedPrefix /\ prefixTokens' = prefixTokens /\ asked' = asked
    BY <1>0, <1>6 DEF ScheduleCall
  <2> QED
    BY <2>1, StatusTimely
<1>7. ASSUME NEW c \in CallIDs, CallFinishes(c) PROVE Timely'
  <2>1. /\ c \in unscheduled \cup running /\ FALSE \in BOOLEAN
        /\ stagedSuffix' = AddToolResult(stagedSuffix, c, FALSE) /\ unscheduled' = unscheduled \ {c}
        /\ committedPrefix' = committedPrefix /\ prefixTokens' = prefixTokens /\ asked' = asked
    BY <1>0, <1>7 DEF CallFinishes
  <2> QED
    BY <2>1, StatusTimely
<1>8. ASSUME NEW complete \in BOOLEAN, CompactionAnswer(complete) PROVE Timely'
  BY <1>8, CompactionAnswerTimely
<1>9. CASE Fork
  BY <1>9, ForkTimely
<1> QED
  BY <1>1, <1>2, <1>3, <1>4, <1>5, <1>6, <1>7, <1>8, <1>9, Zenon DEF Next

(* The second invariant: a fork that has inherited a call without its      *)
(* result has it in its history for good, in no turn behind the call.      *)
TimelyInv == lost = {} => Timely

(* The results of the calls are always in time: as far as anything was     *)
(* sent, and to the end of the context once every call has a status, unless*)
(* a fork has inherited a call without its result.                         *)
THEOREM ResultsAreTimely == Spec => [](IInv /\ TimelyInv)
<1>1. Init => IInv /\ TimelyInv
  BY InitKeeps, InitTimely DEF TimelyInv
<1>2. (IInv /\ TimelyInv) /\ [Next]_vars => (IInv /\ TimelyInv)'
  <2> SUFFICES ASSUME IInv, TimelyInv, [Next]_vars PROVE IInv' /\ TimelyInv'
    OBVIOUS
  <2>1. IInv'
    BY NextKeeps
  <2>2. ASSUME lost' = {} PROVE Timely'
    <3>1. lost = {}
      BY <2>2, LostForGood
    <3> QED
      BY <2>2, <3>1, NextTimely DEF TimelyInv
  <2> QED
    BY <2>1, <2>2 DEF TimelyInv
<1> QED
  BY <1>1, <1>2, PTL DEF Spec

-----------------------------------------------------------------------------
(* What is sent.                                                           *)

(* The blocks of a type in the n-th message.                               *)
LEMMA TypedIs ==
  ASSUME NEW ms \in Seq(Message), NEW type
  PROVE  /\ \A n \in 1 .. Len(ms) : /\ Typed(ms, n, type) = Of(ms[n], type)
                                    /\ TypedIDs(ms, n, type) = IdsOf(ms[n], type)
         /\ \A n : n \notin 1 .. Len(ms) => Typed(ms, n, type) = {} /\ TypedIDs(ms, n, type) = {}
<1>1. DOMAIN ms = 1 .. Len(ms)
  OBVIOUS
<1>2. \A n \in 1 .. Len(ms) : Typed(ms, n, type) = Of(ms[n], type)
  BY <1>1, Zenon DEF Typed, Of
<1>3. \A n : n \notin 1 .. Len(ms) => Typed(ms, n, type) = {}
  BY <1>1, Zenon DEF Typed
<1>4. \A n : n \notin 1 .. Len(ms) => TypedIDs(ms, n, type) = {}
  BY <1>3 DEF TypedIDs
<1>5. \A n \in 1 .. Len(ms) : TypedIDs(ms, n, type) = IdsOf(ms[n], type)
  BY <1>2, Zenon DEF TypedIDs, IdsOf
<1> QED
  BY <1>2, <1>3, <1>4, <1>5

(* Messages without pending calls are turns that answer one another.       *)
LEMMA TurnsAnswered ==
  ASSUME NEW s, NEW p, NEW ms, SentOK(s, p, <<>>, ms)
  PROVE  AnsweredTurns(ms)
<1>1. /\ ms \in Seq(Message) /\ Len(ms) \in Nat /\ DOMAIN ms = 1 .. Len(ms)
      /\ \A m \in 1 .. Len(ms) : m > 1 => ms[m].role # ms[m - 1].role
      /\ \A m \in 1 .. Len(ms) : m + 1 <= Len(ms) => Matched(ms[m], ms[m + 1])
      /\ ms # <<>> => Of(ms[1], "tool_result") = {}
      /\ ms # <<>> => /\ IdsOf(ms[Len(ms)], "tool_use") = Elements(<<>>)
                      /\ Cardinality(Of(ms[Len(ms)], "tool_use")) = Len(<<>>)
  BY DEF SentOK
<1>2. SUFFICES ASSUME NEW m \in 1 .. Len(ms)
      PROVE  /\ TypedIDs(ms, m, "tool_use") = TypedIDs(ms, m + 1, "tool_result")
             /\ Typed(ms, m + 1, "tool_result") = 1 .. Cardinality(Typed(ms, m, "tool_use"))
             /\ Typed(ms, 1, "tool_result") = {}
  BY <1>1 DEF AnsweredTurns
<1>3. ms # <<>> /\ 1 \in 1 .. Len(ms)
  BY <1>1
<1>4. Typed(ms, 1, "tool_result") = {}
  BY <1>1, <1>3, TypedIs
<1>5. /\ Typed(ms, m, "tool_use") = Of(ms[m], "tool_use")
      /\ TypedIDs(ms, m, "tool_use") = IdsOf(ms[m], "tool_use")
  BY <1>1, TypedIs
<1>6. CASE m + 1 <= Len(ms)
  <2>1. m + 1 \in 1 .. Len(ms)
    BY <1>1, <1>6
  <2>2. /\ Typed(ms, m + 1, "tool_result") = Of(ms[m + 1], "tool_result")
        /\ TypedIDs(ms, m + 1, "tool_result") = IdsOf(ms[m + 1], "tool_result")
    BY <1>1, <2>1, TypedIs
  <2>3. /\ IdsOf(ms[m], "tool_use") = IdsOf(ms[m + 1], "tool_result")
        /\ Of(ms[m + 1], "tool_result") = 1 .. Cardinality(Of(ms[m], "tool_use"))
    BY <1>1, <1>6 DEF Matched
  <2> QED
    BY <1>4, <1>5, <2>2, <2>3
<1>7. CASE ~(m + 1 <= Len(ms))
  <2>1. m + 1 \notin 1 .. Len(ms) /\ m = Len(ms)
    <3>1. Len(ms) \in Nat
      BY <1>1
    <3> QED
      BY <1>7, <3>1
  <2>2. Typed(ms, m + 1, "tool_result") = {} /\ TypedIDs(ms, m + 1, "tool_result") = {}
    BY <1>1, <2>1, TypedIs
  <2>3. Elements(<<>>) = {} /\ Len(<<>>) = 0 /\ 1 .. 0 = {}
    BY DEF Elements
  <2>4. IdsOf(ms[m], "tool_use") = {} /\ Cardinality(Of(ms[m], "tool_use")) = 0
    BY <1>1, <1>3, <2>1, <2>3
  <2> QED
    BY <1>4, <1>5, <2>2, <2>3, <2>4
<1> QED
  BY <1>6, <1>7

(* requestInput takes a history whose calls are all answered in time.      *)
LEMMA Accepted ==
  ASSUME NEW s \in Seq(Sendable), s # <<>>, CallsOrdered(s), FullTo(s, Len(s))
  PROVE  /\ RequestInput(s).ok
         /\ AnsweredTurns(RequestInput(s).messages)
         /\ Len(Wire(RequestInput(s).messages)) = Len(s)
         /\ LET wire == Wire(RequestInput(s).messages)
            IN  {wire[k].block.item : k \in DOMAIN wire} = ToSet(s)
<1> DEFINE n == Len(s)
           st == Converted(s, n)
<1>1. n \in Nat /\ n # 0 /\ n \in 0 .. n
  <2>1. n \in Nat /\ n # 0
    OBVIOUS
  <2> QED
    BY <2>1
<1>2. PromptTo(s, n)
  BY <1>1, SettledFurther
<1>3. ConvertedOK(s, n, st) /\ ConvertTurns(s) = st
  BY <1>1, <1>2, ConversionOK, ConvertSteps
<1> HIDE DEF n, st
<1>4. /\ st.ok = TRUE
      /\ st.pending \in Seq(IdsTo(s, n, "call"))
      /\ Elements(st.pending) = IdsTo(s, n, "call") \ IdsTo(s, n, "result")
      /\ SentOK(s, n, st.pending, st.messages)
  BY <1>3 DEF ConvertedOK
<1>5. st.pending = <<>>
  <2>1. ASSUME NEW c \in IdsTo(s, n, "call") PROVE c \in IdsTo(s, n, "result")
    <3>1. PICK q \in 1 .. n : s[q].kind = "call" /\ s[q].id = c
      BY DEF IdsTo
    <3>2. SettledBy(s, q, n)
      BY <3>1 DEF FullTo, n
    <3>3. PICK r \in 1 .. n : Settled(s, q, r)
      BY <3>2 DEF SettledBy
    <3>4. s[r].kind = "result" /\ s[r].id = c
      BY <3>1, <3>3 DEF Settled
    <3> QED
      BY <3>4 DEF IdsTo
  <2>2. Elements(st.pending) = {}
    BY <1>4, <2>1
  <2> DEFINE X == IdsTo(s, n, "call")
             d == st.pending
  <2>3. d \in Seq(X) /\ Elements(d) = {}
    BY <1>4, <2>2
  <2> HIDE DEF X, d
  <2>4. Len(d) = 0
    <3>1. Len(d) \in Nat /\ (Len(d) # 0 => 1 \in 1 .. Len(d))
      BY <2>3
    <3> QED
      BY <2>3, <3>1 DEF Elements
  <2>5. d = <<>>
    BY <2>3, <2>4
  <2> QED
    BY <2>5 DEF d
<1>6. /\ SentOK(s, n, <<>>, st.messages) /\ st.messages # <<>>
      /\ Wire(st.messages) \in Seq(Sending) /\ Len(Wire(st.messages)) = n
      /\ {Wire(st.messages)[k].block.item : k \in 1 .. n} = {s[q] : q \in 1 .. n}
  BY <1>1, <1>4, <1>5 DEF SentOK
<1>7. RequestInput(s).ok /\ RequestInput(s).messages = st.messages
  BY <1>3, <1>4, <1>5, <1>6 DEF RequestInput
<1>8. AnsweredTurns(st.messages)
  BY <1>6, TurnsAnswered
<1>9. ToSet(s) = {s[q] : q \in 1 .. n}
  BY DEF ToSet, n
<1>10. {Wire(st.messages)[k].block.item : k \in DOMAIN Wire(st.messages)} = ToSet(s)
  <2> DEFINE w == Wire(st.messages)
  <2>1. w \in Seq(Sending) /\ Len(w) = n
    BY <1>6
  <2> HIDE DEF w
  <2>2. DOMAIN w = 1 .. n
    BY <2>1
  <2>3. DOMAIN Wire(st.messages) = 1 .. n
    BY <2>2 DEF w
  <2> QED
    BY <1>6, <1>9, <2>3, Zenon
<1> QED
  BY <1>6, <1>7, <1>8, <1>10 DEF n

(* Histories are sequences of what can be sent, with their calls in order. *)
LEMMA HistoryOrdered ==
  ASSUME NEW s \in Seq(Item), History(s)
  PROVE  s \in Seq(Sendable) /\ CallsOrdered(s)
<1>1. s \in Seq(Sendable)
  <2>1. Item \subseteq Sendable
    BY DEF Sendable
  <2> QED
    BY <2>1
<1>2. OnceEach(s) /\ CallsFirst(s) /\ \A p \in 1 .. Len(s) : s[p] \in Item
  BY DEF History
<1>3. ASSUME NEW p \in 1 .. Len(s), NEW q \in 1 .. Len(s),
             s[p].kind = "call", s[q].kind = "call", s[p].id = s[q].id
      PROVE  p = q
  <2>1. PICK c \in CallIDs : s[p] = CallItem(c)
    BY <1>2, <1>3, KindIs
  <2>2. PICK d \in CallIDs : s[q] = CallItem(d)
    BY <1>2, <1>3, KindIs
  <2>3. c = d
    BY <1>3, <2>1, <2>2, ItemFields
  <2>4. s[p] # SummaryItem
    BY <2>1, Distinct
  <2> QED
    BY <1>2, <2>1, <2>2, <2>3, <2>4 DEF OnceEach
<1>4. ASSUME NEW p \in 1 .. Len(s), s[p].kind = "result"
      PROVE  \E q \in 1 .. Len(s) : q < p /\ s[q].kind = "call" /\ s[q].id = s[p].id
  <2>1. PICK c \in CallIDs, r \in BOOLEAN : s[p] = ResultItem(c, r)
    BY <1>2, <1>4, KindIs
  <2>2. PICK q \in 1 .. Len(s) : q < p /\ s[q] = CallItem(c)
    BY <1>2, <2>1 DEF CallsFirst
  <2>3. s[q].kind = "call" /\ s[q].id = c
    BY <2>2, ItemFields
  <2>4. s[p].id = c
    <3>1. \A b \in BOOLEAN : ResultItem(c, b).id = c
      BY DEF ResultItem
    <3> QED
      BY <2>1, <3>1
  <2> QED
    BY <2>2, <2>3, <2>4
<1> QED
  BY <1>1, <1>3, <1>4 DEF CallsOrdered

(* The request for a compaction: what of the prefix is not answered gets   *)
(* its running result at once.                                             *)
LEMMA CompactionAnswered ==
  ASSUME NEW P \in Seq(Item), NEW Q \in Seq(Item), History(P \o Q), PromptTo(P \o Q, Len(P))
  PROVE  /\ Append(P \o Open(P), Instruction) \in Seq(Sendable)
         /\ Append(P \o Open(P), Instruction) # <<>>
         /\ CallsOrdered(Append(P \o Open(P), Instruction))
         /\ FullTo(Append(P \o Open(P), Instruction), Len(Append(P \o Open(P), Instruction)))
<1> DEFINE s == P \o Q
           k == Len(P)
           O == Open(P)
           o == Len(O)
           r == P \o O
           e == Append(r, Instruction)
<1>1. /\ k \in Nat /\ \A p \in 1 .. k : s[p] = P[p] /\ p \in 1 .. Len(s)
      /\ OnceEach(s) /\ CallsFirst(s) /\ PromptTo(s, k)
      /\ \A p \in 1 .. k : P[p] \in Item
  BY ConcatIs DEF History
<1>2. /\ O \in Seq(Item)
      /\ \A p \in 1 .. Len(O) : \E c \in CallIDs :
           /\ O[p] = ResultItem(c, TRUE)
           /\ Contains(P, CallItem(c)) /\ ~Contains(P, ResultItem(c, FALSE))
      /\ \A c \in CallIDs :
           /\ Contains(P, CallItem(c)) /\ ~Contains(P, ResultItem(c, FALSE))
           /\ ~Contains(P, ResultItem(c, TRUE))
           => Contains(O, ResultItem(c, TRUE))
  BY OpenIs
<1> HIDE DEF s, O
<1>3. /\ r \in Seq(Item) /\ Len(r) = k + o /\ o \in Nat
      /\ \A p \in 1 .. k : r[p] = P[p] /\ p \in 1 .. k + o
      /\ \A p \in 1 .. o : r[k + p] = O[p]
  BY <1>2, ConcatIs
<1>4. Instruction.kind = "instruction" /\ IsUser(Instruction) /\ Instruction \in Sendable
  BY DEF Instruction, IsUser, Sendable
<1> HIDE DEF r, k, o
<1>5. /\ e \in Seq(Sendable) /\ Len(e) = k + o + 1 /\ e[k + o + 1] = Instruction
      /\ \A p \in 1 .. k + o : e[p] = r[p]
  <2>1. r \in Seq(Sendable)
    <3>1. Item \subseteq Sendable
      BY DEF Sendable
    <3> QED
      BY <1>3, <3>1
  <2>2. Len(r) = k + o
    BY <1>3
  <2> HIDE DEF e
  <2>3. Len(e) = Len(r) + 1 /\ e \in Seq(Sendable) /\ e[Len(r) + 1] = Instruction
          /\ \A p \in 1 .. Len(r) : e[p] = r[p]
    BY <1>4, <2>1, AppendIs DEF e
  <2> QED
    BY <2>2, <2>3
<1> HIDE DEF e
<1>6. \A p \in 1 .. k : e[p] = P[p] /\ e[p] = s[p] /\ p \in 1 .. Len(e)
  <2>1. \A p \in 1 .. k : p \in 1 .. k + o /\ p \in 1 .. k + o + 1
    BY <1>1, <1>3
  <2> QED
    BY <1>1, <1>3, <1>5, <2>1
<1>0. \A c \in CallIDs : /\ ResultItem(c, TRUE).kind = "result" /\ ResultItem(c, TRUE).id = c
                         /\ CallItem(c).kind = "call" /\ CallItem(c).id = c
  BY DEF ResultItem, CallItem
<1>7. ASSUME NEW p \in k + 1 .. k + o
      PROVE  \E c \in CallIDs : e[p] = ResultItem(c, TRUE) /\ Contains(P, CallItem(c))
  <2>1. p - k \in 1 .. o /\ k + (p - k) = p /\ p \in 1 .. k + o
    BY <1>1, <1>3
  <2>2. e[p] = O[p - k]
    BY <1>3, <1>5, <2>1
  <2> QED
    BY <1>2, <2>1, <2>2 DEF o
<1>8. ASSUME NEW p \in k + 1 .. k + o + 1 PROVE IsUser(e[p])
  <2>1. CASE p = k + o + 1
    BY <1>4, <1>5, <2>1
  <2>2. CASE p # k + o + 1
    <3>1. p \in k + 1 .. k + o
      BY <1>1, <1>3, <2>2
    <3>2. PICK c \in CallIDs : e[p] = ResultItem(c, TRUE)
      BY <1>7, <3>1
    <3>3. e[p].kind = "result"
      BY <1>0, <3>2
    <3> QED
      BY <3>3, RoleIs
  <2> QED
    BY <2>1, <2>2
<1>9. \A p \in 1 .. Len(e) : p \in 1 .. k \/ p \in k + 1 .. k + o + 1
  BY <1>1, <1>3, <1>5
<1>10. \A p \in 1 .. Len(e) : e[p].kind = "call" => p \in 1 .. k
  BY <1>8, <1>9, RoleIs
<1>11. ASSUME NEW p \in 1 .. k, NEW q \in 1 .. Len(s), NEW c \in CallIDs,
              s[p] = CallItem(c), s[q] = CallItem(c)
       PROVE  p = q
  <2>1. s[p] # SummaryItem
    BY <1>11, Distinct
  <2> QED
    BY <1>1, <1>11, <2>1 DEF OnceEach
<1>12. ASSUME NEW p \in 1 .. Len(e), NEW q \in 1 .. Len(e),
              e[p].kind = "call", e[q].kind = "call", e[p].id = e[q].id
       PROVE  p = q
  <2>1. p \in 1 .. k /\ q \in 1 .. k /\ e[p] = P[p] /\ e[q] = P[q] /\ s[p] = P[p] /\ s[q] = P[q]
    BY <1>1, <1>6, <1>10, <1>12
  <2>2. PICK c \in CallIDs : P[p] = CallItem(c)
    BY <1>1, <1>12, <2>1, KindIs
  <2>3. PICK d \in CallIDs : P[q] = CallItem(d)
    BY <1>1, <1>12, <2>1, KindIs
  <2>4. c = d
    BY <1>12, <2>1, <2>2, <2>3, ItemFields
  <2>5. q \in 1 .. Len(s)
    BY <1>1, <2>1
  <2> QED
    BY <1>11, <2>1, <2>2, <2>3, <2>4, <2>5
<1>13. ASSUME NEW p \in 1 .. Len(e), e[p].kind = "result"
       PROVE  \E q \in 1 .. Len(e) : q < p /\ e[q].kind = "call" /\ e[q].id = e[p].id
  <2>1. p # k + o + 1
    BY <1>4, <1>5, <1>13
  <2>2. CASE p \in 1 .. k
    <3>1. e[p] = s[p] /\ e[p] \in Item /\ p \in 1 .. Len(s)
      BY <1>1, <1>6, <2>2
    <3>2. PICK c \in CallIDs, b \in BOOLEAN : s[p] = ResultItem(c, b)
      BY <1>13, <3>1, KindIs
    <3>3. PICK q \in 1 .. Len(s) : q < p /\ s[q] = CallItem(c)
      BY <1>1, <3>1, <3>2 DEF CallsFirst
    <3>4. q \in 1 .. k
      BY <1>1, <2>2, <3>3
    <3>5. e[q] = CallItem(c) /\ q \in 1 .. Len(e)
      BY <1>6, <3>3, <3>4
    <3>6. e[q].kind = "call" /\ e[q].id = c
      BY <3>5, ItemFields
    <3>7. e[p].id = c
      <4>1. \A x \in BOOLEAN : ResultItem(c, x).id = c
        BY DEF ResultItem
      <4> QED
        BY <3>1, <3>2, <4>1
    <3> QED
      BY <3>3, <3>5, <3>6, <3>7
  <2>3. CASE p \in k + 1 .. k + o
    <3>1. PICK c \in CallIDs : e[p] = ResultItem(c, TRUE) /\ Contains(P, CallItem(c))
      BY <1>7, <2>3
    <3>2. PICK q \in 1 .. k : P[q] = CallItem(c)
      BY <3>1 DEF Contains, k
    <3>3. e[q] = CallItem(c) /\ q \in 1 .. Len(e) /\ q < p
      BY <1>1, <1>6, <2>3, <3>2
    <3>4. e[q].kind = "call" /\ e[q].id = c /\ e[p].id = c
      BY <1>0, <3>1, <3>3
    <3> QED
      BY <3>3, <3>4
  <2> QED
    BY <1>1, <1>3, <1>9, <2>1, <2>2, <2>3
<1>14. CallsOrdered(e)
  BY <1>12, <1>13 DEF CallsOrdered
<1>15. ASSUME NEW i \in 1 .. Len(e), e[i].kind = "call" PROVE SettledBy(e, i, Len(e))
  <2>1. i \in 1 .. k /\ e[i] = P[i] /\ s[i] = P[i] /\ P[i] \in Item /\ i \in Nat
    BY <1>1, <1>6, <1>10, <1>15
  <2>2. PICK c \in CallIDs : P[i] = CallItem(c)
    BY <1>15, <2>1, KindIs
  <2>3. CASE SettledBy(s, i, k)
    <3>1. Alike(s, e, k)
      BY <1>6 DEF Alike
    <3>2. k \in 0 .. k
      BY <1>1
    <3>3. SettledBy(e, i, k)
      BY <1>1, <2>1, <2>3, <3>1, <3>2, AlikeIs
    <3>4. Len(e) \in Nat /\ k <= Len(e)
      BY <1>1, <1>3, <1>5
    <3> QED
      BY <1>1, <3>3, <3>4, SettledFurther
  <2>4. CASE ~SettledBy(s, i, k)
    <3>1. \A x \in i .. k : ~IsUser(s[x])
      BY <1>1, <1>15, <2>1, <2>4 DEF PromptTo
    <3>2. ASSUME NEW b \in BOOLEAN, Contains(P, ResultItem(c, b)) PROVE FALSE
      <4>1. PICK w \in 1 .. k : P[w] = ResultItem(c, b)
        BY <3>2 DEF Contains, k
      <4>2. w \in 1 .. Len(s) /\ s[w] = ResultItem(c, b)
        BY <1>1, <4>1
      <4>3. PICK v \in 1 .. Len(s) : v < w /\ s[v] = CallItem(c)
        BY <1>1, <4>2 DEF CallsFirst
      <4>4. v = i
        BY <1>11, <2>1, <2>2, <4>3
      <4>5. w \in i .. k
        BY <1>1, <2>1, <4>1, <4>3, <4>4
      <4>6. s[w].kind = "result"
        <5>1. \A x \in BOOLEAN : ResultItem(c, x).kind = "result"
          BY DEF ResultItem
        <5> QED
          BY <4>2, <5>1
      <4> QED
        BY <3>1, <4>5, <4>6, RoleIs
    <3>3. Contains(O, ResultItem(c, TRUE))
      <4>1. Contains(P, CallItem(c))
        BY <2>1, <2>2 DEF Contains, k
      <4>2. ~Contains(P, ResultItem(c, TRUE)) /\ ~Contains(P, ResultItem(c, FALSE))
        BY <3>2
      <4> QED
        BY <1>2, <4>1, <4>2
    <3>4. PICK j \in 1 .. o : O[j] = ResultItem(c, TRUE)
      BY <3>3 DEF Contains, o
    <3> DEFINE z == k + j
    <3>5. z \in 1 .. Len(e) /\ z \in 1 .. k + o /\ i < z /\ z \in Nat
      BY <1>1, <1>3, <1>5, <2>1
    <3>6. e[z] = ResultItem(c, TRUE)
      BY <1>3, <1>5, <3>4, <3>5
    <3> HIDE DEF z
    <3>7. e[z].kind = "result" /\ e[z].id = e[i].id
      <4>1. e[i] = CallItem(c)
        BY <2>1, <2>2
      <4>2. e[i].id = c /\ e[z].kind = "result" /\ e[z].id = c
        BY <1>0, <3>6, <4>1, Zenon
      <4> QED
        BY <4>2, Zenon
    <3>8. ASSUME NEW x \in i .. z, NEW y \in i .. z, x < y, IsUser(e[x]) PROVE IsUser(e[y])
      <4>1. x \notin 1 .. k
        <5> SUFFICES ASSUME x \in 1 .. k PROVE FALSE
          OBVIOUS
        <5>1. x \in i .. k /\ e[x] = s[x]
          BY <1>1, <1>6, <2>1
        <5> QED
          BY <3>1, <3>8, <5>1
      <4>2. y \in k + 1 .. k + o + 1
        BY <1>1, <1>3, <2>1, <3>5, <3>8, <4>1
      <4> QED
        BY <1>8, <4>2
    <3>9. Settled(e, i, z)
      BY <3>5, <3>7, <3>8 DEF Settled
    <3> QED
      BY <3>5, <3>9 DEF SettledBy
  <2> QED
    BY <2>3, <2>4
<1>16. FullTo(e, Len(e))
  BY <1>15 DEF FullTo
<1>17. e # <<>>
  BY <1>1, <1>3, <1>5
<1> QED
  BY <1>5, <1>14, <1>16, <1>17 DEF e, r, O


(* A sequence that begins with another has it as a prefix.                 *)
LEMMA BeginsIsPrefix ==
  ASSUME NEW X, NEW u \in Seq(X), NEW v \in Seq(X), Begins(u, v)
  PROVE  IsPrefix(u, v)
<1> DEFINE n == Len(u)
           a == SubSeq(u, 1, n)
           b == SubSeq(v, 1, n)
<1>1. n \in Nat /\ Len(v) \in Nat /\ n <= Len(v) /\ 1 <= n + 1 /\ n <= Len(u)
  BY DEF Begins
<1>2. /\ a \in Seq(X) /\ Len(a) = n + 1 - 1
      /\ \A p \in 1 .. n + 1 - 1 : a[p] = u[p + 1 - 1]
  BY <1>1, SubSeqIs
<1>3. /\ b \in Seq(X) /\ Len(b) = n + 1 - 1
      /\ \A p \in 1 .. n + 1 - 1 : b[p] = v[p + 1 - 1]
  BY <1>1, SubSeqIs
<1>4. /\ \A p \in 1 .. n : u[p] = v[p] /\ p + 1 - 1 = p
      /\ n + 1 - 1 = n
  BY <1>1 DEF Begins
<1> HIDE DEF a, b
<1>5. Len(a) = Len(b) /\ \A p \in 1 .. Len(a) : a[p] = b[p]
  BY <1>2, <1>3, <1>4
<1>6. a = b
  BY <1>2, <1>3, <1>5
<1> QED
  BY <1>1, <1>6 DEF IsPrefix, a, b

(* What the coordinator can ask the model next: a history in which every   *)
(* call has its result in time.                                            *)
LEMMA RequestSettled ==
  ASSUME IInv, Timely, MayRequest
  PROVE  /\ NextRequest \in Seq(Sendable) /\ NextRequest # <<>>
         /\ CallsOrdered(NextRequest) /\ FullTo(NextRequest, Len(NextRequest))
<1>1. /\ StateOK /\ TypeOK /\ Context \in Seq(Item) /\ History(Context) /\ Context # <<>>
      /\ committedPrefix \in Seq(Item) /\ stagedSuffix \in Seq(Item)
      /\ CallPrompt(Context, {})
  BY DEF IInv, ContextOK, MayRequest, StateOK, Timely
<1>2. CASE NeedsCompaction /\ HasCutoff
  <2> DEFINE k == Cutoff
             P == SubSeq(committedPrefix, 1, k)
             Q == SubSeq(committedPrefix, k + 1, Len(committedPrefix)) \o stagedSuffix
  <2>1. k \in 1 .. Len(committedPrefix) /\ Len(committedPrefix) \in Nat /\ k \in Ends
    BY <1>1, <1>2, CutoffIs DEF Ends
  <2>2. NextRequest = Append(P \o Open(P), Instruction)
    BY <1>2, CompactionRequestIs DEF NextRequest
  <2>3. PromptTo(Context, k)
    BY <2>1 DEF Timely
  <2> HIDE DEF k
  <2>4. P \in Seq(Item) /\ Q \in Seq(Item) /\ committedPrefix \o stagedSuffix = P \o Q
    BY <1>1, <2>1, SplitIs, ZenonT(30)
  <2>5. Len(P) = k
    <3>1. k \in Nat /\ 1 <= k + 1 /\ k <= Len(committedPrefix) /\ k + 1 - 1 = k
      BY <2>1
    <3>2. Len(P) = k + 1 - 1
      BY <1>1, <3>1, SubSeqIs
    <3> QED
      BY <3>1, <3>2
  <2> HIDE DEF P, Q
  <2>6. History(P \o Q) /\ PromptTo(P \o Q, Len(P))
    BY <1>1, <2>3, <2>4, <2>5 DEF Context
  <2> QED
    BY <2>2, <2>4, <2>6, CompactionAnswered
<1>3. CASE ~(NeedsCompaction /\ HasCutoff)
  <2>1. NextRequest = Context
    BY <1>3 DEF NextRequest
  <2>2. Context \in Seq(Sendable) /\ CallsOrdered(Context)
    BY <1>1, HistoryOrdered
  <2>3. FullTo(Context, Len(Context))
    BY <1>1, AllSettled
  <2> QED
    BY <1>1, <2>1, <2>2, <2>3
<1> QED
  BY <1>2, <1>3

-----------------------------------------------------------------------------
(* What requestInput refuses: a call without a result.                     *)

(* The state st after the first p items: unless there was an error, every  *)
(* call is pending or has a result.                                        *)
Outstanding(s, p, st) ==
  /\ st = [ok |-> st.ok, calls |-> st.calls, answered |-> st.answered,
           pending |-> st.pending, messages |-> st.messages]
  /\ st.pending \in Seq(IdsTo(s, p, "call"))
  /\ st.ok => IdsTo(s, p, "call") \ IdsTo(s, p, "result") \subseteq Elements(st.pending)

(* The elements of two sequences, one behind the other.                    *)
LEMMA ElementsConcat ==
  ASSUME NEW X, NEW u \in Seq(X), NEW v \in Seq(X)
  PROVE  u \o v \in Seq(X) /\ Elements(u \o v) = Elements(u) \cup Elements(v)
<1> DEFINE w == u \o v
<1>1. /\ w \in Seq(X) /\ Len(w) = Len(u) + Len(v) /\ Len(u) \in Nat /\ Len(v) \in Nat
      /\ \A k \in 1 .. Len(u) : w[k] = u[k]
      /\ \A k \in 1 .. Len(v) : w[Len(u) + k] = v[k]
  OBVIOUS
<1> HIDE DEF w
<1>2. \A k \in 1 .. Len(w) : k \in 1 .. Len(u) \/ k - Len(u) \in 1 .. Len(v)
  BY <1>1
<1>3. ASSUME NEW k \in 1 .. Len(w) PROVE w[k] \in Elements(u) \cup Elements(v)
  <2>1. CASE k \in 1 .. Len(u)
    BY <1>1, <2>1 DEF Elements
  <2>2. CASE k - Len(u) \in 1 .. Len(v)
    <3>1. w[k] = v[k - Len(u)]
      BY <1>1, <2>2
    <3> QED
      BY <2>2, <3>1 DEF Elements
  <2> QED
    BY <1>2, <2>1, <2>2
<1>4. \A k \in 1 .. Len(u) : k \in 1 .. Len(w)
  BY <1>1
<1>5. \A k \in 1 .. Len(v) : Len(u) + k \in 1 .. Len(w)
  BY <1>1
<1>6. Elements(u) \subseteq Elements(w) /\ Elements(v) \subseteq Elements(w)
  BY <1>1, <1>4, <1>5 DEF Elements
<1>7. Elements(w) \subseteq Elements(u) \cup Elements(v)
  BY <1>3 DEF Elements
<1> QED
  BY <1>1, <1>6, <1>7 DEF w

(* The next turn leaves it so: a turn of the user has to answer what is    *)
(* pending.                                                                *)
LEMMA OutstandingStep ==
  ASSUME NEW s, NEW a, NEW p, NEW t, NEW st, TurnIs(s, a, p, t), CallsOrdered(s),
         Outstanding(s, a, st)
  PROVE  Outstanding(s, p, ConvertTurn(st, t))
<1> DEFINE A == IdsTo(s, a, "call")
           B == IdsTo(s, a, "result")
           P == IdsTo(s, p, "call")
           R == IdsTo(s, p, "result")
           next == ConvertTurn(st, t)
<1>1. /\ a \in Nat /\ p \in Nat /\ a < p /\ t \in Seq(Sendable) /\ Len(t) = p - a
      /\ DOMAIN t = 1 .. Len(t) /\ t # <<>> /\ Head(t) = t[1] /\ 1 \in 1 .. Len(t)
      /\ \A i \in 1 .. Len(t) : IsUser(t[i]) <=> IsUser(s[p])
  BY DEF TurnIs
<1>2. P = A \cup NamedIn(t, "call") /\ R = B \cup NamedIn(t, "result")
  BY IdsFurther
<1>3. /\ st = [ok |-> st.ok, calls |-> st.calls, answered |-> st.answered,
               pending |-> st.pending, messages |-> st.messages]
      /\ st.pending \in Seq(A) /\ (st.ok => A \ B \subseteq Elements(st.pending))
  BY DEF Outstanding
<1>4. st.pending \in Seq(P) /\ <<>> \in Seq(P)
  BY <1>2, <1>3
<1>5. Head(t).kind \in {"answer", "call"} <=> ~IsUser(s[p])
  BY <1>1 DEF IsUser
<1> HIDE DEF A, B, P, R
<1>6. CASE ~st.ok
  <2>1. next = st
    BY <1>6 DEF ConvertTurn
  <2> QED
    BY <1>3, <1>4, <1>6, <2>1 DEF Outstanding, P, R
<1>7. CASE st.ok /\ ~IsUser(s[p])
  <2> DEFINE M == Made(t)
  <2>1. M \in Seq(P) /\ Elements(M) = NamedIn(t, "call")
    BY MadeIs DEF P
  <2>2. next = AssistantTurn(st, t)
    BY <1>5, <1>7 DEF ConvertTurn, ItemRole
  <2>3. /\ next.pending = st.pending \o M
        /\ next = [ok |-> next.ok, calls |-> next.calls, answered |-> next.answered,
                   pending |-> next.pending, messages |-> next.messages]
    <3>1. AssistantTurn(st, t) =
            [st EXCEPT
              !.ok       = @ /\ IsInjective(M) /\ ToSet(M) \cap st.calls = {},
              !.calls    = @ \cup ToSet(M),
              !.pending  = @ \o M,
              !.messages = Append(@, AssistantMessage(t))]
      BY DEF AssistantTurn, Made, AssistantMessage
    <3> HIDE DEF M, next
    <3> QED
      BY <1>3, <2>2, <3>1
  <2> HIDE DEF M, next
  <2>4. next.pending \in Seq(P) /\ Elements(next.pending) = Elements(st.pending) \cup Elements(M)
    BY <1>4, <2>1, <2>3, ElementsConcat
  <2>5. P \ R \subseteq Elements(next.pending)
    BY <1>2, <1>3, <1>7, <2>1, <2>4
  <2> QED
    BY <2>3, <2>4, <2>5 DEF Outstanding, P, R, next
<1>8. CASE st.ok /\ IsUser(s[p])
  <2> DEFINE results == Answering(st, t)
             answered == {t[i].id : i \in results}
             fits == /\ \A i \in DOMAIN t : t[i].kind = "result" => t[i].id \in st.calls
                     /\ ToSet(st.pending) \subseteq answered
  <2>1. next = UserTurn(st, t)
    BY <1>5, <1>8 DEF ConvertTurn, ItemRole
  <2>2. NamedIn(t, "call") = {}
    <3>1. \A i \in 1 .. Len(t) : t[i].kind # "call"
      BY <1>1, <1>8 DEF IsUser
    <3> QED
      BY <3>1 DEF NamedIn, At
  <2>3. answered \subseteq NamedIn(t, "result")
    <3>1. \A i \in results : i \in 1 .. Len(t) /\ t[i].kind = "result"
      BY <1>1 DEF Answering
    <3> QED
      BY <3>1 DEF NamedIn, At
  <2>4. CASE fits
    <3>1. UserTurn(st, t) = [st EXCEPT !.answered = @ \cup answered, !.pending = <<>>,
                                       !.messages = Append(@, UserMessage(st, t))]
      BY <2>4 DEF UserTurn, UserMessage, Placed, Place, Others, Rest
    <3>2. ToSet(st.pending) = Elements(st.pending)
      <4> DEFINE d == st.pending
      <4>1. d \in Seq(P)
        BY <1>4
      <4> HIDE DEF d
      <4>2. ToSet(d) = Elements(d)
        BY <4>1 DEF ToSet, Elements
      <4> QED
        BY <4>2 DEF d
    <3>3. P \ R = {}
      BY <1>2, <1>3, <1>8, <2>2, <2>3, <2>4, <3>2
    <3> HIDE DEF next, answered
    <3>4. /\ next.pending = <<>>
          /\ next = [ok |-> next.ok, calls |-> next.calls, answered |-> next.answered,
                     pending |-> next.pending, messages |-> next.messages]
      BY <1>3, <2>1, <3>1
    <3> QED
      BY <1>4, <3>3, <3>4 DEF Outstanding, P, R, next
  <2>5. CASE ~fits
    <3>1. UserTurn(st, t) = [st EXCEPT !.ok = FALSE]
      BY <2>5 DEF UserTurn
    <3> HIDE DEF next
    <3>2. /\ next.pending = st.pending /\ next.ok = FALSE
          /\ next = [ok |-> next.ok, calls |-> next.calls, answered |-> next.answered,
                     pending |-> next.pending, messages |-> next.messages]
      BY <1>3, <2>1, <3>1
    <3> QED
      BY <1>4, <3>2 DEF Outstanding, P, R, next
  <2> QED
    BY <2>4, <2>5
<1> QED
  BY <1>6, <1>7, <1>8

(* The end of every turn.                                                  *)
LEMMA AllOutstanding ==
  ASSUME NEW s \in Seq(Sendable), CallsOrdered(s)
  PROVE  \A p \in 0 .. Len(s) : Outstanding(s, p, Converted(s, p))
<1> DEFINE G(p) == Outstanding(s, p, Converted(s, p))
           T == {k \in Nat : \A p \in 0 .. k : p <= Len(s) => G(p)}
<1>1. /\ Len(s) \in Nat /\ Converted(s, 0) = NothingConverted
      /\ \A p \in 1 .. Len(s) :
           Converted(s, p) = ConvertTurn(Converted(s, TurnStart(s, p) - 1),
                                         SubSeq(s, TurnStart(s, p), p))
  BY ConvertSteps
<1>2. G(0)
  <2> DEFINE st == NothingConverted
  <2>1. st = [ok |-> TRUE, calls |-> {}, answered |-> {}, pending |-> <<>>, messages |-> <<>>]
    BY DEF NothingConverted
  <2> HIDE DEF st
  <2>2. 1 .. 0 = {} /\ <<>> \in Seq({})
    OBVIOUS
  <2>3. IdsTo(s, 0, "call") = {}
    BY <2>2 DEF IdsTo
  <2>4. Outstanding(s, 0, st)
    BY <2>1, <2>2, <2>3 DEF Outstanding
  <2> QED
    BY <1>1, <2>4 DEF st
<1>3. 0 \in T
  <2>1. \A p \in 0 .. 0 : p = 0
    OBVIOUS
  <2> QED
    BY <1>2, <2>1
<1>4. ASSUME NEW k \in T PROVE k + 1 \in T
  <2> SUFFICES ASSUME k + 1 <= Len(s) PROVE G(k + 1)
    <3>1. \A p \in 0 .. k + 1 : p \in 0 .. k \/ p = k + 1
      OBVIOUS
    <3> HIDE DEF G
    <3> QED
      BY <3>1
  <2> DEFINE p == k + 1
             b == TurnStart(s, p)
             t == SubSeq(s, b, p)
             st == Converted(s, b - 1)
  <2>1. p \in 1 .. Len(s)
    BY <1>1
  <2>2. b \in 1 .. p /\ TurnIs(s, b - 1, p, t)
    BY <2>1, TurnStartIs, TurnIsThere
  <2>3. b - 1 \in 0 .. k /\ b - 1 <= Len(s)
    <3> HIDE DEF b
    <3> QED
      BY <1>1, <2>1, <2>2
  <2>4. Outstanding(s, b - 1, st)
    BY <2>3
  <2>5. Converted(s, p) = ConvertTurn(st, t)
    BY <1>1, <2>1
  <2> HIDE DEF b, t, st, p
  <2>6. Outstanding(s, p, ConvertTurn(st, t))
    BY <2>2, <2>4, OutstandingStep
  <2> QED
    BY <2>5, <2>6 DEF p
<1> HIDE DEF G
<1>5. T = Nat
  <2>1. T \in SUBSET Nat
    OBVIOUS
  <2> HIDE DEF T
  <2> QED
    BY <1>3, <1>4, <2>1, Induction
<1>6. ASSUME NEW p \in 0 .. Len(s) PROVE G(p)
  <2>1. p \in T /\ p \in 0 .. p /\ p <= Len(s)
    BY <1>1, <1>5
  <2> QED
    BY <2>1
<1> QED
  BY <1>6 DEF G

(* requestInput fails for a history with a call that has no result.        *)
LEMMA Refused ==
  ASSUME NEW s \in Seq(Sendable), CallsOrdered(s), NEW q \in 1 .. Len(s), s[q].kind = "call",
         \A r \in 1 .. Len(s) : s[r].kind = "result" => s[r].id # s[q].id
  PROVE  ~RequestInput(s).ok
<1> DEFINE n == Len(s)
           st == Converted(s, n)
<1>1. n \in Nat /\ n \in 0 .. n
  <2>1. n \in Nat
    OBVIOUS
  <2> HIDE DEF n
  <2> QED
    BY <2>1
<1>2. Outstanding(s, n, st) /\ ConvertTurns(s) = st
  BY <1>1, AllOutstanding, ConvertSteps
<1> HIDE DEF n, st
<1>3. s[q].id \in IdsTo(s, n, "call") \ IdsTo(s, n, "result")
  BY DEF IdsTo, n
<1>4. st.ok => s[q].id \in Elements(st.pending)
  BY <1>2, <1>3 DEF Outstanding
<1>5. Elements(<<>>) = {}
  BY DEF Elements
<1>6. RequestInput(s).ok => st.ok /\ st.pending = <<>>
  BY <1>2 DEF RequestInput
<1> QED
  BY <1>4, <1>5, <1>6

(* A call that a fork has inherited without its result has none at all.    *)
LEMMA LostRefused ==
  ASSUME IInv, lost # {}
  PROVE  ~RequestInput(Context).ok
<1> DEFINE s == Context
<1>1. /\ s \in Seq(Item) /\ History(s) /\ Sourced(s, given)
      /\ CallsOK(s, Unanswered, Shown, given) /\ Unanswered \subseteq CallIDs
  BY DEF IInv, ContextOK
<1>2. PICK c \in CallIDs : c \in Unanswered
  BY <1>1 DEF Unanswered
<1>3. /\ Contains(s, CallItem(c)) /\ ~Contains(s, ResultItem(c, TRUE))
      /\ ~Contains(s, ResultItem(c, FALSE))
  BY <1>1, <1>2, WasGiven DEF CallsOK
<1> HIDE DEF s
<1>4. PICK q \in 1 .. Len(s) : s[q] = CallItem(c)
  BY <1>3 DEF Contains
<1>5. s[q].kind = "call" /\ s[q].id = c
  BY <1>4, ItemFields
<1>6. ASSUME NEW r \in 1 .. Len(s), s[r].kind = "result" PROVE s[r].id # c
  <2>1. s[r] \in Item
    BY <1>1
  <2>2. PICK d \in CallIDs, b \in BOOLEAN : s[r] = ResultItem(d, b)
    BY <1>6, <2>1, KindIs
  <2>3. s[r].id = d
    <3>1. ResultItem(d, b).id = d
      BY DEF ResultItem
    <3> QED
      BY <2>2, <3>1
  <2>4. d # c
    <3>1. b = TRUE \/ b = FALSE
      OBVIOUS
    <3> QED
      BY <1>3, <2>2, <3>1 DEF Contains
  <2> QED
    BY <2>3, <2>4
<1>7. s \in Seq(Sendable) /\ CallsOrdered(s)
  BY <1>1, HistoryOrdered
<1>8. ~RequestInput(s).ok
  BY <1>4, <1>5, <1>6, <1>7, Refused
<1> QED
  BY <1>8 DEF s

-----------------------------------------------------------------------------
(* The theorems about what is sent.                                        *)

(* Every request the coordinator can build, a turn or a compaction, after  *)
(* any number of compactions with calls that run across them and forks     *)
(* that lose no result, is one both providers accept: requestInput finds   *)
(* no error in it, the turns it makes alternate and answer every call with *)
(* exactly one result block at the head of the next turn, and every item   *)
(* is sent as one block.  A fork that inherits a call without its result   *)
(* (FIXME in addItemToLocalState) can never send a regular request.        *)
THEOREM RequestsAccepted == Spec => []RequestsAreAccepted
<1>1. IInv /\ TimelyInv /\ NativeRequests => RequestsAreAccepted
  <2> SUFFICES ASSUME IInv, TimelyInv, NativeRequests PROVE RequestsAreAccepted
    OBVIOUS
  <2>1. ASSUME MayRequest, lost = {}
        PROVE  LET request == NextRequest
                   input == RequestInput(request)
                   wire == Wire(input.messages)
               IN  /\ input.ok
                   /\ AnsweredTurns(input.messages)
                   /\ Len(wire) = Len(request)
                   /\ {wire[k].block.item : k \in DOMAIN wire} = ToSet(request)
    <3> DEFINE s == NextRequest
    <3>1. s \in Seq(Sendable) /\ s # <<>> /\ CallsOrdered(s) /\ FullTo(s, Len(s))
      BY <2>1, RequestSettled DEF TimelyInv
    <3> HIDE DEF s
    <3>2. /\ RequestInput(s).ok
          /\ AnsweredTurns(RequestInput(s).messages)
          /\ Len(Wire(RequestInput(s).messages)) = Len(s)
          /\ LET wire == Wire(RequestInput(s).messages)
             IN  {wire[k].block.item : k \in DOMAIN wire} = ToSet(s)
      BY <3>1, Accepted
    <3> QED
      BY <3>2 DEF s
  <2>2. lost # {} => ~RequestInput(Context).ok
    BY LostRefused
  <2> QED
    BY <2>1, <2>2, Zenon DEF RequestsAreAccepted
<1> QED
  BY <1>1, ResultsAreTimely, RequestsAreNative, PTL

(* The messages made of what was sent before, with its answers, are a      *)
(* prefix of those of the next regular request, whatever results have      *)
(* arrived since and however often the history was compacted: what the     *)
(* provider has cached is never rewritten.  (Forks that lose a result have *)
(* no next regular request.)                                               *)
THEOREM HistoryKept == Spec => []HistoryNotRewritten
<1>1. IInv /\ TimelyInv => HistoryNotRewritten
  <2> SUFFICES ASSUME IInv, Timely, MayRequest, lost = {},
                      NEW n \in {prefixTokens[k].index : k \in DOMAIN prefixTokens}
                                  \cup {Len(committedPrefix)}
               PROVE  IsPrefix(Wire(ConvertTurns(SubSeq(Context, 1, n)).messages),
                               Wire(ConvertTurns(Context).messages))
    BY Zenon DEF HistoryNotRewritten, TimelyInv
  <2> DEFINE s == Context
             m == Len(s)
  <2>1. n \in Ends
    BY DEF Ends
  <2>2. s \in Seq(Item) /\ n \in 0 .. m /\ PromptTo(s, n) /\ History(s) /\ CallPrompt(s, {})
    BY <2>1, EndsAre DEF Timely, MayRequest, IInv, ContextOK
  <2> HIDE DEF s
  <2>3. s \in Seq(Sendable) /\ CallsOrdered(s)
    BY <2>2, HistoryOrdered
  <2>4. m \in Nat /\ m \in 0 .. m /\ m <= m
    <3>1. m \in Nat
      BY <2>2
    <3> HIDE DEF m
    <3> QED
      BY <3>1
  <2>5. PromptTo(s, m)
    <3>1. FullTo(s, m)
      BY <2>2, AllSettled
    <3> QED
      BY <2>4, <3>1, SettledFurther
  <2>6. Begins(WireTo(s, n), WireTo(s, m))
    BY <2>2, <2>3, <2>4, <2>5, WireBegins
  <2>7. WireTo(s, n) \in Seq(Sending) /\ WireTo(s, m) \in Seq(Sending)
    BY <2>2, <2>3, <2>4, <2>5, WireToIs
  <2>8. IsPrefix(WireTo(s, n), WireTo(s, m))
    BY <2>6, <2>7, BeginsIsPrefix
  <2>9. ConvertTurns(s) = Converted(s, m)
    BY <2>3, ConvertSteps
  <2> QED
    BY <2>8, <2>9 DEF WireTo, Converted, s
<1> QED
  BY <1>1, ResultsAreTimely, PTL

=============================================================================
