---------------------------- MODULE SSEFramerProofs ----------------------------
(***************************************************************************)
(* The framer of event streams cuts every stream in the same way, in       *)
(* chunks of any sizes (SSEFramer).                                        *)
(*                                                                         *)
(* The meaning of a stream is defined on all of its bytes; the framer sees *)
(* one chunk after the other.  The proof says what one more byte adds to   *)
(* each part of that meaning (line endings, frame endings, the unfinished  *)
(* frame, where its delimiter would begin, the contents and sizes of all   *)
(* frames), then that the body of append's loop adds the same to the       *)
(* framer and to what was sent (ByteFollows, one lemma per case of the     *)
(* loop), and goes over the bytes of a chunk by induction (ChunkFollows).  *)
(* Induction is over sets of numbers, which have a least element.          *)
(***************************************************************************)
EXTENDS SSEFramer, WellFoundedInduction, TLAPS

-----------------------------------------------------------------------------
(* Numbers.                                                                *)

(* A set of numbers has a least element.                                   *)
LEMMA LeastElement ==
  ASSUME NEW T \in SUBSET Nat, T # {}
  PROVE  \E n \in T : \A m \in T : n <= m
<1> DEFINE R == OpToRel(<, Nat)
<1>1. IsWellFoundedOn(R, Nat)
  BY NatLessThanWellFounded
<1>2. \A x \in Nat, y \in Nat : <<x, y>> \in R <=> x < y
  BY DEF OpToRel
<1> HIDE DEF R
<1>3. PICK x \in T : \A y \in T : ~(<<y, x>> \in R)
  BY <1>1, WFMin
<1>4. ASSUME NEW y \in T PROVE x <= y
  <2>1. x \in Nat /\ y \in Nat
    OBVIOUS
  <2>2. ~(y < x)
    BY <1>2, <1>3, <2>1, Zenon
  <2> QED
    BY <2>1, <2>2
<1> QED
  BY <1>4

(* A set that holds 0 and with every number the next one holds them all.   *)
LEMMA Induction ==
  ASSUME NEW T \in SUBSET Nat, 0 \in T, \A n \in T : n + 1 \in T
  PROVE  T = Nat
<1> SUFFICES ASSUME Nat \ T # {} PROVE FALSE
  OBVIOUS
<1>1. PICK n \in Nat \ T : \A m \in Nat \ T : n <= m
  BY LeastElement
<1> QED
  BY <1>1

(* The last of some positions of a sequence.                               *)
LEMMA MaxIs ==
  ASSUME NEW n \in Nat, NEW S \in SUBSET (1 .. n), S # {}
  PROVE  Max(S) \in S /\ \A x \in S : x <= Max(S)
<1> DEFINE T == {n - x : x \in S}
<1>1. T \in SUBSET Nat /\ T # {}
  <2>1. \A x \in S : n - x \in Nat
    OBVIOUS
  <2> QED
    BY <2>1
<1> HIDE DEF T
<1>2. PICK t \in T : \A u \in T : t <= u
  BY <1>1, LeastElement
<1>3. PICK x \in S : t = n - x
  BY <1>2 DEF T
<1>4. \A y \in S : n - x <= n - y
  BY <1>2, <1>3 DEF T
<1>5. \A y \in S : x >= y
  BY <1>4
<1>6. \E z \in S : \A y \in S : z >= y
  BY <1>5
<1>7. Max(S) \in S /\ \A y \in S : Max(S) >= y
  BY <1>6 DEF Max
<1>8. \A y \in S : y \in Nat
  OBVIOUS
<1> QED
  BY <1>7, <1>8

(* It is the only one.                                                     *)
LEMMA MaxIsOne ==
  ASSUME NEW n \in Nat, NEW S \in SUBSET (1 .. n), NEW m \in S, \A x \in S : x <= m
  PROVE  Max(S) = m
<1>1. Max(S) \in S /\ \A x \in S : x <= Max(S)
  BY MaxIs
<1>2. \A x \in S : x \in Nat
  OBVIOUS
<1>3. Max(S) \in Nat /\ m \in Nat /\ Max(S) <= m /\ m <= Max(S)
  BY <1>1, <1>2
<1> QED
  BY <1>3

-----------------------------------------------------------------------------
(* FlattenSeq.                                                             *)

(* Concatenation, and the sequences that it makes step by step.            *)
Join(a, b) == a \o b

FlattenOf(seqs, f, m) ==
  f = [i \in 1 .. m |-> IF i = 1 THEN seqs[i] ELSE Join(f[i - 1], seqs[i])]

(* The concatenations of the first i sequences are defined: by induction.  *)
LEMMA FlattenExists ==
  ASSUME NEW seqs
  PROVE  \A m \in Nat : \E f : FlattenOf(seqs, f, m)
<1> DEFINE T == {m \in Nat : \E f : FlattenOf(seqs, f, m)}
<1>1. 0 \in T
  <2>1. FlattenOf(seqs, [i \in 1 .. 0 |-> seqs[i]], 0)
    BY DEF FlattenOf
  <2> QED
    BY <2>1
<1>2. ASSUME NEW m \in T PROVE m + 1 \in T
  <2>1. PICK f : FlattenOf(seqs, f, m)
    OBVIOUS
  <2> DEFINE g == [i \in 1 .. m + 1 |-> IF i = m + 1
                                        THEN IF i = 1 THEN seqs[i] ELSE Join(f[m], seqs[i])
                                        ELSE f[i]]
  <2>2. FlattenOf(seqs, g, m + 1)
    <3>1. ASSUME NEW i \in 1 .. m + 1
          PROVE  g[i] = IF i = 1 THEN seqs[i] ELSE Join(g[i - 1], seqs[i])
      <4>1. CASE i = m + 1
        BY <4>1
      <4>2. CASE i # m + 1
        BY <2>1, <4>2 DEF FlattenOf
      <4> QED
        BY <4>1, <4>2
    <3> QED
      BY <3>1 DEF FlattenOf
  <2> QED
    BY <2>2
<1> HIDE DEF T
<1>3. T = Nat
  BY <1>1, <1>2, Induction DEF T
<1> QED
  BY <1>3 DEF T

(* FlattenSeq by its steps.                                                *)
LEMMA FlattenIs ==
  ASSUME NEW seqs, Len(seqs) \in Nat, Len(seqs) # 0
  PROVE  \E f : /\ FlattenSeq(seqs) = f[Len(seqs)]
                /\ f[1] = seqs[1]
                /\ \A i \in 1 .. Len(seqs) : i # 1 => f[i] = Join(f[i - 1], seqs[i])
<1> DEFINE f == CHOOSE g : FlattenOf(seqs, g, Len(seqs))
<1>1. \E g : FlattenOf(seqs, g, Len(seqs))
  BY FlattenExists
<1>2. FlattenOf(seqs, f, Len(seqs))
  BY <1>1
<1>3. FlattenSeq(seqs) = f[Len(seqs)]
  BY DEF FlattenSeq, FlattenOf, Join
<1> HIDE DEF f
<1>4. f = [i \in 1 .. Len(seqs) |-> IF i = 1 THEN seqs[i] ELSE Join(f[i - 1], seqs[i])]
  BY <1>2 DEF FlattenOf
<1>5. f[1] = seqs[1] /\ \A i \in 1 .. Len(seqs) : i # 1 => f[i] = Join(f[i - 1], seqs[i])
  BY <1>4
<1> QED
  BY <1>3, <1>5

(* The concatenation of sequences is a sequence, by induction.             *)
LEMMA FlattenType ==
  ASSUME NEW X, NEW seqs \in Seq(Seq(X))
  PROVE  FlattenSeq(seqs) \in Seq(X)
<1>1. Len(seqs) \in Nat
  OBVIOUS
<1>2. CASE Len(seqs) = 0
  <2>1. FlattenSeq(seqs) = seqs /\ seqs = <<>>
    BY <1>2 DEF FlattenSeq
  <2> QED
    BY <2>1
<1>3. CASE Len(seqs) # 0
  <2>1. PICK f : /\ FlattenSeq(seqs) = f[Len(seqs)]
                 /\ f[1] = seqs[1]
                 /\ \A i \in 1 .. Len(seqs) : i # 1 => f[i] = Join(f[i - 1], seqs[i])
    BY <1>1, <1>3, FlattenIs
  <2> DEFINE T == {m \in Nat : m + 1 \in 1 .. Len(seqs) => f[m + 1] \in Seq(X)}
  <2>2. \A i \in 1 .. Len(seqs) : seqs[i] \in Seq(X)
    OBVIOUS
  <2>3. 0 \in T
    BY <1>1, <1>3, <2>1, <2>2
  <2>4. ASSUME NEW m \in T PROVE m + 1 \in T
    <3> SUFFICES ASSUME m + 2 \in 1 .. Len(seqs) PROVE f[m + 2] \in Seq(X)
      OBVIOUS
    <3>1. m \in Nat /\ m + 1 \in 1 .. Len(seqs) /\ m + 2 # 1 /\ (m + 2) - 1 = m + 1
      BY <1>1
    <3>2. f[m + 1] \in Seq(X) /\ seqs[m + 2] \in Seq(X)
      BY <2>2, <3>1
    <3>3. f[m + 2] = Join(f[m + 1], seqs[m + 2])
      BY <2>1, <3>1
    <3>4. Join(f[m + 1], seqs[m + 2]) \in Seq(X)
      BY <3>2 DEF Join
    <3> QED
      BY <3>3, <3>4
  <2> HIDE DEF T
  <2>5. T \in SUBSET Nat
    BY DEF T
  <2>6. T = Nat
    BY <2>3, <2>4, <2>5, Induction
  <2>7. Len(seqs) - 1 \in T /\ (Len(seqs) - 1) + 1 = Len(seqs) /\ Len(seqs) \in 1 .. Len(seqs)
    BY <1>1, <1>3, <2>6
  <2> QED
    BY <2>1, <2>7 DEF T
<1> QED
  BY <1>2, <1>3

(* One more sequence.                                                      *)
LEMMA FlattenAppend ==
  ASSUME NEW X, NEW seqs \in Seq(Seq(X)), NEW s \in Seq(X)
  PROVE  FlattenSeq(Append(seqs, s)) = FlattenSeq(seqs) \o s
<1> DEFINE t == Append(seqs, s)
           n == Len(seqs)
<1>1. /\ n \in Nat /\ Len(t) = n + 1 /\ t[n + 1] = s
      /\ \A i \in 1 .. n : t[i] = seqs[i]
  OBVIOUS
<1> HIDE DEF t
<1>2. PICK g : /\ FlattenSeq(t) = g[Len(t)]
               /\ g[1] = t[1]
               /\ \A i \in 1 .. Len(t) : i # 1 => g[i] = Join(g[i - 1], t[i])
  <2>1. Len(t) \in Nat /\ Len(t) # 0
    BY <1>1
  <2> QED
    BY <2>1, FlattenIs
<1>3. CASE n = 0
  <2>1. FlattenSeq(seqs) = seqs /\ seqs = <<>>
    BY <1>3 DEF FlattenSeq
  <2>2. FlattenSeq(t) = s
    BY <1>1, <1>2, <1>3
  <2>3. <<>> \o s = s
    OBVIOUS
  <2> QED
    BY <2>1, <2>2, <2>3 DEF t
<1>4. CASE n # 0
  <2>1. PICK f : /\ FlattenSeq(seqs) = f[Len(seqs)]
                 /\ f[1] = seqs[1]
                 /\ \A i \in 1 .. Len(seqs) : i # 1 => f[i] = Join(f[i - 1], seqs[i])
    BY <1>1, <1>4, FlattenIs
  <2> DEFINE T == {m \in Nat : m + 1 \in 1 .. n => f[m + 1] = g[m + 1]}
  <2>2. 0 \in T
    BY <1>1, <1>2, <1>4, <2>1
  <2>3. ASSUME NEW m \in T PROVE m + 1 \in T
    <3> SUFFICES ASSUME m + 2 \in 1 .. n PROVE f[m + 2] = g[m + 2]
      OBVIOUS
    <3>1. m \in Nat /\ m + 1 \in 1 .. n /\ m + 2 # 1 /\ (m + 2) - 1 = m + 1 /\ m + 2 \in 1 .. Len(t)
      BY <1>1
    <3>2. f[m + 1] = g[m + 1]
      BY <3>1
    <3>3. f[m + 2] = Join(f[m + 1], seqs[m + 2])
      BY <2>1, <3>1
    <3>4. g[m + 2] = Join(g[m + 1], t[m + 2])
      BY <1>2, <3>1
    <3> QED
      BY <1>1, <3>2, <3>3, <3>4
  <2> HIDE DEF T
  <2>4. T \in SUBSET Nat
    BY DEF T
  <2>5. T = Nat
    BY <2>2, <2>3, <2>4, Induction
  <2>6. n - 1 \in T /\ (n - 1) + 1 = n /\ n \in 1 .. n
    BY <1>1, <1>4, <2>5
  <2>7. f[n] = g[n]
    BY <2>6 DEF T
  <2>8. n + 1 \in 1 .. Len(t) /\ n + 1 # 1 /\ (n + 1) - 1 = n
    BY <1>1, <1>4
  <2>9. g[n + 1] = Join(g[n], s)
    BY <1>1, <1>2, <2>8
  <2> QED
    BY <1>1, <1>2, <2>1, <2>7, <2>9 DEF Join, t
<1> QED
  BY <1>3, <1>4

-----------------------------------------------------------------------------
(* What one more byte adds to the meaning of a stream.                     *)

(* Where the unfinished frame begins, the frame, and the number of its     *)
(* bytes before its last line ending.                                      *)
Opening(w) == Start(w, Len(w) + 1)

Unfinished(w) == SubSeq(w, Opening(w), Len(w))

OpenLines(w) == {q \in LineEndings(w) : Opening(w) <= q}

Delimiter(w) == IF OpenLines(w) = {} THEN 0 ELSE Max(OpenLines(w)) - Opening(w)

EndsWith(w, b) == Len(w) > 0 /\ w[Len(w)] = b

(* The byte completes a CR LF, or it ends a line, or even the frame.       *)
Completes(w, b) == b = "LF" /\ EndsWith(w, "CR")
EndsLine(w, b) == b # "x" /\ ~Completes(w, b)
EndsFrame(w, b) == EndsLine(w, b) /\ ~EndsWith(w, "x")

(* A stream with one more byte.                                            *)
LEMMA AppendedIs ==
  ASSUME NEW w \in Seq(Byte), NEW b \in Byte
  PROVE  /\ Append(w, b) \in Seq(Byte) /\ Len(w) \in Nat /\ Len(Append(w, b)) = Len(w) + 1
         /\ DOMAIN w = 1 .. Len(w) /\ DOMAIN Append(w, b) = 1 .. Len(w) + 1
         /\ \A p \in 1 .. Len(w) : Append(w, b)[p] = w[p]
         /\ Append(w, b)[Len(w) + 1] = b
OBVIOUS

(* The line endings and frame endings of a stream stay what they are.      *)
LEMMA EndingsAre ==
  ASSUME NEW w \in Seq(Byte)
  PROVE  /\ FrameEndings(w) \subseteq LineEndings(w) /\ LineEndings(w) \subseteq 1 .. Len(w)
         /\ Len(w) \in Nat
BY DEF FrameEndings, LineEndings

(* The byte adds the line ending that begins with it, and the frame        *)
(* ending.                                                                 *)
LEMMA EndingsAppend ==
  ASSUME NEW w \in Seq(Byte), NEW b \in Byte
  PROVE  /\ LineEndings(Append(w, b))
              = LineEndings(w) \cup (IF EndsLine(w, b) THEN {Len(w) + 1} ELSE {})
         /\ FrameEndings(Append(w, b))
              = FrameEndings(w) \cup (IF EndsFrame(w, b) THEN {Len(w) + 1} ELSE {})
<1> DEFINE v == Append(w, b)
           n == Len(w)
<1>1. /\ n \in Nat /\ DOMAIN w = 1 .. n /\ DOMAIN v = 1 .. n + 1
      /\ \A p \in 1 .. n : v[p] = w[p]
      /\ v[n + 1] = b
  BY AppendedIs
<1> HIDE DEF v
<1>2. ASSUME NEW p \in 1 .. n
      PROVE  /\ p \in LineEndings(v) <=> p \in LineEndings(w)
             /\ p \in FrameEndings(v) <=> p \in FrameEndings(w)
  <2>1. p \in 1 .. n + 1 /\ v[p] = w[p] /\ (p > 1 => p - 1 \in 1 .. n)
    BY <1>1
  <2>2. p > 1 => v[p - 1] = w[p - 1]
    BY <1>1, <2>1
  <2>3. p \in LineEndings(v) <=> p \in LineEndings(w)
    BY <1>1, <2>1, <2>2 DEF LineEndings
  <2>4. p = 1 \/ p > 1
    OBVIOUS
  <2> QED
    BY <2>2, <2>3, <2>4 DEF FrameEndings
<1>3. (n + 1) - 1 = n /\ n + 1 \in 1 .. n + 1 /\ n + 1 \notin 1 .. n /\ (n + 1 > 1 <=> n > 0)
      /\ (n + 1 = 1 <=> ~(n > 0))
  BY <1>1
<1>4. n + 1 \in LineEndings(v) <=> EndsLine(w, b)
  <2>1. n > 0 => v[n] = w[n]
    BY <1>1
  <2> QED
    BY <1>1, <1>3, <2>1 DEF LineEndings, EndsLine, Completes, EndsWith
<1>5. n + 1 \in FrameEndings(v) <=> EndsFrame(w, b)
  <2>1. n > 0 => v[n] = w[n]
    BY <1>1
  <2> QED
    BY <1>1, <1>3, <1>4, <2>1 DEF FrameEndings, EndsFrame, EndsWith
<1>6. /\ LineEndings(w) \subseteq 1 .. n /\ FrameEndings(w) \subseteq 1 .. n
      /\ LineEndings(v) \subseteq 1 .. n + 1 /\ FrameEndings(v) \subseteq 1 .. n + 1
  BY <1>1 DEF LineEndings, FrameEndings
<1>7. \A p \in 1 .. n + 1 : p \in 1 .. n \/ p = n + 1
  BY <1>1
<1>8. \A p : p \in LineEndings(v) <=> p \in LineEndings(w) \/ (EndsLine(w, b) /\ p = n + 1)
  BY <1>2, <1>3, <1>4, <1>6, <1>7, Zenon
<1>9. \A p : p \in FrameEndings(v) <=> p \in FrameEndings(w) \/ (EndsFrame(w, b) /\ p = n + 1)
  BY <1>2, <1>3, <1>5, <1>6, <1>7, Zenon
<1> QED
  BY <1>8, <1>9 DEF v

(* Only the last ending may still grow, by the LF of a CR LF.              *)
LEMMA BehindAppend ==
  ASSUME NEW w \in Seq(Byte), NEW b \in Byte, NEW p \in 1 .. Len(w)
  PROVE  Behind(Append(w, b), p)
           = IF p = Len(w) /\ Completes(w, b) THEN p + 2 ELSE Behind(w, p)
<1> DEFINE v == Append(w, b)
           n == Len(w)
<1>1. /\ n \in Nat /\ Len(v) = n + 1
      /\ \A q \in 1 .. n : v[q] = w[q]
      /\ v[n + 1] = b
  BY AppendedIs
<1> HIDE DEF v
<1>2. CASE p = n
  <2>1. p < Len(v) /\ ~(p < n) /\ v[p + 1] = b /\ v[p] = w[p] /\ n > 0
    BY <1>1, <1>2
  <2> QED
    BY <1>1, <1>2, <2>1 DEF Behind, Completes, EndsWith, v
<1>3. CASE p # n
  <2>1. p < n /\ p < Len(v) /\ p + 1 \in 1 .. n
    BY <1>1, <1>3
  <2>2. v[p] = w[p] /\ v[p + 1] = w[p + 1]
    BY <1>1, <2>1
  <2> QED
    BY <1>1, <1>3, <2>1, <2>2 DEF Behind, v
<1> QED
  BY <1>2, <1>3

(* What is behind a line ending.                                           *)
LEMMA BehindIs ==
  ASSUME NEW w \in Seq(Byte), NEW p \in 1 .. Len(w)
  PROVE  /\ Behind(w, p) \in Nat /\ p + 1 <= Behind(w, p) /\ Behind(w, p) <= Len(w) + 1
         /\ p = Len(w) => Behind(w, p) = p + 1
BY DEF Behind

(* The frame endings before a position.                                    *)
Before(w, p) == {q \in FrameEndings(w) : q < p}

(* Start by the frame endings before a position.                           *)
LEMMA StartIs ==
  ASSUME NEW w \in Seq(Byte), NEW p
  PROVE  /\ Before(w, p) = {} => Start(w, p) = 1
         /\ Before(w, p) # {} => /\ Max(Before(w, p)) \in Before(w, p)
                                 /\ \A q \in Before(w, p) : q <= Max(Before(w, p))
                                 /\ Start(w, p) = Behind(w, Max(Before(w, p)))
<1>1. Len(w) \in Nat /\ Before(w, p) \in SUBSET (1 .. Len(w))
  BY EndingsAre DEF Before
<1>2. Start(w, p) = IF Before(w, p) = {} THEN 1 ELSE Behind(w, Max(Before(w, p)))
  BY DEF Start, Before
<1> QED
  BY <1>1, <1>2, MaxIs

(* The unfinished frame begins behind the last frame ending.               *)
LEMMA OpeningIs ==
  ASSUME NEW w \in Seq(Byte)
  PROVE  /\ Before(w, Len(w) + 1) = FrameEndings(w)
         /\ Opening(w) \in 1 .. Len(w) + 1
         /\ Len(w) \in FrameEndings(w) => Opening(w) = Len(w) + 1
         /\ FrameEndings(w) = {} => Opening(w) = 1
         /\ FrameEndings(w) # {} => Opening(w) = Behind(w, Max(FrameEndings(w)))
<1>1. FrameEndings(w) \subseteq 1 .. Len(w) /\ Len(w) \in Nat
  BY EndingsAre
<1>2. Before(w, Len(w) + 1) = FrameEndings(w)
  BY <1>1 DEF Before
<1>3. CASE FrameEndings(w) = {}
  BY <1>1, <1>2, <1>3, StartIs DEF Opening
<1>4. CASE FrameEndings(w) # {}
  <2> DEFINE q == Max(FrameEndings(w))
  <2>1. q \in FrameEndings(w) /\ Opening(w) = Behind(w, q) /\ \A p \in FrameEndings(w) : p <= q
    BY <1>2, <1>4, StartIs DEF Opening
  <2> HIDE DEF q
  <2>2. q \in 1 .. Len(w)
    BY <1>1, <2>1
  <2>3. Len(w) \in FrameEndings(w) => q = Len(w)
    BY <1>1, <2>1, <2>2
  <2> QED
    BY <1>1, <1>2, <1>4, <2>1, <2>2, <2>3, BehindIs DEF q
<1> QED
  BY <1>3, <1>4

(* Frames begin where they did; the one that the byte ends began where the *)
(* unfinished frame did.                                                   *)
LEMMA StartAppend ==
  ASSUME NEW w \in Seq(Byte), NEW b \in Byte
  PROVE  /\ \A p \in 1 .. Len(w) : Start(Append(w, b), p) = Start(w, p)
         /\ EndsFrame(w, b) => Start(Append(w, b), Len(w) + 1) = Opening(w)
<1> DEFINE v == Append(w, b)
           n == Len(w)
<1>1. v \in Seq(Byte) /\ n \in Nat
  BY AppendedIs
<1>2. FrameEndings(w) \subseteq 1 .. n /\ \A p \in FrameEndings(v) : p \in FrameEndings(w) \/ p = n + 1
  BY EndingsAre, EndingsAppend
<1>3. FrameEndings(w) \subseteq FrameEndings(v)
  BY EndingsAppend
<1>4. \A p \in 1 .. n : Behind(v, p) = IF p = n /\ Completes(w, b) THEN p + 2 ELSE Behind(w, p)
  BY BehindAppend
<1> HIDE DEF v
<1>5. \A p \in 1 .. n + 1 : Before(v, p) = Before(w, p)
  <2> SUFFICES ASSUME NEW p \in 1 .. n + 1 PROVE \A q : q \in Before(v, p) <=> q \in Before(w, p)
    OBVIOUS
  <2>1. ~(n + 1 < p)
    BY <1>1
  <2> QED
    BY <1>2, <1>3, <2>1 DEF Before
<1>6. ASSUME NEW p \in 1 .. n + 1, p = n + 1 => ~Completes(w, b)
      PROVE  Start(v, p) = Start(w, p)
  <2>1. CASE Before(w, p) = {}
    BY <1>1, <1>5, <2>1, StartIs
  <2>2. CASE Before(w, p) # {}
    <3> DEFINE q == Max(Before(w, p))
    <3>1. q \in Before(w, p) /\ Start(w, p) = Behind(w, q)
      BY <2>2, StartIs
    <3>2. Start(v, p) = Behind(v, q)
      BY <1>1, <1>5, <2>2, StartIs
    <3> HIDE DEF q
    <3>3. q \in 1 .. n /\ q < p
      BY <1>2, <3>1 DEF Before
    <3>4. ~(q = n /\ Completes(w, b))
      BY <1>1, <1>6, <3>3
    <3> QED
      BY <1>4, <3>1, <3>2, <3>3, <3>4
  <2> QED
    BY <2>1, <2>2
<1>7. ASSUME NEW p \in 1 .. n PROVE Start(v, p) = Start(w, p)
  <2>1. p \in 1 .. n + 1 /\ p # n + 1
    BY <1>1
  <2> QED
    BY <1>6, <2>1
<1>8. EndsFrame(w, b) => Start(v, n + 1) = Start(w, n + 1)
  <2>1. EndsFrame(w, b) => ~Completes(w, b)
    BY DEF EndsFrame, EndsLine
  <2>2. n + 1 \in 1 .. n + 1
    BY <1>1
  <2> QED
    BY <1>6, <2>1, <2>2
<1> QED
  BY <1>7, <1>8 DEF v, Opening

(* A frame begins when a frame ending is complete.                         *)
Opens(w, b) == EndsFrame(w, b) \/ (Completes(w, b) /\ Len(w) \in FrameEndings(w))

(* The unfinished frame begins behind the byte if that ends a frame, or    *)
(* completes the line ending of the last one.                              *)
LEMMA OpeningAppend ==
  ASSUME NEW w \in Seq(Byte), NEW b \in Byte
  PROVE  Opening(Append(w, b)) = IF Opens(w, b) THEN Len(w) + 2 ELSE Opening(w)
<1> DEFINE v == Append(w, b)
           n == Len(w)
<1>1. v \in Seq(Byte) /\ n \in Nat /\ Len(v) = n + 1
  BY AppendedIs
<1>2. FrameEndings(v) = FrameEndings(w) \cup (IF EndsFrame(w, b) THEN {n + 1} ELSE {})
  BY EndingsAppend
<1>3. \A p \in 1 .. n : Behind(v, p) = IF p = n /\ Completes(w, b) THEN p + 2 ELSE Behind(w, p)
  BY BehindAppend
<1>4. FrameEndings(w) \subseteq 1 .. n
  BY EndingsAre
<1> HIDE DEF v
<1>5. CASE EndsFrame(w, b)
  <2>1. n + 1 \in FrameEndings(v)
    BY <1>2, <1>5
  <2>2. Opening(v) = Len(v) + 1
    BY <1>1, <2>1, OpeningIs
  <2>3. (n + 1) + 1 = n + 2
    BY <1>1
  <2> QED
    BY <1>1, <1>5, <2>2, <2>3 DEF Opens, v
<1>6. CASE ~EndsFrame(w, b)
  <2>1. FrameEndings(v) = FrameEndings(w)
    BY <1>2, <1>6
  <2>2. CASE FrameEndings(w) = {}
    <3>1. Opening(v) = 1 /\ Opening(w) = 1
      BY <1>1, <2>1, <2>2, OpeningIs
    <3> QED
      BY <1>6, <2>2, <3>1 DEF Opens, v
  <2>3. CASE FrameEndings(w) # {}
    <3> DEFINE q == Max(FrameEndings(w))
    <3>1. Opening(v) = Behind(v, q) /\ Opening(w) = Behind(w, q)
      BY <1>1, <2>1, <2>3, OpeningIs
    <3>2. q \in FrameEndings(w) /\ \A p \in FrameEndings(w) : p <= q
      BY <1>1, <1>4, <2>3, MaxIs
    <3> HIDE DEF q
    <3>3. q \in 1 .. n /\ (n \in FrameEndings(w) <=> q = n)
      BY <1>1, <1>4, <3>2
    <3>4. Behind(v, q) = IF q = n /\ Completes(w, b) THEN q + 2 ELSE Behind(w, q)
      BY <1>3, <3>3
    <3> QED
      BY <1>6, <3>1, <3>3, <3>4 DEF Opens, v
  <2> QED
    BY <2>2, <2>3
<1> QED
  BY <1>5, <1>6

(* The bytes of the unfinished frame.                                      *)
LEMMA PartIs ==
  ASSUME NEW w \in Seq(Byte), NEW k \in 1 .. Len(w) + 1
  PROVE  /\ SubSeq(w, k, Len(w)) \in Seq(Byte) /\ Len(SubSeq(w, k, Len(w))) = Len(w) + 1 - k
         /\ \A p \in 1 .. Len(w) + 1 - k : SubSeq(w, k, Len(w))[p] = w[p + k - 1]
         /\ Len(w) \in Nat
BY SMTT(30)

(* The unfinished frame grows by the byte, or a new one begins.            *)
LEMMA UnfinishedAppend ==
  ASSUME NEW w \in Seq(Byte), NEW b \in Byte
  PROVE  /\ Unfinished(w) \in Seq(Byte) /\ Len(Unfinished(w)) = Len(w) + 1 - Opening(w)
         /\ Unfinished(Append(w, b)) = IF Opens(w, b) THEN <<>> ELSE Append(Unfinished(w), b)
<1> DEFINE v == Append(w, b)
           n == Len(w)
           k == Opening(w)
           u == Unfinished(w)
<1>1. /\ v \in Seq(Byte) /\ n \in Nat /\ Len(v) = n + 1 /\ v[n + 1] = b
      /\ \A p \in 1 .. n : v[p] = w[p]
  BY AppendedIs
<1>2. Opening(v) = IF Opens(w, b) THEN n + 2 ELSE k
  BY OpeningAppend
<1>3. k \in 1 .. n + 1
  BY OpeningIs
<1>4. u \in Seq(Byte) /\ Len(u) = n + 1 - k /\ \A p \in 1 .. n + 1 - k : u[p] = w[p + k - 1]
  BY <1>3, PartIs DEF Unfinished
<1>5. Unfinished(v) = SubSeq(v, Opening(v), n + 1)
  BY <1>1 DEF Unfinished
<1> HIDE DEF v, k, u
<1>6. CASE Opens(w, b)
  <2>1. n + 2 \in 1 .. Len(v) + 1
    BY <1>1
  <2>2. SubSeq(v, n + 2, Len(v)) \in Seq(Byte) /\ Len(SubSeq(v, n + 2, Len(v))) = Len(v) + 1 - (n + 2)
    BY <1>1, <2>1, PartIs
  <2> DEFINE e == SubSeq(v, n + 2, Len(v))
  <2>3. e \in Seq(Byte) /\ Len(e) = 0
    BY <1>1, <2>2
  <2> HIDE DEF e
  <2>4. e = <<>>
    BY <2>3
  <2>5. Unfinished(v) = e
    BY <1>1, <1>2, <1>5, <1>6 DEF e
  <2> QED
    BY <1>4, <1>6, <2>4, <2>5 DEF v, u, k
<1>7. CASE ~Opens(w, b)
  <2> DEFINE x == SubSeq(v, k, Len(v))
             y == Append(u, b)
  <2>1. k \in 1 .. Len(v) + 1
    BY <1>1, <1>3
  <2>2. x \in Seq(Byte) /\ Len(x) = Len(v) + 1 - k /\ \A p \in 1 .. Len(v) + 1 - k : x[p] = v[p + k - 1]
    BY <1>1, <2>1, PartIs
  <2>3. /\ y \in Seq(Byte) /\ Len(y) = Len(u) + 1 /\ y[Len(u) + 1] = b
        /\ \A p \in 1 .. Len(u) : y[p] = u[p]
    BY <1>4
  <2> HIDE DEF x, y
  <2>4. Len(x) = Len(y) /\ Len(y) \in Nat
    BY <1>1, <1>3, <1>4, <2>2, <2>3
  <2>5. ASSUME NEW p \in 1 .. Len(x) PROVE x[p] = y[p]
    <3>1. x[p] = v[p + k - 1]
      BY <1>1, <2>2
    <3>2. CASE p = Len(u) + 1
      <4>1. p + k - 1 = n + 1
        BY <1>1, <1>3, <1>4, <3>2
      <4> QED
        BY <1>1, <2>3, <3>1, <3>2, <4>1
    <3>3. CASE p # Len(u) + 1
      <4>0. n \in Nat /\ k \in Nat /\ k >= 1 /\ k <= n + 1 /\ Len(u) = n + 1 - k /\ Len(x) = Len(u) + 1
        BY <1>1, <1>3, <1>4, <2>3, <2>4
      <4>1. p \in 1 .. Len(u) /\ p + k - 1 \in 1 .. n
        BY <3>3, <4>0
      <4>2. v[p + k - 1] = w[p + k - 1] /\ p \in 1 .. n + 1 - k
        BY <1>1, <1>4, <4>1
      <4>3. u[p] = w[p + k - 1] /\ y[p] = u[p]
        BY <1>4, <2>3, <4>1, <4>2
      <4> QED
        BY <3>1, <4>2, <4>3
    <3> QED
      BY <3>2, <3>3
  <2>6. x = y
    BY <2>2, <2>3, <2>4, <2>5
  <2>7. Unfinished(v) = x
    BY <1>1, <1>2, <1>5, <1>7 DEF x
  <2> QED
    BY <1>4, <1>7, <2>6, <2>7 DEF v, u, k, y
<1> QED
  BY <1>6, <1>7

(* The line endings of the unfinished frame.                               *)
LEMMA DelimiterIs ==
  ASSUME NEW w \in Seq(Byte)
  PROVE  Delimiter(w) \in 0 .. Len(Unfinished(w))
<1>1. LineEndings(w) \subseteq 1 .. Len(w) /\ Len(w) \in Nat /\ Opening(w) \in 1 .. Len(w) + 1
  BY EndingsAre, OpeningIs
<1>2. Len(Unfinished(w)) = Len(w) + 1 - Opening(w)
  BY <1>1, PartIs DEF Unfinished
<1>3. CASE OpenLines(w) = {}
  BY <1>1, <1>2, <1>3 DEF Delimiter
<1>4. CASE OpenLines(w) # {}
  <2> DEFINE q == Max(OpenLines(w))
  <2>1. OpenLines(w) \in SUBSET (1 .. Len(w))
    BY <1>1 DEF OpenLines
  <2>2. q \in OpenLines(w)
    BY <1>1, <1>4, <2>1, MaxIs
  <2>3. Delimiter(w) = q - Opening(w)
    BY <1>4 DEF Delimiter
  <2> HIDE DEF q
  <2>4. q \in 1 .. Len(w) /\ Opening(w) <= q
    BY <1>1, <2>2 DEF OpenLines
  <2> QED
    BY <1>1, <1>2, <2>3, <2>4
<1> QED
  BY <1>3, <1>4

(* A line that ends moves the place where a delimiter would begin.         *)
LEMMA DelimiterAppend ==
  ASSUME NEW w \in Seq(Byte), NEW b \in Byte
  PROVE  Delimiter(Append(w, b)) = IF Opens(w, b) THEN 0
                                   ELSE IF EndsLine(w, b) THEN Len(Unfinished(w))
                                   ELSE Delimiter(w)
<1> DEFINE v == Append(w, b)
           n == Len(w)
<1>1. v \in Seq(Byte) /\ n \in Nat /\ Len(v) = n + 1
  BY AppendedIs
<1>2. Opening(v) = IF Opens(w, b) THEN n + 2 ELSE Opening(w)
  BY OpeningAppend
<1>3. LineEndings(v) = LineEndings(w) \cup (IF EndsLine(w, b) THEN {n + 1} ELSE {})
  BY EndingsAppend
<1>4. LineEndings(w) \subseteq 1 .. n /\ Opening(w) \in 1 .. n + 1
  BY EndingsAre, OpeningIs
<1>5. Len(Unfinished(w)) = n + 1 - Opening(w)
  BY UnfinishedAppend
<1>6. LineEndings(v) \subseteq 1 .. n + 1
  BY <1>1, EndingsAre
<1> HIDE DEF v
<1>7. CASE Opens(w, b)
  <2>1. OpenLines(v) = {}
    <3>1. \A q \in 1 .. n + 1 : ~(n + 2 <= q)
      BY <1>1
    <3> QED
      BY <1>2, <1>6, <1>7, <3>1 DEF OpenLines
  <2> QED
    BY <1>7, <2>1 DEF Delimiter, v
<1>8. CASE ~Opens(w, b) /\ EndsLine(w, b)
  <2>1. n + 1 \in OpenLines(v)
    BY <1>1, <1>2, <1>3, <1>4, <1>8 DEF OpenLines
  <2>2. OpenLines(v) \in SUBSET (1 .. n + 1)
    BY <1>6 DEF OpenLines
  <2>3. \A q \in OpenLines(v) : q <= n + 1
    BY <1>1, <2>2
  <2>4. Max(OpenLines(v)) = n + 1
    <3>1. n + 1 \in Nat
      BY <1>1
    <3> QED
      BY <2>1, <2>2, <2>3, <3>1, MaxIsOne, Zenon
  <2>5. Opening(v) = Opening(w) /\ OpenLines(v) # {}
    BY <1>2, <1>8, <2>1, Zenon
  <2>6. Delimiter(v) = (n + 1) - Opening(w)
    BY <2>4, <2>5 DEF Delimiter
  <2>7. Delimiter(v) = Len(Unfinished(w))
    BY <1>1, <1>4, <1>5, <2>6
  <2> QED
    BY <1>8, <2>7, Zenon DEF v
<1>9. CASE ~Opens(w, b) /\ ~EndsLine(w, b)
  <2>1. OpenLines(v) = OpenLines(w)
    BY <1>2, <1>3, <1>9 DEF OpenLines
  <2>2. Opening(v) = Opening(w)
    BY <1>2, <1>9, Zenon
  <2>3. Delimiter(v) = Delimiter(w)
    BY <2>1, <2>2, Zenon DEF Delimiter
  <2> QED
    BY <1>9, <2>3, Zenon DEF v
<1> QED
  BY <1>7, <1>8, <1>9

(* A prefix of a sequence and of the same with more behind.                *)
LEMMA SamePart ==
  ASSUME NEW w \in Seq(Byte), NEW b \in Byte, NEW i \in Nat, NEW j \in Int, 1 <= i, j <= Len(w)
  PROVE  SubSeq(Append(w, b), i, j) = SubSeq(w, i, j)
<1> DEFINE v == Append(w, b)
<1>1. /\ Len(w) \in Nat /\ Len(v) = Len(w) + 1 /\ \A p \in 1 .. Len(w) : v[p] = w[p]
  BY AppendedIs
<1> HIDE DEF v
<1>2. \A p \in 1 .. (1 + j) - i : v[i + p - 1] = w[i + p - 1]
  BY <1>1
<1>3. /\ SubSeq(v, i, j) = [p \in 1 .. (1 + j) - i |-> v[i + p - 1]]
      /\ SubSeq(w, i, j) = [p \in 1 .. (1 + j) - i |-> w[i + p - 1]]
  OBVIOUS
<1> QED
  BY <1>2, <1>3 DEF v

(* The first bytes of a part of a sequence.                                *)
LEMMA PartOfPart ==
  ASSUME NEW w \in Seq(Byte), NEW k \in 1 .. Len(w) + 1, NEW d \in Nat, d <= Len(w) + 1 - k
  PROVE  SubSeq(SubSeq(w, k, Len(w)), 1, d) = SubSeq(w, k, (k + d) - 1)
<1> DEFINE u == SubSeq(w, k, Len(w))
<1>1. /\ u \in Seq(Byte) /\ Len(u) = Len(w) + 1 - k
      /\ \A p \in 1 .. Len(w) + 1 - k : u[p] = w[p + k - 1]
      /\ Len(w) \in Nat
  BY PartIs
<1> HIDE DEF u
<1>2. /\ SubSeq(u, 1, d) = [p \in 1 .. (1 + d) - 1 |-> u[1 + p - 1]]
      /\ SubSeq(w, k, (k + d) - 1) = [p \in 1 .. (1 + ((k + d) - 1)) - k |-> w[k + p - 1]]
  OBVIOUS
<1>3. (1 + d) - 1 = d /\ (1 + ((k + d) - 1)) - k = d
  OBVIOUS
<1>4. \A p \in 1 .. d : u[1 + p - 1] = w[k + p - 1]
  <2> SUFFICES ASSUME NEW p \in 1 .. d PROVE u[1 + p - 1] = w[k + p - 1]
    OBVIOUS
  <2>1. p \in 1 .. Len(w) + 1 - k /\ 1 + p - 1 = p /\ k + p - 1 = p + k - 1
    BY <1>1
  <2> QED
    BY <1>1, <2>1
<1> QED
  BY <1>2, <1>3, <1>4 DEF u

(* The line endings in the frame that a position ends.                     *)
Lines(w, p) == {q \in LineEndings(w) : Start(w, p) <= q /\ q < p}

(* Content by the lines of the frame.                                      *)
LEMMA ContentIs ==
  ASSUME NEW w \in Seq(Byte), NEW p
  PROVE  /\ Content(w, p) = IF Lines(w, p) = {} THEN <<>>
                            ELSE SubSeq(w, Start(w, p), Max(Lines(w, p)) - 1)
         /\ Lines(w, p) # {} => Max(Lines(w, p)) \in 1 .. Len(w)
         /\ Start(w, p) \in Nat /\ 1 <= Start(w, p)
<1>1. Len(w) \in Nat /\ Lines(w, p) \in SUBSET (1 .. Len(w))
  BY EndingsAre DEF Lines
<1>2. Start(w, p) \in Nat /\ 1 <= Start(w, p)
  <2>1. CASE Before(w, p) = {}
    BY <2>1, StartIs
  <2>2. CASE Before(w, p) # {}
    <3>1. Max(Before(w, p)) \in Before(w, p) /\ Start(w, p) = Behind(w, Max(Before(w, p)))
      BY <2>2, StartIs
    <3> DEFINE q == Max(Before(w, p))
    <3>2. q \in 1 .. Len(w)
      BY <3>1, EndingsAre DEF Before
    <3>3. Start(w, p) = Behind(w, q)
      BY <3>1
    <3> HIDE DEF q
    <3>4. Behind(w, q) \in Nat /\ q + 1 <= Behind(w, q)
      BY <3>2, BehindIs
    <3> QED
      BY <3>2, <3>3, <3>4
  <2> QED
    BY <2>1, <2>2
<1>3. Content(w, p) = IF Lines(w, p) = {} THEN <<>>
                      ELSE SubSeq(w, Start(w, p), Max(Lines(w, p)) - 1)
  BY DEF Content, Lines
<1>4. Lines(w, p) # {} => Max(Lines(w, p)) \in Lines(w, p)
  BY <1>1, MaxIs
<1> QED
  BY <1>1, <1>2, <1>3, <1>4

(* What a frame holds stays the same.                                      *)
LEMMA ContentSame ==
  ASSUME NEW w \in Seq(Byte), NEW b \in Byte, NEW p \in 1 .. Len(w)
  PROVE  Content(Append(w, b), p) = Content(w, p)
<1> DEFINE v == Append(w, b)
           n == Len(w)
<1>1. v \in Seq(Byte) /\ n \in Nat
  BY AppendedIs
<1>2. Start(v, p) = Start(w, p)
  BY StartAppend
<1>3. LineEndings(v) = LineEndings(w) \cup (IF EndsLine(w, b) THEN {n + 1} ELSE {})
  BY EndingsAppend
<1>4. Lines(v, p) = Lines(w, p)
  <2>1. ~(n + 1 < p)
    BY <1>1
  <2> QED
    BY <1>2, <1>3, <2>1 DEF Lines
<1> DEFINE i == Start(w, p)
           m == Max(Lines(w, p))
<1>5. /\ Content(w, p) = IF Lines(w, p) = {} THEN <<>> ELSE SubSeq(w, i, m - 1)
      /\ Lines(w, p) # {} => m \in 1 .. n
      /\ i \in Nat /\ 1 <= i
  BY ContentIs
<1>6. Content(v, p) = IF Lines(w, p) = {} THEN <<>> ELSE SubSeq(v, i, m - 1)
  BY <1>1, <1>2, <1>4, ContentIs
<1> HIDE DEF i, m
<1>7. CASE Lines(w, p) = {}
  BY <1>5, <1>6, <1>7 DEF v
<1>8. CASE Lines(w, p) # {}
  <2>1. m - 1 \in Int /\ m - 1 <= n
    BY <1>1, <1>5, <1>8
  <2>2. SubSeq(v, i, m - 1) = SubSeq(w, i, m - 1)
    BY <1>5, <2>1, SamePart DEF v
  <2> QED
    BY <1>5, <1>6, <1>8, <2>2 DEF v
<1> QED
  BY <1>7, <1>8

(* What the frame holds that is ended now.                                 *)
LEMMA ContentNew ==
  ASSUME NEW w \in Seq(Byte), NEW b \in Byte, EndsFrame(w, b)
  PROVE  Content(Append(w, b), Len(w) + 1) = SubSeq(Unfinished(w), 1, Delimiter(w))
<1> DEFINE v == Append(w, b)
           n == Len(w)
           k == Opening(w)
           m == Max(OpenLines(w))
<1>1. v \in Seq(Byte) /\ n \in Nat
  BY AppendedIs
<1>2. Start(v, n + 1) = k
  BY StartAppend
<1>3. LineEndings(v) = LineEndings(w) \cup (IF EndsLine(w, b) THEN {n + 1} ELSE {})
  BY EndingsAppend
<1>4. LineEndings(w) \subseteq 1 .. n /\ k \in 1 .. n + 1
  BY EndingsAre, OpeningIs
<1>5. Lines(v, n + 1) = OpenLines(w)
  <2>1. ~(n + 1 < n + 1) /\ \A q \in 1 .. n : q < n + 1
    BY <1>1
  <2>2. \A q : q \in Lines(v, n + 1) <=> q \in OpenLines(w)
    BY <1>2, <1>3, <1>4, <2>1 DEF Lines, OpenLines
  <2> QED
    BY <2>2
<1>6. Content(v, n + 1) = IF OpenLines(w) = {} THEN <<>> ELSE SubSeq(v, k, m - 1)
  BY <1>1, <1>2, <1>5, ContentIs
<1>7. CASE OpenLines(w) = {}
  <2>1. Delimiter(w) = 0
    BY <1>7 DEF Delimiter
  <2>2. SubSeq(Unfinished(w), 1, 0) = <<>>
    OBVIOUS
  <2> QED
    BY <1>6, <1>7, <2>1, <2>2 DEF v
<1>8. CASE OpenLines(w) # {}
  <2>1. OpenLines(w) \in SUBSET (1 .. n)
    BY <1>4 DEF OpenLines
  <2>2. m \in OpenLines(w)
    BY <1>1, <1>8, <2>1, MaxIs
  <2>3. Delimiter(w) = m - k
    BY <1>8 DEF Delimiter
  <2> HIDE DEF m, k
  <2>4. m \in 1 .. n /\ k <= m
    BY <2>1, <2>2 DEF OpenLines, k
  <2>5. m - k \in Nat /\ m - k <= n + 1 - k /\ (k + (m - k)) - 1 = m - 1 /\ m - 1 \in Int /\ m - 1 <= n
        /\ k \in Nat /\ 1 <= k
    BY <1>1, <1>4, <2>4 DEF k
  <2>6. SubSeq(v, k, m - 1) = SubSeq(w, k, m - 1)
    BY <2>5, SamePart DEF v
  <2>7. SubSeq(SubSeq(w, k, n), 1, m - k) = SubSeq(w, k, m - 1)
    <3> DEFINE d == m - k
    <3>1. k \in 1 .. n + 1 /\ d \in Nat /\ d <= n + 1 - k /\ (k + d) - 1 = m - 1
      BY <1>4, <2>5 DEF k
    <3> HIDE DEF d
    <3>2. SubSeq(SubSeq(w, k, n), 1, d) = SubSeq(w, k, (k + d) - 1)
      BY <3>1, PartOfPart
    <3> QED
      BY <3>1, <3>2 DEF d
  <2> QED
    BY <1>6, <1>8, <2>3, <2>6, <2>7 DEF v, k, Unfinished
<1> QED
  BY <1>7, <1>8

(* The frames of a stream with one more byte.                              *)
LEMMA ContentsAppend ==
  ASSUME NEW w \in Seq(Byte), NEW b \in Byte
  PROVE  Contents(Append(w, b))
           = IF EndsFrame(w, b) THEN Append(Contents(w), SubSeq(Unfinished(w), 1, Delimiter(w)))
             ELSE Contents(w)
<1> DEFINE v == Append(w, b)
           n == Len(w)
           part(s) == [p \in DOMAIN s |-> IF p \in FrameEndings(s) THEN <<Content(s, p)>> ELSE <<>>]
           X == {Content(v, p) : p \in 1 .. n + 1}
           c == Content(v, n + 1)
           e == IF EndsFrame(w, b) THEN <<c>> ELSE <<>>
<1>1. v \in Seq(Byte) /\ n \in Nat /\ DOMAIN w = 1 .. n /\ DOMAIN v = 1 .. n + 1
  BY AppendedIs
<1>2. \A p \in 1 .. n : p # n + 1 /\ p \in 1 .. n + 1
  BY <1>1
<1>3. \A p \in 1 .. n : Content(v, p) = Content(w, p)
  BY ContentSame
<1>4. FrameEndings(v) = FrameEndings(w) \cup (IF EndsFrame(w, b) THEN {n + 1} ELSE {})
      /\ FrameEndings(w) \subseteq 1 .. n
  BY EndingsAppend, EndingsAre
<1>5. n + 1 \in 1 .. n + 1 /\ n + 1 \notin 1 .. n /\ \A p \in 1 .. n + 1 : p \in 1 .. n \/ p = n + 1
  BY <1>1
<1>6. c \in X /\ \A p \in 1 .. n : Content(w, p) \in X
  BY <1>2, <1>3, <1>5, Zenon
<1>7. Contents(w) = FlattenSeq(part(w)) /\ Contents(v) = FlattenSeq(part(v))
  BY DEF Contents
<1>8. part(w) = [p \in 1 .. n |-> IF p \in FrameEndings(w) THEN <<Content(w, p)>> ELSE <<>>]
  BY <1>1
<1>9. part(v) = [p \in 1 .. n + 1 |-> IF p \in FrameEndings(v) THEN <<Content(v, p)>> ELSE <<>>]
  BY <1>1
<1> DEFINE a == part(w)
           z == part(v)
<1> HIDE DEF v, X, c, part
<1>10. \A x \in X : <<x>> \in Seq(X)
  OBVIOUS
<1>11. <<>> \in Seq(X)
  OBVIOUS
<1>12. a \in Seq(Seq(X)) /\ Len(a) = n
  <2>1. a = [p \in 1 .. n |-> IF p \in FrameEndings(w) THEN <<Content(w, p)>> ELSE <<>>]
    BY <1>8
  <2> HIDE DEF a
  <2> DEFINE Y == Seq(X)
  <2>2. \A p \in 1 .. n : (IF p \in FrameEndings(w) THEN <<Content(w, p)>> ELSE <<>>) \in Y
    BY <1>6, <1>10, <1>11, Zenon
  <2> HIDE DEF Y
  <2>3. a \in [1 .. n -> Y]
    BY <2>1, <2>2
  <2>4. a \in Seq(Y) /\ Len(a) = n
    BY <1>1, <2>3
  <2> QED
    BY <2>4 DEF Y
<1>13. e \in Seq(X)
  BY <1>6, <1>10, <1>11
<1>14. z = Append(a, e)
  <2> DEFINE Y == Seq(X)
  <2>1. e \in Y /\ a \in Seq(Y) /\ Len(a) = n
    BY <1>12, <1>13
  <2>2. z = [p \in 1 .. n + 1 |-> IF p \in FrameEndings(v) THEN <<Content(v, p)>> ELSE <<>>]
    BY <1>9
  <2>3. a = [p \in 1 .. n |-> IF p \in FrameEndings(w) THEN <<Content(w, p)>> ELSE <<>>]
    BY <1>8
  <2>4. ASSUME NEW p \in 1 .. n PROVE z[p] = a[p]
    <3>1. z[p] = IF p \in FrameEndings(v) THEN <<Content(v, p)>> ELSE <<>>
      BY <1>2, <2>2
    <3>2. a[p] = IF p \in FrameEndings(w) THEN <<Content(w, p)>> ELSE <<>>
      BY <2>3
    <3>3. p \in FrameEndings(v) <=> p \in FrameEndings(w)
      BY <1>2, <1>4
    <3> QED
      BY <1>3, <3>1, <3>2, <3>3
  <2>5. z[n + 1] = e
    <3>1. z[n + 1] = IF n + 1 \in FrameEndings(v) THEN <<Content(v, n + 1)>> ELSE <<>>
      BY <1>5, <2>2
    <3>2. n + 1 \in FrameEndings(v) <=> EndsFrame(w, b)
      BY <1>4, <1>5
    <3> QED
      BY <3>1, <3>2 DEF c
  <2>6. DOMAIN z = 1 .. n + 1
    BY <2>2
  <2> DEFINE y == Append(a, e)
  <2> HIDE DEF a, e, Y
  <2>7. y = [p \in 1 .. n + 1 |-> IF p = n + 1 THEN e ELSE a[p]]
    <3>1. DOMAIN y = 1 .. n + 1 /\ y[n + 1] = e /\ \A p \in 1 .. n : y[p] = a[p]
      BY <1>1, <2>1
    <3>2. y = [p \in 1 .. n + 1 |-> y[p]]
      <4>1. y \in Seq(Y)
        BY <2>1
      <4> HIDE DEF y
      <4>2. y = [p \in DOMAIN y |-> y[p]]
        BY <4>1
      <4> QED
        BY <3>1, <4>2
    <3>3. \A p \in 1 .. n + 1 : y[p] = IF p = n + 1 THEN e ELSE a[p]
      BY <1>5, <3>1
    <3> HIDE DEF y
    <3> QED
      BY <3>2, <3>3
  <2>8. z = [p \in 1 .. n + 1 |-> z[p]]
    BY <2>2
  <2>9. \A p \in 1 .. n + 1 : z[p] = IF p = n + 1 THEN e ELSE a[p]
    BY <1>5, <2>4, <2>5
  <2> HIDE DEF y, z
  <2>10. z = y
    BY <2>7, <2>8, <2>9
  <2> QED
    BY <2>10 DEF y
<1> HIDE DEF a, e, z
<1>15. FlattenSeq(Append(a, e)) = FlattenSeq(a) \o e /\ FlattenSeq(a) \in Seq(X)
  BY <1>12, <1>13, FlattenAppend, FlattenType
<1>16. Contents(v) = Contents(w) \o e /\ Contents(w) \in Seq(X)
  BY <1>7, <1>14, <1>15 DEF a, z
<1>17. CASE EndsFrame(w, b)
  <2>1. c = SubSeq(Unfinished(w), 1, Delimiter(w))
    BY <1>17, ContentNew DEF c, v
  <2>2. Contents(w) \o <<c>> = Append(Contents(w), c)
    BY <1>6, <1>16
  <2> QED
    BY <1>16, <1>17, <2>1, <2>2 DEF e, v
<1>18. CASE ~EndsFrame(w, b)
  <2>1. Contents(w) \o <<>> = Contents(w)
    BY <1>16
  <2> QED
    BY <1>16, <1>18, <2>1 DEF e, v
<1> QED
  BY <1>17, <1>18

-----------------------------------------------------------------------------
(* The sizes of frames.                                                    *)

(* A frame that has ended, or any frame, is longer than the limit.         *)
LongFrame(w) == \E p \in FrameEndings(w) : Behind(w, p) - Start(w, p) > limit

TooLong(w) == \E n \in WireSizes(w) : n > limit

(* A frame that is too long has ended, or is the unfinished one.           *)
LEMMA TooLongIs ==
  ASSUME NEW w
  PROVE  TooLong(w) <=> LongFrame(w) \/ Len(w) + 1 - Opening(w) > limit
BY DEF TooLong, WireSizes, LongFrame, Opening

(* A frame begins before the line ending that ends it.                     *)
LEMMA StartType ==
  ASSUME NEW w \in Seq(Byte), NEW p \in 1 .. Len(w)
  PROVE  Start(w, p) \in 1 .. Len(w) + 1
<1>1. Before(w, p) \subseteq 1 .. Len(w) /\ Len(w) \in Nat
  BY EndingsAre DEF Before
<1>2. CASE Before(w, p) = {}
  <2>1. Start(w, p) = 1
    BY <1>2, StartIs
  <2> QED
    BY <1>1, <2>1
<1>3. CASE Before(w, p) # {}
  <2>1. Max(Before(w, p)) \in Before(w, p) /\ Start(w, p) = Behind(w, Max(Before(w, p)))
    BY <1>3, StartIs
  <2> DEFINE q == Max(Before(w, p))
  <2>2. q \in 1 .. Len(w)
    BY <1>1, <2>1
  <2> HIDE DEF q
  <2>3. Behind(w, q) \in Nat /\ q + 1 <= Behind(w, q) /\ Behind(w, q) <= Len(w) + 1
    BY <2>2, BehindIs
  <2> QED
    BY <1>1, <2>1, <2>2, <2>3 DEF q
<1> QED
  BY <1>2, <1>3

(* The size that the last frame has with one more byte.                    *)
Grown(w, b) ==
  IF Completes(w, b) /\ Len(w) \in FrameEndings(w) THEN (Len(w) + 2) - Start(w, Len(w))
  ELSE (Len(w) + 2) - Opening(w)

(* A frame is too long if it was, or if the byte makes it so.              *)
LEMMA TooLongAppend ==
  ASSUME NEW w \in Seq(Byte), NEW b \in Byte, limit \in Nat
  PROVE  TooLong(Append(w, b)) <=> TooLong(w) \/ Grown(w, b) > limit
<1> DEFINE v == Append(w, b)
           n == Len(w)
           k == Opening(w)
<1>1. v \in Seq(Byte) /\ n \in Nat /\ Len(v) = n + 1
  BY AppendedIs
<1>2. FrameEndings(v) = FrameEndings(w) \cup (IF EndsFrame(w, b) THEN {n + 1} ELSE {})
      /\ FrameEndings(w) \subseteq 1 .. n
  BY EndingsAppend, EndingsAre
<1>3. \A p \in 1 .. n : /\ Start(v, p) = Start(w, p)
                        /\ Behind(v, p) = IF p = n /\ Completes(w, b) THEN p + 2 ELSE Behind(w, p)
  BY StartAppend, BehindAppend
<1>4. Opening(v) = IF Opens(w, b) THEN n + 2 ELSE k
  BY OpeningAppend
<1>5. k \in 1 .. n + 1 /\ (n \in FrameEndings(w) => k = n + 1)
  BY OpeningIs
<1>6. TooLong(w) <=> LongFrame(w) \/ n + 1 - k > limit
  BY TooLongIs
<1>7. TooLong(v) <=> LongFrame(v) \/ (n + 2) - Opening(v) > limit
  <2>1. TooLong(v) <=> LongFrame(v) \/ Len(v) + 1 - Opening(v) > limit
    BY TooLongIs
  <2>2. Len(v) + 1 - Opening(v) = (n + 2) - Opening(v)
    <3>1. Opening(v) \in Int
      BY <1>1, <1>4, <1>5
    <3> HIDE DEF v, k
    <3> QED
      BY <1>1, <3>1
  <2> QED
    BY <2>1, <2>2
<1>8. \A p \in FrameEndings(w) : Start(w, p) \in Int /\ Behind(w, p) \in Int /\ p \in 1 .. n
  <2> SUFFICES ASSUME NEW p \in FrameEndings(w)
               PROVE  Start(w, p) \in Int /\ Behind(w, p) \in Int /\ p \in 1 .. n
    OBVIOUS
  <2>1. p \in 1 .. n
    BY <1>2
  <2> QED
    BY <1>1, <2>1, StartType, BehindIs
<1> HIDE DEF v, k
<1>9. CASE EndsFrame(w, b)
  <2>1. ~Completes(w, b) /\ Opens(w, b)
    BY <1>9 DEF EndsFrame, EndsLine, Opens
  <2>2. FrameEndings(v) = FrameEndings(w) \cup {n + 1}
    BY <1>2, <1>9
  <2>3. Behind(v, n + 1) = n + 2 /\ Start(v, n + 1) = k
    <3>1. n + 1 \in 1 .. Len(v)
      BY <1>1
    <3>2. Behind(v, n + 1) = (n + 1) + 1
      BY <1>1, <3>1, BehindIs
    <3> QED
      BY <1>1, <1>9, <3>2, StartAppend DEF v, k
  <2>4. \A p \in FrameEndings(w) : Behind(v, p) = Behind(w, p) /\ Start(v, p) = Start(w, p)
    BY <1>3, <1>8, <2>1
  <2>5. LongFrame(v) <=> LongFrame(w) \/ (n + 2) - k > limit
    BY <2>2, <2>3, <2>4, Zenon DEF LongFrame
  <2>6. Opening(v) = n + 2
    BY <1>4, <2>1
  <2>7. Grown(w, b) = (n + 2) - k
    BY <2>1 DEF Grown, k
  <2> QED
    BY <1>1, <1>5, <1>6, <1>7, <2>5, <2>6, <2>7 DEF v
<1>10. CASE Completes(w, b) /\ n \in FrameEndings(w)
  <2>1. ~EndsFrame(w, b) /\ Opens(w, b)
    BY <1>10 DEF EndsFrame, EndsLine, Opens
  <2>2. FrameEndings(v) = FrameEndings(w)
    BY <1>2, <2>1
  <2>3. Behind(v, n) = n + 2 /\ Start(v, n) = Start(w, n) /\ Behind(w, n) = n + 1
    <3>1. n \in 1 .. n
      BY <1>8, <1>10
    <3>2. Behind(w, n) = n + 1
      BY <3>1, BehindIs
    <3> QED
      BY <1>3, <1>10, <3>1, <3>2
  <2>4. \A p \in FrameEndings(w) : p # n => Behind(v, p) = Behind(w, p)
    BY <1>3, <1>8
  <2>5. \A p \in FrameEndings(w) : Start(v, p) = Start(w, p)
    BY <1>3, <1>8
  <2>6. LongFrame(v) <=> LongFrame(w) \/ (n + 2) - Start(w, n) > limit
    <3>1. ASSUME LongFrame(v) PROVE LongFrame(w) \/ (n + 2) - Start(w, n) > limit
      <4>1. PICK p \in FrameEndings(v) : Behind(v, p) - Start(v, p) > limit
        BY <3>1 DEF LongFrame
      <4>2. CASE p = n
        BY <2>3, <4>1, <4>2
      <4>3. CASE p # n
        BY <2>2, <2>4, <2>5, <4>1, <4>3, Zenon DEF LongFrame
      <4> QED
        BY <4>2, <4>3
    <3>2. ASSUME LongFrame(w) PROVE LongFrame(v)
      <4>1. PICK p \in FrameEndings(w) : Behind(w, p) - Start(w, p) > limit
        BY <3>2 DEF LongFrame
      <4>2. CASE p = n
        <5>1. Behind(v, n) - Start(v, n) > limit
          BY <1>1, <1>8, <2>3, <4>1, <4>2
        <5> QED
          BY <1>10, <2>2, <5>1 DEF LongFrame
      <4>3. CASE p # n
        BY <2>2, <2>4, <2>5, <4>1, <4>3, Zenon DEF LongFrame
      <4> QED
        BY <4>2, <4>3
    <3>3. ASSUME (n + 2) - Start(w, n) > limit PROVE LongFrame(v)
      BY <1>10, <2>2, <2>3, <3>3 DEF LongFrame
    <3> QED
      BY <3>1, <3>2, <3>3
  <2>7. Opening(v) = n + 2
    BY <1>4, <2>1
  <2>8. Grown(w, b) = (n + 2) - Start(w, n)
    BY <1>10 DEF Grown
  <2>9. k = n + 1
    BY <1>5, <1>10
  <2> QED
    BY <1>1, <1>6, <1>7, <2>6, <2>7, <2>8, <2>9 DEF v
<1>11. CASE ~EndsFrame(w, b) /\ ~(Completes(w, b) /\ n \in FrameEndings(w))
  <2>1. ~Opens(w, b)
    BY <1>11 DEF Opens
  <2>2. FrameEndings(v) = FrameEndings(w)
    BY <1>2, <1>11
  <2>3. \A p \in FrameEndings(w) : Behind(v, p) = Behind(w, p) /\ Start(v, p) = Start(w, p)
    BY <1>3, <1>8, <1>11
  <2>4. LongFrame(v) <=> LongFrame(w)
    BY <2>2, <2>3, Zenon DEF LongFrame
  <2>5. Opening(v) = k
    BY <1>4, <2>1
  <2>6. Grown(w, b) = (n + 2) - k
    BY <1>11 DEF Grown, k
  <2> QED
    BY <1>1, <1>5, <1>6, <1>7, <2>4, <2>5, <2>6 DEF v
<1> QED
  BY <1>9, <1>10, <1>11

-----------------------------------------------------------------------------
(* The frames that were sent.                                              *)

Frame == [offset : Nat, data : Seq(Byte)]

DataOf(fs) == [k \in DOMAIN fs |-> fs[k].data]

Sent(fs) == FlattenSeq(DataOf(fs))

OffsetsOf(fs) == \A k \in DOMAIN fs : fs[k].offset = Len(FlattenSeq(SubSeq(DataOf(fs), 1, k - 1)))

(* The beginning of a sequence, and a sequence that is one element longer. *)
LEMMA FirstPart ==
  ASSUME NEW X, NEW s \in Seq(X), NEW x \in X, NEW j \in Int, j <= Len(s)
  PROVE  /\ SubSeq(Append(s, x), 1, j) = SubSeq(s, 1, j)
         /\ SubSeq(s, 1, Len(s)) = s
<1> DEFINE v == Append(s, x)
<1>1. v \in Seq(X) /\ Len(s) \in Nat /\ \A p \in 1 .. Len(s) : v[p] = s[p]
  OBVIOUS
<1> HIDE DEF v
<1>2. /\ SubSeq(v, 1, j) = [p \in 1 .. (1 + j) - 1 |-> v[1 + p - 1]]
      /\ SubSeq(s, 1, j) = [p \in 1 .. (1 + j) - 1 |-> s[1 + p - 1]]
  BY <1>1
<1>3. \A p \in 1 .. (1 + j) - 1 : 1 + p - 1 \in 1 .. Len(s)
  BY <1>1
<1>4. SubSeq(v, 1, j) = SubSeq(s, 1, j)
  BY <1>1, <1>2, <1>3
<1>5. SubSeq(s, 1, Len(s)) = s
  OBVIOUS
<1> QED
  BY <1>4, <1>5 DEF v

(* One more frame.                                                         *)
LEMMA DataAppend ==
  ASSUME NEW fs \in Seq(Frame), NEW x \in Frame
  PROVE  /\ Append(fs, x) \in Seq(Frame)
         /\ DataOf(fs) \in Seq(Seq(Byte)) /\ Len(DataOf(fs)) = Len(fs)
         /\ DataOf(Append(fs, x)) = Append(DataOf(fs), x.data)
<1> DEFINE v == Append(fs, x)
           n == Len(fs)
           D == Seq(Byte)
           a == DataOf(fs)
           y == Append(a, x.data)
<1>1. v \in Seq(Frame) /\ n \in Nat /\ DOMAIN fs = 1 .. n /\ DOMAIN v = 1 .. n + 1
      /\ v[n + 1] = x /\ \A p \in 1 .. n : v[p] = fs[p] /\ fs[p] \in Frame
  OBVIOUS
<1>2. x.data \in D /\ \A p \in 1 .. n : fs[p].data \in D
  BY <1>1 DEF Frame
<1> HIDE DEF D
<1>3. a = [p \in 1 .. n |-> fs[p].data]
  BY <1>1 DEF DataOf
<1> HIDE DEF a
<1>4. a \in Seq(D) /\ Len(a) = n /\ \A p \in 1 .. n : a[p] = fs[p].data
  BY <1>1, <1>2, <1>3
<1>5. /\ DOMAIN y = 1 .. n + 1 /\ y[n + 1] = x.data /\ \A p \in 1 .. n : y[p] = a[p]
      /\ y \in Seq(D)
  BY <1>1, <1>2, <1>4
<1> HIDE DEF y, v
<1>6. y = [p \in DOMAIN y |-> y[p]]
  BY <1>5
<1>7. \A p \in 1 .. n + 1 : p \in 1 .. n \/ p = n + 1
  BY <1>1
<1>8. \A p \in 1 .. n + 1 : v[p].data = y[p]
  BY <1>1, <1>4, <1>5, <1>7
<1>9. DataOf(v) = [p \in 1 .. n + 1 |-> v[p].data]
  BY <1>1 DEF DataOf
<1>10. DataOf(v) = y
  BY <1>5, <1>6, <1>8, <1>9
<1> QED
  BY <1>1, <1>4, <1>10 DEF a, y, v, D

(* What was sent is a sequence of bytes; nothing is sent with no frames.   *)
LEMMA SentType ==
  ASSUME NEW fs \in Seq(Frame)
  PROVE  /\ Sent(fs) \in Seq(Byte) /\ Len(Sent(fs)) \in Nat
         /\ DataOf(fs) \in Seq(Seq(Byte)) /\ Len(DataOf(fs)) = Len(fs) /\ DOMAIN fs = 1 .. Len(fs)
<1> DEFINE D == Seq(Byte)
           n == Len(fs)
           a == DataOf(fs)
<1>1. n \in Nat /\ DOMAIN fs = 1 .. n /\ \A p \in 1 .. n : fs[p].data \in D
  <2>1. n \in Nat /\ DOMAIN fs = 1 .. n /\ \A p \in 1 .. n : fs[p] \in Frame
    OBVIOUS
  <2>2. \A x \in Frame : x.data \in D
    BY DEF Frame
  <2> QED
    BY <2>1, <2>2
<1> HIDE DEF D
<1>2. a = [p \in 1 .. n |-> fs[p].data]
  BY <1>1 DEF DataOf
<1> HIDE DEF a
<1>3. a \in Seq(D) /\ Len(a) = n
  BY <1>1, <1>2
<1>4. FlattenSeq(a) \in Seq(Byte)
  <2>1. a \in Seq(Seq(Byte))
    BY <1>3 DEF D
  <2> QED
    BY <2>1, FlattenType
<1>5. Len(FlattenSeq(a)) \in Nat
  BY <1>4
<1> QED
  BY <1>1, <1>3, <1>4, <1>5 DEF a, D, Sent

(* One more frame continues what was sent, and the offsets with it.        *)
LEMMA SentAppend ==
  ASSUME NEW fs \in Seq(Frame), NEW x \in Frame
  PROVE  /\ Sent(Append(fs, x)) = Sent(fs) \o x.data
         /\ OffsetsOf(Append(fs, x)) <=> OffsetsOf(fs) /\ x.offset = Len(Sent(fs))
<1> DEFINE v == Append(fs, x)
           n == Len(fs)
           D == Seq(Byte)
           a == DataOf(fs)
<1>1. v \in Seq(Frame) /\ n \in Nat /\ DOMAIN fs = 1 .. n /\ DOMAIN v = 1 .. n + 1
      /\ v[n + 1] = x /\ \A p \in 1 .. n : v[p] = fs[p]
  OBVIOUS
<1>2. a \in Seq(D) /\ Len(a) = n /\ DataOf(v) = Append(a, x.data)
  BY DataAppend
<1>3. x.data \in D
  BY DEF Frame
<1>4. Sent(v) = Sent(fs) \o x.data
  BY <1>2, <1>3, FlattenAppend DEF Sent
<1> HIDE DEF a, v, D
<1>5. \A j \in Int : j <= n => SubSeq(DataOf(v), 1, j) = SubSeq(a, 1, j)
  BY <1>2, <1>3, FirstPart
<1>6. SubSeq(a, 1, n) = a
  BY <1>2
<1>7. \A k \in 1 .. n + 1 : k - 1 \in Int /\ k - 1 <= n
  BY <1>1
<1>8. \A k \in 1 .. n + 1 : SubSeq(DataOf(v), 1, k - 1) = SubSeq(a, 1, k - 1)
  BY <1>5, <1>7
<1>9. /\ (n + 1) - 1 = n /\ n + 1 \in 1 .. n + 1
      /\ \A k \in 1 .. n : k \in 1 .. n + 1
      /\ \A k \in 1 .. n + 1 : k \in 1 .. n \/ k = n + 1
  BY <1>1
<1>10. OffsetsOf(v) <=> \A k \in 1 .. n + 1 : v[k].offset = Len(FlattenSeq(SubSeq(a, 1, k - 1)))
  BY <1>1, <1>8, Zenon DEF OffsetsOf
<1>11. OffsetsOf(fs) <=> \A k \in 1 .. n : fs[k].offset = Len(FlattenSeq(SubSeq(a, 1, k - 1)))
  BY <1>1, Zenon DEF OffsetsOf, a
<1>12. Sent(fs) = FlattenSeq(a)
  BY DEF Sent, a
<1>13. ASSUME OffsetsOf(v) PROVE OffsetsOf(fs) /\ x.offset = Len(Sent(fs))
  <2>1. x.offset = Len(FlattenSeq(SubSeq(a, 1, (n + 1) - 1)))
    BY <1>1, <1>9, <1>10, <1>13, Zenon
  <2>2. \A k \in 1 .. n : fs[k].offset = Len(FlattenSeq(SubSeq(a, 1, k - 1)))
    BY <1>1, <1>9, <1>10, <1>13, Zenon
  <2> QED
    BY <1>6, <1>9, <1>11, <1>12, <2>1, <2>2
<1>14. ASSUME OffsetsOf(fs), x.offset = Len(Sent(fs)) PROVE OffsetsOf(v)
  <2>1. v[n + 1].offset = Len(FlattenSeq(SubSeq(a, 1, (n + 1) - 1)))
    BY <1>1, <1>6, <1>9, <1>12, <1>14
  <2>2. \A k \in 1 .. n : v[k].offset = Len(FlattenSeq(SubSeq(a, 1, k - 1)))
    BY <1>1, <1>11, <1>14, Zenon
  <2>3. ASSUME NEW k \in 1 .. n + 1
        PROVE  v[k].offset = Len(FlattenSeq(SubSeq(a, 1, k - 1)))
    <3>1. CASE k = n + 1
      BY <2>1, <3>1
    <3>2. CASE k \in 1 .. n
      BY <2>2, <3>2
    <3> QED
      BY <1>9, <3>1, <3>2
  <2> QED
    BY <1>10, <2>3
<1> QED
  BY <1>4, <1>13, <1>14 DEF v

-----------------------------------------------------------------------------
(* What the body of the loop does to the fields of a framer.               *)

Framer == [frame : Seq(Byte), delimiterStart : Nat, lineHasData : BOOLEAN,
           afterCR : BOOLEAN, frameEndedAtCR : BOOLEAN, endedFrameWireSize : Nat,
           emittedOffset : Nat]

Steps == [f : Framer, out : Seq(Frame), ok : BOOLEAN]

(* The conditions of the loop: an LF that completes the frame which a CR   *)
(* has ended, and one that completes a line.                               *)
JoinsFrame(s, b) == s.f.afterCR /\ b = "LF" /\ s.f.frameEndedAtCR
JoinsLine(s, b) == s.f.afterCR /\ b = "LF" /\ ~s.f.frameEndedAtCR

(* The framer that the rest of the loop works with.                        *)
Cleared(s) == [s EXCEPT !.f.afterCR = FALSE, !.f.frameEndedAtCR = FALSE,
                        !.f.endedFrameWireSize = 0]

(* The fields and their types.                                             *)
LEMMA FramerFields ==
  ASSUME NEW s \in Steps
  PROVE  /\ s.f \in Framer /\ s.out \in Seq(Frame) /\ s.ok \in BOOLEAN
         /\ s.f.frame \in Seq(Byte) /\ Len(s.f.frame) \in Nat /\ s.f.delimiterStart \in Nat
         /\ s.f.lineHasData \in BOOLEAN /\ s.f.afterCR \in BOOLEAN
         /\ s.f.frameEndedAtCR \in BOOLEAN /\ s.f.endedFrameWireSize \in Nat
         /\ s.f.emittedOffset \in Nat
BY DEF Steps, Framer

(* What clearing does to each field.                                       *)
LEMMA ClearedIs ==
  ASSUME NEW s \in Steps
  PROVE  /\ Cleared(s) \in Steps /\ Cleared(s).ok = s.ok /\ Cleared(s).out = s.out
         /\ Cleared(s).f.frame = s.f.frame /\ Cleared(s).f.delimiterStart = s.f.delimiterStart
         /\ Cleared(s).f.lineHasData = s.f.lineHasData
         /\ Cleared(s).f.emittedOffset = s.f.emittedOffset
         /\ Cleared(s).f.afterCR = FALSE /\ Cleared(s).f.frameEndedAtCR = FALSE
         /\ Cleared(s).f.endedFrameWireSize = 0
BY DEF Steps, Framer, Cleared

(* appendFrameBytes.                                                       *)
LEMMA AppendByteIs ==
  ASSUME NEW s \in Steps, NEW b \in Byte, limit \in Nat
  PROVE  /\ AppendByte(s, b) \in Steps /\ AppendByte(s, b).out = s.out
         /\ Len(s.f.frame) >= limit => AppendByte(s, b).ok = FALSE /\ AppendByte(s, b).f = s.f
         /\ ~(Len(s.f.frame) >= limit) =>
              /\ AppendByte(s, b).ok = s.ok
              /\ AppendByte(s, b).f.frame = Append(s.f.frame, b)
              /\ AppendByte(s, b).f.delimiterStart = s.f.delimiterStart
              /\ AppendByte(s, b).f.lineHasData = s.f.lineHasData
              /\ AppendByte(s, b).f.afterCR = s.f.afterCR
              /\ AppendByte(s, b).f.frameEndedAtCR = s.f.frameEndedAtCR
              /\ AppendByte(s, b).f.endedFrameWireSize = s.f.endedFrameWireSize
              /\ AppendByte(s, b).f.emittedOffset = s.f.emittedOffset
<1>1. s.f \in Framer /\ s.f.frame \in Seq(Byte)
  BY FramerFields
<1>2. Append(s.f.frame, b) \in Seq(Byte)
  BY <1>1
<1>3. CASE Len(s.f.frame) >= limit
  BY <1>3 DEF AppendByte, Steps
<1>4. CASE ~(Len(s.f.frame) >= limit)
  <2> DEFINE x == Append(s.f.frame, b)
             t == [s EXCEPT !.f.frame = x]
  <2>1. AppendByte(s, b) = t
    BY <1>4 DEF AppendByte
  <2>2. x \in Seq(Byte)
    BY <1>2
  <2> HIDE DEF x
  <2>3. /\ t \in Steps /\ t.out = s.out /\ t.ok = s.ok /\ t.f.frame = x
        /\ t.f.delimiterStart = s.f.delimiterStart
        /\ t.f.lineHasData = s.f.lineHasData
        /\ t.f.afterCR = s.f.afterCR
        /\ t.f.frameEndedAtCR = s.f.frameEndedAtCR
        /\ t.f.endedFrameWireSize = s.f.endedFrameWireSize
        /\ t.f.emittedOffset = s.f.emittedOffset
    BY <2>2 DEF Steps, Framer
  <2> HIDE DEF t
  <2> QED
    BY <1>4, <2>1, <2>3 DEF x
<1> QED
  BY <1>3, <1>4

(* takeFrame.                                                              *)
Data(s, d) == IF mode = "strip" THEN SubSeq(s.f.frame, 1, d) ELSE s.f.frame

(* What taking a frame does to each field.                                 *)
LEMMA TakeFrameIs ==
  ASSUME NEW s \in Steps, NEW d \in Nat, d <= Len(s.f.frame)
  PROVE  /\ TakeFrame(s, d) \in Steps /\ TakeFrame(s, d).ok = s.ok /\ Data(s, d) \in Seq(Byte)
         /\ TakeFrame(s, d).f.frame = <<>> /\ TakeFrame(s, d).f.delimiterStart = 0
         /\ TakeFrame(s, d).f.lineHasData = s.f.lineHasData
         /\ TakeFrame(s, d).f.afterCR = s.f.afterCR
         /\ TakeFrame(s, d).f.frameEndedAtCR = s.f.frameEndedAtCR
         /\ TakeFrame(s, d).f.endedFrameWireSize = s.f.endedFrameWireSize
         /\ TakeFrame(s, d).f.emittedOffset = s.f.emittedOffset + Len(Data(s, d))
         /\ TakeFrame(s, d).out
              = Append(s.out, [offset |-> s.f.emittedOffset, data |-> Data(s, d)])
<1> DEFINE x == Data(s, d)
           m == s.f.emittedOffset + Len(x)
           g == [s.f EXCEPT !.frame = <<>>, !.delimiterStart = 0, !.emittedOffset = m]
           o == Append(s.out, [offset |-> s.f.emittedOffset, data |-> x])
           t == TakeFrame(s, d)
<1>1. /\ s.f \in Framer /\ s.f.frame \in Seq(Byte) /\ s.f.emittedOffset \in Nat
      /\ s.out \in Seq(Frame)
  BY FramerFields
<1>2. x \in Seq(Byte) /\ Len(x) \in Nat
  <2>1. SubSeq(s.f.frame, 1, d) \in Seq(Byte)
    BY <1>1
  <2>2. x \in Seq(Byte)
    BY <1>1, <2>1 DEF Data
  <2> QED
    BY <2>2
<1>3. t = [s EXCEPT !.f = g, !.out = o]
  BY DEF TakeFrame, Data
<1> HIDE DEF x, t
<1>4. m \in Nat
  BY <1>1, <1>2
<1>5. o \in Seq(Frame)
  <2> DEFINE r == [offset |-> s.f.emittedOffset, data |-> x]
  <2>1. r \in Frame
    BY <1>1, <1>2 DEF Frame
  <2>2. o = Append(s.out, r)
    OBVIOUS
  <2> HIDE DEF r, o
  <2>3. Append(s.out, r) \in Seq(Frame)
    BY <1>1, <2>1
  <2> QED
    BY <2>2, <2>3
<1> HIDE DEF m, o
<1>6. <<>> \in Seq(Byte)
  OBVIOUS
<1>7. /\ g \in Framer /\ g.frame = <<>> /\ g.delimiterStart = 0
      /\ g.lineHasData = s.f.lineHasData /\ g.afterCR = s.f.afterCR
      /\ g.frameEndedAtCR = s.f.frameEndedAtCR
      /\ g.endedFrameWireSize = s.f.endedFrameWireSize /\ g.emittedOffset = m
  BY <1>1, <1>4, <1>6 DEF Framer
<1> HIDE DEF g
<1>8. t \in Steps /\ t.ok = s.ok /\ t.f = g /\ t.out = o
  BY <1>3, <1>5, <1>7 DEF Steps
<1> QED
  BY <1>2, <1>7, <1>8 DEF x, t, m, o

(* A step that fails leaves what was sent, and its framer is well-formed.  *)
Sound(f) ==
  /\ Len(f.frame) <= limit /\ f.delimiterStart <= Len(f.frame)
  /\ f.frameEndedAtCR => f.afterCR

FailsAt(s, t) == t \in Steps /\ t.ok = FALSE /\ t.out = s.out /\ Sound(t.f)

(* The frames of the chunk with an LF more.                                *)
WithLF(s) ==
  IF s.out # <<>> THEN [s.out EXCEPT ![Len(s.out)].data = Append(@, "LF")]
  ELSE <<[offset |-> s.f.emittedOffset, data |-> <<"LF">>]>>

(* The LF joins the last frame that was taken, or is a frame of its own.   *)
LEMMA WithLFIs ==
  ASSUME NEW s \in Steps
  PROVE  \/ s.out = <<>> /\ WithLF(s) = <<[offset |-> s.f.emittedOffset, data |-> <<"LF">>]>>
         \/ \E q \in Seq(Frame), l \in Frame :
              /\ s.out = Append(q, l)
              /\ WithLF(s) = Append(q, [l EXCEPT !.data = Append(l.data, "LF")])
<1>1. CASE s.out = <<>>
  BY <1>1 DEF WithLF
<1>2. CASE s.out # <<>>
  <2> DEFINE o == s.out
             n == Len(o)
             q == [p \in 1 .. n - 1 |-> o[p]]
             l == o[n]
             x == [l EXCEPT !.data = Append(l.data, "LF")]
  <2>1. o \in Seq(Frame)
    BY FramerFields
  <2>2. o # <<>>
    BY <1>2
  <2>3. WithLF(s) = [o EXCEPT ![n] = x]
    BY <1>2 DEF WithLF
  <2> HIDE DEF o
  <2>4. n \in Nat /\ n >= 1 /\ DOMAIN o = 1 .. n /\ \A p \in 1 .. n : o[p] \in Frame
    BY <2>1, <2>2
  <2>5. l \in Frame
    BY <2>4
  <2>6. o = [p \in 1 .. n |-> o[p]]
    BY <2>1, <2>4
  <2> HIDE DEF n, l
  <2>7. x \in Frame
    <3>1. l.data \in Seq(Byte)
      BY <2>5 DEF Frame
    <3>2. Append(l.data, "LF") \in Seq(Byte)
      BY <3>1 DEF Byte
    <3> QED
      BY <2>5, <3>2 DEF Frame
  <2> HIDE DEF x
  <2>8. q \in Seq(Frame) /\ Len(q) = n - 1 /\ \A p \in 1 .. n - 1 : q[p] = o[p]
    <3>1. n - 1 \in Nat /\ \A p \in 1 .. n - 1 : p \in 1 .. n
      BY <2>4
    <3>2. q \in [1 .. n - 1 -> Frame]
      BY <2>4, <3>1
    <3> QED
      BY <3>1, <3>2
  <2> HIDE DEF q
  <2>9. \A y \in Frame : Append(q, y) = [p \in 1 .. n |-> IF p = n THEN y ELSE o[p]]
    <3> SUFFICES ASSUME NEW y \in Frame
                 PROVE  Append(q, y) = [p \in 1 .. n |-> IF p = n THEN y ELSE o[p]]
      OBVIOUS
    <3> DEFINE z == Append(q, y)
    <3>1. /\ z \in Seq(Frame) /\ DOMAIN z = 1 .. n /\ z[n] = y
          /\ \A p \in 1 .. n - 1 : z[p] = q[p]
      BY <2>4, <2>8
    <3> HIDE DEF z
    <3>2. z = [p \in DOMAIN z |-> z[p]]
      BY <3>1
    <3>3. \A p \in 1 .. n : p = n \/ p \in 1 .. n - 1
      BY <2>4
    <3>4. \A p \in 1 .. n : z[p] = IF p = n THEN y ELSE o[p]
      BY <2>8, <3>1, <3>3
    <3>5. z = [p \in 1 .. n |-> IF p = n THEN y ELSE o[p]]
      BY <3>1, <3>2, <3>4
    <3> QED
      BY <3>5 DEF z
  <2>10. o = Append(q, l)
    <3>1. Append(q, l) = [p \in 1 .. n |-> IF p = n THEN l ELSE o[p]]
      BY <2>5, <2>9
    <3>2. \A p \in 1 .. n : o[p] = IF p = n THEN l ELSE o[p]
      BY DEF l, n
    <3> QED
      BY <2>6, <3>1, <3>2
  <2>11. WithLF(s) = Append(q, x)
    <3>1. Append(q, x) = [p \in 1 .. n |-> IF p = n THEN x ELSE o[p]]
      BY <2>7, <2>9
    <3>2. [o EXCEPT ![n] = x] = [p \in 1 .. n |-> IF p = n THEN x ELSE o[p]]
      BY <2>4
    <3> QED
      BY <2>3, <3>1, <3>2
  <2> QED
    BY <2>5, <2>8, <2>10, <2>11 DEF o, x
<1> QED
  BY <1>1, <1>2

(* The frames are frames with the LF, too.                                 *)
LEMMA WithLFType ==
  ASSUME NEW s \in Steps
  PROVE  WithLF(s) \in Seq(Frame)
<1>1. CASE WithLF(s) = <<[offset |-> s.f.emittedOffset, data |-> <<"LF">>]>>
  <2> DEFINE x == [offset |-> s.f.emittedOffset, data |-> <<"LF">>]
  <2>1. <<"LF">> \in Seq(Byte) /\ s.f.emittedOffset \in Nat
    BY FramerFields DEF Byte
  <2>2. x \in Frame
    BY <2>1 DEF Frame
  <2>3. WithLF(s) = <<x>>
    BY <1>1
  <2> HIDE DEF x
  <2>4. <<x>> \in Seq(Frame)
    BY <2>2
  <2> QED
    BY <2>3, <2>4
<1>2. ASSUME NEW q \in Seq(Frame), NEW l \in Frame,
             WithLF(s) = Append(q, [l EXCEPT !.data = Append(l.data, "LF")])
      PROVE  WithLF(s) \in Seq(Frame)
  <2> DEFINE x == [l EXCEPT !.data = Append(l.data, "LF")]
  <2>1. l.data \in Seq(Byte)
    BY DEF Frame
  <2>2. Append(l.data, "LF") \in Seq(Byte)
    BY <2>1 DEF Byte
  <2>3. x \in Frame
    BY <2>2 DEF Frame
  <2>4. WithLF(s) = Append(q, x)
    BY <1>2
  <2> HIDE DEF x
  <2>5. Append(q, x) \in Seq(Frame)
    BY <2>3
  <2> QED
    BY <2>4, <2>5
<1> QED
  BY <1>1, <1>2, WithLFIs

(* An LF that completes the frame which a CR has ended.                    *)
LEMMA AfterFrameIs ==
  ASSUME NEW s \in Steps, s.ok, Sound(s.f), limit \in Nat
  PROVE  /\ s.f.endedFrameWireSize >= limit => FailsAt(s, AfterFrame(s))
         /\ ~(s.f.endedFrameWireSize >= limit) =>
              /\ AfterFrame(s).ok = TRUE
              /\ AfterFrame(s).f.frame = s.f.frame
              /\ AfterFrame(s).f.delimiterStart = s.f.delimiterStart
              /\ AfterFrame(s).f.lineHasData = s.f.lineHasData
              /\ AfterFrame(s).f.afterCR = FALSE /\ AfterFrame(s).f.frameEndedAtCR = FALSE
              /\ mode = "strip" => /\ AfterFrame(s).f.emittedOffset = s.f.emittedOffset
                                   /\ AfterFrame(s).out = s.out
              /\ mode # "strip" => /\ AfterFrame(s).f.emittedOffset = s.f.emittedOffset + 1
                                   /\ AfterFrame(s).out = WithLF(s)
              /\ AfterFrame(s) \in Steps
<1> DEFINE rest == [s.f EXCEPT !.afterCR = FALSE, !.frameEndedAtCR = FALSE,
                               !.endedFrameWireSize = 0]
<1>1. s.f \in Framer /\ s.f.emittedOffset \in Nat /\ s.out \in Seq(Frame)
  BY FramerFields
<1>2. /\ rest \in Framer /\ rest.frame = s.f.frame /\ rest.delimiterStart = s.f.delimiterStart
      /\ rest.lineHasData = s.f.lineHasData /\ rest.emittedOffset = s.f.emittedOffset
      /\ rest.afterCR = FALSE /\ rest.frameEndedAtCR = FALSE
  BY <1>1 DEF Framer
<1>3. CASE s.f.endedFrameWireSize >= limit
  <2>1. AfterFrame(s) = [s EXCEPT !.ok = FALSE]
    BY <1>3 DEF AfterFrame
  <2> QED
    BY <1>3, <2>1 DEF FailsAt, Steps
<1>4. CASE ~(s.f.endedFrameWireSize >= limit) /\ mode = "strip"
  <2>1. AfterFrame(s) = [s EXCEPT !.f = rest]
    BY <1>4 DEF AfterFrame
  <2> HIDE DEF rest
  <2> QED
    BY <1>2, <1>4, <2>1 DEF Steps
<1>5. CASE ~(s.f.endedFrameWireSize >= limit) /\ mode # "strip"
  <2> DEFINE o == WithLF(s)
             m == s.f.emittedOffset + 1
  <2>1. AfterFrame(s) = [s EXCEPT !.f = rest, !.f.emittedOffset = @ + 1, !.out = o]
    BY <1>5 DEF AfterFrame, WithLF
  <2> HIDE DEF rest, o
  <2>2. AfterFrame(s) = [s EXCEPT !.f = [rest EXCEPT !.emittedOffset = m], !.out = o]
    BY <1>2, <2>1 DEF Steps
  <2>3. m \in Nat
    BY <1>1
  <2> HIDE DEF m
  <2> DEFINE g == [rest EXCEPT !.emittedOffset = m]
  <2>4. /\ g \in Framer /\ g.frame = s.f.frame /\ g.delimiterStart = s.f.delimiterStart
        /\ g.lineHasData = s.f.lineHasData /\ g.emittedOffset = m
        /\ g.afterCR = FALSE /\ g.frameEndedAtCR = FALSE
    BY <1>2, <2>3 DEF Framer
  <2> HIDE DEF g
  <2>5. AfterFrame(s) = [s EXCEPT !.f = g, !.out = o]
    BY <2>2 DEF g
  <2>6. o \in Seq(Frame)
    BY WithLFType DEF o
  <2>7. AfterFrame(s).f = g /\ AfterFrame(s).out = o /\ AfterFrame(s).ok = TRUE
        /\ AfterFrame(s) \in Steps
    BY <2>4, <2>5, <2>6 DEF Steps
  <2> QED
    BY <1>5, <2>4, <2>7 DEF m, o
<1> QED
  BY <1>3, <1>4, <1>5

(* A line ending, of a framer that was cleared: it ends the line ...       *)
LEMMA LineEndsLine ==
  ASSUME NEW s \in Steps, NEW b \in {"CR", "LF"}, s.ok, limit \in Nat,
         ~(Len(s.f.frame) >= limit), s.f.lineHasData, s.f.frameEndedAtCR = FALSE
  PROVE  /\ LineEnds(s, b) \in Steps /\ LineEnds(s, b).ok = TRUE /\ LineEnds(s, b).out = s.out
         /\ LineEnds(s, b).f.frame = Append(s.f.frame, b)
         /\ LineEnds(s, b).f.delimiterStart = Len(s.f.frame)
         /\ LineEnds(s, b).f.lineHasData = FALSE
         /\ LineEnds(s, b).f.afterCR = (b = "CR") /\ LineEnds(s, b).f.frameEndedAtCR = FALSE
         /\ LineEnds(s, b).f.emittedOffset = s.f.emittedOffset
<1> DEFINE t == AppendByte(s, b)
           after == [t EXCEPT !.f.afterCR = (b = "CR"), !.f.lineHasData = FALSE]
           e == Len(t.f.frame) - 1
<1>1. /\ t \in Steps /\ t.out = s.out /\ t.ok = s.ok /\ t.f.frame = Append(s.f.frame, b)
      /\ t.f.lineHasData = s.f.lineHasData /\ t.f.frameEndedAtCR = FALSE
      /\ t.f.emittedOffset = s.f.emittedOffset
  <2>1. b \in Byte
    BY DEF Byte
  <2>2. /\ t \in Steps /\ t.out = s.out
        /\ t.ok = s.ok
        /\ t.f.frame = Append(s.f.frame, b)
        /\ t.f.lineHasData = s.f.lineHasData
        /\ t.f.frameEndedAtCR = s.f.frameEndedAtCR
        /\ t.f.emittedOffset = s.f.emittedOffset
    BY <2>1, AppendByteIs, Zenon
  <2> QED
    BY <2>2
<1>2. LineEnds(s, b) = [after EXCEPT !.f.delimiterStart = e]
  BY <1>1 DEF LineEnds
<1>3. e = Len(s.f.frame) /\ e \in Nat
  BY <1>1, FramerFields
<1> HIDE DEF e, t
<1>4. /\ after \in Steps /\ after.ok = t.ok /\ after.out = t.out /\ after.f.frame = t.f.frame
      /\ after.f.lineHasData = FALSE /\ after.f.afterCR = (b = "CR")
      /\ after.f.frameEndedAtCR = t.f.frameEndedAtCR
      /\ after.f.emittedOffset = t.f.emittedOffset
  BY <1>1 DEF Steps, Framer
<1> HIDE DEF after
<1> DEFINE z == [after EXCEPT !.f.delimiterStart = e]
<1>5. /\ z \in Steps /\ z.ok = after.ok /\ z.out = after.out /\ z.f.frame = after.f.frame
      /\ z.f.delimiterStart = e /\ z.f.lineHasData = after.f.lineHasData
      /\ z.f.afterCR = after.f.afterCR /\ z.f.frameEndedAtCR = after.f.frameEndedAtCR
      /\ z.f.emittedOffset = after.f.emittedOffset
  BY <1>3, <1>4 DEF Steps, Framer
<1>6. LineEnds(s, b) = z
  BY <1>2
<1> HIDE DEF z
<1> QED
  BY <1>1, <1>3, <1>4, <1>5, <1>6

(* What is sent of a frame that the byte ends.                             *)
DataWith(s, b) ==
  IF mode = "strip" THEN SubSeq(s.f.frame, 1, s.f.delimiterStart) ELSE Append(s.f.frame, b)

(* A framer t that has sent x and begins a new frame.                      *)
Ended(s, b, x, t) ==
  /\ t \in Steps /\ t.ok = TRUE /\ x \in Seq(Byte)
  /\ t.out = Append(s.out, [offset |-> s.f.emittedOffset, data |-> x])
  /\ t.f.frame = <<>> /\ t.f.delimiterStart = 0 /\ t.f.lineHasData = FALSE
  /\ t.f.afterCR = (b = "CR") /\ t.f.frameEndedAtCR = (b = "CR")
  /\ b = "CR" => t.f.endedFrameWireSize = Len(s.f.frame) + 1
  /\ t.f.emittedOffset = s.f.emittedOffset + Len(x)

(* ... or the frame.                                                       *)
LEMMA LineEndsFrame ==
  ASSUME NEW s \in Steps, NEW b \in {"CR", "LF"}, s.ok, limit \in Nat, Sound(s.f),
         ~(Len(s.f.frame) >= limit), ~s.f.lineHasData, s.f.frameEndedAtCR = FALSE,
         NEW x, x = DataWith(s, b)
  PROVE  Ended(s, b, x, LineEnds(s, b))
<1> DEFINE t == AppendByte(s, b)
           after == [t EXCEPT !.f.afterCR = (b = "CR"), !.f.lineHasData = FALSE]
           size == Len(t.f.frame)
           d == t.f.delimiterStart
           taken == TakeFrame(after, d)
<1>1. /\ t \in Steps /\ t.out = s.out /\ t.ok = s.ok /\ t.f.frame = Append(s.f.frame, b)
      /\ t.f.lineHasData = s.f.lineHasData /\ t.f.frameEndedAtCR = FALSE
      /\ t.f.emittedOffset = s.f.emittedOffset /\ d = s.f.delimiterStart
  <2>1. b \in Byte
    BY DEF Byte
  <2>2. /\ t \in Steps /\ t.out = s.out
        /\ t.ok = s.ok
        /\ t.f.frame = Append(s.f.frame, b)
        /\ t.f.delimiterStart = s.f.delimiterStart
        /\ t.f.lineHasData = s.f.lineHasData
        /\ t.f.frameEndedAtCR = s.f.frameEndedAtCR
        /\ t.f.emittedOffset = s.f.emittedOffset
    BY <2>1, AppendByteIs, Zenon
  <2> QED
    BY <2>2
<1>2. LineEnds(s, b)
        = IF b = "LF" THEN taken
          ELSE [taken EXCEPT !.f.frameEndedAtCR = TRUE, !.f.endedFrameWireSize = size]
  BY <1>1 DEF LineEnds
<1>3. s.f.frame \in Seq(Byte) /\ Len(s.f.frame) \in Nat /\ s.f.delimiterStart \in Nat
  BY FramerFields
<1>4. size = Len(s.f.frame) + 1 /\ size \in Nat
  BY <1>1, <1>3
<1>5. d \in Nat /\ d <= size
  BY <1>1, <1>3, <1>4 DEF Sound
<1> HIDE DEF t, d, size
<1>6. /\ after \in Steps /\ after.ok = t.ok /\ after.out = t.out /\ after.f.frame = t.f.frame
      /\ after.f.lineHasData = FALSE /\ after.f.afterCR = (b = "CR")
      /\ after.f.frameEndedAtCR = t.f.frameEndedAtCR
      /\ after.f.emittedOffset = t.f.emittedOffset
  BY <1>1 DEF Steps, Framer
<1> HIDE DEF after
<1>7. Data(after, d) = x
  <2>1. CASE mode = "strip"
    <3>1. SubSeq(Append(s.f.frame, b), 1, s.f.delimiterStart) = SubSeq(s.f.frame, 1, s.f.delimiterStart)
      <4>1. b \in Byte /\ s.f.delimiterStart \in Int /\ s.f.delimiterStart <= Len(s.f.frame)
        BY <1>3 DEF Sound, Byte
      <4> QED
        BY <1>3, <4>1, FirstPart
    <3> QED
      BY <1>1, <1>6, <2>1, <3>1 DEF Data, DataWith
  <2>2. CASE mode # "strip"
    BY <1>1, <1>6, <2>2 DEF Data, DataWith
  <2> QED
    BY <2>1, <2>2
<1>8. d <= Len(after.f.frame)
  BY <1>5, <1>6 DEF size
<1>9. /\ taken \in Steps /\ taken.ok = after.ok /\ Data(after, d) \in Seq(Byte)
      /\ taken.f.frame = <<>> /\ taken.f.delimiterStart = 0
      /\ taken.f.lineHasData = after.f.lineHasData
      /\ taken.f.afterCR = after.f.afterCR
      /\ taken.f.frameEndedAtCR = after.f.frameEndedAtCR
      /\ taken.f.emittedOffset = after.f.emittedOffset + Len(Data(after, d))
      /\ taken.out = Append(after.out, [offset |-> after.f.emittedOffset, data |-> Data(after, d)])
  BY <1>5, <1>6, <1>8, TakeFrameIs
<1> HIDE DEF taken
<1>10. /\ taken \in Steps /\ taken.ok = TRUE /\ x \in Seq(Byte)
       /\ taken.f.frame = <<>> /\ taken.f.delimiterStart = 0
       /\ taken.f.lineHasData = FALSE
       /\ taken.f.afterCR = (b = "CR")
       /\ taken.f.frameEndedAtCR = FALSE
       /\ taken.f.emittedOffset = s.f.emittedOffset + Len(x)
       /\ taken.out = Append(s.out, [offset |-> s.f.emittedOffset, data |-> x])
  BY <1>1, <1>6, <1>7, <1>9
<1>11. CASE b = "LF"
  BY <1>2, <1>10, <1>11 DEF Ended
<1>12. CASE b = "CR"
  <2> DEFINE z == [taken EXCEPT !.f.frameEndedAtCR = TRUE, !.f.endedFrameWireSize = size]
  <2>1. LineEnds(s, b) = z
    BY <1>2, <1>12
  <2>2. /\ z \in Steps /\ z.ok = taken.ok /\ z.out = taken.out
        /\ z.f.frame = taken.f.frame /\ z.f.delimiterStart = taken.f.delimiterStart
        /\ z.f.lineHasData = taken.f.lineHasData /\ z.f.afterCR = taken.f.afterCR
        /\ z.f.frameEndedAtCR = TRUE /\ z.f.endedFrameWireSize = size
        /\ z.f.emittedOffset = taken.f.emittedOffset
    BY <1>4, <1>10 DEF Steps, Framer
  <2> HIDE DEF z
  <2> QED
    BY <1>4, <1>10, <1>12, <2>1, <2>2 DEF Ended
<1> QED
  BY <1>11, <1>12

-----------------------------------------------------------------------------
(* The framer and what was sent, against the stream.                       *)

(* The fields of a framer that has read w.                                 *)
FramerAt(f, w) ==
  /\ f.frame = Unfinished(w) /\ f.delimiterStart = Delimiter(w)
  /\ f.lineHasData <=> EndsWith(w, "x")
  /\ f.afterCR <=> EndsWith(w, "CR")
  /\ f.frameEndedAtCR <=> EndsWith(w, "CR") /\ Len(w) \in FrameEndings(w)
  /\ f.frameEndedAtCR => f.endedFrameWireSize = (Len(w) + 1) - Start(w, Len(w))

(* The frames are those of w; or those of a part of it.                    *)
SentAll(fs, w) ==
  IF mode = "strip" THEN DataOf(fs) = Contents(w) ELSE Sent(fs) \o Unfinished(w) = w

SentPart(fs, w) ==
  IF mode = "strip" THEN \E r \in Seq(Seq(Byte)) : DataOf(fs) \o r = Contents(w)
  ELSE \E r \in Seq(Byte) : Sent(fs) \o r = w

(* append, having read the rest of w after fs was sent: the frames are fs  *)
(* and those of the chunk.                                                 *)
Follows(s, fs, w) ==
  /\ s \in Steps /\ Sound(s.f) /\ OffsetsOf(fs \o s.out)
  /\ s.ok => /\ s.f.emittedOffset = Len(Sent(fs \o s.out))
             /\ FramerAt(s.f, w) /\ ~TooLong(w) /\ SentAll(fs \o s.out, w)
  /\ ~s.ok => TooLong(w) /\ SentPart(fs \o s.out, w)

(* The last byte.                                                          *)
LEMMA LastByte ==
  ASSUME NEW w \in Seq(Byte), NEW b \in Byte
  PROVE  /\ \A c : EndsWith(Append(w, b), c) <=> c = b
         /\ Len(Append(w, b)) \in FrameEndings(Append(w, b)) <=> EndsFrame(w, b)
<1> DEFINE v == Append(w, b)
           n == Len(w)
<1>1. v \in Seq(Byte) /\ n \in Nat /\ Len(v) = n + 1 /\ v[n + 1] = b
  BY AppendedIs
<1>2. FrameEndings(v) = FrameEndings(w) \cup (IF EndsFrame(w, b) THEN {n + 1} ELSE {})
      /\ FrameEndings(w) \subseteq 1 .. n
  BY EndingsAppend, EndingsAre
<1> HIDE DEF v
<1>3. n + 1 \notin 1 .. n /\ n + 1 > 0
  BY <1>1
<1>4. n + 1 \in FrameEndings(v) <=> EndsFrame(w, b)
  BY <1>2, <1>3
<1>5. \A c : EndsWith(v, c) <=> c = b
  BY <1>1, <1>3 DEF EndsWith
<1> QED
  BY <1>1, <1>4, <1>5 DEF v

(* Frames of streams are sequences of bytes.                               *)
LEMMA ContentsType ==
  ASSUME NEW w \in Seq(Byte)
  PROVE  Contents(w) \in Seq(Seq(Byte))
<1> DEFINE a == [p \in DOMAIN w |-> IF p \in FrameEndings(w) THEN <<Content(w, p)>> ELSE <<>>]
           D == Seq(Byte)
<1>1. Len(w) \in Nat /\ DOMAIN w = 1 .. Len(w)
  OBVIOUS
<1>2. ASSUME NEW p \in DOMAIN w PROVE Content(w, p) \in D
  <2>1. CASE Lines(w, p) = {}
    <3>1. Content(w, p) = <<>>
      BY <2>1, ContentIs
    <3>2. <<>> \in D
      OBVIOUS
    <3> QED
      BY <3>1, <3>2
  <2>2. CASE Lines(w, p) # {}
    <3> DEFINE i == Start(w, p)
               j == Max(Lines(w, p)) - 1
    <3>1. Content(w, p) = SubSeq(w, i, j)
      BY <2>2, ContentIs
    <3>2. i \in Nat /\ 1 <= i /\ j \in Int /\ j <= Len(w)
      <4>1. Max(Lines(w, p)) \in 1 .. Len(w) /\ Start(w, p) \in Nat /\ 1 <= Start(w, p)
        BY <2>2, ContentIs
      <4> QED
        BY <1>1, <4>1
    <3> HIDE DEF i, j
    <3>3. SubSeq(w, i, j) \in D
      BY <3>2
    <3> QED
      BY <3>1, <3>3
  <2> QED
    BY <2>1, <2>2
<1> HIDE DEF D
<1>3. \A x \in D : <<x>> \in Seq(D)
  OBVIOUS
<1>4. <<>> \in Seq(D)
  OBVIOUS
<1> DEFINE E == Seq(D)
<1>5. \A p \in 1 .. Len(w) : (IF p \in FrameEndings(w) THEN <<Content(w, p)>> ELSE <<>>) \in E
  BY <1>1, <1>2, <1>3, <1>4, Zenon
<1> HIDE DEF E
<1>6. a = [p \in 1 .. Len(w) |-> IF p \in FrameEndings(w) THEN <<Content(w, p)>> ELSE <<>>]
  BY <1>1
<1>7. a \in [1 .. Len(w) -> E]
  BY <1>5, <1>6
<1>8. Contents(w) = FlattenSeq(a)
  BY DEF Contents
<1> HIDE DEF a
<1>9. a \in Seq(E)
  BY <1>1, <1>7
<1>10. FlattenSeq(a) \in Seq(D)
  BY <1>9, FlattenType DEF E
<1> QED
  BY <1>8, <1>10 DEF D

(* What was sent is a part of a longer stream too.                         *)
LEMMA SentPartAppend ==
  ASSUME NEW w \in Seq(Byte), NEW b \in Byte, NEW fs \in Seq(Frame), SentPart(fs, w)
  PROVE  SentPart(fs, Append(w, b))
<1>1. DataOf(fs) \in Seq(Seq(Byte)) /\ Sent(fs) \in Seq(Byte)
  BY SentType
<1>2. CASE mode = "strip"
  <2> DEFINE D == Seq(Byte)
             x == SubSeq(Unfinished(w), 1, Delimiter(w))
             c == Contents(w)
             d == DataOf(fs)
  <2>1. PICK r \in Seq(D) : d \o r = c
    BY <1>2 DEF SentPart
  <2>2. x \in D
    <3>1. Unfinished(w) \in Seq(Byte) /\ Delimiter(w) \in 0 .. Len(Unfinished(w))
      BY UnfinishedAppend, DelimiterIs
    <3> QED
      BY <3>1
  <2>3. Contents(Append(w, b)) = IF EndsFrame(w, b) THEN Append(c, x) ELSE c
    BY ContentsAppend
  <2>4. d \in Seq(D)
    BY <1>1
  <2> HIDE DEF D, x, c, d
  <2>5. d \o Append(r, x) = Append(c, x) /\ Append(r, x) \in Seq(D)
    BY <2>1, <2>2, <2>4
  <2> QED
    BY <1>2, <2>1, <2>3, <2>5 DEF SentPart, D, d
<1>3. CASE mode # "strip"
  <2> DEFINE d == Sent(fs)
  <2>1. PICK r \in Seq(Byte) : d \o r = w
    BY <1>3 DEF SentPart
  <2>2. d \in Seq(Byte)
    BY <1>1
  <2> HIDE DEF d
  <2>3. d \o Append(r, b) = Append(w, b) /\ Append(r, b) \in Seq(Byte)
    BY <2>1, <2>2
  <2> QED
    BY <1>3, <2>3 DEF SentPart, d
<1> QED
  BY <1>2, <1>3

(* Frames that match a stream are a part of it.                            *)
LEMMA SentAllIsPart ==
  ASSUME NEW w \in Seq(Byte), NEW fs \in Seq(Frame), SentAll(fs, w)
  PROVE  SentPart(fs, w)
<1>1. CASE mode = "strip"
  <2> DEFINE D == Seq(Byte)
             d == DataOf(fs)
  <2>1. d = Contents(w) /\ d \in Seq(D)
    BY <1>1, SentType DEF SentAll
  <2> HIDE DEF D, d
  <2>2. d \o <<>> = d /\ <<>> \in Seq(D)
    BY <2>1
  <2> QED
    BY <1>1, <2>1, <2>2 DEF SentPart, D, d
<1>2. CASE mode # "strip"
  <2>1. Unfinished(w) \in Seq(Byte)
    BY UnfinishedAppend DEF Byte
  <2> QED
    BY <1>2, <2>1 DEF SentAll, SentPart
<1> QED
  BY <1>1, <1>2

(* One more frame of the chunk is one more frame of all.                   *)
LEMMA JoinAppend ==
  ASSUME NEW fs \in Seq(Frame), NEW o \in Seq(Frame), NEW x \in Frame
  PROVE  /\ fs \o o \in Seq(Frame) /\ fs \o Append(o, x) = Append(fs \o o, x)
         /\ fs \o <<>> = fs /\ fs \o <<x>> = Append(fs, x)
OBVIOUS

(* Bytes joined to a stream.                                               *)
LEMMA JoinByte ==
  ASSUME NEW d \in Seq(Byte), NEW u \in Seq(Byte), NEW b \in Byte
  PROVE  /\ d \o Append(u, b) = Append(d \o u, b)
         /\ d \o <<>> = d /\ d \o <<b>> = Append(d, b)
OBVIOUS

(* What the framer knows of the stream.                                    *)
LEMMA AtIs ==
  ASSUME NEW s, NEW fs \in Seq(Frame), NEW w \in Seq(Byte), NEW b \in Byte, limit \in Nat,
         Follows(s, fs, w), s.ok
  PROVE  /\ s \in Steps /\ fs \o s.out \in Seq(Frame) /\ s.out \in Seq(Frame) /\ Sound(s.f)
         /\ s.f.frame = Unfinished(w) /\ s.f.delimiterStart = Delimiter(w)
         /\ Unfinished(w) \in Seq(Byte) /\ Len(Unfinished(w)) = (Len(w) + 1) - Opening(w)
         /\ Delimiter(w) \in Nat /\ Delimiter(w) <= Len(Unfinished(w))
         /\ JoinsFrame(s, b) <=> Completes(w, b) /\ Len(w) \in FrameEndings(w)
         /\ JoinsLine(s, b) <=> Completes(w, b) /\ Len(w) \notin FrameEndings(w)
         /\ TooLong(Append(w, b)) <=> Grown(w, b) > limit
<1>1. s \in Steps /\ s.out \in Seq(Frame) /\ Sound(s.f)
  BY FramerFields DEF Follows
<1>2. fs \o s.out \in Seq(Frame)
  BY <1>1
<1>3. FramerAt(s.f, w) /\ ~TooLong(w)
  BY DEF Follows
<1>4. Unfinished(w) \in Seq(Byte) /\ Len(Unfinished(w)) = (Len(w) + 1) - Opening(w)
  <2>1. Len(w) \in Nat /\ Opening(w) \in 1 .. Len(w) + 1
    BY OpeningIs
  <2>2. Unfinished(w) \in Seq(Byte) /\ Len(Unfinished(w)) = Len(w) + 1 - Opening(w)
    BY UnfinishedAppend
  <2> QED
    BY <2>1, <2>2
<1>5. Delimiter(w) \in Nat /\ Delimiter(w) <= Len(Unfinished(w))
  BY <1>4, DelimiterIs
<1>6. TooLong(Append(w, b)) <=> Grown(w, b) > limit
  BY <1>3, TooLongAppend
<1>7. JoinsFrame(s, b) <=> Completes(w, b) /\ Len(w) \in FrameEndings(w)
  BY <1>3 DEF JoinsFrame, Completes, FramerAt
<1>8. JoinsLine(s, b) <=> Completes(w, b) /\ Len(w) \notin FrameEndings(w)
  BY <1>3 DEF JoinsLine, Completes, FramerAt
<1> QED
  BY <1>1, <1>2, <1>3, <1>4, <1>5, <1>6, <1>7, <1>8 DEF FramerAt

(* A step that fails because a frame is too long.                          *)
LEMMA FailFollows ==
  ASSUME NEW s, NEW fs \in Seq(Frame), NEW w \in Seq(Byte), NEW b \in Byte, limit \in Nat,
         Follows(s, fs, w), s.ok, NEW t, FailsAt(s, t), Grown(w, b) > limit
  PROVE  Follows(t, fs, Append(w, b))
<1>1. TooLong(Append(w, b)) /\ fs \o s.out \in Seq(Frame)
  BY AtIs
<1>2. SentAll(fs \o s.out, w) /\ OffsetsOf(fs \o s.out)
  BY DEF Follows
<1>3. SentPart(fs \o s.out, Append(w, b))
  BY <1>1, <1>2, SentAllIsPart, SentPartAppend
<1> QED
  BY <1>1, <1>2, <1>3 DEF Follows, FailsAt

(* A byte that only grows the unfinished frame: nothing is sent.           *)
LEMMA GrowFollows ==
  ASSUME NEW s, NEW fs \in Seq(Frame), NEW w \in Seq(Byte), NEW b \in Byte, limit \in Nat,
         Follows(s, fs, w), s.ok, ~Opens(w, b), ~(Grown(w, b) > limit),
         NEW t \in Steps, t.ok, t.out = s.out, t.f.emittedOffset = s.f.emittedOffset,
         t.f.frame = Append(s.f.frame, b), t.f.frameEndedAtCR = FALSE,
         t.f.delimiterStart = IF EndsLine(w, b) THEN Len(s.f.frame) ELSE s.f.delimiterStart,
         t.f.lineHasData <=> b = "x", t.f.afterCR <=> b = "CR"
  PROVE  Follows(t, fs, Append(w, b))
<1> DEFINE v == Append(w, b)
           T == fs \o s.out
           u == Unfinished(w)
<1>1. /\ s \in Steps /\ T \in Seq(Frame)
      /\ s.f.frame = u /\ s.f.delimiterStart = Delimiter(w)
      /\ u \in Seq(Byte) /\ Len(u) = (Len(w) + 1) - Opening(w)
      /\ Delimiter(w) \in Nat /\ Delimiter(w) <= Len(u)
  BY AtIs
<1>2. ~TooLong(v)
  BY AtIs
<1>3. Unfinished(v) = Append(u, b) /\ Delimiter(v) = IF EndsLine(w, b) THEN Len(u) ELSE Delimiter(w)
  BY UnfinishedAppend, DelimiterAppend
<1>4. ~EndsFrame(w, b)
  BY DEF Opens
<1>5. /\ EndsWith(v, "x") <=> b = "x"
      /\ EndsWith(v, "CR") <=> b = "CR"
      /\ Len(v) \notin FrameEndings(v)
  BY <1>4, LastByte
<1>6. FramerAt(t.f, v)
  BY <1>1, <1>3, <1>5 DEF FramerAt
<1>7. SentAll(T, v)
  <2>1. SentAll(T, w)
    BY DEF Follows
  <2>2. CASE mode = "strip"
    <3>1. Contents(v) = Contents(w)
      BY <1>4, ContentsAppend
    <3> QED
      BY <2>1, <2>2, <3>1 DEF SentAll
  <2>3. CASE mode # "strip"
    <3> DEFINE d == Sent(T)
    <3>1. d \o u = w /\ d \in Seq(Byte)
      BY <1>1, <2>1, <2>3, SentType DEF SentAll
    <3> HIDE DEF d, u
    <3>2. u \in Seq(Byte)
      BY <1>1
    <3>3. d \o Append(u, b) = Append(d \o u, b)
      BY <3>1, <3>2, JoinByte
    <3> QED
      BY <1>3, <2>3, <3>1, <3>3 DEF SentAll, d, u
  <2> QED
    BY <2>2, <2>3
<1>8. Sound(t.f)
  <2>1. Len(w) \in Nat /\ Opening(w) \in 1 .. Len(w) + 1
    BY OpeningIs
  <2>2. Grown(w, b) = (Len(w) + 2) - Opening(w)
    <3>1. ~(Completes(w, b) /\ Len(w) \in FrameEndings(w))
      BY DEF Opens
    <3> QED
      BY <3>1 DEF Grown
  <2>3. Len(u) \in Nat /\ Len(u) + 1 <= limit
    BY <1>1, <2>1, <2>2
  <2>4. Len(t.f.frame) = Len(u) + 1
    BY <1>1
  <2>5. t.f.delimiterStart \in Nat /\ t.f.delimiterStart <= Len(u)
    BY <1>1, <2>3
  <2> QED
    BY <2>3, <2>4, <2>5 DEF Sound
<1>9. OffsetsOf(T) /\ s.f.emittedOffset = Len(Sent(T))
  BY DEF Follows
<1> HIDE DEF v, T
<1>10. fs \o t.out = T
  BY DEF T
<1> QED
  BY <1>2, <1>6, <1>7, <1>8, <1>9, <1>10 DEF Follows, v

(* A byte that ends the frame, which is sent.                              *)
LEMMA EndFollows ==
  ASSUME NEW s, NEW fs \in Seq(Frame), NEW w \in Seq(Byte), NEW b \in Byte, limit \in Nat,
         Follows(s, fs, w), s.ok, EndsFrame(w, b), ~(Grown(w, b) > limit),
         NEW x \in Seq(Byte), x = DataWith(s, b),
         NEW t \in Steps, t.ok,
         t.out = Append(s.out, [offset |-> s.f.emittedOffset, data |-> x]),
         t.f.emittedOffset = s.f.emittedOffset + Len(x),
         t.f.frame = <<>>, t.f.delimiterStart = 0, t.f.lineHasData = FALSE,
         t.f.afterCR <=> b = "CR", t.f.frameEndedAtCR <=> b = "CR",
         b = "CR" => t.f.endedFrameWireSize = Len(s.f.frame) + 1
  PROVE  Follows(t, fs, Append(w, b))
<1> DEFINE v == Append(w, b)
           T == fs \o s.out
           u == Unfinished(w)
           y == [offset |-> s.f.emittedOffset, data |-> x]
           n == Len(w)
<1>1. /\ s \in Steps /\ T \in Seq(Frame) /\ s.out \in Seq(Frame)
      /\ s.f.frame = u /\ s.f.delimiterStart = Delimiter(w)
      /\ u \in Seq(Byte) /\ Len(u) = (n + 1) - Opening(w)
      /\ Delimiter(w) \in Nat /\ Delimiter(w) <= Len(u)
  BY AtIs
<1>2. ~TooLong(v)
  BY AtIs
<1>3. Opens(w, b) /\ b # "x" /\ ~Completes(w, b)
  BY DEF Opens, EndsFrame, EndsLine
<1>4. Unfinished(v) = <<>> /\ Delimiter(v) = 0
  BY <1>3, UnfinishedAppend, DelimiterAppend
<1>5. /\ EndsWith(v, "x") <=> b = "x"
      /\ EndsWith(v, "CR") <=> b = "CR"
      /\ Len(v) \in FrameEndings(v)
  BY LastByte
<1>6. Len(v) = n + 1 /\ n \in Nat /\ Start(v, n + 1) = Opening(w) /\ Opening(w) \in 1 .. n + 1
  BY AppendedIs, StartAppend, OpeningIs
<1>7. FramerAt(t.f, v)
  <2>1. b = "CR" => t.f.endedFrameWireSize = (Len(v) + 1) - Start(v, Len(v))
    <3>1. (Len(v) + 1) - Start(v, Len(v)) = ((n + 1) - Opening(w)) + 1
      BY <1>6
    <3> QED
      BY <1>1, <3>1
  <2> QED
    BY <1>3, <1>4, <1>5, <2>1 DEF FramerAt
<1>8. OffsetsOf(T) /\ s.f.emittedOffset = Len(Sent(T)) /\ SentAll(T, w)
  BY DEF Follows
<1>9. y \in Frame /\ y.offset = s.f.emittedOffset /\ y.data = x
  <2>1. s.f.emittedOffset \in Nat
    BY <1>1, FramerFields
  <2> QED
    BY <2>1 DEF Frame
<1>10. fs \o t.out = Append(T, y)
  <2>1. t.out = Append(s.out, y)
    OBVIOUS
  <2> HIDE DEF y
  <2>2. fs \o Append(s.out, y) = Append(fs \o s.out, y)
    BY <1>1, <1>9, JoinAppend
  <2> QED
    BY <2>1, <2>2
<1> HIDE DEF T, y, v
<1>11. OffsetsOf(Append(T, y)) /\ Sent(Append(T, y)) = Sent(T) \o x
  BY <1>1, <1>8, <1>9, SentAppend
<1>12. t.f.emittedOffset = Len(Sent(Append(T, y)))
  <2> DEFINE d == Sent(T)
  <2>1. d \in Seq(Byte)
    BY <1>1, SentType
  <2>2. t.f.emittedOffset = Len(d) + Len(x)
    BY <1>8
  <2>3. Sent(Append(T, y)) = d \o x
    BY <1>11
  <2> HIDE DEF d
  <2>4. Len(d \o x) = Len(d) + Len(x)
    BY <2>1
  <2> QED
    BY <2>2, <2>3, <2>4
<1>13. SentAll(Append(T, y), v)
  <2>1. CASE mode = "strip"
    <3>1. DataOf(T) = Contents(w) /\ x = SubSeq(u, 1, Delimiter(w))
      BY <1>1, <1>8, <2>1 DEF SentAll, DataWith
    <3>2. Contents(v) = Append(Contents(w), x)
      BY <3>1, ContentsAppend DEF v
    <3>3. DataOf(Append(T, y)) = Append(DataOf(T), x)
      BY <1>1, <1>9, DataAppend
    <3> QED
      BY <2>1, <3>1, <3>2, <3>3 DEF SentAll
  <2>2. CASE mode # "strip"
    <3> DEFINE d == Sent(T)
    <3>1. d \in Seq(Byte)
      BY <1>1, SentType
    <3>2. d \o u = w /\ x = Append(u, b)
      BY <1>1, <1>8, <2>2 DEF SentAll, DataWith
    <3>3. Sent(Append(T, y)) = d \o Append(u, b)
      BY <1>11, <3>2
    <3> HIDE DEF d, u
    <3>4. u \in Seq(Byte)
      BY <1>1
    <3>5. d \o Append(u, b) = Append(d \o u, b)
      BY <3>1, <3>4, JoinByte
    <3>6. Sent(Append(T, y)) = v
      BY <3>2, <3>3, <3>5 DEF v
    <3>7. v \o <<>> = v
      BY AppendedIs DEF v
    <3> QED
      BY <1>4, <2>2, <3>6, <3>7 DEF SentAll
  <2> QED
    BY <2>1, <2>2
<1>14. Sound(t.f)
  BY <1>7 DEF Sound, FramerAt
<1> QED
  BY <1>2, <1>7, <1>10, <1>11, <1>12, <1>13, <1>14 DEF Follows, v

(* One byte more in what was sent.                                         *)
LEMMA WithLFSent ==
  ASSUME NEW s \in Steps, NEW fs \in Seq(Frame), OffsetsOf(fs \o s.out),
         s.f.emittedOffset = Len(Sent(fs \o s.out))
  PROVE  /\ fs \o WithLF(s) \in Seq(Frame) /\ OffsetsOf(fs \o WithLF(s))
         /\ Sent(fs \o WithLF(s)) = Append(Sent(fs \o s.out), "LF")
<1>1. s.out \in Seq(Frame) /\ s.f.emittedOffset \in Nat /\ WithLF(s) \in Seq(Frame)
  BY FramerFields, WithLFType
<1>2. fs \o WithLF(s) \in Seq(Frame)
  BY <1>1
<1>3. CASE s.out = <<>> /\ WithLF(s) = <<[offset |-> s.f.emittedOffset, data |-> <<"LF">>]>>
  <2> DEFINE x == [offset |-> s.f.emittedOffset, data |-> <<"LF">>]
  <2>1. <<"LF">> \in Seq(Byte) /\ "LF" \in Byte
    BY DEF Byte
  <2>2. x \in Frame /\ x.offset = s.f.emittedOffset /\ x.data = <<"LF">>
    BY <1>1, <2>1 DEF Frame
  <2>3. WithLF(s) = <<x>>
    BY <1>3
  <2> HIDE DEF x
  <2>4. fs \o s.out = fs /\ fs \o WithLF(s) = Append(fs, x)
    <3>1. fs \o <<>> = fs /\ fs \o <<x>> = Append(fs, x)
      BY <2>2, JoinAppend
    <3> QED
      BY <1>3, <2>3, <3>1
  <2>5. Sent(Append(fs, x)) = Sent(fs) \o <<"LF">> /\ OffsetsOf(Append(fs, x))
    BY <2>2, <2>4, SentAppend
  <2>6. Sent(fs) \o <<"LF">> = Append(Sent(fs), "LF")
    <3>1. Sent(fs) \in Seq(Byte)
      BY SentType
    <3> QED
      BY <2>1, <3>1
  <2> QED
    BY <1>2, <2>4, <2>5, <2>6
<1>4. ASSUME NEW q \in Seq(Frame), NEW l \in Frame, s.out = Append(q, l),
             WithLF(s) = Append(q, [l EXCEPT !.data = Append(l.data, "LF")])
      PROVE  /\ OffsetsOf(fs \o WithLF(s))
             /\ Sent(fs \o WithLF(s)) = Append(Sent(fs \o s.out), "LF")
  <2> DEFINE x == [l EXCEPT !.data = Append(l.data, "LF")]
             R == fs \o q
  <2>1. l.data \in Seq(Byte) /\ "LF" \in Byte
    BY DEF Frame, Byte
  <2>2. Append(l.data, "LF") \in Seq(Byte)
    BY <2>1
  <2>3. x \in Frame /\ x.offset = l.offset /\ x.data = Append(l.data, "LF")
    BY <2>2 DEF Frame
  <2>4. WithLF(s) = Append(q, x)
    BY <1>4
  <2> HIDE DEF x
  <2>5. fs \o WithLF(s) = Append(R, x) /\ fs \o s.out = Append(R, l) /\ R \in Seq(Frame)
    BY <1>4, <2>3, <2>4, JoinAppend
  <2> HIDE DEF R
  <2>6. Sent(Append(R, l)) = Sent(R) \o l.data /\ Sent(Append(R, x)) = Sent(R) \o x.data
    BY <2>3, <2>5, SentAppend
  <2>7. OffsetsOf(R) /\ l.offset = Len(Sent(R))
    BY <2>5, SentAppend
  <2>8. OffsetsOf(Append(R, x))
    BY <2>3, <2>5, <2>7, SentAppend
  <2>9. Sent(R) \o Append(l.data, "LF") = Append(Sent(R) \o l.data, "LF")
    <3>1. Sent(R) \in Seq(Byte)
      BY <2>5, SentType
    <3> QED
      BY <2>1, <3>1, JoinByte
  <2> QED
    BY <2>3, <2>5, <2>6, <2>8, <2>9
<1> QED
  BY <1>2, <1>3, <1>4, WithLFIs

(* The LF that completes a CR which has ended a frame.                     *)
LEMMA JoinFollows ==
  ASSUME NEW s, NEW fs \in Seq(Frame), NEW w \in Seq(Byte), NEW b \in Byte, limit \in Nat,
         Follows(s, fs, w), s.ok, Completes(w, b), Len(w) \in FrameEndings(w),
         ~(Grown(w, b) > limit),
         NEW t \in Steps, t.ok, t.f.frame = s.f.frame, t.f.delimiterStart = s.f.delimiterStart,
         t.f.lineHasData = s.f.lineHasData, t.f.afterCR = FALSE, t.f.frameEndedAtCR = FALSE,
         mode = "strip" => t.f.emittedOffset = s.f.emittedOffset /\ t.out = s.out,
         mode # "strip" => t.f.emittedOffset = s.f.emittedOffset + 1 /\ t.out = WithLF(s)
  PROVE  Follows(t, fs, Append(w, b))
<1> DEFINE v == Append(w, b)
           T == fs \o s.out
           u == Unfinished(w)
           n == Len(w)
<1>1. /\ s \in Steps /\ T \in Seq(Frame) /\ Sound(s.f)
      /\ s.f.frame = u /\ s.f.delimiterStart = Delimiter(w)
      /\ u \in Seq(Byte) /\ Len(u) = (n + 1) - Opening(w)
      /\ Delimiter(w) \in Nat /\ Delimiter(w) <= Len(u)
  BY AtIs
<1>2. ~TooLong(v)
  BY AtIs
<1>3. Opens(w, b) /\ b = "LF" /\ EndsWith(w, "CR") /\ ~EndsFrame(w, b)
  BY DEF Opens, EndsFrame, EndsLine, Completes
<1>4. Unfinished(v) = <<>> /\ Delimiter(v) = 0
  BY <1>3, UnfinishedAppend, DelimiterAppend
<1>5. /\ EndsWith(v, "x") <=> b = "x"
      /\ EndsWith(v, "CR") <=> b = "CR"
  BY LastByte
<1>6. u = <<>> /\ Delimiter(w) = 0
  <2>1. n \in Nat /\ Opening(w) = n + 1
    BY OpeningIs, AppendedIs
  <2>2. Len(u) = 0
    BY <1>1, <2>1
  <2> HIDE DEF u
  <2> QED
    BY <1>1, <2>2
<1>7. FramerAt(t.f, v)
  <2>1. ~t.f.lineHasData
    <3>1. s.f.lineHasData <=> EndsWith(w, "x")
      BY DEF Follows, FramerAt
    <3> QED
      BY <1>3, <3>1 DEF EndsWith
  <2> QED
    BY <1>1, <1>3, <1>4, <1>5, <1>6, <2>1 DEF FramerAt
<1>8. OffsetsOf(T) /\ s.f.emittedOffset = Len(Sent(T)) /\ SentAll(T, w)
  BY DEF Follows
<1>9. Sound(t.f)
  BY <1>1 DEF Sound
<1>10. CASE mode = "strip"
  <2>1. fs \o t.out = T /\ t.f.emittedOffset = s.f.emittedOffset
    BY <1>10
  <2>2. Contents(v) = Contents(w)
    BY <1>3, ContentsAppend
  <2>3. SentAll(T, v)
    BY <1>8, <1>10, <2>2 DEF SentAll
  <2> QED
    BY <1>2, <1>7, <1>8, <1>9, <2>1, <2>3 DEF Follows
<1>11. CASE mode # "strip"
  <2> DEFINE d == Sent(T)
  <2>1. t.out = WithLF(s) /\ t.f.emittedOffset = Len(d) + 1
    BY <1>8, <1>11
  <2>2. OffsetsOf(fs \o t.out) /\ Sent(fs \o t.out) = Append(d, "LF")
    BY <1>1, <1>8, <2>1, WithLFSent
  <2>3. d \in Seq(Byte)
    BY <1>1, SentType
  <2>4. d \o u = w
    BY <1>8, <1>11 DEF SentAll
  <2> HIDE DEF d
  <2>5. d = w
    BY <1>6, <2>3, <2>4
  <2>6. Sent(fs \o t.out) = v
    BY <1>3, <2>2, <2>5
  <2>7. v \o <<>> = v /\ Len(v) = Len(d) + 1
    BY <2>5, AppendedIs
  <2>8. SentAll(fs \o t.out, v)
    BY <1>4, <1>11, <2>6, <2>7 DEF SentAll
  <2> QED
    BY <1>2, <1>7, <1>9, <2>1, <2>2, <2>6, <2>7, <2>8 DEF Follows
<1> QED
  BY <1>10, <1>11

(* A framer that is cleared and cannot take the byte.                      *)
LEMMA ClearedFails ==
  ASSUME NEW s \in Steps, NEW b \in Byte, limit \in Nat, Sound(s.f), Len(s.f.frame) >= limit
  PROVE  /\ FailsAt(s, AppendByte(s, b))
         /\ FailsAt(s, AppendByte(Cleared(s), b)) /\ FailsAt(s, LineEnds(Cleared(s), b))
<1> DEFINE u == Cleared(s)
<1>1. /\ u \in Steps /\ u.out = s.out /\ u.f.frame = s.f.frame
      /\ u.f.delimiterStart = s.f.delimiterStart /\ u.f.frameEndedAtCR = FALSE
  BY ClearedIs
<1>2. /\ AppendByte(s, b) \in Steps /\ AppendByte(s, b).out = s.out
      /\ AppendByte(s, b).ok = FALSE /\ AppendByte(s, b).f = s.f
  BY AppendByteIs
<1> HIDE DEF u
<1>3. /\ AppendByte(u, b) \in Steps /\ AppendByte(u, b).out = u.out
      /\ AppendByte(u, b).ok = FALSE /\ AppendByte(u, b).f = u.f
  BY <1>1, AppendByteIs
<1>4. Sound(u.f)
  BY <1>1 DEF Sound
<1>5. LineEnds(u, b) = AppendByte(u, b)
  BY <1>3 DEF LineEnds
<1> QED
  BY <1>1, <1>2, <1>3, <1>4, <1>5 DEF FailsAt, u

(* The cases of the loop.                                                  *)
LEMMA NextByteIs ==
  ASSUME NEW s \in Steps, NEW b \in Byte, s.ok
  PROVE  /\ JoinsFrame(s, b) => NextByte(s, b) = AfterFrame(s)
         /\ JoinsLine(s, b) =>
              NextByte(s, b) = IF AppendByte(s, b).ok
                               THEN [AppendByte(s, b) EXCEPT !.f.afterCR = FALSE]
                               ELSE AppendByte(s, b)
         /\ ~JoinsFrame(s, b) /\ ~JoinsLine(s, b) /\ b = "x" =>
              NextByte(s, b) = IF AppendByte(Cleared(s), b).ok
                               THEN [AppendByte(Cleared(s), b) EXCEPT !.f.lineHasData = TRUE]
                               ELSE AppendByte(Cleared(s), b)
         /\ ~JoinsFrame(s, b) /\ ~JoinsLine(s, b) /\ b # "x" =>
              NextByte(s, b) = LineEnds(Cleared(s), b)
<1>1. s.f.afterCR \in BOOLEAN /\ s.f.frameEndedAtCR \in BOOLEAN
  BY FramerFields
<1>2. CASE JoinsFrame(s, b)
  BY <1>1, <1>2 DEF NextByte, JoinsFrame, JoinsLine
<1>3. CASE JoinsLine(s, b)
  BY <1>1, <1>3 DEF NextByte, JoinsFrame, JoinsLine
<1>4. CASE ~JoinsFrame(s, b) /\ ~JoinsLine(s, b)
  <2>1. ~(s.f.afterCR /\ b = "LF")
    BY <1>1, <1>4 DEF JoinsFrame, JoinsLine
  <2>2. CASE b = "x"
    BY <1>4, <2>1, <2>2 DEF NextByte, Cleared
  <2>3. CASE b # "x"
    BY <1>4, <2>1, <2>3 DEF NextByte, Cleared
  <2> QED
    BY <1>4, <2>2, <2>3
<1> QED
  BY <1>2, <1>3, <1>4

(* Reading one more byte.                                                  *)
LEMMA ByteFollows ==
  ASSUME NEW s, NEW fs \in Seq(Frame), NEW w \in Seq(Byte), NEW b \in Byte, limit \in Nat,
         Follows(s, fs, w)
  PROVE  Follows(NextByte(s, b), fs, Append(w, b))
<1> DEFINE v == Append(w, b)
           t == NextByte(s, b)
           n == Len(w)
<1>1. CASE ~s.ok
  <2>1. t = s
    BY <1>1 DEF NextByte
  <2>2. s \in Steps /\ Sound(s.f) /\ OffsetsOf(fs \o s.out) /\ TooLong(w) /\ SentPart(fs \o s.out, w)
    BY <1>1 DEF Follows
  <2>3. fs \o s.out \in Seq(Frame)
    BY <2>2, FramerFields
  <2>4. TooLong(v) /\ SentPart(fs \o s.out, v)
    BY <2>2, <2>3, TooLongAppend, SentPartAppend
  <2> QED
    BY <1>1, <2>1, <2>2, <2>4 DEF Follows
<1>2. CASE s.ok
  <2> DEFINE u == Unfinished(w)
             g == Grown(w, b)
  <2>1. /\ s \in Steps /\ s.out \in Seq(Frame) /\ Sound(s.f)
        /\ s.f.frame = u /\ s.f.delimiterStart = Delimiter(w)
        /\ u \in Seq(Byte) /\ Len(u) = (n + 1) - Opening(w)
        /\ Delimiter(w) \in Nat /\ Delimiter(w) <= Len(u)
        /\ JoinsFrame(s, b) <=> Completes(w, b) /\ n \in FrameEndings(w)
        /\ JoinsLine(s, b) <=> Completes(w, b) /\ n \notin FrameEndings(w)
    BY <1>2, AtIs
  <2>2. FramerAt(s.f, w)
    BY <1>2 DEF Follows
  <2>3. n \in Nat /\ Opening(w) \in 1 .. n + 1
    BY OpeningIs, AppendedIs
  <2>4. CASE JoinsFrame(s, b)
    <3>1. t = AfterFrame(s)
      BY <1>2, <2>1, <2>4, NextByteIs
    <3>2. g = (n + 2) - Start(w, n)
      BY <2>1, <2>4 DEF Grown
    <3>3. s.f.endedFrameWireSize = (n + 1) - Start(w, n) /\ n \in 1 .. n
      <4>1. s.f.frameEndedAtCR
        BY <2>4 DEF JoinsFrame
      <4>2. FrameEndings(w) \subseteq 1 .. n
        BY EndingsAre
      <4> QED
        BY <2>1, <2>2, <2>4, <4>1, <4>2 DEF FramerAt
    <3>4. Start(w, n) \in Nat
      BY <3>3, StartType
    <3>5. s.f.endedFrameWireSize >= limit <=> g > limit
      BY <2>3, <3>2, <3>3, <3>4
    <3>6. CASE s.f.endedFrameWireSize >= limit
      <4>1. FailsAt(s, t)
        BY <1>2, <2>1, <3>1, <3>6, AfterFrameIs
      <4> QED
        BY <1>2, <3>5, <3>6, <4>1, FailFollows
    <3>7. CASE ~(s.f.endedFrameWireSize >= limit)
      <4> HIDE DEF t
      <4>1. /\ t \in Steps /\ t.ok = TRUE /\ t.f.frame = s.f.frame
            /\ t.f.delimiterStart = s.f.delimiterStart
            /\ t.f.lineHasData = s.f.lineHasData
            /\ t.f.afterCR = FALSE /\ t.f.frameEndedAtCR = FALSE
            /\ mode = "strip" => t.f.emittedOffset = s.f.emittedOffset /\ t.out = s.out
            /\ mode # "strip" => t.f.emittedOffset = s.f.emittedOffset + 1 /\ t.out = WithLF(s)
        BY <1>2, <2>1, <3>1, <3>7, AfterFrameIs
      <4>2. Completes(w, b) /\ n \in FrameEndings(w) /\ ~(g > limit) /\ t.ok
        BY <2>1, <2>4, <3>5, <3>7, <4>1
      <4>3. Follows(t, fs, v)
        BY <1>2, <4>1, <4>2, JoinFollows
      <4> QED
        BY <4>3 DEF t
    <3> QED
      BY <3>6, <3>7
  <2>5. CASE ~JoinsFrame(s, b) /\ Len(s.f.frame) >= limit
    <3>1. g > limit
      <4>1. g = (n + 2) - Opening(w)
        BY <2>1, <2>5 DEF Grown
      <4> QED
        BY <2>1, <2>3, <2>5, <4>1
    <3>2. /\ FailsAt(s, AppendByte(s, b))
          /\ FailsAt(s, AppendByte(Cleared(s), b)) /\ FailsAt(s, LineEnds(Cleared(s), b))
      BY <2>1, <2>5, ClearedFails
    <3>3. AppendByte(s, b).ok = FALSE /\ AppendByte(Cleared(s), b).ok = FALSE
      BY <3>2 DEF FailsAt
    <3>4. FailsAt(s, t)
      <4>1. CASE JoinsLine(s, b)
        BY <1>2, <2>1, <3>2, <3>3, <4>1, NextByteIs
      <4>2. CASE ~JoinsLine(s, b) /\ b = "x"
        BY <1>2, <2>1, <2>5, <3>2, <3>3, <4>2, NextByteIs
      <4>3. CASE ~JoinsLine(s, b) /\ b # "x"
        BY <1>2, <2>1, <2>5, <3>2, <3>3, <4>3, NextByteIs
      <4> QED
        BY <4>1, <4>2, <4>3
    <3> QED
      BY <1>2, <3>1, <3>4, FailFollows
  <2>6. CASE ~JoinsFrame(s, b) /\ ~(Len(s.f.frame) >= limit)
    <3>1. ~(g > limit)
      <4>1. g = (n + 2) - Opening(w)
        BY <2>1, <2>6 DEF Grown
      <4> QED
        BY <2>1, <2>3, <2>6, <4>1
    <3> DEFINE k == Cleared(s)
               a == AppendByte(k, b)
    <3>2. /\ k \in Steps /\ k.ok = s.ok /\ k.out = s.out
          /\ k.f.frame = s.f.frame /\ k.f.delimiterStart = s.f.delimiterStart
          /\ k.f.lineHasData = s.f.lineHasData
          /\ k.f.emittedOffset = s.f.emittedOffset
          /\ k.f.afterCR = FALSE /\ k.f.frameEndedAtCR = FALSE
      BY <2>1, ClearedIs
    <3> HIDE DEF k, g
    <3>3. ~Opens(w, b) \/ EndsFrame(w, b)
      BY <2>1, <2>6 DEF Opens
    <3>4. CASE JoinsLine(s, b)
      <4> DEFINE c == AppendByte(s, b)
      <4>1. /\ c \in Steps /\ c.out = s.out /\ c.ok = s.ok
            /\ c.f.frame = Append(s.f.frame, b)
            /\ c.f.delimiterStart = s.f.delimiterStart
            /\ c.f.lineHasData = s.f.lineHasData
            /\ c.f.frameEndedAtCR = s.f.frameEndedAtCR
            /\ c.f.emittedOffset = s.f.emittedOffset
        BY <2>1, <2>6, AppendByteIs
      <4>2. t = [c EXCEPT !.f.afterCR = FALSE]
        BY <1>2, <2>1, <3>4, <4>1, NextByteIs
      <4> HIDE DEF c, t
      <4>3. /\ t \in Steps /\ t.out = c.out /\ t.ok = c.ok /\ t.f.frame = c.f.frame
            /\ t.f.delimiterStart = c.f.delimiterStart /\ t.f.lineHasData = c.f.lineHasData
            /\ t.f.frameEndedAtCR = c.f.frameEndedAtCR /\ t.f.afterCR = FALSE
            /\ t.f.emittedOffset = c.f.emittedOffset
        BY <4>1, <4>2 DEF Steps, Framer
      <4>4. /\ b = "LF" /\ EndsWith(w, "CR") /\ ~EndsLine(w, b) /\ ~EndsFrame(w, b)
            /\ ~s.f.frameEndedAtCR
        BY <2>1, <3>4 DEF Completes, EndsLine, EndsFrame, JoinsLine
      <4>5. ~s.f.lineHasData
        <5>1. s.f.lineHasData <=> EndsWith(w, "x")
          BY <2>2 DEF FramerAt
        <5> QED
          BY <4>4, <5>1 DEF EndsWith
      <4>6. s.f.frameEndedAtCR = FALSE /\ s.f.lineHasData = FALSE
        BY <2>1, <4>4, <4>5, FramerFields
      <4>7. /\ t.ok /\ t.out = s.out /\ t.f.emittedOffset = s.f.emittedOffset
            /\ t.f.frame = Append(s.f.frame, b) /\ t.f.frameEndedAtCR = FALSE
            /\ t.f.delimiterStart = (IF EndsLine(w, b) THEN Len(s.f.frame) ELSE s.f.delimiterStart)
            /\ t.f.lineHasData <=> b = "x"
            /\ t.f.afterCR <=> b = "CR"
        BY <1>2, <4>1, <4>3, <4>4, <4>6
      <4>8. ~Opens(w, b) /\ ~(Grown(w, b) > limit)
        BY <3>1, <3>3, <4>4 DEF g
      <4>9. Follows(t, fs, v)
        BY <1>2, <4>3, <4>7, <4>8, GrowFollows
      <4> QED
        BY <4>9 DEF t
    <3>5. CASE ~JoinsLine(s, b) /\ b = "x"
      <4>1. /\ a \in Steps /\ a.out = k.out /\ a.ok = k.ok
            /\ a.f.frame = Append(k.f.frame, b)
            /\ a.f.delimiterStart = k.f.delimiterStart
            /\ a.f.afterCR = k.f.afterCR
            /\ a.f.frameEndedAtCR = k.f.frameEndedAtCR
            /\ a.f.emittedOffset = k.f.emittedOffset
        <5>1. ~(Len(k.f.frame) >= limit)
          BY <2>6, <3>2
        <5> QED
          BY <3>2, <5>1, AppendByteIs
      <4>2. t = [a EXCEPT !.f.lineHasData = TRUE]
        BY <1>2, <2>1, <2>6, <3>2, <3>5, <4>1, NextByteIs DEF k
      <4> HIDE DEF a, t
      <4>3. /\ t \in Steps /\ t.out = a.out /\ t.ok = a.ok /\ t.f.frame = a.f.frame
            /\ t.f.delimiterStart = a.f.delimiterStart /\ t.f.lineHasData = TRUE
            /\ t.f.frameEndedAtCR = a.f.frameEndedAtCR /\ t.f.afterCR = a.f.afterCR
            /\ t.f.emittedOffset = a.f.emittedOffset
        BY <4>1, <4>2 DEF Steps, Framer
      <4>4. ~EndsLine(w, b) /\ ~EndsFrame(w, b)
        BY <3>5 DEF EndsLine, EndsFrame
      <4>5. /\ t.ok /\ t.out = s.out /\ t.f.emittedOffset = s.f.emittedOffset
            /\ t.f.frame = Append(s.f.frame, b) /\ t.f.frameEndedAtCR = FALSE
            /\ t.f.delimiterStart = (IF EndsLine(w, b) THEN Len(s.f.frame) ELSE s.f.delimiterStart)
            /\ t.f.lineHasData <=> b = "x"
            /\ t.f.afterCR <=> b = "CR"
        BY <1>2, <3>2, <3>5, <4>1, <4>3, <4>4
      <4>6. ~Opens(w, b) /\ ~(Grown(w, b) > limit)
        BY <3>1, <3>3, <4>4 DEF g
      <4>7. Follows(t, fs, v)
        BY <1>2, <4>3, <4>5, <4>6, GrowFollows
      <4> QED
        BY <4>7 DEF t
    <3>6. CASE ~JoinsLine(s, b) /\ b # "x"
      <4>1. t = LineEnds(k, b)
        BY <1>2, <2>1, <2>6, <3>6, NextByteIs DEF k
      <4>2. b \in {"CR", "LF"} /\ k.ok /\ ~(Len(k.f.frame) >= limit)
        BY <1>2, <2>6, <3>2, <3>6 DEF Byte
      <4>3. EndsLine(w, b)
        BY <2>1, <2>6, <3>6 DEF EndsLine
      <4>4. s.f.lineHasData <=> EndsWith(w, "x")
        BY <2>2 DEF FramerAt
      <4> HIDE DEF t
      <4>5. CASE s.f.lineHasData
        <5>1. /\ t \in Steps /\ t.ok = TRUE /\ t.out = k.out
              /\ t.f.frame = Append(k.f.frame, b)
              /\ t.f.delimiterStart = Len(k.f.frame)
              /\ t.f.lineHasData = FALSE
              /\ t.f.afterCR = (b = "CR") /\ t.f.frameEndedAtCR = FALSE
              /\ t.f.emittedOffset = k.f.emittedOffset
          BY <3>2, <4>1, <4>2, <4>5, LineEndsLine
        <5>2. ~EndsFrame(w, b)
          BY <4>4, <4>5 DEF EndsFrame
        <5>3. /\ t.ok /\ t.out = s.out /\ t.f.emittedOffset = s.f.emittedOffset
              /\ t.f.frame = Append(s.f.frame, b) /\ t.f.frameEndedAtCR = FALSE
              /\ t.f.delimiterStart = (IF EndsLine(w, b) THEN Len(s.f.frame) ELSE s.f.delimiterStart)
              /\ t.f.lineHasData <=> b = "x"
              /\ t.f.afterCR <=> b = "CR"
          BY <3>2, <3>6, <4>3, <5>1
        <5>4. ~Opens(w, b) /\ ~(Grown(w, b) > limit)
          BY <3>1, <3>3, <5>2 DEF g
        <5>5. Follows(t, fs, v)
          BY <1>2, <5>1, <5>3, <5>4, GrowFollows
        <5> QED
          BY <5>5 DEF t
      <4>6. CASE ~s.f.lineHasData
        <5> DEFINE x == DataWith(s, b)
        <5>1. x = DataWith(k, b)
          BY <3>2 DEF DataWith
        <5>2. Sound(k.f)
          BY <2>1, <3>2 DEF Sound
        <5>3. x = DataWith(s, b)
          OBVIOUS
        <5> HIDE DEF x
        <5>4. Ended(k, b, x, t)
          <6>1. ~k.f.lineHasData /\ k.f.frameEndedAtCR = FALSE /\ k \in Steps
            BY <3>2, <4>6
          <6>2. Ended(k, b, x, LineEnds(k, b))
            BY <4>2, <5>1, <5>2, <6>1, LineEndsFrame, Zenon
          <6> QED
            BY <4>1, <6>2
        <5>5. t \in Steps /\ x \in Seq(Byte) /\ t.f.frame = <<>> /\ t.f.delimiterStart = 0
              /\ t.f.lineHasData = FALSE
          BY <5>4 DEF Ended
        <5>6. /\ t.ok /\ t.out = Append(s.out, [offset |-> s.f.emittedOffset, data |-> x])
              /\ t.f.emittedOffset = s.f.emittedOffset + Len(x)
              /\ t.f.afterCR <=> b = "CR"
              /\ t.f.frameEndedAtCR <=> b = "CR"
              /\ b = "CR" => t.f.endedFrameWireSize = Len(s.f.frame) + 1
          BY <3>2, <5>4 DEF Ended
        <5>7. EndsFrame(w, b) /\ ~(Grown(w, b) > limit)
          BY <3>1, <4>3, <4>4, <4>6 DEF g, EndsFrame
        <5>8. Follows(t, fs, v)
          BY <1>2, <5>3, <5>5, <5>6, <5>7, EndFollows
        <5> QED
          BY <5>8 DEF t
      <4> QED
        BY <4>5, <4>6
    <3> QED
      BY <3>4, <3>5, <3>6
  <2> QED
    BY <2>4, <2>5, <2>6
<1> QED
  BY <1>1, <1>2

-----------------------------------------------------------------------------
(* append: the loop over a chunk.                                          *)

FirstStep == Step(framer, <<>>, TRUE)

AppendedOf(chunk, g, m) ==
  g = [k \in 0 .. m |-> IF k = 0 THEN FirstStep ELSE NextByte(g[k - 1], chunk[k])]

(* What append has after each byte is defined: by induction.               *)
LEMMA AppendedExists ==
  ASSUME NEW chunk
  PROVE  \A m \in Nat : \E g : AppendedOf(chunk, g, m)
<1> DEFINE T == {m \in Nat : \E g : AppendedOf(chunk, g, m)}
<1>1. 0 \in T
  <2> DEFINE g == [k \in 0 .. 0 |-> FirstStep]
  <2>1. \A k \in 0 .. 0 : k = 0
    OBVIOUS
  <2>2. AppendedOf(chunk, g, 0)
    BY <2>1 DEF AppendedOf
  <2> QED
    BY <2>2
<1>2. ASSUME NEW m \in T PROVE m + 1 \in T
  <2>1. PICK g : AppendedOf(chunk, g, m)
    OBVIOUS
  <2> DEFINE h == [k \in 0 .. m + 1 |-> IF k = m + 1 THEN NextByte(g[m], chunk[k]) ELSE g[k]]
  <2>2. AppendedOf(chunk, h, m + 1)
    <3>1. ASSUME NEW k \in 0 .. m + 1
          PROVE  h[k] = IF k = 0 THEN FirstStep ELSE NextByte(h[k - 1], chunk[k])
      <4>1. CASE k = m + 1
        BY <4>1
      <4>2. CASE k # m + 1
        BY <2>1, <4>2 DEF AppendedOf
      <4> QED
        BY <4>1, <4>2
    <3> QED
      BY <3>1 DEF AppendedOf
  <2> QED
    BY <2>2
<1> HIDE DEF T
<1>3. T = Nat
  BY <1>1, <1>2, Induction DEF T
<1> QED
  BY <1>3 DEF T

(* The beginning of a chunk with the next byte.                            *)
LEMMA NextPart ==
  ASSUME NEW w \in Seq(Byte), NEW chunk \in Seq(Byte), NEW m \in Nat, m + 1 <= Len(chunk)
  PROVE  /\ chunk[m + 1] \in Byte /\ w \o SubSeq(chunk, 1, m) \in Seq(Byte)
         /\ w \o SubSeq(chunk, 1, m + 1) = Append(w \o SubSeq(chunk, 1, m), chunk[m + 1])
<1> DEFINE a == SubSeq(chunk, 1, m)
           b == chunk[m + 1]
<1>1. Len(chunk) \in Nat /\ m + 1 \in 1 .. Len(chunk)
  OBVIOUS
<1>2. b \in Byte /\ a \in Seq(Byte)
  BY <1>1
<1>3. SubSeq(chunk, 1, m + 1) = Append(a, b)
  BY <1>1
<1> HIDE DEF a, b
<1>4. w \o Append(a, b) = Append(w \o a, b) /\ w \o a \in Seq(Byte)
  BY <1>2
<1> QED
  BY <1>2, <1>3, <1>4 DEF a, b

(* Reading a chunk, byte by byte.                                          *)
LEMMA ChunkFollows ==
  ASSUME wire \in Seq(Byte), frames \in Seq(Frame), limit \in Nat, NEW chunk \in Seq(Byte),
         Follows(FirstStep, frames, wire)
  PROVE  Follows(Appended(chunk), frames, wire \o chunk)
<1> DEFINE g == CHOOSE h : AppendedOf(chunk, h, Len(chunk))
<1>1. Len(chunk) \in Nat
  OBVIOUS
<1>2. \E h : AppendedOf(chunk, h, Len(chunk))
  BY <1>1, AppendedExists
<1>3. AppendedOf(chunk, g, Len(chunk))
  BY <1>2
<1>4. Appended(chunk) = g[Len(chunk)]
  BY DEF Appended, AppendedOf, FirstStep
<1> HIDE DEF g
<1>5. g = [k \in 0 .. Len(chunk) |-> IF k = 0 THEN FirstStep
                                     ELSE NextByte(g[k - 1], chunk[k])]
  BY <1>3 DEF AppendedOf
<1>6. g[0] = FirstStep
      /\ \A k \in 1 .. Len(chunk) : g[k] = NextByte(g[k - 1], chunk[k])
  BY <1>1, <1>5
<1> DEFINE T == {m \in Nat : m <= Len(chunk) => Follows(g[m], frames, wire \o SubSeq(chunk, 1, m))}
<1>7. 0 \in T
  <2>1. SubSeq(chunk, 1, 0) = <<>> /\ wire \o <<>> = wire
    OBVIOUS
  <2> QED
    BY <1>6, <2>1
<1>8. ASSUME NEW m \in T PROVE m + 1 \in T
  <2> SUFFICES ASSUME m + 1 <= Len(chunk)
               PROVE  Follows(g[m + 1], frames, wire \o SubSeq(chunk, 1, m + 1))
    OBVIOUS
  <2> DEFINE w == wire \o SubSeq(chunk, 1, m)
             b == chunk[m + 1]
  <2>1. m \in Nat /\ m <= Len(chunk) /\ m + 1 \in 1 .. Len(chunk) /\ (m + 1) - 1 = m
    BY <1>1
  <2>2. Follows(g[m], frames, w)
    BY <2>1
  <2>3. b \in Byte /\ w \in Seq(Byte) /\ wire \o SubSeq(chunk, 1, m + 1) = Append(w, b)
    BY <2>1, NextPart
  <2>4. g[m + 1] = NextByte(g[m], b)
    BY <1>6, <2>1
  <2> HIDE DEF w, b, T
  <2>5. Follows(NextByte(g[m], b), frames, Append(w, b))
    BY <2>2, <2>3, ByteFollows
  <2> QED
    BY <2>3, <2>4, <2>5
<1> HIDE DEF T
<1>9. T \in SUBSET Nat
  BY DEF T
<1>10. T = Nat
  BY <1>7, <1>8, <1>9, Induction
<1>11. Follows(g[Len(chunk)], frames, wire \o SubSeq(chunk, 1, Len(chunk)))
  BY <1>1, <1>10 DEF T
<1>12. SubSeq(chunk, 1, Len(chunk)) = chunk
  OBVIOUS
<1> QED
  BY <1>4, <1>11, <1>12

-----------------------------------------------------------------------------
(* The inductive invariant: what was sent, and the framer as long as it    *)
(* reads, against all bytes of the stream.                                 *)
IInv ==
  /\ mode \in Modes /\ limit \in Limits /\ state \in {"reading", "failed", "finished"}
  /\ wire \in Seq(Byte) /\ framer \in Framer /\ frames \in Seq(Frame)
  /\ Sound(framer) /\ OffsetsOf(frames)
  /\ state = "reading" => /\ framer.emittedOffset = Len(Sent(frames))
                          /\ FramerAt(framer, wire) /\ ~TooLong(wire) /\ SentAll(frames, wire)
  /\ state = "failed" => TooLong(wire) /\ SentPart(frames, wire)
  /\ state = "finished" => /\ framer.frame = <<>> /\ ~TooLong(wire)
                           /\ IF mode = "strip" THEN DataOf(frames) = Contents(wire)
                              ELSE Sent(frames) = wire

(* The limit is a number.                                                  *)
LEMMA LimitType == ASSUME limit \in Limits PROVE limit \in Nat
BY SizesAssumption

(* Nothing was read, and nothing was sent.                                 *)
LEMMA EmptyStream ==
  /\ Unfinished(<<>>) = <<>> /\ Delimiter(<<>>) = 0 /\ FrameEndings(<<>>) = {}
  /\ Contents(<<>>) = <<>> /\ Opening(<<>>) = 1 /\ WireSizes(<<>>) = {0}
<1>1. LineEndings(<<>>) = {}
  BY DEF LineEndings
<1>2. FrameEndings(<<>>) = {}
  BY <1>1 DEF FrameEndings
<1>3. <<>> \in Seq(Byte) /\ Len(<<>>) = 0
  OBVIOUS
<1>4. Opening(<<>>) = 1
  BY <1>2, <1>3, OpeningIs
<1>5. Unfinished(<<>>) = <<>>
  BY <1>3, <1>4 DEF Unfinished
<1>6. OpenLines(<<>>) = {}
  BY <1>1 DEF OpenLines
<1>7. Delimiter(<<>>) = 0
  BY <1>6 DEF Delimiter
<1>8. Contents(<<>>) = <<>>
  <2> DEFINE a == [p \in DOMAIN <<>> |->
                     IF p \in FrameEndings(<<>>) THEN <<Content(<<>>, p)>> ELSE <<>>]
  <2>1. a = <<>>
    OBVIOUS
  <2>2. Contents(<<>>) = FlattenSeq(a)
    BY DEF Contents
  <2>3. FlattenSeq(<<>>) = <<>>
    BY DEF FlattenSeq
  <2> QED
    BY <2>1, <2>2, <2>3
<1>9. WireSizes(<<>>) = {0}
  <2>1. Start(<<>>, Len(<<>>) + 1) = 1
    BY <1>4 DEF Opening
  <2>2. Len(<<>>) + 1 - Start(<<>>, Len(<<>>) + 1) = 0
    BY <1>3, <2>1
  <2> QED
    BY <1>2, <2>2 DEF WireSizes
<1> QED
  BY <1>2, <1>4, <1>5, <1>7, <1>8, <1>9

(* The invariant holds before the first chunk.                             *)
LEMMA InitIInv == Init => IInv
<1> SUFFICES ASSUME Init PROVE IInv
  OBVIOUS
<1>1. /\ mode \in Modes /\ limit \in Limits /\ framer = Fresh
      /\ frames = <<>> /\ state = "reading" /\ wire = <<>>
  BY DEF Init
<1>2. wire \in Seq(Byte) /\ frames \in Seq(Frame) /\ framer \in Framer
  BY <1>1 DEF Fresh, Framer
<1>3. limit \in Nat
  BY <1>1, LimitType
<1>4. DataOf(frames) = <<>> /\ Sent(frames) = <<>> /\ OffsetsOf(frames)
  <2>1. DataOf(<<>>) = <<>>
    BY DEF DataOf
  <2>2. Sent(<<>>) = <<>>
    BY <2>1 DEF Sent, FlattenSeq
  <2>3. OffsetsOf(<<>>)
    BY DEF OffsetsOf
  <2> QED
    BY <1>1, <2>1, <2>2, <2>3
<1>5. Sound(framer)
  BY <1>1, <1>3 DEF Sound, Fresh
<1>6. FramerAt(framer, wire)
  BY <1>1, EmptyStream DEF FramerAt, Fresh, EndsWith
<1>7. ~TooLong(wire)
  BY <1>1, <1>3, EmptyStream DEF TooLong
<1>8. SentAll(frames, wire)
  BY <1>1, <1>4, EmptyStream DEF SentAll
<1>9. framer.emittedOffset = Len(Sent(frames))
  BY <1>1, <1>4 DEF Fresh
<1> QED
  BY <1>1, <1>2, <1>4, <1>5, <1>6, <1>7, <1>8, <1>9 DEF IInv

(* append begins where the last chunk ended.                               *)
LEMMA FirstFollows ==
  ASSUME IInv, state = "reading"
  PROVE  Follows(FirstStep, frames, wire)
<1>1. /\ framer \in Framer /\ frames \in Seq(Frame) /\ Sound(framer) /\ OffsetsOf(frames)
      /\ framer.emittedOffset = Len(Sent(frames))
      /\ FramerAt(framer, wire) /\ ~TooLong(wire) /\ SentAll(frames, wire)
  BY DEF IInv
<1>2. <<>> \in Seq(Frame) /\ frames \o <<>> = frames
  BY <1>1
<1>3. FirstStep \in Steps /\ FirstStep.f = framer /\ FirstStep.out = <<>> /\ FirstStep.ok = TRUE
  BY <1>1, <1>2 DEF FirstStep, Step, Steps
<1> QED
  BY <1>1, <1>2, <1>3 DEF Follows

(* A chunk.                                                                *)
LEMMA AppendChunkIInv ==
  ASSUME IInv, NEW chunk \in Chunks, AppendChunk(chunk)
  PROVE  IInv'
<1> DEFINE t == Appended(chunk)
           w == wire \o chunk
<1>1. /\ mode \in Modes /\ limit \in Limits /\ wire \in Seq(Byte) /\ frames \in Seq(Frame)
      /\ state = "reading"
  BY DEF IInv, AppendChunk
<1>2. limit \in Nat
  BY <1>1, LimitType
<1>3. chunk \in Seq(Byte)
  <2>1. PICK n \in 1 .. MaxChunk : chunk \in [1 .. n -> Byte]
    BY DEF Chunks
  <2>2. n \in Nat
    BY <2>1, SizesAssumption
  <2> QED
    BY <2>1, <2>2
<1>4. Follows(t, frames, w)
  BY <1>1, <1>2, <1>3, FirstFollows, ChunkFollows
<1>5. /\ framer' = t.f /\ frames' = frames \o t.out /\ wire' = w
      /\ state' = (IF t.ok THEN state ELSE "failed") /\ mode' = mode /\ limit' = limit
  BY DEF AppendChunk
<1>6. w \in Seq(Byte)
  BY <1>1, <1>3
<1> HIDE DEF t, w
<1>7. /\ t \in Steps /\ Sound(t.f) /\ OffsetsOf(frames \o t.out) /\ t.f \in Framer
      /\ t.out \in Seq(Frame) /\ t.ok \in BOOLEAN
  BY <1>4, FramerFields DEF Follows
<1>8. frames \o t.out \in Seq(Frame)
  BY <1>1, <1>7
<1>9. wire' \in Seq(Byte) /\ framer' \in Framer /\ frames' \in Seq(Frame)
  BY <1>5, <1>6, <1>7, <1>8
<1>10. Sound(framer)' /\ OffsetsOf(frames)'
  BY <1>5, <1>7 DEF Sound, OffsetsOf
<1>11. CASE t.ok
  <2>1. state' = "reading"
    BY <1>1, <1>5, <1>11
  <2>2. /\ t.f.emittedOffset = Len(Sent(frames \o t.out))
        /\ FramerAt(t.f, w) /\ ~TooLong(w) /\ SentAll(frames \o t.out, w)
    BY <1>4, <1>11 DEF Follows
  <2>3. FramerAt(framer, wire)' /\ (framer.emittedOffset = Len(Sent(frames)))'
    BY <1>5, <2>2
  <2>4. ~TooLong(wire)'
    BY <1>5, <2>2 DEF TooLong
  <2>5. SentAll(frames, wire)'
    BY <1>5, <2>2 DEF SentAll
  <2> QED
    BY <1>1, <1>5, <1>9, <1>10, <2>1, <2>3, <2>4, <2>5 DEF IInv
<1>12. CASE ~t.ok
  <2>1. state' = "failed"
    BY <1>5, <1>12
  <2>2. TooLong(w) /\ SentPart(frames \o t.out, w)
    BY <1>4, <1>12 DEF Follows
  <2>3. TooLong(wire)'
    BY <1>5, <2>2 DEF TooLong
  <2>4. SentPart(frames, wire)'
    BY <1>5, <2>2 DEF SentPart
  <2> QED
    BY <1>1, <1>5, <1>9, <1>10, <2>1, <2>3, <2>4 DEF IInv
<1> QED
  BY <1>7, <1>11, <1>12

(* The end of the body.                                                    *)
LEMMA FinishIInv ==
  ASSUME IInv, Finish
  PROVE  IInv'
<1> DEFINE rest == [framer EXCEPT !.afterCR = FALSE, !.frameEndedAtCR = FALSE,
                                  !.endedFrameWireSize = 0]
           s == Step(rest, <<>>, TRUE)
           last == TakeFrame(s, Len(rest.frame))
           none == [rest EXCEPT !.frame = <<>>, !.delimiterStart = 0]
           u == Unfinished(wire)
<1>1. /\ mode \in Modes /\ limit \in Limits /\ wire \in Seq(Byte) /\ frames \in Seq(Frame)
      /\ state = "reading" /\ framer \in Framer /\ Sound(framer) /\ OffsetsOf(frames)
      /\ framer.emittedOffset = Len(Sent(frames)) /\ framer.frame = u
      /\ ~TooLong(wire) /\ SentAll(frames, wire)
  BY DEF IInv, Finish, FramerAt
<1>2. limit \in Nat
  BY <1>1, LimitType
<1>3. mode' = mode /\ limit' = limit /\ wire' = wire /\ state' = "finished"
  BY DEF Finish
<1>4. /\ rest \in Framer /\ rest.frame = framer.frame /\ rest.frameEndedAtCR = FALSE
      /\ rest.emittedOffset = framer.emittedOffset
  BY <1>1 DEF Framer
<1>5. ~TooLong(wire)'
  BY <1>1, <1>3 DEF TooLong
<1>6. rest.frame = <<>> \/ mode = "strip" => framer' = none /\ frames' = frames
  BY DEF Finish
<1>7. ~(rest.frame = <<>> \/ mode = "strip") => framer' = last.f /\ frames' = frames \o last.out
  BY DEF Finish
<1> HIDE DEF rest
<1>8. CASE rest.frame = <<>> \/ mode = "strip"
  <2>1. framer' = none /\ frames' = frames
    BY <1>6, <1>8
  <2>2. <<>> \in Seq(Byte)
    OBVIOUS
  <2>3. none \in Framer /\ none.frame = <<>> /\ none.delimiterStart = 0 /\ none.frameEndedAtCR = FALSE
    BY <1>4, <2>2 DEF Framer
  <2> HIDE DEF none
  <2>4. Sound(framer)'
    BY <1>2, <1>3, <2>1, <2>3 DEF Sound
  <2>5. OffsetsOf(frames)'
    BY <1>1, <2>1 DEF OffsetsOf
  <2>6. (IF mode = "strip" THEN DataOf(frames) = Contents(wire) ELSE Sent(frames) = wire)'
    <3>1. CASE mode = "strip"
      BY <1>1, <1>3, <2>1, <3>1 DEF SentAll
    <3>2. CASE mode # "strip"
      <4>1. Sent(frames) \o <<>> = wire
        BY <1>1, <1>4, <1>8, <3>2 DEF SentAll
      <4>2. Sent(frames) \in Seq(Byte)
        BY <1>1, SentType
      <4>3. Sent(frames) = wire
        BY <4>1, <4>2, JoinByte DEF Byte
      <4> QED
        BY <1>3, <2>1, <3>2, <4>3
    <3> QED
      BY <3>1, <3>2
  <2> QED
    BY <1>1, <1>3, <1>5, <2>1, <2>3, <2>4, <2>5, <2>6 DEF IInv
<1>9. CASE ~(rest.frame = <<>> \/ mode = "strip")
  <2> DEFINE d == Len(rest.frame)
             x == Data(s, d)
             y == [offset |-> s.f.emittedOffset, data |-> x]
  <2>1. framer' = last.f /\ frames' = frames \o last.out
    BY <1>7, <1>9
  <2>2. s \in Steps /\ s.f = rest /\ s.out = <<>>
    <3>1. <<>> \in Seq(Frame)
      OBVIOUS
    <3> QED
      BY <1>4, <3>1 DEF Step, Steps
  <2> HIDE DEF s
  <2>3. d \in Nat /\ d <= Len(s.f.frame)
    BY <2>2, FramerFields
  <2> HIDE DEF d
  <2>4. /\ last \in Steps /\ x \in Seq(Byte) /\ last.f.frame = <<>> /\ last.f.delimiterStart = 0
        /\ last.f.frameEndedAtCR = s.f.frameEndedAtCR
        /\ last.out = Append(s.out, y)
    BY <2>2, <2>3, TakeFrameIs DEF d
  <2>5. x = u
    BY <1>1, <1>4, <1>9, <2>2 DEF Data
  <2>6. y \in Frame /\ y.offset = framer.emittedOffset /\ y.data = u
    <3>1. s.f.emittedOffset \in Nat
      BY <2>2, FramerFields
    <3> HIDE DEF x
    <3> QED
      BY <1>4, <2>2, <2>4, <2>5, <3>1 DEF Frame
  <2> HIDE DEF last, x, y
  <2>7. frames' = Append(frames, y)
    <3>1. last.out = <<y>>
      BY <2>2, <2>4
    <3>2. frames \o <<y>> = Append(frames, y)
      BY <1>1, <2>6, JoinAppend
    <3> QED
      BY <2>1, <3>1, <3>2
  <2>8. Append(frames, y) \in Seq(Frame)
    BY <1>1, <2>6
  <2>9. OffsetsOf(Append(frames, y)) /\ Sent(Append(frames, y)) = Sent(frames) \o u
    BY <1>1, <2>6, SentAppend
  <2>10. Sent(frames) \o u = wire
    BY <1>1, <1>9 DEF SentAll
  <2>11. (IF mode = "strip" THEN DataOf(frames) = Contents(wire) ELSE Sent(frames) = wire)'
    BY <1>3, <1>9, <2>7, <2>9, <2>10
  <2>12. Sound(framer)'
    <3>1. last.f.frameEndedAtCR = FALSE
      BY <1>4, <2>2, <2>4
    <3> QED
      BY <1>2, <1>3, <2>1, <2>4, <3>1 DEF Sound
  <2>13. OffsetsOf(frames)'
    BY <2>7, <2>9 DEF OffsetsOf
  <2>14. framer' \in Framer /\ frames' \in Seq(Frame) /\ framer'.frame = <<>>
    BY <2>1, <2>4, <2>7, <2>8, FramerFields
  <2> QED
    BY <1>1, <1>3, <1>5, <2>11, <2>12, <2>13, <2>14 DEF IInv
<1> QED
  BY <1>8, <1>9

(* A step that changes nothing.                                            *)
LEMMA StutterIInv ==
  ASSUME IInv, UNCHANGED vars
  PROVE  IInv'
<1>1. /\ mode' = mode /\ limit' = limit /\ framer' = framer /\ frames' = frames
      /\ state' = state /\ wire' = wire
  BY DEF vars
<1>2. /\ Sound(framer)' = Sound(framer) /\ OffsetsOf(frames)' = OffsetsOf(frames)
      /\ TooLong(wire)' = TooLong(wire) /\ FramerAt(framer, wire)' = FramerAt(framer, wire)
      /\ SentAll(frames, wire)' = SentAll(frames, wire)
      /\ SentPart(frames, wire)' = SentPart(frames, wire)
  BY <1>1 DEF Sound, OffsetsOf, TooLong, FramerAt, SentAll, SentPart
<1> QED
  BY <1>1, <1>2 DEF IInv

(* The framer's fields and what was sent are, at the end of every chunk,   *)
(* what the bytes of the stream so far make them, wherever chunks end.     *)
THEOREM FramerInvariant == Spec => []IInv
<1>1. IInv /\ [Next]_vars => IInv'
  BY AppendChunkIInv, FinishIInv, StutterIInv DEF Next
<1> QED
  BY <1>1, InitIInv, PTL DEF Spec

(* The framer is well-formed, a stream fails if and only if a frame with   *)
(* its delimiter is longer than maximumFrameSize, and the offset of each   *)
(* frame is the number of bytes that were sent before it.                  *)
THEOREM FramerCorrect == Spec => []FramerInv
<1>1. ASSUME IInv PROVE FramerInv
  <2>1. TypeOK
    <3>1. /\ mode \in Modes /\ limit \in Limits /\ state \in {"reading", "failed", "finished"}
          /\ framer \in Framer /\ Sound(framer)
      BY <1>1 DEF IInv
    <3>2. framer.frame \in Seq(Byte) /\ framer.delimiterStart \in Nat
      BY <3>1 DEF Framer
    <3>3. framer.delimiterStart \in 0 .. Len(framer.frame)
      BY <3>1, <3>2 DEF Sound
    <3> QED
      BY <3>1, <3>2, <3>3 DEF TypeOK, Sound
  <2>2. LimitIsExact
    <3>1. state = "failed" <=> TooLong(wire)
      BY <1>1 DEF IInv
    <3> QED
      BY <3>1 DEF LimitIsExact, TooLong
  <2>3. OffsetsContinue
    BY <1>1 DEF IInv, OffsetsOf, OffsetsContinue, DataOf, Datas
  <2> QED
    BY <2>1, <2>2, <2>3 DEF FramerInv
<1> QED
  BY <1>1, FramerInvariant, PTL

(* A sequence is a prefix of each longer one.                              *)
LEMMA PrefixIs ==
  ASSUME NEW X, NEW a \in Seq(X), NEW r \in Seq(X)
  PROVE  IsPrefix(a, a \o r)
<1> DEFINE z == a \o r
<1>1. /\ z \in Seq(X) /\ Len(a) \in Nat /\ Len(r) \in Nat /\ Len(z) = Len(a) + Len(r)
      /\ \A p \in 1 .. Len(a) : z[p] = a[p]
  OBVIOUS
<1> HIDE DEF z
<1>2. /\ SubSeq(a, 1, Len(a)) = [p \in 1 .. (1 + Len(a)) - 1 |-> a[1 + p - 1]]
      /\ SubSeq(z, 1, Len(a)) = [p \in 1 .. (1 + Len(a)) - 1 |-> z[1 + p - 1]]
  BY <1>1
<1>3. \A p \in 1 .. (1 + Len(a)) - 1 : 1 + p - 1 \in 1 .. Len(a)
  BY <1>1
<1>4. SubSeq(a, 1, Len(a)) = SubSeq(z, 1, Len(a)) /\ Len(a) <= Len(z)
  BY <1>1, <1>2, <1>3
<1> QED
  BY <1>4 DEF IsPrefix, z

(* Where what was sent ends, an unfinished frame begins.                   *)
LEMMA SentUpTo ==
  ASSUME NEW w \in Seq(Byte), NEW e \in Seq(Byte), e \o Unfinished(w) = w
  PROVE  Len(e) + 1 = Opening(w)
<1> DEFINE u == Unfinished(w)
           n == Len(w)
           k == Opening(w)
           m == Len(u)
           a == Len(e)
<1>1. n \in Nat /\ k \in 1 .. n + 1
  BY OpeningIs
<1>2. u \in Seq(Byte) /\ m = n + 1 - k
  BY UnfinishedAppend DEF Byte
<1>3. e \o u = w
  OBVIOUS
<1> HIDE DEF u
<1>4. n = a + m /\ a \in Nat /\ m \in Nat
  BY <1>2, <1>3
<1> HIDE DEF n, k, m, a
<1>5. a + 1 = k
  BY <1>1, <1>2, <1>4
<1> QED
  BY <1>5 DEF a, k

(* The frames that are sent are those of the stream as a whole, wherever   *)
(* its chunks end, none before it is complete; what is passed through      *)
(* loses and doubles no byte, and is cut behind blank lines.               *)
THEOREM FramesAreOfTheStream == Spec => []FramesMatchStream
<1>1. ASSUME IInv PROVE FramesMatchStream
  <2> DEFINE d == DataOf(frames)
             e == Sent(frames)
             u == Unfinished(wire)
  <2>1. /\ wire \in Seq(Byte) /\ frames \in Seq(Frame) /\ framer \in Framer
        /\ state \in {"reading", "failed", "finished"}
    BY <1>1 DEF IInv
  <2>2. d \in Seq(Seq(Byte)) /\ e \in Seq(Byte) /\ Contents(wire) \in Seq(Seq(Byte))
    BY <2>1, SentType, ContentsType
  <2>3. Datas = d /\ FlattenSeq(Datas) = e
    BY DEF Datas, DataOf, Sent
  <2>4. u \in Seq(Byte)
    BY <2>1, UnfinishedAppend DEF Byte
  <2>5. CASE mode = "strip"
    <3>1. state = "reading" => d = Contents(wire)
      BY <1>1, <2>5 DEF IInv, SentAll
    <3>2. state = "finished" => d = Contents(wire)
      BY <1>1, <2>5 DEF IInv
    <3>3. ASSUME state = "failed" PROVE IsPrefix(d, Contents(wire))
      <4>1. PICK r \in Seq(Seq(Byte)) : d \o r = Contents(wire)
        BY <1>1, <2>5, <3>3 DEF IInv, SentPart
      <4> HIDE DEF d
      <4>2. IsPrefix(d, d \o r)
        BY <2>2, <4>1, PrefixIs
      <4> QED
        BY <4>1, <4>2
    <3> QED
      BY <2>1, <2>3, <2>5, <3>1, <3>2, <3>3 DEF FramesMatchStream
  <2>6. CASE mode # "strip"
    <3>1. ASSUME state = "reading"
          PROVE  e \o u = wire /\ framer.frame = u
      BY <1>1, <2>6, <3>1 DEF IInv, SentAll, FramerAt
    <3>2. ASSUME state = "finished" PROVE e = wire /\ framer.frame = <<>>
      BY <1>1, <2>6, <3>2 DEF IInv
    <3>3. state # "failed" => e \o framer.frame = wire
      <4>1. e \o <<>> = e
        BY <2>2, JoinByte DEF Byte
      <4> QED
        BY <2>1, <3>1, <3>2, <4>1
    <3>4. IsPrefix(e, wire)
      <4>1. PICK r \in Seq(Byte) : e \o r = wire
        <5>1. CASE state = "failed"
          BY <1>1, <2>6, <5>1 DEF IInv, SentPart
        <5>2. CASE state # "failed"
          <6>1. framer.frame \in Seq(Byte)
            BY <2>1 DEF Framer
          <6> QED
            BY <3>3, <5>2, <6>1
        <5> QED
          BY <5>1, <5>2
      <4> HIDE DEF e
      <4>2. IsPrefix(e, e \o r)
        BY <2>2, <4>1, PrefixIs
      <4> QED
        BY <4>1, <4>2
    <3>5. ASSUME state = "reading"
          PROVE  Len(e) + 1 \in {1} \cup UNION {{Behind(wire, p), p + 1} : p \in FrameEndings(wire)}
      <4>1. e \o u = wire
        BY <3>1, <3>5
      <4>2. Len(wire) \in Nat
        BY <2>1, OpeningIs
      <4>3. Len(e) + 1 = Opening(wire)
        BY <2>1, <2>2, <4>1, SentUpTo
      <4> HIDE DEF e
      <4>4. CASE FrameEndings(wire) = {}
        <5>1. Opening(wire) = 1
          BY <2>1, <4>4, OpeningIs
        <5> QED
          BY <4>3, <5>1
      <4>5. CASE FrameEndings(wire) # {}
        <5> DEFINE m == Max(FrameEndings(wire))
        <5>1. FrameEndings(wire) \subseteq 1 .. Len(wire)
          BY <2>1, EndingsAre
        <5>2. m \in FrameEndings(wire)
          BY <4>2, <4>5, <5>1, MaxIs
        <5>3. Opening(wire) = Behind(wire, m)
          BY <2>1, <4>5, OpeningIs
        <5> HIDE DEF m
        <5>4. Behind(wire, m) \in UNION {{Behind(wire, p), p + 1} : p \in FrameEndings(wire)}
          BY <5>2
        <5> QED
          BY <4>3, <5>3, <5>4
      <4> QED
        BY <4>4, <4>5
    <3> QED
      BY <2>3, <2>6, <3>3, <3>4, <3>5 DEF FramesMatchStream
  <2> QED
    BY <2>5, <2>6
<1> QED
  BY <1>1, FramerInvariant, PTL

=============================================================================
