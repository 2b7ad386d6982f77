-------------------------- MODULE SessionFileProofs --------------------------
(***************************************************************************)
(* What SessionFile guarantees for every set of records and every number   *)
(* of appends.  The argument rests on IInv: the file is always made of     *)
(* whole lines, except perhaps for a text without its end at the tail, and *)
(* the size append works with is the size up to that tail.                 *)
(***************************************************************************)
EXTENDS SessionFile, SequenceTheorems, TLAPS

-----------------------------------------------------------------------------
(* The operators the model is built from.                                  *)

(* The largest of a set of integers is the element no other exceeds.       *)
LEMMA MaxIs ==
  ASSUME NEW S \in SUBSET Int, NEW m \in S, \A y \in S : m >= y
  PROVE  Max(S) = m
<1>1. \A x \in S : (\A y \in S : x >= y) => x = m
  OBVIOUS
<1> QED
  BY <1>1 DEF Max

(* decodeLog of a well-formed file keeps every cell but a torn last one.   *)
LEMMA CommittedSizeIs ==
  ASSUME NEW f \in Seq(Cell), Lines(f)
  PROVE  CommittedSize(f) = 2 * (Len(f) \div 2)
<1> DEFINE ends == {i \in 1 .. Len(f) : f[i].nl}
           m    == 2 * (Len(f) \div 2)
<1>1. Len(f) \in Nat
  BY LenProperties
<1>2. m \in 0 .. Len(f) /\ m % 2 = 0 /\ m >= Len(f) - 1
  BY <1>1
<1>3. ends = {i \in 1 .. Len(f) : i % 2 = 0}
  BY DEF Lines
<1>4. m \in {0} \cup ends
  BY <1>1, <1>2, <1>3
<1>5. \A y \in {0} \cup ends : m >= y
  BY <1>1, <1>2, <1>3
<1>6. {0} \cup ends \in SUBSET Int
  BY <1>1, <1>3
<1> HIDE DEF m, ends
<1>7. Max({0} \cup ends) = m
  BY <1>4, <1>5, <1>6, MaxIs
<1> QED
  BY <1>7 DEF CommittedSize, m, ends

(* A well-formed file with a whole line is one decodeLog accepts.          *)
LEMMA LinesAreReadable ==
  ASSUME NEW f \in Seq(Cell), Lines(f), Len(f) >= 2
  PROVE  Readable(f)
<1>1. Len(f) \in Nat
  BY LenProperties
<1>2. CommittedSize(f) = 2 * (Len(f) \div 2)
  BY CommittedSizeIs
<1>3. CommittedSize(f) \in 1 .. Len(f) /\ CommittedSize(f) % 2 = 0
  BY <1>1, <1>2
<1> DEFINE n == CommittedSize(f)
<1>4. \A i \in 1 .. n : i \in 1 .. Len(f)
  BY <1>1, <1>3
<1>5. /\ \A i \in 1 .. n : f[i].nl <=> i % 2 = 0
      /\ \A i \in 1 .. n : i % 2 = 0 => f[i].rec = f[i - 1].rec
  BY <1>4 DEF Lines
<1>6. n > 0 /\ n % 2 = 0
  BY <1>1, <1>3
<1> QED
  BY <1>5, <1>6 DEF Readable

(* Cutting a well-formed file anywhere leaves a well-formed file.          *)
LEMMA PrefixOfLines ==
  ASSUME NEW f \in Seq(Cell), Lines(f), NEW n \in 0 .. Len(f)
  PROVE  /\ SubSeq(f, 1, n) \in Seq(Cell)
         /\ Len(SubSeq(f, 1, n)) = n
         /\ \A i \in 1 .. n : SubSeq(f, 1, n)[i] = f[i]
         /\ Lines(SubSeq(f, 1, n))
<1>1. Len(f) \in Nat /\ n \in Nat
  BY LenProperties
<1>2. \A i \in 1 .. n : f[i] \in Cell
  BY <1>1, ElementOfSeq
<1>3. /\ SubSeq(f, 1, n) \in Seq(Cell)
      /\ Len(SubSeq(f, 1, n)) = n
      /\ \A i \in 1 .. n : SubSeq(f, 1, n)[i] = f[i]
  BY <1>1, <1>2, SubSeqProperties
<1>4. Lines(SubSeq(f, 1, n))
  BY <1>1, <1>3 DEF Lines
<1> QED
  BY <1>3, <1>4

(* Truncate to a size the file has is cutting it.                          *)
LEMMA ResizeCuts ==
  ASSUME NEW f \in Seq(Cell), NEW n \in 0 .. Len(f)
  PROVE  Resize(f, n) = SubSeq(f, 1, n)
<1>1. Len(f) \in Nat /\ n \in Nat
  BY LenProperties
<1>2. \A i \in 1 .. n : f[i] \in Cell
  BY <1>1, ElementOfSeq
<1>3. /\ SubSeq(f, 1, n) \in Seq(Cell)
      /\ Len(SubSeq(f, 1, n)) = n
      /\ \A i \in 1 .. n : SubSeq(f, 1, n)[i] = f[i]
  BY <1>1, <1>2, SubSeqProperties
<1>4. SubSeq(f, 1, n) \in [1 .. n -> Cell]
  BY <1>3, LenProperties
<1>5. Resize(f, n) = [i \in 1 .. n |-> f[i]]
  BY <1>1 DEF Resize
<1> QED
  BY <1>3, <1>4, <1>5

(* Writing at the end of whole lines keeps the lines well-formed, whether  *)
(* the whole record arrives or only its text.                              *)
LEMMA WriteKeepsLines ==
  ASSUME NEW f \in Seq(Cell), Lines(f), Len(f) % 2 = 0,
         NEW r \in Records \cup {Header},
         NEW tail \in {<<>>, <<Text(r)>>, EncodeRecord(r)}
  PROVE  /\ tail \in Seq(Cell)
         /\ f \o tail \in Seq(Cell)
         /\ Len(f \o tail) = Len(f) + Len(tail)
         /\ Len(tail) \in 0 .. 2
         /\ \A i \in 1 .. Len(f) : (f \o tail)[i] = f[i]
         /\ Lines(f \o tail)
<1>1. Len(f) \in Nat
  BY LenProperties
<1>2. Text(r) \in Cell /\ End(r) \in Cell
  BY DEF Text, End, Cell
<1>3. /\ tail \in Seq(Cell)
      /\ Len(tail) \in 0 .. 2
      /\ Len(tail) >= 1 => tail[1] = Text(r)
      /\ Len(tail) = 2 => tail[2] = End(r)
  <2>1. CASE tail = <<>>
    BY <2>1
  <2>2. CASE tail = <<Text(r)>>
    BY <2>2, <1>2
  <2>3. CASE tail = EncodeRecord(r)
    BY <2>3, <1>2 DEF EncodeRecord
  <2> QED
    BY <2>1, <2>2, <2>3
<1>4. /\ f \o tail \in Seq(Cell)
      /\ Len(f \o tail) = Len(f) + Len(tail)
      /\ \A i \in 1 .. Len(f) + Len(tail) :
           (f \o tail)[i] = IF i <= Len(f) THEN f[i] ELSE tail[i - Len(f)]
  BY <1>3, ConcatProperties
<1>5. Lines(f \o tail)
  <2> SUFFICES ASSUME NEW i \in 1 .. Len(f) + Len(tail)
               PROVE  /\ (f \o tail)[i].nl <=> i % 2 = 0
                      /\ i % 2 = 0 => (f \o tail)[i].rec = (f \o tail)[i - 1].rec
    BY <1>4 DEF Lines
  <2>1. CASE i <= Len(f)
    <3>1. i \in 1 .. Len(f) /\ (f \o tail)[i] = f[i]
      BY <2>1, <1>1, <1>3, <1>4
    <3>2. i % 2 = 0 => i - 1 \in 1 .. Len(f) /\ (f \o tail)[i - 1] = f[i - 1]
      BY <2>1, <1>1, <1>3, <1>4
    <3> QED
      BY <3>1, <3>2 DEF Lines
  <2>2. CASE i = Len(f) + 1
    <3>1. i % 2 = 1
      BY <2>2, <1>1
    <3>2. (f \o tail)[i] = Text(r)
      BY <2>2, <1>1, <1>3, <1>4
    <3> QED
      BY <3>1, <3>2 DEF Text
  <2>3. CASE i = Len(f) + 2
    <3>1. i % 2 = 0
      BY <2>3, <1>1
    <3>2. (f \o tail)[i] = End(r) /\ (f \o tail)[i - 1] = Text(r)
      BY <2>3, <1>1, <1>3, <1>4
    <3> QED
      BY <3>1, <3>2 DEF Text, End
  <2> QED
    BY <2>1, <2>2, <2>3, <1>1, <1>3, SMTT(30)
<1> QED
  BY <1>1, <1>3, <1>4, <1>5

(* decodeLog of a well-formed file returns one record per whole line.      *)
LEMMA DecodeIs ==
  ASSUME NEW f \in Seq(Cell), Lines(f)
  PROVE  /\ Decode(f) \in Seq(Records \cup {Header})
         /\ Len(f) \div 2 \in Nat
         /\ Len(Decode(f)) = Len(f) \div 2
         /\ \A i \in 1 .. Len(f) \div 2 : Decode(f)[i] = f[2 * i].rec
<1> DEFINE k == Len(f) \div 2
           S == Records \cup {Header}
<1>1. Len(f) \in Nat /\ k \in Nat
  BY LenProperties
<1>2. CommittedSize(f) \div 2 = k
  BY <1>1, CommittedSizeIs
<1>3. Decode(f) = [i \in 1 .. k |-> f[2 * i].rec]
  BY <1>2 DEF Decode
<1>4. \A i \in 1 .. k : f[2 * i].rec \in S
  <2> TAKE i \in 1 .. k
  <2>1. 2 * i \in 1 .. Len(f)
    BY <1>1
  <2>2. f[2 * i] \in Cell
    BY <2>1, ElementOfSeq
  <2> QED
    BY <2>2 DEF Cell
<1> HIDE DEF k, S
<1>5. Decode(f) \in [1 .. k -> S]
  BY <1>3, <1>4
<1>6. Decode(f) \in Seq(S)
  BY <1>1, <1>5, SeqDef
<1>7. Len(Decode(f)) = k
  BY <1>1, <1>3, <1>6, LenProperties
<1> QED
  BY <1>1, <1>3, <1>6, <1>7 DEF k, S

(* Cutting a file cuts what is decoded from it.                            *)
LEMMA DecodePrefix ==
  ASSUME NEW f \in Seq(Cell), Lines(f), NEW n \in 0 .. Len(f)
  PROVE  /\ n \div 2 \in 0 .. Len(Decode(f))
         /\ Decode(SubSeq(f, 1, n)) = SubSeq(Decode(f), 1, n \div 2)
<1> DEFINE g == SubSeq(f, 1, n)
           k == n \div 2
           S == Records \cup {Header}
<1>1. Len(f) \in Nat /\ n \in Nat /\ k \in Nat /\ k <= Len(f) \div 2
  BY LenProperties
<1>2. /\ g \in Seq(Cell) /\ Len(g) = n /\ Lines(g)
      /\ \A i \in 1 .. n : g[i] = f[i]
  BY PrefixOfLines
<1>3. /\ Decode(g) \in Seq(S) /\ Len(Decode(g)) = k
      /\ \A i \in 1 .. k : Decode(g)[i] = g[2 * i].rec
  BY <1>2, DecodeIs
<1>4. /\ Decode(f) \in Seq(S) /\ Len(Decode(f)) = Len(f) \div 2
      /\ \A i \in 1 .. Len(f) \div 2 : Decode(f)[i] = f[2 * i].rec
  BY DecodeIs
<1>5. \A i \in 1 .. k : 2 * i \in 1 .. n /\ i \in 1 .. Len(f) \div 2
  BY <1>1
<1>6. \A i \in 1 .. k : Decode(f)[i] \in S
  BY <1>4, <1>5, ElementOfSeq
<1> HIDE DEF g, k, S
<1>7. /\ SubSeq(Decode(f), 1, k) \in Seq(S)
      /\ Len(SubSeq(Decode(f), 1, k)) = k
      /\ \A i \in 1 .. k : SubSeq(Decode(f), 1, k)[i] = Decode(f)[i]
  BY <1>1, <1>6, SubSeqProperties
<1>8. \A i \in 1 .. k : Decode(g)[i] = SubSeq(Decode(f), 1, k)[i]
  BY <1>2, <1>3, <1>4, <1>5, <1>7
<1>9. Decode(g) = SubSeq(Decode(f), 1, k)
  BY <1>3, <1>7, <1>8, SeqEqual
<1> QED
  BY <1>1, <1>4, <1>9 DEF g, k

(* A torn tail is not decoded; a whole record is decoded as one more.      *)
LEMMA DecodeWrite ==
  ASSUME NEW f \in Seq(Cell), Lines(f), Len(f) % 2 = 0,
         NEW r \in Records \cup {Header}
  PROVE  /\ \A tail \in {<<>>, <<Text(r)>>} : Decode(f \o tail) = Decode(f)
         /\ Decode(f \o EncodeRecord(r)) = Append(Decode(f), r)
<1> DEFINE S == Records \cup {Header}
           k == Len(f) \div 2
<1>1. Len(f) \in Nat /\ k \in Nat /\ Len(f) = 2 * k
  BY LenProperties
<1>2. /\ Decode(f) \in Seq(S) /\ Len(Decode(f)) = k
      /\ \A i \in 1 .. k : Decode(f)[i] = f[2 * i].rec
  BY DecodeIs
<1>3. \A i \in 1 .. k : 2 * i \in 1 .. Len(f)
  BY <1>1
<1>4. ASSUME NEW tail \in {<<>>, <<Text(r)>>}
      PROVE  Decode(f \o tail) = Decode(f)
  <2> DEFINE g == f \o tail
  <2>1. /\ g \in Seq(Cell) /\ Lines(g) /\ Len(g) \in {Len(f), Len(f) + 1}
        /\ \A i \in 1 .. Len(f) : g[i] = f[i]
    <3>1. tail \in {<<>>, <<Text(r)>>, EncodeRecord(r)} /\ Len(tail) \in {0, 1}
      BY <1>4
    <3>2. /\ f \o tail \in Seq(Cell)
          /\ Len(f \o tail) = Len(f) + Len(tail)
          /\ \A i \in 1 .. Len(f) : (f \o tail)[i] = f[i]
          /\ Lines(f \o tail)
      BY <3>1, WriteKeepsLines
    <3>3. Len(f \o tail) = Len(f) \/ Len(f \o tail) = Len(f) + 1
      <4>1. CASE Len(tail) = 0
        BY <4>1, <3>2, <1>1
      <4>2. CASE Len(tail) = 1
        BY <4>2, <3>2
      <4> QED
        BY <3>1, <4>1, <4>2
    <3> QED
      BY <3>2, <3>3
  <2>2. Len(g) \div 2 = k
    BY <1>1, <2>1
  <2>3. /\ Decode(g) \in Seq(S) /\ Len(Decode(g)) = k
        /\ \A i \in 1 .. k : Decode(g)[i] = g[2 * i].rec
    BY <2>1, <2>2, DecodeIs
  <2> HIDE DEF g, k, S
  <2>4. \A i \in 1 .. k : Decode(g)[i] = Decode(f)[i]
    BY <1>2, <1>3, <2>1, <2>3
  <2> QED
    BY <1>2, <2>3, <2>4, SeqEqual DEF g
<1>5. Decode(f \o EncodeRecord(r)) = Append(Decode(f), r)
  <2> DEFINE g == f \o EncodeRecord(r)
  <2>1. Text(r) \in Cell /\ End(r) \in Cell /\ End(r).rec = r
    BY DEF Text, End, Cell
  <2>2. /\ EncodeRecord(r) \in Seq(Cell) /\ Len(EncodeRecord(r)) = 2
        /\ EncodeRecord(r)[2] = End(r)
    BY <2>1 DEF EncodeRecord
  <2>3. /\ g \in Seq(Cell) /\ Lines(g) /\ Len(g) = Len(f) + 2
        /\ \A i \in 1 .. Len(f) : g[i] = f[i]
    <3>1. EncodeRecord(r) \in {<<>>, <<Text(r)>>, EncodeRecord(r)}
      OBVIOUS
    <3>2. /\ f \o EncodeRecord(r) \in Seq(Cell)
          /\ Len(f \o EncodeRecord(r)) = Len(f) + Len(EncodeRecord(r))
          /\ \A i \in 1 .. Len(f) : (f \o EncodeRecord(r))[i] = f[i]
          /\ Lines(f \o EncodeRecord(r))
      BY <3>1, WriteKeepsLines
    <3> QED
      BY <2>2, <3>2
  <2>4. g[Len(f) + 2] = End(r)
    BY <1>1, <2>2, ConcatProperties
  <2>5. Len(g) \div 2 = k + 1
    BY <1>1, <2>3
  <2>6. /\ Decode(g) \in Seq(S) /\ Len(Decode(g)) = k + 1
        /\ \A i \in 1 .. k + 1 : Decode(g)[i] = g[2 * i].rec
    BY <2>3, <2>5, DecodeIs
  <2>7. 2 * (k + 1) = Len(f) + 2
    BY <1>1
  <2>8. /\ Append(Decode(f), r) \in Seq(S)
        /\ Len(Append(Decode(f), r)) = k + 1
        /\ \A i \in 1 .. k : Append(Decode(f), r)[i] = Decode(f)[i]
        /\ Append(Decode(f), r)[k + 1] = r
    BY <1>1, <1>2
  <2> HIDE DEF g, k, S
  <2>9. ASSUME NEW i \in 1 .. k + 1
        PROVE  Decode(g)[i] = Append(Decode(f), r)[i]
    <3>1. CASE i = k + 1
      <4>1. Decode(g)[i] = g[2 * (k + 1)].rec
        BY <3>1, <2>6
      <4>2. g[2 * (k + 1)] = End(r)
        BY <2>4, <2>7 DEF g
      <4> QED
        BY <3>1, <4>1, <4>2, <2>1, <2>8
    <3>2. CASE i \in 1 .. k
      <4>1. Decode(g)[i] = g[2 * i].rec
        BY <2>6
      <4>2. g[2 * i] = f[2 * i]
        BY <3>2, <1>3, <2>3
      <4>3. Append(Decode(f), r)[i] = f[2 * i].rec
        BY <3>2, <1>2, <2>8
      <4> QED
        BY <4>1, <4>2, <4>3
    <3>3. k \in Nat => i = k + 1 \/ i \in 1 .. k
      OBVIOUS
    <3> QED
      BY <3>1, <3>2, <3>3, <1>1
  <2> QED
    BY <2>6, <2>8, <2>9, SeqEqual DEF g
<1> QED
  BY <1>4, <1>5

-----------------------------------------------------------------------------
(* The inductive invariant.                                                *)

(* A new session is one whole line, synced before its name appears.        *)
LEMMA InitIInv ==
  Init => IInv
<1> SUFFICES ASSUME Init PROVE IInv
  OBVIOUS
<1>1. /\ <<>> \in Seq(Cell) /\ Lines(<<>>) /\ Len(<<>>) = 0
      /\ Header \in Records \cup {Header}
  BY DEF Lines
<1>2. Text(Header) \in Cell /\ End(Header) \in Cell
  BY DEF Text, End, Cell
<1>3. file \in Seq(Cell) /\ Len(file) = 2
  BY <1>2 DEF Init, EncodeRecord
<1>4. Lines(file)
  BY DEF Init, EncodeRecord, Lines, Text, End
<1>5. TypeOK
  BY <1>3 DEF Init, TypeOK
<1>6. Sizes
  BY <1>3 DEF Init, Sizes
<1> QED
  BY <1>4, <1>5, <1>6 DEF IInv

(* Every step of append, every failure of one and a crash at any of them   *)
(* keeps the invariant.                                                    *)
LEMMA NextIInv ==
  IInv /\ [Next]_vars => IInv'
<1> SUFFICES ASSUME IInv, [Next]_vars PROVE IInv'
  OBVIOUS
<1> USE DEF IInv
<1>len. Len(file) \in Nat /\ file \in Seq(Cell) /\ Lines(file)
  BY LenProperties DEF TypeOK
<1>1. CASE \E r \in Records : Begin(r)
  <2>1. PICK r \in Records : Begin(r)
    BY <1>1
  <2>2. CommittedSize(file) = 2 * (Len(file) \div 2)
    BY <1>len, CommittedSizeIs
  <2>3. size' = 2 * (Len(file) \div 2) /\ size' \in Nat
    <3>1. CASE cache # NoCache
      BY <3>1, <2>1, <1>len DEF Begin, TypeOK, Sizes
    <3>2. CASE cache = NoCache
      BY <3>2, <2>1, <2>2, <1>len DEF Begin
    <3> QED
      BY <3>1, <3>2
  <2>4. size' % 2 = 0 /\ 2 * durable <= size'
    BY <2>3, <1>len DEF TypeOK, Sizes
  <2>5. TypeOK'
    BY <2>1, <2>3 DEF Begin, TypeOK
  <2>6. Sizes'
    BY <2>1, <2>3, <2>4, <1>len DEF Begin, TypeOK, Sizes
  <2> QED
    BY <2>1, <2>5, <2>6 DEF Begin
<1>2. CASE Truncate
  <2>1. size \in 0 .. Len(file) /\ 2 * durable <= size
    BY <1>2, <1>len DEF Truncate, TypeOK, Sizes
  <2>2. file' = SubSeq(file, 1, size)
    BY <1>2, <1>len, <2>1, ResizeCuts DEF Truncate
  <2>3. file' \in Seq(Cell) /\ Len(file') = size /\ Lines(file')
    BY <1>len, <2>1, <2>2, PrefixOfLines
  <2>4. TypeOK'
    BY <1>2, <2>3 DEF Truncate, TypeOK
  <2>5. Sizes'
    BY <1>2, <2>1, <2>3, <1>len DEF Truncate, TypeOK, Sizes
  <2> QED
    BY <2>3, <2>4, <2>5
<1>3. CASE Write
  <2>1. Len(file) % 2 = 0 /\ rec \in Records \cup {Header}
    BY <1>3 DEF Write, TypeOK, Sizes
  <2>2. file' \in Seq(Cell) /\ Len(file') = Len(file) + 2 /\ Lines(file')
    BY <1>3, <1>len, <2>1, WriteKeepsLines DEF Write, EncodeRecord
  <2>3. TypeOK'
    BY <1>3, <2>2 DEF Write, TypeOK
  <2>4. /\ pc' = "sync" /\ synced' = synced /\ cache' = cache /\ size' = size
        /\ durable' = durable /\ Len(file') = size + 2
    BY <1>3, <2>2 DEF Write, Sizes
  <2>5. Sizes'
    BY <1>3, <2>4, <2>2, <1>len DEF Write, TypeOK, Sizes
  <2> QED
    BY <2>2, <2>3, <2>5
<1>4. CASE Sync
  <2>1. Len(EncodeRecord(rec)) = 2
    BY DEF EncodeRecord
  <2>2. cache' = size + 2 /\ durable' = (size + 2) \div 2
    BY <1>4, <2>1 DEF Sync
  <2>3. TypeOK'
    BY <1>4, <2>2, <1>len DEF Sync, TypeOK
  <2>4. Sizes'
    BY <1>4, <2>2, <1>len DEF Sync, TypeOK, Sizes, NoCache
  <2> QED
    BY <1>4, <1>len, <2>3, <2>4 DEF Sync
<1>5. CASE OpenFails
  <2>1. TypeOK'
    BY <1>5 DEF OpenFails, Evict, TypeOK
  <2>2. Sizes'
    BY <1>5 DEF OpenFails, Evict, Sizes
  <2> QED
    BY <1>5, <1>len, <2>1, <2>2 DEF OpenFails
<1>6. CASE WriteFails
  <2>1. Len(file) % 2 = 0 /\ rec \in Records \cup {Header}
    BY <1>6 DEF WriteFails, TypeOK, Sizes
  <2>2. PICK tail \in {<<>>, <<Text(rec)>>} : file' = file \o tail
    BY <1>6 DEF WriteFails
  <2>3. file' \in Seq(Cell) /\ Len(file') \in Len(file) .. Len(file) + 2 /\ Lines(file')
    <3>1. tail \in {<<>>, <<Text(rec)>>, EncodeRecord(rec)}
      BY <2>2
    <3>2. /\ file \o tail \in Seq(Cell)
          /\ Len(file \o tail) = Len(file) + Len(tail)
          /\ Len(tail) \in 0 .. 2
          /\ Lines(file \o tail)
      BY <1>len, <2>1, <3>1, WriteKeepsLines
    <3> QED
      BY <1>len, <2>2, <3>2
  <2>4. TypeOK'
    BY <1>6, <2>3 DEF WriteFails, Evict, TypeOK
  <2>5. Sizes'
    BY <1>6, <1>len, <2>3 DEF WriteFails, Evict, TypeOK, Sizes
  <2> QED
    BY <2>3, <2>4, <2>5
<1>7. CASE SyncFails
  <2>1. TypeOK'
    BY <1>7, <1>len DEF SyncFails, Evict, TypeOK
  <2>2. Sizes'
    BY <1>7, <1>len DEF SyncFails, Evict, TypeOK, Sizes
  <2> QED
    BY <1>7, <1>len, <2>1, <2>2 DEF SyncFails
<1>8. CASE Crash
  <2>1. PICK n \in synced .. Len(file) : file' = SubSeq(file, 1, n)
    BY <1>8 DEF Crash
  <2>2. n \in 0 .. Len(file)
    BY <1>len DEF TypeOK
  <2>3. file' \in Seq(Cell) /\ Len(file') = n /\ Lines(file')
    BY <1>len, <2>1, <2>2, PrefixOfLines
  <2>4. TypeOK'
    BY <1>8, <2>2, <2>3 DEF Crash, Evict, TypeOK
  <2>5. Sizes'
    BY <1>8, <1>len, <2>3 DEF Crash, Evict, TypeOK, Sizes
  <2> QED
    BY <2>3, <2>4, <2>5
<1>9. CASE UNCHANGED vars
  BY <1>9 DEF vars, TypeOK, Lines, Sizes
<1> QED
  BY <1>1, <1>2, <1>3, <1>4, <1>5, <1>6, <1>7, <1>8, <1>9 DEF Next

(* The invariant that the line structure and the sizes form together holds *)
(* in every reachable state, for any records and any number of appends.    *)
THEOREM InductiveInvariant ==
  Spec => []IInv
<1> QED
  BY InitIInv, NextIInv, PTL DEF Spec

-----------------------------------------------------------------------------
(* What append and decodeLog promise.                                      *)

(* No failure and no crash leaves a session decodeLog rejects.             *)
THEOREM SessionsStayReadable ==
  Spec => []AlwaysReadable
<1>1. IInv => AlwaysReadable
  <2> SUFFICES ASSUME IInv PROVE Readable(file)
    BY DEF AlwaysReadable
  <2>1. file \in Seq(Cell) /\ Lines(file) /\ Len(file) \in Nat
    BY LenProperties DEF IInv, TypeOK
  <2>2. Len(file) >= 2
    BY <2>1 DEF IInv, TypeOK, Sizes
  <2> QED
    BY <2>1, <2>2, LinesAreReadable
<1> QED
  BY <1>1, InductiveInvariant, PTL

(* A record whose append returned is decoded after every crash.            *)
THEOREM AcknowledgedRecordsSurvive ==
  Spec => []AcknowledgedSurvive
<1>1. IInv => AcknowledgedSurvive
  <2> SUFFICES ASSUME IInv, NEW n \in synced .. Len(file)
               PROVE  Len(Decode(SubSeq(file, 1, n))) >= durable
    BY DEF AcknowledgedSurvive
  <2>1. file \in Seq(Cell) /\ Lines(file) /\ Len(file) \in Nat
    BY LenProperties DEF IInv, TypeOK
  <2>2. n \in 0 .. Len(file) /\ 2 * durable <= n /\ durable \in Nat
    BY <2>1 DEF IInv, TypeOK, Sizes
  <2>3. /\ SubSeq(file, 1, n) \in Seq(Cell)
        /\ Lines(SubSeq(file, 1, n))
        /\ Len(SubSeq(file, 1, n)) = n
    BY <2>1, <2>2, PrefixOfLines
  <2>4. Len(Decode(SubSeq(file, 1, n))) = n \div 2
    BY <2>3, DecodeIs
  <2> QED
    BY <2>2, <2>4
<1> QED
  BY <1>1, InductiveInvariant, PTL

(* Every step of the file is a step of the promised log or leaves it       *)
(* alone, and only a crash takes records back.                             *)
LEMMA StepRefines ==
  ASSUME IInv, [Next]_vars
  PROVE  /\ [Log!LogNext]_(Log!logVars)
         /\ Crash \/ UNCHANGED vars \/ Len(Decode(file')) >= Len(Decode(file))
<1> DEFINE log == Decode(file)
<1>1. /\ file \in Seq(Cell) /\ Lines(file) /\ Len(file) \in Nat
      /\ rec \in Records \cup {Header}
  BY LenProperties DEF IInv, TypeOK
<1>2. /\ log \in Seq(Records \cup {Header}) /\ Len(log) = Len(file) \div 2
      /\ Len(log) \in Nat
  BY <1>1, DecodeIs
<1>3. CASE \/ \E r \in Records : Begin(r)
           \/ OpenFails
           \/ SyncFails
           \/ UNCHANGED vars
  <2>1. UNCHANGED <<file, durable>>
    BY <1>3 DEF Begin, OpenFails, SyncFails, Evict, vars
  <2> QED
    BY <2>1, <1>2 DEF Log!logVars
<1>4. CASE Truncate
  <2>1. size \in 0 .. Len(file) /\ size \div 2 = Len(log)
    BY <1>1, <1>2, <1>4 DEF Truncate, IInv, TypeOK, Sizes
  <2>2. file' = SubSeq(file, 1, size) /\ durable' = durable
    BY <1>1, <1>4, <2>1, ResizeCuts DEF Truncate
  <2>3. log' = SubSeq(log, 1, Len(log))
    BY <1>1, <2>1, <2>2, DecodePrefix
  <2>4. log' = log
    BY <1>2, <2>3, SubSeqFull
  <2> QED
    BY <2>2, <2>4, <1>2 DEF Log!logVars
<1>5. CASE Write
  <2>1. Len(file) % 2 = 0 /\ rec \in Records
    BY <1>5 DEF Write, IInv, TypeOK, Sizes
  <2>2. log' = Append(log, rec) /\ durable' = durable
    BY <1>1, <1>5, <2>1, DecodeWrite DEF Write
  <2>3. Log!LogWrite
    BY <2>1, <2>2 DEF Log!LogWrite
  <2>4. Len(log') >= Len(log)
    BY <1>2, <2>1, <2>2
  <2> QED
    BY <2>3, <2>4 DEF Log!LogNext
<1>6. CASE Sync
  <2>1. Len(EncodeRecord(rec)) = 2
    BY DEF EncodeRecord
  <2>2. durable' = Len(log) /\ log' = log
    BY <1>1, <1>2, <1>6, <2>1 DEF Sync, IInv, TypeOK, Sizes
  <2> QED
    BY <1>2, <2>2 DEF Log!LogNext, Log!LogAcknowledge
<1>7. CASE WriteFails
  <2>1. Len(file) % 2 = 0
    BY <1>7 DEF WriteFails, IInv, Sizes
  <2>2. PICK tail \in {<<>>, <<Text(rec)>>} : file' = file \o tail
    BY <1>7 DEF WriteFails
  <2>3. log' = log /\ durable' = durable
    BY <1>1, <1>7, <2>1, <2>2, DecodeWrite DEF WriteFails, Evict
  <2> QED
    BY <1>2, <2>3 DEF Log!logVars
<1>8. CASE Crash
  <2>1. PICK n \in synced .. Len(file) : file' = SubSeq(file, 1, n)
    BY <1>8 DEF Crash
  <2>2. n \in 0 .. Len(file) /\ 2 * durable <= n /\ durable \in Nat
    BY <1>1 DEF IInv, TypeOK, Sizes
  <2>3. n \div 2 \in durable .. Len(log)
    BY <1>1, <1>2, <2>2
  <2>4. log' = SubSeq(log, 1, n \div 2) /\ durable' = durable
    BY <1>1, <1>8, <2>1, <2>2, DecodePrefix DEF Crash, Evict
  <2>5. Log!LogCrash
    BY <2>3, <2>4 DEF Log!LogCrash
  <2> QED
    BY <1>8, <2>5 DEF Log!LogNext
<1> QED
  BY <1>3, <1>4, <1>5, <1>6, <1>7, <1>8 DEF Next

(* Apart from a crash, no step takes back a record a reader could see.     *)
THEOREM RecordsAreNotTakenBack ==
  Spec => OnlyCrashTakesBack
<1>1. IInv /\ [Next]_vars => [Crash \/ Len(Decode(file')) >= Len(Decode(file))]_vars
  BY StepRefines
<1> QED
  BY <1>1, InductiveInvariant, PTL DEF Spec, OnlyCrashTakesBack

(* The session file implements the append-only log of SessionLog.          *)
THEOREM FileImplementsLog ==
  Spec => ImplementsSessionLog
<1>1. Init => Log!LogInit
  <2> SUFFICES ASSUME Init PROVE Decode(file) = <<Header>> /\ durable = 1
    BY DEF Log!LogInit
  <2>1. <<>> \in Seq(Cell) /\ Lines(<<>>) /\ Len(<<>>) % 2 = 0 /\ Decode(<<>>) = <<>>
    <3>1. <<>> \in Seq(Cell) /\ Lines(<<>>) /\ Len(<<>>) = 0
      BY DEF Lines
    <3>2. /\ Decode(<<>>) \in Seq(Records \cup {Header})
          /\ Len(Decode(<<>>)) = Len(<<>>) \div 2
      BY <3>1, DecodeIs
    <3>3. Len(Decode(<<>>)) = 0
      BY <3>1, <3>2
    <3> QED
      BY <3>1, <3>2, <3>3, EmptySeq
  <2>2. Decode(<<>> \o EncodeRecord(Header)) = Append(<<>>, Header)
    BY <2>1, DecodeWrite
  <2>3. EncodeRecord(Header) \in Seq(Cell)
    BY DEF EncodeRecord, Text, End, Cell
  <2>4. <<>> \o EncodeRecord(Header) = EncodeRecord(Header)
    BY <2>3, ConcatEmptySeq
  <2> QED
    BY <2>2, <2>4 DEF Init
<1>2. IInv /\ [Next]_vars => [Log!LogNext]_(Log!logVars)
  BY StepRefines
<1> QED
  BY <1>1, <1>2, InductiveInvariant, PTL DEF Spec, ImplementsSessionLog, Log!LogSpec

=============================================================================
