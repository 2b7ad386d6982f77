----------------------------- MODULE SessionFile -----------------------------
(***************************************************************************)
(* The file behind one session of the local-file store                     *)
(* (harness/sessionstore/localfile/store.go): how a record is appended,    *)
(* what an error at each step leaves behind, and what a crash leaves.      *)
(*                                                                         *)
(* A record is one line.  The file is modelled as a sequence of cells, two *)
(* per line: the line's text and its end (the last byte of the text and    *)
(* the newline), so that a torn write leaves the first cell without the    *)
(* second.  Sizes are counted in cells.                                    *)
(***************************************************************************)
EXTENDS Integers, Sequences, FiniteSetsExt

CONSTANTS Records,      \* the records that may be appended
          Header,       \* the session record the file is created with
          MaxWrites     \* bound: appends started in a behaviour

ASSUME MaxWritesAssumption == MaxWrites \in Nat

VARIABLES
  file,       \* Seq(Cell): the content the operating system shows
  synced,     \* the length of the prefix known to be on the disk
  cache,      \* the committedSize of the cached write state, or NoCache
  pc,         \* where the store's append is
  rec,        \* the record being appended
  size,       \* the committedSize that append works with
  writes,     \* appends started so far
  durable     \* history: how many records an append has acknowledged

vars == <<file, synced, cache, pc, rec, size, writes, durable>>

NoCache == -1

Text(r) == [rec |-> r, nl |-> FALSE]
End(r)  == [rec |-> r, nl |-> TRUE]
Cell    == [rec : Records \cup {Header}, nl : BOOLEAN]
Zero    == [rec |-> Header, nl |-> FALSE]  \* what Truncate fills a hole with

(* File.Truncate: cuts the file, or extends it with zeros.                 *)
Resize(f, n) == [i \in 1 .. n |-> IF i <= Len(f) THEN f[i] ELSE Zero]

(* encodeRecord: the record on one line, its newline last.                 *)
EncodeRecord(r) == <<Text(r), End(r)>>

(* decodeLog keeps what ends with the last newline and drops the rest.     *)
CommittedSize(f) == Max({0} \cup {i \in 1 .. Len(f) : f[i].nl})

(* decodeLog fails when it finds no newline at all, and when a line is not *)
(* one whole record.                                                       *)
Readable(f) ==
  LET n == CommittedSize(f)
  IN  /\ n > 0
      /\ n % 2 = 0
      /\ \A i \in 1 .. n : f[i].nl <=> i % 2 = 0
      /\ \A i \in 1 .. n : i % 2 = 0 => f[i].rec = f[i - 1].rec

(* The records decodeLog returns for a readable file.                      *)
Decode(f) == [i \in 1 .. CommittedSize(f) \div 2 |-> f[2 * i].rec]

Init ==
  /\ file = EncodeRecord(Header)
  /\ synced = 2
  /\ cache = NoCache
  /\ pc = "idle"
  /\ rec = Header
  /\ size = 0
  /\ writes = 0
  /\ durable = 1

-----------------------------------------------------------------------------
(* loadWriteState: the cached write state, or the file read again.         *)
Begin(r) ==
  /\ pc = "idle"
  /\ writes < MaxWrites
  /\ \/ /\ cache # NoCache
        /\ size' = cache
     \/ /\ cache = NoCache
        /\ Readable(file)
        /\ size' = CommittedSize(file)
  /\ cache' = size'
  /\ rec' = r
  /\ writes' = writes + 1
  /\ pc' = "truncate"
  /\ UNCHANGED <<file, synced, durable>>

(* appendFile: Truncate drops the incomplete record of an earlier append.  *)
Truncate ==
  /\ pc = "truncate"
  /\ file' = Resize(file, size)
  /\ synced' = IF synced < size THEN synced ELSE size
  /\ pc' = "write"
  /\ UNCHANGED <<cache, rec, size, writes, durable>>

(* appendFile: Write puts the whole record at the end of the file.         *)
Write ==
  /\ pc = "write"
  /\ file' = file \o EncodeRecord(rec)
  /\ pc' = "sync"
  /\ UNCHANGED <<synced, cache, rec, size, writes, durable>>

(* Slip: the append is acknowledged without a sync.                       *)
SyncSkipped ==
  /\ pc = "sync"
  /\ cache' = size + Len(EncodeRecord(rec))
  /\ durable' = (size + Len(EncodeRecord(rec))) \div 2
  /\ pc' = "idle"
  /\ UNCHANGED <<file, synced, rec, size, writes>>

(* append: the record is on the disk and the cached write state moves on.  *)
Sync ==
  /\ pc = "sync"
  /\ synced' = Len(file)
  /\ cache' = size + Len(EncodeRecord(rec))
  /\ durable' = (size + Len(EncodeRecord(rec))) \div 2
  /\ pc' = "idle"
  /\ UNCHANGED <<file, rec, size, writes>>

(* Slip: a failed append leaves the cached write state as it was.          *)
EvictSkipped ==
  /\ pc' = "idle"
  /\ UNCHANGED <<cache, rec, size, writes, durable>>

(* The error path of append: the caller sees the error and the cached      *)
(* write state is dropped.                                                 *)
Evict ==
  /\ cache' = NoCache
  /\ pc' = "idle"
  /\ UNCHANGED <<rec, size, writes, durable>>

(* Opening or truncating the file fails.                                   *)
OpenFails ==
  /\ pc = "truncate"
  /\ Evict
  /\ UNCHANGED <<file, synced>>

(* The write is cut short: nothing, or the text without its newline.       *)
WriteFails ==
  /\ pc = "write"
  /\ \E tail \in {<<>>, <<Text(rec)>>} : file' = file \o tail
  /\ Evict
  /\ UNCHANGED synced

(* Sync fails with the record complete in the file; the file may also be   *)
(* synced and closing it may then fail.                                    *)
SyncFails ==
  /\ pc = "sync"
  /\ synced' \in {synced, Len(file)}
  /\ Evict
  /\ UNCHANGED file

(* The process ends.  The cached write state is gone; a power failure also *)
(* takes back part of what was never synced.  The next process opens the   *)
(* store with an empty cache.                                              *)
Crash ==
  /\ \E n \in synced .. Len(file) : file' = SubSeq(file, 1, n)
  /\ synced' = Len(file')
  /\ Evict

Next ==
  \/ \E r \in Records : Begin(r)
  \/ Truncate
  \/ Write
  \/ Sync
  \/ OpenFails
  \/ WriteFails
  \/ SyncFails
  \/ Crash

Spec == Init /\ [][Next]_vars

-----------------------------------------------------------------------------
TypeOK ==
  /\ file \in Seq(Cell)
  /\ synced \in Nat
  /\ cache \in Nat \cup {NoCache}
  /\ pc \in {"idle", "truncate", "write", "sync"}
  /\ rec \in Records \cup {Header}
  /\ pc # "idle" => rec \in Records
  /\ size \in Nat
  /\ writes \in Nat
  /\ durable \in Nat

(* The line structure of a file: text and end alternate, and a text        *)
(* without its end can only be the last cell.                              *)
Lines(f) ==
  \A i \in 1 .. Len(f) :
    /\ f[i].nl <=> i % 2 = 0
    /\ i % 2 = 0 => f[i].rec = f[i - 1].rec

(* What the cached size, the size in use, the synced prefix and the        *)
(* acknowledged records have to do with the file at each step of append.   *)
Sizes ==
  /\ durable >= 1
  /\ 2 * durable <= synced
  /\ synced <= Len(file)
  /\ pc = "idle" /\ cache # NoCache => cache = Len(file) /\ cache % 2 = 0
  /\ pc # "idle" => cache = size /\ size % 2 = 0 /\ 2 * durable <= size
  /\ pc = "truncate" => size = 2 * (Len(file) \div 2)
  /\ pc = "write" => Len(file) = size
  /\ pc = "sync" => Len(file) = size + 2

IInv == TypeOK /\ Lines(file) /\ Sizes

(* No error and no crash in any step of append leaves a session that       *)
(* decodeLog rejects: "session log has no committed records" and "decode   *)
(* record" are never returned for a file the store itself wrote.           *)
AlwaysReadable == Readable(file)

(* appendFile syncs before the append returns: whatever prefix of the      *)
(* unsynced part a power failure keeps, the acknowledged records decode.   *)
AcknowledgedSurvive ==
  \A n \in synced .. Len(file) :
    Len(Decode(SubSeq(file, 1, n))) >= durable

(* A failed append evicts the cached write state, so the next one truncates *)
(* where the file really ends: apart from a crash, no step takes back a    *)
(* record that a reader could already see, acknowledged or not.            *)
OnlyCrashTakesBack ==
  [][Crash \/ Len(Decode(file')) >= Len(Decode(file))]_vars

(* The file implements the promised log: records are only added at the     *)
(* end, and what a crash takes back was never acknowledged by append.      *)
Log == INSTANCE SessionLog WITH log <- Decode(file)

ImplementsSessionLog == Log!LogSpec

=============================================================================
