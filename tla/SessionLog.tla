------------------------------ MODULE SessionLog ------------------------------
(***************************************************************************)
(* What the session store promises of one session's history: an append-    *)
(* only sequence of records in which everything up to the last             *)
(* acknowledged record survives any crash.  A record that was written but  *)
(* whose append reported an error may survive or may be lost; it never     *)
(* leaves a hole, and it never makes the session unreadable.               *)
(*                                                                         *)
(* harness/sessionstore states the interface ("append-only session history *)
(* and operation state"); SessionFile is shown to implement this module.   *)
(***************************************************************************)
EXTENDS Naturals, Sequences

CONSTANTS Records,  \* the records a session log may hold
          Header    \* the session record that Create publishes first

VARIABLES log,      \* the records a reader would decode now
          durable   \* how many of them no crash can take back

logVars == <<log, durable>>

LogInit ==
  /\ log = <<Header>>
  /\ durable = 1

(* A record reaches the log; nothing is promised about it yet.             *)
LogWrite ==
  /\ \E r \in Records : log' = Append(log, r)
  /\ UNCHANGED durable

(* An append returns without an error: the whole log is now durable.       *)
LogAcknowledge ==
  /\ durable' = Len(log)
  /\ UNCHANGED log

(* A crash may take back what was never acknowledged.                      *)
LogCrash ==
  /\ \E n \in durable .. Len(log) : log' = SubSeq(log, 1, n)
  /\ UNCHANGED durable

LogNext == LogWrite \/ LogAcknowledge \/ LogCrash

LogSpec == LogInit /\ [][LogNext]_logVars

=============================================================================
