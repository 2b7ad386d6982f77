------------------------ MODULE ProcessPrimitiveProofs ------------------------
(***************************************************************************)
(* What ProcessPrimitive guarantees for any piped outputs, any controls and*)
(* any amount of output: ProcessInv is inductive, the output of a command  *)
(* is delivered, and the invocation implements ProcessContract.            *)
(***************************************************************************)
EXTENDS ProcessPrimitive, TLAPS

(* The steps of the readers and controls, and what they leave alone.       *)
LEMMA ReadersLeave ==
  ASSUME NEW s \in Streams, ReadOutput(s) \/ ReadFails(s)
  PROVE  UNCHANGED <<osVars, ctx, runVars, waited, pipeVars, control>>
BY DEF ReadOutput, ReadChunk, ReadEOF, BeginDrain, ReadClosed, ReadFails, DrainChunk,
       DrainEnds, SendChunk, DropChunk, SendStreamFailure, ReaderStep

(* What a control request leaves alone.                                    *)
LEMMA ControlsLeave ==
  ASSUME NEW c \in Controls,
         Request(c) \/ ControlCanceled(c) \/ InputTaken(c) \/ ControlRuns(c)
  PROVE  UNCHANGED <<osVars, ctx, runVars, waited, outClosed, deadline, readerVars>>
BY DEF Request, ControlCanceled, InputTaken, ControlRuns, PrepareControl, InputWriteFails,
       CloseInput, Signal, ControlStep

(* Every step keeps the types of the flags, ...                            *)
LEMMA FlagsStep ==
  ASSUME TypeOK, [Next]_vars
  PROVE  /\ child' \in BOOLEAN /\ escaped' \in BOOLEAN /\ killed' \in BOOLEAN
         /\ ctx' \in BOOLEAN /\ startErr' \in BOOLEAN /\ waited' \in BOOLEAN
         /\ canceled' \in BOOLEAN /\ err' \in BOOLEAN /\ inClosed' \in BOOLEAN
<1> USE DEF TypeOK, osVars, runVars, pipeVars
<1>1. CASE Spawn \/ LeaderExits \/ ChildExits \/ EscapedExits \/ Cancel
  BY <1>1, ZenonT(60) DEF Spawn, LeaderExits, ChildExits, EscapedExits, Cancel
<1>2. CASE \E s \in Streams : WriteOutput(s)
  BY <1>2, Zenon DEF WriteOutput
<1>3. CASE \/ PrepareFails \/ CanceledBeforeStart \/ Prepared
           \/ StartFails \/ StartCommand \/ ReportStart
  BY <1>3, ZenonT(60) DEF PrepareFails, CanceledBeforeStart, Prepared, StartFails, StartCommand,
              ReportStart
<1>4. CASE AwaitCompletion
  BY <1>4, Zenon DEF AwaitCompletion
<1>5. CASE GroupGone \/ Kill
  BY <1>5, Zenon DEF GroupGone, Kill, ClosePipes
<1>6. CASE Finish
  BY <1>6, Zenon DEF Finish
<1>7. CASE WorkersWait \/ SendTerminalEvent
  BY <1>7, Zenon DEF WorkersWait, SendTerminalEvent
<1>8. CASE Wait
  BY <1>8, Zenon DEF Wait, Reap, WaitReturns
<1>9. CASE \E s \in Streams : ReadOutput(s) \/ ReadFails(s)
  BY <1>9, ReadersLeave, Zenon
<1>10. CASE \E c \in Controls :
              Request(c) \/ ControlCanceled(c) \/ InputTaken(c) \/ ControlRuns(c)
  <2>1. PICK c \in Controls :
          Request(c) \/ ControlCanceled(c) \/ InputTaken(c) \/ ControlRuns(c)
    BY <1>10
  <2>2. inClosed' \in BOOLEAN
    BY <2>1, Zenon DEF Request, ControlCanceled, InputTaken, ControlRuns, PrepareControl,
                InputWriteFails, CloseInput, Signal, ControlStep
  <2> QED
    BY <2>1, <2>2, ControlsLeave, Zenon
<1>11. CASE UNCHANGED vars
  BY <1>11, Zenon DEF vars
<1> QED
  BY <1>1, <1>2, <1>3, <1>4, <1>5, <1>6, <1>7, <1>8, <1>9, <1>10, <1>11 DEF Next, Run

(* ... and all others.                                                     *)
LEMMA TypeStep ==
  ASSUME TypeOK, [Next]_vars
  PROVE  TypeOK'
<1> USE FlagsStep DEF TypeOK, osVars, runVars, pipeVars, readerVars
<1>1. CASE Spawn \/ LeaderExits \/ ChildExits \/ EscapedExits \/ Cancel
  BY <1>1 DEF Spawn, LeaderExits, ChildExits, EscapedExits, Cancel
<1>2. CASE \E s \in Streams : WriteOutput(s)
  BY <1>2 DEF WriteOutput
<1>3. CASE \/ PrepareFails \/ CanceledBeforeStart \/ Prepared
           \/ StartFails \/ StartCommand \/ ReportStart
  BY <1>3 DEF PrepareFails, CanceledBeforeStart, Prepared, StartFails, StartCommand, ReportStart
<1>4. CASE AwaitCompletion
  BY <1>4 DEF AwaitCompletion
<1>5. CASE GroupGone \/ Kill
  BY <1>5 DEF GroupGone, Kill, ClosePipes
<1>6. CASE Finish
  BY <1>6 DEF Finish
<1>7. CASE WorkersWait \/ SendTerminalEvent
  BY <1>7 DEF WorkersWait, SendTerminalEvent
<1>8. CASE Wait
  BY <1>8 DEF Wait, Reap, WaitReturns
<1>9. CASE \E s \in Streams : ReadOutput(s) \/ ReadFails(s)
  <2>1. PICK s \in Streams : ReadOutput(s) \/ ReadFails(s)
    BY <1>9
  <2>2. reader' \in [Streams -> {"none", "read", "send", "drain", "drain_send", "fail",
                                 "done", "failed"}]
    BY <2>1 DEF ReadOutput, ReadChunk, ReadEOF, BeginDrain, ReadClosed, ReadFails,
                DrainChunk, DrainEnds, SendChunk, DropChunk, SendStreamFailure, ReaderStep
  <2>3. taken' \in [Streams -> Nat] /\ delivered' \in [Streams -> Nat]
    BY <2>1 DEF ReadOutput, ReadChunk, ReadEOF, BeginDrain, ReadClosed, ReadFails,
                DrainChunk, DrainEnds, SendChunk, DropChunk, SendStreamFailure, ReaderStep
  <2> QED
    BY <2>1, <2>2, <2>3, ReadersLeave
<1>10. CASE \E c \in Controls :
              Request(c) \/ ControlCanceled(c) \/ InputTaken(c) \/ ControlRuns(c)
  <2>1. PICK c \in Controls :
          Request(c) \/ ControlCanceled(c) \/ InputTaken(c) \/ ControlRuns(c)
    BY <1>10
  <2>2. /\ inClosed' \in BOOLEAN
        /\ control' \in [Controls -> {"none", "prepare", "act", "ok", "failed", "canceled"}]
    BY <2>1 DEF Request, ControlCanceled, InputTaken, ControlRuns, PrepareControl,
                InputWriteFails, CloseInput, Signal, ControlStep
  <2> QED
    BY <2>1, <2>2, ControlsLeave
<1>11. CASE UNCHANGED vars
  BY <1>11 DEF vars
<1> QED
  BY <1>1, <1>2, <1>3, <1>4, <1>5, <1>6, <1>7, <1>8, <1>9, <1>10, <1>11 DEF Next, Run

(* Every step keeps what runProcess has seen at each point.                *)
LEMMA StagesStep ==
  ASSUME TypeOK, Stages, [Next]_vars
  PROVE  Stages'
<1> USE DEF TypeOK, Stages, osVars, runVars
<1>1. CASE Spawn
  BY <1>1 DEF Spawn
<1>2. CASE LeaderExits
  BY <1>2 DEF LeaderExits
<1>3. CASE ChildExits
  BY <1>3 DEF ChildExits
<1>4. CASE EscapedExits
  BY <1>4 DEF EscapedExits
<1>5. CASE Cancel
  BY <1>5 DEF Cancel
<1>6. CASE PrepareFails
  BY <1>6 DEF PrepareFails
<1>7. CASE CanceledBeforeStart
  BY <1>7 DEF CanceledBeforeStart
<1>8. CASE Prepared
  BY <1>8 DEF Prepared
<1>9. CASE StartFails
  BY <1>9 DEF StartFails
<1>10. CASE StartCommand
  BY <1>10 DEF StartCommand
<1>11. CASE ReportStart
  BY <1>11 DEF ReportStart
<1>12. CASE AwaitCompletion
  BY <1>12 DEF AwaitCompletion
<1>13. CASE GroupGone
  BY <1>13 DEF GroupGone
<1>14. CASE Kill
  BY <1>14 DEF Kill
<1>15. CASE Finish
  BY <1>15 DEF Finish
<1>16. CASE WorkersWait
  BY <1>16 DEF WorkersWait
<1>17. CASE SendTerminalEvent
  BY <1>17 DEF SendTerminalEvent
<1>18. CASE Reap
  BY <1>18 DEF Reap
<1>19. CASE WaitReturns
  BY <1>19 DEF WaitReturns
<1>20. CASE UNCHANGED <<leader, child, escaped, killed, ctx, runVars, waited>>
  BY <1>20
<1>21. \A s \in Streams : WriteOutput(s) =>
         UNCHANGED <<leader, child, escaped, killed, ctx, runVars, waited>>
  BY DEF WriteOutput
<1> QED
  BY <1>1, <1>2, <1>3, <1>4, <1>5, <1>6, <1>7, <1>8, <1>9, <1>10, <1>11, <1>12, <1>13,
     <1>14, <1>15, <1>16, <1>17, <1>18, <1>19, <1>20, <1>21, ReadersLeave, ControlsLeave
     DEF Next, Run, Wait, vars

(* Every step keeps what the readers have done.                            *)
LEMMA OutputsStep ==
  ASSUME TypeOK, Stages, Outputs, [Next]_vars
  PROVE  Outputs'
<1> USE MaxOutputAssumption DEF TypeOK, Outputs, osVars, runVars, pipeVars, readerVars
<1>1. CASE Spawn
  BY <1>1 DEF Spawn
<1>2. CASE LeaderExits
  BY <1>2 DEF LeaderExits
<1>3. CASE ChildExits \/ EscapedExits
  BY <1>3 DEF ChildExits, EscapedExits
<1>4. CASE \E s \in Streams : WriteOutput(s)
  BY <1>4 DEF WriteOutput, Stages
<1>5. CASE Cancel
  BY <1>5 DEF Cancel
<1>6. CASE PrepareFails \/ CanceledBeforeStart \/ Prepared \/ StartFails
  BY <1>6 DEF PrepareFails, CanceledBeforeStart, Prepared, StartFails
<1>7. CASE StartCommand
  BY <1>7 DEF StartCommand, Stages
<1>8. CASE ReportStart
  BY <1>8 DEF ReportStart, Stages
<1>9. CASE AwaitCompletion
  BY <1>9 DEF AwaitCompletion
<1>10. CASE GroupGone \/ Kill
  BY <1>10 DEF GroupGone, Kill, ClosePipes
<1>11. CASE Finish
  BY <1>11 DEF Finish, Stages
<1>12. CASE WorkersWait \/ SendTerminalEvent
  BY <1>12 DEF WorkersWait, SendTerminalEvent
<1>13. CASE Reap
  BY <1>13 DEF Reap
<1>14. CASE WaitReturns
  BY <1>14 DEF WaitReturns
<1>15. CASE \E s \in Streams : ReadChunk(s)
  BY <1>15 DEF ReadChunk, ReaderStep
<1>16. CASE \E s \in Streams : ReadEOF(s)
  BY <1>16 DEF ReadEOF, ReaderStep, Writing
<1>17. CASE \E s \in Streams : BeginDrain(s) \/ ReadClosed(s) \/ ReadFails(s)
  BY <1>17 DEF BeginDrain, ReadClosed, ReadFails, ReaderStep
<1>18. CASE \E s \in Streams : DrainChunk(s)
  BY <1>18 DEF DrainChunk, ReaderStep
<1>19. CASE \E s \in Streams : DrainEnds(s)
  BY <1>19 DEF DrainEnds, ReaderStep, Stages
<1>20. CASE \E s \in Streams : SendChunk(s)
  BY <1>20 DEF SendChunk, ReaderStep
<1>21. CASE \E s \in Streams : DropChunk(s) \/ SendStreamFailure(s)
  BY <1>21 DEF DropChunk, SendStreamFailure, ReaderStep
<1>22. CASE UNCHANGED <<osVars, ctx, runVars, waited, outClosed, deadline, readerVars>>
  BY <1>22
<1> QED
  BY <1>1, <1>2, <1>3, <1>4, <1>5, <1>6, <1>7, <1>8, <1>9, <1>10, <1>11, <1>12, <1>13,
     <1>14, <1>15, <1>16, <1>17, <1>18, <1>19, <1>20, <1>21, <1>22, ControlsLeave
     DEF Next, Run, Wait, ReadOutput, vars

(* Once all readers have ended, none is started or goes on.                *)
LEMMA LastStep ==
  ASSUME TypeOK, Stages, TerminalEventIsLast, [Next]_vars
  PROVE  TerminalEventIsLast'
<1> USE DEF TerminalEventIsLast, ReaderEnded, TypeOK, osVars, runVars, readerVars
<1>1. CASE \/ Spawn \/ LeaderExits \/ ChildExits \/ EscapedExits \/ Cancel \/ Wait
           \/ \E s \in Streams : WriteOutput(s)
  BY <1>1 DEF Spawn, LeaderExits, ChildExits, EscapedExits, Cancel, Wait, Reap,
              WaitReturns, WriteOutput
<1>2. CASE PrepareFails \/ CanceledBeforeStart \/ StartFails
  BY <1>2 DEF PrepareFails, CanceledBeforeStart, StartFails, Stages
<1>3. CASE Prepared \/ StartCommand \/ ReportStart \/ AwaitCompletion
  BY <1>3 DEF Prepared, StartCommand, ReportStart, AwaitCompletion
<1>4. CASE GroupGone \/ Kill \/ Finish
  BY <1>4 DEF GroupGone, Kill, Finish
<1>5. CASE WorkersWait
  BY <1>5 DEF WorkersWait
<1>6. CASE SendTerminalEvent
  BY <1>6 DEF SendTerminalEvent
<1>7. CASE \E s \in Streams : ReadOutput(s) \/ ReadFails(s)
  <2>1. PICK s \in Streams : ReadOutput(s) \/ ReadFails(s)
    BY <1>7
  <2>2. ~ReaderEnded(s)
    BY <2>1 DEF ReadOutput, ReadChunk, ReadEOF, BeginDrain, ReadClosed, ReadFails,
                DrainChunk, DrainEnds, SendChunk, DropChunk, SendStreamFailure, ReaderStep
  <2> QED
    BY <2>1, <2>2, ReadersLeave
<1>8. CASE UNCHANGED <<osVars, ctx, runVars, waited, outClosed, deadline, readerVars>>
  BY <1>8
<1> QED
  BY <1>1, <1>2, <1>3, <1>4, <1>5, <1>6, <1>7, <1>8, ControlsLeave DEF Next, Run, vars

(* The invariant holds at first, ...                                       *)
LEMMA InvariantInit == Init => ProcessInv
<1> SUFFICES ASSUME Init PROVE ProcessInv
  OBVIOUS
<1>1. TypeOK
  BY DEF Init, TypeOK, Zeros
<1>2. Stages
  BY DEF Init, Stages
<1>3. Outputs
  BY MaxOutputAssumption DEF Init, Outputs, Zeros
<1>4. TerminalEventIsLast /\ GroupIsCleanedUp
  BY DEF Init, TerminalEventIsLast, GroupIsCleanedUp
<1> QED
  BY <1>1, <1>2, <1>3, <1>4 DEF ProcessInv

(* ... and after every step.                                               *)
LEMMA InvariantStep == ProcessInv /\ [Next]_vars => ProcessInv'
<1> SUFFICES ASSUME ProcessInv, [Next]_vars PROVE ProcessInv'
  OBVIOUS
<1>1. TypeOK' /\ Stages' /\ Outputs' /\ TerminalEventIsLast'
  BY TypeStep, StagesStep, OutputsStep, LastStep DEF ProcessInv
<1>2. GroupIsCleanedUp'
  BY <1>1 DEF GroupIsCleanedUp, Stages
<1> QED
  BY <1>1, <1>2 DEF ProcessInv

-----------------------------------------------------------------------------
(* runProcess: whatever the command, its descendants and the context do,   *)
(* the last event comes after the last event of the readers, when the      *)
(* command is reaped and its group is gone or killed.                      *)
THEOREM ProcessInvariant == Spec => []ProcessInv
BY InvariantInit, InvariantStep, PTL DEF Spec

(* streamProcessOutput, finishOutput and drainProcessOutput: a command     *)
(* that is reported as completed has had all its output delivered.         *)
THEOREM OutputIsComplete == Spec => []OutputComplete
<1>1. ProcessInv => OutputComplete
  <2> SUFFICES ASSUME ProcessInv, pc = "done", outcome = "completed", ~ctx,
                      NEW s \in Streams, reader[s] # "failed"
               PROVE  delivered[s] >= own[s]
    BY DEF OutputComplete
  <2>1. TypeOK /\ Stages /\ Outputs /\ TerminalEventIsLast
    BY DEF ProcessInv
  <2>2. CASE leader = "none"
    BY <2>1, <2>2 DEF TypeOK, Outputs
  <2>3. CASE leader # "none"
    <3>1. reader[s] = "done"
      BY <2>1, <2>3 DEF TerminalEventIsLast, ReaderEnded
    <3>2. taken[s] = delivered[s] /\ own[s] <= taken[s]
      BY <2>1, <3>1 DEF TypeOK, Outputs
    <3> QED
      BY <2>1, <3>2 DEF TypeOK
  <2> QED
    BY <2>2, <2>3
<1> QED
  BY <1>1, ProcessInvariant, PTL

(* Every step of the invocation is a step of the contract, or none.        *)
LEMMA StepRefines ==
  ASSUME ProcessInv, [Next]_vars
  PROVE  [Contract!ContractNext]_(Contract!contractVars)
<1> USE DEF ProcessInv, TypeOK, osVars, runVars, Contract!contractVars
<1>1. CASE Cancel
  <2>1. Contract!ContractCancel
    BY <1>1 DEF Cancel, Stage, Contract!ContractCancel
  <2> QED
    BY <2>1 DEF Contract!ContractNext
<1>2. CASE PrepareFails \/ CanceledBeforeStart \/ Prepared \/ StartFails
  <2>1. Stage = "new" /\ Stage' = "new"
    BY <1>2 DEF PrepareFails, CanceledBeforeStart, Prepared, StartFails, Stage
  <2>2. UNCHANGED <<outcome, ctx>>
    BY <1>2 DEF PrepareFails, CanceledBeforeStart, Prepared, StartFails
  <2> QED
    BY <2>1, <2>2
<1>3. CASE StartCommand
  <2>1. Contract!ContractStart
    BY <1>3 DEF StartCommand, Stage, Contract!ContractStart
  <2> QED
    BY <2>1 DEF Contract!ContractNext
<1>4. CASE ReportStart
  <2>1. Contract!ContractReport
    BY <1>4 DEF ReportStart, Stage, Contract!ContractReport
  <2> QED
    BY <2>1 DEF Contract!ContractNext
<1>5. CASE AwaitCompletion \/ GroupGone \/ Kill \/ Finish \/ WorkersWait
  <2>1. Stage = "reported" /\ Stage' = "reported"
    BY <1>5 DEF AwaitCompletion, GroupGone, Kill, Finish, WorkersWait, Stage, Stages
  <2>2. UNCHANGED <<outcome, ctx>>
    BY <1>5 DEF AwaitCompletion, GroupGone, Kill, Finish, WorkersWait
  <2> QED
    BY <2>1, <2>2
<1>6. CASE SendTerminalEvent
  <2>1. Stage' = "ended" /\ ctx' = ctx
    BY <1>6 DEF SendTerminalEvent, Stage
  <2>2. CASE startErr
    <3>1. Stage = "new" /\ outcome' \in Contract!Outcomes(ctx)
      BY <1>6, <2>2 DEF SendTerminalEvent, Stage, Stages, Contract!Outcomes
    <3> QED
      BY <2>1, <3>1 DEF Contract!ContractEnd, Contract!ContractNext
  <2>3. CASE ~startErr
    <3>1. Stage = "reported" /\ outcome' \in Contract!Outcomes(ctx) \cup {"completed"}
      BY <1>6, <2>3 DEF SendTerminalEvent, Stage, Stages, Contract!Outcomes
    <3> QED
      BY <2>1, <3>1 DEF Contract!ContractEnd, Contract!ContractNext
  <2> QED
    BY <2>2, <2>3
<1>7. CASE UNCHANGED <<ctx, runVars>>
  BY <1>7 DEF Stage
<1>8. CASE \/ Spawn \/ LeaderExits \/ ChildExits \/ EscapedExits \/ Wait
           \/ \E s \in Streams : WriteOutput(s)
  BY <1>7, <1>8 DEF Spawn, LeaderExits, ChildExits, EscapedExits, Wait, Reap,
                    WaitReturns, WriteOutput
<1> QED
  BY <1>1, <1>2, <1>3, <1>4, <1>5, <1>6, <1>7, <1>8, ReadersLeave, ControlsLeave
     DEF Next, Run, vars

(* The events of the primitive are those that OperationManager relies on.  *)
THEOREM PrimitiveImplementsContract == Spec => ImplementsContract
<1>1. Init => Contract!ContractInit
  BY DEF Init, Stage, Contract!ContractInit
<1>2. ProcessInv /\ [Next]_vars => [Contract!ContractNext]_(Contract!contractVars)
  BY StepRefines
<1> QED
  BY <1>1, <1>2, ProcessInvariant, PTL
     DEF Spec, ImplementsContract, Contract!ContractSpec

=============================================================================
