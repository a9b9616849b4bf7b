-------------------------- MODULE CommandRunProofs --------------------------
(***************************************************************************)
(* What is proved of CommandRun for any exit codes, number of attempts and *)
(* number of faults.                                                       *)
(***************************************************************************)
EXTENDS CommandRun, TLAPS

(* The actions of Next, one by one.                                        *)
LEMMA NextCases ==
    ASSUME Next
    PROVE  \/ CopyBegins \/ CopyEnds \/ GetPhase \/ StreamMarker
           \/ StreamEnds \/ StreamBreaks \/ DrainLog \/ Streamed
           \/ WaitCompletion \/ CopyFiles \/ SignalCopyDone \/ Cleanup
           \/ Expire \/ KillPod \/ HostDies
           \/ RunScript \/ Sleep \/ ScriptEnds \/ CopyWaitEnds
           \/ Trap \/ TrapEnds \/ CommandExits
           \/ ContainerKilled \/ PodDeleted \/ PodRemoved
BY DEF Next, HostStep, ScriptStep

-----------------------------------------------------------------------------
(* Type correctness.                                                       *)

LEMMA TypeInit == Init => TypeOK
<1> SUFFICES ASSUME Init
             PROVE  TypeOK
  OBVIOUS
<1>1. HostTypeOK
  BY CommandConstants DEF Init, HostTypeOK, HostAt
<1>2. PodTypeOK
  BY CommandConstants DEF Init, PodTypeOK, PodAt, ExitCodes
<1>3. FlagsTypeOK
  BY DEF Init, FlagsTypeOK
<1>4. QED
  BY <1>1, <1>2, <1>3 DEF TypeOK

(* The number of attempts stays in its range because an attempt begins     *)
(* only while one is left (hipretry.Retry).                                *)
AttemptsLeft == hostAt = "copy" => attempt < CopyAttempts

LEMMA AttemptStep == TypeOK /\ AttemptsLeft /\ [Next]_vars => AttemptsLeft'
<1> SUFFICES ASSUME TypeOK, AttemptsLeft, [Next]_vars
             PROVE  AttemptsLeft'
  OBVIOUS
<1>1. CASE CopyEnds
  BY <1>1 DEF CopyEnds, CopyAttemptFails, AfterCommand, AttemptsLeft
<1>2. CASE hostAt' # "copy"
  BY <1>2 DEF AttemptsLeft
<1>3. CASE UNCHANGED <<hostAt, attempt>>
  BY <1>3 DEF AttemptsLeft
<1>4. ASSUME HostStep, ~CopyEnds
      PROVE  hostAt' # "copy"
  BY <1>4 DEF HostStep, CopyBegins, GetPhase, StreamMarker, StreamEnds, StreamBreaks,
              DrainLog, Streamed, WaitCompletion, CopyFiles, SignalCopyDone, Cleanup,
              HostGoto, OutcomeOf, Outcome, AfterCommand
<1>5. ASSUME HostDies
      PROVE  hostAt' # "copy"
  BY <1>5 DEF HostDies, HostGoto
<1>6. ASSUME Expire \/ KillPod \/ ScriptStep \/ CommandExits \/ ContainerKilled
             \/ PodDeleted \/ PodRemoved \/ UNCHANGED vars
      PROVE  UNCHANGED <<hostAt, attempt>>
  BY <1>6 DEF Expire, KillPod, ScriptStep, RunScript, Sleep, ScriptEnds, CopyWaitEnds,
              Trap, TrapEnds, CommandExits, ContainerKilled, PodDeleted, PodRemoved,
              Untouched, hostVars, vars
<1>7. QED
  BY <1>1, <1>2, <1>3, <1>4, <1>5, <1>6 DEF Next

LEMMA DataStep == TypeOK /\ AttemptsLeft /\ [Next]_vars => HostTypeOK' /\ PodTypeOK'
<1> SUFFICES ASSUME TypeOK, AttemptsLeft, [Next]_vars
             PROVE  HostTypeOK' /\ PodTypeOK'
  OBVIOUS
<1> USE CommandConstants
    DEF TypeOK, HostTypeOK, PodTypeOK, HostAt, PodAt, ExitCodes, hostVars, logVars, cmdVars,
        podVars, endVars, timeVars, Fault, NoFault, HostGoto, DeleteObject, AfterCommand, Exit,
        Untouched
<1>1. CASE CopyBegins
  BY <1>1 DEF CopyBegins, AttemptsLeft
<1>2. CASE CopyEnds
  BY <1>2 DEF CopyEnds, CopyAttemptFails
<1>3. CASE GetPhase
  BY <1>3 DEF GetPhase
<1>4. CASE StreamMarker
  BY <1>4 DEF StreamMarker, ReceiveMarker, Receivable, ParseMarker
<1>5. CASE StreamEnds
  BY <1>5 DEF StreamEnds
<1>6. CASE StreamBreaks
  BY <1>6 DEF StreamBreaks, ReceiveCutMarker, Receivable, ParseMarker, CutNumbers
<1>7. CASE DrainLog
  BY <1>7 DEF DrainLog, ReceiveMarker, ReceiveCutMarker, Receivable, ParseMarker, CutNumbers
<1>8. CASE Streamed
  BY <1>8 DEF Streamed, OutcomeOf, Outcome
<1>9. CASE WaitCompletion
  BY <1>9 DEF WaitCompletion, OutcomeOf, Outcome
<1>10. CASE CopyFiles
  BY <1>10 DEF CopyFiles
<1>11. CASE SignalCopyDone
  BY <1>11 DEF SignalCopyDone
<1>12. CASE Cleanup
  BY <1>12 DEF Cleanup
<1>13. CASE Expire
  BY <1>13 DEF Expire, HostRuns
<1>14. CASE KillPod
  BY <1>14 DEF KillPod, HostRuns
<1>15. CASE HostDies
  BY <1>15 DEF HostDies, HostRuns
<1>16. CASE RunScript
  BY <1>16 DEF RunScript
<1>17. CASE Sleep
  BY <1>17 DEF Sleep
<1>18. CASE ScriptEnds
  BY <1>18 DEF ScriptEnds
<1>19. CASE CopyWaitEnds
  BY <1>19 DEF CopyWaitEnds
<1>20. CASE Trap
  BY <1>20 DEF Trap
<1>21. CASE TrapEnds
  BY <1>21 DEF TrapEnds
<1>22. CASE CommandExits
  BY <1>22 DEF CommandExits
<1>23. CASE ContainerKilled
  BY <1>23 DEF ContainerKilled
<1>24. CASE PodDeleted
  BY <1>24 DEF PodDeleted
<1>25. CASE PodRemoved
  BY <1>25 DEF PodRemoved
<1>26. CASE UNCHANGED vars
  BY <1>26 DEF vars
<1>27. QED
  BY <1>1, <1>2, <1>3, <1>4, <1>5, <1>6, <1>7, <1>8, <1>9, <1>10, <1>11,
     <1>12, <1>13, <1>14, <1>15, <1>16, <1>17, <1>18, <1>19, <1>20, <1>21,
     <1>22, <1>23, <1>24, <1>25, <1>26, NextCases

LEMMA FlagsStep == TypeOK /\ [Next]_vars => FlagsTypeOK'
<1> SUFFICES ASSUME TypeOK, [Next]_vars
             PROVE  FlagsTypeOK'
  OBVIOUS
<1> USE DEF TypeOK, FlagsTypeOK, hostVars, logVars, cmdVars, podVars, endVars,
        timeVars, Fault, NoFault, HostGoto, DeleteObject, Exit, Untouched
<1>1. CASE CopyBegins
  BY <1>1 DEF CopyBegins
<1>2. CASE CopyEnds
  BY <1>2 DEF CopyEnds, CopyAttemptFails
<1>3. CASE GetPhase
  BY <1>3 DEF GetPhase
<1>4. CASE StreamMarker
  BY <1>4 DEF StreamMarker, ReceiveMarker, Receivable, ParseMarker
<1>5. CASE StreamEnds
  BY <1>5 DEF StreamEnds
<1>6. CASE StreamBreaks
  BY <1>6 DEF StreamBreaks, ReceiveCutMarker, Receivable, ParseMarker, CutNumbers
<1>7. CASE DrainLog
  BY <1>7 DEF DrainLog, ReceiveMarker, ReceiveCutMarker, Receivable, ParseMarker, CutNumbers
<1>8. CASE Streamed
  BY <1>8 DEF Streamed, OutcomeOf, Outcome
<1>9. CASE WaitCompletion
  BY <1>9 DEF WaitCompletion, OutcomeOf, Outcome
<1>10. CASE CopyFiles
  BY <1>10 DEF CopyFiles
<1>11. CASE SignalCopyDone
  BY <1>11 DEF SignalCopyDone
<1>12. CASE Cleanup
  BY <1>12 DEF Cleanup
<1>13. CASE Expire
  BY <1>13 DEF Expire, HostRuns
<1>14. CASE KillPod
  BY <1>14 DEF KillPod, HostRuns
<1>15. CASE HostDies
  BY <1>15 DEF HostDies, HostRuns
<1>16. CASE RunScript
  BY <1>16 DEF RunScript
<1>17. CASE Sleep
  BY <1>17 DEF Sleep
<1>18. CASE ScriptEnds
  BY <1>18 DEF ScriptEnds
<1>19. CASE CopyWaitEnds
  BY <1>19 DEF CopyWaitEnds
<1>20. CASE Trap
  BY <1>20 DEF Trap
<1>21. CASE TrapEnds
  BY <1>21 DEF TrapEnds
<1>22. CASE CommandExits
  BY <1>22 DEF CommandExits
<1>23. CASE ContainerKilled
  BY <1>23 DEF ContainerKilled
<1>24. CASE PodDeleted
  BY <1>24 DEF PodDeleted
<1>25. CASE PodRemoved
  BY <1>25 DEF PodRemoved
<1>26. CASE UNCHANGED vars
  BY <1>26 DEF vars
<1>27. QED
  BY <1>1, <1>2, <1>3, <1>4, <1>5, <1>6, <1>7, <1>8, <1>9, <1>10, <1>11,
     <1>12, <1>13, <1>14, <1>15, <1>16, <1>17, <1>18, <1>19, <1>20, <1>21,
     <1>22, <1>23, <1>24, <1>25, <1>26, NextCases

LEMMA TypeStep == TypeOK /\ AttemptsLeft /\ [Next]_vars => TypeOK'
BY DataStep, FlagsStep DEF TypeOK

(* Every variable keeps its type.                                          *)
THEOREM TypeCorrect == Spec => []TypeOK
<1>1. Init => AttemptsLeft
  BY CommandConstants DEF Init, AttemptsLeft
<1>2. QED
  BY <1>1, TypeInit, TypeStep, AttemptStep, PTL DEF Spec

-----------------------------------------------------------------------------
(* Success is real.                                                        *)

LEMMA SuccessInit == Init => SuccessInv
BY DEF Init, SuccessInv, ZeroMeansDone, Returned

LEMMA SuccessStep == TypeOK /\ SuccessInv /\ [Next]_vars => SuccessInv'
<1> SUFFICES ASSUME TypeOK, SuccessInv, [Next]_vars
             PROVE  SuccessInv'
  OBVIOUS
<1> USE DEF SuccessInv, ZeroMeansDone, Returned, TypeOK, HostTypeOK, PodTypeOK,
            HostAt, PodAt, hostVars, logVars, cmdVars, podVars, HostGoto, AfterCommand, Exit,
            Untouched
<1>1. CASE CopyBegins
  BY <1>1 DEF CopyBegins
<1>2. CASE CopyEnds
  BY <1>2 DEF CopyEnds, CopyAttemptFails
<1>3. CASE GetPhase
  BY <1>3 DEF GetPhase
<1>4. CASE StreamMarker
  BY <1>4 DEF StreamMarker, ReceiveMarker, Receivable, ParseMarker
<1>5. CASE StreamEnds
  BY <1>5 DEF StreamEnds
<1>6. CASE StreamBreaks
  BY <1>6 DEF StreamBreaks, ReceiveCutMarker, Receivable, ParseMarker,
     CutNumbers
<1>7. CASE DrainLog
  BY <1>7 DEF DrainLog, ReceiveMarker, ReceiveCutMarker, Receivable,
     ParseMarker, CutNumbers
<1>8. CASE Streamed
  BY <1>8 DEF Streamed, OutcomeOf, Outcome
<1>9. CASE WaitCompletion
  BY <1>9 DEF WaitCompletion, OutcomeOf, Outcome
<1>10. CASE CopyFiles
  BY <1>10 DEF CopyFiles
<1>11. CASE SignalCopyDone
  BY <1>11 DEF SignalCopyDone
<1>12. CASE Cleanup
  BY <1>12 DEF Cleanup
<1>13. CASE Expire
  BY <1>13 DEF Expire, HostRuns
<1>14. CASE KillPod
  BY <1>14 DEF KillPod, HostRuns
<1>15. CASE HostDies
  BY <1>15 DEF HostDies, HostRuns
<1>16. CASE RunScript
  BY <1>16 DEF RunScript
<1>17. CASE Sleep
  BY <1>17 DEF Sleep
<1>18. CASE ScriptEnds
  BY <1>18 DEF ScriptEnds
<1>19. CASE CopyWaitEnds
  BY <1>19 DEF CopyWaitEnds
<1>20. CASE Trap
  BY <1>20 DEF Trap
<1>21. CASE TrapEnds
  BY <1>21 DEF TrapEnds
<1>22. CASE CommandExits
  BY <1>22 DEF CommandExits
<1>23. CASE ContainerKilled
  BY <1>23 DEF ContainerKilled
<1>24. CASE PodDeleted
  BY <1>24 DEF PodDeleted
<1>25. CASE PodRemoved
  BY <1>25 DEF PodRemoved
<1>26. CASE UNCHANGED vars
  BY <1>26 DEF vars
<1>27. QED
  BY <1>1, <1>2, <1>3, <1>4, <1>5, <1>6, <1>7, <1>8, <1>9, <1>10, <1>11,
     <1>12, <1>13, <1>14, <1>15, <1>16, <1>17, <1>18, <1>19, <1>20, <1>21,
     <1>22, <1>23, <1>24, <1>25, <1>26, NextCases

(* The invariant on which this rests, as the runs check it.                *)
THEOREM SuccessInvariant == Spec => []SuccessInv
BY SuccessInit, SuccessStep, TypeCorrect, PTL DEF Spec

(* Status 0 is never returned for a command that did not run to its end    *)
(* and exit with 0, whatever fails (executor.go:196-297, 376-409).         *)
THEOREM SuccessOnlyAfterZero == Spec => []SuccessIsReal
<1>1. TypeOK /\ SuccessInv => SuccessIsReal
  BY DEF SuccessInv, SuccessIsReal, Result, Returned, TypeOK, HostTypeOK
<1>2. QED
  BY <1>1, SuccessInit, SuccessStep, TypeCorrect, PTL DEF Spec

-----------------------------------------------------------------------------
(* The container waits for the copies.                                     *)

(* Once the marker is out, PID 1 stays until the host has said that it is  *)
(* done, which it does after the copies only.                              *)
WaitInv ==
    /\ marker => podAt = "copywait" \/ copyDone \/ waitOver \/ termed \/ killed
    /\ copyDone => hostAt \in {"returned", "cleaned", "dead"}

LEMMA WaitStep == TypeOK /\ WaitInv /\ [Next]_vars => WaitInv'
<1> SUFFICES ASSUME TypeOK, WaitInv, [Next]_vars
             PROVE  WaitInv'
  OBVIOUS
<1> USE DEF WaitInv, TypeOK, HostTypeOK, PodTypeOK, FlagsTypeOK, HostAt, PodAt,
            hostVars, logVars, cmdVars, podVars, endVars, HostGoto, DeleteObject,
            AfterCommand, Exit, Untouched
<1>1. CASE CopyBegins
  BY <1>1 DEF CopyBegins
<1>2. CASE CopyEnds
  BY <1>2 DEF CopyEnds, CopyAttemptFails
<1>3. CASE GetPhase
  BY <1>3 DEF GetPhase
<1>4. CASE StreamMarker
  BY <1>4 DEF StreamMarker, ReceiveMarker, Receivable, ParseMarker
<1>5. CASE StreamEnds
  BY <1>5 DEF StreamEnds
<1>6. CASE StreamBreaks
  BY <1>6 DEF StreamBreaks, ReceiveCutMarker, Receivable, ParseMarker
<1>7. CASE DrainLog
  BY <1>7 DEF DrainLog, ReceiveMarker, ReceiveCutMarker, Receivable, ParseMarker
<1>8. CASE Streamed
  BY <1>8 DEF Streamed, OutcomeOf, Outcome
<1>9. CASE WaitCompletion
  BY <1>9 DEF WaitCompletion, OutcomeOf, Outcome
<1>10. CASE CopyFiles
  BY <1>10 DEF CopyFiles
<1>11. CASE SignalCopyDone
  BY <1>11 DEF SignalCopyDone
<1>12. CASE Cleanup
  BY <1>12 DEF Cleanup
<1>13. CASE Expire
  BY <1>13 DEF Expire
<1>14. CASE KillPod
  BY <1>14 DEF KillPod
<1>15. CASE HostDies
  BY <1>15 DEF HostDies, HostRuns
<1>16. CASE RunScript
  BY <1>16 DEF RunScript
<1>17. CASE Sleep
  BY <1>17 DEF Sleep
<1>18. CASE ScriptEnds
  BY <1>18 DEF ScriptEnds
<1>19. CASE CopyWaitEnds
  BY <1>19 DEF CopyWaitEnds
<1>20. CASE Trap
  BY <1>20 DEF Trap
<1>21. CASE TrapEnds
  BY <1>21 DEF TrapEnds
<1>22. CASE CommandExits
  BY <1>22 DEF CommandExits
<1>23. CASE ContainerKilled
  BY <1>23 DEF ContainerKilled
<1>24. CASE PodDeleted
  BY <1>24 DEF PodDeleted
<1>25. CASE PodRemoved
  BY <1>25 DEF PodRemoved
<1>26. CASE UNCHANGED vars
  BY <1>26 DEF vars
<1>27. QED
  BY <1>1, <1>2, <1>3, <1>4, <1>5, <1>6, <1>7, <1>8,
     <1>9, <1>10, <1>11, <1>12, <1>13, <1>14, <1>15, <1>16, <1>17,
     <1>18, <1>19, <1>20, <1>21, <1>22, <1>23, <1>24, <1>25, <1>26, NextCases

(* The host that copies files because it saw the marker finds the          *)
(* container alive, unless the 300 s were over or somebody stopped it      *)
(* (script.sh:56-66, executor.go:288-291).                                 *)
THEOREM ContainerAwaitsCopies == Spec => []AliveForCopy
<1>1. Init => WaitInv
  BY DEF Init, WaitInv
<1>2. SuccessInv /\ WaitInv => AliveForCopy
  BY DEF SuccessInv, WaitInv, AliveForCopy
<1>3. QED
  BY <1>1, <1>2, WaitStep, SuccessInvariant, TypeCorrect, PTL DEF Spec

-----------------------------------------------------------------------------
(* The reported code.                                                      *)

(* The code of the command is settled before it goes into the marker; what *)
(* the host parses is that code or a prefix of it; and a code that is not  *)
(* from the marker is that of a container that has ended.                  *)
ReportInv ==
    /\ podAt = "waiting" => cmd = "none"
    /\ podAt \in {"ended", "copywait"} \/ marker => cmd # "running"
    /\ marker => copyFrom /\ podAt \notin {"waiting", "running"}
    /\ found => marker /\ seen \in CutNumbers(code)
    /\ hostAt = "complete" => ~found
    /\ hostAt \in {"copy", "writing", "phase", "stream", "drain", "streamed", "complete"}
          => outcome = "none"
    /\ outcome = "code" => IF found THEN reported \in CutNumbers(code)
                           ELSE podAt = "exited" /\ reported = podCode

LEMMA WholeNumber == ASSUME NEW n \in Nat PROVE n \in CutNumbers(n)
BY DEF CutNumbers

LEMMA ReportStep == TypeOK /\ ReportInv /\ [Next]_vars => ReportInv'
<1> SUFFICES ASSUME TypeOK, ReportInv, [Next]_vars
             PROVE  ReportInv'
  OBVIOUS
<1>0. code \in Nat /\ code \in CutNumbers(code)
  BY WholeNumber, CommandConstants DEF TypeOK, PodTypeOK, ExitCodes
<1> USE DEF ReportInv, TypeOK, HostTypeOK, PodTypeOK, FlagsTypeOK, HostAt, PodAt,
            hostVars, logVars, cmdVars, podVars, endVars, HostGoto, DeleteObject,
            AfterCommand, Exit, Untouched
<1>1. CASE CopyBegins
  BY <1>1, <1>0 DEF CopyBegins
<1>2. CASE CopyEnds
  BY <1>2, <1>0 DEF CopyEnds, CopyAttemptFails
<1>3. CASE GetPhase
  BY <1>3, <1>0 DEF GetPhase
<1>4. CASE StreamMarker
  BY <1>4, <1>0 DEF StreamMarker, ReceiveMarker, Receivable, ParseMarker
<1>5. CASE StreamEnds
  BY <1>5, <1>0 DEF StreamEnds
<1>6. CASE StreamBreaks
  BY <1>6, <1>0 DEF StreamBreaks, ReceiveCutMarker, Receivable, ParseMarker
<1>7. CASE DrainLog
  BY <1>7, <1>0 DEF DrainLog, ReceiveMarker, ReceiveCutMarker, Receivable, ParseMarker
<1>8. CASE Streamed
  BY <1>8, <1>0 DEF Streamed, OutcomeOf, Outcome
<1>9. CASE WaitCompletion
  BY <1>9, <1>0 DEF WaitCompletion, OutcomeOf, Outcome
<1>10. CASE CopyFiles
  BY <1>10, <1>0 DEF CopyFiles
<1>11. CASE SignalCopyDone
  BY <1>11, <1>0 DEF SignalCopyDone
<1>12. CASE Cleanup
  BY <1>12, <1>0 DEF Cleanup
<1>13. CASE Expire
  BY <1>13, <1>0 DEF Expire
<1>14. CASE KillPod
  BY <1>14, <1>0 DEF KillPod
<1>15. CASE HostDies
  BY <1>15, <1>0 DEF HostDies, HostRuns
<1>16. CASE RunScript
  BY <1>16, <1>0 DEF RunScript
<1>17. CASE Sleep
  BY <1>17, <1>0 DEF Sleep
<1>18. CASE ScriptEnds
  BY <1>18, <1>0 DEF ScriptEnds
<1>19. CASE CopyWaitEnds
  BY <1>19, <1>0 DEF CopyWaitEnds
<1>20. CASE Trap
  BY <1>20, <1>0 DEF Trap
<1>21. CASE TrapEnds
  BY <1>21, <1>0 DEF TrapEnds
<1>22. CASE CommandExits
  BY <1>22, <1>0 DEF CommandExits
<1>23. CASE ContainerKilled
  BY <1>23, <1>0 DEF ContainerKilled
<1>24. CASE PodDeleted
  BY <1>24, <1>0 DEF PodDeleted
<1>25. CASE PodRemoved
  BY <1>25, <1>0 DEF PodRemoved
<1>26. CASE UNCHANGED vars
  BY <1>26 DEF vars
<1>27. QED
  BY <1>1, <1>2, <1>3, <1>4, <1>5, <1>6, <1>7, <1>8,
     <1>9, <1>10, <1>11, <1>12, <1>13, <1>14, <1>15, <1>16, <1>17,
     <1>18, <1>19, <1>20, <1>21, <1>22, <1>23, <1>24, <1>25, <1>26, NextCases

(* A code that exec reports is the code of the command, up to a marker     *)
(* that was cut short, or that of the container; never a stale one         *)
(* (executor.go:288-295, 396-405).                                         *)
THEOREM ReportedCodeIsActual == Spec => []ReportedIsActual
<1>1. Init => ReportInv
  BY DEF Init, ReportInv
<1>2. ReportInv => ReportedIsActual
  BY DEF ReportInv, ReportedIsActual
<1>3. QED
  BY <1>1, <1>2, ReportStep, TypeCorrect, PTL DEF Spec

-----------------------------------------------------------------------------
(* The contract.                                                           *)

(* The steps that do not concern the contract.                             *)
LEMMA QuietStep ==
    ASSUME TypeOK, [Next]_vars,
           ~Cleanup, ~RunScript, ~CommandExits, ~TrapEnds, ~ContainerKilled
    PROVE  UNCHANGED <<CommandState, Told>>
<1>1. UNCHANGED <<cmd, code, ranOn>>
  BY NextCases DEF CopyBegins, CopyEnds, GetPhase, StreamMarker, StreamEnds,
     StreamBreaks, DrainLog, Streamed, WaitCompletion, CopyFiles,
     SignalCopyDone, Expire, KillPod, HostDies, Sleep, ScriptEnds,
     CopyWaitEnds, Trap, PodDeleted, PodRemoved, Untouched, podVars,
     cmdVars, vars
<1>2. \/ UNCHANGED <<hostAt, outcome, copied, cleanup>>
      \/ hostAt # "cleaned" /\ hostAt' # "cleaned"
  BY NextCases DEF CopyBegins, CopyEnds, GetPhase, StreamMarker, StreamEnds,
     StreamBreaks, DrainLog, Streamed, WaitCompletion, CopyFiles,
     SignalCopyDone, Expire, KillPod, HostDies, Sleep, ScriptEnds,
     CopyWaitEnds, Trap, PodDeleted, PodRemoved, HostGoto, CopyAttemptFails,
     OutcomeOf, Outcome, AfterCommand, HostRuns, Untouched, hostVars, endVars, vars
<1>3. QED
  BY <1>1, <1>2 DEF CommandState, Told, Result

LEMMA ContractStep ==
    ASSUME TypeOK, SuccessInv, [Next]_vars
    PROVE  [Contract!Next]_<<CommandState, Told>>
<1> USE DEF Contract!Next, Contract!Start, Contract!End, Contract!Ends,
            Contract!TellSuccess, Contract!TellFailure, CommandState, Told, Result
<1>1. CASE Cleanup
  <2>1. UNCHANGED CommandState /\ Told = "nothing"
    BY <1>1 DEF Cleanup, podVars, cmdVars
  <2>2. CASE Result' = "ok"
    <3>1. outcome = "ok"
      BY <1>1, <2>2 DEF Cleanup, HostGoto
    <3>2. cmd = "exited" /\ code = 0
      BY <3>1 DEF SuccessInv
    <3>3. QED
      BY <1>1, <2>1, <2>2, <3>2 DEF Cleanup, HostGoto
  <2>3. CASE Result' # "ok"
    BY <1>1, <2>1, <2>3 DEF Cleanup, HostGoto
  <2>4. QED
    BY <2>2, <2>3
<1>2. CASE RunScript
  BY <1>2 DEF RunScript, Untouched, hostVars, endVars, SuccessInv
<1>3. CASE CommandExits
  BY <1>3 DEF CommandExits, Untouched, hostVars, endVars
<1>4. CASE TrapEnds
  BY <1>4 DEF TrapEnds, Untouched, hostVars, endVars
<1>5. CASE ContainerKilled
  BY <1>5 DEF ContainerKilled, hostVars
<1>6. QED
  BY <1>1, <1>2, <1>3, <1>4, <1>5, QuietStep

(* Host and pod together implement the contract: the command starts at     *)
(* most once and success is told only of a command that ended with 0       *)
(* (executor.go:196-297, script.sh:29-66), for any number of copies of the *)
(* script, broken streams, lost answers, kills and deletions.              *)
THEOREM ContractImplemented == Spec => ImplementsContract
<1>1. Init => Contract!Init
  BY DEF Init, Contract!Init, CommandState, Told
<1>2. TypeOK /\ SuccessInv /\ [Next]_vars => [Contract!Next]_<<CommandState, Told>>
  BY ContractStep
<1>3. QED
  BY <1>1, <1>2, SuccessInit, SuccessStep, TypeCorrect, PTL
     DEF Spec, ImplementsContract, Contract!Spec, Contract!contractVars

=============================================================================
