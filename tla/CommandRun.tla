----------------------------- MODULE CommandRun -----------------------------
(***************************************************************************)
(* One command of "helm in-pod exec", from the moment its pod is ready.    *)
(* The host copies the command into the pod as a script, follows the log   *)
(* of the pod and works out how the command ended (ExecuteCommand,         *)
(* waitForPodCompletion and the marker writer in executor.go, the          *)
(* copy-from part of cmd/exec.go).  In the pod, script.sh waits for the    *)
(* script, runs it and, with --copy-from, announces the exit code in the   *)
(* log and stays alive until the host has copied the files.  Meanwhile     *)
(* connections break, --timeout passes, and the pod or the host may die.   *)
(***************************************************************************)
EXTENDS Naturals

CONSTANTS Codes,         \* exit codes the command may have
          CopyAttempts,  \* --copy-attempts, at least 1 (cmd/exec.go:36)
          Timeout,       \* the TIMEOUT of script.sh, in seconds
          MaxCuts,       \* bound: copies that stop in the middle of the file
          MaxFaults,     \* bound: other calls and streams that break
          HostMayDie,    \* may the host process die?
          PodMayDie      \* may somebody else kill or delete the pod?

ASSUME CommandConstants ==
    /\ HostMayDie \in BOOLEAN /\ PodMayDie \in BOOLEAN
    /\ Codes \subseteq 0..255
    /\ CopyAttempts \in Nat \ {0}
    /\ Timeout \in Nat \ {0}
    /\ MaxCuts \in Nat /\ MaxFaults \in Nat

VARIABLES copyFrom,  \* is --copy-from given? (never changes)
          hostAt,    \* where RunE is
          attempt,   \* attempts of CopyFileToPod begun so far
          outcome,   \* what ExecuteCommand returned ...
          reported,  \* ... and the code if that was an ExitCodeError
          copied,    \* what came of the copies from the pod
          found,     \* the marker writer has found the marker ...
          seen,      \* ... with this exit code
          lost,      \* the marker is older than "since": not sent again
          script,    \* the script file in the pod
          podAt,     \* where script.sh is
          myTime,    \* MY_TIME of script.sh
          ranOn,     \* what the script file was when script.sh ran it
          cmd,       \* the command itself
          code,      \* CMD_EXIT of script.sh
          marker,    \* the marker is in the log
          copyDone,  \* /tmp/copy-done exists
          waitOver,  \* script.sh gave up waiting for it
          podCode,   \* exit code of the container, once it has exited
          termed,    \* SIGTERM was sent to script.sh
          killed,    \* the container was killed without SIGTERM
          object,    \* the pod's API object: "live", "deleting", "gone"
          cleanup,   \* what the deferred DeleteHelmPods returned
          expired,   \* the context of --timeout is done
          killer,    \* the goroutine that then kills script.sh
          cuts, faults

hostVars == <<copyFrom, hostAt, attempt, outcome, reported, copied>>
logVars == <<found, seen, lost>>
cmdVars == <<ranOn, cmd, code>>
podVars == <<podAt, myTime, cmdVars, marker, waitOver, podCode>>
endVars == <<termed, killed, object, cleanup>>
timeVars == <<expired, killer>>
vars == <<hostVars, logVars, script, podVars, copyDone, endVars, timeVars, cuts, faults>>

HostAt == {"copy", "writing", "phase", "stream", "drain", "streamed", "complete",
           "copyfrom", "signal", "returned", "cleaned", "dead"}
PodAt == {"waiting", "running", "ended", "copywait", "trap", "exited"}
ExitCodes == Codes \cup {1, 126, 127, 137}

HostTypeOK ==
    /\ copyFrom \in BOOLEAN
    /\ hostAt \in HostAt /\ attempt \in 0..CopyAttempts
    /\ outcome \in {"none", "ok", "err", "code"} /\ reported \in Nat
    /\ copied \in {"none", "ok", "failed"} /\ cleanup \in {"none", "ok", "failed"}
    /\ seen \in Nat
    /\ killer \in {"none", "armed", "over"}
    /\ cuts \in 0..MaxCuts /\ faults \in 0..MaxFaults

PodTypeOK ==
    /\ script \in {"none", "open", "cut", "full"}
    /\ podAt \in PodAt /\ myTime \in Nat
    /\ ranOn \in {"none", "missing", "open", "cut", "full"}
    /\ cmd \in {"none", "running", "exited", "killed"}
    /\ code \in ExitCodes \cup {0} /\ podCode \in ExitCodes \cup {0}
    /\ object \in {"live", "deleting", "gone"}

FlagsTypeOK ==
    /\ found \in BOOLEAN /\ lost \in BOOLEAN
    /\ marker \in BOOLEAN /\ copyDone \in BOOLEAN /\ waitOver \in BOOLEAN
    /\ termed \in BOOLEAN /\ killed \in BOOLEAN /\ expired \in BOOLEAN

TypeOK == HostTypeOK /\ PodTypeOK /\ FlagsTypeOK

Init ==
    /\ copyFrom \in BOOLEAN
    /\ hostAt = "copy" /\ attempt = 0
    /\ outcome = "none" /\ reported = 0 /\ copied = "none"
    /\ found = FALSE /\ seen = 0 /\ lost = FALSE
    /\ script = "none" /\ podAt = "waiting" /\ myTime = 0
    /\ ranOn = "none" /\ cmd = "none" /\ code = 0
    /\ marker = FALSE /\ copyDone = FALSE /\ waitOver = FALSE /\ podCode = 0
    /\ termed = FALSE /\ killed = FALSE /\ object = "live" /\ cleanup = "none"
    /\ expired = FALSE /\ killer = "none"
    /\ cuts = 0 /\ faults = 0

Fault == faults < MaxFaults /\ faults' = faults + 1
NoFault == UNCHANGED faults

-----------------------------------------------------------------------------
(* The host: CopyFileToPod, which runs "tar zxf -" in the pod.             *)

(* cmd/exec.go: after ExecuteCommand, whatever it returned.                *)
AfterCommand == IF copyFrom THEN "copyfrom" ELSE "returned"

(* Mutation: one attempt too many.                                         *)
CopyAttemptFailsLate ==
    IF attempt <= CopyAttempts THEN hostAt' = "copy" /\ UNCHANGED outcome
    ELSE hostAt' = AfterCommand /\ outcome' = "err"

CopyAttemptFails ==
    IF attempt < CopyAttempts THEN hostAt' = "copy" /\ UNCHANGED outcome
    ELSE hostAt' = AfterCommand /\ outcome' = "err"

(* tar creates the file; it is there, but still being written.             *)
CopyBegins ==
    /\ hostAt = "copy"
    /\ attempt' = attempt + 1
    /\ hostAt' = "writing"
    /\ script' = IF podAt = "exited" THEN script ELSE "open"
    /\ UNCHANGED <<copyFrom, outcome, reported, copied, logVars, podVars, copyDone, endVars,
                   timeVars, cuts, faults>>

(* The file is complete, or the connection breaks and leaves a prefix of   *)
(* it, or the file is complete but the answer is lost, or there is no      *)
(* container any more.  A failed attempt is repeated a second later.  A    *)
(* copy that succeeds starts the goroutine that waits for --timeout.       *)
CopyEnds ==
    /\ hostAt = "writing"
    /\ \/ /\ podAt # "exited" /\ script' = "full"
          /\ hostAt' = "phase" /\ killer' = "armed" /\ UNCHANGED <<outcome, cuts, faults>>
       \/ /\ podAt # "exited" /\ script' = "cut"
          /\ cuts < MaxCuts /\ cuts' = cuts + 1
          /\ CopyAttemptFails /\ NoFault /\ UNCHANGED killer
       \/ /\ podAt # "exited" /\ script' = "full"
          /\ CopyAttemptFails /\ Fault /\ UNCHANGED <<cuts, killer>>
       \/ podAt = "exited" /\ CopyAttemptFails /\ UNCHANGED <<script, cuts, faults, killer>>
    /\ UNCHANGED <<copyFrom, attempt, reported, copied, logVars, podVars, copyDone, endVars,
                   expired>>

-----------------------------------------------------------------------------
(* The host: the goroutine that follows the log.                           *)

HostGoto(l) == hostAt' = l /\ UNCHANGED <<copyFrom, attempt, outcome, reported, copied>>

(* Mutation: errors are retried although the context is done.              *)
GetPhaseForEver ==
    /\ hostAt = "phase"
    /\ \/ expired /\ HostGoto("phase") /\ NoFault
       \/ ~expired /\ podAt = "exited" /\ HostGoto("drain") /\ NoFault
       \/ ~expired /\ object # "gone" /\ HostGoto("stream") /\ NoFault
       \/ ~expired /\ HostGoto("phase") /\ Fault
    /\ UNCHANGED <<logVars, script, podVars, copyDone, endVars, timeVars, cuts>>

(* GetPodPhase: a pod that is not found counts as failed; the phase may    *)
(* lag behind the container; an error is retried unless the context is     *)
(* done.                                                                   *)
GetPhase ==
    /\ hostAt = "phase"
    /\ \/ expired /\ HostGoto("streamed") /\ NoFault
       \/ ~expired /\ podAt = "exited" /\ HostGoto("drain") /\ NoFault
       \/ ~expired /\ object # "gone" /\ HostGoto("stream") /\ NoFault
       \/ ~expired /\ HostGoto("phase") /\ Fault
    /\ UNCHANGED <<logVars, script, podVars, copyDone, endVars, timeVars, cuts>>

(* strconv.Atoi on the digits between the prefix and the suffix of the     *)
(* marker.                                                                 *)
ParseMarker(digits) == found' = TRUE /\ seen' = digits

(* What is left of a number when its decimal form is cut short: the suffix *)
(* of the marker is optional, so a shorter number is accepted.             *)
CutNumbers(n) == {m \in {n, n \div 10, n \div 100} : m > 0 \/ n = 0}

(* The marker arrives, complete or cut short; with no digit left of it, it *)
(* is swallowed and nothing is found.                                      *)
Receivable == marker /\ ~found /\ ~lost /\ object # "gone"

ReceiveMarker == Receivable /\ ParseMarker(code) /\ UNCHANGED lost
ReceiveCutMarker ==
    /\ Receivable
    /\ \/ \E m \in CutNumbers(code) : ParseMarker(m) /\ UNCHANGED lost
       \/ lost' = TRUE /\ UNCHANGED <<found, seen>>

(* The context of the stream is cancelled by the marker writer.            *)
StreamMarker ==
    /\ hostAt = "stream" /\ ~expired
    /\ ReceiveMarker
    /\ HostGoto("streamed")
    /\ UNCHANGED <<script, podVars, copyDone, endVars, timeVars, cuts, faults>>

(* End of file: the container has ended and all of its log was received,   *)
(* or the kubelet closed the stream before that.                           *)
StreamEnds ==
    /\ hostAt = "stream" /\ ~expired
    /\ \/ podAt = "exited" /\ ~Receivable /\ NoFault
       \/ Fault
    /\ HostGoto("streamed")
    /\ UNCHANGED <<logVars, script, podVars, copyDone, endVars, timeVars, cuts>>

(* An error of the stream, possibly in the middle of the marker.  The next *)
(* stream starts from the current time, rounded down to a second, so what  *)
(* was not received yet may be lost.                                       *)
StreamBreaks ==
    /\ hostAt = "stream"
    /\ \/ ~expired /\ Fault
       \/ expired /\ NoFault
    /\ \/ ReceiveCutMarker
       \/ UNCHANGED <<found, seen>> /\ lost' \in {lost, lost \/ marker}
    /\ HostGoto(IF found' THEN "streamed" ELSE "phase")
    /\ UNCHANGED <<script, podVars, copyDone, endVars, timeVars, cuts>>

(* The pod has terminated: one last stream, whose error is ignored.        *)
DrainLog ==
    /\ hostAt = "drain"
    /\ \/ Receivable /\ ~expired /\ ReceiveMarker /\ NoFault
       \/ ~Receivable /\ UNCHANGED <<logVars, faults>>
       \/ expired /\ UNCHANGED <<logVars, faults>>
       \/ ReceiveCutMarker /\ Fault
       \/ UNCHANGED logVars /\ Fault
    /\ HostGoto("streamed")
    /\ UNCHANGED <<script, podVars, copyDone, endVars, timeVars, cuts>>

-----------------------------------------------------------------------------
(* The host: the end of ExecuteCommand.                                    *)

Outcome(o, n) ==
    /\ hostAt' = AfterCommand
    /\ outcome' = o /\ reported' = n
    /\ UNCHANGED <<copyFrom, attempt, copied>>

(* Mutation: every failure is reported as 1.                               *)
OutcomeGeneric(n) == IF n = 0 THEN Outcome("ok", 0) ELSE Outcome("code", 1)

OutcomeOf(n) == IF n = 0 THEN Outcome("ok", 0) ELSE Outcome("code", n)

(* Mutation: the marker alone counts as success.                           *)
StreamedIgnoringCode ==
    /\ hostAt = "streamed"
    /\ IF copyFrom /\ found THEN Outcome("ok", 0) ELSE HostGoto("complete")
    /\ UNCHANGED <<logVars, script, podVars, copyDone, endVars, timeVars, cuts, faults>>

Streamed ==
    /\ hostAt = "streamed"
    /\ IF copyFrom /\ found THEN OutcomeOf(seen) ELSE HostGoto("complete")
    /\ UNCHANGED <<logVars, script, podVars, copyDone, endVars, timeVars, cuts, faults>>

(* Mutation: the end of the 60 s is not told from a terminal phase.        *)
WaitCompletionUnchecked ==
    /\ hostAt = "complete"
    /\ \/ podAt = "exited" /\ OutcomeOf(podCode)
       \/ podAt # "exited" /\ Outcome("ok", 0)
    /\ UNCHANGED <<logVars, script, podVars, copyDone, endVars, timeVars, cuts, faults>>

(* waitForPodCompletion: 60 s for the phase to become terminal, no time at *)
(* all when the context is done.  The exit code is read by a second Get.   *)
(* A Get may fail or find no pod.                                          *)
WaitCompletion ==
    /\ hostAt = "complete"
    /\ \/ expired /\ Outcome("err", 0) /\ NoFault
       \/ podAt = "exited" /\ object # "gone" /\ OutcomeOf(podCode) /\ NoFault
       \/ object = "gone" /\ Outcome("err", 0) /\ NoFault
       \/ podAt = "exited" /\ Outcome("err", 0) /\ Fault
       \/ podAt # "exited" /\ Outcome("err", 0) /\ NoFault
    /\ UNCHANGED <<logVars, script, podVars, copyDone, endVars, timeVars, cuts>>

(* The files are copied whatever the command returned.  A copy needs a     *)
(* running container, and may fail in one too: a path may not exist.  How  *)
(* a copy goes: module Session.                                            *)
CopyFiles ==
    /\ hostAt = "copyfrom"
    /\ copied' \in {"ok", "failed"} /\ (copied' = "ok" => podAt # "exited")
    /\ hostAt' = "signal"
    /\ UNCHANGED <<copyFrom, attempt, outcome, reported, logVars, script, podVars, copyDone,
                   endVars, timeVars, cuts, faults>>

SignalCopyDone ==
    /\ hostAt = "signal"
    /\ \/ copyDone' = (podAt # "exited") /\ NoFault
       \/ UNCHANGED copyDone /\ Fault
    /\ HostGoto("returned")
    /\ UNCHANGED <<logVars, script, podVars, endVars, timeVars, cuts>>

(* Mutation: errors of the copies are dropped.                             *)
ResultOfCommand == outcome

(* What RunE returns: an error of the command wins over one of the copies, *)
(* and both over one of the deferred cleanup.                              *)
Result ==
    IF outcome = "ok" /\ (copied = "failed" \/ cleanup = "failed") THEN "err" ELSE outcome

(* A graceful deletion: the kubelet sends SIGTERM to script.sh.            *)
DeleteObject ==
    IF object = "live" THEN object' = "deleting" /\ termed' = TRUE
    ELSE UNCHANGED <<object, termed>>

(* The deferred DeleteHelmPods: module ExecLifecycle has its calls.  One   *)
(* of them may fail, the deletion also after it took effect, or because    *)
(* the pod that was listed is gone.  The process then exits.               *)
Cleanup ==
    /\ hostAt = "returned"
    /\ HostGoto("cleaned")
    /\ \/ DeleteObject /\ cleanup' = "ok" /\ NoFault
       \/ (DeleteObject \/ UNCHANGED <<object, termed>>) /\ cleanup' = "failed" /\ Fault
       \/ object = "gone" /\ UNCHANGED <<object, termed>> /\ cleanup' = "failed" /\ NoFault
    /\ UNCHANGED <<logVars, script, podVars, copyDone, killed, timeVars, cuts>>

HostRuns == hostAt \notin {"cleaned", "dead"}

HostStep ==
    \/ CopyBegins \/ CopyEnds \/ GetPhase \/ StreamMarker \/ StreamEnds
    \/ StreamBreaks \/ DrainLog \/ Streamed \/ WaitCompletion \/ CopyFiles
    \/ SignalCopyDone \/ Cleanup

(* --timeout passes.                                                       *)
Expire ==
    /\ HostRuns /\ ~expired
    /\ expired' = TRUE
    /\ UNCHANGED <<hostVars, logVars, script, podVars, copyDone, endVars, killer, cuts, faults>>

(* The goroutine repeats "kill -term 1" until it succeeds or the process   *)
(* exits.  A kill whose answer is lost has taken effect.                   *)
KillPod ==
    /\ HostRuns /\ expired /\ killer = "armed"
    /\ podAt # "exited"
    /\ \/ termed' = TRUE /\ killer' = "over" /\ NoFault
       \/ (termed' = TRUE \/ UNCHANGED termed) /\ UNCHANGED killer /\ Fault
    /\ UNCHANGED <<hostVars, logVars, script, podVars, copyDone, killed, object, cleanup,
                   expired, cuts>>

HostDies ==
    /\ HostMayDie /\ HostRuns
    /\ HostGoto("dead")
    /\ UNCHANGED <<logVars, script, podVars, copyDone, endVars, timeVars, cuts, faults>>

-----------------------------------------------------------------------------
(* The pod: script.sh.                                                     *)

(* script.sh changes nothing but its own state and the log.                *)
Untouched == UNCHANGED <<hostVars, logVars, script, copyDone, endVars, timeVars, cuts, faults>>

(* script.sh runs whatever is at the path once something is there, or once *)
(* its own time is up.  A file that tar still has open for writing cannot  *)
(* be executed, a missing one cannot be found; a prefix of the script runs *)
(* as a script of its own.                                                 *)
RunScript ==
    /\ podAt = "waiting" /\ ~termed
    /\ script # "none" \/ myTime >= Timeout
    /\ ranOn' = IF script = "none" THEN "missing" ELSE script
    /\ IF script \in {"cut", "full"}
       THEN podAt' = "running" /\ cmd' = "running" /\ UNCHANGED code
       ELSE podAt' = "ended" /\ code' = (IF script = "open" THEN 126 ELSE 127) /\ UNCHANGED cmd
    /\ UNCHANGED <<myTime, marker, waitOver, podCode>>
    /\ Untouched

(* No file yet: sleep 1 and look again.  MY_TIME is left as it is.         *)
Sleep ==
    /\ podAt = "waiting" /\ ~termed
    /\ script = "none" /\ myTime < Timeout
    /\ myTime' = myTime
    /\ UNCHANGED <<podAt, cmdVars, marker, waitOver, podCode>>
    /\ Untouched

CommandExits ==
    /\ podAt \in {"running", "trap"} /\ cmd = "running"
    /\ cmd' = "exited"
    /\ \E c \in Codes : code' = c
    /\ podAt' = IF podAt = "running" THEN "ended" ELSE podAt
    /\ UNCHANGED <<myTime, ranOn, marker, waitOver, podCode>>
    /\ Untouched

Exit(c) == podAt' = "exited" /\ podCode' = c

(* Mutation: the container exits without waiting for the copies.           *)
ScriptEndsAtOnce ==
    /\ podAt = "ended" /\ ~termed
    /\ marker' = copyFrom
    /\ Exit(code)
    /\ UNCHANGED <<myTime, cmdVars, waitOver>>
    /\ Untouched

(* After "wait": the exit code goes to the log and the pod stays, or the   *)
(* container exits with the code of the command.                           *)
ScriptEnds ==
    /\ podAt = "ended" /\ ~termed
    /\ IF copyFrom THEN podAt' = "copywait" /\ marker' = TRUE /\ UNCHANGED podCode
       ELSE Exit(code) /\ UNCHANGED marker
    /\ UNCHANGED <<myTime, cmdVars, waitOver>>
    /\ Untouched

(* /tmp/copy-done is there, or 300 s are over.                             *)
CopyWaitEnds ==
    /\ podAt = "copywait" /\ ~termed
    /\ waitOver' = ~copyDone
    /\ Exit(code)
    /\ UNCHANGED <<myTime, cmdVars, marker>>
    /\ Untouched

(* Mutation: the script runs in the foreground, which defers the trap.     *)
TrapDeferred ==
    /\ termed /\ podAt \notin {"running", "trap", "exited"}
    /\ podAt' = "trap"
    /\ UNCHANGED <<myTime, cmdVars, marker, waitOver, podCode>>
    /\ Untouched

(* trapMe: SIGINT and SIGTERM go to everything else until it has gone, for *)
(* 180 s at most; then PID 1 exits with 1, which ends the rest.            *)
Trap ==
    /\ termed /\ podAt \notin {"trap", "exited"}
    /\ podAt' = "trap"
    /\ UNCHANGED <<myTime, cmdVars, marker, waitOver, podCode>>
    /\ Untouched

TrapEnds ==
    /\ podAt = "trap"
    /\ cmd' = IF cmd = "running" THEN "killed" ELSE cmd
    /\ Exit(1)
    /\ UNCHANGED <<myTime, ranOn, code, marker, waitOver>>
    /\ Untouched

ScriptStep ==
    \/ RunScript \/ Sleep \/ ScriptEnds \/ CopyWaitEnds \/ Trap \/ TrapEnds

-----------------------------------------------------------------------------
(* The cluster.                                                            *)

(* Out of memory, node lost: SIGKILL.                                      *)
ContainerKilled ==
    /\ PodMayDie /\ podAt # "exited"
    /\ killed' = TRUE
    /\ cmd' = IF cmd = "running" THEN "killed" ELSE cmd
    /\ Exit(137)
    /\ UNCHANGED <<hostVars, logVars, script, myTime, ranOn, code, marker, waitOver, copyDone,
                   termed, object, cleanup, timeVars, cuts, faults>>

(* purge --all, a drain, the signal goroutine of CreateHelmPod.            *)
PodDeleted ==
    /\ PodMayDie /\ object = "live"
    /\ DeleteObject
    /\ UNCHANGED <<hostVars, logVars, script, podVars, copyDone, killed, cleanup, timeVars,
                   cuts, faults>>

PodRemoved ==
    /\ object = "deleting" /\ podAt = "exited"
    /\ object' = "gone"
    /\ UNCHANGED <<hostVars, logVars, script, podVars, copyDone, termed, killed, cleanup,
                   timeVars, cuts, faults>>

Next ==
    \/ HostStep \/ Expire \/ KillPod \/ HostDies
    \/ ScriptStep \/ CommandExits
    \/ ContainerKilled \/ PodDeleted \/ PodRemoved

Spec == Init /\ [][Next]_vars

(* The host's goroutines are scheduled and its polls and streams end; so   *)
(* does script.sh.  --timeout is finite (internal/run.go:21-25), and the   *)
(* kill that is repeated every 50 ms succeeds in the end if it is tried    *)
(* for ever.  Nothing makes the command end by itself.                     *)
FairHost ==
    /\ WF_vars(HostStep)
    /\ WF_vars(Expire)
    /\ SF_vars(KillPod)
FairPod == WF_vars(ScriptStep) /\ WF_vars(TrapEnds) /\ WF_vars(PodRemoved)

FairSpec == Spec /\ FairHost /\ FairPod

-----------------------------------------------------------------------------
(* Safety.                                                                 *)

Returned == hostAt \in {"returned", "cleaned"}

(* Status 0 means that the whole command ran and exited with 0, whatever   *)
(* broke, timed out or was killed on the way.  The exception is a copy     *)
(* that stopped half way and whose file script.sh ran before it was        *)
(* copied again.                                                           *)
SuccessIsReal ==
    Returned /\ Result = "ok" /\ ranOn # "cut" =>
        /\ ranOn = "full" /\ cmd = "exited" /\ code = 0
        /\ copyFrom => copied = "ok"

(* A code that the host reports is never one of an earlier or another      *)
(* step: it is what the marker says, up to a marker cut short, or exactly  *)
(* the code that the container ended with (executor.go:288-295, 396-405).  *)
ReportedIsActual ==
    Returned /\ outcome = "code" =>
        reported \in IF found THEN CutNumbers(code) ELSE {podCode}

(* When the host copies files because the marker told it that the command  *)
(* is over, the container is still alive, unless it waited 300 s for the   *)
(* copies, or was stopped or killed.                                       *)
AliveForCopy ==
    hostAt = "copyfrom" /\ found => podAt = "copywait" \/ waitOver \/ termed \/ killed

(* The strengthening of SuccessIsReal that is inductive.                   *)
ZeroMeansDone(n) == n = 0 => cmd = "exited" /\ code = 0

SuccessInv ==
    /\ podAt = "waiting" => ranOn = "none"
    /\ cmd # "none" <=> ranOn \in {"cut", "full"}
    /\ podAt \in {"ended", "copywait"} => ZeroMeansDone(code)
    /\ marker => podAt # "running" /\ podAt # "waiting" /\ ZeroMeansDone(code)
    /\ podAt = "exited" => ZeroMeansDone(podCode)
    /\ found => marker /\ ZeroMeansDone(seen)
    /\ outcome = "ok" => cmd = "exited" /\ code = 0
    /\ Returned /\ copyFrom /\ outcome = "ok" => copied # "none"
    /\ hostAt = "signal" => copied # "none"

-----------------------------------------------------------------------------
(* The contract is about whatever script.sh has run, be it the prefix of a *)
(* script; SuccessIsReal says when that was the whole command.             *)

CommandState ==
    IF cmd # "exited" THEN cmd
    ELSE IF code = 0 THEN "zero" ELSE "nonzero"

Told ==
    IF hostAt # "cleaned" THEN "nothing"
    ELSE IF Result = "ok" THEN "success" ELSE "failure"

Contract == INSTANCE ExecContract WITH run <- CommandState, told <- Told

(* Every behaviour of host and pod is one of ExecContract: the command     *)
(* starts at most once although its script may be copied several times,    *)
(* and success is told only of a command that ended with 0.                *)
ImplementsContract == Contract!Spec

-----------------------------------------------------------------------------
(* What the documentation says.                                            *)

(* README.md:148: the pod has a total lifetime of --timeout plus 10 min.   *)
(* TIMEOUT of script.sh is that lifetime, and the loop that looks at it    *)
(* waits for the script: without a host nobody else ends that wait.        *)
PodLifetimeBounded == hostAt = "dead" /\ script = "none" ~> podAt = "exited"

-----------------------------------------------------------------------------
(* Liveness.                                                               *)

(* RunE returns, whatever breaks, and whatever the command does.           *)
HostReturns == <>(hostAt \in {"cleaned", "dead"})

(* After the timeout the command does not go on running, unless the        *)
(* process that has to stop it has ended without having done so: it was    *)
(* killed, or its cleanup failed, and the goroutine that repeats the kill  *)
(* ended with it (executor.go:242-254, exec.go:51-56).                     *)
TimeoutStopsCommand ==
    expired ~> cmd # "running" \/ ((hostAt = "dead" \/ cleanup = "failed") /\ ~termed)

=============================================================================
