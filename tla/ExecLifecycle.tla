--------------------------- MODULE ExecLifecycle ---------------------------
(***************************************************************************)
(* The life of the pods of "helm in-pod exec": several invocations that    *)
(* run at once (cmd/exec.go), each with its main goroutine and the signal  *)
(* goroutine of CreateHelmPod, and "helm in-pod purge" (cmd/purge.go).     *)
(* All of them delete pods through DeleteHelmPods, a list followed by two  *)
(* API calls per pod, so its steps interleave with everything else.        *)
(*                                                                         *)
(* What happens between "the pod is ready" and "the command is over" is    *)
(* one step here; it is the subject of module CommandRun.                  *)
(***************************************************************************)
EXTENDS Cluster

CONSTANTS UsePDB,      \* invocations with --create-pdb (the default)
          PurgeAll,    \* the purges with --all
          MaxSignals,  \* bound: signals sent to one invocation
          MaxFaults    \* bound: API calls that fail, over all processes

ASSUME ConstantsType ==
    /\ UsePDB \subseteq Execs
    /\ PurgeAll \subseteq Purges
    /\ MaxSignals \in Nat
    /\ MaxFaults \in Nat

VARIABLES at,           \* [Execs -> where the main goroutine is]
          out,          \* [Execs -> returnErr when the deferred cleanup starts]
          sigAt,        \* [Execs -> where the signal goroutine is]
          sigs,         \* [Execs -> signals buffered in its channel]
          sent,         \* [Execs -> signals sent so far]
          interrupted,  \* [Execs -> Manager.interrupted]
          delAt,        \* [Threads -> where its call of DeleteHelmPods is]
          delTodo,      \* [Threads -> listed pods that are not deleted yet]
          delTerm,      \* [Threads -> pods that were listed as terminated]
          delCur,       \* [Threads -> the pod whose PDBs are deleted, if any]
          faults        \* API calls that failed so far

mainVars == <<at, out>>
sigVars == <<sigAt, sigs, sent, interrupted>>
delVars == <<delAt, delTodo, delTerm, delCur>>
vars == <<clusterVars, mainVars, sigVars, delVars, faults>>

Main(e) == <<e, "main">>
Sig(e) == <<e, "sig">>
Threads == (Execs \X {"main", "sig"}) \cup (Purges \X {"purge"})

(* "prep": nothing done; "pre": DeleteHelmPods at the head of              *)
(* CreateHelmPod; "create", "pdb", "unprotect": its three API calls;       *)
(* "wait", "get": waitUntilPodIsRunning; "run": the rest of RunE;          *)
(* "clean": the deferred DeleteHelmPods.                                   *)
Ended == {"refused", "done", "killed"}
MainAt == {"prep", "pre", "create", "pdb", "unprotect", "wait", "get",
           "run", "clean"} \cup Ended
SigAt == {"off", "select", "delete", "pdbs", "flag", "again", "over"}
DelAt == {"idle", "list", "each", "ok", "err"}

TypeOK ==
    /\ ClusterTypeOK
    /\ at \in [Execs -> MainAt]
    /\ out \in [Execs -> {"none", "ok", "err"}]
    /\ sigAt \in [Execs -> SigAt]
    /\ sigs \in [Execs -> 0..2]
    /\ sent \in [Execs -> 0..MaxSignals]
    /\ interrupted \in [Execs -> BOOLEAN]
    /\ delAt \in [Threads -> DelAt]
    /\ delTodo \in [Threads -> SUBSET Execs]
    /\ delTerm \in [Threads -> SUBSET Execs]
    /\ delCur \in [Threads -> SUBSET Execs]
    /\ faults \in 0..MaxFaults

Init ==
    /\ ClusterInit
    /\ at = [e \in Execs |-> "prep"]
    /\ out = [e \in Execs |-> "none"]
    /\ sigAt = [e \in Execs |-> "off"]
    /\ sigs = [e \in Execs |-> 0]
    /\ sent = [e \in Execs |-> 0]
    /\ interrupted = [e \in Execs |-> FALSE]
    /\ delAt = [t \in Threads |-> "idle"]
    /\ delTodo = [t \in Threads |-> {}]
    /\ delTerm = [t \in Threads |-> {}]
    /\ delCur = [t \in Threads |-> {}]
    /\ faults = 0

(* A process that has ended takes no step: its goroutines end with it.     *)
Alive(i) == i \in Execs => at[i] \notin Ended

Fault == faults < MaxFaults /\ faults' = faults + 1
NoFault == UNCHANGED faults

-----------------------------------------------------------------------------
(* DeleteHelmPods, run by any thread.                                      *)

Listed(i) == {p \in Execs : Exists(p) /\ (i \in PurgeAll \/ Selects(i, p))}

Begin(t) == delAt' = [delAt EXCEPT ![t] = "list"] /\ UNCHANGED <<delTodo, delTerm, delCur>>

(* Mutation: an error is logged and the call returns nil.                  *)
DeleteFailsQuietly(t) ==
    /\ delAt' = [delAt EXCEPT ![t] = "ok"]
    /\ delTodo' = [delTodo EXCEPT ![t] = {}]
    /\ delTerm' = [delTerm EXCEPT ![t] = {}]
    /\ delCur' = [delCur EXCEPT ![t] = {}]

DeleteFails(t) ==
    /\ delAt' = [delAt EXCEPT ![t] = "err"]
    /\ delTodo' = [delTodo EXCEPT ![t] = {}]
    /\ delTerm' = [delTerm EXCEPT ![t] = {}]
    /\ delCur' = [delCur EXCEPT ![t] = {}]

ListPods(t) ==
    /\ delAt[t] = "list" /\ Alive(t[1])
    /\ \/ /\ delAt' = [delAt EXCEPT ![t] = IF Listed(t[1]) = {} THEN "ok" ELSE "each"]
          /\ delTodo' = [delTodo EXCEPT ![t] = Listed(t[1])]
          /\ delTerm' = [delTerm EXCEPT ![t] = {p \in Listed(t[1]) : phase[p] \in Terminal}]
          /\ delCur' = [delCur EXCEPT ![t] = {}]
          /\ NoFault
       \/ DeleteFails(t) /\ Fault
    /\ UNCHANGED <<clusterVars, mainVars, sigVars>>

(* Mutations: the PDBs of the pod stay; the PDBs of every pod go.          *)
DeletePodsOnly(t, p) ==
    /\ delAt[t] = "each" /\ Alive(t[1])
    /\ delCur[t] = {} /\ p \in delTodo[t]
    /\ delCur' = [delCur EXCEPT ![t] = {p}]
    /\ UNCHANGED <<clusterVars, mainVars, sigVars, delAt, delTodo, delTerm, faults>>

DeleteAllPdbs(t, p) ==
    /\ delAt[t] = "each" /\ Alive(t[1])
    /\ delCur[t] = {} /\ p \in delTodo[t]
    /\ delCur' = [delCur EXCEPT ![t] = {p}]
    /\ pdb' = {}
    /\ UNCHANGED <<obj, phase, ready, mainVars, sigVars, delAt, delTodo, delTerm, faults>>

(* The PDBs of the operation that the label of pod p names; an error is    *)
(* only logged.                                                            *)
DeletePdbsOf(t, p) ==
    /\ delAt[t] = "each" /\ Alive(t[1])
    /\ delCur[t] = {} /\ p \in delTodo[t]
    /\ delCur' = [delCur EXCEPT ![t] = {p}]
    /\ \/ pdb' = pdb \ {PodLabels(p)["op"]} /\ NoFault
       \/ pdb' = pdb /\ Fault
    /\ UNCHANGED <<obj, phase, ready, mainVars, sigVars, delAt, delTodo, delTerm>>

(* Mutation: every pod is deleted with grace period 0.                     *)
DeleteListedForcibly(t, p) == DeleteForcibly(p)

(* Forced only when p was terminated when it was listed.                   *)
DeleteListed(t, p) == IF p \in delTerm[t] THEN DeleteForcibly(p) ELSE DeleteGracefully(p)

(* Any error ends the call, NotFound included; the rest of the list is     *)
(* then left alone.  A failed call may have been executed all the same.    *)
DeletePod(t, p) ==
    /\ delAt[t] = "each" /\ Alive(t[1])
    /\ p \in delCur[t]
    /\ \/ /\ Exists(p) /\ DeleteListed(t, p) /\ NoFault
          /\ delTodo' = [delTodo EXCEPT ![t] = @ \ {p}]
          /\ delAt' = [delAt EXCEPT ![t] = IF delTodo[t] \ {p} = {} THEN "ok" ELSE "each"]
          /\ delCur' = [delCur EXCEPT ![t] = {}]
          /\ UNCHANGED delTerm
       \/ ~Exists(p) /\ UNCHANGED obj /\ DeleteFails(t) /\ NoFault
       \/ UNCHANGED obj /\ DeleteFails(t) /\ Fault
       \/ Exists(p) /\ DeleteListed(t, p) /\ DeleteFails(t) /\ Fault
    /\ UNCHANGED <<phase, ready, pdb, mainVars, sigVars>>

DeleteStep(t) ==
    \/ ListPods(t)
    \/ \E p \in Execs : DeletePdbsOf(t, p) \/ DeletePod(t, p)

(* Mutation: only a successful call is over.                               *)
DeletedOk(t) == delAt[t] = "ok"

Deleted(t) == delAt[t] \in {"ok", "err"}

-----------------------------------------------------------------------------
(* RunE of "helm in-pod exec" and CreateHelmPod.                           *)

Goto(e, l) == at' = [at EXCEPT ![e] = l] /\ UNCHANGED out

(* "return" from RunE: the deferred function begins.                       *)
Return(e, o) ==
    /\ at' = [at EXCEPT ![e] = "clean"]
    /\ out' = [out EXCEPT ![e] = o]
    /\ Begin(Main(e))

(* A bad argument, or --dry-run: the command ends before its defer.        *)
Refuse(e) ==
    /\ at[e] = "prep"
    /\ Goto(e, "refused")
    /\ UNCHANGED <<clusterVars, sigVars, delVars, faults>>

(* PrepareNs, then DeleteHelmPods at the head of CreateHelmPod.            *)
Prepare(e) ==
    /\ at[e] = "prep"
    /\ \/ Goto(e, "pre") /\ Begin(Main(e)) /\ NoFault
       \/ Return(e, "err") /\ Fault
    /\ UNCHANGED <<clusterVars, sigVars>>

PreDeleted(e) ==
    /\ at[e] = "pre" /\ Deleted(Main(e))
    /\ IF delAt[Main(e)] = "ok" THEN Goto(e, "create") /\ UNCHANGED delVars
       ELSE Return(e, "err")
    /\ UNCHANGED <<clusterVars, sigVars, faults>>

(* signal.Notify and the goroutine that waits for a signal.                *)
Arm(e) ==
    /\ Goto(e, "wait")
    /\ sigAt' = [sigAt EXCEPT ![e] = "select"]
    /\ UNCHANGED <<sigs, sent, interrupted>>

CreatePod(e) ==
    /\ at[e] = "create"
    /\ \/ /\ CreatePodObject(e) /\ NoFault /\ UNCHANGED delVars
          /\ IF e \in UsePDB THEN Goto(e, "pdb") /\ UNCHANGED sigVars ELSE Arm(e)
       \/ /\ CreatePodObject(e) \/ UNCHANGED obj
          /\ Fault /\ Return(e, "err") /\ UNCHANGED sigVars
    /\ UNCHANGED <<phase, ready, pdb>>

CreatePdb(e) ==
    /\ at[e] = "pdb"
    /\ \/ pdb' = pdb \cup {e} /\ NoFault /\ Arm(e)
       \/ pdb' \in {pdb, pdb \cup {e}} /\ Fault /\ Goto(e, "unprotect") /\ UNCHANGED sigVars
    /\ UNCHANGED <<obj, phase, ready, delVars>>

(* The PDB could not be created: the pod is deleted with grace period 0    *)
(* and whatever comes of that is ignored.                                  *)
DeleteUnprotected(e) ==
    /\ at[e] = "unprotect"
    /\ \/ Exists(e) /\ DeleteForcibly(e) /\ NoFault
       \/ ~Exists(e) /\ UNCHANGED obj /\ NoFault
       \/ UNCHANGED obj /\ Fault
    /\ Return(e, "err")
    /\ UNCHANGED <<phase, ready, pdb, sigVars>>

(* One round of the poll in waitUntilPodIsRunning: the flag, then a Get.   *)
PollInterrupted(e) ==
    /\ at[e] = "wait" /\ interrupted[e]
    /\ Return(e, "err")
    /\ UNCHANGED <<clusterVars, sigVars, faults>>

PollAgain(e) ==
    /\ at[e] = "wait" /\ ~interrupted[e]
    /\ Goto(e, "get")
    /\ UNCHANGED <<clusterVars, sigVars, delVars, faults>>

GetPod(e) ==
    /\ at[e] = "get"
    /\ \/ Exists(e) /\ ready[e] /\ Goto(e, "run") /\ NoFault
       \/ ~(Exists(e) /\ ready[e]) /\ Goto(e, "wait") /\ NoFault
       \/ Goto(e, "wait") /\ Fault
    /\ UNCHANGED <<clusterVars, sigVars, delVars>>

(* The deadline of 5 minutes passes.                                       *)
WaitTimeout(e) ==
    /\ at[e] = "wait"
    /\ Return(e, "err")
    /\ UNCHANGED <<clusterVars, sigVars, faults>>

(* Boot info, copies, repositories, the command, copy-from.                *)
RunBody(e) ==
    /\ at[e] = "run"
    /\ \E o \in {"ok", "err"} : Return(e, o)
    /\ UNCHANGED <<clusterVars, sigVars, faults>>

Cleaned(e) ==
    /\ at[e] = "clean" /\ Deleted(Main(e))
    /\ Goto(e, "done")
    /\ UNCHANGED <<clusterVars, sigVars, delVars, faults>>

MainStep(e) ==
    \/ Refuse(e) \/ Prepare(e) \/ PreDeleted(e) \/ CreatePod(e) \/ CreatePdb(e)
    \/ DeleteUnprotected(e) \/ PollInterrupted(e) \/ PollAgain(e) \/ GetPod(e)
    \/ RunBody(e) \/ Cleaned(e)

-----------------------------------------------------------------------------
(* Signals and the goroutine that handles them.                            *)

Notified(e) == at[e] \in {"wait", "get"}

(* Mutation: the channel has no bound.                                     *)
SignalUnbounded(e) ==
    /\ Alive(e) /\ sent[e] < MaxSignals
    /\ sent' = [sent EXCEPT ![e] = @ + 1]
    /\ IF Notified(e)
       THEN sigs' = [sigs EXCEPT ![e] = @ + 1] /\ UNCHANGED at
       ELSE at' = [at EXCEPT ![e] = "killed"] /\ UNCHANGED sigs
    /\ UNCHANGED <<clusterVars, out, sigAt, interrupted, delVars, faults>>

(* The channel of signal.Notify holds two signals and drops the rest.      *)
(* While it is not registered a signal ends the process.                   *)
Signal(e) ==
    /\ Alive(e) /\ sent[e] < MaxSignals
    /\ sent' = [sent EXCEPT ![e] = @ + 1]
    /\ IF Notified(e)
       THEN sigs' = [sigs EXCEPT ![e] = IF @ < 2 THEN @ + 1 ELSE @] /\ UNCHANGED at
       ELSE at' = [at EXCEPT ![e] = "killed"] /\ UNCHANGED sigs
    /\ UNCHANGED <<clusterVars, out, sigAt, interrupted, delVars, faults>>

(* SIGKILL, or the machine is gone: no handler can run.                    *)
Crash(e) ==
    /\ Alive(e) /\ sent[e] < MaxSignals
    /\ sent' = [sent EXCEPT ![e] = @ + 1]
    /\ at' = [at EXCEPT ![e] = "killed"]
    /\ UNCHANGED <<clusterVars, out, sigAt, sigs, interrupted, delVars, faults>>

SigGoto(e, l) == sigAt' = [sigAt EXCEPT ![e] = l]

(* done is closed when CreateHelmPod returns.  A select with both channels *)
(* ready takes either.                                                     *)
SigDone(e) ==
    /\ Alive(e) /\ sigAt[e] \in {"select", "again"} /\ ~Notified(e)
    /\ SigGoto(e, "over")
    /\ UNCHANGED <<clusterVars, mainVars, sigs, sent, interrupted, delVars, faults>>

SigDestroy(e) ==
    /\ Alive(e) /\ sigAt[e] = "select" /\ sigs[e] > 0
    /\ SigGoto(e, "delete")
    /\ sigs' = [sigs EXCEPT ![e] = @ - 1]
    /\ Begin(Sig(e))
    /\ UNCHANGED <<clusterVars, mainVars, sent, interrupted, faults>>

SigDestroyed(e) ==
    /\ Alive(e) /\ sigAt[e] = "delete" /\ Deleted(Sig(e))
    /\ SigGoto(e, IF e \in UsePDB THEN "pdbs" ELSE "flag")
    /\ UNCHANGED <<clusterVars, mainVars, sigs, sent, interrupted, delVars, faults>>

SigDeletePdbs(e) ==
    /\ Alive(e) /\ sigAt[e] = "pdbs"
    /\ \/ pdb' = pdb \ {e} /\ NoFault
       \/ pdb' = pdb /\ Fault
    /\ SigGoto(e, "flag")
    /\ UNCHANGED <<obj, phase, ready, mainVars, sigs, sent, interrupted, delVars>>

(* Mutation: the flag is never set.                                        *)
SigFlagForgotten(e) ==
    /\ Alive(e) /\ sigAt[e] = "flag"
    /\ SigGoto(e, "again")
    /\ UNCHANGED <<clusterVars, mainVars, sigs, sent, interrupted, delVars, faults>>

SigFlag(e) ==
    /\ Alive(e) /\ sigAt[e] = "flag"
    /\ interrupted' = [interrupted EXCEPT ![e] = TRUE]
    /\ SigGoto(e, "again")
    /\ UNCHANGED <<clusterVars, mainVars, sigs, sent, delVars, faults>>

(* os.Exit(1): no deferred function runs.                                  *)
SigExit(e) ==
    /\ Alive(e) /\ sigAt[e] = "again" /\ sigs[e] > 0
    /\ sigs' = [sigs EXCEPT ![e] = @ - 1]
    /\ Goto(e, "killed") /\ SigGoto(e, "over")
    /\ UNCHANGED <<clusterVars, sent, interrupted, delVars, faults>>

SigStep(e) ==
    \/ SigDone(e) \/ SigDestroy(e) \/ SigDestroyed(e) \/ SigDeletePdbs(e)
    \/ SigFlag(e) \/ SigExit(e)

-----------------------------------------------------------------------------

StartPurge(q) ==
    /\ delAt[<<q, "purge">>] = "idle"
    /\ Begin(<<q, "purge">>)
    /\ UNCHANGED <<clusterVars, mainVars, sigVars, faults>>

Kubelet(p) ==
    /\ KubeletStep(p)
    /\ UNCHANGED <<mainVars, sigVars, delVars, faults>>

Next ==
    \/ \E e \in Execs : \/ MainStep(e) \/ WaitTimeout(e) \/ SigStep(e)
                        \/ Signal(e) \/ Crash(e) \/ Kubelet(e)
    \/ \E t \in Threads : DeleteStep(t)
    \/ \E q \in Purges : StartPurge(q)

Spec == Init /\ [][Next]_vars

-----------------------------------------------------------------------------
(* Safety.                                                                 *)

(* Concurrent invocations never delete each other's pods: whatever a       *)
(* thread of an invocation has listed for deletion is the pod of that      *)
(* invocation; only purge --all lists others (pod.go:66-72).               *)
OnlyOwnPods == \A t \in Threads : t[1] \notin PurgeAll => delTodo[t] \subseteq {t[1]}

(* When the deferred cleanup of an ended invocation, or the cleanup of its *)
(* signal goroutine, reports no error, its pod is deleted: no interleaving *)
(* of the two with a lost answer of the create call, an eviction or a      *)
(* purge leaves it behind.  In particular exit status 0 means no pod.      *)
CleanupComplete ==
    \A e \in Execs : PlainLabels(e) =>
        /\ at[e] = "done" /\ delAt[Main(e)] = "ok" => obj[e] # "live"
        /\ delAt[Sig(e)] = "ok" => obj[e] # "live"

(* From the moment its pod is waited for until the command is over, an     *)
(* invocation with --create-pdb has a PDB that covers the pod, unless a    *)
(* thread that is going to delete the pod has already taken the PDB away;  *)
(* the delete call that follows must not fail (pod.go:82, 96, 140).        *)
Protected ==
    \A e \in UsePDB :
        /\ Notified(e) \/ at[e] = "run"
        /\ obj[e] = "live"
        /\ PlainLabels(e) /\ faults = 0
        => Covered(e) \/ \E t \in Threads : e \in delTodo[t]

(* A container runs without its API object only when the PDB could not be  *)
(* created and CreateHelmPod deleted the pod with grace period 0: the      *)
(* forced deletions of DeleteHelmPods, which rest on a phase read earlier, *)
(* never do that (pod.go:87-94).                                           *)
OrphansOnlyWithoutPdb ==
    \A e \in Execs :
        obj[e] = "gone" /\ phase[e] = "Running"
        => e \in UsePDB /\ sigAt[e] = "off" /\ out[e] = "err"

(* No API call fails, no node is drained and nobody runs purge --all.      *)
Undisturbed ==
    faults = 0 /\ ~AllowEvictions /\ \A q \in PurgeAll : delAt[<<q, "purge">>] = "idle"

(* An invocation whose cleanup reports no error leaves no PDB behind,      *)
(* interrupted or not (pod.go:82, 140, 173).                               *)
NoPdbLeak ==
    Undisturbed =>
        \A e \in Execs :
            PlainLabels(e) /\ at[e] = "done" /\ delAt[Main(e)] = "ok" => e \notin pdb

-----------------------------------------------------------------------------
(* Inductive strengthenings of the invariants above, for the proofs in     *)
(* ExecLifecycleProofs and ExecPdbProofs.                                  *)

(* A call of DeleteHelmPods that has listed still has to delete p.         *)
StillToDelete(t, p) == delAt[t] # "ok" /\ (delAt[t] = "each" => p \in delTodo[t])

(* CleanupComplete, and what makes it hold at every step: no pod before    *)
(* the create call and no signal goroutine before the pod, so no cleanup   *)
(* can list too early; and a live pod is still on the list of every        *)
(* cleanup of its invocation that is under way.                            *)
CleanupOf(e) ==
    /\ at[e] \in {"prep", "pre", "create"} => obj[e] = "none"
    /\ at[e] = "pdb" => obj[e] # "none"
    /\ IF sigAt[e] = "off" THEN delAt[Sig(e)] = "idle" ELSE obj[e] # "none"
    /\ obj[e] = "live" /\ PlainLabels(e) =>
          /\ at[e] \in {"clean", "done"} => StillToDelete(Main(e), e)
          /\ StillToDelete(Sig(e), e)

CleanupInv == \A e \in Execs : CleanupOf(e)

(* OrphansOnlyWithoutPdb, and: a pod that was listed as terminated stays   *)
(* terminated; no signal goroutine runs before the PDB is settled.         *)
OrphanOf(e) ==
    /\ at[e] \in {"pdb", "unprotect"} => e \in UsePDB
    /\ at[e] \in {"prep", "pre", "create", "pdb", "unprotect"} => sigAt[e] = "off"
    /\ obj[e] = "gone" /\ phase[e] = "Running" =>
          /\ e \in UsePDB /\ sigAt[e] = "off" /\ out[e] = "err"
          /\ at[e] \in {"clean", "done", "killed"}

OrphanInv ==
    /\ \A t \in Threads : \A p \in delTerm[t] : phase[p] \in Terminal
    /\ \A e \in Execs : OrphanOf(e)

(* A call of DeleteHelmPods deals with one listed pod at a time, and only  *)
(* while it runs; nobody begins a second call in the same thread.          *)
CursorOf(t) ==
    /\ delCur[t] \subseteq delTodo[t]
    /\ \A p, r \in delCur[t] : p = r
    /\ delAt[t] # "each" => delCur[t] = {}

IdleOf(e) ==
    /\ at[e] \in {"prep", "create", "pdb", "unprotect", "wait", "get", "run"}
          => delAt[Main(e)] \in {"idle", "ok", "err"}
    /\ sigAt[e] \in {"off", "select"} => delAt[Sig(e)] = "idle"
    /\ sigAt[e] = "pdbs" => Deleted(Sig(e))

ThreadInv == (\A t \in Threads : CursorOf(t)) /\ (\A e \in Execs : IdleOf(e))

(* Protected, and: a PDB is only taken away by a thread that is about to   *)
(* delete the pod; the signal goroutine does so after its DeleteHelmPods,  *)
(* when the pod is deleted.                                                *)
ProtectedOf(e) ==
    /\ Notified(e) \/ at[e] = "run" => sigAt[e] # "off"
    /\ faults = 0 /\ PlainLabels(e) /\ obj[e] = "live" =>
          /\ delAt[Sig(e)] # "err"
          /\ e \in UsePDB /\ sigAt[e] # "off"
                => e \in pdb \/ \E t \in Threads : e \in delCur[t]

ProtectedInv == \A e \in Execs : ProtectedOf(e)

(* NoPdbLeak, and: whoever deletes the pod has deleted its PDB before, and *)
(* nobody but the invocation itself can have done so before the PDB was    *)
(* there.                                                                  *)
LeakOf(e) ==
    /\ at[e] = "unprotect" => faults # 0
    /\ Undisturbed /\ PlainLabels(e) =>
          /\ at[e] = "pdb" => obj[e] = "live"
          /\ obj[e] # "live" => e \notin pdb
          /\ \A t \in Threads : e \in delCur[t] => e \notin pdb

LeakInv == \A e \in Execs : LeakOf(e)

-----------------------------------------------------------------------------
(* What the documentation says.                                            *)

(* README.md:619: purge removes leftover pods from the current host.  A    *)
(* purge whose list call succeeds lists the pod of every invocation that   *)
(* was killed on its host.                                                 *)
PurgeFindsLeftovers ==
    [][\A q \in Purges, e \in Execs :
          LET t == <<q, "purge">> IN
          /\ delAt[t] = "list" /\ delAt'[t] \in {"each", "ok"}
          /\ at[e] = "killed" /\ HostOf[e] = HostOf[q] /\ obj[e] = "live"
          => e \in delTodo'[t]]_vars

-----------------------------------------------------------------------------
(* Liveness.  Goroutines are scheduled, the kubelet acts on a deletion,    *)
(* and the poll of waitUntilPodIsRunning has a deadline: it cannot go      *)
(* round for ever.  Only the property that needs the deadline assumes it.  *)
(* Signals, drains and the end of a container that nobody stops are not    *)
(* assumed to happen.                                                      *)

Scheduled ==
    /\ \A e \in Execs : WF_vars(MainStep(e)) /\ WF_vars(SigStep(e))
    /\ \A t \in Threads : WF_vars(DeleteStep(t))

KubeletDeletes ==
    \A p \in Execs : /\ WF_vars(obj[p] # "live" /\ ContainerExit(p) /\ Kubelet(p))
                     /\ WF_vars(KubeletRemove(p) /\ Kubelet(p))

Deadlines == \A e \in Execs : SF_vars(WaitTimeout(e))

FairSpec == Spec /\ Scheduled /\ KubeletDeletes

(* Every invocation ends, whatever fails, is interrupted, drained or       *)
(* purged: the deadline of the wait is all it needs (pod.go:209).          *)
Terminates == Deadlines => \A e \in Execs : <>(at[e] \in Ended)

(* After a successful cleanup the container stops and the object goes.     *)
CleanupTakesEffect ==
    \A e \in Execs :
        at[e] = "done" /\ delAt[Main(e)] = "ok" /\ PlainLabels(e)
        ~> obj[e] \in {"none", "gone"} /\ phase[e] # "Running"

(* An interrupted wait ends without help of its deadline, although nothing *)
(* tells the main goroutine but the flag.                                  *)
InterruptEndsWait == \A e \in Execs : sigAt[e] = "again" ~> ~Notified(e)

=============================================================================
