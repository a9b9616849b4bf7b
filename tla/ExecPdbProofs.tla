--------------------------- MODULE ExecPdbProofs ---------------------------
(***************************************************************************)
(* What is proved of the PodDisruptionBudgets of ExecLifecycle, for any    *)
(* number of invocations, purges and signals: a live pod is protected, and *)
(* the PDB goes with the pod.                                              *)
(***************************************************************************)
EXTENDS ExecLifecycleProofs

(* The steps of the main goroutine, one by one.                            *)
LEMMA MainCases ==
    ASSUME NEW f \in Execs, MainStep(f) \/ WaitTimeout(f)
    PROVE  \/ Refuse(f) \/ Prepare(f) \/ PreDeleted(f) \/ CreatePod(f) \/ CreatePdb(f)
           \/ DeleteUnprotected(f) \/ PollInterrupted(f) \/ PollAgain(f) \/ GetPod(f)
           \/ RunBody(f) \/ Cleaned(f) \/ WaitTimeout(f)
BY DEF MainStep

LEMMA SignalCases ==
    ASSUME NEW f \in Execs, SigStep(f) \/ Signal(f) \/ Crash(f)
    PROVE  \/ SigDone(f) \/ SigDestroy(f) \/ SigDestroyed(f) \/ SigDeletePdbs(f)
           \/ SigFlag(f) \/ SigExit(f) \/ Signal(f) \/ Crash(f)
BY DEF SigStep

-----------------------------------------------------------------------------
(* The threads that run DeleteHelmPods.                                    *)

(* A step of DeleteHelmPods in t concerns the state of t only.             *)
LEMMA DeleteFrame ==
    ASSUME TypeOK, NEW t \in Threads, DeleteStep(t)
    PROVE  /\ UNCHANGED <<at, out, sigAt, sigs, sent, interrupted>>
           /\ delAt[t] \in {"list", "each"} /\ delAt'[t] # "idle"
           /\ \A u \in Threads : u # t => /\ delAt'[u] = delAt[u]
                                          /\ delTodo'[u] = delTodo[u]
                                          /\ delCur'[u] = delCur[u]
BY DEF DeleteStep, ListPods, DeletePdbsOf, DeletePod, DeleteFails, TypeOK, mainVars, sigVars

LEMMA CursorDelete ==
    ASSUME TypeOK, NEW t \in Threads, CursorOf(t), DeleteStep(t)
    PROVE  CursorOf(t)'
<1> USE DEF TypeOK, CursorOf
<1>1. CASE ListPods(t)
  BY <1>1 DEF ListPods, DeleteFails
<1>2. ASSUME NEW p \in Execs, DeletePdbsOf(t, p)
      PROVE  CursorOf(t)'
  BY <1>2 DEF DeletePdbsOf
<1>3. ASSUME NEW p \in Execs, DeletePod(t, p)
      PROVE  CursorOf(t)'
  BY <1>3 DEF DeletePod, DeleteFails
<1>4. QED
  BY <1>1, <1>2, <1>3 DEF DeleteStep

LEMMA ThreadDelete ==
    ASSUME TypeOK, ThreadInv, NEW t \in Threads, DeleteStep(t)
    PROVE  ThreadInv'
<1>1. ASSUME NEW u \in Threads
      PROVE  CursorOf(u)'
  <2>1. CASE u = t
    BY <2>1, CursorDelete DEF ThreadInv
  <2>2. CASE u # t
    BY <2>2, DeleteFrame DEF ThreadInv, CursorOf
  <2>3. QED
    BY <2>1, <2>2
<1>2. ASSUME NEW e \in Execs
      PROVE  IdleOf(e)'
  <2>1. IdleOf(e) /\ Main(e) \in Threads /\ Sig(e) \in Threads
    BY ThreadsOfExec DEF ThreadInv
  <2>2. QED
    BY <2>1, DeleteFrame DEF IdleOf, Deleted
<1>3. QED
  BY <1>1, <1>2 DEF ThreadInv


LEMMA ThreadMain ==
    ASSUME TypeOK, OrphanInv, ThreadInv, NEW f \in Execs, MainStep(f) \/ WaitTimeout(f)
    PROVE  ThreadInv'
<1>1. IdleOf(f) /\ Main(f) \in Threads
  BY ThreadsOfExec DEF ThreadInv
<1>2. ASSUME NEW t \in Threads
      PROVE  CursorOf(t)'
  <2>1. CursorOf(t)
    BY DEF ThreadInv
  <2>2. CASE UNCHANGED delVars
    BY <2>1, <2>2 DEF delVars, CursorOf
  <2>3. CASE Begin(Main(f)) /\ delAt[Main(f)] # "each"
    BY <2>1, <2>3 DEF Begin, CursorOf, TypeOK
  <2>4. UNCHANGED delVars \/ (Begin(Main(f)) /\ delAt[Main(f)] # "each")
    BY <1>1, MainCases
       DEF IdleOf, Refuse, Prepare, PreDeleted, CreatePod, CreatePdb, DeleteUnprotected,
           PollInterrupted, PollAgain, GetPod, RunBody, Cleaned, WaitTimeout, Return, Deleted
  <2>5. QED
    BY <2>2, <2>3, <2>4
<1>3. ASSUME NEW e \in Execs
      PROVE  IdleOf(e)'
  <2>1. /\ IdleOf(e) /\ Main(e) \in Threads /\ Sig(e) \in Threads
        /\ Main(f) # Sig(e) /\ (Main(f) = Main(e) => e = f)
    BY ThreadsOfExec, ThreadsDiffer DEF ThreadInv
  <2> USE <2>1 DEF TypeOK, IdleOf, Deleted, Goto, Return, Begin, sigVars, delVars
  <2>2. CASE Refuse(f)
    BY <2>2 DEF Refuse
  <2>3. CASE Prepare(f)
    BY <2>3 DEF Prepare
  <2>4. CASE PreDeleted(f)
    BY <2>4 DEF PreDeleted
  <2>5. CASE CreatePod(f)
    BY <2>5 DEF CreatePod, Arm, OrphanInv, OrphanOf
  <2>6. CASE CreatePdb(f)
    BY <2>6 DEF CreatePdb, Arm, OrphanInv, OrphanOf
  <2>7. CASE DeleteUnprotected(f)
    BY <2>7 DEF DeleteUnprotected
  <2>8. CASE PollInterrupted(f)
    BY <2>8 DEF PollInterrupted
  <2>9. CASE PollAgain(f)
    BY <2>9 DEF PollAgain
  <2>10. CASE GetPod(f)
    BY <2>10 DEF GetPod
  <2>11. CASE RunBody(f)
    BY <2>11 DEF RunBody
  <2>12. CASE Cleaned(f)
    BY <2>12 DEF Cleaned
  <2>13. CASE WaitTimeout(f)
    BY <2>13 DEF WaitTimeout
  <2>14. QED
    BY <2>2, <2>3, <2>4, <2>5, <2>6, <2>7, <2>8, <2>9, <2>10, <2>11, <2>12, <2>13, MainCases
<1>4. QED
  BY <1>2, <1>3 DEF ThreadInv

LEMMA ThreadSignal ==
    ASSUME TypeOK, ThreadInv, NEW f \in Execs, SigStep(f) \/ Signal(f) \/ Crash(f)
    PROVE  ThreadInv'
<1>1. IdleOf(f) /\ Sig(f) \in Threads
  BY ThreadsOfExec DEF ThreadInv
<1>2. ASSUME NEW t \in Threads
      PROVE  CursorOf(t)'
  <2>1. CursorOf(t)
    BY DEF ThreadInv
  <2>2. CASE UNCHANGED delVars
    BY <2>1, <2>2 DEF delVars, CursorOf
  <2>3. CASE Begin(Sig(f)) /\ delAt[Sig(f)] # "each"
    BY <2>1, <2>3 DEF Begin, CursorOf, TypeOK
  <2>4. UNCHANGED delVars \/ (Begin(Sig(f)) /\ delAt[Sig(f)] # "each")
    BY <1>1, SignalCases
       DEF IdleOf, SigDone, SigDestroy, SigDestroyed, SigDeletePdbs, SigFlag, SigExit,
           Signal, Crash
  <2>5. QED
    BY <2>2, <2>3, <2>4
<1>3. ASSUME NEW e \in Execs
      PROVE  IdleOf(e)'
  <2>1. /\ IdleOf(e) /\ Main(e) \in Threads /\ Sig(e) \in Threads
        /\ Sig(f) # Main(e) /\ (Sig(f) = Sig(e) => e = f)
    BY ThreadsOfExec, ThreadsDiffer DEF ThreadInv
  <2> USE <2>1 DEF TypeOK, IdleOf, Deleted, Goto, SigGoto, Begin, mainVars, delVars
  <2>2. CASE SigDone(f)
    BY <2>2 DEF SigDone
  <2>3. CASE SigDestroy(f)
    BY <2>3 DEF SigDestroy
  <2>4. CASE SigDestroyed(f)
    BY <2>4 DEF SigDestroyed
  <2>5. CASE SigDeletePdbs(f)
    BY <2>5 DEF SigDeletePdbs
  <2>6. CASE SigFlag(f)
    BY <2>6 DEF SigFlag
  <2>7. CASE SigExit(f)
    BY <2>7 DEF SigExit
  <2>8. CASE Signal(f)
    BY <2>8 DEF Signal
  <2>9. CASE Crash(f)
    BY <2>9 DEF Crash
  <2>10. QED
    BY <2>2, <2>3, <2>4, <2>5, <2>6, <2>7, <2>8, <2>9, SignalCases
<1>4. QED
  BY <1>2, <1>3 DEF ThreadInv

LEMMA ThreadStep == TypeOK /\ OrphanInv /\ ThreadInv /\ [Next]_vars => ThreadInv'
<1> SUFFICES ASSUME TypeOK, OrphanInv, ThreadInv, [Next]_vars
             PROVE  ThreadInv'
  OBVIOUS
<1>1. ASSUME NEW q \in Purges, StartPurge(q)
      PROVE  ThreadInv'
  <2>1. ASSUME NEW t \in Threads
        PROVE  CursorOf(t)'
    BY <1>1 DEF ThreadInv, CursorOf, StartPurge, Begin, TypeOK
  <2>2. ASSUME NEW e \in Execs
        PROVE  IdleOf(e)'
    <3>1. /\ IdleOf(e) /\ Main(e) \in Threads /\ Sig(e) \in Threads
          /\ <<q, "purge">> # Main(e) /\ <<q, "purge">> # Sig(e)
      BY ThreadsOfExec DEF ThreadInv, Main, Sig
    <3>2. QED
      BY <1>1, <3>1 DEF IdleOf, Deleted, StartPurge, Begin, mainVars, sigVars, TypeOK
  <2>3. QED
    BY <2>1, <2>2 DEF ThreadInv
<1>2. CASE UNCHANGED <<at, sigAt, delVars>>
  BY <1>2 DEF delVars, ThreadInv, CursorOf, IdleOf, Deleted
<1>3. ASSUME NEW p \in Execs, Kubelet(p)
      PROVE  ThreadInv'
  BY <1>2, <1>3 DEF Kubelet, mainVars, sigVars
<1>4. QED
  BY <1>1, <1>2, <1>3, ThreadDelete, ThreadMain, ThreadSignal DEF Next, vars, mainVars, sigVars

LEMMA ThreadInvariant == Spec => []ThreadInv
<1>1. Init => ThreadInv
  BY ThreadsOfExec DEF Init, ThreadInv, CursorOf, IdleOf
<1>2. QED
  BY <1>1, ThreadStep, OrphanInvariant, TypeCorrect, PTL DEF Spec

-----------------------------------------------------------------------------
(* A live pod is protected.                                                *)

(* The label that says which PDB covers a pod names its own invocation, or *)
(* none.                                                                   *)
LEMMA OperationOf ==
    ASSUME NEW p \in Execs
    PROVE  /\ \A e \in Execs : PodLabels(p)["op"] = e => p = e
           /\ PlainLabels(p) => PodLabels(p)["op"] = p
<1>1. PodLabels(p)["op"] = IF "op" \in DOMAIN UserLabels[p] THEN UserLabels[p]["op"] ELSE p
  BY DEF PodLabels, ManagerLabels, LabelKeys
<1>2. QED
  BY <1>1, UuidsAreFresh DEF PlainLabels, LabelKeys, Invocations

(* DeleteHelmPods creates no pod, and a failed call stays counted.         *)
LEMMA DeleteKeeps ==
    ASSUME TypeOK, NEW t \in Threads, DeleteStep(t), NEW e \in Execs
    PROVE  /\ obj'[e] = "live" => obj[e] = "live"
           /\ faults' = 0 => faults = 0
           /\ pdb' \subseteq pdb
<1>1. obj'[e] = "live" => obj[e] = "live"
  <2>1. CASE UNCHANGED obj
    BY <2>1
  <2>2. ASSUME NEW p \in Execs, Exists(p), DeleteListed(t, p)
        PROVE  obj'[e] = "live" => obj[e] = "live"
    BY <2>2, DeleteCall
  <2>3. QED
    BY <2>1, <2>2 DEF DeleteStep, ListPods, DeletePdbsOf, DeletePod, clusterVars
<1>2. faults' = 0 => faults = 0
  BY ConstantsType
     DEF DeleteStep, ListPods, DeletePdbsOf, DeletePod, Fault, NoFault, TypeOK
<1>3. pdb' \subseteq pdb
  BY DEF DeleteStep, ListPods, DeletePdbsOf, DeletePod, clusterVars
<1>4. QED
  BY <1>1, <1>2, <1>3

LEMMA ProtectedDelete ==
    ASSUME TypeOK, OnlyOwnPods, ThreadInv, ProtectedInv,
           NEW t \in Threads, DeleteStep(t), NEW e \in Execs
    PROVE  ProtectedOf(e)'
<1> DEFINE Cover == e \in pdb \/ \E u \in Threads : e \in delCur[u]
<1>1. /\ ProtectedOf(e) /\ CursorOf(t) /\ Sig(e) \in Threads
      /\ t = Sig(e) => delTodo[t] \subseteq {e}
  BY ThreadsOfExec, InvocationsDistinct, ConstantsType
     DEF ProtectedInv, ThreadInv, OnlyOwnPods, Sig
<1>2. UNCHANGED <<at, sigAt>>
  BY DeleteFrame
<1> SUFFICES ASSUME faults' = 0, PlainLabels(e), obj'[e] = "live"
             PROVE  /\ delAt'[Sig(e)] # "err"
                    /\ Cover => Cover'
  BY <1>1, <1>2, DeleteKeeps DEF ProtectedOf, Notified
<1>3. obj[e] = "live" /\ faults = 0 /\ delAt[Sig(e)] # "err"
  BY <1>1, DeleteKeeps DEF ProtectedOf
<1>4. CASE ListPods(t)
  <2>1. /\ delAt[t] = "list" /\ delAt' = [delAt EXCEPT ![t] = delAt'[t]] /\ delAt'[t] # "err"
        /\ delCur' = [delCur EXCEPT ![t] = {}] /\ UNCHANGED pdb
    BY <1>3, <1>4 DEF ListPods, Fault, clusterVars, TypeOK
  <2>2. delCur[t] = {}
    BY <1>1, <2>1 DEF CursorOf
  <2>3. QED
    BY <1>1, <1>3, <2>1, <2>2 DEF TypeOK
<1>5. ASSUME NEW p \in Execs, DeletePdbsOf(t, p)
      PROVE  delAt'[Sig(e)] # "err" /\ (Cover => Cover')
  <2>1. /\ UNCHANGED delAt /\ delCur[t] = {}
        /\ delCur' = [delCur EXCEPT ![t] = {p}]
        /\ pdb \ {PodLabels(p)["op"]} \subseteq pdb'
    BY <1>5 DEF DeletePdbsOf
  <2>2. CASE p = e
    BY <1>3, <2>1, <2>2 DEF TypeOK
  <2>3. CASE p # e
    BY <1>3, <2>1, <2>3, OperationOf DEF TypeOK
  <2>4. QED
    BY <2>2, <2>3
<1>6. ASSUME NEW p \in Execs, DeletePod(t, p)
      PROVE  delAt'[Sig(e)] # "err" /\ (Cover => Cover')
  <2>1. /\ p \in delCur[t] /\ UNCHANGED pdb
        /\ delCur' = [delCur EXCEPT ![t] = {}]
        /\ \A u \in Threads : u # t => delAt'[u] = delAt[u]
        /\ \/ Exists(p) /\ DeleteListed(t, p) /\ delAt'[t] # "err"
           \/ ~Exists(p)
    BY <1>3, <1>6 DEF DeletePod, DeleteFails, Fault, TypeOK
  <2>2. p # e
    BY <1>3, <2>1, DeleteCall DEF Exists
  <2>3. e \notin delCur[t]
    BY <1>1, <2>1, <2>2 DEF CursorOf
  <2>4. t # Sig(e)
    BY <1>1, <2>1, <2>2 DEF CursorOf
  <2>5. QED
    BY <1>1, <1>3, <2>1, <2>3, <2>4 DEF TypeOK
<1>7. QED
  BY <1>4, <1>5, <1>6 DEF DeleteStep

LEMMA ProtectedMain ==
    ASSUME TypeOK, CleanupInv, OrphanInv, ProtectedInv,
           NEW f \in Execs, MainStep(f) \/ WaitTimeout(f), NEW e \in Execs
    PROVE  ProtectedOf(e)'
<1>1. /\ ProtectedOf(e) /\ CleanupOf(e) /\ OrphanOf(f) /\ CleanupOf(f)
      /\ Sig(e) \in Threads /\ Main(f) \in Threads /\ Main(f) # Sig(e)
  BY ThreadsOfExec, ThreadsDiffer DEF ProtectedInv, CleanupInv, OrphanInv
<1> USE <1>1, ConstantsType
    DEF TypeOK, ClusterTypeOK, ProtectedOf, Notified, Goto, Return, Begin,
        clusterVars, sigVars, delVars, Fault, NoFault
<1>2. CASE Refuse(f)
  BY <1>2 DEF Refuse
<1>3. CASE Prepare(f)
  BY <1>3 DEF Prepare
<1>4. CASE PreDeleted(f)
  BY <1>4 DEF PreDeleted
<1>5. CASE CreatePod(f)
  BY <1>5 DEF CreatePod, CreatePodObject, Arm, OrphanOf, CleanupOf
<1>6. CASE CreatePdb(f)
  BY <1>6 DEF CreatePdb, Arm, OrphanOf, CleanupOf
<1>7. CASE DeleteUnprotected(f)
  BY <1>7 DEF DeleteUnprotected, DeleteForcibly
<1>8. CASE PollInterrupted(f)
  BY <1>8 DEF PollInterrupted
<1>9. CASE PollAgain(f)
  BY <1>9 DEF PollAgain
<1>10. CASE GetPod(f)
  BY <1>10 DEF GetPod
<1>11. CASE RunBody(f)
  BY <1>11 DEF RunBody
<1>12. CASE Cleaned(f)
  BY <1>12 DEF Cleaned
<1>13. CASE WaitTimeout(f)
  BY <1>13 DEF WaitTimeout
<1>14. QED
  BY <1>2, <1>3, <1>4, <1>5, <1>6, <1>7, <1>8, <1>9, <1>10, <1>11, <1>12, <1>13, MainCases

(* The signal goroutine deletes the PDBs once more after its call of       *)
(* DeleteHelmPods; by then the pod is not live.                            *)
LEMMA ProtectedSignal ==
    ASSUME TypeOK, CleanupInv, ThreadInv, ProtectedInv,
           NEW f \in Execs, SigStep(f) \/ Signal(f) \/ Crash(f), NEW e \in Execs
    PROVE  ProtectedOf(e)'
<1>1. /\ ProtectedOf(e) /\ CleanupOf(e) /\ IdleOf(e)
      /\ Sig(e) \in Threads /\ Sig(f) \in Threads /\ (Sig(f) = Sig(e) => e = f)
  BY ThreadsOfExec, ThreadsDiffer DEF ProtectedInv, CleanupInv, ThreadInv
<1> USE <1>1, ConstantsType
    DEF TypeOK, ClusterTypeOK, ProtectedOf, Notified, Goto, SigGoto, Begin,
        clusterVars, mainVars, delVars, Fault, NoFault
<1>2. CASE SigDone(f)
  BY <1>2 DEF SigDone
<1>3. CASE SigDestroy(f)
  BY <1>3 DEF SigDestroy
<1>4. CASE SigDestroyed(f)
  BY <1>4 DEF SigDestroyed
<1>5. CASE SigDeletePdbs(f)
  BY <1>5 DEF SigDeletePdbs, CleanupOf, StillToDelete, IdleOf, Deleted
<1>6. CASE SigFlag(f)
  BY <1>6 DEF SigFlag
<1>7. CASE SigExit(f)
  BY <1>7 DEF SigExit
<1>8. CASE Signal(f)
  BY <1>8 DEF Signal
<1>9. CASE Crash(f)
  BY <1>9 DEF Crash
<1>10. QED
  BY <1>2, <1>3, <1>4, <1>5, <1>6, <1>7, <1>8, <1>9, SignalCases

(* What the kubelet and drains may do to a pod.                            *)
LEMMA KubeletKeeps ==
    ASSUME TypeOK, NEW p \in Execs, Kubelet(p), NEW e \in Execs
    PROVE  /\ obj'[e] = "live" => obj[e] = "live"
           /\ ~AllowEvictions /\ obj[e] = "live" => obj'[e] = "live"
           /\ UNCHANGED <<pdb, at, sigAt, delVars, faults>>
<1>1. UNCHANGED <<pdb, at, sigAt, delVars, faults>>
  BY DEF Kubelet, KubeletStep, KubeletStart, KubeletReady, ContainerExit, PodRejected,
         KubeletRemove, Evict, mainVars, sigVars, delVars
<1>2. CASE UNCHANGED obj
  BY <1>1, <1>2
<1>3. CASE KubeletRemove(p)
  BY <1>1, <1>3 DEF KubeletRemove, TypeOK, ClusterTypeOK
<1>4. CASE Evict(p)
  BY <1>1, <1>4 DEF Evict, DeleteGracefully, GraceOutcomes, TypeOK, ClusterTypeOK
<1>5. QED
  BY <1>2, <1>3, <1>4
     DEF Kubelet, KubeletStep, KubeletStart, KubeletReady, ContainerExit, PodRejected

LEMMA ProtectedOther ==
    ASSUME TypeOK, ProtectedInv, NEW e \in Execs,
           \/ \E p \in Execs : Kubelet(p)
           \/ \E q \in Purges : StartPurge(q)
           \/ UNCHANGED vars
    PROVE  ProtectedOf(e)'
<1>1. ProtectedOf(e) /\ Sig(e) \in Threads
  BY ThreadsOfExec DEF ProtectedInv
<1>2. ASSUME NEW p \in Execs, Kubelet(p)
      PROVE  ProtectedOf(e)'
  BY <1>1, <1>2, KubeletKeeps DEF ProtectedOf, Notified, delVars
<1>3. ASSUME NEW q \in Purges, StartPurge(q)
      PROVE  ProtectedOf(e)'
  <2>1. <<q, "purge">> # Sig(e)
    BY DEF Sig
  <2>2. QED
    BY <1>1, <1>3, <2>1
       DEF StartPurge, Begin, clusterVars, mainVars, sigVars, ProtectedOf, Notified, TypeOK
<1>4. CASE UNCHANGED vars
  BY <1>1, <1>4 DEF vars, clusterVars, mainVars, sigVars, delVars, ProtectedOf, Notified
<1>5. QED
  BY <1>2, <1>3, <1>4

LEMMA ProtectedStep ==
    /\ TypeOK /\ OnlyOwnPods /\ CleanupInv /\ OrphanInv /\ ThreadInv
    /\ ProtectedInv /\ [Next]_vars
    => ProtectedInv'
<1> SUFFICES ASSUME TypeOK, OnlyOwnPods, CleanupInv, OrphanInv, ThreadInv, ProtectedInv,
                    [Next]_vars, NEW e \in Execs
             PROVE  ProtectedOf(e)'
  BY DEF ProtectedInv
<1>1. QED
  BY ProtectedDelete, ProtectedMain, ProtectedSignal, ProtectedOther DEF Next

(* From the wait for the pod to the end of the command a live pod has its  *)
(* PDB, whatever other invocations, purges, drains and signals do, until a *)
(* thread is about to delete the pod (pod.go:82, 140, 173).                *)
THEOREM PodsAreProtected == Spec => []Protected
<1>1. Init => ProtectedInv
  BY ThreadsOfExec DEF Init, ClusterInit, ProtectedInv, ProtectedOf, Notified
<1>2. TypeOK /\ ThreadInv /\ ProtectedInv => Protected
  BY OperationOf, ConstantsType
     DEF ProtectedInv, ProtectedOf, Protected, Covered, ThreadInv, CursorOf
<1>3. QED
  BY <1>1, <1>2, ProtectedStep, ThreadInvariant, OrphanInvariant, CleanupInvariant,
     Isolation, TypeCorrect, PTL DEF Spec

-----------------------------------------------------------------------------
(* The PDB goes with the pod.                                              *)

(* Nobody has set out to delete the pod of an invocation that still has to *)
(* create the PDB: no list can hold it yet but that of a purge --all.      *)
LEMMA NotListedYet ==
    ASSUME TypeOK, OnlyOwnPods, OrphanInv, ThreadInv, Undisturbed,
           NEW e \in Execs, at[e] = "pdb", NEW t \in Threads
    PROVE  e \notin delCur[t]
<1> SUFFICES ASSUME e \in delCur[t]
             PROVE  FALSE
  OBVIOUS
<1>1. delAt[t] = "each" /\ e \in delTodo[t]
  BY DEF ThreadInv, CursorOf
<1>2. CASE t[1] \in PurgeAll
  <2>1. t = <<t[1], "purge">>
    BY <1>2, ConstantsType, InvocationsDistinct DEF Threads
  <2>2. QED
    BY <1>1, <1>2, <2>1 DEF Undisturbed
<1>3. CASE t[1] \notin PurgeAll
  <2>1. t[1] = e
    BY <1>1, <1>3 DEF OnlyOwnPods
  <2>2. t = Main(e) \/ t = Sig(e)
    BY <2>1, InvocationsDistinct DEF Threads, Main, Sig
  <2>3. IdleOf(e) /\ sigAt[e] = "off"
    BY DEF ThreadInv, OrphanInv, OrphanOf
  <2>4. QED
    BY <1>1, <2>2, <2>3 DEF IdleOf
<1>4. QED
  BY <1>2, <1>3

LEMMA LeakDelete ==
    ASSUME TypeOK, OnlyOwnPods, OrphanInv, ThreadInv, LeakInv,
           NEW t \in Threads, DeleteStep(t), NEW e \in Execs
    PROVE  LeakOf(e)'
<1>1. LeakOf(e) /\ CursorOf(t) /\ UNCHANGED at
  BY DeleteFrame DEF LeakInv, ThreadInv
<1>2. Undisturbed' => Undisturbed
  <2>1. ASSUME NEW q \in PurgeAll, delAt'[<<q, "purge">>] = "idle"
        PROVE  delAt[<<q, "purge">>] = "idle"
    BY <2>1, DeleteFrame, ConstantsType DEF Threads
  <2>2. QED
    BY <2>1, DeleteKeeps DEF Undisturbed
<1> SUFFICES ASSUME Undisturbed', PlainLabels(e)
             PROVE  /\ at[e] = "pdb" => obj'[e] = "live"
                    /\ obj'[e] # "live" => e \notin pdb'
                    /\ \A u \in Threads : e \in delCur'[u] => e \notin pdb'
  BY <1>1, DeleteKeeps DEF LeakOf
<1>3. /\ Undisturbed /\ faults' = 0
      /\ at[e] = "pdb" => obj[e] = "live" /\ \A u \in Threads : e \notin delCur[u]
      /\ obj[e] # "live" => e \notin pdb
      /\ \A u \in Threads : e \in delCur[u] => e \notin pdb
  BY <1>1, <1>2, NotListedYet DEF LeakOf, Undisturbed
<1>4. CASE ListPods(t)
  <2>1. delCur' = [delCur EXCEPT ![t] = {}] /\ UNCHANGED <<obj, pdb>>
    BY <1>4 DEF ListPods, DeleteFails, clusterVars
  <2>2. QED
    BY <1>3, <2>1 DEF TypeOK
<1>5. ASSUME NEW p \in Execs, DeletePdbsOf(t, p)
      PROVE  /\ at[e] = "pdb" => obj'[e] = "live"
             /\ obj'[e] # "live" => e \notin pdb'
             /\ \A u \in Threads : e \in delCur'[u] => e \notin pdb'
  <2>1. /\ delCur' = [delCur EXCEPT ![t] = {p}] /\ UNCHANGED obj
        /\ pdb' = pdb \ {PodLabels(p)["op"]}
    BY <1>3, <1>5, ConstantsType DEF DeletePdbsOf, Fault, TypeOK
  <2>2. p = e => e \notin pdb'
    BY <2>1, OperationOf
  <2>3. QED
    BY <1>3, <2>1, <2>2 DEF TypeOK
<1>6. ASSUME NEW p \in Execs, DeletePod(t, p)
      PROVE  /\ at[e] = "pdb" => obj'[e] = "live"
             /\ obj'[e] # "live" => e \notin pdb'
             /\ \A u \in Threads : e \in delCur'[u] => e \notin pdb'
  <2>1. /\ p \in delCur[t] /\ UNCHANGED pdb /\ delCur' = [delCur EXCEPT ![t] = {}]
        /\ UNCHANGED obj \/ (Exists(p) /\ DeleteListed(t, p))
    BY <1>6 DEF DeletePod, DeleteFails
  <2>2. p # e => obj'[e] = obj[e]
    BY <2>1, DeleteCall
  <2>3. QED
    BY <1>3, <2>1, <2>2 DEF TypeOK
<1>7. QED
  BY <1>4, <1>5, <1>6 DEF DeleteStep

(* Only threads of purges move them.                                       *)
LEMMA PurgesIdle ==
    ASSUME TypeOK, NEW u \in Threads, Begin(u)
    PROVE  \A q \in PurgeAll : delAt'[<<q, "purge">>] = "idle" => delAt[<<q, "purge">>] = "idle"
BY ConstantsType DEF Begin, TypeOK, Threads

LEMMA LeakMain ==
    ASSUME TypeOK, OnlyOwnPods, OrphanInv, ThreadInv, LeakInv,
           NEW f \in Execs, MainStep(f) \/ WaitTimeout(f), NEW e \in Execs
    PROVE  LeakOf(e)'
<1>1. LeakOf(e) /\ LeakOf(f) /\ Main(f) \in Threads
  BY ThreadsOfExec DEF LeakInv
<1>2. faults' = 0 => faults = 0
  BY MainCases, ConstantsType
     DEF Refuse, Prepare, PreDeleted, CreatePod, CreatePdb, DeleteUnprotected,
         PollInterrupted, PollAgain, GetPod, RunBody, Cleaned, WaitTimeout, Fault, NoFault,
         TypeOK
<1>3. UNCHANGED delVars \/ Begin(Main(f))
  BY MainCases
     DEF Refuse, Prepare, PreDeleted, CreatePod, CreatePdb, DeleteUnprotected,
         PollInterrupted, PollAgain, GetPod, RunBody, Cleaned, WaitTimeout, Return
<1>4. UNCHANGED delCur /\ (Undisturbed' => Undisturbed)
  BY <1>1, <1>2, <1>3, PurgesIdle DEF Undisturbed, delVars, Begin
<1>5. CASE CreatePdb(f)
  <2>1. \/ pdb' = pdb \cup {f} /\ Arm(f) /\ UNCHANGED faults
        \/ pdb' \subseteq pdb \cup {f} /\ faults' # 0 /\ Goto(f, "unprotect")
    BY <1>5, ConstantsType DEF CreatePdb, Fault, NoFault, TypeOK
  <2>2. at[f] = "pdb" /\ UNCHANGED obj
    BY <1>5 DEF CreatePdb
  <2>3. Undisturbed /\ PlainLabels(f) =>
            obj[f] = "live" /\ \A u \in Threads : f \notin delCur[u]
    BY <1>1, <2>2, NotListedYet DEF LeakOf
  <2>4. CASE e = f
    BY <1>1, <1>4, <2>1, <2>2, <2>3, <2>4 DEF LeakOf, Arm, Goto, TypeOK, Undisturbed
  <2>5. CASE e # f
    BY <1>1, <1>2, <1>4, <2>1, <2>2, <2>5 DEF LeakOf, Arm, Goto, TypeOK
  <2>6. QED
    BY <2>4, <2>5
<1>6. CASE CreatePod(f)
  <2>1. UNCHANGED pdb /\ \A g \in Execs : obj'[g] # obj[g] => g = f /\ obj'[g] = "live"
    BY <1>6 DEF CreatePod, CreatePodObject, TypeOK, ClusterTypeOK
  <2>2. \/ at'[e] = at[e]
        \/ e = f /\ at'[e] \in {"wait", "clean"}
        \/ e = f /\ at'[e] = "pdb" /\ obj'[e] = "live"
    BY <1>6
       DEF CreatePod, CreatePodObject, Arm, Goto, Return, TypeOK, ClusterTypeOK
  <2>3. QED
    BY <1>1, <1>2, <1>4, <2>1, <2>2 DEF LeakOf
<1>7. CASE DeleteUnprotected(f)
  <2>1. faults' # 0 /\ at'[e] \in {at[e], "clean"}
    BY <1>1, <1>2, <1>7 DEF DeleteUnprotected, Return, LeakOf, TypeOK
  <2>2. QED
    BY <1>1, <2>1 DEF LeakOf, Undisturbed
<1>8. ASSUME UNCHANGED <<obj, pdb>>, at'[e] = at[e] \/ at'[e] \notin {"pdb", "unprotect"}
      PROVE  LeakOf(e)'
  BY <1>1, <1>2, <1>4, <1>8 DEF LeakOf
<1>9. QED
  BY <1>5, <1>6, <1>7, <1>8, MainCases
     DEF Refuse, Prepare, PreDeleted, PollInterrupted, PollAgain, GetPod, RunBody, Cleaned,
         WaitTimeout, Goto, Return, clusterVars, TypeOK

LEMMA LeakSignal ==
    ASSUME TypeOK, LeakInv, NEW f \in Execs, SigStep(f) \/ Signal(f) \/ Crash(f),
           NEW e \in Execs
    PROVE  LeakOf(e)'
<1>1. LeakOf(e) /\ Sig(f) \in Threads
  BY ThreadsOfExec DEF LeakInv
<1>2. /\ faults' = 0 => faults = 0
      /\ UNCHANGED obj /\ pdb' \subseteq pdb
      /\ at'[e] \in {at[e], "killed"}
      /\ UNCHANGED delVars \/ Begin(Sig(f))
  BY SignalCases, ConstantsType
     DEF SigDone, SigDestroy, SigDestroyed, SigDeletePdbs, SigFlag, SigExit, Signal, Crash,
         Goto, clusterVars, mainVars, Fault, NoFault, TypeOK
<1>3. UNCHANGED delCur /\ (Undisturbed' => Undisturbed)
  BY <1>1, <1>2, PurgesIdle DEF Undisturbed, delVars, Begin
<1>4. QED
  BY <1>1, <1>2, <1>3 DEF LeakOf

LEMMA LeakOther ==
    ASSUME TypeOK, LeakInv, NEW e \in Execs,
           \/ \E p \in Execs : Kubelet(p)
           \/ \E q \in Purges : StartPurge(q)
           \/ UNCHANGED vars
    PROVE  LeakOf(e)'
<1>1. LeakOf(e)
  BY DEF LeakInv
<1>2. ASSUME NEW p \in Execs, Kubelet(p)
      PROVE  LeakOf(e)'
  BY <1>1, <1>2, KubeletKeeps DEF LeakOf, Undisturbed, delVars
<1>3. ASSUME NEW q \in Purges, StartPurge(q)
      PROVE  LeakOf(e)'
  <2>1. <<q, "purge">> \in Threads
    BY DEF Threads
  <2>2. Undisturbed' => Undisturbed
    BY <1>3, <2>1, PurgesIdle DEF StartPurge, Undisturbed
  <2>3. QED
    BY <1>1, <1>3, <2>2 DEF StartPurge, Begin, clusterVars, mainVars, LeakOf
<1>4. CASE UNCHANGED vars
  BY <1>1, <1>4 DEF vars, clusterVars, mainVars, sigVars, delVars, LeakOf, Undisturbed
<1>5. QED
  BY <1>2, <1>3, <1>4

LEMMA LeakStep ==
    TypeOK /\ OnlyOwnPods /\ OrphanInv /\ ThreadInv /\ LeakInv /\ [Next]_vars => LeakInv'
<1> SUFFICES ASSUME TypeOK, OnlyOwnPods, OrphanInv, ThreadInv, LeakInv, [Next]_vars,
                    NEW e \in Execs
             PROVE  LeakOf(e)'
  BY DEF LeakInv
<1>1. QED
  BY LeakDelete, LeakMain, LeakSignal, LeakOther DEF Next

(* An undisturbed invocation, interrupted or not, leaves no PDB behind     *)
(* when its cleanup reports no error (pod.go:82, 164-175).                 *)
THEOREM NoPdbIsLeaked == Spec => []NoPdbLeak
<1>1. Init => LeakInv
  BY DEF Init, ClusterInit, LeakInv, LeakOf
<1>2. LeakInv /\ CleanupComplete => NoPdbLeak
  BY DEF LeakInv, LeakOf, CleanupComplete, NoPdbLeak
<1>3. QED
  BY <1>1, <1>2, LeakStep, CleanupIsComplete, ThreadInvariant, OrphanInvariant, Isolation,
     TypeCorrect, PTL DEF Spec

=============================================================================
