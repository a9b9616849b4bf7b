------------------------ MODULE ExecLifecycleProofs ------------------------
(***************************************************************************)
(* What is proved of ExecLifecycle for any number of invocations, purges,  *)
(* signals and failing calls, and for any labels the users give.           *)
(***************************************************************************)
EXTENDS ExecLifecycle, TLAPS

(* Threads of an invocation are threads.                                   *)
LEMMA ThreadsOfExec ==
    ASSUME NEW e \in Execs
    PROVE  Main(e) \in Threads /\ Sig(e) \in Threads /\ Main(e) # Sig(e)
BY DEF Main, Sig, Threads

(* The first component of a thread is its invocation.                      *)
LEMMA OwnerOfThread ==
    ASSUME NEW t \in Threads
    PROVE  t[1] \in Invocations
BY DEF Threads, Invocations

-----------------------------------------------------------------------------
(* Type correctness.                                                       *)

LEMMA TypeInit == Init => TypeOK
BY ConstantsType
   DEF Init, ClusterInit, TypeOK, ClusterTypeOK, ObjStates, Phases, Terminal,
       MainAt, Ended, SigAt, DelAt

(* A step of DeleteHelmPods keeps every variable in its type.              *)
LEMMA TypeDelete ==
    ASSUME TypeOK, NEW t \in Threads, DeleteStep(t)
    PROVE  TypeOK'
<1> USE ConstantsType DEF TypeOK, ClusterTypeOK, clusterVars, mainVars, sigVars,
                          Fault, NoFault
<1>1. CASE ListPods(t)
  BY <1>1 DEF ListPods, Listed, DeleteFails, DelAt
<1>2. ASSUME NEW p \in Execs, DeletePdbsOf(t, p)
      PROVE  TypeOK'
  BY <1>2 DEF DeletePdbsOf
<1>3. ASSUME NEW p \in Execs, DeletePod(t, p)
      PROVE  TypeOK'
  <2>1. obj' \in [Execs -> ObjStates]
    BY <1>3 DEF DeletePod, DeleteListed, DeleteForcibly, DeleteGracefully,
                GraceOutcomes, ObjStates
  <2>2. QED
    BY <1>3, <2>1 DEF DeletePod, DeleteFails, DelAt
<1>4. QED
  BY <1>1, <1>2, <1>3 DEF DeleteStep

LEMMA TypeMain ==
    ASSUME TypeOK, NEW e \in Execs, MainStep(e) \/ WaitTimeout(e)
    PROVE  TypeOK'
<1> USE ConstantsType, ThreadsOfExec
    DEF TypeOK, ClusterTypeOK, clusterVars, mainVars, sigVars, delVars,
        Fault, NoFault, Goto, Return, Begin, MainAt, Ended, DelAt
<1>1. CASE Refuse(e)
  BY <1>1 DEF Refuse
<1>2. CASE Prepare(e)
  <2>1. CASE Goto(e, "pre") /\ Begin(Main(e))
    BY <1>2, <2>1 DEF Prepare
  <2>2. CASE Return(e, "err")
    BY <1>2, <2>2 DEF Prepare
  <2>3. QED
    BY <1>2, <2>1, <2>2 DEF Prepare
<1>3. CASE PreDeleted(e)
  BY <1>3 DEF PreDeleted
<1>4. CASE CreatePod(e)
  <2>1. obj' \in [Execs -> ObjStates] /\ UNCHANGED <<phase, ready, pdb>>
    BY <1>4 DEF CreatePod, CreatePodObject, ObjStates
  <2>2. CASE NoFault /\ UNCHANGED delVars /\ Goto(e, "pdb") /\ UNCHANGED sigVars
    BY <2>1, <2>2
  <2>3. CASE NoFault /\ UNCHANGED delVars /\ Arm(e)
    BY <2>1, <2>3 DEF Arm, SigAt
  <2>4. CASE Fault /\ Return(e, "err") /\ UNCHANGED sigVars
    BY <2>1, <2>4
  <2>5. QED
    BY <1>4, <2>2, <2>3, <2>4 DEF CreatePod
<1>5. CASE CreatePdb(e)
  BY <1>5 DEF CreatePdb, Arm, SigAt
<1>6. CASE DeleteUnprotected(e)
  BY <1>6 DEF DeleteUnprotected, DeleteForcibly, ObjStates
<1>7. CASE PollInterrupted(e)
  BY <1>7 DEF PollInterrupted
<1>8. CASE PollAgain(e)
  BY <1>8 DEF PollAgain
<1>9. CASE GetPod(e)
  BY <1>9 DEF GetPod
<1>10. CASE RunBody(e)
  BY <1>10 DEF RunBody
<1>11. CASE Cleaned(e)
  BY <1>11 DEF Cleaned
<1>12. CASE WaitTimeout(e)
  BY <1>12 DEF WaitTimeout
<1>13. QED
  BY <1>1, <1>2, <1>3, <1>4, <1>5, <1>6, <1>7, <1>8, <1>9, <1>10, <1>11, <1>12
     DEF MainStep

LEMMA TypeSignal ==
    ASSUME TypeOK, NEW e \in Execs, SigStep(e) \/ Signal(e) \/ Crash(e)
    PROVE  TypeOK'
<1> USE ConstantsType, ThreadsOfExec
    DEF TypeOK, ClusterTypeOK, clusterVars, mainVars, delVars,
        Fault, NoFault, Goto, SigGoto, Begin, MainAt, Ended, SigAt, DelAt
<1>1. CASE SigDone(e)
  BY <1>1 DEF SigDone
<1>2. CASE SigDestroy(e)
  BY <1>2 DEF SigDestroy
<1>3. CASE SigDestroyed(e)
  BY <1>3 DEF SigDestroyed
<1>4. CASE SigDeletePdbs(e)
  BY <1>4 DEF SigDeletePdbs
<1>5. CASE SigFlag(e)
  BY <1>5 DEF SigFlag
<1>6. CASE SigExit(e)
  BY <1>6 DEF SigExit
<1>7. CASE Signal(e)
  BY <1>7 DEF Signal
<1>8. CASE Crash(e)
  BY <1>8 DEF Crash
<1>9. QED
  BY <1>1, <1>2, <1>3, <1>4, <1>5, <1>6, <1>7, <1>8 DEF SigStep

LEMMA TypeKubelet ==
    ASSUME TypeOK, NEW p \in Execs, Kubelet(p)
    PROVE  TypeOK'
<1> USE DEF TypeOK, ClusterTypeOK, mainVars, sigVars, delVars, Phases, Terminal, ObjStates
<1>1. CASE Evict(p)
  <2>1. obj' \in [Execs -> ObjStates]
    BY <1>1 DEF Evict, DeleteGracefully, GraceOutcomes
  <2>2. QED
    BY <1>1, <2>1 DEF Evict, Kubelet
<1>2. CASE KubeletStart(p)
  BY <1>2 DEF Kubelet, KubeletStart
<1>3. CASE KubeletReady(p)
  BY <1>3 DEF Kubelet, KubeletReady
<1>4. CASE ContainerExit(p)
  BY <1>4 DEF Kubelet, ContainerExit
<1>5. CASE PodRejected(p)
  BY <1>5 DEF Kubelet, PodRejected
<1>6. CASE KubeletRemove(p)
  BY <1>6 DEF Kubelet, KubeletRemove
<1>7. QED
  BY <1>1, <1>2, <1>3, <1>4, <1>5, <1>6 DEF Kubelet, KubeletStep

LEMMA TypeStep == TypeOK /\ [Next]_vars => TypeOK'
<1> SUFFICES ASSUME TypeOK, [Next]_vars
             PROVE  TypeOK'
  OBVIOUS
<1>1. ASSUME NEW q \in Purges, StartPurge(q)
      PROVE  TypeOK'
  BY <1>1 DEF TypeOK, ClusterTypeOK, StartPurge, Begin, clusterVars, mainVars,
              sigVars, DelAt
<1>2. CASE UNCHANGED vars
  BY <1>2 DEF TypeOK, ClusterTypeOK, vars, clusterVars, mainVars, sigVars, delVars
<1>3. QED
  BY <1>1, <1>2, TypeDelete, TypeMain, TypeSignal, TypeKubelet DEF Next

(* Every variable keeps its type, for every instance of the constants.     *)
THEOREM TypeCorrect == Spec => []TypeOK
BY TypeInit, TypeStep, PTL DEF Spec

-----------------------------------------------------------------------------
(* Selectors.                                                              *)

(* The selector of an invocation matches no pod but its own, because it    *)
(* asks for the operation id and nobody can give that label by hand.       *)
LEMMA SelectsOnlyOwn ==
    ASSUME NEW i \in Invocations, NEW p \in Execs, Selects(i, p)
    PROVE  p = i
<1>1. ManagerLabels(i)["op"] = i /\ ManagerLabels(p)["op"] = p
  BY DEF ManagerLabels, LabelKeys
<1>2. <<"op", i>> \in Selector(i)
  BY <1>1 DEF Selector, LabelKeys
<1>3. PodLabels(p)["op"] = i
  BY <1>2 DEF Selects
<1>4. PodLabels(p)["op"] = IF "op" \in DOMAIN UserLabels[p] THEN UserLabels[p]["op"] ELSE p
  BY <1>1 DEF PodLabels, LabelKeys
<1>5. QED
  BY <1>3, <1>4, UuidsAreFresh

(* Without labels that override the plugin's own it does match its own.    *)
LEMMA SelectsOwn ==
    ASSUME NEW e \in Execs, PlainLabels(e)
    PROVE  Selects(e, e)
<1>1. DOMAIN UserLabels[e] = {}
  BY UserLabelsType DEF PlainLabels
<1>2. UserRequirements(e) = {}
  BY <1>1 DEF UserRequirements
<1>3. \A k \in LabelKeys : PodLabels(e)[k] = ManagerLabels(e)[k]
  BY <1>1 DEF PodLabels
<1>4. QED
  BY <1>2, <1>3 DEF Selects, Selector

-----------------------------------------------------------------------------
(* Isolation.                                                              *)

LEMMA IsolationStep == TypeOK /\ OnlyOwnPods /\ [Next]_vars => OnlyOwnPods'
<1> SUFFICES ASSUME TypeOK, OnlyOwnPods, [Next]_vars
             PROVE  OnlyOwnPods'
  OBVIOUS
<1>1. ASSUME NEW t \in Threads, DeleteStep(t)
      PROVE  OnlyOwnPods'
  <2>1. CASE ListPods(t)
    <3>1. t[1] \notin PurgeAll => Listed(t[1]) \subseteq {t[1]}
      BY OwnerOfThread, SelectsOnlyOwn DEF Listed
    <3>2. QED
      BY <2>1, <3>1 DEF ListPods, DeleteFails, OnlyOwnPods, TypeOK
  <2>2. ASSUME NEW p \in Execs, DeletePdbsOf(t, p) \/ DeletePod(t, p)
        PROVE  OnlyOwnPods'
    BY <2>2 DEF DeletePdbsOf, DeletePod, DeleteFails, OnlyOwnPods, TypeOK
  <2>3. QED
    BY <1>1, <2>1, <2>2 DEF DeleteStep
<1>2. CASE UNCHANGED delTodo
  BY <1>2 DEF OnlyOwnPods
<1>3. ASSUME NEW e \in Execs, MainStep(e) \/ WaitTimeout(e)
      PROVE  UNCHANGED delTodo
  BY <1>3
     DEF MainStep, WaitTimeout, Refuse, Prepare, PreDeleted, CreatePod, CreatePdb,
         DeleteUnprotected, PollInterrupted, PollAgain, GetPod, RunBody, Cleaned,
         Return, Begin, delVars
<1>4. ASSUME NEW e \in Execs, SigStep(e) \/ Signal(e) \/ Crash(e) \/ Kubelet(e)
      PROVE  UNCHANGED delTodo
  BY <1>4
     DEF SigStep, SigDone, SigDestroy, SigDestroyed, SigDeletePdbs, SigFlag, SigExit,
         Signal, Crash, Kubelet, Begin, delVars
<1>5. ASSUME NEW q \in Purges, StartPurge(q)
      PROVE  UNCHANGED delTodo
  BY <1>5 DEF StartPurge, Begin
<1>6. QED
  BY <1>1, <1>2, <1>3, <1>4, <1>5 DEF Next, vars, delVars

(* Concurrent invocations never set out to delete each other's pods        *)
(* (pod.go:66-72), however many there are and whatever labels their users  *)
(* give.                                                                   *)
THEOREM Isolation == Spec => []OnlyOwnPods
<1>1. Init => OnlyOwnPods
  BY DEF Init, OnlyOwnPods
<1>2. QED
  BY <1>1, IsolationStep, TypeCorrect, PTL DEF Spec

-----------------------------------------------------------------------------
(* Completeness of the cleanup.                                            *)

LEMMA CleanupInit == Init => CleanupInv
BY ThreadsOfExec DEF Init, ClusterInit, CleanupInv, CleanupOf, StillToDelete

(* Two threads of one kind belong to different invocations.                *)
LEMMA ThreadsDiffer ==
    ASSUME NEW e \in Execs, NEW f \in Execs
    PROVE  /\ Main(e) # Sig(f)
           /\ Main(e) = Main(f) => e = f
           /\ Sig(e) = Sig(f) => e = f
BY DEF Main, Sig

(* A delete call on a pod that exists leaves it not live, and leaves every *)
(* other pod as it is.                                                     *)
LEMMA DeleteCall ==
    ASSUME TypeOK, NEW t \in Threads, NEW p \in Execs, Exists(p), DeleteListed(t, p)
    PROVE  /\ obj'[p] \in {"deleting", "gone"}
           /\ \A f \in Execs : f # p => obj'[f] = obj[f]
BY DEF TypeOK, ClusterTypeOK, DeleteListed, DeleteForcibly, DeleteGracefully,
       GraceOutcomes

LEMMA CleanupDelete ==
    ASSUME TypeOK, CleanupInv, NEW t \in Threads, DeleteStep(t), NEW e \in Execs
    PROVE  CleanupOf(e)'
<1>1. CleanupOf(e) /\ Main(e) \in Threads /\ Sig(e) \in Threads /\ Main(e) # Sig(e)
  BY ThreadsOfExec DEF CleanupInv
<1>2. UNCHANGED <<at, sigAt>>
  BY DEF DeleteStep, ListPods, DeletePdbsOf, DeletePod, mainVars, sigVars
<1>3. delAt[t] \in {"list", "each"} /\ delAt'[t] # "idle"
  BY DEF DeleteStep, ListPods, DeletePdbsOf, DeletePod, DeleteFails, TypeOK
<1>4. \A u \in Threads : u # t => delAt'[u] = delAt[u] /\ delTodo'[u] = delTodo[u]
  BY DEF DeleteStep, ListPods, DeletePdbsOf, DeletePod, DeleteFails, TypeOK
<1> DEFINE Monotone == /\ obj[e] = "none" => obj'[e] = "none"
                       /\ obj[e] # "none" => obj'[e] # "none"
                       /\ obj'[e] = "live" => obj[e] = "live"
           Pending == delAt'[t] # "ok" /\ (delAt'[t] = "each" => e \in delTodo'[t])
<1>5. Monotone
  <2>1. CASE UNCHANGED obj
    BY <2>1
  <2>2. ASSUME NEW p \in Execs, Exists(p), DeleteListed(t, p)
        PROVE  Monotone
    BY <2>2, DeleteCall DEF Exists
  <2>3. QED
    BY <2>1, <2>2 DEF DeleteStep, ListPods, DeletePdbsOf, DeletePod, clusterVars
<1>6. ASSUME obj'[e] = "live", PlainLabels(e),
             t = Sig(e) \/ (t = Main(e) /\ at[e] \in {"clean", "done"})
      PROVE  Pending
  <2>1. t[1] = e
    BY <1>6 DEF Main, Sig
  <2>2. CASE ListPods(t)
    <3>1. e \in Listed(t[1])
      BY <1>5, <1>6, <2>1, SelectsOwn DEF Listed, Exists
    <3>2. QED
      BY <2>2, <3>1 DEF ListPods, DeleteFails, TypeOK
  <2>3. ASSUME NEW p \in Execs, DeletePdbsOf(t, p)
        PROVE  Pending
    <3>1. delAt[t] = "each" /\ delAt'[t] = delAt[t] /\ delTodo'[t] = delTodo[t]
      BY <2>3 DEF DeletePdbsOf
    <3>2. e \in delTodo[t]
      BY <1>1, <1>5, <1>6, <3>1 DEF CleanupOf, StillToDelete
    <3>3. QED
      BY <3>1, <3>2
  <2>4. ASSUME NEW p \in Execs, DeletePod(t, p)
        PROVE  Pending
    <3>1. /\ delAt[t] = "each"
          /\ \/ delAt'[t] = "err"
             \/ /\ Exists(p) /\ DeleteListed(t, p)
                /\ delTodo'[t] = delTodo[t] \ {p}
                /\ delAt'[t] = IF delTodo[t] \ {p} = {} THEN "ok" ELSE "each"
      BY <2>4 DEF DeletePod, DeleteFails, TypeOK
    <3>2. e \in delTodo[t]
      BY <1>1, <1>5, <1>6, <3>1 DEF CleanupOf, StillToDelete
    <3>3. Exists(p) /\ DeleteListed(t, p) => p # e
      BY <1>6, DeleteCall
    <3>4. QED
      BY <3>1, <3>2, <3>3
  <2>5. QED
    BY <2>2, <2>3, <2>4 DEF DeleteStep
<1>7. (IF sigAt[e] = "off" THEN delAt[Sig(e)] = "idle" ELSE obj[e] # "none")'
  BY <1>1, <1>2, <1>3, <1>4, <1>5 DEF CleanupOf
<1>8. ASSUME obj'[e] = "live", PlainLabels(e), at[e] \in {"clean", "done"}
      PROVE  StillToDelete(Main(e), e)'
  <2>1. CASE t = Main(e)
    BY <1>6, <1>8, <2>1 DEF StillToDelete
  <2>2. CASE t # Main(e)
    BY <1>1, <1>4, <1>5, <1>8, <2>2 DEF CleanupOf, StillToDelete
  <2>3. QED
    BY <2>1, <2>2
<1>9. ASSUME obj'[e] = "live", PlainLabels(e)
      PROVE  StillToDelete(Sig(e), e)'
  <2>1. CASE t = Sig(e)
    <3>1. Pending
      BY <1>6, <1>9, <2>1
    <3>2. QED
      BY <2>1, <3>1 DEF StillToDelete
  <2>2. CASE t # Sig(e)
    BY <1>1, <1>4, <1>5, <1>9, <2>2 DEF CleanupOf, StillToDelete
  <2>3. QED
    BY <2>1, <2>2
<1>10. QED
  BY <1>1, <1>2, <1>5, <1>7, <1>8, <1>9 DEF CleanupOf

LEMMA CleanupMain ==
    ASSUME TypeOK, CleanupInv, NEW f \in Execs, MainStep(f) \/ WaitTimeout(f),
           NEW e \in Execs
    PROVE  CleanupOf(e)'
<1>1. CleanupOf(e) /\ Main(e) \in Threads /\ Sig(e) \in Threads /\ Main(e) # Sig(e)
  BY ThreadsOfExec DEF CleanupInv
<1>2. Main(f) \in Threads /\ Main(f) # Sig(e) /\ (Main(f) = Main(e) => e = f)
  BY ThreadsOfExec, ThreadsDiffer
<1> USE <1>1, <1>2
    DEF TypeOK, ClusterTypeOK, CleanupOf, StillToDelete, Goto, Return, Begin,
        clusterVars, sigVars, delVars
<1>3. CASE Refuse(f)
  BY <1>3 DEF Refuse
<1>4. CASE Prepare(f)
  BY <1>4 DEF Prepare
<1>5. CASE PreDeleted(f)
  BY <1>5 DEF PreDeleted
<1>6. CASE CreatePod(f)
  BY <1>6 DEF CreatePod, CreatePodObject, Arm
<1>7. CASE CreatePdb(f)
  BY <1>7 DEF CreatePdb, Arm
<1>8. CASE DeleteUnprotected(f)
  BY <1>8 DEF DeleteUnprotected, Exists, DeleteForcibly
<1>9. CASE PollInterrupted(f)
  BY <1>9 DEF PollInterrupted
<1>10. CASE PollAgain(f)
  BY <1>10 DEF PollAgain
<1>11. CASE GetPod(f)
  BY <1>11 DEF GetPod
<1>12. CASE RunBody(f)
  BY <1>12 DEF RunBody
<1>13. CASE Cleaned(f)
  BY <1>13 DEF Cleaned
<1>14. CASE WaitTimeout(f)
  BY <1>14 DEF WaitTimeout
<1>15. QED
  BY <1>3, <1>4, <1>5, <1>6, <1>7, <1>8, <1>9, <1>10, <1>11, <1>12, <1>13, <1>14
     DEF MainStep

LEMMA CleanupSignal ==
    ASSUME TypeOK, CleanupInv, NEW f \in Execs, SigStep(f) \/ Signal(f) \/ Crash(f),
           NEW e \in Execs
    PROVE  CleanupOf(e)'
<1>1. CleanupOf(e) /\ Main(e) \in Threads /\ Sig(e) \in Threads /\ Main(e) # Sig(e)
  BY ThreadsOfExec DEF CleanupInv
<1>2. Sig(f) \in Threads /\ Sig(f) # Main(e) /\ (Sig(f) = Sig(e) => e = f)
  BY ThreadsOfExec, ThreadsDiffer
<1> USE <1>1, <1>2
    DEF TypeOK, ClusterTypeOK, CleanupOf, StillToDelete, Goto, SigGoto, Begin,
        clusterVars, mainVars, delVars
<1>3. CASE SigDone(f)
  BY <1>3 DEF SigDone
<1>4. CASE SigDestroy(f)
  BY <1>4 DEF SigDestroy
<1>5. CASE SigDestroyed(f)
  BY <1>5 DEF SigDestroyed
<1>6. CASE SigDeletePdbs(f)
  BY <1>6 DEF SigDeletePdbs
<1>7. CASE SigFlag(f)
  BY <1>7 DEF SigFlag
<1>8. CASE SigExit(f)
  BY <1>8 DEF SigExit
<1>9. CASE Signal(f)
  BY <1>9 DEF Signal
<1>10. CASE Crash(f)
  BY <1>10 DEF Crash
<1>11. QED
  BY <1>3, <1>4, <1>5, <1>6, <1>7, <1>8, <1>9, <1>10 DEF SigStep

LEMMA CleanupOther ==
    ASSUME TypeOK, CleanupInv, NEW e \in Execs,
           \/ \E p \in Execs : Kubelet(p)
           \/ \E q \in Purges : StartPurge(q)
           \/ UNCHANGED vars
    PROVE  CleanupOf(e)'
<1>1. CleanupOf(e) /\ Main(e) \in Threads /\ Sig(e) \in Threads
  BY ThreadsOfExec DEF CleanupInv
<1>2. ASSUME NEW p \in Execs, Kubelet(p)
      PROVE  CleanupOf(e)'
  <2>1. /\ obj[e] = "none" => obj'[e] = "none"
        /\ obj[e] # "none" => obj'[e] # "none"
        /\ obj'[e] = "live" => obj[e] = "live"
    <3>1. CASE UNCHANGED obj
      BY <3>1
    <3>2. CASE KubeletRemove(p)
      BY <3>2 DEF KubeletRemove, TypeOK, ClusterTypeOK
    <3>3. CASE Evict(p)
      BY <3>3 DEF Evict, DeleteGracefully, GraceOutcomes, TypeOK, ClusterTypeOK
    <3>4. QED
      BY <1>2, <3>1, <3>2, <3>3
         DEF Kubelet, KubeletStep, KubeletStart, KubeletReady, ContainerExit, PodRejected
  <2>2. QED
    BY <1>1, <1>2, <2>1 DEF Kubelet, mainVars, sigVars, delVars, CleanupOf, StillToDelete
<1>3. ASSUME NEW q \in Purges, StartPurge(q)
      PROVE  CleanupOf(e)'
  <2>1. <<q, "purge">> # Main(e) /\ <<q, "purge">> # Sig(e)
    BY DEF Main, Sig
  <2>2. QED
    BY <1>1, <1>3, <2>1
       DEF StartPurge, Begin, clusterVars, mainVars, sigVars, CleanupOf,
           StillToDelete, TypeOK
<1>4. CASE UNCHANGED vars
  BY <1>1, <1>4 DEF vars, clusterVars, mainVars, sigVars, delVars, CleanupOf,
                    StillToDelete
<1>5. QED
  BY <1>2, <1>3, <1>4

LEMMA CleanupStep == TypeOK /\ CleanupInv /\ [Next]_vars => CleanupInv'
<1> SUFFICES ASSUME TypeOK, CleanupInv, [Next]_vars, NEW e \in Execs
             PROVE  CleanupOf(e)'
  BY DEF CleanupInv
<1>1. QED
  BY CleanupDelete, CleanupMain, CleanupSignal, CleanupOther DEF Next

(* The inductive invariant: a live pod stays on the list of every cleanup  *)
(* of its invocation that is under way (pod.go:57-102, 135-184).           *)
THEOREM CleanupInvariant == Spec => []CleanupInv
BY CleanupInit, CleanupStep, TypeCorrect, PTL DEF Spec

(* When a cleanup reports no error the pod of its invocation is deleted,   *)
(* whatever other threads, the kubelet and failing API calls did meanwhile *)
(* (cmd/exec.go:51-56, pod.go:164-169).                                    *)
THEOREM CleanupIsComplete == Spec => []CleanupComplete
<1>1. CleanupInv /\ TypeOK => CleanupComplete
  BY ThreadsOfExec DEF CleanupInv, CleanupOf, CleanupComplete, StillToDelete
<1>2. QED
  BY <1>1, CleanupInvariant, TypeCorrect, PTL

-----------------------------------------------------------------------------
(* Forced deletions.                                                       *)

(* What no step but those of the main goroutine may do to a pod: create or *)
(* remove it with its container running, or restart its container.         *)
NoNewOrphan ==
    \A p \in Execs :
        /\ phase[p] \in Terminal => phase'[p] = phase[p]
        /\ obj'[p] = "gone" /\ phase'[p] = "Running"
           => obj[p] = "gone" /\ phase[p] = "Running"

LEMMA OrphanQuiet ==
    ASSUME TypeOK, OrphanInv, NoNewOrphan, UNCHANGED <<at, out, sigAt, delTerm>>
    PROVE  OrphanInv'
<1>1. \A t \in Threads : \A p \in delTerm'[t] : phase'[p] \in Terminal
  BY DEF OrphanInv, NoNewOrphan, TypeOK
<1>2. ASSUME NEW e \in Execs PROVE OrphanOf(e)'
  BY DEF OrphanInv, OrphanOf, NoNewOrphan
<1>3. QED
  BY <1>1, <1>2 DEF OrphanInv

LEMMA OrphanDelete ==
    ASSUME TypeOK, OrphanInv, NEW t \in Threads, DeleteStep(t)
    PROVE  OrphanInv'
<1>1. UNCHANGED <<at, out, sigAt, phase>>
  BY DEF DeleteStep, ListPods, DeletePdbsOf, DeletePod, clusterVars, mainVars, sigVars
<1>2. \A u \in Threads : \A p \in delTerm'[u] : phase[p] \in Terminal
  BY DEF DeleteStep, ListPods, DeletePdbsOf, DeletePod, DeleteFails, TypeOK, OrphanInv
<1>3. ASSUME NEW p \in Execs, Exists(p), DeleteListed(t, p), NEW e \in Execs
      PROVE  obj'[e] = "gone" /\ phase[e] = "Running" => obj[e] = "gone"
  BY <1>3 DEF DeleteListed, DeleteForcibly, DeleteGracefully, GraceOutcomes,
              OrphanInv, TypeOK, ClusterTypeOK, Terminal
<1>4. ASSUME NEW e \in Execs
      PROVE  obj'[e] = "gone" /\ phase[e] = "Running" => obj[e] = "gone"
  BY <1>3 DEF DeleteStep, ListPods, DeletePdbsOf, DeletePod, clusterVars
<1>5. ASSUME NEW e \in Execs
      PROVE  OrphanOf(e)'
  BY <1>1, <1>4 DEF OrphanInv, OrphanOf
<1>6. QED
  BY <1>1, <1>2, <1>5 DEF OrphanInv

LEMMA OrphanMain ==
    ASSUME TypeOK, OrphanInv, NEW f \in Execs, MainStep(f) \/ WaitTimeout(f)
    PROVE  OrphanInv'
<1>1. UNCHANGED <<phase, delTerm>>
  BY DEF MainStep, WaitTimeout, Refuse, Prepare, PreDeleted, CreatePod, CreatePdb,
         DeleteUnprotected, PollInterrupted, PollAgain, GetPod, RunBody, Cleaned,
         Return, Begin, delVars, clusterVars
<1>2. ASSUME NEW e \in Execs
      PROVE  OrphanOf(e)'
  <2> USE <1>1 DEF TypeOK, ClusterTypeOK, OrphanInv, OrphanOf, Goto, Return, Begin,
                   clusterVars, sigVars, delVars
  <2>1. CASE Refuse(f)
    BY <2>1 DEF Refuse
  <2>2. CASE Prepare(f)
    BY <2>2 DEF Prepare
  <2>3. CASE PreDeleted(f)
    BY <2>3 DEF PreDeleted
  <2>4. CASE CreatePod(f)
    BY <2>4 DEF CreatePod, CreatePodObject, Arm
  <2>5. CASE CreatePdb(f)
    BY <2>5 DEF CreatePdb, Arm
  <2>6. CASE DeleteUnprotected(f)
    BY <2>6 DEF DeleteUnprotected, DeleteForcibly
  <2>7. CASE PollInterrupted(f)
    BY <2>7 DEF PollInterrupted
  <2>8. CASE PollAgain(f)
    BY <2>8 DEF PollAgain
  <2>9. CASE GetPod(f)
    BY <2>9 DEF GetPod
  <2>10. CASE RunBody(f)
    BY <2>10 DEF RunBody
  <2>11. CASE Cleaned(f)
    BY <2>11 DEF Cleaned
  <2>12. CASE WaitTimeout(f)
    BY <2>12 DEF WaitTimeout
  <2>13. QED
    BY <2>1, <2>2, <2>3, <2>4, <2>5, <2>6, <2>7, <2>8, <2>9, <2>10, <2>11, <2>12
       DEF MainStep
<1>3. QED
  BY <1>1, <1>2 DEF OrphanInv

LEMMA OrphanSignal ==
    ASSUME TypeOK, OrphanInv, NEW f \in Execs, SigStep(f) \/ Signal(f) \/ Crash(f)
    PROVE  OrphanInv'
<1>1. UNCHANGED <<obj, phase, out, delTerm>>
  BY DEF SigStep, SigDone, SigDestroy, SigDestroyed, SigDeletePdbs, SigFlag, SigExit,
         Signal, Crash, Begin, Goto, mainVars, delVars, clusterVars
<1>2. ASSUME NEW e \in Execs
      PROVE  /\ at'[e] = at[e] \/ at'[e] = "killed"
             /\ sigAt'[e] = sigAt[e] \/ sigAt[e] # "off"
  BY DEF SigStep, SigDone, SigDestroy, SigDestroyed, SigDeletePdbs, SigFlag, SigExit,
         Signal, Crash, Goto, SigGoto, mainVars, TypeOK
<1>3. ASSUME NEW e \in Execs
      PROVE  OrphanOf(e)'
  BY <1>1, <1>2 DEF OrphanInv, OrphanOf
<1>4. QED
  BY <1>1, <1>3 DEF OrphanInv

LEMMA OrphanKubelet ==
    ASSUME TypeOK, OrphanInv, NEW p \in Execs, Kubelet(p)
    PROVE  OrphanInv'
<1>1. UNCHANGED <<at, out, sigAt, delTerm>>
  BY DEF Kubelet, mainVars, sigVars, delVars
<1>2. NoNewOrphan
  BY DEF Kubelet, KubeletStep, KubeletStart, KubeletReady, ContainerExit, PodRejected,
         KubeletRemove, Evict, DeleteGracefully, GraceOutcomes, Terminal, NoNewOrphan,
         TypeOK, ClusterTypeOK
<1>3. QED
  BY <1>1, <1>2, OrphanQuiet

LEMMA OrphanStep == TypeOK /\ OrphanInv /\ [Next]_vars => OrphanInv'
<1> SUFFICES ASSUME TypeOK, OrphanInv, [Next]_vars
             PROVE  OrphanInv'
  OBVIOUS
<1>1. ASSUME NEW q \in Purges, StartPurge(q)
      PROVE  OrphanInv'
  BY <1>1 DEF StartPurge, Begin, clusterVars, mainVars, sigVars, OrphanInv, OrphanOf
<1>2. CASE UNCHANGED vars
  BY <1>2 DEF vars, clusterVars, mainVars, sigVars, delVars, OrphanInv, OrphanOf
<1>3. QED
  BY <1>1, <1>2, OrphanDelete, OrphanMain, OrphanSignal, OrphanKubelet DEF Next

(* The inductive invariant: the phase in a list, although stale when it is *)
(* used, is never wrong about a terminated pod (pod.go:87-94).             *)
THEOREM OrphanInvariant == Spec => []OrphanInv
<1>1. Init => OrphanInv
  BY DEF Init, ClusterInit, OrphanInv, OrphanOf
<1>2. QED
  BY <1>1, OrphanStep, TypeCorrect, PTL DEF Spec

(* DeleteHelmPods forces a deletion on the strength of a phase it read     *)
(* when it listed, and still never removes a pod whose container runs:     *)
(* only the clean-up of a failed PDB creation does (pod.go:87-94, 140-146).*)
THEOREM ForcedDeletionIsSafe == Spec => []OrphansOnlyWithoutPdb
<1>1. OrphanInv => OrphansOnlyWithoutPdb
  BY DEF OrphanInv, OrphanOf, OrphansOnlyWithoutPdb
<1>2. QED
  BY <1>1, OrphanInvariant, PTL

=============================================================================
