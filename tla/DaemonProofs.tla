---------------------------- MODULE DaemonProofs ----------------------------
(***************************************************************************)
(* What is proved of Daemon for any number of starts, stops and execs of   *)
(* one daemon, and any number of failing calls.                            *)
(***************************************************************************)
EXTENDS Daemon, TLAPS

LEMMA StepCases ==
    ASSUME NEW s \in Sessions, Step(s)
    PROVE  \/ LookupStart(s) \/ LookupStop(s) \/ LookupRun(s)
           \/ GetOld(s) \/ DeleteOldPdbs(s) \/ DeleteByName(s) \/ PollVanished(s)
           \/ WaitExpires(s) \/ CreateNamed(s) \/ CreateDaemonPdb(s)
           \/ DeleteUnprotected(s) \/ PollReady(s) \/ Setup(s)
           \/ AnnotateRead(s) \/ AnnotateWrite(s) \/ CopyScript(s) \/ RunShell(s)
BY DEF Step

-----------------------------------------------------------------------------
(* Types and roles.                                                        *)

LEMMA RoleStep ==
    ASSUME TypeOK, RoleInv, NEW s \in Sessions, Step(s)
    PROVE  RoleInv'
<1> USE DaemonConstants DEF TypeOK, RoleInv, Final, Goto, RetryFrom, Sessions
<1>1. CASE LookupStart(s)
  BY <1>1 DEF LookupStart
<1>2. CASE LookupStop(s)
  BY <1>2 DEF LookupStop
<1>3. CASE LookupRun(s)
  BY <1>3 DEF LookupRun
<1>4. CASE GetOld(s)
  BY <1>4 DEF GetOld
<1>5. CASE DeleteOldPdbs(s)
  BY <1>5 DEF DeleteOldPdbs
<1>6. CASE DeleteByName(s)
  BY <1>6 DEF DeleteByName
<1>7. CASE PollVanished(s)
  BY <1>7 DEF PollVanished
<1>8. CASE WaitExpires(s)
  BY <1>8 DEF WaitExpires
<1>9. CASE CreateNamed(s)
  BY <1>9 DEF CreateNamed
<1>10. CASE CreateDaemonPdb(s)
  BY <1>10 DEF CreateDaemonPdb
<1>11. CASE DeleteUnprotected(s)
  BY <1>11 DEF DeleteUnprotected
<1>12. CASE PollReady(s)
  BY <1>12 DEF PollReady
<1>13. CASE Setup(s)
  BY <1>13 DEF Setup
<1>14. CASE AnnotateRead(s)
  BY <1>14 DEF AnnotateRead
<1>15. CASE AnnotateWrite(s)
  BY <1>15 DEF AnnotateWrite
<1>16. CASE CopyScript(s)
  BY <1>16 DEF CopyScript
<1>17. CASE RunShell(s)
  BY <1>17 DEF RunShell
<1>18. QED
  BY <1>1, <1>2, <1>3, <1>4, <1>5, <1>6, <1>7, <1>8, <1>9, <1>10, <1>11, <1>12, <1>13,
     <1>14, <1>15, <1>16, <1>17, StepCases

LEMMA ClusterTypeStep ==
    ASSUME TypeOK, RoleInv, NEW s \in Sessions, Step(s)
    PROVE  ClusterTypeOK'
<1>1. CASE UNCHANGED podVars
  BY <1>1 DEF podVars, TypeOK, ClusterTypeOK
<1>2. CASE DeleteOldPdbs(s)
  BY <1>2 DEF DeleteOldPdbs, TypeOK, ClusterTypeOK
<1>3. CASE DeleteByName(s)
  BY <1>3 DEF DeleteByName, DeleteGracefully, GraceOutcomes, Named, TypeOK, ClusterTypeOK,
              ObjStates
<1>4. CASE CreateNamed(s)
  BY <1>4 DEF CreateNamed, CreatePodObject, TypeOK, ClusterTypeOK, ObjStates
<1>5. CASE CreateDaemonPdb(s)
  <2>1. s \in Starts
    BY <1>5 DEF CreateDaemonPdb, RoleInv, Sessions, Final
  <2>2. QED
    BY <1>5, <2>1 DEF CreateDaemonPdb, TypeOK, ClusterTypeOK
<1>6. CASE DeleteUnprotected(s)
  BY <1>6 DEF DeleteUnprotected, DeleteForcibly, Named, TypeOK, ClusterTypeOK, ObjStates
<1>7. QED
  BY <1>1, <1>2, <1>3, <1>4, <1>5, <1>6, StepCases
     DEF LookupStart, LookupStop, LookupRun, GetOld, PollVanished, WaitExpires, PollReady,
         Setup, AnnotateRead, AnnotateWrite, CopyScript, RunShell

LEMMA SessionTypeStep ==
    ASSUME TypeOK, RoleInv, NEW s \in Sessions, Step(s)
    PROVE  /\ at' \in [Sessions -> SessionAt] /\ tries' \in [Sessions -> 0..2]
           /\ faults' \in 0..MaxFaults
<1> USE DaemonConstants
    DEF TypeOK, SessionAt, Final, Goto, RetryFrom, Fault, NoFault
<1>1. CASE LookupStart(s)
  BY <1>1 DEF LookupStart
<1>2. CASE LookupStop(s)
  BY <1>2 DEF LookupStop
<1>3. CASE LookupRun(s)
  BY <1>3 DEF LookupRun
<1>4. CASE GetOld(s)
  BY <1>4 DEF GetOld
<1>5. CASE DeleteOldPdbs(s)
  BY <1>5 DEF DeleteOldPdbs
<1>6. CASE DeleteByName(s)
  BY <1>6 DEF DeleteByName
<1>7. CASE PollVanished(s)
  BY <1>7 DEF PollVanished
<1>8. CASE WaitExpires(s)
  BY <1>8 DEF WaitExpires
<1>9. CASE CreateNamed(s)
  BY <1>9 DEF CreateNamed
<1>10. CASE CreateDaemonPdb(s)
  BY <1>10 DEF CreateDaemonPdb
<1>11. CASE DeleteUnprotected(s)
  BY <1>11 DEF DeleteUnprotected
<1>12. CASE PollReady(s)
  BY <1>12 DEF PollReady
<1>13. CASE Setup(s)
  BY <1>13 DEF Setup
<1>14. CASE AnnotateRead(s)
  BY <1>14 DEF AnnotateRead
<1>15. CASE AnnotateWrite(s)
  BY <1>15 DEF AnnotateWrite
<1>16. CASE CopyScript(s)
  BY <1>16 DEF CopyScript
<1>17. CASE RunShell(s)
  BY <1>17 DEF RunShell
<1>18. QED
  BY <1>1, <1>2, <1>3, <1>4, <1>5, <1>6, <1>7, <1>8, <1>9, <1>10, <1>11, <1>12, <1>13,
     <1>14, <1>15, <1>16, <1>17, StepCases

LEMMA NoteTypeStep ==
    ASSUME TypeOK, RoleInv, NEW s \in Sessions, Step(s)
    PROVE  /\ old' \in [Sessions -> Starts \cup {NoPod}]
           /\ target' \in [Sessions -> Starts \cup {NoPod}]
           /\ copy' \in [Sessions -> SUBSET {"home", "updated"}]
           /\ fresh' \in SUBSET Sessions
           /\ ann' \in [Starts -> SUBSET {"home", "updated"}]
           /\ script' \in [Starts -> Runs \cup {NoPod, "cut"}]
           /\ ran' \in [Runs -> Runs \cup {NoPod, "cut"}]
<1> USE DaemonConstants DEF TypeOK, noteVars, scriptVars, NewVersion
<1>1. CASE LookupStart(s)
  BY <1>1 DEF LookupStart
<1>2. CASE LookupStop(s)
  BY <1>2 DEF LookupStop
<1>3. CASE LookupRun(s)
  BY <1>3 DEF LookupRun
<1>4. CASE GetOld(s)
  BY <1>4 DEF GetOld, Named
<1>5. CASE DeleteOldPdbs(s)
  BY <1>5 DEF DeleteOldPdbs
<1>6. CASE DeleteByName(s)
  BY <1>6 DEF DeleteByName
<1>7. CASE PollVanished(s)
  BY <1>7 DEF PollVanished
<1>8. CASE WaitExpires(s)
  BY <1>8 DEF WaitExpires
<1>9. CASE CreateNamed(s)
  BY <1>9 DEF CreateNamed
<1>10. CASE CreateDaemonPdb(s)
  BY <1>10 DEF CreateDaemonPdb
<1>11. CASE DeleteUnprotected(s)
  BY <1>11 DEF DeleteUnprotected
<1>12. CASE PollReady(s)
  BY <1>12 DEF PollReady
<1>13. CASE Setup(s)
  BY <1>13 DEF Setup
<1>14. CASE AnnotateRead(s)
  BY <1>14 DEF AnnotateRead, Named
<1>15. CASE AnnotateWrite(s)
  BY <1>15 DEF AnnotateWrite, Update, Key
<1>16. CASE CopyScript(s)
  <2>1. s \in Runs
    BY <1>16 DEF CopyScript, RoleInv, Sessions, Final
  <2>2. QED
    BY <1>16, <2>1 DEF CopyScript, Reachable, Named
<1>17. CASE RunShell(s)
  BY <1>17 DEF RunShell, Reachable, Named
<1>18. QED
  BY <1>1, <1>2, <1>3, <1>4, <1>5, <1>6, <1>7, <1>8, <1>9, <1>10, <1>11, <1>12, <1>13,
     <1>14, <1>15, <1>16, <1>17, StepCases

LEMMA TypeKubelet ==
    ASSUME TypeOK, NEW p \in Starts, Kubelet(p)
    PROVE  TypeOK'
<1>1. UNCHANGED <<at, old, noteVars, tries, scriptVars, faults>> /\ fresh' = {}
  BY DEF Kubelet, NewVersion
<1>2. ClusterTypeOK'
  <2> USE DEF TypeOK, ClusterTypeOK, Phases, Terminal, ObjStates
  <2>1. CASE Evict(p)
    BY <2>1 DEF Evict, DeleteGracefully, GraceOutcomes
  <2>2. CASE KubeletStart(p)
    BY <2>2 DEF KubeletStart
  <2>3. CASE KubeletReady(p)
    BY <2>3 DEF KubeletReady
  <2>4. CASE ContainerExit(p)
    BY <2>4 DEF ContainerExit
  <2>5. CASE PodRejected(p)
    BY <2>5 DEF PodRejected
  <2>6. CASE KubeletRemove(p)
    BY <2>6 DEF KubeletRemove
  <2>7. QED
    BY <2>1, <2>2, <2>3, <2>4, <2>5, <2>6 DEF Kubelet, KubeletStep
<1>3. QED
  BY <1>1, <1>2 DEF TypeOK, noteVars, scriptVars

LEMMA TypeStep == TypeOK /\ RoleInv /\ [Next]_vars => TypeOK' /\ RoleInv'
<1> SUFFICES ASSUME TypeOK, RoleInv, [Next]_vars
             PROVE  TypeOK' /\ RoleInv'
  OBVIOUS
<1>1. ASSUME NEW s \in Sessions, Step(s)
      PROVE  TypeOK' /\ RoleInv'
  BY <1>1, RoleStep, ClusterTypeStep, SessionTypeStep, NoteTypeStep DEF TypeOK
<1>2. ASSUME NEW p \in Starts, Kubelet(p)
      PROVE  TypeOK' /\ RoleInv'
  BY <1>2, TypeKubelet DEF Kubelet, RoleInv
<1>3. CASE UNCHANGED vars
  BY <1>3 DEF vars, podVars, noteVars, scriptVars, TypeOK, ClusterTypeOK, RoleInv
<1>4. QED
  BY <1>1, <1>2, <1>3 DEF Next

LEMMA TypeInit == Init => TypeOK /\ RoleInv
BY DaemonConstants
   DEF Init, ClusterInit, TypeOK, ClusterTypeOK, ObjStates, Phases, SessionAt, Sessions,
       RoleInv, Final

LEMMA RolesHold == Spec => [](TypeOK /\ RoleInv)
BY TypeInit, TypeStep, PTL DEF Spec

(* Every variable keeps its type, for any invocations of the daemon.       *)
THEOREM TypeCorrect == Spec => []TypeOK
BY RolesHold, PTL

-----------------------------------------------------------------------------
(* What a step leaves alone.                                               *)

LEMMA OthersStay ==
    ASSUME TypeOK, NEW s \in Sessions, Step(s), NEW r \in Sessions, r # s
    PROVE  /\ at'[r] = at[r] /\ old'[r] = old[r]
           /\ target'[r] = target[r] /\ copy'[r] = copy[r]
<1> USE DEF TypeOK, noteVars, Goto, RetryFrom
<1>1. CASE LookupStart(s)
  BY <1>1 DEF LookupStart
<1>2. CASE LookupStop(s)
  BY <1>2 DEF LookupStop
<1>3. CASE LookupRun(s)
  BY <1>3 DEF LookupRun
<1>4. CASE GetOld(s)
  BY <1>4 DEF GetOld
<1>5. CASE DeleteOldPdbs(s)
  BY <1>5 DEF DeleteOldPdbs
<1>6. CASE DeleteByName(s)
  BY <1>6 DEF DeleteByName
<1>7. CASE PollVanished(s)
  BY <1>7 DEF PollVanished
<1>8. CASE WaitExpires(s)
  BY <1>8 DEF WaitExpires
<1>9. CASE CreateNamed(s)
  BY <1>9 DEF CreateNamed
<1>10. CASE CreateDaemonPdb(s)
  BY <1>10 DEF CreateDaemonPdb
<1>11. CASE DeleteUnprotected(s)
  BY <1>11 DEF DeleteUnprotected
<1>12. CASE PollReady(s)
  BY <1>12 DEF PollReady
<1>13. CASE Setup(s)
  BY <1>13 DEF Setup
<1>14. CASE AnnotateRead(s)
  BY <1>14 DEF AnnotateRead
<1>15. CASE AnnotateWrite(s)
  BY <1>15 DEF AnnotateWrite
<1>16. CASE CopyScript(s)
  BY <1>16 DEF CopyScript
<1>17. CASE RunShell(s)
  BY <1>17 DEF RunShell
<1>18. QED
  BY <1>1, <1>2, <1>3, <1>4, <1>5, <1>6, <1>7, <1>8, <1>9, <1>10, <1>11, <1>12, <1>13,
     <1>14, <1>15, <1>16, <1>17, StepCases

(* Objects are created once and never come back.                           *)
LEMMA ObjMonotone ==
    ASSUME TypeOK, NEW s \in Sessions, Step(s), NEW p \in Starts
    PROVE  /\ obj[p] # "none" => obj'[p] # "none"
           /\ obj[p] = "gone" => obj'[p] = "gone"
           /\ obj'[p] = "live" => obj[p] = "live" \/ (at[s] = "create" /\ p = s)
<1> USE DEF TypeOK, ClusterTypeOK
<1>1. CASE UNCHANGED obj
  BY <1>1
<1>2. CASE DeleteByName(s)
  BY <1>2 DEF DeleteByName, DeleteGracefully, GraceOutcomes, Named, Exists
<1>3. CASE CreateNamed(s)
  BY <1>3 DEF CreateNamed, CreatePodObject
<1>4. CASE DeleteUnprotected(s)
  BY <1>4 DEF DeleteUnprotected, DeleteForcibly, Named, Exists
<1>5. QED
  BY <1>1, <1>2, <1>3, <1>4, StepCases
     DEF LookupStart, LookupStop, LookupRun, GetOld, PollVanished, WaitExpires, PollReady,
         Setup, AnnotateRead, AnnotateWrite, CopyScript, RunShell, podVars, DeleteOldPdbs,
         CreateDaemonPdb

LEMMA ObjMonotoneKubelet ==
    ASSUME TypeOK, NEW q \in Starts, Kubelet(q), NEW p \in Starts
    PROVE  /\ obj[p] # "none" => obj'[p] # "none"
           /\ obj[p] = "gone" => obj'[p] = "gone"
           /\ obj'[p] = "live" => obj[p] = "live"
           /\ obj'[p] = "none" => obj[p] = "none"
           /\ UNCHANGED pdb
BY DEF TypeOK, ClusterTypeOK, Kubelet, KubeletStep, KubeletStart, KubeletReady, ContainerExit,
       PodRejected, KubeletRemove, Evict, DeleteGracefully, GraceOutcomes, Exists

-----------------------------------------------------------------------------
(* The pod that was found is gone when the name is free.                   *)

LEMMA OldStep ==
    ASSUME TypeOK, RoleInv, OldInv, NEW s \in Sessions, Step(s)
    PROVE  OldInv'
<1>1. ASSUME NEW r \in Sessions, r # s
      PROVE  OldOf(r)'
  <2>1. OldOf(r) /\ at'[r] = at[r] /\ old'[r] = old[r]
    BY <1>1, OthersStay DEF OldInv
  <2>2. old[r] \in Starts \cup {NoPod}
    BY DEF TypeOK
  <2>3. QED
    BY <2>1, <2>2, ObjMonotone DEF OldOf
<1>2. OldOf(s)'
  <2>1. OldOf(s) /\ old[s] \in Starts \cup {NoPod}
    BY DEF OldInv, TypeOK
  <2>2. CASE UNCHANGED old /\ ~PollVanished(s) /\ at[s] # "get"
    <3>1. at[s] \in {"pdbs", "delete", "vanish"} => at'[s] \in {"delete", "vanish", "err"}
      <4> USE <2>2 DEF TypeOK, Goto, RetryFrom, Sessions, Final
<4>1. CASE LookupStart(s)
  BY <4>1 DEF LookupStart
<4>2. CASE LookupStop(s)
  BY <4>2 DEF LookupStop
<4>3. CASE LookupRun(s)
  BY <4>3 DEF LookupRun
<4>4. CASE GetOld(s)
  BY <4>4 DEF GetOld
<4>5. CASE DeleteOldPdbs(s)
  BY <4>5 DEF DeleteOldPdbs
<4>6. CASE DeleteByName(s)
  BY <4>6 DEF DeleteByName
<4>7. CASE PollVanished(s)
  BY <4>7 DEF PollVanished
<4>8. CASE WaitExpires(s)
  BY <4>8 DEF WaitExpires
<4>9. CASE CreateNamed(s)
  BY <4>9 DEF CreateNamed
<4>10. CASE CreateDaemonPdb(s)
  BY <4>10 DEF CreateDaemonPdb
<4>11. CASE DeleteUnprotected(s)
  BY <4>11 DEF DeleteUnprotected
<4>12. CASE PollReady(s)
  BY <4>12 DEF PollReady
<4>13. CASE Setup(s)
  BY <4>13 DEF Setup
<4>14. CASE AnnotateRead(s)
  BY <4>14 DEF AnnotateRead
<4>15. CASE AnnotateWrite(s)
  BY <4>15 DEF AnnotateWrite
<4>16. CASE CopyScript(s)
  BY <4>16 DEF CopyScript
<4>17. CASE RunShell(s)
  BY <4>17 DEF RunShell
<4>18. QED
  BY <4>1, <4>2, <4>3, <4>4, <4>5, <4>6, <4>7, <4>8, <4>9, <4>10, <4>11, <4>12, <4>13,
     <4>14, <4>15, <4>16, <4>17, StepCases
    <3>2. at[s] = "err" \/ at'[s] \in {"lookup", "get"} => at[s] = "lookup"
      <4> USE <2>2 DEF TypeOK, Goto, RetryFrom, Sessions, Final
<4>1. CASE LookupStart(s)
  BY <4>1 DEF LookupStart
<4>2. CASE LookupStop(s)
  BY <4>2 DEF LookupStop
<4>3. CASE LookupRun(s)
  BY <4>3 DEF LookupRun
<4>4. CASE GetOld(s)
  BY <4>4 DEF GetOld
<4>5. CASE DeleteOldPdbs(s)
  BY <4>5 DEF DeleteOldPdbs
<4>6. CASE DeleteByName(s)
  BY <4>6 DEF DeleteByName
<4>7. CASE PollVanished(s)
  BY <4>7 DEF PollVanished
<4>8. CASE WaitExpires(s)
  BY <4>8 DEF WaitExpires
<4>9. CASE CreateNamed(s)
  BY <4>9 DEF CreateNamed
<4>10. CASE CreateDaemonPdb(s)
  BY <4>10 DEF CreateDaemonPdb
<4>11. CASE DeleteUnprotected(s)
  BY <4>11 DEF DeleteUnprotected
<4>12. CASE PollReady(s)
  BY <4>12 DEF PollReady
<4>13. CASE Setup(s)
  BY <4>13 DEF Setup
<4>14. CASE AnnotateRead(s)
  BY <4>14 DEF AnnotateRead
<4>15. CASE AnnotateWrite(s)
  BY <4>15 DEF AnnotateWrite
<4>16. CASE CopyScript(s)
  BY <4>16 DEF CopyScript
<4>17. CASE RunShell(s)
  BY <4>17 DEF RunShell
<4>18. QED
  BY <4>1, <4>2, <4>3, <4>4, <4>5, <4>6, <4>7, <4>8, <4>9, <4>10, <4>11, <4>12, <4>13,
     <4>14, <4>15, <4>16, <4>17, StepCases
    <3>3. QED
      BY <2>1, <2>2, <3>1, <3>2, ObjMonotone DEF OldOf
  <2>3. CASE PollVanished(s)
    <3>1. Named = {} \/ at'[s] = "err"
      BY <2>3 DEF PollVanished, Goto, TypeOK
    <3>2. UNCHANGED <<obj, old>> /\ at'[s] \in {"create", "ok", "err"}
      BY <2>3 DEF PollVanished, Goto, TypeOK, podVars
    <3>3. old[s] # NoPod /\ Named = {} => obj[old[s]] = "gone"
      BY <2>1 DEF OldOf, Named, Exists, TypeOK, ClusterTypeOK, ObjStates
    <3>4. QED
      BY <2>1, <3>1, <3>2, <3>3 DEF OldOf
  <2>4. CASE GetOld(s)
    <3>1. at[s] = "get" /\ at'[s] \in {"pdbs", "delete"} /\ UNCHANGED obj
      BY <2>4 DEF GetOld, Goto, TypeOK, podVars
    <3>2. old'[s] = old[s] \/ old'[s] \in Named
      BY <2>4 DEF GetOld, TypeOK
    <3>3. QED
      BY <2>1, <3>1, <3>2 DEF OldOf, Named, Exists
  <2>5. QED
    BY <2>2, <2>3, <2>4, StepCases
       DEF LookupStart, LookupStop, LookupRun, DeleteOldPdbs, DeleteByName, WaitExpires,
           CreateNamed, CreateDaemonPdb, DeleteUnprotected, PollReady, Setup, AnnotateRead,
           AnnotateWrite, CopyScript, RunShell
<1>3. QED
  BY <1>1, <1>2 DEF OldInv

LEMMA OldHolds == Spec => [](TypeOK /\ RoleInv /\ OldInv)
<1>1. Init => OldInv
  BY DEF Init, OldInv, OldOf
<1>2. TypeOK /\ RoleInv /\ OldInv /\ [Next]_vars => OldInv'
  <2> SUFFICES ASSUME TypeOK, RoleInv, OldInv, [Next]_vars
               PROVE  OldInv'
    OBVIOUS
  <2>1. ASSUME NEW p \in Starts, Kubelet(p)
        PROVE  OldInv'
    <3>1. UNCHANGED <<at, old>>
      BY <2>1 DEF Kubelet
    <3>2. QED
      BY <2>1, <3>1, ObjMonotoneKubelet DEF OldInv, OldOf, TypeOK
  <2>2. CASE UNCHANGED vars
    BY <2>2 DEF vars, podVars, OldInv, OldOf
  <2>3. QED
    BY <2>1, <2>2, OldStep DEF Next
<1>3. QED
  BY <1>1, <1>2, RolesHold, PTL DEF Spec

(* The pod that DeleteDaemonPod found is gone when stop reports success    *)
(* and before a forced start creates its own, whatever other invocations   *)
(* delete or create under the name meanwhile (pod.go:607-627).             *)
THEOREM OldPodIsGone == Spec => []OldPodGone
<1>1. OldInv => OldPodGone
  BY DEF OldInv, OldOf, OldPodGone, Sessions
<1>2. QED
  BY <1>1, OldHolds, PTL

-----------------------------------------------------------------------------
(* Annotations that were written stay.                                     *)

LEMMA NoteStep ==
    ASSUME TypeOK, RoleInv, NoteInv, NEW s \in Sessions, Step(s)
    PROVE  NoteInv'
<1>1. /\ fresh' \in SUBSET Sessions /\ at' \in [Sessions -> SessionAt]
      /\ target' \in [Sessions -> Starts \cup {NoPod}]
  BY NoteTypeStep, SessionTypeStep
<1>2. CASE AnnotateRead(s)
  <2>1. UNCHANGED ann /\ at[s] = "read" /\ at'[s] \in {"write", "read", "err"}
    BY <1>2 DEF AnnotateRead, Goto, RetryFrom, TypeOK
  <2>2. \A q \in fresh' : target'[q] # NoPod /\ copy'[q] = ann[target'[q]]
    BY <1>2, DaemonConstants DEF AnnotateRead, Named, NoteInv, TypeOK
  <2>3. \A q \in Sessions : q # s => at'[q] = at[q] /\ target'[q] = target[q]
    BY OthersStay
  <2>4. QED
    BY <2>1, <2>2, <2>3 DEF NoteInv, AnnotationsKept, Sessions, Final
<1>3. CASE AnnotateWrite(s)
  <2>1. UNCHANGED <<target, copy>> /\ at[s] = "write"
    BY <1>3 DEF AnnotateWrite
  <2>2. \A q \in Sessions : q # s => at'[q] = at[q]
    BY OthersStay
  <2>3. CASE Accepted(s) /\ Update(s)
    <3>1. target[s] \in Starts /\ copy[s] = ann[target[s]] /\ fresh' = {}
      BY <2>3 DEF Accepted, Update, NewVersion, NoteInv, TypeOK
    <3>2. ann' = [ann EXCEPT ![target[s]] = ann[target[s]] \cup {Key(s)}]
      BY <2>3, <3>1 DEF Update
    <3>3. \A p \in Starts : ann[p] \subseteq ann'[p]
      BY <3>1, <3>2 DEF TypeOK
    <3>4. Key(s) \in ann'[target[s]]
      BY <3>1, <3>2 DEF TypeOK
    <3>5. at'[s] \in {"ok", "copy", "read", "err"}
      BY <1>3 DEF AnnotateWrite, Goto, RetryFrom, TypeOK
    <3>6. \A q \in Starts \cup Runs : target[q] \in Starts \cup {NoPod} /\ q \in Sessions
      BY DEF TypeOK, Sessions
    <3>7. AnnotationsKept'
      BY <2>1, <2>2, <3>3, <3>4, <3>6 DEF NoteInv, AnnotationsKept, Key
    <3>8. QED
      BY <2>1, <2>2, <3>1, <3>5, <3>7 DEF NoteInv, Final
  <2>4. CASE UNCHANGED <<ann, fresh>> /\ at'[s] \in {"read", "err"}
    BY <2>1, <2>2, <2>4 DEF NoteInv, AnnotationsKept, Final, Sessions
  <2>5. QED
    BY <1>3, <2>3, <2>4 DEF AnnotateWrite, RetryFrom, Goto, TypeOK
<1>4. CASE /\ UNCHANGED noteVars /\ fresh' \subseteq fresh
           /\ ~AnnotateRead(s) /\ ~AnnotateWrite(s)
  <2>1. /\ target[s] # NoPod => at'[s] \in {"read", "write", "copy", "sh"} \cup Final
        /\ s \in Starts \cup Runs /\ at'[s] \in {"copy", "sh", "ok", "code"} =>
              target[s] = NoPod \/ at[s] \in {"copy", "sh", "ok", "code"}
    <3>1. at[s] \in {"read", "write", "copy", "sh"} \cup Final \/ target[s] = NoPod
      BY DEF NoteInv
    <3>2. CASE target[s] = NoPod
      BY <3>2
    <3>3. CASE at[s] \in {"read", "write"}
      BY <1>4, <3>3, StepCases
         DEF LookupStart, LookupStop, LookupRun, GetOld, DeleteOldPdbs, DeleteByName,
             PollVanished, WaitExpires, CreateNamed, CreateDaemonPdb, DeleteUnprotected,
             PollReady, Setup, CopyScript, RunShell
    <3>4. CASE at[s] \in {"copy", "sh"} \cup Final
      BY <3>4, StepCases
         DEF LookupStart, LookupStop, LookupRun, GetOld, DeleteOldPdbs, DeleteByName,
             PollVanished, WaitExpires, CreateNamed, CreateDaemonPdb, DeleteUnprotected,
             PollReady, Setup, CopyScript, RunShell, AnnotateRead, AnnotateWrite, Final,
             Goto, RetryFrom, TypeOK
    <3>5. QED
      BY <3>1, <3>2, <3>3, <3>4
  <2>2. \A q \in Sessions : q # s => at'[q] = at[q]
    BY OthersStay
  <2>3. QED
    BY <1>4, <2>1, <2>2 DEF NoteInv, AnnotationsKept, noteVars, Sessions
<1>5. QED
  BY <1>2, <1>3, <1>4, StepCases
     DEF LookupStart, LookupStop, LookupRun, GetOld, DeleteOldPdbs, DeleteByName,
         PollVanished, WaitExpires, CreateNamed, CreateDaemonPdb, DeleteUnprotected,
         PollReady, Setup, CopyScript, RunShell, NewVersion

(* An annotation that AnnotatePod has written is not lost to another       *)
(* writer: an accepted update carries everything the pod had               *)
(* (pod.go:630-652).                                                       *)
THEOREM AnnotationsAreKept == Spec => []AnnotationsKept
<1>1. Init => NoteInv
  BY DEF Init, NoteInv, AnnotationsKept, Sessions
<1>2. TypeOK /\ RoleInv /\ NoteInv /\ [Next]_vars => NoteInv'
  <2> SUFFICES ASSUME TypeOK, RoleInv, NoteInv, [Next]_vars
               PROVE  NoteInv'
    OBVIOUS
  <2>1. ASSUME NEW p \in Starts, Kubelet(p)
        PROVE  NoteInv'
    BY <2>1 DEF Kubelet, NewVersion, noteVars, NoteInv, AnnotationsKept
  <2>2. CASE UNCHANGED vars
    BY <2>2 DEF vars, noteVars, NoteInv, AnnotationsKept
  <2>3. QED
    BY <2>1, <2>2, NoteStep DEF Next
<1>3. NoteInv => AnnotationsKept
  BY DEF NoteInv
<1>4. QED
  BY <1>1, <1>2, <1>3, RolesHold, PTL DEF Spec

-----------------------------------------------------------------------------
(* One pod per name, protected until it is about to be deleted.            *)

LEMMA NameStep ==
    ASSUME TypeOK, NameInv, NEW s \in Sessions, Step(s)
    PROVE  NameInv'
<1>1. CASE CreateNamed(s)
  BY <1>1 DEF CreateNamed, CreatePodObject, NameInv, Named, Exists, TypeOK, ClusterTypeOK
<1>2. CASE DeleteByName(s)
  BY <1>2 DEF DeleteByName, DeleteGracefully, NameInv, Named, Exists, TypeOK, ClusterTypeOK
<1>3. CASE DeleteUnprotected(s)
  BY <1>3 DEF DeleteUnprotected, DeleteForcibly, NameInv, Named, Exists, TypeOK, ClusterTypeOK
<1>4. CASE UNCHANGED obj
  BY <1>4 DEF NameInv, Named, Exists
<1>5. QED
  BY <1>1, <1>2, <1>3, <1>4, StepCases
     DEF LookupStart, LookupStop, LookupRun, GetOld, PollVanished, WaitExpires, PollReady,
         Setup, AnnotateRead, AnnotateWrite, CopyScript, RunShell, podVars, DeleteOldPdbs,
         CreateDaemonPdb

LEMMA NameHolds == Spec => [](TypeOK /\ RoleInv /\ NameInv)
<1>1. Init => NameInv
  BY DEF Init, ClusterInit, NameInv, Named, Exists
<1>2. TypeOK /\ RoleInv /\ NameInv /\ [Next]_vars => NameInv'
  <2> SUFFICES ASSUME TypeOK, RoleInv, NameInv, [Next]_vars
               PROVE  NameInv'
    OBVIOUS
  <2>1. ASSUME NEW p \in Starts, Kubelet(p)
        PROVE  NameInv'
    BY <2>1 DEF Kubelet, KubeletStep, KubeletStart, KubeletReady, ContainerExit, PodRejected,
                KubeletRemove, Evict, DeleteGracefully, GraceOutcomes, NameInv, Named,
                Exists, TypeOK, ClusterTypeOK
  <2>2. CASE UNCHANGED vars
    BY <2>2 DEF vars, podVars, NameInv, Named, Exists
  <2>3. QED
    BY <2>1, <2>2, NameStep DEF Next
<1>3. QED
  BY <1>1, <1>2, RolesHold, PTL DEF Spec

(* A daemon start has no user labels: the PDB of a pod is the one created  *)
(* under its own operation id.                                             *)
LEMMA CoveredIsOwn == ASSUME NEW p \in Starts PROVE Covered(p) <=> p \in pdb
BY DEF Covered, PodLabels, ManagerLabels, LabelKeys

LEMMA ProtectedStep ==
    ASSUME TypeOK, RoleInv, NameInv, DaemonProtected, NEW s \in Sessions, Step(s)
    PROVE  DaemonProtected'
<1> SUFFICES ASSUME faults' = 0, NEW p \in UsePDB, obj'[p] = "live", at'[p] # "pdb"
             PROVE  p \in pdb' \/ \E r \in Sessions : old'[r] = p /\ at'[r] = "delete"
  BY CoveredIsOwn, DaemonConstants DEF DaemonProtected, Covered, PodLabels, ManagerLabels, LabelKeys
<1>1. p \in Starts /\ p \in Sessions
  BY DaemonConstants DEF Sessions
<1>2. faults = 0 /\ UNCHANGED faults
  BY StepCases
     DEF LookupStart, LookupStop, LookupRun, GetOld, DeleteOldPdbs, DeleteByName,
         PollVanished, WaitExpires, CreateNamed, CreateDaemonPdb, DeleteUnprotected,
         PollReady, Setup, CopyScript, RunShell, AnnotateRead, AnnotateWrite, Fault,
         NoFault, TypeOK
<1>3. CASE obj[p] = "live" /\ at[p] # "pdb"
  <2>1. p \in pdb \/ \E r \in Sessions : old[r] = p /\ at[r] = "delete"
    BY <1>1, <1>2, <1>3, CoveredIsOwn DEF DaemonProtected
  <2>2. CASE p \in pdb
    <3>1. CASE DeleteOldPdbs(s)
      BY <2>2, <3>1 DEF DeleteOldPdbs, Goto, TypeOK
    <3>2. CASE ~DeleteOldPdbs(s)
      BY <2>2, <3>2, StepCases
         DEF LookupStart, LookupStop, LookupRun, GetOld, DeleteByName, PollVanished,
             WaitExpires, CreateNamed, CreateDaemonPdb, DeleteUnprotected, PollReady, Setup,
             CopyScript, RunShell, AnnotateRead, AnnotateWrite, podVars
    <3>3. QED
      BY <3>1, <3>2
  <2>3. ASSUME NEW r \in Sessions, old[r] = p, at[r] = "delete"
        PROVE  old'[r] = p /\ at'[r] = "delete"
    <3>1. CASE r # s
      BY <2>3, <3>1, OthersStay
    <3>2. CASE r = s
      <4>1. DeleteByName(s)
        BY <2>3, <3>2, StepCases
           DEF LookupStart, LookupStop, LookupRun, GetOld, DeleteOldPdbs, PollVanished,
               WaitExpires, CreateNamed, CreateDaemonPdb, DeleteUnprotected, PollReady,
               Setup, CopyScript, RunShell, AnnotateRead, AnnotateWrite
      <4>2. p \in Named
        BY <1>1, <1>3 DEF Named, Exists
      <4>3. ~Fault
        BY <1>2 DEF Fault, TypeOK
      <4>4. DeleteGracefully(p)
        BY <4>1, <4>2, <4>3 DEF DeleteByName, NameInv
      <4>5. obj'[p] # "live"
        BY <1>1, <4>4 DEF DeleteGracefully, GraceOutcomes, TypeOK, ClusterTypeOK
      <4>6. QED
        BY <4>5
    <3>3. QED
      BY <3>1, <3>2
  <2>4. QED
    BY <2>1, <2>2, <2>3
<1>4. CASE obj[p] # "live"
  <2>1. at[s] = "create" /\ p = s
    BY <1>1, <1>4, ObjMonotone
  <2>2. CreateNamed(s)
    BY <2>1, StepCases
       DEF LookupStart, LookupStop, LookupRun, GetOld, DeleteOldPdbs, DeleteByName,
           PollVanished, WaitExpires, CreateDaemonPdb, DeleteUnprotected, PollReady, Setup,
           CopyScript, RunShell, AnnotateRead, AnnotateWrite
  <2>3. ~Fault
    BY <1>2 DEF Fault, TypeOK
  <2>4. at'[s] = "pdb"
    BY <1>4, <2>1, <2>2, <2>3 DEF CreateNamed, Goto, TypeOK
  <2>5. QED
    BY <2>1, <2>4
<1>5. CASE obj[p] = "live" /\ at[p] = "pdb"
  <2>1. p = s
    BY <1>1, <1>5, OthersStay
  <2>2. CreateDaemonPdb(s)
    BY <1>5, <2>1, StepCases
       DEF LookupStart, LookupStop, LookupRun, GetOld, DeleteOldPdbs, DeleteByName,
           PollVanished, WaitExpires, CreateNamed, DeleteUnprotected, PollReady, Setup,
           CopyScript, RunShell, AnnotateRead, AnnotateWrite
  <2>3. ~Fault
    BY <1>2 DEF Fault, TypeOK
  <2>4. QED
    BY <2>1, <2>2, <2>3 DEF CreateDaemonPdb
<1>6. QED
  BY <1>3, <1>4, <1>5

(* Without failing calls, a pod started with --create-pdb is covered by    *)
(* its PDB from the end of its creation until an invocation that has found *)
(* it is about to delete it (pod.go:583, 616).                             *)
THEOREM DaemonIsProtected == Spec => []DaemonProtected
<1>1. Init => DaemonProtected
  BY DaemonConstants DEF Init, ClusterInit, DaemonProtected
<1>2. TypeOK /\ RoleInv /\ NameInv /\ DaemonProtected /\ [Next]_vars => DaemonProtected'
  <2> SUFFICES ASSUME TypeOK, RoleInv, NameInv, DaemonProtected, [Next]_vars
               PROVE  DaemonProtected'
    OBVIOUS
  <2>1. ASSUME NEW q \in Starts, Kubelet(q)
        PROVE  DaemonProtected'
    <3>1. UNCHANGED <<at, old, faults>>
      BY <2>1 DEF Kubelet
    <3>2. UNCHANGED pdb /\ \A p \in Starts : obj'[p] = "live" => obj[p] = "live"
      BY <2>1, ObjMonotoneKubelet
    <3>3. QED
      BY <3>1, <3>2, DaemonConstants
         DEF DaemonProtected, Covered, PodLabels, ManagerLabels, LabelKeys
  <2>2. CASE UNCHANGED vars
    BY <2>2 DEF vars, podVars, DaemonProtected, Covered
  <2>3. QED
    BY <2>1, <2>2, ProtectedStep DEF Next
<1>3. QED
  BY <1>1, <1>2, NameHolds, PTL DEF Spec

-----------------------------------------------------------------------------
(* With one exec at a time, success is that of its own script.             *)

LEMMA ScriptStep ==
    ASSUME TypeOK, RoleInv, NameInv, ScriptInv, NEW s \in Sessions, Step(s),
           \A x, y \in Runs : x = y
    PROVE  ScriptInv'
<1>1. CASE CopyScript(s)
  <2>1. s \in Runs /\ UNCHANGED <<obj, ran>> /\ at[s] = "copy" /\ at'[s] \in {"sh", "copy", "err"}
    BY <1>1 DEF CopyScript, RoleInv, Sessions, Final, podVars, Goto, RetryFrom, TypeOK
  <2>2. \A p \in Starts : obj[p] = "none" => script'[p] = NoPod
    BY <1>1 DEF CopyScript, Reachable, Named, Exists, ScriptInv, TypeOK
  <2>3. at'[s] = "sh" => \A p \in Named : script'[p] = s
    BY <1>1 DEF CopyScript, Reachable, NameInv, Goto, RetryFrom, TypeOK, Named
  <2>4. QED
    BY <2>1, <2>2, <2>3 DEF ScriptInv, SuccessIsOwn, Named, Exists
<1>2. CASE RunShell(s)
  <2>1. s \in Runs /\ UNCHANGED <<obj, script>> /\ at[s] = "sh" /\ at'[s] \in Final
    BY <1>2 DEF RunShell, RoleInv, Sessions, Final, podVars, Goto, TypeOK
  <2>2. at'[s] = "ok" => ran'[s] = s
    BY <1>2, <2>1 DEF RunShell, Reachable, ScriptInv, Goto, TypeOK
  <2>3. QED
    BY <2>1, <2>2 DEF ScriptInv, SuccessIsOwn, Named, Exists, Final
<1>3. CASE UNCHANGED scriptVars /\ ~CopyScript(s) /\ ~RunShell(s)
  <2>1. \A p \in Starts : obj[p] # "none" => obj'[p] # "none"
    BY ObjMonotone
  <2>2. \A p \in Starts : p \in Named' => p \in Named \/ obj[p] = "none"
    BY ObjMonotone DEF Named, Exists, TypeOK, ClusterTypeOK, ObjStates
  <2>3. \A x \in Runs : x # s => at'[x] = at[x]
    BY OthersStay DEF Sessions
  <2>4. CASE s \notin Runs
    BY <1>3, <2>1, <2>2, <2>3, <2>4 DEF ScriptInv, SuccessIsOwn, scriptVars, Named
  <2>5. CASE s \in Runs
    <3>1. /\ at[s] \in {"lookup", "read", "write", "copy", "sh"} \cup Final
          /\ s \notin Starts /\ s \notin Stops
      BY <2>5, DaemonConstants DEF RoleInv
    <3>2. /\ at'[s] = "ok" => at[s] = "ok"
          /\ at'[s] = "sh" => at[s] = "sh"
      BY <1>3, <3>1, StepCases
         DEF LookupStart, LookupStop, LookupRun, GetOld, DeleteOldPdbs, DeleteByName,
             PollVanished, WaitExpires, CreateNamed, CreateDaemonPdb, DeleteUnprotected,
             PollReady, Setup, CopyScript, RunShell, AnnotateRead, AnnotateWrite, Goto,
             RetryFrom, TypeOK, Final
    <3>3. QED
      BY <1>3, <2>1, <2>2, <2>3, <3>2 DEF ScriptInv, SuccessIsOwn, scriptVars, Named
  <2>6. QED
    BY <2>4, <2>5
<1>4. QED
  BY <1>1, <1>2, <1>3, StepCases
     DEF LookupStart, LookupStop, LookupRun, GetOld, DeleteOldPdbs, DeleteByName,
         PollVanished, WaitExpires, CreateNamed, CreateDaemonPdb, DeleteUnprotected,
         PollReady, Setup, AnnotateRead, AnnotateWrite

(* When only one "daemon exec" uses the daemon, and any number of users    *)
(* start and stop it, success means that its own script was executed       *)
(* whole.  With two execs it does not (executor.go:353-360).               *)
THEOREM OwnSuccess ==
    ASSUME \A x, y \in Runs : x = y
    PROVE  Spec => []SuccessIsOwn
<1>1. Init => ScriptInv
  BY DEF Init, ClusterInit, ScriptInv, SuccessIsOwn, Sessions
<1>2. TypeOK /\ RoleInv /\ NameInv /\ ScriptInv /\ [Next]_vars => ScriptInv'
  <2> SUFFICES ASSUME TypeOK, RoleInv, NameInv, ScriptInv, [Next]_vars
               PROVE  ScriptInv'
    OBVIOUS
  <2>1. ASSUME NEW q \in Starts, Kubelet(q)
        PROVE  ScriptInv'
    <3>1. UNCHANGED <<at, script, ran>>
      BY <2>1 DEF Kubelet, scriptVars
    <3>2. \A p \in Starts : /\ obj'[p] = "none" => obj[p] = "none"
                            /\ p \in Named' => p \in Named \/ obj[p] = "none"
      BY <2>1, ObjMonotoneKubelet DEF Named, Exists, TypeOK, ClusterTypeOK, ObjStates
    <3>3. QED
      BY <3>1, <3>2 DEF ScriptInv, SuccessIsOwn, Named
  <2>2. CASE UNCHANGED vars
    BY <2>2 DEF vars, podVars, scriptVars, ScriptInv, SuccessIsOwn, Named, Exists
  <2>3. QED
    BY <2>1, <2>2, ScriptStep DEF Next
<1>3. ScriptInv => SuccessIsOwn
  BY DEF ScriptInv
<1>4. QED
  BY <1>1, <1>2, <1>3, NameHolds, PTL DEF Spec

=============================================================================
