------------------------------ MODULE Cluster ------------------------------
(***************************************************************************)
(* The part of a Kubernetes cluster that helm-in-pod talks to: the pods    *)
(* and PodDisruptionBudgets of the "helm-in-pod" namespace, the API calls  *)
(* made on them, and what the kubelet and the eviction API do on their     *)
(* own.  None of it is code of the repository: it is modelled from how     *)
(* internal/hippod uses it.                                                *)
(*                                                                         *)
(* An exec invocation creates at most one pod, so a pod is named by the    *)
(* invocation that creates it; GenerateName never reuses a name.           *)
(***************************************************************************)
EXTENDS Labels

CONSTANT AllowEvictions   \* do nodes get drained?

VARIABLES obj,     \* [Execs -> state of the pod's API object]
          phase,   \* [Execs -> phase of the container on its node]
          ready,   \* [Execs -> is the container marked Ready?]
          pdb      \* operation ids that a PodDisruptionBudget selects

clusterVars == <<obj, phase, ready, pdb>>

Terminal == {"Succeeded", "Failed"}
Phases == {"Pending", "Running"} \cup Terminal
ObjStates == {"none", "live", "deleting", "gone"}

ClusterTypeOK ==
    /\ obj \in [Execs -> ObjStates]
    /\ phase \in [Execs -> Phases]
    /\ ready \in [Execs -> BOOLEAN]
    /\ pdb \in SUBSET Execs

ClusterInit ==
    /\ obj = [e \in Execs |-> "none"]
    /\ phase = [e \in Execs |-> "Pending"]
    /\ ready = [e \in Execs |-> FALSE]
    /\ pdb = {}

Exists(p) == obj[p] \in {"live", "deleting"}

(* The PDB that invocation e creates selects the pods whose operation-id   *)
(* label is e; with minAvailable 1 it refuses to evict any of them.        *)
Covered(p) == PodLabels(p)["op"] \in pdb

-----------------------------------------------------------------------------
(* API calls, as relations between obj and obj'.                           *)

CreatePodObject(p) == obj[p] = "none" /\ obj' = [obj EXCEPT ![p] = "live"]

(* A delete with the default grace period removes a terminated or a not    *)
(* yet scheduled pod at once; otherwise the object stays until the         *)
(* kubelet has stopped the container.                                      *)
GraceOutcomes(p) ==
    IF phase[p] \in Terminal THEN {"gone"}
    ELSE IF phase[p] = "Pending" THEN {"gone", "deleting"}
    ELSE {"deleting"}

DeleteGracefully(p) ==
    \E o \in GraceOutcomes(p) :
       obj' = [obj EXCEPT ![p] = IF obj[p] = "deleting" THEN "deleting" ELSE o]

(* Grace period 0 removes the object whatever its container is doing.      *)
DeleteForcibly(p) == obj' = [obj EXCEPT ![p] = "gone"]

-----------------------------------------------------------------------------
(* What happens without any call of helm-in-pod.                           *)

KubeletStart(p) ==
    /\ obj[p] = "live" /\ phase[p] = "Pending"
    /\ phase' = [phase EXCEPT ![p] = "Running"]
    /\ UNCHANGED <<obj, ready, pdb>>

(* The startup probe found /tmp/ready.                                     *)
KubeletReady(p) ==
    /\ Exists(p) /\ phase[p] = "Running" /\ ~ready[p]
    /\ ready' = [ready EXCEPT ![p] = TRUE]
    /\ UNCHANGED <<obj, phase, pdb>>

(* The container ends: the script is over, the probe failed too often, the *)
(* pod is being deleted, or the kubelet finds that the object is gone.     *)
ContainerExit(p) ==
    /\ phase[p] = "Running"
    /\ \E ph \in Terminal : phase' = [phase EXCEPT ![p] = ph]
    /\ ready' = [ready EXCEPT ![p] = FALSE]
    /\ UNCHANGED <<obj, pdb>>

(* The pod fails before its container ever runs.                           *)
PodRejected(p) ==
    /\ obj[p] = "live" /\ phase[p] = "Pending"
    /\ phase' = [phase EXCEPT ![p] = "Failed"]
    /\ UNCHANGED <<obj, ready, pdb>>

(* The kubelet removes a deleted pod once no container of it is running.   *)
KubeletRemove(p) ==
    /\ obj[p] = "deleting" /\ phase[p] # "Running"
    /\ obj' = [obj EXCEPT ![p] = "gone"]
    /\ UNCHANGED <<phase, ready, pdb>>

(* kubectl drain: a running pod under a PDB is refused, any other pod is   *)
(* deleted gracefully.                                                     *)
Evict(p) ==
    /\ AllowEvictions
    /\ obj[p] = "live"
    /\ phase[p] = "Running" => ~Covered(p)
    /\ DeleteGracefully(p)
    /\ UNCHANGED <<phase, ready, pdb>>

KubeletStep(p) ==
    \/ KubeletStart(p) \/ KubeletReady(p) \/ ContainerExit(p)
    \/ PodRejected(p) \/ KubeletRemove(p) \/ Evict(p)

=============================================================================
