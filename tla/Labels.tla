------------------------------- MODULE Labels -------------------------------
(***************************************************************************)
(* How an invocation of helm-in-pod labels the pod it creates and selects  *)
(* the pods it deletes (CreateHelmPod and DeleteHelmPods in                *)
(* internal/hippod/pod.go).                                                *)
(***************************************************************************)
EXTENDS Naturals

CONSTANTS Execs,      \* invocations of "helm in-pod exec"
          Purges,     \* invocations of "helm in-pod purge"
          HostOf,     \* [invocation -> name of the machine it runs on]
          UserLabels  \* [Execs -> what --labels gives: a function on a
                      \*           subset of LabelKeys]

Invocations == Execs \cup Purges

(* The keys whose values decide which pods a selector matches.  "op" is    *)
(* hipconsts.LabelOperationID; managed-by selects no pod.                  *)
LabelKeys == {"host", "op"}

(* The Manager of an invocation: its host, and a fresh uuid that no other  *)
(* invocation shares, here the invocation itself.                          *)
ManagerLabels(i) == [k \in LabelKeys |-> IF k = "host" THEN HostOf[i] ELSE i]

(* maps.Copy(labels, opts.Labels): a label of the user wins.               *)
PodLabels(e) ==
    [k \in LabelKeys |-> IF k \in DOMAIN UserLabels[e] THEN UserLabels[e][k]
                         ELSE ManagerLabels(e)[k]]

(* A selector is a set of key=value requirements, all of which must hold.  *)
(* Labels of the user are appended to it, they replace nothing in it;      *)
(* purge passes none.                                                      *)
UserRequirements(i) ==
    IF i \in Execs THEN {<<k, UserLabels[i][k]>> : k \in DOMAIN UserLabels[i]}
    ELSE {}

(* Mutation: the selector forgets the operation id.                        *)
SelectorByHost(i) == {<<"host", HostOf[i]>>} \cup UserRequirements(i)

Selector(i) ==
    {<<k, ManagerLabels(i)[k]>> : k \in LabelKeys} \cup UserRequirements(i)

Selects(i, p) == \A r \in Selector(i) : PodLabels(p)[r[1]] = r[2]

(* The user gives no label that helm-in-pod relies on.                     *)
PlainLabels(e) == DOMAIN UserLabels[e] \cap LabelKeys = {}

-----------------------------------------------------------------------------

ASSUME InvocationsDistinct == Execs \cap Purges = {}

ASSUME UserLabelsType ==
    \A e \in Execs : /\ UserLabels[e] = [k \in DOMAIN UserLabels[e] |-> UserLabels[e][k]]
                     /\ DOMAIN UserLabels[e] \subseteq LabelKeys

(* Nobody can pass an operation id that some other process draws at random *)
(* when it starts.                                                         *)
ASSUME UuidsAreFresh ==
    \A e \in Execs : "op" \in DOMAIN UserLabels[e] => UserLabels[e]["op"] \notin Invocations

=============================================================================
