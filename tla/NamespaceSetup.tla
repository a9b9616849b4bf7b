--------------------------- MODULE NamespaceSetup ---------------------------
(***************************************************************************)
(* The three objects that every pod needs: the namespace, the service      *)
(* account and the ClusterRoleBinding.  PrepareNs (internal/hipns) runs at *)
(* the head of every exec and daemon start and creates what it does not    *)
(* find; every purge deletes the binding (cmd/purge.go), whoever uses it.  *)
(* All of them run at once, and a check and the call that follows it are   *)
(* two API calls.                                                          *)
(***************************************************************************)
EXTENDS Naturals, FiniteSets

CONSTANTS Setups,      \* invocations of exec and daemon start
          Purges,      \* invocations of purge
          PurgeAll,    \* the purges with --all
          Leftovers,   \* pods that killed invocations have left behind
          MaxFaults    \* bound: API calls that fail, over all processes

ASSUME SetupConstants ==
    /\ PurgeAll \subseteq Purges
    /\ Setups \cap Purges = {}
    /\ Setups \cap Leftovers = {}
    /\ MaxFaults \in Nat

VARIABLES made,      \* the objects that exist
          pods,      \* Setups and Leftovers with a pod that nobody deleted
          at,        \* [Setups \cup Purges -> where the process is]
          next,      \* [Setups -> the object that PrepareNs deals with]
          todo,      \* [Purges -> listed pods that are not deleted yet]
          failed,    \* the purges whose errors.Join is not nil
          unbound,   \* history: setups that a purge took the binding from
          faults     \* API calls that failed so far

vars == <<made, pods, at, next, todo, failed, unbound, faults>>

(* PrepareNs deals with the objects in this order.                         *)
Order == <<"ns", "sa", "crb">>
Objects == {"ns", "sa", "crb"}

SetupAt == {"get", "create", "pod", "run", "done", "err"}
PurgeAt == {"get", "delete", "list", "each", "done"}

TypeOK ==
    /\ made \subseteq Objects
    /\ pods \subseteq Setups \cup Leftovers
    /\ at \in [Setups \cup Purges -> SetupAt \cup PurgeAt]
    /\ \A s \in Setups : at[s] \in SetupAt
    /\ \A q \in Purges : at[q] \in PurgeAt
    /\ next \in [Setups -> 1..3]
    /\ todo \in [Purges -> SUBSET (Setups \cup Leftovers)]
    /\ failed \subseteq Purges
    /\ unbound \subseteq Setups
    /\ faults \in 0..MaxFaults

(* On the first run nothing exists; later runs find what others have left. *)
Init ==
    /\ made \in {{}, {"ns", "sa"}, Objects}
    /\ pods = Leftovers
    /\ at = [p \in Setups \cup Purges |-> "get"]
    /\ next = [s \in Setups |-> 1]
    /\ todo = [q \in Purges |-> {}]
    /\ failed = {} /\ unbound = {}
    /\ faults = 0

Fault == faults < MaxFaults /\ faults' = faults + 1
NoFault == UNCHANGED faults

Goto(p, l) == at' = [at EXCEPT ![p] = l]

-----------------------------------------------------------------------------
(* PrepareNs.                                                              *)

(* Mutation: whoever finds an object that somebody else has just made      *)
(* takes everything for prepared.                                          *)
CreateLoserStops(s) ==
    /\ at[s] = "create"
    /\ IF Order[next[s]] \in made THEN Goto(s, "pod") /\ UNCHANGED next
       ELSE IF next[s] = 3 THEN Goto(s, "pod") /\ UNCHANGED next
       ELSE Goto(s, "get") /\ next' = [next EXCEPT ![s] = @ + 1]
    /\ made' = made \cup {Order[next[s]]} /\ NoFault
    /\ UNCHANGED <<pods, todo, failed, unbound>>

(* Mutation: off by one.                                                   *)
NextObjectLate(s) ==
    IF next[s] > 3 THEN Goto(s, "pod") /\ UNCHANGED next
    ELSE Goto(s, "get") /\ next' = [next EXCEPT ![s] = @ + 1]

NextObject(s) ==
    IF next[s] = 3 THEN Goto(s, "pod") /\ UNCHANGED next
    ELSE Goto(s, "get") /\ next' = [next EXCEPT ![s] = @ + 1]

(* NotFound leads to the create call; any other error is returned.         *)
Get(s) ==
    /\ at[s] = "get"
    /\ \/ Order[next[s]] \in made /\ NextObject(s) /\ NoFault
       \/ Order[next[s]] \notin made /\ Goto(s, "create") /\ NoFault /\ UNCHANGED next
       \/ Goto(s, "err") /\ Fault /\ UNCHANGED next
    /\ UNCHANGED <<made, pods, todo, failed, unbound>>

(* Mutation: AlreadyExists is an error like any other.                     *)
CreateRefused(s) ==
    /\ at[s] = "create"
    /\ \/ Order[next[s]] \notin made /\ NextObject(s) /\ NoFault
       \/ Order[next[s]] \in made /\ Goto(s, "err") /\ NoFault /\ UNCHANGED next
    /\ made' = made \cup {Order[next[s]]}
    /\ UNCHANGED <<pods, todo, failed, unbound>>

(* AlreadyExists is ignored.  A failed call may have been executed.        *)
Create(s) ==
    /\ at[s] = "create"
    /\ \/ made' = made \cup {Order[next[s]]} /\ NextObject(s) /\ NoFault
       \/ /\ made' \in {made, made \cup {Order[next[s]]}}
          /\ Goto(s, "err") /\ Fault /\ UNCHANGED next
    /\ UNCHANGED <<pods, todo, failed, unbound>>

-----------------------------------------------------------------------------
(* What the objects are for (modules ExecLifecycle and Daemon say more).   *)

(* The API server refuses a pod in a missing namespace, and one whose      *)
(* service account does not exist.                                         *)
CreatePod(s) ==
    /\ at[s] = "pod"
    /\ \/ {"ns", "sa"} \subseteq made /\ pods' = pods \cup {s} /\ Goto(s, "run") /\ NoFault
       \/ ~({"ns", "sa"} \subseteq made) /\ UNCHANGED pods /\ Goto(s, "err") /\ NoFault
       \/ UNCHANGED pods /\ Goto(s, "err") /\ Fault
    /\ UNCHANGED <<made, next, todo, failed, unbound>>

EndRun(s) ==
    /\ at[s] = "run"
    /\ pods' = pods \ {s}
    /\ Goto(s, "done")
    /\ UNCHANGED <<made, next, todo, failed, unbound, faults>>

-----------------------------------------------------------------------------
(* Purge: DeleteClusterRoleBinding, then DeleteHelmPods whatever came of   *)
(* it; errors.Join of both.                                                *)

Fails(q) == failed' = failed \cup {q}

GetBinding(q) ==
    /\ at[q] = "get"
    /\ \/ "crb" \in made /\ Goto(q, "delete") /\ NoFault /\ UNCHANGED failed
       \/ "crb" \notin made /\ Goto(q, "list") /\ NoFault /\ UNCHANGED failed
       \/ Goto(q, "list") /\ Fails(q) /\ Fault
    /\ UNCHANGED <<made, pods, next, todo, unbound>>

(* Mutation: an error of the binding ends the purge.                       *)
DeleteBindingOnly(q) ==
    /\ at[q] = "delete"
    /\ IF "crb" \in made THEN Goto(q, "list") /\ UNCHANGED failed ELSE Goto(q, "done") /\ Fails(q)
    /\ made' = made \ {"crb"}
    /\ unbound' = unbound \cup {s \in Setups : at[s] \in {"pod", "run"}}
    /\ UNCHANGED <<pods, next, todo, faults>>

(* The setups that have found or made their binding lose it.               *)
Unbind ==
    /\ made' = made \ {"crb"}
    /\ unbound' = unbound \cup {s \in Setups : at[s] \in {"pod", "run"}}

(* Somebody else may have deleted it since: NotFound is an error here.     *)
DeleteBinding(q) ==
    /\ at[q] = "delete"
    /\ \/ "crb" \in made /\ Unbind /\ NoFault /\ UNCHANGED failed
       \/ "crb" \notin made /\ Fails(q) /\ NoFault /\ UNCHANGED <<made, unbound>>
       \/ Fails(q) /\ Fault /\ (Unbind \/ UNCHANGED <<made, unbound>>)
    /\ Goto(q, "list")
    /\ UNCHANGED <<pods, next, todo>>

(* Without --all the selector holds the id of the purge itself: no pod.    *)
ListPods(q) ==
    /\ at[q] = "list"
    /\ \/ todo' = [todo EXCEPT ![q] = IF q \in PurgeAll THEN pods ELSE {}]
          /\ Goto(q, "each") /\ NoFault /\ UNCHANGED failed
       \/ Goto(q, "done") /\ Fails(q) /\ Fault /\ UNCHANGED todo
    /\ UNCHANGED <<made, pods, next, unbound>>

(* The first error ends the loop, NotFound included.  A pod that another   *)
(* process has deleted may still be there, terminating.                    *)
DeletePod(q, p) ==
    /\ at[q] = "each" /\ p \in todo[q]
    /\ \/ /\ pods' = pods \ {p} /\ NoFault
          /\ todo' = [todo EXCEPT ![q] = @ \ {p}]
          /\ UNCHANGED <<at, failed>>
       \/ p \notin pods /\ Goto(q, "done") /\ Fails(q) /\ NoFault /\ UNCHANGED <<pods, todo>>
       \/ Goto(q, "done") /\ Fails(q) /\ Fault /\ UNCHANGED <<pods, todo>>
    /\ UNCHANGED <<made, next, unbound>>

PurgeEnds(q) ==
    /\ at[q] = "each" /\ todo[q] = {}
    /\ Goto(q, "done")
    /\ UNCHANGED <<made, pods, next, todo, failed, unbound, faults>>

-----------------------------------------------------------------------------

SetupStep(s) == Get(s) \/ Create(s) \/ CreatePod(s) \/ EndRun(s)

PurgeStep(q) ==
    \/ GetBinding(q) \/ DeleteBinding(q) \/ ListPods(q) \/ PurgeEnds(q)
    \/ \E p \in Setups \cup Leftovers : DeletePod(q, p)

Next == (\E s \in Setups : SetupStep(s)) \/ (\E q \in Purges : PurgeStep(q))

Spec == Init /\ [][Next]_vars

-----------------------------------------------------------------------------
(* Properties.                                                             *)

(* First runs that race each other: whoever comes second at any of the     *)
(* objects goes on as if it had made it, so that no invocation fails for   *)
(* another reason than a failing API call, and no pod is refused for want  *)
(* of its namespace or service account (namespace.go:27-54).               *)
OnlyFaultsFail == \A s \in Setups : at[s] = "err" => faults > 0

(* When PrepareNs has succeeded the command has its permissions, unless a  *)
(* purge took the binding away after PrepareNs had seen it: the window     *)
(* between the check and the end of the command is the only one.           *)
BoundUnlessPurged ==
    \A s \in Setups : at[s] \in {"pod", "run"} /\ "crb" \notin made => s \in unbound

(* Two purges at once, one of which loses the race for the binding: that   *)
(* is an error, but a purge --all deletes the pods all the same, and the   *)
(* leftovers are gone when it ends, unless an API call failed or another   *)
(* process deleted a pod that it had listed (purge.go:20-23, pod.go:96).   *)
PurgeDeletesLeftovers ==
    \A q \in PurgeAll :
        at[q] = "done" /\ faults = 0 => pods \cap Leftovers = {} \/ todo[q] \ pods # {}

-----------------------------------------------------------------------------
(* Inductive strengthenings, for the proofs in NamespaceSetupProofs.       *)

(* Nobody deletes the namespace or the service account, so what PrepareNs  *)
(* has dealt with stays until the pod is created.                          *)
PreparedOf(s) ==
    /\ at[s] \in {"get", "create"} => /\ next[s] > 1 => "ns" \in made
                                      /\ next[s] > 2 => "sa" \in made
    /\ at[s] = "pod" => "ns" \in made /\ "sa" \in made
    /\ at[s] = "err" => faults > 0
    /\ s \in pods => at[s] = "run"

(* A purge --all still has every remaining leftover on its list, and a     *)
(* listed pod that is gone does not come back.                             *)
LeftoversOf(q) ==
    /\ \A s \in todo[q] \cap Setups : at[s] \in {"run", "done"}
    /\ q \in PurgeAll /\ faults = 0 =>
          /\ at[q] = "each" => pods \cap Leftovers \subseteq todo[q]
          /\ at[q] = "done" => pods \cap Leftovers = {} \/ todo[q] \ pods # {}

SetupInv == (\A s \in Setups : PreparedOf(s)) /\ (\A q \in Purges : LeftoversOf(q))

=============================================================================
