------------------------------- MODULE Daemon -------------------------------
(***************************************************************************)
(* "helm in-pod daemon" start, stop and exec, for one daemon name.  The    *)
(* pod of a daemon has a fixed name, and every call finds it by that name: *)
(* CreateDaemonPod, DeleteDaemonPod, AnnotatePod (internal/hippod/pod.go)  *)
(* and ExecuteCommandInDaemon (executor.go).  Several users may start,     *)
(* stop and use the daemon at once; nothing orders their calls.            *)
(***************************************************************************)
EXTENDS Naturals

CONSTANTS Starts,          \* invocations of "daemon start"
          Stops,           \* invocations of "daemon stop"
          Runs,            \* invocations of "daemon exec"
          Forced,          \* the starts with --force
          UsePDB,          \* the starts with --create-pdb (the default)
          NoPod,           \* no pod, and no script
          MaxFaults,       \* bound: calls that fail, over all invocations
          AllowEvictions   \* see module Cluster

ASSUME DaemonConstants ==
    /\ Forced \subseteq Starts /\ UsePDB \subseteq Starts
    /\ Starts \cap Stops = {} /\ Starts \cap Runs = {} /\ Stops \cap Runs = {}
    /\ NoPod \notin Starts \cup Stops \cup Runs
    /\ MaxFaults \in Nat
    /\ AllowEvictions \in BOOLEAN

VARIABLES obj, phase, ready, pdb,  \* the cluster; a pod is named by the
                                   \* invocation that creates it
          at,       \* [Sessions -> where the invocation is]
          old,      \* [Sessions -> the pod that DeleteDaemonPod found]
          target,   \* [Sessions -> the pod that AnnotatePod read ...]
          copy,     \* [Sessions -> ... and its annotations then]
          fresh,    \* the sessions whose copy has the current version
          tries,    \* [Sessions -> failed attempts of the current Retry]
          ann,      \* [Starts -> annotations of the pod]
          script,   \* [Starts -> whose script is at the script path]
          ran,      \* [Runs -> whose script its "sh" has run]
          faults    \* calls that failed so far

INSTANCE Cluster WITH
    Execs <- Starts, Purges <- {},
    HostOf <- [s \in Starts |-> NoPod], UserLabels <- [s \in Starts |-> << >>]

Sessions == Starts \cup Stops \cup Runs

podVars == <<obj, phase, ready, pdb>>
noteVars == <<target, copy, ann>>
scriptVars == <<script, ran>>
vars == <<podVars, at, old, noteVars, fresh, tries, scriptVars, faults>>

(* "get" .. "vanish": DeleteDaemonPod; "create" .. "wait": the rest of     *)
(* CreateDaemonPod; "read", "write": AnnotatePod; "copy", "sh":            *)
(* ExecuteCommandInDaemon.                                                 *)
Final == {"ok", "err", "code"}
SessionAt == {"lookup", "get", "pdbs", "delete", "vanish", "create", "pdb",
              "unprotect", "wait", "setup", "read", "write", "copy", "sh"} \cup Final

(* home-directory is written by start, last-repo-update-time by exec.      *)
Key(s) == IF s \in Starts THEN "home" ELSE "updated"

TypeOK ==
    /\ ClusterTypeOK
    /\ at \in [Sessions -> SessionAt]
    /\ old \in [Sessions -> Starts \cup {NoPod}]
    /\ target \in [Sessions -> Starts \cup {NoPod}]
    /\ copy \in [Sessions -> SUBSET {"home", "updated"}]
    /\ fresh \in SUBSET Sessions
    /\ tries \in [Sessions -> 0..2]
    /\ ann \in [Starts -> SUBSET {"home", "updated"}]
    /\ script \in [Starts -> Runs \cup {NoPod, "cut"}]
    /\ ran \in [Runs -> Runs \cup {NoPod, "cut"}]
    /\ faults \in 0..MaxFaults

Init ==
    /\ ClusterInit
    /\ at = [s \in Sessions |-> "lookup"]
    /\ old = [s \in Sessions |-> NoPod]
    /\ target = [s \in Sessions |-> NoPod]
    /\ copy = [s \in Sessions |-> {}]
    /\ fresh = {}
    /\ tries = [s \in Sessions |-> 0]
    /\ ann = [p \in Starts |-> {}]
    /\ script = [p \in Starts |-> NoPod]
    /\ ran = [x \in Runs |-> NoPod]
    /\ faults = 0

(* What a Get of daemon-<name> finds.                                      *)
Named == {p \in Starts : Exists(p)}

(* The pod in which an exec by that name runs.                             *)
Reachable == {p \in Named : phase[p] = "Running"}

Fault == faults < MaxFaults /\ faults' = faults + 1
NoFault == UNCHANGED faults

Goto(s, l) ==
    /\ at' = [at EXCEPT ![s] = l]
    /\ tries' = [tries EXCEPT ![s] = 0]

(* Mutations: no limit; one attempt too many.                              *)
RetryForEver(s, l) == Goto(s, l)

RetryOnceMore(s, l) ==
    IF tries[s] < 3
    THEN /\ at' = [at EXCEPT ![s] = l]
         /\ tries' = [tries EXCEPT ![s] = @ + 1]
    ELSE Goto(s, "err")

(* hipretry.Retry with 3 attempts: back to l, or the error is returned.    *)
RetryFrom(s, l) ==
    IF tries[s] < 2
    THEN /\ at' = [at EXCEPT ![s] = l]
         /\ tries' = [tries EXCEPT ![s] = @ + 1]
    ELSE Goto(s, "err")

(* Every write to the pod gives it a new resource version.                 *)
NewVersion == fresh' = {}

-----------------------------------------------------------------------------
(* The first Get.  For start, any error means that there is no pod; exec   *)
(* needs the annotation that a completed start leaves.                     *)

LookupStart(s) ==
    /\ s \in Starts /\ at[s] = "lookup"
    /\ \/ Named # {} /\ NoFault /\ Goto(s, IF s \in Forced THEN "get" ELSE "err")
       \/ Named = {} /\ NoFault /\ Goto(s, "create")
       \/ Fault /\ Goto(s, "create")
       \/ Fault /\ Goto(s, "err")   \* PrepareNs
    /\ UNCHANGED <<podVars, old, noteVars, fresh, scriptVars>>

LookupStop(s) ==
    /\ s \in Stops /\ at[s] = "lookup"
    /\ \/ NoFault /\ Goto(s, IF Named # {} THEN "get" ELSE "ok")
       \/ Fault /\ Goto(s, "err")
    /\ UNCHANGED <<podVars, old, noteVars, fresh, scriptVars>>

(* With --update-all-repos the annotations are updated before the command  *)
(* runs; the update itself, and --copy, may fail.                          *)
LookupRun(s) ==
    /\ s \in Runs /\ at[s] = "lookup"
    /\ \/ NoFault /\ \E p \in Named : "home" \in ann[p] /\ \E l \in {"read", "copy"} : Goto(s, l)
       \/ NoFault /\ (\A p \in Named : "home" \notin ann[p]) /\ Goto(s, "err")
       \/ Fault /\ Goto(s, "err")
    /\ UNCHANGED <<podVars, old, noteVars, fresh, scriptVars>>

-----------------------------------------------------------------------------
(* DeleteDaemonPod: Get for the operation id, delete its PDBs, delete the  *)
(* pod by name, wait until the name is free.                               *)

GetOld(s) ==
    /\ at[s] = "get"
    /\ \/ \E p \in Named : old' = [old EXCEPT ![s] = p] /\ Goto(s, "pdbs") /\ NoFault
       \/ Named = {} /\ NoFault /\ Goto(s, "delete") /\ UNCHANGED old
       \/ Fault /\ Goto(s, "delete") /\ UNCHANGED old
    /\ UNCHANGED <<podVars, noteVars, fresh, scriptVars>>

DeleteOldPdbs(s) ==
    /\ at[s] = "pdbs"
    /\ \/ pdb' = pdb \ {old[s]} /\ NoFault
       \/ pdb' = pdb /\ Fault
    /\ Goto(s, "delete")
    /\ UNCHANGED <<obj, phase, ready, old, noteVars, fresh, scriptVars>>

(* Mutation: nobody waits for the end of the old pod.                      *)
DeleteWithoutWait(s) ==
    /\ at[s] = "delete"
    /\ \/ \E p \in Named : DeleteGracefully(p) /\ NewVersion /\ NoFault
                            /\ Goto(s, IF s \in Starts THEN "create" ELSE "ok")
       \/ Named = {} /\ UNCHANGED <<obj, fresh>> /\ NoFault /\ Goto(s, "err")
    /\ UNCHANGED <<phase, ready, pdb, old, noteVars, scriptVars>>

DeleteByName(s) ==
    /\ at[s] = "delete"
    /\ \/ \E p \in Named : DeleteGracefully(p) /\ NewVersion /\ NoFault /\ Goto(s, "vanish")
       \/ Named = {} /\ UNCHANGED <<obj, fresh>> /\ NoFault /\ Goto(s, "err")
       \/ Fault /\ Goto(s, "err") /\ UNCHANGED <<obj, fresh>>
       \/ Fault /\ Goto(s, "err") /\ (\E p \in Named : DeleteGracefully(p) /\ NewVersion)
    /\ UNCHANGED <<phase, ready, pdb, old, noteVars, scriptVars>>

(* Any error but NotFound ends the wait, and so do 2 minutes.              *)
PollVanished(s) ==
    /\ at[s] = "vanish"
    /\ \/ Named = {} /\ NoFault /\ Goto(s, IF s \in Starts THEN "create" ELSE "ok")
       \/ Fault /\ Goto(s, "err")
    /\ UNCHANGED <<podVars, old, noteVars, fresh, scriptVars>>

WaitExpires(s) ==
    /\ at[s] \in {"vanish", "wait"}
    /\ Goto(s, "err")
    /\ UNCHANGED <<podVars, old, noteVars, fresh, scriptVars, faults>>

-----------------------------------------------------------------------------
(* The rest of start.                                                      *)

(* The name is taken: AlreadyExists.                                       *)
CreateNamed(s) ==
    /\ at[s] = "create"
    /\ \/ Named = {} /\ CreatePodObject(s) /\ NoFault /\ NewVersion
          /\ Goto(s, IF s \in UsePDB THEN "pdb" ELSE "wait")
       \/ Named = {} /\ CreatePodObject(s) /\ Fault /\ NewVersion /\ Goto(s, "err")
       \/ Named # {} /\ UNCHANGED <<obj, fresh>> /\ NoFault /\ Goto(s, "err")
       \/ UNCHANGED <<obj, fresh>> /\ Fault /\ Goto(s, "err")
    /\ UNCHANGED <<phase, ready, pdb, old, noteVars, scriptVars>>

(* Mutation: the PDB is created under the operation of the old pod.        *)
CreatePdbOfOld(s) ==
    /\ at[s] = "pdb"
    /\ pdb' = pdb \cup ({old[s]} \ {NoPod}) /\ NoFault /\ Goto(s, "wait")
    /\ UNCHANGED <<obj, phase, ready, old, noteVars, fresh, scriptVars>>

CreateDaemonPdb(s) ==
    /\ at[s] = "pdb"
    /\ \/ pdb' = pdb \cup {s} /\ NoFault /\ Goto(s, "wait")
       \/ pdb' \in {pdb, pdb \cup {s}} /\ Fault /\ Goto(s, "unprotect")
    /\ UNCHANGED <<obj, phase, ready, old, noteVars, fresh, scriptVars>>

(* By name, with grace period 0; what comes of it is ignored.              *)
DeleteUnprotected(s) ==
    /\ at[s] = "unprotect"
    /\ \/ NoFault /\ \E p \in Named : DeleteForcibly(p) /\ NewVersion
       \/ NoFault /\ Named = {} /\ UNCHANGED <<obj, fresh>>
       \/ Fault /\ UNCHANGED <<obj, fresh>>
    /\ Goto(s, "err")
    /\ UNCHANGED <<phase, ready, pdb, old, noteVars, scriptVars>>

PollReady(s) ==
    /\ at[s] = "wait"
    /\ \E p \in Named : ready[p]
    /\ Goto(s, "setup")
    /\ UNCHANGED <<podVars, old, noteVars, fresh, scriptVars, faults>>

(* Home directory, Helm version, repositories, files: execs by name, any   *)
(* of which may fail; the pod is left as it is then.                       *)
Setup(s) ==
    /\ at[s] = "setup"
    /\ \/ Reachable # {} /\ NoFault /\ Goto(s, "read")
       \/ Reachable = {} /\ NoFault /\ Goto(s, "err")
       \/ Fault /\ Goto(s, "err")
    /\ UNCHANGED <<podVars, old, noteVars, fresh, scriptVars>>

-----------------------------------------------------------------------------
(* AnnotatePod: read, modify, update with the version that was read.       *)

AnnotateRead(s) ==
    /\ at[s] = "read"
    /\ \/ /\ \E p \in Named : /\ target' = [target EXCEPT ![s] = p]
                              /\ copy' = [copy EXCEPT ![s] = ann[p]]
          /\ fresh' = fresh \cup {s}
          /\ at' = [at EXCEPT ![s] = "write"] /\ UNCHANGED tries
          /\ NoFault
       \/ Named = {} /\ NoFault /\ RetryFrom(s, "read") /\ UNCHANGED <<target, copy, fresh>>
       \/ Fault /\ RetryFrom(s, "read") /\ UNCHANGED <<target, copy, fresh>>
    /\ UNCHANGED <<podVars, old, ann, scriptVars>>

(* Mutation: a patch without resource version, which is never refused.     *)
AcceptedAlways(s) == Exists(target[s])

(* The API server takes the update only of the version that was read.      *)
Accepted(s) == Exists(target[s]) /\ s \in fresh

Update(s) ==
    /\ ann' = [ann EXCEPT ![target[s]] = copy[s] \cup {Key(s)}]
    /\ NewVersion

AnnotateWrite(s) ==
    /\ at[s] = "write"
    /\ \/ /\ Accepted(s) /\ Update(s) /\ NoFault
          /\ Goto(s, IF s \in Starts THEN "ok" ELSE "copy")
       \/ ~Accepted(s) /\ NoFault /\ RetryFrom(s, "read") /\ UNCHANGED <<ann, fresh>>
       \/ Fault /\ RetryFrom(s, "read") /\ UNCHANGED <<ann, fresh>>
       \/ Fault /\ RetryFrom(s, "read") /\ Accepted(s) /\ Update(s)
    /\ UNCHANGED <<podVars, old, target, copy, scriptVars>>

-----------------------------------------------------------------------------
(* ExecuteCommandInDaemon: the script is copied to a path that all daemon  *)
(* execs of the pod share, with 3 attempts, and run with "sh".             *)

(* Mutation: a copy that failed is good enough.                            *)
CopyScriptOnce(s) ==
    /\ at[s] = "copy"
    /\ \E p \in Reachable, c \in {s, "cut"} : script' = [script EXCEPT ![p] = c]
    /\ Goto(s, "sh")
    /\ UNCHANGED <<podVars, old, noteVars, fresh, ran, faults>>

CopyScript(s) ==
    /\ at[s] = "copy"
    /\ \/ \E p \in Reachable : script' = [script EXCEPT ![p] = s] /\ NoFault /\ Goto(s, "sh")
       \/ Reachable = {} /\ NoFault /\ RetryFrom(s, "copy") /\ UNCHANGED script
       \/ Fault /\ RetryFrom(s, "copy")
          /\ \/ UNCHANGED script
             \/ \E p \in Reachable, c \in {s, "cut"} : script' = [script EXCEPT ![p] = c]
    /\ UNCHANGED <<podVars, old, noteVars, fresh, ran>>

(* The exit code is parsed from the text of the error; a lost connection,  *)
(* the timeout and a failed copy from the pod are other errors.            *)
RunShell(s) ==
    /\ at[s] = "sh"
    /\ \/ \E p \in Reachable :
             /\ ran' = [ran EXCEPT ![s] = script[p]]
             /\ \/ script[p] # NoPod /\ Goto(s, "ok") /\ NoFault
                \/ Goto(s, "code") /\ NoFault
                \/ Goto(s, "err") /\ Fault
       \/ Reachable = {} /\ Goto(s, "err") /\ NoFault /\ UNCHANGED ran
       \/ Fault /\ Goto(s, "err") /\ UNCHANGED ran
    /\ UNCHANGED <<podVars, old, noteVars, fresh, script>>

-----------------------------------------------------------------------------

Step(s) ==
    \/ LookupStart(s) \/ LookupStop(s) \/ LookupRun(s)
    \/ GetOld(s) \/ DeleteOldPdbs(s) \/ DeleteByName(s) \/ PollVanished(s) \/ WaitExpires(s)
    \/ CreateNamed(s) \/ CreateDaemonPdb(s) \/ DeleteUnprotected(s) \/ PollReady(s) \/ Setup(s)
    \/ AnnotateRead(s) \/ AnnotateWrite(s) \/ CopyScript(s) \/ RunShell(s)

Kubelet(p) ==
    /\ KubeletStep(p)
    /\ NewVersion
    /\ UNCHANGED <<at, old, noteVars, tries, scriptVars, faults>>

Next ==
    \/ \E s \in Sessions : Step(s)
    \/ \E p \in Starts : Kubelet(p)

Spec == Init /\ [][Next]_vars

(* Every invocation runs on; its polls have deadlines.                     *)
FairSpec == Spec /\ \A s \in Sessions : WF_vars(Step(s))

-----------------------------------------------------------------------------
(* Properties.                                                             *)

(* When stop reports success, and before start --force creates its own     *)
(* pod, the pod that DeleteDaemonPod found is gone, whoever deleted it and *)
(* whatever was created under its name meanwhile (pod.go:607-627).         *)
OldPodGone ==
    \A s \in Starts \cup Stops :
        old[s] # NoPod /\ at[s] \notin {"get", "pdbs", "delete", "vanish", "err"}
        => obj[old[s]] = "gone"

(* A daemon pod that is past its creation keeps its PDB until an           *)
(* invocation is about to delete it, when no call fails (pod.go:583, 616). *)
DaemonProtected ==
    faults = 0 =>
    \A p \in UsePDB :
        obj[p] = "live" /\ at[p] # "pdb"
        => Covered(p) \/ \E s \in Sessions : old[s] = p /\ at[s] = "delete"

(* An annotation that AnnotatePod has written stays, although start and    *)
(* exec write their own keys at the same time, the kubelet updates the pod *)
(* too, and answers get lost (pod.go:630-652).                             *)
AnnotationsKept ==
    \A s \in Starts \cup Runs :
        target[s] # NoPod /\ at[s] \in {"copy", "sh", "ok", "code"}
        => Key(s) \in ann[target[s]]

(* "daemon exec" reports success only of its own command, executed whole   *)
(* (executor.go:353-360).                                                  *)
SuccessIsOwn == \A x \in Runs : at[x] = "ok" => ran[x] = x

(* Every invocation ends: polls have deadlines and retries a limit.        *)
SessionsEnd == \A s \in Sessions : <>(at[s] \in Final)

-----------------------------------------------------------------------------
(* Inductive strengthenings, for the proofs in DaemonProofs.               *)

(* What an invocation does depends on its kind.                            *)
RoleInv ==
    /\ \A s \in Starts : at[s] \notin {"copy", "sh"}
    /\ \A s \in Stops : at[s] \in {"lookup", "get", "pdbs", "delete", "vanish"} \cup Final
    /\ \A s \in Runs : at[s] \in {"lookup", "read", "write", "copy", "sh"} \cup Final

(* At any time at most one pod has the name.                               *)
NameInv == \A p, q \in Named : p = q

(* OldPodGone, of every invocation: a pod once found does not come back.   *)
OldOf(s) ==
    /\ at[s] \in {"lookup", "get"} => old[s] = NoPod
    /\ old[s] # NoPod =>
          /\ obj[old[s]] # "none"
          /\ at[s] \notin {"pdbs", "delete", "vanish", "err"} => obj[old[s]] = "gone"

OldInv == \A s \in Sessions : OldOf(s)

(* A copy with the current version is what the pod has, so that an update  *)
(* that is accepted only adds to the annotations.                          *)
NoteInv ==
    /\ \A s \in fresh : target[s] # NoPod /\ copy[s] = ann[target[s]]
    /\ \A s \in Sessions :
          target[s] # NoPod => at[s] \in {"read", "write", "copy", "sh"} \cup Final
    /\ AnnotationsKept

(* With one exec only: the pod that has the name when the script is run    *)
(* has no script or that of the exec, for a pod that was copied to and is  *)
(* gone does not come back.                                                *)
ScriptInv ==
    /\ \A p \in Starts : obj[p] = "none" => script[p] = NoPod
    /\ \A x \in Runs : at[x] = "sh" => \A p \in Named : script[p] \in {NoPod, x}
    /\ SuccessIsOwn

=============================================================================
