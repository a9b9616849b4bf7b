----------------------------- MODULE PodOptions -----------------------------
(***************************************************************************)
(* From the options of exec and daemon start to the specification of the   *)
(* pod: validateResourceFlags (cmd/flags.go) and buildPodSpec,             *)
(* parseVolume, parseToleration, buildDaemonPodSpec (hippod/spec.go).      *)
(* Of the specification, the parts that another component or the API       *)
(* server depends on: resources, environment, tolerations, volumes.        *)
(***************************************************************************)
EXTENDS Integers, Sequences, SequencesExt

Unset == -1      \* the flag is not given
Invalid == -2    \* ParseQuantity refuses the value

Resources == {"cpu", "memory"}
Default == [cpu |-> 1100, memory |-> 500]

(* flags[r]: the values of --r, --r-request and --r-limit.                 *)
MixedFlags(flags) ==
    \E r \in Resources :
        flags[r].old # Unset /\ (flags[r].request # Unset \/ flags[r].limit # Unset)

(* Mutation: each of the two has its own default.                          *)
ResolvedEach(f, r) ==
    IF f.old # Unset THEN [request |-> f.old, limit |-> f.old]
    ELSE [request |-> IF f.request = Unset THEN Default[r] ELSE f.request,
          limit |-> IF f.limit = Unset THEN Default[r] ELSE f.limit]

(* The defaults apply only when none of the three flags is given.          *)
Resolved(f, r) ==
    IF f.old # Unset THEN [request |-> f.old, limit |-> f.old]
    ELSE IF f.request = Unset /\ f.limit = Unset
    THEN [request |-> Default[r], limit |-> Default[r]]
    ELSE [request |-> f.request, limit |-> f.limit]

(* Empty and "0" leave the resource out of the list.                       *)
Listing(flags, field) ==
    LET value(r) == Resolved(flags[r], r)[field]
    IN [r \in {q \in Resources : value(q) \notin {Unset, 0}} |-> value(r)]

-----------------------------------------------------------------------------
(* The environment: a sequence of pairs; of two with the same name the     *)
(* container gets the later one.                                           *)

EnvNames(env) == {env[i][1] : i \in DOMAIN env}
EnvValue(env, n) == env[CHOOSE i \in DOMAIN env :
                           env[i][1] = n /\ \A j \in i + 1..Len(env) : env[j][1] # n][2]

WaitVar(o) ==
    IF o.kind = "exec" /\ o.copyFrom # << >> THEN <<<<"WAIT_COPY_DONE", "1">>>> ELSE << >>

(* Mutation: the user's variables come last.                               *)
EnvUserLast(o) == <<<<"TIMEOUT", "ours">>>> \o WaitVar(o) \o o.substEnv \o o.env

(* --subst-env, --env, TIMEOUT, and WAIT_COPY_DONE with --copy-from; the   *)
(* whole environment of a daemon is dropped, that of the user included.    *)
Env(o) ==
    IF o.kind = "start" THEN << >>
    ELSE o.substEnv \o o.env \o <<<<"TIMEOUT", "ours">>>> \o WaitVar(o)

-----------------------------------------------------------------------------
(* Volumes and tolerations: sequences of what the text of a flag splits    *)
(* into.                                                                   *)

VolumeTypes == {"pvc", "secret", "configmap", "hostpath"}

(* The name that a volume is given in the pod, made of what it mounts, is  *)
(* left out, and so is the case of the type.                               *)
VolumeOk(v) == Len(v) >= 3 /\ v[1] \in VolumeTypes
Volume(v) == [type |-> v[1], name |-> v[2], path |-> v[3], ro |-> Len(v) = 4 /\ v[4] = "ro"]

(* The text before "=" is the key; a value after it is left out.           *)
TolerationOk(t) == Len(t) = 3 /\ t[3] \in {"Equal", "Exists"}
Toleration(t) == [key |-> t[1], effect |-> t[2], operator |-> t[3]]

Duplicates(s) == \E i, j \in DOMAIN s : i # j /\ s[i] = s[j]

-----------------------------------------------------------------------------

(* The options that end with an error before the pod is created.           *)
Refused(o) ==
    \/ MixedFlags(o.flags)
    \/ \E field \in {"request", "limit"} : \E r \in DOMAIN Listing(o.flags, field) :
          Listing(o.flags, field)[r] = Invalid
    \/ \E i \in DOMAIN o.volumes : ~VolumeOk(o.volumes[i])
    \/ Duplicates(o.tolerations)
    \/ \E i \in DOMAIN o.tolerations : ~TolerationOk(o.tolerations[i])

PodSpec(o) ==
    [requests |-> Listing(o.flags, "request"),
     limits |-> Listing(o.flags, "limit"),
     env |-> Env(o),
     volumes |-> [i \in DOMAIN o.volumes |-> Volume(o.volumes[i])],
     tolerations |-> [i \in DOMAIN o.tolerations |-> Toleration(o.tolerations[i])]]

NoSpec == [requests |-> << >>, limits |-> << >>, env |-> << >>, volumes |-> << >>,
           tolerations |-> << >>]

=============================================================================
