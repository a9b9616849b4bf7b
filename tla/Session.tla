------------------------------ MODULE Session -------------------------------
(***************************************************************************)
(* What one invocation of exec, daemon start or daemon exec does around    *)
(* its command: from the options to the specification of the pod, the      *)
(* files and Helm repositories that it prepares in the pod, and the files  *)
(* that it brings back.  Every call may fail and most are retried          *)
(* (cmd/exec.go, daemon_start.go, daemon_exec.go; hippod/executor.go       *)
(* 36-191; CopyFilesBundleWithBootInfo, CopyFileToPod, CopyFileFromPod).   *)
(* The pod is there; that is the subject of ExecLifecycle and Daemon.      *)
(***************************************************************************)
EXTENDS Archives, PodOptions

CONSTANTS Givens,      \* the invocations that are looked at
          Results,     \* the files that a command leaves in the pod
          Attempts,    \* --copy-attempts and --update-repo-attempts
          MaxFaults    \* bound: calls that fail

ASSUME SessionConstants == Attempts \in Nat \ {0} /\ MaxFaults \in Nat

All == "all"     \* "helm repo update" without a name

(* --copy and --copy-from are lists of entries, a source and a target each *)
(* as they are spelled.  An entry without ":" has neither.                 *)
Malformed == << >>
IsEntries(list) ==
    /\ list \in Seq((Path \X Path) \cup {Malformed})
    /\ \A e \in ToSet(list) \ {Malformed} : IsSpelled(e[1]) /\ IsSpelled(e[2])

(* They become maps, of which the source is the key: of two entries with   *)
(* the same source, in the same spelling, only the later one is left.      *)
AsMap(list) ==
    {list[i] : i \in {j \in DOMAIN list :
        /\ list[j] # Malformed
        /\ \A k \in j + 1..Len(list) : list[k] = Malformed \/ list[k][1] # list[j][1]}}

(* What the flags of a command line can say: only daemon exec has --clean. *)
IsGiven(g) ==
    /\ g.kind \in {"exec", "start", "run"}
    /\ IsEntries(g.files) /\ IsEntries(g.copyFrom)
    /\ \A c \in AsMap(g.files) : Clean(c[1]) # Root
    /\ g.clean \subseteq Path /\ (g.clean # {} => g.kind = "run")
    /\ g.update \in Seq(STRING \ {All})
    /\ \A r \in Resources : g.flags[r] \in [old : Int, request : Int, limit : Int]
    /\ g.substEnv \in Seq(STRING \X STRING) /\ g.env \in Seq(STRING \X STRING)
    /\ g.repoFile \in {"none", "denied", "yes"} /\ (g.repoFile # "yes" => g.repos = {})
    /\ IsTree(g.inPod) /\ IsTree(g.onHost)

ASSUME GivensAssumption == IsTree(Results) /\ \A g \in Givens : IsGiven(g)

VARIABLES given,    \* options, host and image (never changes)
          at,       \* where RunE is
          tries,    \* failed attempts of the current Retry
          todo,     \* what the current loop has not dealt with yet
          errs,     \* what it has failed for
          spec,     \* the specification of the pod
          pod, host,\* the file trees
          repos,    \* repositories.yaml in the pod
          updated,  \* the repositories that "helm repo update" has fetched
          ran,      \* what the command came to
          out,      \* what RunE returns
          faults

setupVars == <<spec, repos, updated>>
vars == <<given, at, tries, todo, errs, setupVars, pod, host, ran, out, faults>>

Kind == given.kind
HelmFound == given.helm = "yes"

(* A malformed --copy is passed over, a malformed --copy-from is an error. *)
Copies == AsMap(given.files)
Backs == AsMap(given.copyFrom)
BacksParse == Malformed \notin ToSet(given.copyFrom)

SessionAt == {"spec", "bundle", "user", "helm", "choose", "mkdir", "repos", "update", "note",
              "clean", "files", "command", "back", "rename", "signal", "end"}

TypeOK ==
    /\ given \in Givens
    /\ at \in SessionAt
    /\ tries \in 0..Attempts - 1
    /\ repos \subseteq given.repos /\ updated \subseteq given.repos
    /\ ran \in {"no", "ok", "code", "err"}
    /\ out \in {"none", "ok", "code", "err"}
    /\ faults \in 0..MaxFaults

Init ==
    /\ given \in Givens
    /\ at = IF given.kind = "run" THEN "choose" ELSE "spec"
    /\ tries = 0 /\ todo = << >> /\ errs = {}
    /\ spec = NoSpec
    /\ pod = given.inPod /\ host = given.onHost
    /\ repos \in (IF given.kind = "run" THEN {{}, given.repos} ELSE {{}})
    /\ updated = {}
    /\ ran = "no" /\ out = "none"
    /\ faults = 0

Fault == faults < MaxFaults /\ faults' = faults + 1
NoFault == UNCHANGED faults

Goto(l) == at' = l /\ tries' = 0 /\ UNCHANGED out
Return(o) == at' = "end" /\ tries' = 0 /\ out' = o

(* Begin a loop over a slice, or over a map: in any order.                 *)
Loop(l, s) == Goto(l) /\ todo' = s /\ errs' = {}
LoopMap(l, S) == \E s \in SetToSeqs(S) : Loop(l, s)
Ended(l) == Goto(l) /\ UNCHANGED <<todo, errs>>
Fails(o) == Return(o) /\ UNCHANGED <<todo, errs>>

(* Mutation: one attempt too many.                                         *)
RetryOnceMore(l) ==
    IF tries < Attempts
    THEN at' = l /\ tries' = tries + 1 /\ UNCHANGED <<out, todo, errs>>
    ELSE Fails("err")

(* Mutation: no limit.                                                     *)
RetryForEver(l) == at' = l /\ tries' = tries /\ UNCHANGED <<out, todo, errs>>

(* Retry: the same call again, which begins at l, or its error is returned.*)
RetryFrom(l) ==
    IF tries + 1 < Attempts
    THEN at' = l /\ tries' = tries + 1 /\ UNCHANGED <<out, todo, errs>>
    ELSE Fails("err")

(* The same in a loop that collects the errors.                            *)
RetryThenNextFrom(l) ==
    /\ IF tries + 1 < Attempts
       THEN tries' = tries + 1 /\ UNCHANGED <<todo, errs>>
       ELSE tries' = 0 /\ todo' = Tail(todo) /\ errs' = errs \cup {Head(todo)}
    /\ at' = l /\ UNCHANGED out

NextItemAt(l) == at' = l /\ tries' = 0 /\ todo' = Tail(todo) /\ UNCHANGED <<errs, out>>

(* Most calls are a whole attempt.                                         *)
Retry == RetryFrom(at)
RetryThenNext == RetryThenNextFrom(at)
NextItem == NextItemAt(at)

-----------------------------------------------------------------------------
(* What follows what.                                                      *)

ToCommand == IF Kind = "start" THEN LoopMap("files", Copies) ELSE Ended("command")

(* daemon exec looks at --clean only if there is something to copy.        *)
AfterRepos ==
    IF Kind = "exec" THEN Ended("command")
    ELSE IF Kind = "run" /\ given.files = << >> THEN Ended("command")
    ELSE IF given.clean # {} THEN Ended("clean")
    ELSE LoopMap("files", Copies)

(* SyncHelmRepositories does nothing if the host has no repositories.yaml, *)
(* and fails if it cannot tell.  The file may be there and name none.      *)
Sync ==
    IF given.repoFile = "none" THEN AfterRepos
    ELSE IF given.repoFile = "denied" THEN Fails("err")
    ELSE Ended("mkdir")

(* opts.UpdateRepo, or everything at once.  --update-all-repos is looked   *)
(* at only if nothing is copied.                                           *)
UpdatesAll == given.update = << >> \/ (given.updateAll /\ ~given.copyRepo)
Update == Loop("update", IF UpdatesAll THEN <<All>> ELSE given.update)

-----------------------------------------------------------------------------
(* The specification of the pod, for exec and daemon start.                *)

BuildSpec ==
    /\ at = "spec"
    /\ IF Refused(given) THEN Fails("err") /\ UNCHANGED spec
       ELSE spec' = PodSpec(given) /\ Ended(IF Kind = "exec" THEN "bundle" ELSE "user")
    /\ UNCHANGED <<given, repos, updated, pod, host, ran, faults>>

(* exec packs the paths as they are given, CopyFileToPod cleans them.      *)
Sent(c) ==
    IF Kind = "exec" THEN Packed(given.onHost, c[1], c[2])
    ELSE Packed(given.onHost, Clean(c[1]), Clean(c[2]))

Arrivals(copies) ==
    LET A == {Sent(c) : c \in copies}
    IN [p \in UNION {DOMAIN a : a \in A} |-> (CHOOSE a \in A : p \in DOMAIN a)[p]]

Missing(copies) == \E c \in copies : Walked(given.onHost, c[1]) = {}

(* exec: all files in one archive, with the home directory and the version *)
(* of Helm on the way.  A source that is missing is an error at once.  A   *)
(* call that fails may have unpacked some of the files, or all.            *)
Bundle ==
    /\ at = "bundle"
    /\ \/ Missing(Copies) /\ Fails("err") /\ UNCHANGED pod /\ NoFault
       \/ /\ ~Missing(Copies) /\ given.home /\ NoFault
          /\ pod' = Put(pod, Arrivals(Copies))
          /\ IF given.copyRepo /\ HelmFound THEN Sync ELSE AfterRepos
       \/ /\ ~Missing(Copies)
          /\ IF given.home THEN Fault ELSE NoFault
          /\ \E S \in SUBSET DOMAIN Arrivals(Copies) :
                pod' = Put(pod, Restrict(Arrivals(Copies), S))
          /\ Retry
    /\ UNCHANGED <<given, setupVars, host, ran>>

(* daemon start: GetPodUserInfo, whose result is checked after the retries.*)
UserInfo ==
    /\ at = "user"
    /\ \/ given.home /\ Ended("helm") /\ NoFault
       \/ ~given.home /\ Fails("err") /\ NoFault
       \/ Retry /\ Fault
    /\ UNCHANGED <<given, setupVars, pod, host, ran>>

(* IsHelm4: an image without Helm is told by "helm: not found" in the      *)
(* text of the error; another shell words it differently.  No retry.       *)
HelmVersion ==
    /\ at = "helm"
    /\ \/ HelmFound /\ given.copyRepo /\ Sync /\ NoFault
       \/ HelmFound /\ ~given.copyRepo /\ ToCommand /\ NoFault
       \/ given.helm = "not found" /\ ToCommand /\ NoFault
       \/ given.helm = "other text" /\ Fails("err") /\ NoFault
       \/ Fails("err") /\ Fault
    /\ UNCHANGED <<given, setupVars, pod, host, ran>>

(* daemon exec: what start has written to the annotations.                 *)
Choose ==
    /\ at = "choose"
    /\ IF ~given.home THEN Fails("err")
       ELSE IF HelmFound /\ given.copyRepo THEN Sync
       ELSE IF HelmFound /\ (given.updateAll \/ given.update # << >>) THEN Update
       ELSE AfterRepos
    /\ UNCHANGED <<given, setupVars, pod, host, ran, faults>>

-----------------------------------------------------------------------------
(* Helm repositories.                                                      *)

MakeDir ==
    /\ at = "mkdir"
    /\ \/ Ended("repos") /\ NoFault
       \/ Retry /\ Fault
    /\ UNCHANGED <<given, setupVars, pod, host, ran>>

CopyRepos ==
    /\ at = "repos"
    /\ \/ repos' = given.repos /\ Update /\ NoFault
       \/ repos' \in {repos, given.repos} /\ Retry /\ Fault
    /\ UNCHANGED <<given, spec, updated, pod, host, ran>>

(* "helm repo update [name]": fails for a name that the pod does not know. *)
Known(r) == IF r = All THEN repos # {} ELSE r \in repos
Fetched(r) == IF r = All THEN repos ELSE {r}

(* Mutation: the error of a repository is forgotten.                       *)
UpdateFailsQuietly ==
    IF tries + 1 < Attempts THEN tries' = tries + 1 /\ UNCHANGED <<at, out, todo, errs>>
    ELSE NextItem

UpdateFails == IF Head(todo) = All THEN Retry ELSE RetryThenNext

UpdateRepo ==
    /\ at = "update" /\ todo # << >>
    /\ \/ /\ Known(Head(todo)) /\ NoFault
          /\ updated' = updated \cup Fetched(Head(todo)) /\ NextItem
       \/ ~Known(Head(todo)) /\ UNCHANGED updated /\ UpdateFails /\ NoFault
       \/ UNCHANGED updated /\ UpdateFails /\ Fault
    /\ UNCHANGED <<given, spec, repos, pod, host, ran>>

(* errors.Join: any error is one.  An update without a copy is annotated.  *)
UpdateEnds ==
    /\ at = "update" /\ todo = << >>
    /\ IF errs # {} THEN Fails("err")
       ELSE IF Kind = "run" /\ ~given.copyRepo THEN Ended("note") ELSE AfterRepos
    /\ UNCHANGED <<given, setupVars, pod, host, ran, faults>>

Note ==
    /\ at = "note"
    /\ \/ (IF Kind = "start" THEN Fails("ok") ELSE AfterRepos) /\ NoFault
       \/ Retry /\ Fault
    /\ UNCHANGED <<given, setupVars, pod, host, ran>>

-----------------------------------------------------------------------------
(* CopyUserFiles: daemon start and daemon exec.                            *)

Cleaned == Restrict(pod, {p \in DOMAIN pod : \A d \in given.clean : ~IsPrefix(d, p)})

(* Mutation: whatever comes of it.                                         *)
CleanTried ==
    /\ at = "clean"
    /\ \/ pod' = Cleaned /\ NoFault
       \/ UNCHANGED pod /\ Fault
    /\ LoopMap("files", Copies)
    /\ UNCHANGED <<given, setupVars, host, ran>>

(* rm -rf, once.                                                           *)
CleanPaths ==
    /\ at = "clean"
    /\ \/ pod' = Cleaned /\ LoopMap("files", Copies) /\ NoFault
       \/ pod' \in {pod, Cleaned} /\ Fails("err") /\ Fault
    /\ UNCHANGED <<given, setupVars, host, ran>>

(* Mutation: the error is not looked at.                                   *)
CopyUnchecked ==
    /\ at = "files" /\ todo # << >>
    /\ pod' \in {pod, Put(pod, Sent(Head(todo)))}
    /\ NextItem
    /\ UNCHANGED <<given, setupVars, host, ran, faults>>

CopyFile ==
    /\ at = "files" /\ todo # << >>
    /\ LET new == Sent(Head(todo))
           missing == Missing({Head(todo)})
       IN \/ missing /\ Fails("err") /\ UNCHANGED pod /\ NoFault
          \/ ~missing /\ pod' = Put(pod, new) /\ NextItem /\ NoFault
          \/ /\ ~missing /\ Retry /\ Fault
             /\ \E S \in SUBSET DOMAIN new : pod' = Put(pod, Restrict(new, S))
    /\ UNCHANGED <<given, setupVars, host, ran>>

FilesEnd ==
    /\ at = "files" /\ todo = << >>
    /\ Ended(IF Kind = "start" THEN "note" ELSE "command")
    /\ UNCHANGED <<given, setupVars, pod, host, ran, faults>>

-----------------------------------------------------------------------------
(* The command (module CommandRun, Daemon), and the files that come back.  *)

(* A command that fails may have left some of its files, or none.          *)
Command ==
    /\ at = "command"
    /\ \/ ran' = "ok" /\ pod' = Put(pod, Results) /\ NoFault
       \/ ran' = "code" /\ pod' \in {pod, Put(pod, Results)} /\ NoFault
       \/ ran' = "err" /\ pod' \in {pod, Put(pod, Results)} /\ Fault
    /\ IF given.copyFrom = << >> THEN Return(ran') /\ UNCHANGED <<todo, errs>>
       ELSE IF BacksParse THEN LoopMap("back", Backs)
       ELSE IF Kind = "exec" THEN Ended("signal")
       ELSE Fails(IF ran' = "ok" THEN "err" ELSE ran')
    /\ UNCHANGED <<given, setupVars, host>>

(* The container of exec waits for the copies only if it was told so.      *)
Alive ==
    Kind = "exec" => "WAIT_COPY_DONE" \in EnvNames(spec.env)

(* Mutation: the first error ends the copies, as it does for a daemon.     *)
BackFailsFirst ==
    IF tries + 1 < Attempts \/ Kind = "run" THEN RetryFrom("back")
    ELSE Ended("signal")

(* exec goes on with the other files; daemon exec returns the error, and   *)
(* what the command came to is lost.                                       *)
BackFails == IF Kind = "exec" THEN RetryThenNextFrom("back") ELSE RetryFrom("back")

(* Mutation: an answer is not waited for.                                  *)
BackUnchecked ==
    /\ at = "back" /\ todo # << >>
    /\ NextItem /\ UNCHANGED <<given, setupVars, pod, host, ran, faults>>

(* "test -f" and tar in the pod, then the extraction on the host, which    *)
(* may fail halfway.  A test that fails for another reason makes a         *)
(* directory of the file, which tar refuses.                               *)
Back ==
    /\ at = "back" /\ todo # << >>
    /\ LET p == Clean(Head(todo)[1])
           h == Clean(Head(todo)[2])
           isFile == IsFile(pod, p)
           there == Alive /\ (isFile \/ IsDir(pod, p))
           d == ExtractDir(host, h, isFile)
           u == Unpacked(Tarred(pod, p, isFile), d)
           blocked == Blocked(host, Tarred(pod, p, isFile), d)
       IN \/ /\ there /\ blocked = {} /\ NoFault
             /\ host' = Put(host, u)
             /\ IF NeedsRename(host', p, h, isFile)
                THEN at' = "rename" /\ UNCHANGED <<tries, todo, errs, out>>
                ELSE NextItem
          \/ /\ there /\ blocked # {} /\ BackFails /\ NoFault
             /\ \E S \in SUBSET (DOMAIN u \ blocked) : host' = Put(host, Restrict(u, S))
          \/ /\ there /\ BackFails /\ Fault
             /\ \E v \in PartsOf(u, DOMAIN u \ blocked) : host' = Put(host, v)
          \/ ~there /\ UNCHANGED host /\ BackFails /\ (Fault \/ NoFault)
    /\ UNCHANGED <<given, setupVars, pod, ran>>

(* The file under its name in the pod becomes the target, or stays beside  *)
(* it.                                                                     *)
Rename ==
    /\ at = "rename"
    /\ LET p == Clean(Head(todo)[1])
           h == Clean(Head(todo)[2])
       IN \/ host' = Renamed(host, Landing(p, h), h) /\ NextItemAt("back") /\ NoFault
          \/ UNCHANGED host /\ BackFails /\ Fault
    /\ UNCHANGED <<given, setupVars, pod, ran>>

BackEnds ==
    /\ at = "back" /\ todo = << >>
    /\ IF Kind = "exec" THEN Ended("signal") ELSE Fails(ran)
    /\ UNCHANGED <<given, setupVars, pod, host, ran, faults>>

(* SignalCopyDone never fails; the error of the command wins.              *)
Signal ==
    /\ at = "signal"
    /\ Fails(IF ran = "ok" /\ (errs # {} \/ ~BacksParse) THEN "err" ELSE ran)
    /\ UNCHANGED <<given, setupVars, pod, host, ran, faults>>

Next ==
    \/ BuildSpec \/ Bundle \/ UserInfo \/ HelmVersion \/ Choose
    \/ MakeDir \/ CopyRepos \/ UpdateRepo \/ UpdateEnds \/ Note
    \/ CleanPaths \/ CopyFile \/ FilesEnd
    \/ Command \/ Back \/ Rename \/ BackEnds \/ Signal

Spec == Init /\ [][Next]_vars

(* One process, whose calls all return.                                    *)
FairSpec == Spec /\ WF_vars(Next)

-----------------------------------------------------------------------------
(* What is asked for.                                                      *)

Ready == (at = "command" /\ Kind # "start") \/ (out = "ok" /\ Kind = "start")

(* The sources with which addToTar can do what it is for: files, and clean *)
(* paths of directories whose names do not recur below them.               *)
PlainSource(c) ==
    LET s == Clean(c[1])
    IN \/ IsFile(given.onHost, s)
       \/ /\ s # Here /\ (Kind = "exec" => c[1] = s)
          /\ \A f \in Walked(given.onHost, s) :
                Names(s) \notin SubSeqs(Below(s, f))

(* Paths in the pod are absolute (tar.go:19).  Nothing else that is copied *)
(* goes where c goes.                                                      *)
PlainCopy(c) == PlainSource(c) /\ Absolute(Clean(c[2]))
Asks(c) == Wanted(given.onHost, c[1], Clean(c[2]))
Undisputed(c) ==
    \A o \in Copies \ {c} : PlainCopy(o) /\ DOMAIN Asks(o) \cap DOMAIN Asks(c) = {}
Arrived(c) == Holds(pod, Asks(c))

Fetches ==
    IF given.copyRepo THEN given.repoFile = "yes"
    ELSE Kind = "run" /\ (given.updateAll \/ given.update # << >>)

Asked(m) == Expected(pod, given.onHost, Clean(m[1]), Clean(m[2]))
TouchedBy(m) == Touched(pod, given.onHost, Clean(m[1]), Clean(m[2]))
Apart(S, T) == \A p \in S, q \in T : ~IsPrefix(p, q) /\ ~IsPrefix(q, p)
AllApart == \A m, n \in Backs : m # n => Apart(TouchedBy(m), TouchedBy(n))

(* The rename has taken away the file that was beside the target.          *)
NothingBeside(m) == DOMAIN host \cap (TouchedBy(m) \ DOMAIN Asked(m)) = {}

-----------------------------------------------------------------------------
(* Properties.                                                             *)

(* Whatever failed and was tried again on the way, the command starts, and *)
(* daemon start reports success, only with the last --copy of every source *)
(* in place: a tar that was cut off halfway is completed by a retry or     *)
(* ends the invocation (executor.go:180-189, pod.go:277-376).  An earlier  *)
(* --copy of the same source is dropped without a word.                    *)
FilesReady ==
    Ready => \A c \in Copies : PlainCopy(c) /\ Undisputed(c) => Arrived(c)

(* With --clean, what the command finds below the cleaned paths is what    *)
(* this invocation has copied and nothing from an earlier one: a failed rm *)
(* must not be followed by the copies (executor.go:170-189).               *)
NothingStale ==
    Ready /\ given.files # << >> =>
        \A d \in given.clean : \A p \in DOMAIN pod :
            IsPrefix(d, p) => p \in DOMAIN Arrivals(Copies)

(* The command never runs with repositories that were asked for and are    *)
(* not there or not fetched, and the loop over --update-repo does not stop *)
(* at the first error: every repository is fetched or among those that     *)
(* failed (executor.go:80-167, daemon_exec.go:47-74).                      *)
ReposReady ==
    /\ Ready /\ HelmFound /\ Fetches =>
        /\ given.copyRepo => repos = given.repos
        /\ IF UpdatesAll THEN updated = repos ELSE ToSet(given.update) \subseteq updated
    /\ at = "end" /\ ran = "no" /\ errs # {} => ToSet(given.update) \subseteq updated \cup errs

(* Success means that the last --copy-from of every path in the pod is on  *)
(* the host, with the content that the pod had after the command           *)
(* (pod.go:395-448).  An earlier one of the same path is dropped without a *)
(* word.                                                                   *)
CopiedBack ==
    out = "ok" /\ Kind # "start" /\ AllApart =>
        \A m \in Backs : Holds(host, Asked(m))

(* At every moment, the copies have written only the files that a mapping  *)
(* names, and beside them files under their names in the pod.  Of those,   *)
(* what a mapping has left behind when the loop is over is that of one     *)
(* that failed: its extraction was cut off, or its rename failed or was    *)
(* never reached (pod.go:405-447, 460-506).                                *)
HostUntouched ==
    AllApart =>
        /\ DOMAIN host \subseteq DOMAIN given.onHost \cup UNION {TouchedBy(m) : m \in Backs}
        /\ \A p \in DOMAIN given.onHost :
              (\A m \in Backs : p \notin TouchedBy(m)) =>
                  p \in DOMAIN host /\ host[p] = given.onHost[p]
        /\ at = "signal" /\ BacksParse => \A m \in Backs \ errs : NothingBeside(m)
        /\ out = "ok" /\ Kind # "start" => \A m \in Backs : NothingBeside(m)

(* exec brings back what it can: a mapping that did not fail has arrived   *)
(* (of those with the same path in the pod there is only the last),        *)
(* whatever the command and the other mappings came to, and they never     *)
(* replace the exit code of the command (exec.go:102-132).                 *)
ArtifactsDespiteFailure ==
    Kind = "exec" /\ ran # "no" =>
        /\ at = "signal" /\ BacksParse /\ AllApart =>
              \A m \in Backs \ errs : Holds(host, Asked(m))
        /\ at = "end" /\ ran # "ok" => out = ran

(* No combination of the six resource flags makes a request above the      *)
(* limit, which the API server refuses, unless the user gave both numbers  *)
(* (flags.go:53-69).                                                       *)
RequestsFit ==
    \A r \in DOMAIN spec.requests \cap DOMAIN spec.limits :
        \/ spec.requests[r] <= spec.limits[r]
        \/ given.flags[r].request # Unset /\ given.flags[r].limit # Unset

(* The script of the pod gets the TIMEOUT that exec computed, whatever     *)
(* --env and --subst-env hold.  With --copy-from it waits for the copies;  *)
(* without, it does so only if a variable of the user tells it to, and     *)
(* then in vain, for 300 s (spec.go:98-122, script.sh:53).                 *)
ScriptParameters ==
    Kind = "exec" /\ spec # NoSpec =>
        /\ EnvValue(spec.env, "TIMEOUT") = "ours"
        /\ given.copyFrom # << >> => EnvValue(spec.env, "WAIT_COPY_DONE") = "1"
        /\ given.copyFrom = << >> /\ "WAIT_COPY_DONE" \in EnvNames(spec.env) =>
              "WAIT_COPY_DONE" \in EnvNames(given.substEnv) \cup EnvNames(given.env)

(* However calls fail, the invocation comes to an end: every retry is      *)
(* counted and every loop moves on (retry.go, executor.go:126-167).        *)
SessionEnds == <>(at = "end")

-----------------------------------------------------------------------------
(* What the documentation says, without the preconditions above.           *)

(* "walks the source path and adds all files/directories to the tar writer *)
(* with the correct destination path inside the pod" (tar.go:41-42).       *)
CopiesArrive == Ready => \A c \in Copies : Arrived(c)

(* "If hostPath is "." or an existing directory, the file is placed inside *)
(* it keeping its original name (like cp)" (pod.go:389-390): the copy must *)
(* not fail if no call does.                                               *)
CopyFromArrives ==
    at = "signal" /\ faults = 0 /\ AllApart =>
        \A m \in Backs :
            IsFile(pod, Clean(m[1])) => Holds(host, Asked(m))

=============================================================================
