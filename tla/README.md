# helm-in-pod in TLA+

Models of [helm-in-pod](../src/README.md), a Helm plugin that runs a command in
a short-lived pod (`helm in-pod exec`) or in a long-lived one (`helm in-pod
daemon ...`). The program itself is a command-line client; what is hard about it
is what it shares with others: the pods, PodDisruptionBudgets (PDBs) and
annotations of one namespace, the log stream and file copies between host and
pod, and a shell script that runs as PID 1 at the other end.

## Components

| Component | State it keeps | Operations | Hard behaviour | Correct when |
|---|---|---|---|---|
| Labels and selectors (`hippod/pod.go`) | `myHostname`, `invocationID` of the Manager | label a pod, select pods to delete | concurrent invocations on one host; labels of the user | an invocation selects its own pods and only those |
| Exec lifecycle (`cmd/exec.go`, `hippod/pod.go`, `hippod/pdb.go`) | pod, PDB, `interrupted` flag, signal channel, `done` channel | `CreateHelmPod`, `waitUntilPodIsRunning`, signal goroutine, deferred `DeleteHelmPods` | signals at every point, lost answers of API calls, stale listings, drains | nothing is left behind after a cleanup that reports success; no live pod without its PDB; no container without its object; every invocation ends |
| Purge (`cmd/purge.go`) | none | `DeleteHelmPods` with and without `--all`, delete the ClusterRoleBinding | runs beside all others | removes what it says, breaks nothing else |
| Command execution (`hippod/executor.go`, `hipembedded/script.sh`, `cmd/exec.go`) | script file, log, exit code marker, `/tmp/copy-done`, contexts | copy the script, follow the log, parse the marker, wait for completion, kill on timeout, copy from the pod | retried and half-finished copies, a log that is cut and reopened, phases that lag, timeouts | status 0 only after the command ended with 0; the reported code is the real one; host and pod both end |
| Namespace (`hipns/namespace.go`) | namespace, service account, ClusterRoleBinding | check-then-create, delete | first runs that race each other, a purge between check and use, two purges | nobody fails because of another; the binding is there unless a purge took it |
| Daemon lifecycle (`cmd/daemon_start.go`, `cmd/daemon_stop.go`, `hippod/pod.go`) | pod with a fixed name, annotations, PDB | `CreateDaemonPod`, `DeleteDaemonPod`, `AnnotatePod` | several users of one name, read-modify-write of annotations | old pod gone before success is reported, no lost annotation |
| Daemon exec (`cmd/daemon_exec.go`, `hippod/executor.go`) | script at a shared path in the pod | copy, run, update repositories | two commands at once | a command reported as successful is the one that was given |
| Repository sync (`hippod/executor.go`) | files and repositories in the pod | copy, update, retried | partial failure over several repositories | an error of any repository is reported |
| Files in and out (`helmtar/tar.go`, `hippod/pod.go`, `hippod/executor.go`) | file trees of pod and host | pack, unpack, clean, choose targets | tars cut off halfway, what is there already, odd paths | files arrive where asked, nothing else is touched |
| Pod specification and resource flags (`hippod/spec.go`, `cmd/flags.go`) | none | resolve flags and defaults, build the spec | three flags per resource, environments that override each other | the API server accepts the resources, the script gets its parameters |
| Retry (`hipretry/retry.go`) | attempt counter | retry a function | repeats what was already done | bounded |
| Helm discovery in the pod (`helpers/helm.go`) | none | one exec | Helm not found | - |
| Root, options, exit codes (`cmd/`, `internal/`, `main.go`) | configuration | parse, dispatch, exit | - | - |
| Shell, status, list, tables, logging | none | read and print | - | - |

They interact through the Kubernetes API (create, get, list, update, delete,
exec, logs) and, inside one process, through the `interrupted` flag, the `done`
and signal channels and the context of `--timeout`.

## Modules

    Labels          who is labelled and selected how
      Cluster       pods and PDBs as the API shows them; kubelet and drains
        ExecLifecycle    exec invocations, their signal goroutines, purges
          ExecLifecycleProofs - ExecPdbProofs;  MCExecLifecycle
        Daemon (INSTANCE Cluster)   start, stop and exec of one daemon
          DaemonProofs;  MCDaemon
    ExecContract    what exec promises about its command
      CommandRun    host and script.sh from "pod ready" to "cleaned up"
        CommandRunProofs;  MCCommandRun
    NamespaceSetup  the shared objects: first invocations and purges at once
      NamespaceSetupProofs;  MCNamespaceSetup
    Archives        packing and unpacking between host and pod
      ArchivesProofs
    PodOptions      from options to the pod specification
      Session (EXTENDS Archives, PodOptions)   one invocation around its command
        SessionProofs (and ArchivesProofs) - SessionBackProofs;  MCSession

The text of every module names the functions it translates; `PROJECT.json` maps
each definition to its lines. Operators introduced by a comment "Mutation" are
plausible bugs that the properties are known to detect; no specification uses
them.

**Labels.** `PodLabels` and `Selector` are built as `CreateHelmPod` and
`DeleteHelmPods` build them: a user's label replaces one of the pod's labels,
but is only added to the requirements of the selector. The random invocation id
is the invocation itself; that ids are fresh is the assumption `UuidsAreFresh`.

**Cluster** is external code, modelled as it is used: graceful deletion leaves
the object until the container has ended, grace period 0 removes it at once,
eviction of a running pod is refused while a PDB covers it. A pod is named by
the invocation that creates it. The API object (`obj`) and the container
(`phase`) are separate, because a container can outlive its object.

**ExecLifecycle.** `at[e]` is the program counter of `RunE`, `sigAt[e]` that of
the signal goroutine. `DeleteHelmPods` may run in both, and in purges, so its
state (`delAt`, `delTodo`, `delTerm`, `delCur`) is kept per thread; each of its
API calls is one step. A call may fail; where the server may have executed it
all the same both outcomes are there. Signals are delivered to the channel (two
buffered, `pod.go:155`) while it is registered and end the process otherwise.
`Crash` is SIGKILL or the loss of the machine. What happens between "ready" and
"the command is over" is the step `RunBody`, which `CommandRun` details.

**CommandRun.** One command. Host: `hostAt` follows `ExecuteCommand`, its log
goroutine, `waitForPodCompletion` and the copy-from part of `RunE`. Pod: `podAt`
follows `script.sh`. The script file is absent, open for writing, complete, or cut
short by a connection that broke. Of the log only the marker matters; it may be
received, cut, or lost because a reopened stream starts from the current time. The
goroutine that kills on `--timeout` exists from the copy of the script on
(`killer`) and ends with the process. The deferred cleanup is one step here, which
may fail (`cleanup`): before it has deleted the pod, after that with a lost
answer, or because the listed pod is gone. The exit codes 0, 2 and 130 of the
instance stand for success and codes of one and three digits, since a marker cut
short drops digits.

**ExecContract** is the promise of `exec` about its command: it runs at most
once; success is told at most once and only after it ended with 0.
`CommandRun` implements it through `CommandState` and `Told`.

**Daemon.** One daemon name; any number of `start` (with and without `--force`),
`stop` and `exec` at once. Every call finds the pod by name (`Named`), so the pod
a session deals with may change under it. `AnnotatePod` reads, modifies and
updates with the resource version it read; the set `fresh` holds the sessions
whose copy is current. `Setup` (home directory, Helm version, repositories,
files) is one step that may fail, which `Session` details.

**NamespaceSetup.** Any number of invocations of exec or daemon start and of
purges. `PrepareNs` deals with namespace, service account and ClusterRoleBinding
in this order; for each, the `Get` and the `Create` are two steps (`next`, `at`).
`AlreadyExists` of the create is no error. A purge deletes the binding, keeps the
error if that failed (`failed`), lists the pods and deletes them one by one
(`todo`), and stops at the first that is gone. `unbound` is a history variable:
the setups whose binding a purge took after `PrepareNs` had seen it. A pod is one
step here, as its life is the subject of `ExecLifecycle`.

**Archives.** Pure operators on paths and trees: what `addToTar` puts at which
path of the archive, `Clean`, `Join`, `Dir`, `Base` of `path/filepath`, where
`CopyFileFromPod` unpacks (`ExtractDir`), what `extractTarGz` refuses and writes,
what it leaves when it fails halfway (`PartsOf`), when and from where a file is
renamed (`NeedsRename`, `Landing`), and `os.Rename`. Beside them stand the
definitions of what was wanted (`Wanted`, `Expected`), which do not use the
operators of the code. A path is a sequence of names and a name is equal or
unrelated to another: where the code replaces or compares text, the model does it
to whole names. The names are a constant (`Name`, all strings in the instance)
that holds "." and "/" (`NameAssumption`). `Replacing` is `strings.ReplaceAll`,
written as a recursive function so that one can prove about it.

**PodOptions.** `validateResourceFlags` (`Resolved`), the environment list in
the order in which `buildPodSpec` appends to it (`Env`, whose later entries win),
volumes and tolerations with what makes them refused. Of a volume the name that it
is given in the pod is left out, of a toleration the value. Quantities are numbers; -1
is a flag that is not given and -2 one that does not parse.

**Session.** One invocation of exec, daemon start or daemon exec (`given.kind`)
around its command, step by step in the order of `RunE`: build the spec, choose
what to do, send the bundle, ask for the user and the Helm version, make the
directory, copy and update the repositories, annotate, `--clean`, `--copy`, the
command, `--copy-from`, `/tmp/copy-done`. `todo` is the loop that is running (over
a map it is any order, over a list the order given), `tries` the attempts of the
current `Retry`, `errs` what the loop has failed for. Every call may fail, a tar
also after some of its files were written, an extraction also in the middle of a
file. A file that comes back under another name takes two steps, `Back` and
`Rename`, each of which may fail, and a failure of either repeats both
(`RetryFrom("back")`). `--copy` and `--copy-from` are lists of entries that become
maps as `ParseFileMappings` and `parseCopyFromMappings` make them (`AsMap`,
`Copies`, `Backs`): the last entry of a source wins; a malformed `--copy` is
passed over, a malformed `--copy-from` is an error after the command. The three
kinds differ where the code does: exec goes on with the other `--copy-from`
mappings after an error, daemon exec does not; exec takes the sources of `--copy`
as they are given, the daemon commands clean their paths first; daemon start has
no command. `GivensAssumption` says what the flags of a command line can be: paths
as one can write them, `--clean` for daemon exec only, trees whose paths are
clean. The repositories.yaml of the host is there, absent, or cannot be looked at
(`repoFile`); if it is there it may name no repository. A `--copy` of "/" itself
is left out (`strings.ReplaceAll` with an empty name).

## Runs

Runs with "Doc" refute a sentence of the documentation, a comment or a test;
the others find no error. Sizes are distinct states.

| Run | Instance | Shows |
|---|---|---|
| `Exec` | 1 exec, `purge --all`, 3 signals or crashes, 1 failing call; 201 k | deferred cleanup, signal goroutine and purge side by side leave no live pod when they report no error (`CleanupComplete`) and no PDB when nothing disturbs them (`NoPdbLeak`); a container loses its object only when the PDB could not be created (`OrphansOnlyWithoutPdb`); `Terminates`, `CleanupTakesEffect`, `InterruptEndsWait`; the inductive invariants `CleanupInv`, `OrphanInv` |
| `ExecPurge` | 2 execs on one host, `purge --all`, drains; 1.6 M | `OnlyOwnPods`: no invocation lists another's pod; `Protected`: a live pod has its PDB from the wait to the end of the command, or someone is about to delete it |
| `Command` | with and without `--copy-from`; 1 cut copy, 2 other failures, host and pod may die; 203 k | `SuccessIsReal`, `ReportedIsActual`, `ImplementsContract`; `AliveForCopy`; `HostReturns`, `TimeoutStopsCommand`; the inductive invariant `SuccessInv` |
| `DaemonRaces` | 2 starts (1 forced), 1 stop, 1 exec; 1.2 M | `OldPodGone`, `DaemonProtected`, `SuccessIsOwn` |
| `DaemonLive` | 2 starts (1 forced), 1 exec, 1 failing call; 410 k | `AnnotationsKept`, `SessionsEnd` |
| `Namespace` | 2 first invocations, `purge`, `purge --all`, 1 leftover pod, 1 failing call; 40 k | `OnlyFaultsFail`, `BoundUnlessPurged`, `PurgeDeletesLeftovers`; the inductive invariant `SetupInv` |
| `Session` | some 770 invocations, 2 failing calls each; 11 k | `FilesReady`, `NothingStale`, `ReposReady` when the command starts; `CopiedBack`, `HostUntouched`, `ArtifactsDespiteFailure` when it is over; `RequestsFit`, `ScriptParameters` of the spec; `SessionEnds` |
| `DocPurge` | 1 exec that is killed, 1 purge | purge without `--all` selects with an id drawn by its own process and finds no leftover (README.md:619) |
| `DocLifetime` | host dies before it has copied anything; no call fails | `script.sh` never increments `MY_TIME`, so its wait for the script has no bound (README.md:148). The property asks only for pods without a script: a command that runs longer than `TIMEOUT` is another matter. It holds once `Sleep` increments `myTime` |
| `DocDaemonExec` | 2 daemon execs | one runs, and reports the success of, the command of the other (cmd/daemon_exec.go:22) |
| `DocCopyHere` | exec with a `--copy-from` into the current directory | the path check of `extractTarGz` refuses every file below "." (pod.go:389, README.md:552) |
| `DocCopyDir` | `--copy` of a directory given as `./dir`, or whose name recurs below it | the files arrive at other paths, without an error (tar.go:41) |

**Bounds.** `MaxSignals`, `MaxFaults` and `MaxCuts` bound what the environment
does; they occur only in the guards of `Signal`, `Crash`, `Fault` and `CopyEnds`.
Three signals are one for the first handler, one for `os.Exit(1)` and one to
find the channel gone or full. One failing call in `Exec` includes one whose
answer is lost after it took effect; the theorems hold for any number. Two copy
attempts (`CopyAttempts`, `Attempts`) are one that fails and the last. Two
failures in `Session` exhaust such a retry, or hit two different calls. Two
invocations suffice for interference between pairs, which is all that selectors,
the name of a daemon and check-then-create relate. The scenarios of `Session`
vary one part of the options at a time (groups `Copying`, `CopyingBack`,
`Syncing`, `Sizing`, `Specifying`, `OddCopies` in `MCSession`), since the parts
only meet in the order of the steps. `ExecPurge` uses the symmetry of two
invocations with the same options; runs with liveness use none.

**Deadlock** is not checked: invocations end and nothing need happen after that.

**Fairness.** Goroutines and `script.sh` are scheduled (weak fairness of their
steps). The kubelet stops and removes deleted pods. `--timeout` passes
(`internal/run.go:21` makes it finite), and the kill that the code repeats every
50 ms succeeds if it can be tried for ever (strong fairness of `KillPod`). No
fairness makes a command end, a node drain, a signal arrive, or a pod become
ready. The deadline of the wait for the pod is assumed only by `Terminates`
(strong fairness of `WaitTimeout`, since the poll leaves and re-enters the
state), so that `InterruptEndsWait` is shown without it. Daemon invocations run
on, their polls having deadlines. `Session` is one process whose calls return:
weak fairness of `Next`.

**Preconditions worth knowing.** Each of them marks a case in which the code
does not give the guarantee.

* `TimeoutStopsCommand` excepts a process that has ended without having sent the
  kill: it was killed itself, or its deferred cleanup failed. The goroutine that
  repeats the kill ends with it and the command goes on.
* `CleanupComplete` needs `PlainLabels`: with `--labels host=...` the cleanup
  selects nothing and reports success.
* `Protected` excludes failing calls: after `pod.go:82` the PDB is gone and the
  delete of the pod may fail. `NoPdbLeak` also excludes drains and `purge --all`,
  which may remove the pod between its creation and that of its PDB.
* `SuccessIsReal` excepts a script that `script.sh` started while only a prefix of
  it was there. `ReportedIsActual` allows what a marker cut short is parsed to.
* `SuccessIsOwn` holds with one exec per daemon at a time. `OldPodGone` speaks of
  the pod that `DeleteDaemonPod` found; one created under the name later may be
  deleted as well.
* `PurgeDeletesLeftovers` excludes failing calls, and that another process deletes
  a pod between list and delete, which ends the purge.
* `FilesReady` speaks of the copies that addToTar can deal with (`PlainCopy`) and
  whose files no other copy overwrites (`Undisputed`), whatever the others are;
  `DocCopyDir` shows what happens to the rest. `CopiedBack` has no such exception:
  what does not arrive ends in an error, in `DocCopyHere` always.
* `FilesReady`, `CopiedBack`, `HostUntouched` and `ArtifactsDespiteFailure` speak of
  the last entry of a source. Of two `--copy` of one source, or two `--copy-from`
  of one path in the pod, the earlier is dropped without an error, and the
  invocation may report success; no document says what such entries mean.
* `--copy-from` mappings must not touch each other's files (`AllApart`), as they are
  done in random order. Beside its target, a copy overwrites or renames away a file
  of the host that has the name of the file in the pod (`Touched`), and leaves one
  there if its extraction was cut off or its rename failed or was never reached.
  `HostUntouched` allows that file at every moment, and when the loop is over only
  of mappings that failed.
* `ScriptParameters`: a `WAIT_COPY_DONE` of the user makes `script.sh` wait 300 s for
  copies that nobody makes; the property says that only the user can cause that.
* `Attempts` is at least 1. `daemon exec` checks `--copy-attempts` only when it has
  repositories to deal with: with 0 its files are silently not copied.
* `--update-all-repos` is looked at only if `--copy-repo` is off; with it, the
  repositories of `--update-repo` are updated, or all if there are none
  (`UpdatesAll`).

## Proofs

Everything below is proved for all values of the constants that satisfy the named
assumptions of the modules: any numbers of invocations, purges, users, signals
and failing calls.

`ExecLifecycleProofs`

* `TypeCorrect`: `Spec => []TypeOK`;
* `Isolation`: `Spec => []OnlyOwnPods`. A selector contains the own operation id
  and only the own pod can carry it, whatever labels are given, since ids are
  fresh; so the invariant is inductive on top of the types;
* `CleanupIsComplete`: `Spec => []CleanupComplete`. Not inductive: it must be
  known that no cleanup has listed before the pod existed and that a live pod is
  still on the list of every cleanup under way. `CleanupInv` says so
  (`CleanupInvariant`);
* `ForcedDeletionIsSafe`: `Spec => []OrphansOnlyWithoutPdb`. `OrphanInv`
  (`OrphanInvariant`) adds that a pod listed as terminated stays terminated, so
  that the phase, although stale when used, is never wrong, and that no signal
  goroutine exists before the PDB is settled.

`ExecPdbProofs`, on top of it

* `PodsAreProtected`: `Spec => []Protected`. `ThreadInv` says which threads can be
  at work in which state of an invocation and what their cursors point to;
  `ProtectedInv` says of a live pod whose PDB is gone that the thread which took it
  away is at that very pod, and cannot have failed;
* `NoPdbIsLeaked`: `Spec => []NoPdbLeak`. `LeakInv`: while nothing disturbs, a pod
  that is no longer live has no PDB, and neither has the pod that a thread is
  about to delete.

`CommandRunProofs`, with and without `--copy-from`

* `TypeCorrect`: `Spec => []TypeOK`;
* `SuccessOnlyAfterZero`: `Spec => []SuccessIsReal`. `SuccessInv`
  (`SuccessInvariant`) carries "0 means done" along the way a code takes: from the
  command to the script, to the marker or the container status, to what the host
  has seen, to the outcome;
* `ReportedCodeIsActual`: `Spec => []ReportedIsActual`, by following a code along
  the same way (`ReportInv`);
* `ContainerAwaitsCopies`: `Spec => []AliveForCopy`. `WaitInv`: once the marker is
  out, the container only leaves its wait for the reasons that the property names;
* `ContractImplemented`: `Spec => ImplementsContract`, step by step: only the
  start and the end of the command and the report of the host are visible.

`NamespaceSetupProofs`

* `TypeCorrect`, and `SetupInvariant`: `Spec => []SetupInv`, from which
  `RacesDoNotFail` (`OnlyFaultsFail`) and `LeftoversGo` (`PurgeDeletesLeftovers`)
  follow: nobody deletes the namespace and the service account, and every leftover
  that remains is still on the list of a `purge --all` that has listed;
* `BindingHolds`: `Spec => []BoundUnlessPurged`.

`DaemonProofs`

* `TypeCorrect`: `Spec => []TypeOK`, with `RoleInv`: which steps start, stop and
  exec can be at;
* `OldPodIsGone`: `Spec => []OldPodGone`. `OldInv`: a pod that was found exists or
  is gone for good, since objects never come back;
* `AnnotationsAreKept`: `Spec => []AnnotationsKept`. `NoteInv`: a session whose
  version is current has a copy of what the pod has, so that an accepted update
  only adds;
* `DaemonIsProtected`: `Spec => []DaemonProtected`, with `NameInv`: at most one pod
  has the name, so that who deletes by name deletes the pod whose PDB it removed;
* `OwnSuccess`: `Spec => []SuccessIsOwn` if all of `Runs` are one exec.
  `ScriptInv`: what is at the script path when `sh` is called is that script or
  nothing, also if the pod was replaced meanwhile.

`ArchivesProofs`, about the operators on paths, for every tree

* the recursive `Replacing` has a solution (`ReplacingDef`), so that it obeys its
  defining equation. The library's induction theorems have an operator as parameter
  and cannot be used; `ByLength` states induction over the length of a path about
  a set of paths instead, and `WithoutConcat`, `WithoutNames`, `ReplaceNone` rest on
  it: what is removed, what is kept, that nothing is replaced where the source does
  not occur. From them come `Clean` and `Join` (`CleanIs`, `JoinIs`, `CleanSpelled`);
* `PackedIsWanted`: `addToTar` and tar in the pod together bring a file to the
  target, and a directory below it, if the source is a clean path whose names do
  not recur below it. `DocCopyDir` shows that neither condition can go;
* `CopyBrings`: an extraction brings a file into a directory or under the name of
  the target, and the contents of a directory into the target, unless something of
  the host is in the way, or leaves the file where the rename finds it, and then
  the rename brings it and leaves nothing beside it (`Brought`, `Landed`); and
  neither of the two, nor an extraction that ends halfway, writes anything that is
  not `Touched` or makes a directory disappear (`Writes`).

`SessionProofs`, up to the command; the inductive invariant is `SessionInv`

* `SessionTypes`: `Spec => []TypeOK`. `Place`: which command can be where, that
  `ran` is only set after the command and `out` at the end;
* `SessionRequestsFit`, `SessionScriptParameters`: by cases on the six flags, and on
  the last entry of a name in the environment; `SpecInv`: the specification is
  that of the options or not made yet;
* `SessionReposReady`: `Spec => []ReposReady`. `ReposInv`: in the loop every
  repository that was asked for is still to do, fetched or among the errors, and
  what was established stays until the command. `Collected`: so is every one when
  the errors of the loop end the invocation;
* `SessionNothingStale`: `Spec => []NothingStale`. `SweptInv`: from the end of `rm`,
  only what is sent appears below the cleaned paths;
* `SessionFilesReady`: `Spec => []FilesReady`. `FilesInv`: every copy is in place or
  still on the list; a tar that was cut off leaves it on the list, and other copies
  do not overwrite it (`PackedIsWanted` says what they write).

`SessionBackProofs`, the way back; the inductive invariant is `WholeInv`

* `SessionCopiedBack`: `Spec => []CopiedBack`, and
  `SessionArtifactsDespiteFailure`: `Spec => []ArtifactsDespiteFailure`.
  `BackInv`:   every mapping is on the host with nothing beside it (`IsBack`),
  still on the list   or among the errors, and the file of one that is about to be
  renamed is beside its   target (`Renaming`). That this is inductive takes
  `HostInv`: each attempt decides afresh whether its target is a   directory,
  after other mappings and cut-off attempts have written to the host,   and must
  come to the answer that the host gave in the beginning   (`SameDirectory`);
* `SessionHostUntouched`: `Spec => []HostUntouched`, from `HostInv` (what is written
  at all) and `IsBack` (what is left beside the targets);
* `SessionDescends`: `Spec => [][Descends]_vars`. Places of `RunE` that are left,
  items of the loop, attempts of the retry, the extraction before its rename: every
  step makes the first of these
  smaller that it changes. With it `SessionEnds` only needs that the process goes
  on.

Only model-checked: all liveness (`Terminates`, `CleanupTakesEffect`,
`InterruptEndsWait`, `HostReturns`, `TimeoutStopsCommand`, `SessionsEnd`,
`SessionEnds`), which needs fairness and `ENABLED` and is beyond the prover. Every
invariant of a run that finds no error is proved.

## Not modelled

* Output and its wording, tables and logging. A last line without newline, which
  the marker writer swallows together with the marker (`executor.go:483`), is listed
  as a hazard only.
* `daemon shell`, `status` and `list`, which change nothing.
* The parsing of exit codes from error texts (`parseExitCodeFromError`): the texts
  come from a library outside this repository. `RunShell` takes any outcome.
* Flag declarations, the kubeconfig, `--dry-run`.
* Fields of the pod specification that are copied as they are (image, security
  context, node selector, service account, probes, topology, annotations).
* The name of a volume in the pod (made of what it mounts), the case of its type,
  and the value of a toleration.
* File modes, directories without files, links, names that contain other names,
  "..", "~", and `--copy` entries with an empty part.

## Plan

Done: the modules and proofs above. What could follow:

1. A refinement that connects `RunBody` of `ExecLifecycle` and `Setup` of `Daemon`
   with `Session` and `CommandRun`, which so far share only what their texts say.
2. `NamespaceSetup` composed with the lifecycle, so that a command without
   permissions becomes visible in its exit code.
3. The step-by-step part of the remaining liveness properties, as `SessionDescends`
   is for `SessionEnds`: what descends in `CommandRun` and in `Daemon` while no poll
   is waiting.
4. PDBs that concurrent stops and forced starts leave behind (hazard at
   `pod.go:613`), once the code promises anything about them.
