---------------------------- MODULE SessionProofs ----------------------------
(***************************************************************************)
(* What is proved of Session for any invocation and any number of failing  *)
(* calls, up to the command: types, the specification of the pod, the      *)
(* repositories, and the files that are copied to the pod.                 *)
(***************************************************************************)
EXTENDS Session, ArchivesProofs, FiniteSetTheorems

USE DEF Copies, Backs, BacksParse

LEMMA NextCases ==
    ASSUME Next
    PROVE  \/ BuildSpec \/ Bundle \/ UserInfo \/ HelmVersion \/ Choose
           \/ MakeDir \/ CopyRepos \/ UpdateRepo \/ UpdateEnds \/ Note
           \/ CleanPaths \/ CopyFile \/ FilesEnd
           \/ Command \/ Back \/ Rename \/ BackEnds \/ Signal
BY DEF Next

-----------------------------------------------------------------------------
(* Where RunE can be, for which command, and what it has by then.          *)

Place ==
    /\ at \in {"back", "rename", "signal"} => ran # "no"
    /\ at \notin {"back", "rename", "signal", "end"} => ran = "no"
    /\ at = "end" <=> out # "none"
    /\ at = "spec" => Kind # "run"
    /\ at = "bundle" => Kind = "exec"
    /\ at \in {"user", "helm"} => Kind = "start"
    /\ at \in {"choose", "clean"} => Kind = "run"
    /\ at \in {"clean", "files", "note"} => Kind # "exec"
    /\ at \in {"command", "back", "rename", "signal"} => Kind # "start"
    /\ at \in {"mkdir", "repos"} => HelmFound /\ given.copyRepo
    /\ at = "update" => HelmFound

(* The specification is made once, from options that are not refused.      *)
SpecInv == spec = NoSpec \/ (~Refused(given) /\ spec = PodSpec(given))

(* What "helm repo update" has been told to fetch and has not failed for.  *)
Established ==
    HelmFound /\ Fetches =>
        /\ given.copyRepo => repos = given.repos
        /\ IF UpdatesAll THEN updated = repos ELSE ToSet(given.update) \subseteq updated

Updating ==
    /\ given.copyRepo => repos = given.repos
    /\ IF UpdatesAll
       THEN errs = {} /\ (todo = <<All>> \/ (todo = << >> /\ updated = repos))
       ELSE /\ todo \in Seq(STRING \ {All})
            /\ ToSet(given.update) \subseteq ToSet(todo) \cup updated \cup errs

ReposInv ==
    /\ updated \subseteq repos
    /\ at = "update" => Updating
    /\ at \in {"note", "clean", "files", "command"} => Established
    /\ Kind = "start" /\ out = "ok" => Established

(* Up to the command, the only errors that are collected are those of the  *)
(* repositories.                                                           *)
Collected ==
    ran = "no" =>
        \/ errs = {} \/ at = "update"
        \/ at = "end" /\ ToSet(given.update) \subseteq updated \cup errs

(* What the loop over the copies has left behind.                          *)
Swept ==
    \A d \in given.clean : \A p \in DOMAIN pod :
        IsPrefix(d, p) => p \in DOMAIN Arrivals(Copies)

SweptInv ==
    /\ at = "files" => todo \in Seq(Copies)
    /\ at \in {"files", "command"} /\ given.files # << >> => Swept

InPlace(c) == PlainCopy(c) /\ Undisputed(c) => Arrived(c)

FilesInv ==
    /\ Kind = "exec" /\ at \in {"mkdir", "repos", "update", "command"} =>
         \A c \in Copies : InPlace(c)
    /\ at = "files" => \A c \in Copies : InPlace(c) \/ c \in ToSet(todo)
    /\ \/ Kind = "start" /\ (at = "note" \/ out = "ok")
       \/ Kind = "run" /\ at = "command"
       => \A c \in Copies : InPlace(c)

(* What an entry of the command line is if it counts.                      *)
LEMMA EntriesAre ==
    ASSUME NEW list, IsEntries(list)
    PROVE  /\ IsFiniteSet(AsMap(list))
           /\ \A e \in AsMap(list) : /\ e \in Path \X Path /\ e # Malformed
                                     /\ IsSpelled(e[1]) /\ IsSpelled(e[2])
<1> DEFINE D == {j \in DOMAIN list :
                   /\ list[j] # Malformed
                   /\ \A k \in j + 1..Len(list) : list[k] = Malformed \/ list[k][1] # list[j][1]}
<1>1. AsMap(list) = {list[i] : i \in D}
  BY DEF AsMap
<1>2. /\ Len(list) \in Nat /\ DOMAIN list = 1..Len(list)
      /\ \A i \in DOMAIN list : list[i] \in (Path \X Path) \cup {Malformed}
      /\ \A e \in ToSet(list) \ {Malformed} : IsSpelled(e[1]) /\ IsSpelled(e[2])
  BY DEF IsEntries
<1>3. IsFiniteSet(D)
  <2>1. IsFiniteSet(1..Len(list))
    BY <1>2, FS_Interval
  <2> QED BY <1>2, <2>1, FS_Subset
<1>4. \A i \in D : i \in DOMAIN list /\ list[i] # Malformed
  OBVIOUS
<1> HIDE DEF D
<1> DEFINE f == [i \in D |-> list[i]]
           I == {list[i] : i \in D}
<1>5. IsFiniteSet(I)
  <2>1. f \in Surjection(D, I)
    BY DEF Surjection
  <2> HIDE DEF f, I
  <2> QED BY <1>3, <2>1, FS_Surjection
<1>6. \A i \in DOMAIN list : list[i] \in ToSet(list)
  BY DEF ToSet
<1> QED BY <1>1, <1>2, <1>4, <1>5, <1>6

LEMMA GivenIs ==
    ASSUME given \in Givens
    PROVE  /\ IsGiven(given)
           /\ given.kind \in {"exec", "start", "run"} /\ (given.clean # {} => given.kind = "run")
           /\ IsFiniteSet(Copies) /\ IsFiniteSet(Backs)
           /\ \A c \in Copies \cup Backs :
                c \in Path \X Path /\ IsSpelled(c[1]) /\ IsSpelled(c[2])
           /\ \A c \in Copies : Clean(c[1]) # Root
<1>1. IsGiven(given)
  BY GivensAssumption
<1>2. IsEntries(given.files) /\ IsEntries(given.copyFrom)
      /\ \A c \in AsMap(given.files) : Clean(c[1]) # Root
  BY <1>1 DEF IsGiven
<1>3. given.kind \in {"exec", "start", "run"} /\ (given.clean # {} => given.kind = "run")
  BY <1>1 DEF IsGiven
<1> QED BY <1>1, <1>2, <1>3, EntriesAre

(* What follows the repositories, and what follows the command's pod.      *)
LEMMA AfterReposIs ==
    ASSUME given \in Givens, AfterRepos
    PROVE  /\ tries' = 0 /\ out' = out
           /\ \/ /\ at' = "command" /\ (Kind = "exec" \/ (Kind = "run" /\ given.files = << >>))
              \/ at' = "clean" /\ Kind = "run"
              \/ /\ at' = "files" /\ Kind # "exec" /\ given.clean = {}
                 /\ todo' \in SetToSeqs(Copies)
BY GivenIs DEF AfterRepos, Ended, LoopMap, Loop, Goto, Kind

LEMMA SyncIs ==
    ASSUME Sync
    PROVE  \/ given.repoFile = "none" /\ AfterRepos
           \/ Fails("err")
           \/ Ended("mkdir")
BY DEF Sync

LEMMA BuildSpecIs ==
    ASSUME BuildSpec
    PROVE  /\ at = "spec" /\ UNCHANGED <<given, repos, updated, pod, host, ran, faults>>
           /\ \/ Fails("err") /\ UNCHANGED spec
              \/ /\ ~Refused(given) /\ spec' = PodSpec(given)
                 /\ Ended(IF Kind = "exec" THEN "bundle" ELSE "user")
BY Zenon DEF BuildSpec

LEMMA BundleIs ==
    ASSUME Bundle
    PROVE  /\ at = "bundle" /\ UNCHANGED <<given, setupVars, host, ran>>
           /\ \/ Fails("err") /\ UNCHANGED pod /\ NoFault
              \/ /\ given.home /\ NoFault
                 /\ pod' = Put(pod, Arrivals(Copies))
                 /\ IF given.copyRepo /\ HelmFound THEN Sync ELSE AfterRepos
              \/ Retry /\ (Fault \/ NoFault)
BY Zenon DEF Bundle

LEMMA HelmVersionIs ==
    ASSUME HelmVersion
    PROVE  /\ at = "helm" /\ UNCHANGED <<given, setupVars, pod, host, ran>>
           /\ \/ HelmFound /\ given.copyRepo /\ Sync /\ NoFault
              \/ HelmFound /\ ~given.copyRepo /\ ToCommand /\ NoFault
              \/ given.helm = "not found" /\ ToCommand /\ NoFault
              \/ Fails("err") /\ (Fault \/ NoFault)
BY Zenon DEF HelmVersion

LEMMA PlaceSync ==
    ASSUME TypeOK, Place, (HelmFound /\ given.copyRepo /\ Sync) \/ AfterRepos,
           NoFault, at # "end", ran = "no", UNCHANGED <<given, setupVars, host, ran>>
    PROVE  TypeOK' /\ Place'
<1> DEFINE A == /\ tries' = 0 /\ out' = out
                /\ \/ at' = "command" /\ Kind # "start"
                   \/ at' = "clean" /\ Kind = "run"
                   \/ at' = "files" /\ Kind # "exec"
<1>1. given \in Givens /\ Attempts \in Nat \ {0}
  BY SessionConstants DEF TypeOK
<1>2. AfterRepos => A
  BY <1>1, AfterReposIs
<1> DEFINE M == HelmFound /\ given.copyRepo /\ at' = "mkdir" /\ tries' = 0 /\ out' = out
           F == at' = "end" /\ tries' = 0 /\ out' = "err"
<1>3. AfterRepos \/ M \/ F
  BY SyncIs DEF Ended, Goto, Fails, Return
<1>4. A \/ M \/ F
  BY <1>2, <1>3
<1>5. out = "none"
  BY DEF Place, TypeOK
<1> HIDE DEF A
<1>6. TypeOK'
  BY <1>1, <1>4, <1>5 DEF A, TypeOK, SessionAt, setupVars, NoFault
<1>7. UNCHANGED <<given, ran>>
  BY DEF setupVars
<1> QED BY <1>4, <1>5, <1>6, <1>7 DEF A, Place, Kind, HelmFound

(* An extraction or a rename: a step of the loop, or the next one.         *)
LEMMA BackTurns ==
    ASSUME Back \/ Rename
    PROVE  /\ at \in {"back", "rename"} /\ UNCHANGED <<given, setupVars, pod, ran>>
           /\ \/ at' \in {"back", "rename"} /\ out' = out /\ (tries' = 0 \/ tries' = tries)
              \/ BackFails
           /\ Fault \/ NoFault
<1> DEFINE Turns == at' = "rename" /\ UNCHANGED <<tries, todo, errs, out>>
<1>1. CASE Back
  <2>1. /\ at = "back" /\ UNCHANGED <<given, setupVars, pod, ran>>
        /\ Turns \/ NextItem \/ BackFails
        /\ Fault \/ NoFault
    BY <1>1, Zenon DEF Back
  <2> QED BY <2>1 DEF NextItem, NextItemAt
<1>2. CASE Rename
  <2>1. /\ at = "rename" /\ UNCHANGED <<given, setupVars, pod, ran>>
        /\ NextItemAt("back") \/ BackFails
        /\ Fault \/ NoFault
    BY <1>2, Zenon DEF Rename
  <2> QED BY <2>1 DEF NextItemAt
<1> QED BY <1>1, <1>2

LEMMA PlaceStep ==
    ASSUME TypeOK, Place, Next
    PROVE  TypeOK' /\ Place'
<1>1. /\ given \in Givens /\ at \in SessionAt /\ tries \in 0..Attempts - 1
      /\ Attempts \in Nat \ {0} /\ MaxFaults \in Nat /\ faults \in 0..MaxFaults
      /\ ran \in {"no", "ok", "code", "err"} /\ out \in {"none", "ok", "code", "err"}
      /\ given.kind \in {"exec", "start", "run"} /\ (given.clean # {} => given.kind = "run")
  BY GivenIs, SessionConstants DEF TypeOK
<1> USE DEF TypeOK, Place, SessionAt, setupVars, Kind, HelmFound, Fault, NoFault, Goto, Return,
            Loop, LoopMap, Ended, Fails, Retry, RetryThenNext, NextItem, ToCommand, AfterRepos,
            RetryFrom, RetryThenNextFrom, NextItemAt, Sync, Update
<1>2. CASE BuildSpec
  <2>1. /\ at = "spec" /\ UNCHANGED <<given, repos, updated, pod, host, ran, faults>>
        /\ Fails("err") \/ Ended(IF Kind = "exec" THEN "bundle" ELSE "user")
    BY <1>2, BuildSpecIs
  <2>2. CASE Fails("err")
    BY <2>1, <2>2, <1>1
  <2>3. CASE Ended(IF Kind = "exec" THEN "bundle" ELSE "user")
    BY <2>1, <2>3, <1>1
  <2> QED BY <2>1, <2>2, <2>3
<1>3. CASE Bundle
  <2> USE <1>1
  <2>1. at = "bundle" /\ UNCHANGED <<given, setupVars, host, ran>>
    BY <1>3, BundleIs
  <2>2. CASE Fails("err") /\ NoFault
    BY <2>1, <2>2
  <2>3. CASE (IF given.copyRepo /\ HelmFound THEN Sync ELSE AfterRepos) /\ NoFault
    <3>1. at # "end" /\ ran = "no"
      BY <2>1
    <3> HIDE DEF Sync, AfterRepos, TypeOK, Place, NoFault, setupVars, HelmFound
    <3> QED BY <2>1, <2>3, <3>1, PlaceSync
  <2>4. CASE Retry /\ (Fault \/ NoFault)
    BY <2>1, <2>4
  <2> QED BY <1>3, <2>2, <2>3, <2>4, BundleIs
<1>4. CASE UserInfo
  BY <1>4, <1>1 DEF UserInfo
<1>5. CASE HelmVersion
  <2> USE <1>1
  <2>1. at = "helm" /\ UNCHANGED <<given, setupVars, pod, host, ran>>
    BY <1>5, HelmVersionIs
  <2>2. CASE Fails("err") /\ (Fault \/ NoFault)
    BY <2>1, <2>2
  <2>3. CASE HelmFound /\ given.copyRepo /\ Sync /\ NoFault
    BY <2>1, <2>3, PlaceSync
  <2>4. CASE ToCommand /\ NoFault
    BY <2>1, <2>4
  <2> QED BY <1>5, <2>2, <2>3, <2>4, HelmVersionIs
<1>6. CASE Choose
  BY <1>6, <1>1 DEF Choose
<1>7. CASE MakeDir
  BY <1>7, <1>1 DEF MakeDir
<1>8. CASE CopyRepos
  BY <1>8, <1>1 DEF CopyRepos
<1>9. CASE UpdateRepo
  BY <1>9, <1>1 DEF UpdateRepo, UpdateFails, Known, Fetched
<1>10. CASE UpdateEnds
  BY <1>10, <1>1 DEF UpdateEnds
<1>11. CASE Note
  BY <1>11, <1>1 DEF Note
<1>12. CASE CleanPaths
  BY <1>12, <1>1 DEF CleanPaths
<1>13. CASE CopyFile
  BY <1>13, <1>1 DEF CopyFile
<1>14. CASE FilesEnd
  BY <1>14, <1>1 DEF FilesEnd
<1>15. CASE Command
  BY <1>15, <1>1 DEF Command
<1>16. CASE Back \/ Rename
  <2> HIDE DEF TypeOK, Place, SessionAt, Kind
  <2>1. /\ at \in {"back", "rename"} /\ UNCHANGED <<given, setupVars, ran>>
        /\ \/ at' \in {"back", "rename"} /\ out' = out /\ (tries' = 0 \/ tries' = tries)
           \/ BackFails
        /\ Fault \/ NoFault
    BY <1>16, BackTurns
  <2>2. BackFails =>
          \/ at' = "back" /\ out' = out /\ tries' \in 0..Attempts - 1
          \/ at' = "end" /\ out' = "err" /\ tries' = 0
    BY <1>1 DEF BackFails
  <2>3. \/ at' \in {"back", "rename"} /\ out' = out /\ tries' \in 0..Attempts - 1
        \/ at' = "end" /\ out' = "err" /\ tries' = 0
    BY <1>1, <2>1, <2>2
  <2>4. faults' \in 0..MaxFaults
    BY <1>1, <2>1
  <2> HIDE DEF Fault, NoFault, Fails, RetryFrom, RetryThenNextFrom
  <2> QED BY <1>1, <2>1, <2>3, <2>4 DEF TypeOK, Place, SessionAt, Kind
<1>17. CASE BackEnds
  BY <1>17, <1>1 DEF BackEnds
<1>18. CASE Signal
  BY <1>18, <1>1 DEF Signal
<1> QED
  BY <1>2, <1>3, <1>4, <1>5, <1>6, <1>7, <1>8, <1>9, <1>10, <1>11, <1>12, <1>13,
     <1>14, <1>15, <1>16, <1>17, <1>18, NextCases

(* Every action leaves the options alone, and most leave most alone.       *)
LEMMA Frame ==
    ASSUME Next
    PROVE  /\ given' = given
           /\ BuildSpec \/ spec' = spec
           /\ CopyRepos \/ repos' = repos
           /\ UpdateRepo \/ updated' = updated
           /\ Bundle \/ CleanPaths \/ CopyFile \/ Command \/ pod' = pod
           /\ Back \/ Rename \/ host' = host
           /\ Command \/ ran' = ran
<1> USE DEF setupVars
<1>1. CASE BuildSpec \/ Bundle \/ UserInfo \/ HelmVersion \/ Choose
  BY <1>1, Zenon DEF BuildSpec, Bundle, UserInfo, HelmVersion, Choose
<1>2. CASE MakeDir \/ CopyRepos \/ UpdateRepo \/ UpdateEnds \/ Note
  BY <1>2, Zenon DEF MakeDir, CopyRepos, UpdateRepo, UpdateEnds, Note
<1>3. CASE CleanPaths \/ CopyFile \/ FilesEnd
  BY <1>3, Zenon DEF CleanPaths, CopyFile, FilesEnd
<1>4. CASE Command \/ Back \/ Rename \/ BackEnds \/ Signal
  BY <1>4, Zenon DEF Command, Back, Rename, BackEnds, Signal
<1> QED BY <1>1, <1>2, <1>3, <1>4, NextCases

LEMMA SpecStep ==
    ASSUME SpecInv, Next
    PROVE  SpecInv'
<1>1. CASE BuildSpec
  BY <1>1, BuildSpecIs, Frame DEF SpecInv
<1>2. CASE ~BuildSpec
  BY <1>2, Frame DEF SpecInv
<1> QED BY <1>1, <1>2

(* Of the six flags of a pod (flags.go:53-69, spec.go).                    *)
LEMMA FlagsFit ==
    ASSUME NEW g \in Givens, NEW r \in DOMAIN PodSpec(g).requests, r \in DOMAIN PodSpec(g).limits
    PROVE  \/ PodSpec(g).requests[r] <= PodSpec(g).limits[r]
           \/ g.flags[r].request # Unset /\ g.flags[r].limit # Unset
<1> DEFINE f == g.flags[r]
           value(field) == Resolved(f, r)[field]
<1>1. /\ PodSpec(g).requests = Listing(g.flags, "request")
      /\ PodSpec(g).limits = Listing(g.flags, "limit")
  BY DEF PodSpec
<1>2. /\ r \in Resources /\ value("request") # Unset /\ value("limit") # Unset
      /\ PodSpec(g).requests[r] = value("request") /\ PodSpec(g).limits[r] = value("limit")
  BY <1>1 DEF Listing
<1>3. f.old \in Int
  BY <1>2, GivensAssumption DEF IsGiven
<1> HIDE DEF f
<1>4. CASE f.old # Unset
  <2>1. value("request") = f.old /\ value("limit") = f.old
    BY <1>4 DEF Resolved
  <2> QED BY <1>2, <1>3, <2>1
<1>5. CASE f.old = Unset /\ f.request = Unset /\ f.limit = Unset
  <2>1. value("request") = Default[r] /\ value("limit") = Default[r] /\ Default[r] \in Int
    BY <1>2, <1>5 DEF Resolved, Default, Resources
  <2> QED BY <1>2, <2>1
<1>6. CASE f.old = Unset /\ ~(f.request = Unset /\ f.limit = Unset)
  <2>1. value("request") = f.request /\ value("limit") = f.limit
    BY <1>6 DEF Resolved
  <2> QED BY <1>2, <2>1 DEF f
<1> QED BY <1>4, <1>5, <1>6

LEMMA SpecFits ==
    ASSUME given \in Givens, SpecInv
    PROVE  RequestsFit
<1>1. CASE spec = NoSpec
  <2>1. spec.requests = << >> /\ DOMAIN << >> = {}
    BY <1>1 DEF NoSpec
  <2> QED BY <2>1 DEF RequestsFit
<1>2. CASE spec = PodSpec(given)
  BY <1>2, FlagsFit DEF RequestsFit
<1> QED BY <1>1, <1>2 DEF SpecInv

(* The environment: of two variables with the same name, the later counts. *)
LEMMA LastValue ==
    ASSUME NEW e, NEW l \in Nat, DOMAIN e = 1..l, Len(e) = l, NEW n,
           NEW k \in 1..l, e[k][1] = n, \A j \in k + 1..l : e[j][1] # n
    PROVE  EnvValue(e, n) = e[k][2]
<1> DEFINE last(i) == e[i][1] = n /\ \A j \in i + 1..l : e[j][1] # n
<1>1. last(k)
  OBVIOUS
<1>2. ASSUME NEW i \in 1..l, last(i) PROVE i = k
  <2>1. i < k => k \in i + 1..l
    OBVIOUS
  <2>2. k < i => i \in k + 1..l
    OBVIOUS
  <2> QED BY <1>1, <1>2, <2>1, <2>2
<1>3. EnvValue(e, n) = e[CHOOSE i \in 1..l : last(i)][2]
  BY DEF EnvValue
<1> HIDE DEF last
<1> QED BY <1>1, <1>2, <1>3

LEMMA OneMore ==
    ASSUME NEW S, NEW s \in Seq(S), NEW x \in S
    PROVE  /\ s \o <<x>> \in Seq(S) /\ Len(s) \in Nat
           /\ Len(s \o <<x>>) = Len(s) + 1 /\ DOMAIN (s \o <<x>>) = 1..Len(s) + 1
           /\ (s \o <<x>>)[Len(s) + 1] = x
           /\ \A i \in 1..Len(s) : (s \o <<x>>)[i] = s[i]
OBVIOUS

LEMMA MoreElements ==
    ASSUME NEW S, NEW T, S \subseteq T, NEW s \in Seq(S)
    PROVE  s \in Seq(T)
OBVIOUS

LEMMA TimeoutIsOurs ==
    ASSUME NEW g \in Givens, g.kind = "exec"
    PROVE  /\ EnvValue(Env(g), "TIMEOUT") = "ours"
           /\ g.copyFrom # << >> => EnvValue(Env(g), "WAIT_COPY_DONE") = "1"
           /\ g.copyFrom = << >> /\ "WAIT_COPY_DONE" \in EnvNames(Env(g)) =>
                "WAIT_COPY_DONE" \in EnvNames(g.substEnv) \cup EnvNames(g.env)
<1> DEFINE x == <<"TIMEOUT", "ours">>
           y == <<"WAIT_COPY_DONE", "1">>
           P == STRING \X STRING
           S == P \cup {x, y}
           u == g.substEnv \o g.env
           e == u \o <<x>>
           d == e \o <<y>>
           l == Len(u)
<1>1. g.substEnv \in Seq(S) /\ g.env \in Seq(S)
  <2>1. g.substEnv \in Seq(P) /\ g.env \in Seq(P)
    BY GivensAssumption DEF IsGiven
  <2> HIDE DEF P, x, y
  <2> QED BY <2>1, MoreElements
<1>2. u \in Seq(S)
  <2> HIDE DEF S
  <2> QED BY <1>1, ConcatProperties
<1>3. x \in S /\ y \in S
  OBVIOUS
<1>4. x[1] = "TIMEOUT" /\ x[2] = "ours" /\ y[1] = "WAIT_COPY_DONE" /\ y[2] = "1"
      /\ "TIMEOUT" # "WAIT_COPY_DONE"
  OBVIOUS
<1>5. Env(g) = IF g.copyFrom # << >> THEN d ELSE e \o << >>
  BY DEF Env, WaitVar
<1> HIDE DEF S, u, x, y
<1>6. /\ e \in Seq(S) /\ l \in Nat /\ Len(e) = l + 1 /\ DOMAIN e = 1..l + 1
      /\ e[l + 1] = x /\ \A i \in 1..l : e[i] = u[i]
  BY <1>2, <1>3, OneMore
<1>11. \A i \in 1..l : e[i][1] \in EnvNames(g.substEnv) \cup EnvNames(g.env)
  <2>1. /\ l = Len(g.substEnv) + Len(g.env) /\ Len(g.substEnv) \in Nat /\ Len(g.env) \in Nat
        /\ DOMAIN g.substEnv = 1..Len(g.substEnv) /\ DOMAIN g.env = 1..Len(g.env)
        /\ \A i \in 1..l : u[i] = IF i <= Len(g.substEnv) THEN g.substEnv[i]
                                  ELSE g.env[i - Len(g.substEnv)]
    <3> HIDE DEF P
    <3>1. /\ Len(g.substEnv) \in Nat /\ Len(g.env) \in Nat
          /\ DOMAIN g.substEnv = 1..Len(g.substEnv) /\ DOMAIN g.env = 1..Len(g.env)
      BY <1>1
    <3>2. /\ Len(u) = Len(g.substEnv) + Len(g.env)
          /\ \A i \in 1..Len(g.substEnv) + Len(g.env) :
                u[i] = IF i <= Len(g.substEnv) THEN g.substEnv[i]
                       ELSE g.env[i - Len(g.substEnv)]
      BY <1>1, ConcatProperties DEF u
    <3> QED BY <3>1, <3>2
  <2> HIDE DEF l
  <2>2. ASSUME NEW i \in 1..l
        PROVE  \/ i \in DOMAIN g.substEnv /\ u[i] = g.substEnv[i]
               \/ i - Len(g.substEnv) \in DOMAIN g.env /\ u[i] = g.env[i - Len(g.substEnv)]
    <3> DEFINE m == Len(g.substEnv)
               n == Len(g.env)
    <3>1. m \in Nat /\ n \in Nat /\ l = m + n
      BY <2>1
    <3> HIDE DEF m, n
    <3>2. i \in 1..m \/ (i - m \in 1..n /\ ~(i <= m))
      BY <3>1
    <3>3. i \in 1..m => i <= m
      BY <3>1
    <3> QED BY <2>1, <3>2, <3>3 DEF m, n
  <2> QED BY <1>6, <2>2 DEF EnvNames
<1>7. e \o << >> = e
  BY <1>6, ConcatEmptySeq
<1> HIDE DEF e
<1>8. /\ Len(d) = l + 2 /\ DOMAIN d = 1..l + 2 /\ d[l + 2] = y /\ d[l + 1] = x
  BY <1>3, <1>6, OneMore
<1> HIDE DEF d, l
<1>9. CASE g.copyFrom = << >>
  <2>1. \A j \in l + 1 + 1..l + 1 : e[j][1] # "TIMEOUT"
    BY <1>6
  <2>2. l + 1 \in 1..l + 1 /\ l + 1 \in Nat
    BY <1>6
  <2>3. EnvValue(e, "TIMEOUT") = "ours"
    BY <1>4, <1>6, <2>1, <2>2, LastValue
  <2>4. ASSUME NEW i \in 1..l + 1, e[i][1] = "WAIT_COPY_DONE" PROVE i \in 1..l
    BY <1>4, <1>6, <2>4
  <2>5. "WAIT_COPY_DONE" \in EnvNames(e) =>
          "WAIT_COPY_DONE" \in EnvNames(g.substEnv) \cup EnvNames(g.env)
    BY <1>6, <1>11, <2>4 DEF EnvNames
  <2> QED BY <1>5, <1>7, <1>9, <2>3, <2>5
<1>10. CASE g.copyFrom # << >>
  <2>1. /\ \A j \in l + 1 + 1..l + 2 : d[j][1] # "TIMEOUT"
        /\ \A j \in l + 2 + 1..l + 2 : d[j][1] # "WAIT_COPY_DONE"
    <3>1. \A j \in l + 1 + 1..l + 2 : j = l + 2
      BY <1>6
    <3>2. \A j \in l + 2 + 1..l + 2 : FALSE
      BY <1>6
    <3> QED BY <1>4, <1>8, <3>1, <3>2
  <2>2. l + 1 \in 1..l + 2 /\ l + 2 \in 1..l + 2 /\ l + 2 \in Nat
    BY <1>6
  <2>3. EnvValue(d, "TIMEOUT") = d[l + 1][2]
    BY <1>4, <1>8, <2>1, <2>2, LastValue
  <2>4. EnvValue(d, "WAIT_COPY_DONE") = d[l + 2][2]
    BY <1>4, <1>8, <2>1, <2>2, LastValue
  <2> QED BY <1>4, <1>5, <1>8, <1>10, <2>3, <2>4
<1> QED BY <1>9, <1>10

LEMMA SpecSetsParameters ==
    ASSUME given \in Givens, SpecInv
    PROVE  ScriptParameters
<1>1. spec # NoSpec => spec.env = Env(given)
  BY DEF SpecInv, PodSpec
<1> QED BY <1>1, TimeoutIsOurs DEF ScriptParameters, Kind

-----------------------------------------------------------------------------
(* The Helm repositories.                                                  *)

LEMMA ReposOn ==
    ASSUME ReposInv, UNCHANGED <<given, repos, updated>>, at' # "update",
           at' \in {"note", "clean", "files", "command"} => Established,
           Kind = "start" /\ out' = "ok" => Established
    PROVE  ReposInv'
BY DEF ReposInv, Established, Fetches, UpdatesAll, Kind, HelmFound

LEMMA UpdateIs ==
    ASSUME given \in Givens, Update, UNCHANGED given, given.copyRepo => repos' = given.repos
    PROVE  at' = "update" /\ out' = out /\ Updating'
<1>1. /\ at' = "update" /\ out' = out /\ errs' = {}
      /\ todo' = IF UpdatesAll THEN <<All>> ELSE given.update
  BY DEF Update, Loop, Goto
<1>2. given.update \in Seq(STRING \ {All})
  BY GivenIs DEF IsGiven
<1>3. CASE UpdatesAll
  BY <1>1, <1>3 DEF Updating, UpdatesAll
<1>4. CASE ~UpdatesAll
  <2>1. given' = given /\ ~UpdatesAll'
    BY <1>4 DEF UpdatesAll
  <2> QED BY <1>1, <1>2, <1>4, <2>1 DEF Updating
<1> QED BY <1>1, <1>3, <1>4

(* One name less to update.                                                *)
LEMMA OneLess ==
    ASSUME NEW S, NEW s \in Seq(S), s # << >>
    PROVE  /\ Head(s) \in S /\ Tail(s) \in Seq(S)
           /\ Head(s) \in ToSet(s) /\ ToSet(s) \subseteq ToSet(Tail(s)) \cup {Head(s)}
           /\ ToSet(Tail(s)) \subseteq ToSet(s)
<1>1. /\ Head(s) \in S /\ Tail(s) \in Seq(S) /\ Len(s) \in Nat \ {0} /\ Len(Tail(s)) = Len(s) - 1
      /\ Head(s) = s[1] /\ DOMAIN s = 1..Len(s) /\ DOMAIN Tail(s) = 1..Len(s) - 1
      /\ \A i \in 1..Len(s) - 1 : Tail(s)[i] = s[i + 1]
  OBVIOUS
<1>2. 1 \in 1..Len(s)
  BY <1>1
<1>3. ASSUME NEW i \in 1..Len(s) PROVE i = 1 \/ (i - 1 \in 1..Len(s) - 1 /\ s[i] = Tail(s)[i - 1])
  BY <1>1
<1>4. ASSUME NEW i \in 1..Len(s) - 1 PROVE i + 1 \in 1..Len(s) /\ Tail(s)[i] = s[i + 1]
  BY <1>1
<1>5. /\ ToSet(s) = {s[i] : i \in 1..Len(s)}
      /\ ToSet(Tail(s)) = {Tail(s)[i] : i \in 1..Len(s) - 1}
  BY <1>1 DEF ToSet
<1> DEFINE t == Tail(s)
           l == Len(s)
           h == Head(s)
<1> HIDE DEF t, l, h
<1>6. h \in {s[i] : i \in 1..l}
  BY <1>1, <1>2 DEF l, h
<1>7. {s[i] : i \in 1..l} \subseteq {t[i] : i \in 1..l - 1} \cup {h}
  <2>1. ASSUME NEW i \in 1..l PROVE s[i] \in {t[j] : j \in 1..l - 1} \cup {h}
    BY <1>1, <1>3 DEF t, l, h
  <2> QED BY <2>1
<1>8. {t[i] : i \in 1..l - 1} \subseteq {s[i] : i \in 1..l}
  <2>1. ASSUME NEW i \in 1..l - 1 PROVE t[i] \in {s[j] : j \in 1..l}
    BY <1>1, <1>4 DEF t, l
  <2> QED BY <2>1
<1> QED BY <1>1, <1>5, <1>6, <1>7, <1>8 DEF t, l, h

LEMMA UpdatingStep ==
    ASSUME TypeOK, ReposInv, at = "update", UpdateRepo
    PROVE  ReposInv'
<1>4. at = "update"
  OBVIOUS
<1>1. /\ todo # << >> /\ Updating /\ updated \subseteq repos
      /\ UNCHANGED <<given, repos>>
      /\ \/ /\ Known(Head(todo)) /\ updated' = updated \cup Fetched(Head(todo)) /\ NextItem
         \/ UNCHANGED updated /\ UpdateFails
  BY DEF UpdateRepo, ReposInv
<1>2. CASE UpdatesAll
  <2>1. todo = <<All>> /\ errs = {}
    BY <1>1, <1>2 DEF Updating
  <2>2. Head(todo) = All /\ Tail(todo) = << >>
    BY <2>1
  <2>3. CASE UNCHANGED updated /\ UpdateFails
    BY <1>1, <1>2, <2>1, <2>2, <2>3
       DEF UpdateFails, Retry, RetryFrom, Fails, Return, ReposInv, Updating, UpdatesAll, Kind,
           HelmFound, Established, Fetches
  <2>4. CASE updated' = updated \cup Fetched(Head(todo)) /\ NextItem
    BY <1>1, <1>2, <2>1, <2>2, <2>4
       DEF Fetched, NextItem, NextItemAt, ReposInv, Updating, UpdatesAll, Kind, HelmFound,
           Established, Fetches
  <2> QED BY <1>1, <2>3, <2>4
<1>3. CASE ~UpdatesAll
  <2> DEFINE N == STRING \ {All}
             n == Head(todo)
  <2>1. /\ todo \in Seq(N) /\ ToSet(given.update) \subseteq ToSet(todo) \cup updated \cup errs
        /\ given.copyRepo => repos = given.repos
    BY <1>1, <1>3 DEF Updating
  <2>2. n # All
    <3>1. n \in N
      <4> HIDE DEF N
      <4> QED BY <1>1, <2>1, OneLess
    <3> QED BY <3>1
  <2>3. /\ Tail(todo) \in Seq(N) /\ ToSet(todo) \subseteq ToSet(Tail(todo)) \cup {n}
    <3> HIDE DEF N
    <3> QED BY <1>1, <2>1, OneLess
  <2> HIDE DEF n
  <2>4. CASE UNCHANGED updated /\ UpdateFails
    <3>1. \/ UNCHANGED <<todo, errs>>
          \/ todo' = Tail(todo) /\ errs' = errs \cup {n}
      BY <2>2, <2>4 DEF UpdateFails, RetryThenNext, RetryThenNextFrom, n
    <3>2. ToSet(given.update) \subseteq ToSet(todo') \cup updated' \cup errs' /\ todo' \in Seq(N)
      BY <2>1, <2>3, <2>4, <3>1
    <3>3. UNCHANGED <<at, out>>
      BY <1>4, <2>2, <2>4 DEF UpdateFails, RetryThenNext, RetryThenNextFrom, n
    <3> QED BY <1>1, <1>3, <2>1, <2>4, <3>2, <3>3
            DEF ReposInv, Updating, UpdatesAll, Kind, HelmFound, Established, Fetches
  <2>5. CASE Known(n) /\ updated' = updated \cup Fetched(n) /\ NextItem
    <3>1. /\ todo' = Tail(todo) /\ errs' = errs /\ updated' = updated \cup {n} /\ n \in repos
          /\ UNCHANGED <<at, out>>
      BY <1>4, <2>2, <2>5 DEF NextItem, NextItemAt, Fetched, Known
    <3>2. ToSet(given.update) \subseteq ToSet(todo') \cup updated' \cup errs' /\ todo' \in Seq(N)
      BY <2>1, <2>3, <3>1
    <3> QED BY <1>1, <1>3, <2>1, <3>1, <3>2
            DEF ReposInv, Updating, UpdatesAll, Kind, HelmFound, Established, Fetches
  <2> QED BY <1>1, <2>4, <2>5 DEF n
<1> QED BY <1>2, <1>3

LEMMA ReposStep ==
    ASSUME TypeOK, Place, ReposInv, Next
    PROVE  ReposInv'
<1>1. /\ given' = given /\ given \in Givens
      /\ given.kind \in {"exec", "start", "run"} /\ (given.clean # {} => given.kind = "run")
      /\ CopyRepos \/ repos' = repos
      /\ UpdateRepo \/ updated' = updated
  BY GivenIs, Frame DEF TypeOK
<1>2. Kind = "start" /\ out = "ok" => Established
  BY DEF ReposInv
<1>3. AfterRepos => at' \in {"command", "clean", "files"} /\ out' = out
  BY <1>1, AfterReposIs
<1>4. Sync => \/ given.repoFile = "none" /\ AfterRepos
              \/ at' = "mkdir" /\ out' = out
              \/ at' = "end" /\ out' # "ok"
  BY SyncIs DEF Ended, Goto, Fails, Return
<1>5. ASSUME NEW o, Fails(o), o # "ok" PROVE at' = "end" /\ out' # "ok"
  BY <1>5 DEF Fails, Return
<1>6. ASSUME NEW l, Ended(l) PROVE at' = l /\ out' = out
  BY <1>6 DEF Ended, Goto
<1>7. Retry => (at' = at /\ out' = out /\ UNCHANGED <<todo, errs>>) \/ (at' = "end" /\ out' # "ok")
  BY DEF Retry, RetryFrom, Fails, Return
<1>8. ASSUME NEW l, NEW S, LoopMap(l, S) PROVE at' = l /\ out' = out
  BY <1>8 DEF LoopMap, Loop, Goto
<1>9. ASSUME UNCHANGED <<repos, updated>>, at' \in SessionAt \ {"update"},
             at' \in {"note", "clean", "files", "command"} => Established,
             out' = out \/ out' # "ok"
      PROVE  ReposInv'
  BY <1>1, <1>2, <1>9, ReposOn
<1> USE DEF SessionAt
<1>11. CASE BuildSpec
  <2>1. UNCHANGED <<repos, updated>>
        /\ (Fails("err") \/ Ended(IF Kind = "exec" THEN "bundle" ELSE "user"))
    BY <1>11, BuildSpecIs
  <2>2. CASE Fails("err")
    BY <2>1, <2>2, <1>5, <1>9
  <2>3. CASE Ended(IF Kind = "exec" THEN "bundle" ELSE "user")
    BY <2>1, <2>3, <1>6, <1>9
  <2> QED BY <2>1, <2>2, <2>3
<1>12. CASE Bundle
  <2>1. UNCHANGED <<repos, updated>> /\ at = "bundle" /\ Kind = "exec"
    BY <1>12, BundleIs DEF setupVars, Place
  <2>2. HelmFound /\ Fetches => given.copyRepo /\ given.repoFile = "yes"
    BY <2>1 DEF Fetches, HelmFound
  <2>3. CASE Fails("err")
    BY <2>1, <2>3, <1>5, <1>9
  <2>4. CASE Retry
    BY <2>1, <2>4, <1>7, <1>9
  <2>5. CASE IF given.copyRepo /\ HelmFound THEN Sync ELSE AfterRepos
    BY <2>1, <2>2, <2>5, <1>3, <1>4, <1>9 DEF Established
  <2> QED BY <1>12, <2>3, <2>4, <2>5, BundleIs
<1>13. CASE UserInfo
  <2>1. /\ UNCHANGED <<repos, updated>> /\ at = "user"
        /\ Ended("helm") \/ Fails("err") \/ Retry
    BY <1>13 DEF UserInfo, setupVars
  <2> QED BY <2>1, <1>5, <1>6, <1>7, <1>9
<1>14. CASE HelmVersion
  <2>1. UNCHANGED <<repos, updated>> /\ at = "helm" /\ Kind = "start"
    BY <1>14, HelmVersionIs DEF setupVars, Place
  <2>2. HelmFound /\ Fetches => given.copyRepo /\ given.repoFile = "yes"
    BY <2>1 DEF Fetches, HelmFound
  <2>3. CASE Fails("err")
    BY <2>1, <2>3, <1>5, <1>9
  <2>4. CASE HelmFound /\ given.copyRepo /\ Sync
    BY <2>1, <2>2, <2>4, <1>3, <1>4, <1>9 DEF Established
  <2>5. CASE ToCommand /\ ~(HelmFound /\ given.copyRepo)
    <3>1. at' = "files" /\ out' = out
      BY <2>1, <2>5, <1>8 DEF ToCommand
    <3> QED BY <2>1, <2>2, <2>5, <3>1, <1>9 DEF Established
  <2>6. given.helm = "not found" => ~HelmFound
    BY DEF HelmFound
  <2> QED BY <1>14, <2>3, <2>4, <2>5, <2>6, HelmVersionIs
<1>15. CASE Choose
  <2>1. UNCHANGED <<repos, updated>> /\ at = "choose" /\ Kind = "run"
    BY <1>15 DEF Choose, setupVars, Place
  <2>2. CASE Fails("err")
    BY <2>1, <2>2, <1>5, <1>9
  <2>3. CASE HelmFound /\ given.copyRepo /\ Sync
    <3>1. given.repoFile = "none" => Established
      BY <2>3 DEF Established, Fetches
    <3> QED BY <2>1, <2>3, <3>1, <1>3, <1>4, <1>9
  <2>4. CASE HelmFound /\ ~given.copyRepo /\ Update
    <3>1. at' = "update" /\ out' = out /\ Updating'
      BY <1>1, <2>4, UpdateIs
    <3> QED BY <1>1, <1>2, <2>1, <3>1
            DEF ReposInv, Established, Fetches, UpdatesAll, Kind, HelmFound
  <2>5. CASE /\ AfterRepos
             /\ ~(HelmFound /\ (given.copyRepo \/ given.updateAll \/ given.update # << >>))
    <3>1. Established
      BY <2>5 DEF Established, Fetches
    <3> QED BY <2>1, <2>5, <3>1, <1>3, <1>9
  <2> QED BY <1>15, <2>2, <2>3, <2>4, <2>5 DEF Choose
<1>16. CASE MakeDir
  <2>1. /\ UNCHANGED <<repos, updated>> /\ at = "mkdir"
        /\ Ended("repos") \/ Retry
    BY <1>16 DEF MakeDir, setupVars
  <2> QED BY <2>1, <1>6, <1>7, <1>9
<1>17. CASE CopyRepos
  <2>1. /\ at = "repos" /\ UNCHANGED <<given, updated>> /\ given.copyRepo
        /\ \/ repos' = given.repos /\ Update
           \/ repos' \in {repos, given.repos} /\ Retry
    BY <1>17 DEF CopyRepos, Place
  <2>2. updated' \subseteq repos'
    BY <2>1 DEF TypeOK, ReposInv
  <2>3. Kind = "start" => out = "none"
    BY <2>1 DEF Place
  <2>4. CASE repos' = given.repos /\ Update
    <3>1. at' = "update" /\ out' = out /\ Updating'
      BY <2>1, <2>4, <1>1, UpdateIs
    <3> QED BY <1>1, <2>1, <2>2, <2>3, <3>1 DEF ReposInv, Kind
  <2>5. CASE Retry
    BY <1>1, <1>7, <2>1, <2>2, <2>3, <2>5 DEF ReposInv, Kind
  <2> QED BY <2>1, <2>4, <2>5
<1>18. CASE UpdateRepo
  BY <1>18, UpdatingStep DEF UpdateRepo
<1>19. CASE UpdateEnds
  <2>1. /\ UNCHANGED <<repos, updated>> /\ todo = << >> /\ Updating
        /\ Fails("err") \/ (errs = {} /\ (Ended("note") \/ AfterRepos))
    BY <1>19 DEF UpdateEnds, setupVars, ReposInv
  <2>2. errs = {} => Established
    <3>1. ToSet(<< >>) = {}
      BY DEF ToSet
    <3>2. ~UpdatesAll /\ errs = {} => ToSet(given.update) \subseteq updated
      BY <2>1, <3>1 DEF Updating
    <3>3. UpdatesAll => updated = repos
      <4>1. <<All>> # << >>
        OBVIOUS
      <4> QED BY <2>1, <4>1 DEF Updating
    <3> QED BY <2>1, <3>2, <3>3 DEF Established, Updating
  <2> QED BY <2>1, <2>2, <1>3, <1>5, <1>6, <1>9
<1>20. CASE Note
  <2>1. /\ UNCHANGED <<repos, updated>> /\ at = "note" /\ Established
        /\ Fails("ok") \/ AfterRepos \/ Retry
    BY <1>20 DEF Note, setupVars, ReposInv
  <2>2. CASE Fails("ok")
    BY <1>1, <2>1, <2>2, ReposOn DEF Fails, Return
  <2> QED BY <2>1, <2>2, <1>3, <1>7, <1>9
<1>21. CASE CleanPaths
  <2>1. /\ UNCHANGED <<repos, updated>> /\ at = "clean" /\ Established
        /\ LoopMap("files", Copies) \/ Fails("err")
    BY <1>21 DEF CleanPaths, setupVars, ReposInv
  <2> QED BY <2>1, <1>5, <1>8, <1>9
<1>22. CASE CopyFile
  <2>1. /\ UNCHANGED <<repos, updated>> /\ at = "files" /\ Established
        /\ NextItem \/ Fails("err") \/ Retry
    BY <1>22, Zenon DEF CopyFile, setupVars, ReposInv
  <2> QED BY <2>1, <1>5, <1>7, <1>9 DEF NextItem, NextItemAt
<1>23. CASE FilesEnd
  <2>1. /\ UNCHANGED <<repos, updated>> /\ at = "files" /\ Established
        /\ Ended(IF Kind = "start" THEN "note" ELSE "command")
    BY <1>23 DEF FilesEnd, setupVars, ReposInv
  <2> QED BY <2>1, <1>6, <1>9
<1>24. CASE Command
  <2>1. UNCHANGED <<repos, updated>> /\ Kind # "start" /\ at' \in {"end", "back", "signal"}
    BY <1>24 DEF Command, setupVars, Place, Return, LoopMap, Loop, Goto, Ended, Fails
  <2> QED BY <1>1, <2>1, ReposOn
<1>25. CASE Back \/ Rename
  <2>1. UNCHANGED <<repos, updated>> /\ Kind # "start"
    BY <1>25, BackTurns DEF setupVars, Place
  <2>2. at' \in {"end", "back", "rename"}
    BY <1>25, BackTurns DEF BackFails, RetryThenNextFrom, RetryFrom, Fails, Return
  <2> QED BY <1>1, <2>1, <2>2, ReposOn
<1>26. CASE BackEnds \/ Signal
  <2>1. UNCHANGED <<repos, updated>> /\ Kind # "start" /\ at' \in {"end", "signal"}
    BY <1>26 DEF BackEnds, Signal, setupVars, Place, Return, Goto, Ended, Fails
  <2> QED BY <1>1, <2>1, ReposOn
<1> QED
  BY <1>11, <1>12, <1>13, <1>14, <1>15, <1>16, <1>17, <1>18, <1>19, <1>20, <1>21, <1>22,
     <1>23, <1>24, <1>25, <1>26, NextCases

LEMMA CollectedStep ==
    ASSUME TypeOK, Place, ReposInv, Collected, Next
    PROVE  Collected'
<1>1. given' = given /\ (Command \/ ran' = ran) /\ (UpdateRepo \/ updated' = updated)
  BY Frame
<1>2. Retry => UNCHANGED errs
  BY DEF Retry, RetryFrom, Fails
<1>3. AfterRepos => errs' \in {errs, {}}
  BY DEF AfterRepos, Ended, LoopMap, Loop
<1>4. Sync => errs' \in {errs, {}}
  BY <1>3, SyncIs DEF Fails, Ended
<1>5. /\ \A o : Fails(o) => UNCHANGED errs
      /\ \A k : Ended(k) => UNCHANGED errs
      /\ \A k, S : LoopMap(k, S) => errs' = {}
      /\ Update => errs' = {}
      /\ ToCommand => errs' \in {errs, {}}
  BY DEF Fails, Ended, LoopMap, Loop, Update, ToCommand
<1>6. ASSUME at \notin {"update", "end"}, errs' \in {errs, {}} \/ ran' # "no"
      PROVE  Collected'
  <2>1. ran' # "no" \/ (ran = "no" => errs = {})
    BY <1>6 DEF Collected
  <2>2. CASE ran' # "no"
    BY <2>2 DEF Collected
  <2>3. CASE ran' = "no"
    <3>1. ran = "no" \/ Command
      BY <1>1, <2>3
    <3>2. ran = "no"
      BY <1>1, <2>3, <3>1 DEF Command
    <3> QED BY <1>6, <2>3, <3>2 DEF Collected
  <2> QED BY <2>2, <2>3
<1>7. CASE BuildSpec \/ Bundle \/ UserInfo
  <2>1. CASE BuildSpec
    BY <1>5, <1>6, <2>1, BuildSpecIs
  <2>2. CASE Bundle
    BY <1>2, <1>3, <1>4, <1>5, <1>6, <2>2, BundleIs
  <2>3. CASE UserInfo
    BY <1>2, <1>5, <1>6, <2>3 DEF UserInfo
  <2> QED BY <1>7, <2>1, <2>2, <2>3
<1>8. CASE HelmVersion
  BY <1>4, <1>5, <1>6, <1>8, HelmVersionIs
<1>9. CASE Choose
  BY <1>3, <1>4, <1>5, <1>6, <1>9 DEF Choose
<1>10. CASE MakeDir \/ CopyRepos
  BY <1>2, <1>5, <1>6, <1>10 DEF MakeDir, CopyRepos
<1>11. CASE UpdateRepo
  <2>1. at = "update" /\ Updating /\ (NextItem \/ UpdateFails)
    BY <1>11, Zenon DEF UpdateRepo, ReposInv
  <2>2. CASE NextItem
    BY <2>1, <2>2 DEF NextItem, NextItemAt, Collected
  <2>3. CASE UpdateFails /\ Head(todo) # All
    BY <2>1, <2>3 DEF UpdateFails, RetryThenNext, RetryThenNextFrom, Collected
  <2>4. CASE UpdateFails /\ Head(todo) = All
    <3>1. UpdatesAll
      <4> SUFFICES ASSUME ~UpdatesAll PROVE FALSE
        OBVIOUS
      <4>1. todo \in Seq(STRING \ {All}) /\ todo # << >>
        BY <1>11, <2>1 DEF Updating, UpdateRepo
      <4> QED BY <2>4, <4>1, OneLess
    <3>2. errs' = {}
      BY <1>2, <2>1, <2>4, <3>1 DEF UpdateFails, Updating
    <3> QED BY <3>2 DEF Collected
  <2> QED BY <2>1, <2>2, <2>3, <2>4
<1>12. CASE UpdateEnds
  <2>1. /\ at = "update" /\ Updating /\ todo = << >> /\ UNCHANGED <<updated, ran>>
        /\ \/ errs # {} /\ Fails("err")
           \/ errs = {} /\ (Ended("note") \/ AfterRepos)
    BY <1>12 DEF UpdateEnds, ReposInv, setupVars
  <2>2. CASE errs # {} /\ Fails("err")
    <3>1. at' = "end" /\ errs' = errs
      BY <2>2 DEF Fails, Return
    <3>2. ToSet(given.update) \subseteq updated \cup errs
      <4>1. ToSet(<< >>) = {}
        BY DEF ToSet
      <4> QED BY <2>1, <2>2, <4>1 DEF Updating
    <3> QED BY <1>1, <2>1, <3>1, <3>2 DEF Collected
  <2>3. CASE errs = {} /\ (Ended("note") \/ AfterRepos)
    <3>1. errs' = {}
      BY <1>3, <1>5, <2>3
    <3> QED BY <3>1 DEF Collected
  <2> QED BY <2>1, <2>2, <2>3
<1>13. CASE Note
  BY <1>2, <1>3, <1>5, <1>6, <1>13 DEF Note
<1>14. CASE CleanPaths
  BY <1>5, <1>6, <1>14 DEF CleanPaths
<1>15. CASE CopyFile
  <2>1. at = "files" /\ (Fails("err") \/ NextItem \/ Retry)
    BY <1>15, Zenon DEF CopyFile
  <2> QED BY <1>2, <1>5, <1>6, <2>1 DEF NextItem, NextItemAt
<1>16. CASE FilesEnd
  BY <1>5, <1>6, <1>16 DEF FilesEnd
<1>17. CASE Command
  BY <1>6, <1>17 DEF Command
<1>18. CASE Back \/ Rename
  <2>1. at \in {"back", "rename"} /\ ran' = ran
    BY <1>18, BackTurns
  <2> QED BY <2>1 DEF Place, Collected
<1>19. CASE BackEnds \/ Signal
  <2>1. at \in {"back", "signal"} /\ ran' = ran
    BY <1>19 DEF BackEnds, Signal
  <2> QED BY <2>1 DEF Place, Collected
<1> QED
  BY <1>7, <1>8, <1>9, <1>10, <1>11, <1>12, <1>13, <1>14, <1>15, <1>16, <1>17, <1>18, <1>19,
     NextCases

-----------------------------------------------------------------------------
(* The files that are copied to the pod.                                   *)

(* A loop over a set has all of it to do.                                  *)
LEMMA SetToSeqsIs ==
    ASSUME NEW S, IsFiniteSet(S), NEW s \in SetToSeqs(S)
    PROVE  s \in Seq(S) /\ ToSet(s) = S
<1> DEFINE n == Cardinality(S)
           D == 1..n
<1>1. n \in Nat /\ IsFiniteSet(D) /\ Cardinality(D) = n
  BY FS_CardinalityType, FS_Interval
<1>2. s \in [D -> S] /\ \A i, j \in D : i # j => s[i] # s[j]
  BY DEF SetToSeqs
<1>3. s \in Injection(D, S)
  BY <1>2 DEF Injection, IsInjective
<1>4. s \in Surjection(D, S)
  BY <1>1, <1>3, FS_Injection
<1> HIDE DEF n
<1>5. s \in Seq(S) /\ DOMAIN s = D
  BY <1>1, <1>2
<1>6. \A x \in S : \E i \in D : s[i] = x
  BY <1>4 DEF Surjection
<1> QED BY <1>2, <1>5, <1>6 DEF ToSet

(* For what addToTar can deal with, the archive holds what is asked for.   *)
LEMMA SentIsAsked ==
    ASSUME given \in Givens, NEW c \in Copies, PlainCopy(c)
    PROVE  Sent(c) = Asks(c)
<1> DEFINE s == Clean(c[1])
           d == Clean(c[2])
           t == given.onHost
<1>1. IsTree(t) /\ IsSpelled(c[1]) /\ IsSpelled(c[2]) /\ s # Root
  <2>1. IsGiven(given) /\ IsSpelled(c[1]) /\ IsSpelled(c[2]) /\ s # Root
    BY GivenIs
  <2> QED BY <2>1 DEF IsGiven
<1>2. IsSpelled(s) /\ Clean(s) = s /\ IsSpelled(d) /\ Clean(d) = d
  BY <1>1, CleanSpelled
<1>3. /\ Absolute(d)
      /\ \/ IsFile(t, s)
         \/ /\ s # Here /\ (Kind = "exec" => c[1] = s)
            /\ \A f \in Walked(t, s) : Names(s) \notin SubSeqs(Below(s, f))
  BY DEF PlainCopy, PlainSource
<1> HIDE DEF s, d, t
<1>4. CASE Kind = "exec"
  <2>1. Packed(t, c[1], c[2]) = Wanted(t, c[1], d)
    <3>1. IsFile(t, s) => Packed(t, c[1], c[2]) = Wanted(t, c[1], d)
      BY <1>1, <1>3, PackedIsWanted DEF s, d
    <3>2. ~IsFile(t, s) => Packed(t, c[1], c[2]) = Wanted(t, c[1], d)
      <4> SUFFICES ASSUME ~IsFile(t, s) PROVE Packed(t, c[1], c[2]) = Wanted(t, c[1], d)
        OBVIOUS
      <4>1. c[1] = s
        BY <1>3, <1>4
      <4>2. Packed(t, s, c[2]) = Wanted(t, s, Clean(c[2]))
        BY <1>1, <1>2, <1>3, PackedIsWanted DEF d
      <4> QED BY <4>1, <4>2 DEF d
    <3> QED BY <3>1, <3>2
  <2> QED BY <1>4, <2>1 DEF Sent, Asks, t, d
<1>5. CASE Kind # "exec"
  <2>1. Packed(t, s, d) = Wanted(t, s, d)
    BY <1>1, <1>2, <1>3, PackedIsWanted
  <2>2. Wanted(t, s, d) = Wanted(t, c[1], d)
    <3> DEFINE F(x) == IF IsFile(t, x) THEN {x} ELSE {f \in DOMAIN t : Under(x, f)}
               W(x) == [p \in {d \o Below(x, f) : f \in F(x)} |->
                          t[CHOOSE f \in F(x) : d \o Below(x, f) = p]]
    <3>1. Wanted(t, s, d) = W(Clean(s)) /\ Wanted(t, c[1], d) = W(Clean(c[1]))
      BY DEF Wanted, Moved
    <3> HIDE DEF W
    <3> QED BY <1>2, <3>1 DEF s
  <2> QED BY <1>5, <2>1, <2>2 DEF Sent, Asks, t, d, s
<1> QED BY <1>4, <1>5

Merged(A) == [p \in UNION {DOMAIN a : a \in A} |-> (CHOOSE a \in A : p \in DOMAIN a)[p]]

LEMMA ArrivalsAre ==
    ASSUME given \in Givens, NEW c \in Copies
    PROVE  /\ DOMAIN Sent(c) \subseteq DOMAIN Arrivals(Copies)
           /\ PlainCopy(c) /\ Undisputed(c) => Holds(Arrivals(Copies), Asks(c))
<1> DEFINE A == {Sent(o) : o \in Copies}
<1>1. Arrivals(Copies) = Merged(A) /\ Sent(c) \in A
  BY DEF Arrivals, Merged
<1>2. ASSUME PlainCopy(c), Undisputed(c), NEW p \in DOMAIN Asks(c)
      PROVE  p \in DOMAIN Merged(A) /\ Merged(A)[p] = Asks(c)[p]
  <2>1. Sent(c) = Asks(c)
    BY <1>2, SentIsAsked
  <2>2. ASSUME NEW a \in A, p \in DOMAIN a PROVE a = Asks(c)
    <3>1. PICK o \in Copies : a = Sent(o)
      OBVIOUS
    <3>2. CASE o = c
      BY <2>1, <3>1, <3>2
    <3>3. CASE o # c
      <4>1. PlainCopy(o) /\ DOMAIN Asks(o) \cap DOMAIN Asks(c) = {}
        BY <1>2, <3>3 DEF Undisputed
      <4>2. a = Asks(o)
        BY <3>1, <4>1, SentIsAsked
      <4> QED BY <1>2, <2>2, <4>1, <4>2
    <3> QED BY <3>2, <3>3
  <2>3. Asks(c) \in A
    BY <1>1, <2>1
  <2> HIDE DEF A
  <2>4. (CHOOSE a \in A : p \in DOMAIN a) = Asks(c)
    BY <1>2, <2>2, <2>3
  <2>5. p \in UNION {DOMAIN a : a \in A}
    BY <1>2, <2>3
  <2> QED BY <2>4, <2>5 DEF Merged
<1> HIDE DEF A
<1>3. DOMAIN Sent(c) \subseteq DOMAIN Merged(A)
  BY <1>1 DEF Merged
<1> QED BY <1>1, <1>2, <1>3 DEF Holds, IsFile

LEMMA PutHolds ==
    ASSUME NEW t, NEW u, NEW v
    PROVE  /\ DOMAIN Put(t, u) = DOMAIN t \cup DOMAIN u
           /\ Holds(u, v) => Holds(Put(t, u), v)
           /\ Holds(t, v) /\ DOMAIN u \cap DOMAIN v = {} => Holds(Put(t, u), v)
BY DEF Put, Holds, IsFile

LEMMA InPlaceNext ==
    ASSUME given' = given, NEW c
    PROVE  /\ (PlainCopy(c) /\ Undisputed(c) => Holds(pod', Asks(c))) => InPlace(c)'
           /\ pod' = pod /\ InPlace(c) => InPlace(c)'
           /\ Arrivals(Copies)' = Arrivals(Copies)
<1> USE DEF Kind
<1>1. \A o : PlainCopy(o)' <=> PlainCopy(o)
  BY DEF PlainCopy, PlainSource
<1>2. \A o : Asks(o)' = Asks(o)
  BY DEF Asks
<1>3. Undisputed(c)' <=> Undisputed(c)
  BY <1>1, <1>2 DEF Undisputed
<1>4. Arrived(c)' <=> Holds(pod', Asks(c))
  BY <1>2 DEF Arrived
<1>5. InPlace(c)' <=> (PlainCopy(c)' /\ Undisputed(c)' => Arrived(c)')
  BY DEF InPlace
<1>6. Arrivals(Copies)' = Arrivals(Copies)
  <2>1. \A o : Sent(o)' = Sent(o)
    BY DEF Sent
  <2>2. {Sent(o) : o \in Copies}' = {Sent(o) : o \in Copies}
    BY <2>1
  <2>3. Arrivals(Copies) = Merged({Sent(o) : o \in Copies})
    BY DEF Arrivals, Merged
  <2>4. Arrivals(Copies)' = Merged({Sent(o) : o \in Copies}')
    BY DEF Arrivals, Merged
  <2> QED BY <2>2, <2>3, <2>4
<1> QED BY <1>1, <1>3, <1>4, <1>5, <1>6 DEF InPlace, Arrived

CopiesInv == SweptInv /\ FilesInv

LEMMA CopiesElse ==
    ASSUME given' = given, at' \notin {"files", "command"},
           Kind = "exec" /\ at' \in {"mkdir", "repos", "update"} =>
             \A c \in Copies : InPlace(c)',
           Kind = "start" /\ (at' = "note" \/ out' = "ok") => \A c \in Copies : InPlace(c)'
    PROVE  CopiesInv'
BY DEF CopiesInv, SweptInv, FilesInv, Kind

LEMMA CopiesCommand ==
    ASSUME given' = given, at' = "command", Kind = "start" => out' # "ok",
           given.files # << >> => Swept',
           Kind # "start" => \A c \in Copies : InPlace(c)'
    PROVE  CopiesInv'
BY DEF CopiesInv, SweptInv, FilesInv, Kind

LEMMA CopiesBegin ==
    ASSUME given \in Givens, given' = given, at' = "files", Kind # "exec",
           Kind = "start" => out' # "ok", todo' \in SetToSeqs(Copies),
           given.files # << >> => Swept'
    PROVE  CopiesInv'
<1>1. todo' \in Seq(Copies) /\ ToSet(todo') = Copies
  BY GivenIs, SetToSeqsIs
<1> QED BY <1>1 DEF CopiesInv, SweptInv, FilesInv, Kind

LEMMA CopiesAfter ==
    ASSUME given \in Givens, given' = given, AfterRepos, out # "ok",
           Kind = "exec" => \A c \in Copies : InPlace(c)'
    PROVE  CopiesInv'
<1>1. IsGiven(given) /\ (given.clean # {} => Kind = "run")
  BY GivenIs DEF Kind
<1>2. given.clean = {} => Swept'
  BY DEF Swept
<1>3. out' = out
  BY AfterReposIs
<1>4. CASE at' = "command"
  <2>1. Kind = "exec" \/ (Kind = "run" /\ given.files = << >> /\ Copies = {})
    BY <1>4, AfterReposIs DEF AsMap
  <2> QED BY <1>1, <1>2, <1>3, <1>4, <2>1, CopiesCommand
<1>5. CASE at' = "clean"
  <2>1. Kind = "run"
    BY <1>5, AfterReposIs
  <2> QED BY <1>5, <2>1, CopiesElse
<1>6. CASE at' = "files"
  <2>1. Kind # "exec" /\ given.clean = {} /\ todo' \in SetToSeqs(Copies)
    BY <1>6, AfterReposIs
  <2> QED BY <1>2, <1>3, <1>6, <2>1, CopiesBegin
<1> QED BY <1>4, <1>5, <1>6, AfterReposIs

(* One source more in the pod, or a part of it.                            *)
LEMMA CopyFileStep ==
    ASSUME TypeOK, Place, CopiesInv, CopyFile
    PROVE  CopiesInv'
<1>0. PICK c : c = Head(todo)
  OBVIOUS
<1> DEFINE new == Sent(c)
<1>1. /\ at = "files" /\ todo # << >> /\ UNCHANGED <<given, host, ran>>
      /\ \/ Fails("err")
         \/ pod' = Put(pod, new) /\ NextItem
         \/ Retry /\ \E S \in SUBSET DOMAIN new : pod' = Put(pod, Restrict(new, S))
  BY <1>0, Zenon DEF CopyFile
<1>2. /\ todo \in Seq(Copies) /\ given \in Givens /\ out # "ok" /\ given' = given
      /\ given.files # << >> => Swept
      /\ \A o \in Copies : InPlace(o) \/ o \in ToSet(todo)
  BY <1>1 DEF CopiesInv, SweptInv, FilesInv, TypeOK, Place
<1>3. c \in Copies /\ Tail(todo) \in Seq(Copies)
      /\ ToSet(todo) \subseteq ToSet(Tail(todo)) \cup {c}
  BY <1>0, <1>1, <1>2, OneLess
<1>4. CASE Fails("err")
  <2>1. at' = "end" /\ out' = "err"
    BY <1>4 DEF Fails, Return
  <2> QED BY <1>2, <2>1, CopiesElse
<1>5. ASSUME NEW u, DOMAIN u \subseteq DOMAIN new, pod' = Put(pod, u)
      PROVE  /\ Swept => Swept'
             /\ \A o \in Copies \ {c} : InPlace(o) => InPlace(o)'
  <2>1. DOMAIN pod' \subseteq DOMAIN pod \cup DOMAIN Arrivals(Copies)
    <3>1. DOMAIN new \subseteq DOMAIN Arrivals(Copies)
      BY <1>2, <1>3, ArrivalsAre
    <3>2. DOMAIN pod' = DOMAIN pod \cup DOMAIN u
      BY <1>5, PutHolds
    <3> HIDE DEF new
    <3> QED BY <1>5, <3>1, <3>2
  <2>2. Arrivals(Copies)' = Arrivals(Copies)
    BY <1>2, InPlaceNext
  <2>3. Swept => Swept'
    BY <1>2, <2>1, <2>2 DEF Swept
  <2>4. ASSUME NEW o \in Copies \ {c}, InPlace(o), PlainCopy(o), Undisputed(o)
        PROVE  Holds(pod', Asks(o))
    <3>1. PlainCopy(c) /\ DOMAIN Asks(c) \cap DOMAIN Asks(o) = {}
      BY <1>3, <2>4 DEF Undisputed
    <3>2. Sent(c) = Asks(c)
      BY <1>2, <1>3, <3>1, SentIsAsked
    <3>3. DOMAIN u \cap DOMAIN Asks(o) = {}
      BY <1>5, <3>1, <3>2
    <3>4. Holds(pod, Asks(o))
      BY <2>4 DEF InPlace, Arrived
    <3> QED BY <1>5, <3>3, <3>4, PutHolds
  <2> QED BY <1>2, <2>3, <2>4, InPlaceNext
<1> HIDE DEF new
<1>6. CASE pod' = Put(pod, new) /\ NextItem
  <2>1. at' = at /\ todo' = Tail(todo) /\ out' = out
    BY <1>6 DEF NextItem, NextItemAt
  <2>2. InPlace(c)'
    <3>1. ASSUME PlainCopy(c), Undisputed(c) PROVE Holds(pod', Asks(c))
      <4>1. new = Asks(c)
        BY <1>2, <1>3, <3>1, SentIsAsked DEF new
      <4>2. Holds(new, Asks(c))
        BY <4>1 DEF Holds, IsFile
      <4> QED BY <1>6, <4>2, PutHolds
    <3> QED BY <1>2, <3>1, InPlaceNext
  <2>3. /\ Swept => Swept'
        /\ \A o \in Copies \ {c} : InPlace(o) => InPlace(o)'
    BY <1>5, <1>6
  <2>4. \A o \in Copies : InPlace(o)' \/ o \in ToSet(todo')
    BY <1>2, <1>3, <2>1, <2>2, <2>3
  <2> QED BY <1>1, <1>2, <1>3, <2>1, <2>3, <2>4
          DEF CopiesInv, SweptInv, FilesInv, Kind, Place
<1>7. CASE Retry /\ \E S \in SUBSET DOMAIN new : pod' = Put(pod, Restrict(new, S))
  <2>1. PICK S \in SUBSET DOMAIN new : pod' = Put(pod, Restrict(new, S))
    BY <1>7
  <2>2. DOMAIN Restrict(new, S) \subseteq DOMAIN new
    BY DEF Restrict
  <2>3. /\ Swept => Swept'
        /\ \A o \in Copies \ {c} : InPlace(o) => InPlace(o)'
    BY <1>5, <2>1, <2>2
  <2>4. (at' = at /\ todo' = todo /\ out' = out) \/ (at' = "end" /\ out' = "err")
    BY <1>7 DEF Retry, RetryFrom, Fails, Return
  <2>5. CASE at' = "end" /\ out' = "err"
    BY <1>2, <2>5, CopiesElse
  <2>6. CASE at' = at /\ todo' = todo /\ out' = out
    <3>1. c \in ToSet(todo)
      BY <1>0, <1>1, <1>2, OneLess
    <3>2. \A o \in Copies : InPlace(o)' \/ o \in ToSet(todo')
      BY <1>2, <2>3, <2>6, <3>1
    <3> QED BY <1>1, <1>2, <2>3, <2>6, <3>2
            DEF CopiesInv, SweptInv, FilesInv, Kind, Place
  <2> QED BY <2>4, <2>5, <2>6
<1> QED BY <1>1, <1>4, <1>6, <1>7 DEF new

LEMMA CopiesStep ==
    ASSUME TypeOK, Place, CopiesInv, Next
    PROVE  CopiesInv'
<1>1. /\ given' = given /\ given \in Givens
      /\ given.kind \in {"exec", "start", "run"} /\ (given.clean # {} => given.kind = "run")
      /\ Bundle \/ CleanPaths \/ CopyFile \/ Command \/ pod' = pod
  BY GivenIs, Frame DEF TypeOK
<1>2. out \in {"none", "ok", "code", "err"} /\ (at # "end" => out = "none")
  BY DEF TypeOK, Place
<1>3. ASSUME NEW o, Fails(o) PROVE at' = "end" /\ out' = o
  BY <1>3 DEF Fails, Return
<1>4. ASSUME NEW l, Ended(l) PROVE at' = l /\ out' = out
  BY <1>4 DEF Ended, Goto
<1>5. ASSUME NEW l, NEW S, LoopMap(l, S) PROVE at' = l /\ out' = out /\ todo' \in SetToSeqs(S)
  BY <1>5 DEF LoopMap, Loop, Goto
<1>6. Retry => (at' = at /\ out' = out) \/ (at' = "end" /\ out' = "err")
  BY DEF Retry, RetryFrom, Fails, Return
<1>27. Sync => \/ AfterRepos
               \/ at' = "mkdir" /\ out' = out
               \/ at' = "end" /\ out' = "err"
  BY SyncIs DEF Ended, Goto, Fails, Return
<1>7. Kind = "exec" /\ at \in {"mkdir", "repos", "update", "command"} =>
        \A c \in Copies : InPlace(c)
  BY DEF CopiesInv, FilesInv
<1>8. pod' = pod => \A c : InPlace(c) => InPlace(c)'
  BY <1>1, InPlaceNext
<1>9. ASSUME at' = "end", out' # "ok" PROVE CopiesInv'
  BY <1>1, <1>9, CopiesElse
<1>10. given.clean = {} => Swept'
  BY <1>1 DEF Swept
<1>11. CASE BuildSpec
  <2>1. Fails("err") \/ Ended(IF Kind = "exec" THEN "bundle" ELSE "user")
    BY <1>11, BuildSpecIs
  <2>2. at # "end"
    BY <1>11 DEF BuildSpec
  <2> QED BY <1>1, <1>2, <1>3, <1>4, <2>1, <2>2, CopiesElse
<1>12. CASE Bundle
  <2>1. at = "bundle" /\ Kind = "exec" /\ out = "none"
    BY <1>2, <1>12, BundleIs DEF Place
  <2>2. CASE Fails("err")
    BY <1>3, <1>9, <2>2
  <2>3. CASE Retry
    BY <1>1, <1>2, <1>6, <1>9, <2>1, <2>3, CopiesElse
  <2>4. CASE /\ pod' = Put(pod, Arrivals(Copies))
             /\ IF given.copyRepo /\ HelmFound THEN Sync ELSE AfterRepos
    <3>1. ASSUME NEW c \in Copies PROVE InPlace(c)'
      <4>1. PlainCopy(c) /\ Undisputed(c) => Holds(Arrivals(Copies), Asks(c))
        BY <1>1, ArrivalsAre
      <4>2. PlainCopy(c) /\ Undisputed(c) => Holds(pod', Asks(c))
        BY <2>4, <4>1, PutHolds
      <4> QED BY <1>1, <4>2, InPlaceNext
    <3>2. AfterRepos \/ (at' = "mkdir" /\ out' = out) \/ (at' = "end" /\ out' = "err")
      BY <1>27, <2>4
    <3> QED BY <1>1, <1>9, <2>1, <3>1, <3>2, CopiesAfter, CopiesElse
  <2> QED BY <1>12, <2>2, <2>3, <2>4, BundleIs
<1>13. CASE UserInfo
  <2>1. at = "user" /\ (Ended("helm") \/ Fails("err") \/ Retry)
    BY <1>13 DEF UserInfo
  <2> QED BY <1>1, <1>2, <1>3, <1>4, <1>6, <1>9, <2>1, CopiesElse
<1>14. CASE HelmVersion
  <2>1. at = "helm" /\ Kind = "start" /\ out = "none" /\ given.clean = {}
    BY <1>1, <1>2, <1>14, HelmVersionIs DEF Place, Kind
  <2>2. CASE Fails("err")
    BY <1>3, <1>9, <2>2
  <2>3. CASE Sync
    <3>1. AfterRepos \/ (at' = "mkdir" /\ out' = out) \/ (at' = "end" /\ out' = "err")
      BY <1>27, <2>3
    <3> QED BY <1>1, <1>9, <2>1, <3>1, CopiesAfter, CopiesElse
  <2>4. CASE ToCommand
    <3>1. at' = "files" /\ out' = out /\ todo' \in SetToSeqs(Copies)
      BY <1>5, <2>1, <2>4 DEF ToCommand
    <3> QED BY <1>1, <1>10, <2>1, <3>1, CopiesBegin
  <2> QED BY <1>14, <2>2, <2>3, <2>4, HelmVersionIs
<1>15. CASE Choose
  <2>1. /\ at = "choose" /\ Kind = "run" /\ out = "none"
        /\ Fails("err") \/ Sync \/ Update \/ AfterRepos
    BY <1>2, <1>15 DEF Choose, Place
  <2>2. Update => at' = "update" /\ out' = out
    BY DEF Update, Loop, Goto
  <2> QED BY <1>1, <1>3, <1>9, <1>27, <2>1, <2>2, CopiesAfter, CopiesElse
<1>16. CASE MakeDir
  <2>1. at = "mkdir" /\ out = "none" /\ (Ended("repos") \/ Retry) /\ pod' = pod
    BY <1>2, <1>16 DEF MakeDir
  <2>2. at' = "end" \/ (at' \in {"mkdir", "repos"} /\ out' = out)
    BY <1>4, <1>6, <2>1
  <2> QED BY <1>1, <1>4, <1>6, <1>7, <1>8, <1>9, <2>1, <2>2, CopiesElse
<1>17. CASE CopyRepos
  <2>1. at = "repos" /\ out = "none" /\ (Update \/ Retry) /\ pod' = pod
    BY <1>2, <1>17 DEF CopyRepos
  <2>2. Update => at' = "update" /\ out' = out
    BY DEF Update, Loop, Goto
  <2> QED BY <1>1, <1>6, <1>7, <1>8, <1>9, <2>1, <2>2, CopiesElse
<1>18. CASE UpdateRepo
  <2>1. at = "update" /\ out = "none" /\ (NextItem \/ UpdateFails) /\ pod' = pod
    BY <1>2, <1>18, Zenon DEF UpdateRepo
  <2>2. (at' = at /\ out' = out) \/ (at' = "end" /\ out' = "err")
    BY <1>6, <2>1 DEF NextItem, NextItemAt, UpdateFails, RetryThenNext, RetryThenNextFrom
  <2> QED BY <1>1, <1>7, <1>8, <1>9, <2>1, <2>2, CopiesElse
<1>19. CASE UpdateEnds
  <2>1. /\ at = "update" /\ out = "none" /\ pod' = pod
        /\ Fails("err") \/ (Kind = "run" /\ Ended("note")) \/ AfterRepos
    BY <1>2, <1>19 DEF UpdateEnds
  <2>2. CASE Fails("err")
    BY <1>3, <1>9, <2>2
  <2>3. CASE Kind = "run" /\ Ended("note")
    BY <1>1, <1>4, <2>3, CopiesElse
  <2>4. CASE AfterRepos
    BY <1>1, <1>7, <1>8, <2>1, <2>4, CopiesAfter
  <2> QED BY <2>1, <2>2, <2>3, <2>4
<1>20. CASE Note
  <2>1. /\ at = "note" /\ out = "none" /\ pod' = pod
        /\ \/ Kind = "start" /\ Fails("ok")
           \/ Kind # "start" /\ AfterRepos
           \/ Retry
    BY <1>2, <1>20 DEF Note
  <2>2. Kind = "start" => \A c \in Copies : InPlace(c)'
    BY <1>8, <2>1 DEF CopiesInv, FilesInv
  <2>3. Kind # "exec"
    BY <2>1 DEF Place
  <2>4. CASE Kind = "start" /\ Fails("ok")
    BY <1>1, <1>3, <2>2, <2>4, CopiesElse
  <2>5. CASE Kind # "start" /\ AfterRepos
    BY <1>1, <2>1, <2>3, <2>5, CopiesAfter
  <2>6. CASE Retry
    BY <1>1, <1>6, <1>9, <2>1, <2>2, <2>3, <2>6, CopiesElse
  <2> QED BY <2>1, <2>4, <2>5, <2>6
<1>21. CASE CleanPaths
  <2>1. /\ at = "clean" /\ out = "none" /\ Kind = "run"
        /\ \/ pod' = Cleaned /\ LoopMap("files", Copies)
           \/ Fails("err")
    <3>1. /\ at = "clean"
          /\ \/ pod' = Cleaned /\ LoopMap("files", Copies)
             \/ Fails("err")
      BY <1>21, Zenon DEF CleanPaths
    <3> QED BY <1>2, <3>1 DEF Place
  <2>2. CASE Fails("err")
    BY <1>3, <1>9, <2>2
  <2>3. CASE pod' = Cleaned /\ LoopMap("files", Copies)
    <3>1. Swept'
      <4>1. DOMAIN pod' = {p \in DOMAIN pod : \A d \in given.clean : ~IsPrefix(d, p)}
        BY <2>3 DEF Cleaned, Restrict
      <4> QED BY <1>1, <4>1 DEF Swept
    <3> QED BY <1>1, <1>5, <2>1, <2>3, <3>1, CopiesBegin
  <2> QED BY <2>1, <2>2, <2>3
<1>22. CASE CopyFile
  BY <1>22, CopyFileStep
<1>23. CASE FilesEnd
  <2>1. /\ at = "files" /\ todo = << >> /\ out = "none" /\ pod' = pod /\ Kind # "exec"
        /\ Ended(IF Kind = "start" THEN "note" ELSE "command")
    BY <1>2, <1>23 DEF FilesEnd, Place
  <2>2. \A c \in Copies : InPlace(c)'
    <3>1. ToSet(<< >>) = {}
      BY DEF ToSet
    <3> QED BY <1>8, <2>1, <3>1 DEF CopiesInv, FilesInv
  <2>3. given.files # << >> => Swept'
    BY <1>1, <2>1, InPlaceNext DEF CopiesInv, SweptInv, Swept
  <2>4. CASE Kind = "start"
    BY <1>1, <1>4, <2>1, <2>2, <2>4, CopiesElse
  <2>5. CASE Kind # "start"
    BY <1>1, <1>4, <2>1, <2>2, <2>3, <2>5, CopiesCommand
  <2> QED BY <2>4, <2>5
<1>24. CASE Command
  <2>1. Kind # "start" /\ at' \in {"end", "back", "signal"}
    BY <1>24 DEF Command, setupVars, Place, Return, LoopMap, Loop, Goto, Ended, Fails
  <2> QED BY <1>1, <2>1, CopiesElse
<1>25. CASE Back \/ Rename
  <2>1. Kind # "start"
    BY <1>25, BackTurns DEF Place
  <2>2. at' \in {"end", "back", "rename"}
    BY <1>25, BackTurns DEF BackFails, RetryThenNextFrom, RetryFrom, Fails, Return
  <2> QED BY <1>1, <2>1, <2>2, CopiesElse
<1>26. CASE BackEnds \/ Signal
  <2>1. Kind # "start" /\ at' \in {"end", "signal"}
    BY <1>26 DEF BackEnds, Signal, Place, Return, Goto, Ended, Fails
  <2> QED BY <1>1, <2>1, CopiesElse
<1> QED
  BY <1>11, <1>12, <1>13, <1>14, <1>15, <1>16, <1>17, <1>18, <1>19, <1>20, <1>21, <1>22,
     <1>23, <1>24, <1>25, <1>26, NextCases

-----------------------------------------------------------------------------
(* The theorems.                                                           *)

SessionInv == TypeOK /\ Place /\ SpecInv /\ ReposInv /\ Collected /\ CopiesInv

LEMMA SessionInit ==
    Init => SessionInv
<1> SUFFICES ASSUME Init PROVE SessionInv
  OBVIOUS
<1>1. /\ given \in Givens /\ given.kind \in {"exec", "start", "run"}
      /\ at = IF given.kind = "run" THEN "choose" ELSE "spec"
      /\ tries = 0 /\ faults = 0 /\ spec = NoSpec /\ updated = {} /\ ran = "no" /\ out = "none"
      /\ errs = {}
      /\ repos \in {{}, given.repos}
  BY GivenIs DEF Init
<1>2. TypeOK
  BY <1>1, SessionConstants DEF TypeOK, SessionAt
<1>3. Place /\ SpecInv /\ ReposInv /\ Collected /\ CopiesInv
  BY <1>1 DEF Place, SpecInv, ReposInv, Collected, CopiesInv, SweptInv, FilesInv, Kind
<1> QED BY <1>2, <1>3 DEF SessionInv

LEMMA SessionStep ==
    SessionInv /\ [Next]_vars => SessionInv'
<1> SUFFICES ASSUME SessionInv, [Next]_vars PROVE SessionInv'
  OBVIOUS
<1>1. CASE Next
  BY <1>1, PlaceStep, SpecStep, ReposStep, CollectedStep, CopiesStep DEF SessionInv
<1>2. CASE UNCHANGED vars
  <2>1. /\ given' = given /\ at' = at /\ tries' = tries /\ todo' = todo /\ errs' = errs
        /\ spec' = spec /\ repos' = repos /\ updated' = updated /\ pod' = pod /\ host' = host
        /\ ran' = ran /\ out' = out /\ faults' = faults
    BY <1>2, Zenon DEF vars, setupVars
  <2>2. TypeOK' /\ Place' /\ SpecInv'
    BY <2>1 DEF SessionInv, TypeOK, Place, SpecInv, Kind, HelmFound
  <2>3. ReposInv' /\ Collected'
    BY <2>1 DEF SessionInv, ReposInv, Collected, Established, Updating, Fetches, UpdatesAll, Kind,
                HelmFound
  <2>4. CopiesInv'
    BY <2>1, InPlaceNext DEF SessionInv, CopiesInv, SweptInv, FilesInv, Swept, Kind
  <2> QED BY <2>2, <2>3, <2>4 DEF SessionInv
<1> QED BY <1>1, <1>2

LEMMA SessionInvHolds ==
    Spec => []SessionInv
BY SessionInit, SessionStep, PTL DEF Spec

(* The state of RunE is well-formed: the current Retry has attempts left,  *)
(* and what is in repositories.yaml or fetched comes from the host.        *)
THEOREM SessionTypes ==
    Spec => []TypeOK
<1>1. SessionInv => TypeOK
  BY DEF SessionInv
<1> QED BY <1>1, SessionInvHolds, PTL

(* For any of the six resource flags: no request above its limit unless    *)
(* the user gave both (flags.go:53-69).                                    *)
THEOREM SessionRequestsFit ==
    Spec => []RequestsFit
<1>1. SessionInv => RequestsFit
  BY SpecFits DEF SessionInv, TypeOK
<1> QED BY <1>1, SessionInvHolds, PTL

(* For any --env and --subst-env: the script gets the TIMEOUT that exec    *)
(* computed, WAIT_COPY_DONE with --copy-from, and without it only if the   *)
(* user sets it (spec.go:98-122).                                          *)
THEOREM SessionScriptParameters ==
    Spec => []ScriptParameters
<1>1. SessionInv => ScriptParameters
  BY SpecSetsParameters DEF SessionInv, TypeOK
<1> QED BY <1>1, SessionInvHolds, PTL

(* For any --update-repo and any failing calls: the command starts, and    *)
(* daemon start reports success, with the repositories that were asked     *)
(* for, and a repository that fails does not keep the others from being    *)
(* tried (executor.go:80-167, daemon_exec.go:47-74).                       *)
THEOREM SessionReposReady ==
    Spec => []ReposReady
<1>1. SessionInv => ReposReady
  BY DEF SessionInv, ReposReady, Ready, ReposInv, Established, Collected
<1> QED BY <1>1, SessionInvHolds, PTL

(* For any tree in the pod and any --clean: the command finds below the    *)
(* cleaned paths only what was copied (executor.go:170-189).               *)
THEOREM SessionNothingStale ==
    Spec => []NothingStale
<1>1. SessionInv => NothingStale
  <2> SUFFICES ASSUME SessionInv, Ready, given.files # << >>, NEW d \in given.clean
               PROVE  \A p \in DOMAIN pod : IsPrefix(d, p) => p \in DOMAIN Arrivals(Copies)
    BY DEF NothingStale
  <2>1. Kind = "run"
    BY GivenIs DEF SessionInv, TypeOK, Kind
  <2>2. at = "command"
    BY <2>1 DEF Ready
  <2>3. Swept
    BY <2>2 DEF SessionInv, CopiesInv, SweptInv
  <2> QED BY <2>3 DEF Swept
<1> QED BY <1>1, SessionInvHolds, PTL

(* For any trees, any list of --copy and any failing calls: the command    *)
(* starts, and daemon start reports success, with the last --copy of every *)
(* source in place (exec.go:47-59, executor.go:180-189, pod.go:277-376).   *)
THEOREM SessionFilesReady ==
    Spec => []FilesReady
<1>1. SessionInv => FilesReady
  <2> SUFFICES ASSUME SessionInv, Ready, NEW c \in Copies, PlainCopy(c), Undisputed(c)
               PROVE  Arrived(c)
    BY DEF FilesReady
  <2>1. Kind \in {"exec", "start", "run"}
    BY GivenIs DEF SessionInv, TypeOK, Kind
  <2>2. InPlace(c)
    BY <2>1 DEF Ready, SessionInv, CopiesInv, FilesInv
  <2> QED BY <2>2 DEF InPlace
<1> QED BY <1>1, SessionInvHolds, PTL

================================================================================
