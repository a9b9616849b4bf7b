------------------------------ MODULE Archives ------------------------------
(***************************************************************************)
(* How files travel between host and pod: the archive that helmtar packs   *)
(* for "tar zxf - -C /" in the pod, and the archive of a tar in the pod    *)
(* that extractTarGz unpacks on the host.                                  *)
(*                                                                         *)
(* A path is the sequence of its names, after "/" if it is absolute; "."   *)
(* is a name of its own, and ".." is not used.  A name either equals       *)
(* another or has nothing in common with it: what the code does to a name  *)
(* that is part of a longer one it does here to equal names only.  A tree  *)
(* is a function from the clean paths of files to their contents; the      *)
(* directories are those that hold a file.                                 *)
(***************************************************************************)
EXTENDS Naturals, Sequences, SequencesExt

Here == <<".">>
Root == <<"/">>

CONSTANT Name     \* the names of files

ASSUME NameAssumption == {".", "/"} \subseteq Name

Path == Seq(Name)

(* A path as one can write it; the path of a file as it stands in a tree.  *)
IsSpelled(p) == p \in Path /\ p # << >> /\ \A i \in DOMAIN p : i > 1 => p[i] # "/"
IsPath(p) == IsSpelled(p) /\ \A i \in DOMAIN p : p[i] # "."
IsTree(t) == \A p \in DOMAIN t : IsPath(p)

(* strings.ReplaceAll on names, from left to right.                        *)
(* (ReplaceAllSubSeqs of SequencesExt enumerates too much for TLC.)        *)
Replacing(old, new) ==
    LET rest[p \in Path] ==
          IF p = << >> THEN << >>
          ELSE IF IsPrefix(old, p) THEN new \o rest[SubSeq(p, Len(old) + 1, Len(p))]
          ELSE <<Head(p)>> \o rest[Tail(p)]
    IN rest

ReplaceIn(path, old, new) == Replacing(old, new)[path]
Without(path, name) == ReplaceIn(path, <<name>>, << >>)

(* filepath.Clean, Join, Dir and Base; Dir and Base of clean paths.        *)
Clean(p) == LET q == Without(p, ".") IN IF q = << >> THEN Here ELSE q
Join(d, p) == Clean(d \o p)
Dir(p) == IF Len(p) > 1 THEN Front(p) ELSE IF p[1] = "/" THEN p ELSE Here
Base(p) == Last(p)

Absolute(p) == p[1] = "/"
Under(d, p) == IF d = Here THEN ~Absolute(p) ELSE IsStrictPrefix(d, p)
Below(d, p) == IF d = Here THEN p ELSE SubSeq(p, Len(d) + 1, Len(p))
IsFile(t, p) == p \in DOMAIN t
IsDir(t, p) == p \in {Here, Root} \/ \E f \in DOMAIN t : Under(p, f)

(* t after the files of u were written to it.                              *)
Put(t, u) ==
    [p \in DOMAIN t \cup DOMAIN u |-> IF p \in DOMAIN u THEN u[p] ELSE t[p]]
Holds(t, u) == \A p \in DOMAIN u : IsFile(t, p) /\ t[p] = u[p]

(* The content that the files F of t have after each moved to To(f).       *)
Moved(t, F, To(_)) == [p \in {To(f) : f \in F} |-> t[CHOOSE f \in F : To(f) = p]]

-----------------------------------------------------------------------------
(* Host to pod: addToTar, and tar in the pod.                              *)

(* "/" is the separator, wherever it stands.                               *)
Names(p) == Without(p, "/")

(* filepath.Walk starts with the path as it was given and joins the names  *)
(* of what it finds to it, which cleans them.                              *)
Walked(t, src) ==
    IF IsFile(t, Clean(src)) THEN {src} ELSE {f \in DOMAIN t : Under(Clean(src), f)}

(* The name in the archive: every occurrence of the source in the path of  *)
(* the file is replaced.                                                   *)
EntryName(src, dest, file, isDir) ==
    LET name == ReplaceIn(Names(file), Names(src), Names(dest))
    IN IF isDir /\ \A i \in 1..Len(name) : name[i] # Base(file)
       THEN Append(name, Base(file)) ELSE name

(* tar in the pod unpacks at "/".                                          *)
InPod(name) == Root \o Without(name, ".")

(* The files that the archive of src brings to the pod.                    *)
Packed(t, src, dest) ==
    LET To(f) == InPod(EntryName(src, dest, f, ~IsFile(t, Clean(src))))
    IN [p \in {To(f) : f \in Walked(t, src)} |->
          t[Clean(CHOOSE f \in Walked(t, src) : To(f) = p)]]

(* What it should bring: the file as dest, or the directory as dest.       *)
Wanted(t, src, dest) ==
    LET s == Clean(src)
        To(f) == dest \o Below(s, f)
    IN Moved(t, IF IsFile(t, s) THEN {s} ELSE {f \in DOMAIN t : Under(s, f)}, To)

-----------------------------------------------------------------------------
(* Pod to host: CopyFileFromPod.                                           *)

(* tar in the pod: the file under its base name, or "." of the directory.  *)
Tarred(t, p, isFile) ==
    LET Rel(f) == Here \o Below(p, f)
    IN IF isFile THEN [n \in {<<Base(p)>>} |-> t[p]]
       ELSE Moved(t, {f \in DOMAIN t : Under(p, f)}, Rel)

(* Mutation: the contents of a directory land beside the target.           *)
ExtractDirBeside(h, hostPath, isFile) == IF IsDir(h, hostPath) THEN hostPath ELSE Dir(hostPath)

(* A directory is unpacked at the target; so is a file if the target is a  *)
(* directory.  Otherwise the target is the name of the file.               *)
ExtractDir(h, hostPath, isFile) ==
    IF isFile /\ ~IsDir(h, hostPath) THEN Dir(hostPath) ELSE hostPath

(* extractTarGz refuses a target whose text does not begin with that of    *)
(* the directory; MkdirAll and OpenFile fail on what is in their way.      *)
Unpacked(u, d) ==
    [p \in {Join(d, n) : n \in DOMAIN u} |-> u[CHOOSE n \in DOMAIN u : Join(d, n) = p]]

Blocked(h, u, d) ==
    {p \in DOMAIN Unpacked(u, d) :
        \/ ~IsPrefix(Clean(d), p)
        \/ IsDir(h, p)
        \/ \E f \in DOMAIN h : IsStrictPrefix(f, p)}

(* A write that fails has opened and cut the file: it holds a part of what *)
(* it should.  What an extraction leaves that ends with an error: some of  *)
(* the files, one of them perhaps cut.                                     *)
Cut == "cut"
PartsOf(u, files) ==
    {[p \in S |-> IF p = c THEN Cut ELSE u[p]] : S \in SUBSET files, c \in files \cup {Here}}

(* A file whose target is not a directory is unpacked under its own name,  *)
(* beside the target, and then renamed if the two names differ.            *)
Landing(podPath, hostPath) == Join(Dir(hostPath), <<Base(podPath)>>)
NeedsRename(h, podPath, hostPath, isFile) ==
    isFile /\ ~IsDir(h, hostPath) /\ Base(podPath) # Base(hostPath)

(* os.Rename.                                                              *)
Renamed(h, from, to) == [p \in (DOMAIN h \ {from}) \cup {to} |-> IF p = to THEN h[from] ELSE h[p]]

(* What should be on the host: a file in the directory or as the target,   *)
(* the contents of a directory in the target (pod.go:387-393).             *)
Expected(t, h, podPath, hostPath) ==
    LET To(f) == Join(hostPath, Below(podPath, f))
    IN IF ~IsFile(t, podPath) THEN Moved(t, {f \in DOMAIN t : Under(podPath, f)}, To)
       ELSE [p \in {IF IsDir(h, hostPath) THEN Join(hostPath, <<Base(podPath)>>) ELSE hostPath} |->
               t[podPath]]

(* The host files that such a copy writes, if only until the rename.       *)
Touched(t, h, podPath, hostPath) ==
    LET isFile == IsFile(t, podPath)
    IN DOMAIN Expected(t, h, podPath, hostPath)
         \cup DOMAIN Unpacked(Tarred(t, podPath, isFile), ExtractDir(h, hostPath, isFile))

=============================================================================
