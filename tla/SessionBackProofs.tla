-------------------------- MODULE SessionBackProofs --------------------------
(***************************************************************************)
(* What is proved of the files that Session brings back from the pod, for  *)
(* any invocation, any trees and any number of failing calls: success      *)
(* means that they are on the host, no other file of the host is written,  *)
(* and one mapping that fails costs exec neither the others nor the exit   *)
(* code of the command.                                                    *)
(***************************************************************************)
EXTENDS SessionProofs

USE DEF Copies, Backs, BacksParse

(* No file in the pod has "." in its path.                                 *)
PodDotless == IsDotless(pod)

(* What the copies may have made of the files of the host.                 *)
Faithful(H) ==
    AllApart =>
        /\ \A q \in DOMAIN H :
              q \in DOMAIN given.onHost \/ \E m \in Backs : q \in TouchedBy(m)
        /\ \A q \in DOMAIN given.onHost :
              (\A m \in Backs : q \notin TouchedBy(m)) =>
                  q \in DOMAIN H /\ H[q] = given.onHost[q]
        /\ \A q : Dotless(q) /\ IsDir(given.onHost, q) => IsDir(H, q)

(* The host is as it was until the way back.                               *)
HostInv ==
    /\ at \notin {"back", "rename", "signal", "end"} => host = given.onHost
    /\ Faithful(host)

(* A mapping is on the host, and nothing beside it.                        *)
IsBack(m) == Brought(host, Asked(m), TouchedBy(m))

(* What the loop over the mappings has dealt with is there or failed.      *)
Returning ==
    /\ todo \in Seq(Backs)
    /\ Kind = "run" => errs = {}
    /\ AllApart => \A m \in Backs : m \in ToSet(todo) \/ m \in errs \/ IsBack(m)

(* The file of a mapping is beside its target.                             *)
Waits(H, m) == Landed(H, pod, given.onHost, Clean(m[1]), Clean(m[2]))
Renaming == todo # << >> /\ (AllApart => Waits(host, Head(todo)))

BackInv ==
    /\ at \in {"back", "rename"} => Returning
    /\ at = "rename" => Renaming
    /\ at = "signal" /\ BacksParse /\ AllApart => \A m \in Backs \ errs : IsBack(m)
    /\ out = "ok" /\ Kind # "start" /\ AllApart => \A m \in Backs : IsBack(m)
    /\ at = "end" /\ Kind = "exec" /\ ran \notin {"no", "ok"} => out = ran

-----------------------------------------------------------------------------
(* The files in the pod.                                                   *)

LEMMA InPodDotless ==
    ASSUME NEW n \in Path
    PROVE  Dotless(InPod(n))
<1> DEFINE w == Without(n, ".")
<1>1. /\ "." \in Name /\ Root \in Path /\ Len(Root) = 1 /\ Root[1] = "/" /\ "/" # "."
  BY DotAndSlash
<1>2. w \in Path /\ \A i \in 1..Len(w) : w[i] # "."
  BY <1>1, WithoutDef, WithoutNames
<1> HIDE DEF w
<1>3. Root \o << >> = Root
  BY <1>1, PathParts
<1>4. Dotless(Root)
  BY <1>1, DotAndSlash DEF Dotless
<1>5. CASE w = << >>
  BY <1>3, <1>4, <1>5 DEF InPod, w
<1>6. CASE w # << >>
  <2>1. Dotless(w)
    BY <1>2, <1>6 DEF Dotless
  <2>2. Dotless(Root \o w)
    BY <1>1, <1>2, <1>4, <2>1, JoinIs
  <2> QED BY <2>2 DEF InPod, w
<1> QED BY <1>5, <1>6

LEMMA PackedDotless ==
    ASSUME NEW t, IsTree(t), NEW src, IsSpelled(src), Clean(src) # Root,
           NEW dest, IsSpelled(dest)
    PROVE  IsDotless(Packed(t, src, dest))
<1> DEFINE dir == ~IsFile(t, Clean(src))
           To(f) == InPod(EntryName(src, dest, f, dir))
<1>1. ASSUME NEW f \in Walked(t, src) PROVE IsSpelled(f)
  BY <1>1 DEF Walked, IsTree, IsPath
<1>2. ASSUME NEW f \in Walked(t, src) PROVE EntryName(src, dest, f, dir) \in Path
  <2> DEFINE name == ReplaceIn(Names(f), Names(src), Names(dest))
  <2>1. /\ f \in Path /\ f # << >> /\ Names(f) \in Path /\ Names(src) \in Path
        /\ Names(dest) \in Path /\ Names(src) # << >>
    BY <1>1, NamesIs, NamesNotEmpty DEF IsSpelled
  <2>2. name \in Path
    BY <2>1, ReplacingDef DEF ReplaceIn
  <2>3. Base(f) \in Name
    <3>1. Len(f) \in Nat \ {0}
      BY <2>1, EmptySeq DEF Path
    <3>2. Len(f) \in 1..Len(f)
      BY <3>1
    <3> QED BY <2>1, <3>1, <3>2 DEF Path, Base, Last
  <2> HIDE DEF name, dir, Base
  <2>4. Append(name, Base(f)) \in Path
    BY <2>2, <2>3 DEF Path
  <2> QED BY <2>2, <2>4 DEF EntryName, name
<1>3. DOMAIN Packed(t, src, dest) = {To(f) : f \in Walked(t, src)}
  BY DEF Packed
<1>4. \A f \in Walked(t, src) : Dotless(To(f))
  <2> HIDE DEF dir
  <2> QED BY <1>2, InPodDotless
<1> HIDE DEF To
<1> QED BY <1>3, <1>4 DEF IsDotless

LEMMA SentDotless ==
    ASSUME given \in Givens, NEW c \in Copies
    PROVE  IsDotless(Sent(c))
<1>1. IsTree(given.onHost) /\ IsSpelled(c[1]) /\ IsSpelled(c[2]) /\ Clean(c[1]) # Root
  <2>1. IsGiven(given) /\ IsSpelled(c[1]) /\ IsSpelled(c[2]) /\ Clean(c[1]) # Root
    BY GivenIs
  <2> QED BY <2>1 DEF IsGiven
<1>2. /\ IsSpelled(Clean(c[1])) /\ Clean(Clean(c[1])) = Clean(c[1])
      /\ IsSpelled(Clean(c[2]))
  BY <1>1, CleanSpelled
<1>3. IsDotless(Packed(given.onHost, c[1], c[2]))
  BY <1>1, PackedDotless
<1>4. IsDotless(Packed(given.onHost, Clean(c[1]), Clean(c[2])))
  BY <1>1, <1>2, PackedDotless
<1> QED BY <1>3, <1>4 DEF Sent

LEMMA PodStep ==
    ASSUME SessionInv, PodDotless, Next
    PROVE  PodDotless'
<1>1. given \in Givens /\ IsDotless(Results)
  BY GivensAssumption, PathIsClean DEF SessionInv, TypeOK, IsTree, IsDotless
<1>2. ASSUME NEW f \in DOMAIN Arrivals(Copies) PROVE Dotless(f)
  <2>1. PICK c \in Copies : f \in DOMAIN Sent(c)
    BY DEF Arrivals
  <2> QED BY <1>1, <2>1, SentDotless DEF IsDotless
<1>3. ASSUME NEW u, \A f \in DOMAIN u : Dotless(f), NEW S \in SUBSET DOMAIN u
      PROVE  /\ pod' = Put(pod, u) => PodDotless'
             /\ pod' = Put(pod, Restrict(u, S)) => PodDotless'
  <2>1. DOMAIN Restrict(u, S) = S
    BY DEF Restrict
  <2>2. /\ DOMAIN Put(pod, u) = DOMAIN pod \cup DOMAIN u
        /\ DOMAIN Put(pod, Restrict(u, S)) = DOMAIN pod \cup S
    BY <2>1, PutHolds
  <2> HIDE DEF IsDotless
  <2> QED BY <1>3, <2>2 DEF PodDotless, IsDotless
<1>4. CASE Bundle
  <2>1. \/ pod' = pod \/ pod' = Put(pod, Arrivals(Copies))
        \/ \E S \in SUBSET DOMAIN Arrivals(Copies) :
              pod' = Put(pod, Restrict(Arrivals(Copies), S))
    BY <1>4, Zenon DEF Bundle
  <2> QED BY <1>2, <1>3, <2>1 DEF PodDotless
<1>5. CASE CleanPaths
  <2>1. pod' = pod \/ pod' = Cleaned
    BY <1>5, Zenon DEF CleanPaths
  <2>2. DOMAIN Cleaned \subseteq DOMAIN pod
    BY DEF Cleaned, Restrict
  <2> QED BY <2>1, <2>2 DEF PodDotless, IsDotless
<1>6. CASE CopyFile
  <2> DEFINE new == Sent(Head(todo))
  <2>1. /\ at = "files" /\ todo # << >>
        /\ \/ pod' = pod \/ pod' = Put(pod, new)
           \/ \E S \in SUBSET DOMAIN new : pod' = Put(pod, Restrict(new, S))
    BY <1>6, Zenon DEF CopyFile
  <2>2. Head(todo) \in Copies
    BY <2>1, OneLess DEF SessionInv, CopiesInv, SweptInv
  <2>3. \A f \in DOMAIN new : Dotless(f)
    BY <1>1, <2>2, SentDotless DEF IsDotless
  <2> HIDE DEF new
  <2> QED BY <1>3, <2>1, <2>3 DEF PodDotless
<1>7. CASE Command
  <2>1. pod' = pod \/ pod' = Put(pod, Results)
    BY <1>7, Zenon DEF Command
  <2> QED BY <1>1, <1>3, <2>1 DEF PodDotless, IsDotless
<1>8. CASE pod' = pod
  BY <1>8 DEF PodDotless
<1> QED BY <1>4, <1>5, <1>6, <1>7, <1>8, Frame

-----------------------------------------------------------------------------
(* What is asked for stays the same on the way back.                       *)

LEMMA AskedNext ==
    ASSUME given' = given, pod' = pod
    PROVE  /\ AllApart' <=> AllApart
           /\ \A m : Asked(m)' = Asked(m) /\ TouchedBy(m)' = TouchedBy(m)
           /\ \A m : IsBack(m)' <=> Brought(host', Asked(m), TouchedBy(m))
           /\ host' = host => \A m : IsBack(m)' <=> IsBack(m)
           /\ Faithful(host') => Faithful(host)'
<1>1. \A m : Asked(m)' = Asked(m)
  BY DEF Asked
<1>2. \A m : TouchedBy(m)' = TouchedBy(m)
  BY DEF TouchedBy
<1>3. AllApart' <=> AllApart
  BY <1>2 DEF AllApart
<1>4. \A m : IsBack(m)' <=> Brought(host', Asked(m), TouchedBy(m))
  BY <1>1, <1>2 DEF IsBack
<1>5. Faithful(host') => Faithful(host)'
  BY <1>1, <1>2, <1>3 DEF Faithful
<1> QED BY <1>1, <1>2, <1>3, <1>4, <1>5 DEF IsBack

LEMMA FaithfulAtFirst ==
    Faithful(given.onHost)
BY DEF Faithful

LEMMA MappingIs ==
    ASSUME given \in Givens, NEW m \in Backs
    PROVE  CleanDir(Clean(m[1])) /\ CleanDir(Clean(m[2]))
<1>1. IsSpelled(m[1]) /\ IsSpelled(m[2])
  BY GivenIs
<1> QED BY <1>1, CleanSpelled DEF CleanDir

LEMMA AskedPaths ==
    ASSUME given \in Givens, PodDotless, NEW m \in Backs, NEW q \in DOMAIN Asked(m)
    PROVE  q \in Path /\ IsPrefix(q, q) /\ q \in TouchedBy(m)
<1> DEFINE p == Clean(m[1])
           h == Clean(m[2])
<1>1. CleanDir(p) /\ CleanDir(h) /\ IsDotless(pod)
  BY MappingIs DEF PodDotless
<1>2. h \in Path
  BY <1>1, DotAndSlash DEF CleanDir, Dotless
<1> HIDE DEF p, h
<1>3. q \in Path
  <2>1. CASE IsFile(pod, p)
    <3>1. Dotless(p)
      BY <1>1, <2>1 DEF IsFile, IsDotless
    <3>2. DOMAIN Asked(m) = {IF IsDir(given.onHost, h) THEN Join(h, <<Base(p)>>) ELSE h}
      BY <2>1 DEF Asked, Expected, p, h
    <3>3. Dotless(Join(h, <<Base(p)>>))
      <4>1. Dotless(<<Base(p)>>)
        BY <3>1, BaseIs
      <4> QED BY <1>1, <4>1, JoinOne
    <3> QED BY <1>2, <3>2, <3>3 DEF Dotless
  <2>2. CASE ~IsFile(pod, p)
    <3>1. DOMAIN Asked(m) = {Join(h, Below(p, f)) : f \in {g \in DOMAIN pod : Under(p, g)}}
      BY <2>2 DEF Asked, Expected, Moved, p, h
    <3>2. PICK f \in DOMAIN pod : Under(p, f) /\ q = Join(h, Below(p, f))
      BY <3>1
    <3>3. Dotless(Below(p, f))
      BY <1>1, <3>2, BelowIs DEF IsDotless
    <3>4. Dotless(Join(h, Below(p, f)))
      BY <1>1, <3>3, JoinOne
    <3> QED BY <3>2, <3>4 DEF Dotless
  <2> QED BY <2>1, <2>2
<1>4. IsPrefix(q, q)
  BY <1>3, PathParts, PrefixDef
<1>5. q \in TouchedBy(m)
  BY DEF TouchedBy, Touched, Asked
<1> QED BY <1>3, <1>4, <1>5

LEMMA TouchedPaths ==
    ASSUME given \in Givens, PodDotless, NEW m \in Backs, NEW q \in TouchedBy(m)
    PROVE  q \in Path /\ IsPrefix(q, q)
<1> DEFINE p == Clean(m[1])
           h == Clean(m[2])
           d == ExtractDir(given.onHost, h, IsFile(pod, p))
<1>1. CleanDir(p) /\ CleanDir(h) /\ IsDotless(pod)
  BY MappingIs DEF PodDotless
<1>2. q \in DOMAIN Asked(m) \/ q \in DOMAIN Unpacked(Tarred(pod, p, IsFile(pod, p)), d)
  BY DEF TouchedBy, Touched, Asked
<1> HIDE DEF p, h
<1>3. CASE q \in DOMAIN Asked(m)
  BY <1>3, AskedPaths
<1>4. CASE IsFile(pod, p) /\ q \in DOMAIN Unpacked(Tarred(pod, p, IsFile(pod, p)), d)
  <2>1. IsFile(pod, p) = TRUE
    BY <1>4 DEF IsFile
  <2>2. q = Join(d, <<Base(p)>>)
    <3>1. DOMAIN Unpacked(Tarred(pod, p, TRUE), d) = {Join(d, <<Base(p)>>)}
      BY UnpackedFile
    <3> QED BY <1>4, <2>1, <3>1
  <2>3. Dotless(<<Base(p)>>) /\ Base(p) \in Name
    <3>1. Dotless(p)
      BY <1>1, <1>4 DEF IsFile, IsDotless
    <3> QED BY <3>1, BaseIs
  <2>4. CleanDir(d)
    <3>1. CASE IsDir(given.onHost, h)
      BY <1>1, <3>1 DEF ExtractDir
    <3>2. CASE ~IsDir(given.onHost, h)
      <4>1. Dotless(h) /\ h # Root /\ d = Dir(h)
        BY <1>1, <2>1, <3>2 DEF IsDir, CleanDir, ExtractDir
      <4> QED BY <2>3, <4>1, DirIs DEF CleanDir
    <3> QED BY <3>1, <3>2
  <2> HIDE DEF d
  <2>5. Dotless(q)
    BY <2>2, <2>3, <2>4, JoinOne
  <2>6. q \in Path
    BY <2>5 DEF Dotless
  <2> QED BY <2>6, PathParts, PrefixDef
<1>5. CASE ~IsFile(pod, p) /\ q \in DOMAIN Unpacked(Tarred(pod, p, IsFile(pod, p)), d)
  <2>1. IsFile(pod, p) = FALSE
    BY <1>5 DEF IsFile
  <2>2. Unpacked(Tarred(pod, p, FALSE), h) = Asked(m)
    BY <1>1, <1>5, UnpackedDir DEF Asked, p, h
  <2> QED BY <1>3, <1>5, <2>1, <2>2 DEF ExtractDir
<1> QED BY <1>2, <1>3, <1>4, <1>5

(* A copy of one mapping leaves what another one has brought.              *)
LEMMA OthersStay ==
    ASSUME given \in Givens, PodDotless, AllApart, NEW m \in Backs, NEW n \in Backs,
           m # n, NEW H, NEW G, Writes(H, G, TouchedBy(m)),
           Brought(H, Asked(n), TouchedBy(n))
    PROVE  Brought(G, Asked(n), TouchedBy(n))
<1>1. ASSUME NEW q \in TouchedBy(n) PROVE q \notin TouchedBy(m)
  BY TouchedPaths DEF AllApart, Apart
<1>2. ASSUME NEW q \in DOMAIN Asked(n) PROVE q \in DOMAIN G /\ G[q] = Asked(n)[q]
  <2>1. q \in DOMAIN H /\ H[q] = Asked(n)[q]
    BY DEF Brought, Holds, IsFile
  <2>2. q \notin TouchedBy(m)
    BY <1>1, AskedPaths
  <2> QED BY <2>1, <2>2 DEF Writes
<1>3. ASSUME NEW q \in DOMAIN G, q \in TouchedBy(n) \ DOMAIN Asked(n) PROVE FALSE
  <2>1. q \in DOMAIN H
    BY <1>1, <1>3 DEF Writes
  <2> QED BY <1>3, <2>1 DEF Brought
<1> QED BY <1>2, <1>3 DEF Brought, Holds, IsFile

LEMMA StaysFaithful ==
    ASSUME NEW m \in Backs, NEW H, NEW G, Faithful(H), AllApart => Writes(H, G, TouchedBy(m))
    PROVE  Faithful(G)
<1> SUFFICES ASSUME AllApart PROVE Faithful(G)
  BY DEF Faithful
<1>1. /\ DOMAIN G \subseteq DOMAIN H \cup TouchedBy(m)
      /\ \A q \in DOMAIN H \ TouchedBy(m) : q \in DOMAIN G /\ G[q] = H[q]
      /\ \A q : Dotless(q) /\ IsDir(H, q) => IsDir(G, q)
  BY DEF Writes
<1> QED BY <1>1 DEF Faithful

(* The target of a file is a directory of the host if it was one before.   *)
LEMMA SameDirectory ==
    ASSUME given \in Givens, PodDotless, AllApart, Faithful(host), NEW m \in Backs,
           IsFile(pod, Clean(m[1]))
    PROVE  IsDir(host, Clean(m[2])) <=> IsDir(given.onHost, Clean(m[2]))
<1> DEFINE h == Clean(m[2])
<1>1. CleanDir(h)
  BY MappingIs
<1>2. ASSUME IsDir(given.onHost, h) PROVE IsDir(host, h)
  <2>1. CASE h = Here
    BY <2>1 DEF IsDir
  <2>2. CASE Dotless(h)
    BY <1>2, <2>2 DEF Faithful
  <2> QED BY <1>1, <2>1, <2>2 DEF CleanDir
<1>3. ASSUME ~IsDir(given.onHost, h), IsDir(host, h) PROVE FALSE
  <2>1. h # Here /\ h # Root
    BY <1>3 DEF IsDir
  <2>2. DOMAIN Asked(m) = {h}
    BY <1>3 DEF Asked, Expected
  <2>3. h \in TouchedBy(m)
    BY <2>2 DEF TouchedBy, Touched, Asked
  <2> HIDE DEF h
  <2>4. PICK f \in DOMAIN host : IsStrictPrefix(h, f)
    BY <1>3, <2>1 DEF IsDir, Under
  <2>5. f \notin DOMAIN given.onHost
    BY <1>3, <2>1, <2>4 DEF IsDir, Under
  <2>6. PICK n \in Backs : f \in TouchedBy(n)
    BY <2>4, <2>5 DEF Faithful
  <2>7. n # m
    <3> DEFINE p == Clean(m[1])
    <3>1. CleanDir(p) /\ IsDotless(pod) /\ IsFile(pod, p)
      BY MappingIs DEF PodDotless
    <3>2. TouchedBy(m) = Touched(pod, given.onHost, p, h)
      BY DEF TouchedBy, h
    <3> HIDE DEF p
    <3>3. f \notin Touched(pod, given.onHost, p, h)
      BY <1>1, <1>3, <2>4, <3>1, NotBelow
    <3> QED BY <2>6, <3>2, <3>3
  <2> QED BY <2>3, <2>4, <2>6, <2>7 DEF AllApart, Apart, IsStrictPrefix
<1> QED BY <1>2, <1>3

-----------------------------------------------------------------------------
(* One attempt to bring a mapping back.                                    *)

LEMMA BackIs ==
    ASSUME Back, NEW m, m = Head(todo)
    PROVE  LET p == Clean(m[1])
               h == Clean(m[2])
               f == IsFile(pod, p)
               d == ExtractDir(host, h, f)
               u == Unpacked(Tarred(pod, p, f), d)
               B == Blocked(host, Tarred(pod, p, f), d)
           IN /\ at = "back" /\ todo # << >>
              /\ given' = given /\ pod' = pod /\ ran' = ran
              /\ \/ /\ B = {} /\ host' = Put(host, u)
                    /\ IF NeedsRename(host', p, h, f)
                       THEN at' = "rename" /\ UNCHANGED <<tries, todo, errs, out>>
                       ELSE NextItem
                 \/ BackFails /\ \E S \in SUBSET (DOMAIN u \ B) : host' = Put(host, Restrict(u, S))
                 \/ BackFails /\ \E v \in PartsOf(u, DOMAIN u \ B) : host' = Put(host, v)
                 \/ BackFails /\ host' = host
BY Zenon DEF Back

(* The mapping is in the loop: extracted, brought, or to be tried again.   *)
Attempt(m) ==
    /\ given' = given /\ pod' = pod /\ ran' = ran
    /\ \/ /\ at' = "rename" /\ UNCHANGED <<tries, todo, errs, out>>
          /\ AllApart => Waits(host', m)
       \/ /\ NextItemAt("back")
          /\ AllApart => Brought(host', Asked(m), TouchedBy(m))
       \/ BackFails
    /\ AllApart => host' = host \/ Writes(host, host', TouchedBy(m))

LEMMA BackAttempt ==
    ASSUME given \in Givens, PodDotless, Faithful(host), Back, NEW m \in Backs, m = Head(todo)
    PROVE  Attempt(m)
<1> DEFINE p == Clean(m[1])
           h == Clean(m[2])
           f == IsFile(pod, p)
           d == ExtractDir(host, h, f)
           u == Unpacked(Tarred(pod, p, f), d)
           B == Blocked(host, Tarred(pod, p, f), d)
           E == Expected(pod, given.onHost, p, h)
           T == Touched(pod, given.onHost, p, h)
           G == Put(host, u)
           More == at' = "rename" /\ UNCHANGED <<tries, todo, errs, out>>
<1>1. /\ at = "back" /\ given' = given /\ pod' = pod /\ ran' = ran
      /\ \/ /\ B = {} /\ host' = G
            /\ IF NeedsRename(G, p, h, f) THEN More ELSE NextItem
         \/ BackFails /\ \E S \in SUBSET (DOMAIN u \ B) : host' = Put(host, Restrict(u, S))
         \/ BackFails /\ \E v \in PartsOf(u, DOMAIN u \ B) : host' = Put(host, v)
         \/ BackFails /\ host' = host
  BY BackIs
<1>2. ASSUME AllApart
      PROVE  /\ \A v : DOMAIN v \subseteq DOMAIN u => Writes(host, Put(host, v), T)
             /\ B = {} => IF NeedsRename(G, p, h, f) THEN Landed(G, pod, given.onHost, p, h)
                          ELSE Brought(G, E, T)
  <2>1. CleanDir(p) /\ CleanDir(h) /\ IsDotless(pod)
    BY MappingIs DEF PodDotless
  <2>2. IsFile(pod, p) => (IsDir(host, h) <=> IsDir(given.onHost, h))
    BY <1>2, SameDirectory
  <2> HIDE DEF p, h
  <2> QED BY <2>1, <2>2, CopyBrings, Zenon
<1>3. /\ \A S \in SUBSET (DOMAIN u \ B) : DOMAIN Restrict(u, S) \subseteq DOMAIN u
      /\ \A v \in PartsOf(u, DOMAIN u \ B) : DOMAIN v \subseteq DOMAIN u
  BY DEF Restrict, PartsOf
<1>4. /\ Asked(m) = E /\ TouchedBy(m) = T
      /\ \A H : Waits(H, m) <=> Landed(H, pod, given.onHost, p, h)
  BY DEF Asked, TouchedBy, Waits
<1>5. NextItem => NextItemAt("back")
  BY <1>1 DEF NextItem
<1> HIDE DEF p, h, f, d, u, B, E, T
<1>6. AllApart => host' = host \/ Writes(host, host', T)
  <2> SUFFICES ASSUME AllApart PROVE host' = host \/ \E v : DOMAIN v \subseteq DOMAIN u
                                                            /\ host' = Put(host, v)
    BY <1>2
  <2> QED BY <1>1, <1>3
<1>7. \/ More /\ (AllApart => Landed(host', pod, given.onHost, p, h))
      \/ NextItem /\ (AllApart => Brought(host', E, T))
      \/ BackFails
  BY <1>1, <1>2
<1> HIDE DEF G
<1> QED BY <1>1, <1>4, <1>5, <1>6, <1>7 DEF Attempt

LEMMA RenameAttempt ==
    ASSUME given \in Givens, PodDotless, Rename, NEW m \in Backs, m = Head(todo),
           AllApart => Waits(host, m)
    PROVE  Attempt(m)
<1> DEFINE p == Clean(m[1])
           h == Clean(m[2])
           E == Expected(pod, given.onHost, p, h)
           T == Touched(pod, given.onHost, p, h)
           G == Renamed(host, Landing(p, h), h)
<1>1. /\ given' = given /\ pod' = pod /\ ran' = ran
      /\ \/ host' = G /\ NextItemAt("back")
         \/ host' = host /\ BackFails
  BY Zenon DEF Rename
<1>2. AllApart => Brought(G, E, T) /\ Writes(host, G, T)
  <2> SUFFICES ASSUME AllApart PROVE Brought(G, E, T) /\ Writes(host, G, T)
    OBVIOUS
  <2>1. CleanDir(p) /\ CleanDir(h) /\ IsDotless(pod)
    BY MappingIs DEF PodDotless
  <2>2. Landed(host, pod, given.onHost, p, h)
    BY DEF Waits
  <2> HIDE DEF p, h
  <2> QED BY <2>1, <2>2, FileRenamed
<1>3. Asked(m) = E /\ TouchedBy(m) = T
  BY DEF Asked, TouchedBy
<1> HIDE DEF p, h, E, T, G
<1> QED BY <1>1, <1>2, <1>3 DEF Attempt

LEMMA BackStep ==
    ASSUME given \in Givens, Kind \in {"exec", "run"}, PodDotless, Faithful(host),
           out # "ok", Returning, at = "rename" => Renaming, Back \/ Rename
    PROVE  /\ Faithful(host)' /\ at' \in {"back", "rename", "end"}
           /\ at' \in {"back", "rename"} => Returning' /\ out' = out
           /\ at' = "rename" => Renaming'
           /\ at' = "end" => Kind = "run" /\ out' = "err"
<1>0. PICK m : m = Head(todo)
  OBVIOUS
<1>1. todo # << >> /\ (Back \/ (Rename /\ (AllApart => Waits(host, m))))
  <2>1. Back => todo # << >>
    BY Zenon DEF Back
  <2>2. Rename => at = "rename"
    BY Zenon DEF Rename
  <2> QED BY <1>0, <2>1, <2>2 DEF Renaming
<1>2. /\ m \in Backs /\ Tail(todo) \in Seq(Backs)
      /\ ToSet(todo) \subseteq ToSet(Tail(todo)) \cup {m} /\ m \in ToSet(todo)
  BY <1>0, <1>1, OneLess DEF Returning
<1>3. Attempt(m)
  BY <1>0, <1>1, <1>2, BackAttempt, RenameAttempt
<1>4. Faithful(host)'
  <2>1. Faithful(host')
    BY <1>2, <1>3, StaysFaithful DEF Faithful, Attempt
  <2> QED BY <1>3, <2>1, AskedNext DEF Attempt
<1>5. AllApart => \A n \in Backs \ {m} : IsBack(n) => IsBack(n)'
  <2> SUFFICES ASSUME AllApart, NEW n \in Backs \ {m}, IsBack(n) PROVE IsBack(n)'
    OBVIOUS
  <2>1. Brought(host', Asked(n), TouchedBy(n))
    BY <1>2, <1>3, OthersStay DEF IsBack, Attempt
  <2> QED BY <1>3, <2>1, AskedNext DEF Attempt
<1>6. ASSUME /\ todo' \in Seq(Backs)
             /\ Kind = "run" => errs' = {}
             /\ errs \subseteq errs'
             /\ AllApart => /\ m \in ToSet(todo') \/ m \in errs' \/ IsBack(m)'
                            /\ \A n \in ToSet(todo) \ {m} : n \in ToSet(todo')
      PROVE  Returning'
  <2>1. AllApart => \A n \in Backs : n \in ToSet(todo') \/ n \in errs' \/ IsBack(n)'
    BY <1>5, <1>6 DEF Returning
  <2>2. (AllApart' <=> AllApart) /\ given' = given
    BY <1>3, AskedNext DEF Attempt
  <2> QED BY <1>6, <2>1, <2>2 DEF Returning, Kind
<1>7. CASE NextItemAt("back") /\ (AllApart => Brought(host', Asked(m), TouchedBy(m)))
  <2>1. at' = "back" /\ todo' = Tail(todo) /\ errs' = errs /\ out' = out
    BY <1>7 DEF NextItemAt
  <2>2. AllApart => IsBack(m)'
    BY <1>3, <1>7, AskedNext DEF Attempt
  <2> QED BY <1>2, <1>4, <1>6, <2>1, <2>2 DEF Returning
<1>8. CASE BackFails /\ Kind = "exec"
  <2>1. /\ at' = "back" /\ out' = out
        /\ \/ todo' = todo /\ errs' = errs
           \/ todo' = Tail(todo) /\ errs' = errs \cup {m}
    BY <1>0, <1>8 DEF BackFails, RetryThenNextFrom
  <2> QED BY <1>2, <1>4, <1>6, <1>8, <2>1 DEF Returning
<1>9. CASE BackFails /\ Kind # "exec"
  <2>1. \/ at' = "back" /\ out' = out /\ todo' = todo /\ errs' = errs
        \/ at' = "end" /\ out' = "err"
    BY <1>9 DEF BackFails, RetryFrom, Fails, Return
  <2> QED BY <1>2, <1>4, <1>6, <1>9, <2>1 DEF Returning
<1>10. CASE /\ at' = "rename" /\ UNCHANGED <<tries, todo, errs, out>>
            /\ AllApart => Waits(host', m)
  <2>1. /\ todo' = todo /\ errs' = errs /\ out' = out /\ given' = given /\ pod' = pod
        /\ AllApart' <=> AllApart
    BY <1>3, <1>10, AskedNext DEF Attempt
  <2>2. Returning'
    BY <1>2, <1>6, <2>1 DEF Returning
  <2>3. Renaming'
    BY <1>0, <1>1, <1>10, <2>1 DEF Renaming, Waits
  <2> QED BY <1>4, <1>10, <2>1, <2>2, <2>3
<1> QED BY <1>3, <1>7, <1>8, <1>9, <1>10 DEF Attempt

-----------------------------------------------------------------------------
(* The other steps.                                                        *)

LEMMA BeforeBack ==
    ASSUME Next, ~(Back \/ Rename \/ BackEnds \/ Signal)
    PROVE  at \notin {"back", "rename", "signal", "end"} /\ host' = host
<1>1. \/ at \in {"spec", "bundle", "user", "helm", "choose"}
      \/ at \in {"mkdir", "repos", "update", "note", "clean", "files", "command"}
  <2>1. BuildSpec \/ Bundle \/ UserInfo \/ HelmVersion \/ Choose =>
          at = "spec" \/ at = "bundle" \/ at = "user" \/ at = "helm" \/ at = "choose"
    BY Zenon DEF BuildSpec, Bundle, UserInfo, HelmVersion, Choose
  <2>2. MakeDir \/ CopyRepos \/ UpdateRepo \/ UpdateEnds \/ Note =>
          at = "mkdir" \/ at = "repos" \/ at = "update" \/ at = "note"
    BY Zenon DEF MakeDir, CopyRepos, UpdateRepo, UpdateEnds, Note
  <2>3. CleanPaths \/ CopyFile \/ FilesEnd \/ Command =>
          at = "clean" \/ at = "files" \/ at = "command"
    BY Zenon DEF CleanPaths, CopyFile, FilesEnd, Command
  <2> QED BY <2>1, <2>2, <2>3, NextCases
<1> QED BY <1>1, Frame

(* Only daemon start can succeed before the command.                       *)
LEMMA OutStep ==
    ASSUME TypeOK, Place, Next, out' = "ok", ~(Command \/ Back \/ Rename \/ BackEnds \/ Signal)
    PROVE  Kind = "start"
<1>1. out # "ok"
  BY BeforeBack DEF Place, TypeOK
<1>2. \A o : Fails(o) => out' = o
  BY DEF Fails, Return
<1>3. \A l : Ended(l) => out' = out
  BY DEF Ended, Goto
<1>4. \A l, S : LoopMap(l, S) => out' = out
  BY DEF LoopMap, Loop, Goto
<1>5. Retry => out' = out \/ out' = "err"
  BY <1>2 DEF Retry, RetryFrom
<1>6. AfterRepos => out' = out
  BY AfterReposIs DEF TypeOK
<1>7. Sync => out' = out \/ out' = "err"
  BY <1>2, <1>3, <1>6, SyncIs
<1>8. Update => out' = out
  BY DEF Update, Loop, Goto
<1>9. UpdateFails \/ NextItem => out' = out \/ out' = "err"
  BY <1>5 DEF UpdateFails, RetryThenNext, RetryThenNextFrom, NextItem, NextItemAt
<1>10. ToCommand => out' = out
  BY <1>3, <1>4 DEF ToCommand
<1>11. CASE BuildSpec
  BY <1>1, <1>2, <1>3, <1>11, BuildSpecIs
<1>12. CASE Bundle
  <2>1. Fails("err") \/ Sync \/ AfterRepos \/ Retry
    BY <1>12, BundleIs
  <2> QED BY <1>1, <1>2, <1>5, <1>6, <1>7, <2>1
<1>13. CASE UserInfo
  BY <1>1, <1>2, <1>3, <1>5, <1>13 DEF UserInfo
<1>14. CASE HelmVersion
  <2>1. Fails("err") \/ Sync \/ ToCommand
    BY <1>14, HelmVersionIs
  <2> QED BY <1>1, <1>2, <1>7, <1>10, <2>1
<1>15. CASE Choose
  <2>1. Fails("err") \/ Sync \/ Update \/ AfterRepos
    BY <1>15 DEF Choose
  <2> QED BY <1>1, <1>2, <1>6, <1>7, <1>8, <2>1
<1>16. CASE MakeDir \/ CopyRepos
  <2>1. (\E l : Ended(l)) \/ Update \/ Retry
    BY <1>16, Zenon DEF MakeDir, CopyRepos
  <2> QED BY <1>1, <1>3, <1>5, <1>8, <2>1
<1>17. CASE UpdateRepo
  <2>1. NextItem \/ UpdateFails
    BY <1>17, Zenon DEF UpdateRepo
  <2> QED BY <1>1, <1>9, <2>1
<1>18. CASE UpdateEnds
  BY <1>1, <1>2, <1>3, <1>6, <1>18 DEF UpdateEnds
<1>19. CASE Note
  <2>1. Kind = "start" \/ AfterRepos \/ Retry
    BY <1>19 DEF Note
  <2> QED BY <1>1, <1>5, <1>6, <2>1
<1>20. CASE CleanPaths
  <2>1. LoopMap("files", Copies) \/ Fails("err")
    BY <1>20, Zenon DEF CleanPaths
  <2> QED BY <1>1, <1>2, <1>4, <2>1
<1>21. CASE CopyFile
  <2>1. Fails("err") \/ NextItem \/ Retry
    BY <1>21, Zenon DEF CopyFile
  <2> QED BY <1>1, <1>2, <1>5, <1>9, <2>1
<1>22. CASE FilesEnd
  BY <1>1, <1>3, <1>22 DEF FilesEnd
<1> QED
  BY <1>11, <1>12, <1>13, <1>14, <1>15, <1>16, <1>17, <1>18, <1>19, <1>20, <1>21, <1>22,
     NextCases

LEMMA HostStep ==
    ASSUME SessionInv, PodDotless, HostInv, BackInv, Next
    PROVE  HostInv'
<1>1. given' = given /\ given \in Givens
  BY Frame DEF SessionInv, TypeOK
<1>2. CASE ~(Back \/ Rename \/ BackEnds \/ Signal)
  <2>1. host' = given'.onHost
    BY <1>1, <1>2, BeforeBack DEF HostInv
  <2>2. Faithful(host)'
    BY <2>1 DEF Faithful
  <2> QED BY <2>1, <2>2 DEF HostInv
<1>3. CASE BackEnds \/ Signal
  <2>1. pod' = pod /\ host' = host /\ at' \in {"signal", "end"}
    BY <1>3 DEF BackEnds, Signal, setupVars, Ended, Goto, Fails, Return
  <2>2. Faithful(host)'
    BY <1>1, <2>1, AskedNext DEF HostInv
  <2> QED BY <2>1, <2>2 DEF HostInv
<1>4. CASE Back \/ Rename
  <2>1. at \in {"back", "rename"} /\ Faithful(host)
    BY <1>4, BackTurns DEF HostInv
  <2>2. /\ Kind \in {"exec", "run"} /\ out # "ok" /\ Returning
        /\ at = "rename" => Renaming
    BY <2>1, GivenIs DEF SessionInv, TypeOK, Place, BackInv, Kind
  <2>3. Faithful(host)' /\ at' \in {"back", "rename", "end"}
    BY <1>1, <1>4, <2>1, <2>2, BackStep
  <2> QED BY <2>3 DEF HostInv
<1> QED BY <1>2, <1>3, <1>4

LEMMA BackInvStep ==
    ASSUME SessionInv, SessionInv', PodDotless, HostInv, BackInv, Next
    PROVE  BackInv'
<1>1. /\ given' = given /\ given \in Givens /\ given.kind \in {"exec", "start", "run"}
      /\ ran \in {"no", "ok", "code", "err"} /\ ran' \in {"no", "ok", "code", "err"}
      /\ Kind' = Kind /\ Place /\ Place' /\ TypeOK
  BY Frame, GivenIs DEF SessionInv, TypeOK, Kind
<1>2. CASE ~(Command \/ Back \/ Rename \/ BackEnds \/ Signal)
  <2>1. ran = "no" /\ ran' = "no"
    BY <1>1, <1>2, BeforeBack, Frame DEF Place
  <2>2. at' \notin {"back", "rename", "signal"}
    BY <1>1, <2>1 DEF Place
  <2>3. out' = "ok" => Kind = "start"
    BY <1>1, <1>2, OutStep
  <2> QED BY <1>1, <2>1, <2>2, <2>3 DEF BackInv
<1>3. CASE Command
  <2>1. /\ ran' \in {"ok", "code", "err"}
        /\ \/ given.copyFrom = << >> /\ Return(ran')
           \/ BacksParse /\ LoopMap("back", Backs)
           \/ ~BacksParse /\ Kind = "exec" /\ Ended("signal")
           \/ Kind # "exec" /\ Fails(IF ran' = "ok" THEN "err" ELSE ran')
    BY <1>3 DEF Command
  <2>2. at = "command" /\ out = "none"
    BY <1>1, <1>3 DEF Command, Place, TypeOK
  <2>3. CASE given.copyFrom = << >> /\ Return(ran')
    <3>1. Backs' = {}
      BY <1>1, <2>3 DEF AsMap
    <3> QED BY <1>1, <2>3, <3>1 DEF BackInv, Return
  <2>4. CASE BacksParse /\ LoopMap("back", Backs)
    <3>1. at' = "back" /\ out' = out /\ errs' = {} /\ todo' \in SetToSeqs(Backs)
      BY <2>4 DEF LoopMap, Loop, Goto
    <3>2. todo' \in Seq(Backs) /\ ToSet(todo') = Backs
      BY <1>1, <3>1, GivenIs, SetToSeqsIs
    <3>3. Returning'
      BY <1>1, <3>1, <3>2 DEF Returning
    <3> QED BY <2>2, <3>1, <3>3 DEF BackInv
  <2>5. CASE ~BacksParse /\ Kind = "exec" /\ Ended("signal")
    BY <1>1, <2>2, <2>5 DEF BackInv, Ended, Goto
  <2>6. CASE Kind # "exec" /\ Fails(IF ran' = "ok" THEN "err" ELSE ran')
    <3>1. at' = "end" /\ out' # "ok"
      BY <2>1, <2>6 DEF Fails, Return
    <3> QED BY <1>1, <2>6, <3>1 DEF BackInv
  <2> QED BY <2>1, <2>3, <2>4, <2>5, <2>6
<1>4. CASE Back \/ Rename
  <2>1. at \in {"back", "rename"} /\ Faithful(host)
    BY <1>4, BackTurns DEF HostInv
  <2>2. /\ Kind \in {"exec", "run"} /\ out = "none" /\ Returning
        /\ at = "rename" => Renaming
    BY <1>1, <2>1 DEF TypeOK, Place, BackInv, Kind
  <2>3. /\ at' \in {"back", "rename", "end"}
        /\ at' \in {"back", "rename"} => Returning' /\ out' = out
        /\ at' = "rename" => Renaming'
        /\ at' = "end" => Kind = "run" /\ out' = "err"
    BY <1>1, <1>4, <2>1, <2>2, BackStep
  <2> QED BY <1>1, <2>2, <2>3 DEF BackInv
<1>5. CASE BackEnds
  <2>1. /\ at = "back" /\ todo = << >> /\ pod' = pod /\ host' = host /\ ran' = ran
        /\ IF Kind = "exec" THEN Ended("signal") ELSE Fails(ran)
    BY <1>5 DEF BackEnds, setupVars
  <2>2. Kind \in {"exec", "run"} /\ out = "none" /\ Returning
    BY <1>1, <2>1 DEF TypeOK, Place, BackInv, Kind
  <2>3. ToSet(<< >>) = {}
    BY DEF ToSet
  <2>4. AllApart => \A m \in Backs : m \in errs \/ IsBack(m)
    BY <2>1, <2>2, <2>3 DEF Returning
  <2>5. AllApart' => \A m \in Backs : m \in errs \/ IsBack(m)'
    BY <1>1, <2>1, <2>4, AskedNext
  <2>6. CASE Kind = "exec"
    <3>1. at' = "signal" /\ out' = out /\ errs' = errs
      BY <2>1, <2>6 DEF Ended, Goto
    <3> QED BY <1>1, <2>2, <2>5, <3>1 DEF BackInv
  <2>7. CASE Kind = "run"
    <3>1. at' = "end" /\ errs = {}
      BY <2>1, <2>2, <2>7 DEF Fails, Return, Returning
    <3> QED BY <1>1, <2>5, <2>7, <3>1 DEF BackInv
  <2> QED BY <2>2, <2>6, <2>7
<1>6. CASE Signal
  <2>1. /\ at = "signal" /\ pod' = pod /\ host' = host /\ ran' = ran /\ at' = "end"
        /\ out' = IF ran = "ok" /\ (errs # {} \/ ~BacksParse) THEN "err" ELSE ran
    BY <1>6 DEF Signal, setupVars, Fails, Return
  <2>2. BacksParse /\ AllApart => \A m \in Backs \ errs : IsBack(m)
    BY <2>1 DEF BackInv
  <2>3. BacksParse /\ AllApart' => \A m \in Backs \ errs : IsBack(m)'
    BY <1>1, <2>1, <2>2, AskedNext
  <2>4. out' = "ok" => errs = {} /\ BacksParse
    BY <2>1
  <2>5. ran' # "ok" => out' = ran'
    BY <2>1
  <2> QED BY <1>1, <2>1, <2>3, <2>4, <2>5 DEF BackInv
<1> QED BY <1>2, <1>3, <1>4, <1>5, <1>6

-----------------------------------------------------------------------------
(* Every step descends: to a later place of RunE, which it never leaves    *)
(* for an earlier one, to the next item of a loop or to the next attempt.  *)

PlacesLeft ==
    CASE at \in {"spec", "choose"} -> 12
      [] at \in {"bundle", "user"} -> 11
      [] at = "helm" -> 10
      [] at = "mkdir" -> 9
      [] at = "repos" -> 8
      [] at = "update" -> 7
      [] at = "note" -> IF Kind = "start" THEN 1 ELSE 6
      [] at = "clean" -> 5
      [] at = "files" -> 4
      [] at = "command" -> 3
      [] at \in {"back", "rename"} -> 2
      [] at = "signal" -> 1
      [] at = "end" -> 0

Descends ==
    \/ PlacesLeft' < PlacesLeft
    \/ PlacesLeft' = PlacesLeft /\ Len(todo') < Len(todo)
    \/ PlacesLeft' = PlacesLeft /\ todo' = todo /\ tries < tries'
    \/ PlacesLeft' = PlacesLeft /\ todo' = todo /\ tries' = tries /\ at = "back" /\ at' = "rename"

Stays == at' = at \/ (at \in {"back", "rename"} /\ at' = "back")
Again == Stays /\ todo' = todo /\ tries' = tries + 1
NextOne == Stays /\ todo' = Tail(todo)

LEMMA Moves ==
    /\ \A o : Fails(o) => at' = "end"
    /\ \A o : Return(o) => at' = "end"
    /\ \A l : Ended(l) => at' = l
    /\ \A l, S : LoopMap(l, S) => at' = l
    /\ Retry => Again \/ at' = "end"
    /\ RetryThenNext => Again \/ NextOne
    /\ NextItem => NextOne
    /\ at \in {"back", "rename"} => /\ BackFails => Again \/ NextOne \/ at' = "end"
                                    /\ NextItemAt("back") => NextOne
    /\ Update => at' = "update"
<1>1. \A o : (Fails(o) \/ Return(o)) => at' = "end"
  BY DEF Fails, Return
<1>2. /\ \A l : Ended(l) => at' = l
      /\ \A l, S : LoopMap(l, S) => at' = l
      /\ Update => at' = "update"
  BY DEF Ended, LoopMap, Loop, Goto, Update
<1>3. /\ \A l : RetryFrom(l) => at' = "end" \/ (at' = l /\ todo' = todo /\ tries' = tries + 1)
      /\ \A l : RetryThenNextFrom(l) =>
                  /\ at' = l
                  /\ (todo' = todo /\ tries' = tries + 1) \/ todo' = Tail(todo)
      /\ \A l : NextItemAt(l) => at' = l /\ todo' = Tail(todo)
  BY <1>1 DEF RetryFrom, RetryThenNextFrom, NextItemAt
<1>4. /\ Retry => Again \/ at' = "end"
      /\ RetryThenNext => Again \/ NextOne
      /\ NextItem => NextOne
  BY <1>3 DEF Retry, RetryThenNext, NextItem, Again, NextOne, Stays
<1>5. ASSUME at \in {"back", "rename"}
      PROVE  /\ BackFails => Again \/ NextOne \/ at' = "end"
             /\ NextItemAt("back") => NextOne
  BY <1>3, <1>5 DEF BackFails, Again, NextOne, Stays
<1> QED BY <1>1, <1>2, <1>4, <1>5

LEMMA StepDescends ==
    ASSUME SessionInv, BackInv, Next
    PROVE  Descends
<1>1. /\ given' = given /\ given \in Givens /\ given.kind \in {"exec", "start", "run"}
      /\ Kind' = Kind /\ tries \in Int /\ Place
  BY Frame, GivenIs, SessionConstants DEF SessionInv, TypeOK, Kind
<1>2. ASSUME PlacesLeft' < PlacesLeft PROVE Descends
  BY <1>2 DEF Descends
<1>3. ASSUME Again PROVE Descends
  <2>1. PlacesLeft' = PlacesLeft
    BY <1>1, <1>3 DEF Again, Stays, PlacesLeft
  <2> QED BY <1>1, <1>3, <2>1 DEF Again, Descends
<1>4. ASSUME NextOne, todo # << >>, NEW S, todo \in Seq(S) PROVE Descends
  <2>1. PlacesLeft' = PlacesLeft
    BY <1>1, <1>4 DEF NextOne, Stays, PlacesLeft
  <2>2. Len(Tail(todo)) < Len(todo)
    BY <1>4
  <2> QED BY <1>4, <2>1, <2>2 DEF NextOne, Descends
<1>5. AfterRepos => /\ at' \in {"command", "clean", "files"}
                    /\ (Kind = "start" => at' = "files")
                    /\ (Kind = "exec" => at' = "command")
  BY <1>1, AfterReposIs DEF Kind
<1>6. Sync => AfterRepos \/ at' \in {"mkdir", "end"}
  BY SyncIs, Moves
<1>7. ToCommand => at' = "files" \/ (Kind # "start" /\ at' = "command")
  BY Moves DEF ToCommand
<1>11. CASE BuildSpec
  <2>1. at = "spec" /\ at' \in {"end", "bundle", "user"}
    BY <1>11, BuildSpecIs, Moves
  <2> QED BY <1>1, <1>2, <2>1 DEF PlacesLeft
<1>12. CASE Bundle
  <2>1. at = "bundle" /\ (Fails("err") \/ Sync \/ AfterRepos \/ Retry)
    BY <1>12, BundleIs
  <2>2. Again \/ at' \in {"end", "mkdir", "command", "clean", "files"}
    BY <1>5, <1>6, <2>1, Moves
  <2> QED BY <1>1, <1>2, <1>3, <2>1, <2>2 DEF PlacesLeft
<1>13. CASE UserInfo
  <2>1. at = "user" /\ (Again \/ at' \in {"helm", "end"})
    BY <1>13, Moves DEF UserInfo
  <2> QED BY <1>1, <1>2, <1>3, <2>1 DEF PlacesLeft
<1>14. CASE HelmVersion
  <2>1. at = "helm" /\ (Fails("err") \/ Sync \/ ToCommand)
    BY <1>14, HelmVersionIs
  <2>2. at' \in {"end", "mkdir", "command", "clean", "files"}
    BY <1>5, <1>6, <1>7, <2>1, Moves
  <2> QED BY <1>1, <1>2, <2>1, <2>2 DEF PlacesLeft
<1>15. CASE Choose
  <2>1. at = "choose" /\ (Fails("err") \/ Sync \/ Update \/ AfterRepos)
    BY <1>15 DEF Choose
  <2>2. at' \in {"end", "mkdir", "update", "command", "clean", "files"}
    BY <1>5, <1>6, <2>1, Moves
  <2> QED BY <1>1, <1>2, <2>1, <2>2 DEF PlacesLeft
<1>16. CASE MakeDir \/ CopyRepos
  <2>1. \/ at = "mkdir" /\ (Ended("repos") \/ Retry)
        \/ at = "repos" /\ (Update \/ Retry)
    BY <1>16, Zenon DEF MakeDir, CopyRepos
  <2>2. \/ Again \/ at' = "end"
        \/ at = "mkdir" /\ at' = "repos"
        \/ at = "repos" /\ at' = "update"
    BY <2>1, Moves
  <2> QED BY <1>1, <1>2, <1>3, <2>1, <2>2 DEF PlacesLeft
<1>17. CASE UpdateRepo
  <2>1. at = "update" /\ todo # << >> /\ (NextItem \/ UpdateFails)
    BY <1>17, Zenon DEF UpdateRepo
  <2>2. Again \/ NextOne \/ at' = "end"
    BY <2>1, Moves DEF UpdateFails
  <2>3. \E S : todo \in Seq(S)
    <3>1. Updating
      BY <2>1 DEF SessionInv, ReposInv
    <3>2. <<All>> \in Seq({All})
      OBVIOUS
    <3> QED BY <2>1, <3>1, <3>2 DEF Updating
  <2> QED BY <1>1, <1>2, <1>3, <1>4, <2>1, <2>2, <2>3 DEF PlacesLeft
<1>18. CASE UpdateEnds
  <2>1. /\ at = "update"
        /\ Fails("err") \/ (Kind = "run" /\ Ended("note")) \/ AfterRepos
    BY <1>18 DEF UpdateEnds
  <2>2. at' \in {"end", "command", "clean", "files"} \/ (Kind = "run" /\ at' = "note")
    BY <1>5, <2>1, Moves
  <2> QED BY <1>1, <1>2, <2>1, <2>2 DEF PlacesLeft
<1>19. CASE Note
  <2>1. at = "note" /\ (Fails("ok") \/ (Kind # "start" /\ AfterRepos) \/ Retry)
    BY <1>19 DEF Note
  <2>2. Again \/ at' = "end" \/ (Kind # "start" /\ at' \in {"command", "clean", "files"})
    BY <1>5, <2>1, Moves
  <2> QED BY <1>1, <1>2, <1>3, <2>1, <2>2 DEF PlacesLeft
<1>20. CASE CleanPaths
  <2>1. at = "clean" /\ (LoopMap("files", Copies) \/ Fails("err"))
    BY <1>20, Zenon DEF CleanPaths
  <2>2. at' \in {"files", "end"}
    BY <2>1, Moves
  <2> QED BY <1>1, <1>2, <2>1, <2>2 DEF PlacesLeft
<1>21. CASE CopyFile
  <2>1. at = "files" /\ todo # << >> /\ (Fails("err") \/ NextItem \/ Retry)
    BY <1>21, Zenon DEF CopyFile
  <2>2. Again \/ NextOne \/ at' = "end"
    BY <2>1, Moves
  <2>3. todo \in Seq(Copies)
    BY <2>1 DEF SessionInv, CopiesInv, SweptInv
  <2> QED BY <1>1, <1>2, <1>3, <1>4, <2>1, <2>2, <2>3 DEF PlacesLeft
<1>22. CASE FilesEnd
  <2>1. at = "files" /\ Ended(IF Kind = "start" THEN "note" ELSE "command")
    BY <1>22 DEF FilesEnd
  <2>2. at' = IF Kind = "start" THEN "note" ELSE "command"
    BY <2>1, Moves
  <2> QED BY <1>1, <1>2, <2>1, <2>2 DEF PlacesLeft
<1>23. CASE Command
  <2>1. at = "command" /\ at' \in {"end", "back", "signal"}
    BY <1>23, Moves DEF Command
  <2> QED BY <1>1, <1>2, <2>1 DEF PlacesLeft
<1>24. CASE Back \/ Rename
  <2> DEFINE Extracted == at = "back" /\ at' = "rename" /\ todo' = todo /\ tries' = tries
  <2>1. at \in {"back", "rename"}
    BY <1>24, BackTurns
  <2>2. todo # << >> /\ todo \in Seq(Backs)
    <3>1. Back => todo # << >>
      BY Zenon DEF Back
    <3>2. Rename => todo # << >>
      BY DEF Rename, BackInv, Renaming
    <3> QED BY <1>24, <2>1, <3>1, <3>2 DEF BackInv, Returning
  <2>3. Extracted \/ NextItem \/ NextItemAt("back") \/ BackFails
    BY <1>24, Zenon DEF Back, Rename
  <2>4. Extracted \/ Again \/ NextOne \/ at' = "end"
    <3> HIDE DEF Extracted
    <3> QED BY <2>1, <2>3, Moves
  <2>5. CASE Extracted
    BY <2>5 DEF Descends, PlacesLeft
  <2>6. CASE at' = "end"
    BY <1>2, <2>1, <2>6 DEF PlacesLeft
  <2> HIDE DEF Extracted
  <2> QED BY <1>3, <1>4, <2>2, <2>4, <2>5, <2>6
<1>25. CASE BackEnds \/ Signal
  <2>1. (at = "back" /\ at' \in {"signal", "end"}) \/ (at = "signal" /\ at' = "end")
    BY <1>25, Moves DEF BackEnds, Signal
  <2> QED BY <1>1, <1>2, <2>1 DEF PlacesLeft
<1> QED
  BY <1>11, <1>12, <1>13, <1>14, <1>15, <1>16, <1>17, <1>18, <1>19, <1>20, <1>21, <1>22,
     <1>23, <1>24, <1>25, NextCases

-----------------------------------------------------------------------------
(* The theorems.                                                           *)

WholeInv == SessionInv /\ PodDotless /\ HostInv /\ BackInv

LEMMA WholeInvHolds ==
    Spec => []WholeInv
<1>1. Init => WholeInv
  <2> SUFFICES ASSUME Init PROVE WholeInv
    OBVIOUS
  <2>1. SessionInv
    BY SessionInit
  <2>2. /\ given \in Givens /\ pod = given.inPod /\ host = given.onHost /\ out = "none"
        /\ at = IF given.kind = "run" THEN "choose" ELSE "spec"
    BY DEF Init
  <2>3. PodDotless
    <3>1. IsTree(pod)
      BY <2>2, GivenIs DEF IsGiven
    <3> QED BY <3>1, PathIsClean DEF PodDotless, IsDotless, IsTree
  <2>4. HostInv
    BY <2>2, FaithfulAtFirst DEF HostInv
  <2>5. BackInv
    BY <2>2 DEF BackInv
  <2> QED BY <2>1, <2>3, <2>4, <2>5 DEF WholeInv
<1>2. WholeInv /\ [Next]_vars => WholeInv'
  <2> SUFFICES ASSUME WholeInv, [Next]_vars PROVE WholeInv'
    OBVIOUS
  <2>1. SessionInv'
    BY SessionStep DEF WholeInv
  <2>2. CASE Next
    BY <2>1, <2>2, PodStep, HostStep, BackInvStep DEF WholeInv
  <2>3. CASE UNCHANGED vars
    <3>1. /\ given' = given /\ at' = at /\ todo' = todo /\ errs' = errs
          /\ pod' = pod /\ host' = host /\ ran' = ran /\ out' = out
      BY <2>3, Zenon DEF vars
    <3>2. PodDotless'
      BY <3>1 DEF WholeInv, PodDotless
    <3>3. HostInv'
      BY <3>1, AskedNext DEF WholeInv, HostInv
    <3>4. Returning' <=> Returning
      BY <3>1, AskedNext DEF Returning, Kind
    <3>5. Renaming' <=> Renaming
      BY <3>1, AskedNext DEF Renaming, Waits
    <3>6. BackInv'
      BY <3>1, <3>4, <3>5, AskedNext DEF WholeInv, BackInv, Kind
    <3> QED BY <2>1, <3>2, <3>3, <3>6 DEF WholeInv
  <2> QED BY <2>2, <2>3
<1> QED BY <1>1, <1>2, PTL DEF Spec

(* For any trees, any list of --copy-from whose targets lie apart and any  *)
(* failing calls: success means that the last one of every path in the pod *)
(* is on the host (flags.go:117-127, pod.go:395-448).                      *)
THEOREM SessionCopiedBack ==
    Spec => []CopiedBack
<1>1. WholeInv => CopiedBack
  BY DEF WholeInv, BackInv, CopiedBack, IsBack, Brought
<1> QED BY <1>1, WholeInvHolds, PTL

(* At every moment, also between the extraction and the rename and after   *)
(* either has failed: the copies have written nothing on the host but what *)
(* they were asked for and files under their names in the pod beside it,   *)
(* and of the latter a mapping that did not fail leaves none               *)
(* (pod.go:405-447, 460-506).                                              *)
THEOREM SessionHostUntouched ==
    Spec => []HostUntouched
<1>1. WholeInv => HostUntouched
  <2> SUFFICES ASSUME WholeInv, AllApart PROVE HostUntouched
    BY DEF HostUntouched
  <2>1. \A q \in DOMAIN host :
          q \in DOMAIN given.onHost \cup UNION {TouchedBy(m) : m \in Backs}
    BY DEF WholeInv, HostInv, Faithful
  <2>2. \A m : IsBack(m) => NothingBeside(m)
    BY DEF IsBack, Brought, NothingBeside
  <2> QED BY <2>1, <2>2 DEF WholeInv, HostInv, BackInv, Faithful, HostUntouched
<1> QED BY <1>1, WholeInvHolds, PTL

(* For exec, whatever the command and the other mappings came to: of the   *)
(* last --copy-from of every path in the pod, what did not fail has        *)
(* arrived, and the error of the command is the one that counts            *)
(* (exec.go:102-132).                                                      *)
THEOREM SessionArtifactsDespiteFailure ==
    Spec => []ArtifactsDespiteFailure
<1>1. WholeInv => ArtifactsDespiteFailure
  BY DEF WholeInv, SessionInv, TypeOK, BackInv, ArtifactsDespiteFailure, IsBack, Brought
<1> QED BY <1>1, WholeInvHolds, PTL

(* However calls fail, every step descends in a well-founded order, for    *)
(* any --copy-attempts and any mappings: no retry and no loop goes on for  *)
(* ever (retry.go, executor.go:126-167).                                   *)
THEOREM SessionDescends ==
    Spec => [][Descends]_vars
<1>1. WholeInv /\ [Next]_vars => [Descends]_vars
  BY StepDescends DEF WholeInv
<1> QED BY <1>1, WholeInvHolds, PTL DEF Spec

================================================================================
