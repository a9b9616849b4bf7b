---------------------------- MODULE ArchivesProofs -----------------------------
(***************************************************************************)
(* What the operators of Archives do to any path and any tree: paths are   *)
(* cleaned once and for all, an archive brings to the pod the files it was *)
(* packed for, and the archive of the pod ends on the host where it was    *)
(* asked for.                                                              *)
(***************************************************************************)
EXTENDS Archives, TLAPS, SequenceTheorems, WellFoundedInduction

-----------------------------------------------------------------------------
(* Recursion.  What a path is replaced by depends on what shorter paths    *)
(* are replaced by: induction is over the length of paths.                 *)

LEMMA LeastLength ==
    ASSUME NEW T \in SUBSET Nat, T # {}
    PROVE  \E n \in T : \A m \in T : n <= m
<1>1. \E n \in T : \A m \in T : ~ (<<m, n>> \in OpToRel(<, Nat))
  BY NatLessThanWellFounded, WFMin
<1>2. PICK n \in T : \A m \in T : ~ (<<m, n>> \in OpToRel(<, Nat))
  BY <1>1
<1>3. ASSUME NEW m \in T, ~ (n <= m) PROVE FALSE
  <2>1. <<m, n>> \in Nat \X Nat /\ <<m, n>>[1] < <<m, n>>[2]
    BY <1>3
  <2>2. <<m, n>> \in OpToRel(<, Nat)
    BY <2>1 DEF OpToRel
  <2> QED BY <1>2, <2>2
<1> QED BY <1>3

(* A set that has a path if it has all shorter ones has every path.        *)
LEMMA ByLength ==
    ASSUME NEW G,
           \A p \in Path : (\A q \in Path : Len(q) < Len(p) => q \in G) => p \in G
    PROVE  \A p \in Path : p \in G
<1> SUFFICES ASSUME NEW b \in Path, b \notin G PROVE FALSE
  OBVIOUS
<1> DEFINE T == {Len(p) : p \in {q \in Path : q \notin G}}
<1>1. /\ \A n \in T : n \in Nat
      /\ Len(b) \in T
  BY DEF Path
<1> HIDE DEF T
<1>2. PICK n \in T : \A m \in T : n <= m
  BY <1>1, LeastLength
<1>3. PICK p \in Path : p \notin G /\ Len(p) = n
  BY DEF T
<1>4. ASSUME NEW q \in Path, Len(q) < Len(p) PROVE q \in G
  <2>1. Len(q) \in Nat /\ n \in Nat
    BY <1>1 DEF Path
  <2>2. q \notin G => Len(q) \in T
    BY DEF T
  <2> QED BY <1>2, <1>3, <1>4, <2>1, <2>2
<1> QED BY <1>3, <1>4

(* Paths are closed under what is done to them.                            *)
LEMMA PathConcat ==
    ASSUME NEW p \in Path, NEW q \in Path
    PROVE  /\ p \o q \in Path
           /\ Len(p \o q) = Len(p) + Len(q)
           /\ \A i \in 1..Len(p) : (p \o q)[i] = p[i]
           /\ \A i \in 1..Len(q) : (p \o q)[Len(p) + i] = q[i]
BY DEF Path

LEMMA PathAssoc ==
    ASSUME NEW p \in Path, NEW q \in Path, NEW r \in Path
    PROVE  (p \o q) \o r = p \o (q \o r)
BY ConcatAssociative DEF Path

LEMMA PathShift ==
    ASSUME NEW p \in Path, NEW q \in Path, NEW r \in Path
    PROVE  \E c \in Path : p \o (q \o r) = c \o r
<1>1. p \o q \in Path
  BY PathConcat
<1>2. p \o (q \o r) = (p \o q) \o r
  BY PathAssoc
<1> QED BY <1>1, <1>2

LEMMA PathParts ==
    ASSUME NEW p \in Path
    PROVE  /\ Len(p) \in Nat /\ DOMAIN p = 1..Len(p)
           /\ p \o << >> = p /\ << >> \o p = p
           /\ p # << >> => /\ Head(p) = p[1] /\ Head(p) \in Name /\ <<Head(p)>> \in Path
                          /\ Tail(p) \in Path /\ Len(Tail(p)) = Len(p) - 1
                          /\ p = <<Head(p)>> \o Tail(p)
                          /\ \A i \in 1..Len(p) - 1 : Tail(p)[i] = p[i + 1]
<1>1. p \o << >> = p /\ << >> \o p = p
  BY ConcatEmptySeq DEF Path
<1>2. ASSUME p # << >> PROVE p = <<Head(p)>> \o Tail(p)
  BY <1>2 DEF Path
<1> QED BY <1>1, <1>2 DEF Path

LEMMA PathOne ==
    ASSUME NEW n \in Name
    PROVE  /\ <<n>> \in Path /\ Len(<<n>>) = 1 /\ <<n>>[1] = n /\ <<n>> # << >>
           /\ << >> \in Path /\ Len(<< >>) = 0
<1>1. <<n>> \in Path
  <2>1. ASSUME NEW S, NEW e \in S PROVE <<e>> \in Seq(S)
    OBVIOUS
  <2> QED BY <2>1 DEF Path
<1>2. Len(<<n>>) = 1
  OBVIOUS
<1>3. <<n>>[1] = n
  OBVIOUS
<1>4. <<n>> # << >>
  BY <1>2, EmptySeq
<1>5. << >> \in Path
  BY DEF Path
<1>6. Len(<< >>) = 0
  BY EmptySeq
<1> QED BY <1>1, <1>2, <1>3, <1>4, <1>5, <1>6

LEMMA PathCons ==
    ASSUME NEW n \in Name, NEW p \in Path
    PROVE  /\ <<n>> \o p \in Path /\ <<n>> \o p # << >>
           /\ Len(<<n>> \o p) = Len(p) + 1
           /\ Head(<<n>> \o p) = n /\ Tail(<<n>> \o p) = p
           /\ (<<n>> \o p)[1] = n
           /\ \A i \in 1..Len(p) : (<<n>> \o p)[i + 1] = p[i]
<1> DEFINE q == <<n>> \o p
<1>1. /\ <<n>> \in Path /\ Len(<<n>>) = 1 /\ <<n>>[1] = n
      /\ Len(p) \in Nat /\ << >> \in Path /\ Len(<< >>) = 0
  BY PathOne, PathParts
<1>2. q \in Path /\ Len(q) = Len(p) + 1 /\ q # << >>
  BY <1>1, PathConcat
<1>3. \A i \in 1..Len(<<n>>) : q[i] = <<n>>[i]
  BY <1>1, PathConcat
<1>4. \A i \in 1..Len(p) : q[Len(<<n>>) + i] = p[i]
  BY <1>1, PathConcat
<1>5. q[1] = n /\ \A i \in 1..Len(p) : q[i + 1] = p[i]
  BY <1>1, <1>3, <1>4
<1> HIDE DEF q
<1>6. Head(q) = q[1] /\ Tail(q) \in Path /\ Len(Tail(q)) = Len(p)
      /\ \A i \in 1..Len(p) : Tail(q)[i] = q[i + 1]
  <2>1. Len(q) - 1 = Len(p)
    BY <1>1, <1>2
  <2> QED BY <1>2, <2>1, PathParts
<1>7. Tail(q) = p
  <2>1. \A i \in 1..Len(Tail(q)) : Tail(q)[i] = p[i]
    BY <1>5, <1>6
  <2> QED BY <1>6, <2>1, SeqEqual DEF Path
<1> QED BY <1>2, <1>5, <1>6, <1>7 DEF q

LEMMA PathCancel ==
    ASSUME NEW p \in Path, NEW q \in Path, NEW r \in Path, p \o q = p \o r
    PROVE  q = r
BY ConcatSimplifications DEF Path

LEMMA PathEqual ==
    ASSUME NEW p \in Path, NEW q \in Path, Len(p) = Len(q), \A i \in 1..Len(p) : p[i] = q[i]
    PROVE  p = q
BY SeqEqual DEF Path

LEMMA PathSub ==
    ASSUME NEW p \in Path, NEW m \in Nat, NEW n \in Nat, 1 <= m, n <= Len(p)
    PROVE  /\ SubSeq(p, m, n) \in Path
           /\ Len(SubSeq(p, m, n)) = IF m <= n THEN n - m + 1 ELSE 0
           /\ \A i \in 1..n - m + 1 : SubSeq(p, m, n)[i] = p[m + i - 1]
<1>1. \A i \in m..n : p[i] \in Name
  BY DEF Path
<1> QED BY <1>1, SubSeqProperties DEF Path

LEMMA PrefixDef ==
    ASSUME NEW p \in Path, NEW q \in Path
    PROVE  IsPrefix(p, q) <=> Len(p) <= Len(q) /\ \A i \in 1..Len(p) : p[i] = q[i]
<1>1. Len(p) \in Nat /\ Len(q) \in Nat
  BY PathParts
<1>2. SubSeq(p, 1, Len(p)) = p
  BY SubSeqFull DEF Path
<1>3. ASSUME Len(p) <= Len(q)
      PROVE  /\ SubSeq(q, 1, Len(p)) \in Path
             /\ Len(SubSeq(q, 1, Len(p))) = Len(p)
             /\ \A i \in 1..Len(p) : SubSeq(q, 1, Len(p))[i] = q[i]
  BY <1>1, <1>3, PathSub
<1> QED BY <1>1, <1>2, <1>3, PathEqual DEF IsPrefix

(* What follows a prefix.                                                  *)
LEMMA PrefixSplit ==
    ASSUME NEW p \in Path, NEW q \in Path, IsPrefix(p, q)
    PROVE  /\ SubSeq(q, Len(p) + 1, Len(q)) \in Path
           /\ q = p \o SubSeq(q, Len(p) + 1, Len(q))
           /\ Len(SubSeq(q, Len(p) + 1, Len(q))) = Len(q) - Len(p)
           /\ \A i \in 1..Len(q) - Len(p) : SubSeq(q, Len(p) + 1, Len(q))[i] = q[Len(p) + i]
<1> DEFINE m == Len(p) + 1
           r == SubSeq(q, m, Len(q))
<1>1. /\ Len(p) \in Nat /\ Len(q) \in Nat /\ Len(p) <= Len(q)
      /\ \A i \in 1..Len(p) : q[i] = p[i]
  BY PathParts, PrefixDef
<1>2. /\ m \in Nat /\ 1 <= m /\ Len(q) - m + 1 = Len(q) - Len(p)
      /\ \A i \in 1..Len(q) - Len(p) : m + i - 1 = Len(p) + i
      /\ m <= Len(q) \/ Len(q) - Len(p) = 0
  BY <1>1
<1>3. /\ r \in Path /\ Len(r) = Len(q) - Len(p)
      /\ \A i \in 1..Len(q) - Len(p) : r[i] = q[Len(p) + i]
  <2> HIDE DEF m
  <2>1. /\ SubSeq(q, m, Len(q)) \in Path
        /\ Len(SubSeq(q, m, Len(q))) = IF m <= Len(q) THEN Len(q) - Len(p) ELSE 0
        /\ \A i \in 1..Len(q) - Len(p) : SubSeq(q, m, Len(q))[i] = q[m + i - 1]
    BY <1>1, <1>2, PathSub
  <2> QED BY <1>2, <2>1
<1> HIDE DEF r
<1>4. p \o r \in Path /\ Len(p \o r) = Len(q)
  BY <1>1, <1>3, PathConcat
<1>5. ASSUME NEW i \in 1..Len(q) PROVE q[i] = (p \o r)[i]
  <2>1. CASE i <= Len(p)
    BY <1>1, <1>3, <2>1, PathConcat
  <2>2. CASE i > Len(p)
    <3>1. i - Len(p) \in 1..Len(r) /\ Len(p) + (i - Len(p)) = i
      BY <1>1, <1>3, <2>2
    <3>2. (p \o r)[Len(p) + (i - Len(p))] = r[i - Len(p)]
      BY <1>3, <3>1, PathConcat
    <3> QED BY <1>3, <3>1, <3>2
  <2>3. i <= Len(p) \/ i > Len(p)
    BY <1>1
  <2> QED BY <2>1, <2>2, <2>3
<1>6. q = p \o r
  BY <1>1, <1>4, <1>5, PathEqual
<1> QED BY <1>3, <1>6 DEF r

LEMMA PrefixOfConcat ==
    ASSUME NEW p \in Path, NEW q \in Path
    PROVE  /\ IsPrefix(p, p \o q)
           /\ SubSeq(p \o q, Len(p) + 1, Len(p \o q)) = q
<1>1. p \o q \in Path /\ Len(p \o q) = Len(p) + Len(q) /\ Len(p) \in Nat /\ Len(q) \in Nat
  BY PathConcat, PathParts
<1>2. IsPrefix(p, p \o q)
  <2>1. \A i \in 1..Len(p) : p[i] = (p \o q)[i]
    BY PathConcat
  <2>2. Len(p) <= Len(p \o q)
    BY <1>1
  <2> QED BY <1>1, <2>1, <2>2, PrefixDef
<1>3. /\ SubSeq(p \o q, Len(p) + 1, Len(p \o q)) \in Path
      /\ p \o q = p \o SubSeq(p \o q, Len(p) + 1, Len(p \o q))
  BY <1>1, <1>2, PrefixSplit
<1>4. q = SubSeq(p \o q, Len(p) + 1, Len(p \o q))
  BY <1>3, PathCancel
<1> QED BY <1>2, <1>4

(* The recursive definition of Replacing has a solution, so that it is one.*)
LEMMA ReplacingDef ==
    ASSUME NEW old \in Path, old # << >>, NEW new \in Path
    PROVE  /\ Replacing(old, new) \in [Path -> Path]
           /\ \A p \in Path : Replacing(old, new)[p] =
                IF p = << >> THEN << >>
                ELSE IF IsPrefix(old, p)
                THEN new \o Replacing(old, new)[SubSeq(p, Len(old) + 1, Len(p))]
                ELSE <<Head(p)>> \o Replacing(old, new)[Tail(p)]
<1> DEFINE rest(p) == SubSeq(p, Len(old) + 1, Len(p))
           Step(g, p) == IF p = << >> THEN << >>
                         ELSE IF IsPrefix(old, p) THEN new \o g[rest(p)]
                         ELSE <<Head(p)>> \o g[Tail(p)]
           Upto(n) == {p \in Path : Len(p) <= n}
           Solves(n, g) == g \in [Path -> Path] /\ \A p \in Upto(n) : g[p] = Step(g, p)
<1>0. \A p \in Path : Len(p) \in Nat
  BY PathParts
<1>1. ASSUME NEW p \in Path, p # << >>
      PROVE  /\ IsPrefix(old, p) => rest(p) \in Path /\ Len(rest(p)) < Len(p)
             /\ Tail(p) \in Path /\ Len(Tail(p)) < Len(p)
             /\ <<Head(p)>> \in Path
  BY <1>1 DEF Path, IsPrefix
<1> HIDE DEF rest
<1>2. ASSUME NEW g \in [Path -> Path], NEW p \in Path PROVE Step(g, p) \in Path
  <2>1. CASE p = << >>
    BY <2>1 DEF Path
  <2>2. CASE p # << >> /\ IsPrefix(old, p)
    BY <1>1, <2>2, PathConcat
  <2>3. CASE p # << >> /\ ~IsPrefix(old, p)
    BY <1>1, <2>3, PathConcat
  <2> QED BY <2>1, <2>2, <2>3
<1>3. ASSUME NEW n \in Nat, NEW g, NEW h, NEW p \in Path, Len(p) <= n + 1,
             \A q \in Upto(n) : g[q] = h[q]
      PROVE  Step(g, p) = Step(h, p)
  <2>1. CASE p = << >>
    BY <2>1
  <2>2. CASE p # << >> /\ IsPrefix(old, p)
    <3>1. rest(p) \in Upto(n)
      <4>1. rest(p) \in Path /\ Len(rest(p)) < Len(p)
        BY <1>1, <2>2
      <4>2. Len(rest(p)) \in Nat /\ Len(p) \in Nat
        BY <1>0, <4>1
      <4> QED BY <1>3, <4>1, <4>2
    <3> QED BY <1>3, <2>2, <3>1
  <2>3. CASE p # << >> /\ ~IsPrefix(old, p)
    <3>1. Tail(p) \in Upto(n)
      <4>1. Tail(p) \in Path /\ Len(Tail(p)) < Len(p)
        BY <1>1, <2>3
      <4>2. Len(Tail(p)) \in Nat /\ Len(p) \in Nat
        BY <1>0, <4>1
      <4> QED BY <1>3, <4>1, <4>2
    <3> QED BY <1>3, <2>3, <3>1
  <2> QED BY <2>1, <2>2, <2>3
<1>4. ASSUME NEW n \in Nat, NEW g, Solves(n, g) PROVE \E h : Solves(n + 1, h)
  <2> DEFINE h == [p \in Path |-> Step(g, p)]
  <2>1. h \in [Path -> Path]
    BY <1>2, <1>4
  <2>2. \A q \in Upto(n) : g[q] = h[q]
    BY <1>4
  <2>3. ASSUME NEW p \in Upto(n + 1) PROVE h[p] = Step(h, p)
    <3>1. p \in Path /\ Len(p) <= n + 1 /\ h[p] = Step(g, p)
      OBVIOUS
    <3> HIDE DEF Step, h, Upto
    <3> QED BY <1>3, <2>2, <3>1
  <2> QED BY <2>1, <2>3
<1> HIDE DEF Solves
<1>5. \A n \in Nat : \E g : Solves(n, g)
  <2> SUFFICES ASSUME NEW b \in Nat, ~ \E g : Solves(b, g) PROVE FALSE
    OBVIOUS
  <2> DEFINE T == {n \in Nat : ~ \E g : Solves(n, g)}
  <2>1. PICK n \in T : \A m \in T : n <= m
    BY LeastLength
  <2>2. Solves(0, [p \in Path |-> << >>])
    BY PathParts DEF Solves, Path
  <2>3. n - 1 \in Nat /\ n - 1 \notin T
    BY <2>1, <2>2
  <2> QED BY <1>4, <2>1, <2>3
<1>6. ASSUME NEW m \in Nat, NEW n \in Nat, NEW g, NEW h, Solves(m, g), Solves(n, h),
             NEW p \in Path, Len(p) <= m, Len(p) <= n
      PROVE  g[p] = h[p]
  <2> DEFINE G == {q \in Path : Len(q) <= m /\ Len(q) <= n => g[q] = h[q]}
  <2>1. ASSUME NEW q \in Path, \A r \in Path : Len(r) < Len(q) => r \in G,
               Len(q) <= m, Len(q) <= n
        PROVE  g[q] = h[q]
    <3>1. g[q] = Step(g, q) /\ h[q] = Step(h, q)
      BY <1>6, <2>1 DEF Solves
    <3>2. CASE q = << >>
      BY <3>1, <3>2
    <3>3. CASE q # << >>
      <4>1. Len(q) - 1 \in Nat
        BY <1>1, <3>3, PathParts
      <4>2. \A r \in Upto(Len(q) - 1) : g[r] = h[r]
        BY <2>1, <4>1, PathParts
      <4> HIDE DEF Step, Upto
      <4> QED BY <1>0, <1>3, <3>1, <4>1, <4>2
    <3> QED BY <3>2, <3>3
  <2>2. \A q \in Path : q \in G
    <3> HIDE DEF G
    <3>1. ASSUME NEW q \in Path, \A r \in Path : Len(r) < Len(q) => r \in G PROVE q \in G
      BY <2>1, <3>1 DEF G
    <3> QED BY <3>1, ByLength
  <2> QED BY <1>6, <2>2
<1> DEFINE S(n) == CHOOSE g : Solves(n, g)
           f == [p \in Path |-> S(Len(p))[p]]
<1>7. \A n \in Nat : Solves(n, S(n))
  BY <1>5
<1> HIDE DEF S
<1>8. ASSUME NEW p \in Path PROVE f[p] = Step(f, p) /\ f[p] \in Path
  <2>1. Len(p) \in Nat /\ Solves(Len(p), S(Len(p)))
    BY <1>7, PathParts
  <2>2. S(Len(p)) \in [Path -> Path] /\ S(Len(p))[p] = Step(S(Len(p)), p)
    <3>1. p \in Upto(Len(p))
      BY <2>1
    <3> HIDE DEF Step, Upto
    <3> QED BY <2>1, <3>1 DEF Solves
  <2>3. f[p] \in Path /\ f[p] = Step(S(Len(p)), p)
    BY <2>2
  <2>4. CASE p = << >>
    BY <2>3, <2>4
  <2>5. CASE p # << >>
    <3>1. Len(p) - 1 \in Nat
      BY <1>1, <2>5, PathParts
    <3>2. ASSUME NEW q \in Upto(Len(p) - 1) PROVE S(Len(p))[q] = f[q]
      <4>1. Len(q) \in Nat /\ q \in Path /\ Len(q) <= Len(p)
        BY <2>1, PathParts
      <4> QED BY <1>6, <1>7, <2>1, <4>1
    <3>3. Step(S(Len(p)), p) = Step(f, p)
      <4> HIDE DEF f, Step, Upto
      <4> QED BY <1>3, <3>1, <3>2, PathParts
    <3> QED BY <2>3, <3>3
  <2> QED BY <2>4, <2>5
<1>9. f = [p \in Path |-> Step(f, p)] /\ f \in [Path -> Path]
  <2>1. \A p \in Path : f[p] = Step(f, p) /\ f[p] \in Path
    BY <1>8
  <2>2. f = [p \in Path |-> f[p]]
    OBVIOUS
  <2> HIDE DEF f, Step
  <2> QED BY <2>1, <2>2
<1>10. Replacing(old, new) = CHOOSE g : g = [p \in Path |-> Step(g, p)]
  BY DEF Replacing, rest
<1>11. Replacing(old, new) = [p \in Path |-> Step(Replacing(old, new), p)]
  <2> HIDE DEF Step, f
  <2> QED BY <1>9, <1>10
<1>12. ASSUME NEW p \in Path PROVE Replacing(old, new)[p] = Step(Replacing(old, new), p)
  <2> HIDE DEF Step
  <2> QED BY <1>11
<1> QED
  <2> DEFINE R == Replacing(old, new)
             G == {p \in Path : R[p] \in Path}
  <2>1. ASSUME NEW p \in Path, \A q \in Path : Len(q) < Len(p) => q \in G PROVE R[p] \in Path
    <3> HIDE DEF R
    <3>1. R[p] = Step(R, p)
      BY <1>12 DEF R
    <3>2. CASE p = << >>
      BY <3>1, <3>2 DEF Path
    <3>3. CASE p # << >> /\ IsPrefix(old, p)
      <4>1. R[rest(p)] \in Path
        BY <1>1, <2>1, <3>3
      <4> QED BY <3>1, <3>3, <4>1, PathConcat
    <3>4. CASE p # << >> /\ ~IsPrefix(old, p)
      <4>1. R[Tail(p)] \in Path /\ <<Head(p)>> \in Path
        BY <1>1, <2>1, <3>4
      <4> QED BY <3>1, <3>4, <4>1, PathConcat
    <3> QED BY <3>2, <3>3, <3>4
  <2>2. \A p \in Path : p \in G
    <3> HIDE DEF R
    <3>1. ASSUME NEW p \in Path, \A q \in Path : Len(q) < Len(p) => q \in G PROVE p \in G
      BY <2>1, <3>1
    <3> HIDE DEF G
    <3> QED BY <3>1, ByLength
  <2>3. R \in [Path -> Path]
    <3>1. R = [p \in Path |-> R[p]]
      <4> HIDE DEF Step
      <4> QED BY <1>11
    <3> HIDE DEF R
    <3> QED BY <2>2, <3>1
  <2> QED BY <1>12, <2>3 DEF rest

-----------------------------------------------------------------------------
(* A path without a name.                                                  *)

LEMMA WithoutDef ==
    ASSUME NEW n \in Name, NEW p \in Path
    PROVE  /\ Without(p, n) \in Path
           /\ Without(<< >>, n) = << >>
           /\ p # << >> =>
                Without(p, n) = IF Head(p) = n THEN Without(Tail(p), n)
                                ELSE <<Head(p)>> \o Without(Tail(p), n)
<1> DEFINE R == Replacing(<<n>>, << >>)
<1>1. <<n>> \in Path /\ <<n>> # << >> /\ << >> \in Path /\ Len(<<n>>) = 1
  BY PathOne
<1>2. /\ R \in [Path -> Path]
      /\ \A q \in Path : R[q] = IF q = << >> THEN << >>
                               ELSE IF IsPrefix(<<n>>, q)
                               THEN << >> \o R[SubSeq(q, Len(<<n>>) + 1, Len(q))]
                               ELSE <<Head(q)>> \o R[Tail(q)]
  BY <1>1, ReplacingDef
<1>3. \A q : Without(q, n) = R[q]
  BY DEF Without, ReplaceIn
<1> HIDE DEF R
<1>4. ASSUME p # << >>
      PROVE  /\ IsPrefix(<<n>>, p) <=> Head(p) = n
             /\ SubSeq(p, Len(<<n>>) + 1, Len(p)) = Tail(p)
             /\ Tail(p) \in Path
  <2>1. SubSeq(p, 2, Len(p)) = Tail(p) /\ Tail(p) \in Path
    BY <1>4, TailIsSubSeq DEF Path
  <2>2. IsPrefix(<<n>>, p) <=> Head(p) = n
    <3>1. Len(p) \in Nat \ {0} /\ Head(p) = p[1] /\ <<n>>[1] = n
      BY <1>4, PathParts, PathOne DEF Path
    <3>2. IsPrefix(<<n>>, p) <=> 1 <= Len(p) /\ \A i \in 1..1 : <<n>>[i] = p[i]
      BY <1>1, PrefixDef
    <3>3. 1..1 = {1}
      OBVIOUS
    <3> QED BY <3>1, <3>2, <3>3
  <2>3. SubSeq(p, Len(<<n>>) + 1, Len(p)) = Tail(p)
    BY <1>1, <2>1
  <2> QED BY <2>1, <2>2, <2>3
<1>5. ASSUME p # << >> PROVE << >> \o R[Tail(p)] = R[Tail(p)]
  BY <1>2, <1>4, <1>5, PathParts
<1> QED BY <1>1, <1>2, <1>3, <1>4, <1>5

LEMMA WithoutConcat ==
    ASSUME NEW n \in Name, NEW p \in Path, NEW q \in Path
    PROVE  Without(p \o q, n) = Without(p, n) \o Without(q, n)
<1> DEFINE W(r) == Without(r, n)
           G == {r \in Path : W(r \o q) = W(r) \o W(q)}
<1>1. \A r \in Path : W(r) \in Path
  BY WithoutDef
<1>2. ASSUME NEW r \in Path, \A t \in Path : Len(t) < Len(r) => t \in G
      PROVE  W(r \o q) = W(r) \o W(q)
  <2>1. CASE r = << >>
    BY <1>1, <2>1, WithoutDef, PathParts
  <2>2. CASE r # << >>
    <3> DEFINE t == Tail(r)
    <3>1. /\ t \in Path /\ <<Head(r)>> \in Path /\ Head(r) \in Name
          /\ r = <<Head(r)>> \o t /\ Len(t) < Len(r)
      BY <2>2, PathParts
    <3>2. W(t \o q) = W(t) \o W(q)
      BY <1>2, <3>1
    <3>3. /\ r \o q \in Path /\ r \o q # << >>
          /\ Head(r \o q) = Head(r) /\ Tail(r \o q) = t \o q
      <4>1. t \o q \in Path
        BY <3>1, PathConcat
      <4>2. r \o q = <<Head(r)>> \o (t \o q)
        <5> HIDE DEF t
        <5>1. (<<Head(r)>> \o t) \o q = <<Head(r)>> \o (t \o q)
          BY <3>1, PathAssoc
        <5>2. r \o q = (<<Head(r)>> \o t) \o q
          BY <3>1, Zenon
        <5> QED BY <5>1, <5>2
      <4> HIDE DEF t
      <4> QED BY <3>1, <4>1, <4>2, PathCons
    <3>4. CASE Head(r) = n
      BY <2>2, <3>1, <3>2, <3>3, <3>4, WithoutDef
    <3>5. CASE Head(r) # n
      <4>1. W(r \o q) = <<Head(r)>> \o (W(t) \o W(q)) /\ W(r) = <<Head(r)>> \o W(t)
        <5>1. W(r \o q) = <<Head(r)>> \o W(t \o q)
          BY <3>3, <3>5, WithoutDef
        <5>2. W(r) = <<Head(r)>> \o W(t)
          BY <2>2, <3>5, WithoutDef
        <5> QED BY <3>2, <5>1, <5>2
      <4>2. W(t) \in Path /\ W(q) \in Path
        BY <1>1, <3>1
      <4> HIDE DEF W, t
      <4>3. (<<Head(r)>> \o W(t)) \o W(q) = <<Head(r)>> \o (W(t) \o W(q))
        BY <3>1, <4>2, PathAssoc
      <4> QED BY <4>1, <4>3
    <3> QED BY <3>4, <3>5
  <2> QED BY <2>1, <2>2
<1>3. \A r \in Path : r \in G
  <2> HIDE DEF W
  <2>1. ASSUME NEW r \in Path, \A t \in Path : Len(t) < Len(r) => t \in G PROVE r \in G
    BY <1>2, <2>1
  <2> HIDE DEF G
  <2> QED BY <2>1, ByLength
<1> QED BY <1>3

(* What is kept is what has another name, and nothing is lost of a path    *)
(* that does not have the name.                                            *)
LEMMA WithoutNames ==
    ASSUME NEW n \in Name, NEW p \in Path
    PROVE  /\ \A i \in 1..Len(Without(p, n)) :
                Without(p, n)[i] # n /\ \E j \in 1..Len(p) : p[j] = Without(p, n)[i]
           /\ (\A i \in 1..Len(p) : p[i] # n) => Without(p, n) = p
           /\ Without(<<n>>, n) = << >>
<1> DEFINE W(r) == Without(r, n)
           Kept(r) == \A i \in 1..Len(W(r)) : W(r)[i] # n /\ \E j \in 1..Len(r) : r[j] = W(r)[i]
           Same(r) == (\A i \in 1..Len(r) : r[i] # n) => W(r) = r
           G == {r \in Path : Kept(r) /\ Same(r)}
<1>1. \A r \in Path : W(r) \in Path
  BY WithoutDef
<1>2. ASSUME NEW r \in Path, \A t \in Path : Len(t) < Len(r) => t \in G
      PROVE  Kept(r) /\ Same(r)
  <2>1. CASE r = << >>
    <3>1. W(r) = << >> /\ Len(<< >>) = 0
      BY <2>1, WithoutDef, PathOne
    <3> HIDE DEF W
    <3> QED BY <2>1, <3>1
  <2>2. CASE r # << >>
    <3> DEFINE t == Tail(r)
    <3>1. /\ t \in Path /\ <<Head(r)>> \in Path /\ Head(r) \in Name
          /\ r = <<Head(r)>> \o t /\ Len(t) < Len(r)
          /\ Head(r) = r[1] /\ Len(t) = Len(r) - 1 /\ Len(r) \in Nat
          /\ \A i \in 1..Len(r) - 1 : t[i] = r[i + 1]
      BY <2>2, PathParts
    <3>2. Kept(t) /\ Same(t)
      BY <1>2, <3>1
    <3>3. \A j \in 1..Len(t) : j + 1 \in 1..Len(r) /\ r[j + 1] = t[j]
      BY <3>1, PathParts
    <3>4. CASE Head(r) = n
      <4>1. W(r) = W(t)
        BY <2>2, <3>1, <3>4, WithoutDef
      <4>2. 1 \in 1..Len(r)
        BY <3>1, PathParts
      <4> HIDE DEF W, t
      <4> QED BY <3>1, <3>2, <3>3, <3>4, <4>1, <4>2
    <3>5. CASE Head(r) # n
      <4>1. W(r) = <<Head(r)>> \o W(t)
        BY <2>2, <3>1, <3>5, WithoutDef
      <4>2. /\ W(t) \in Path /\ Len(W(t)) \in Nat
            /\ Len(W(r)) = Len(W(t)) + 1 /\ W(r)[1] = Head(r)
            /\ \A i \in 1..Len(W(t)) : W(r)[i + 1] = W(t)[i]
        <5>1. W(t) \in Path /\ Len(W(t)) \in Nat
          BY <1>1, <3>1, PathParts
        <5> HIDE DEF W
        <5> QED BY <3>1, <4>1, <5>1, PathCons
      <4>3. Kept(r)
        <5> SUFFICES ASSUME NEW i \in 1..Len(W(r))
                     PROVE  W(r)[i] # n /\ \E j \in 1..Len(r) : r[j] = W(r)[i]
          OBVIOUS
        <5>1. CASE i = 1
          BY <3>1, <3>5, <4>2, <5>1, PathParts
        <5>2. CASE i # 1
          <6>1. i - 1 \in 1..Len(W(t)) /\ W(r)[i] = W(t)[i - 1]
            BY <4>2, <5>2
          <6> QED BY <3>2, <3>3, <6>1
        <5> QED BY <5>1, <5>2
      <4>4. Same(r)
        <5> HIDE DEF W, t
        <5>1. ASSUME \A i \in 1..Len(r) : r[i] # n PROVE \A i \in 1..Len(t) : t[i] # n
          BY <3>3, <5>1
        <5> QED BY <3>1, <3>2, <4>1, <5>1
      <4> QED BY <4>3, <4>4
    <3> QED BY <3>4, <3>5
  <2> QED BY <2>1, <2>2
<1>3. \A r \in Path : r \in G
  <2> HIDE DEF Kept, Same
  <2>1. ASSUME NEW r \in Path, \A t \in Path : Len(t) < Len(r) => t \in G PROVE r \in G
    BY <1>2, <2>1
  <2> HIDE DEF G
  <2> QED BY <2>1, ByLength
<1>4. W(<<n>>) = << >>
  <2>1. Head(<<n>>) = n /\ Tail(<<n>>) = << >>
    OBVIOUS
  <2> QED BY <2>1, PathOne, WithoutDef
<1> QED BY <1>3, <1>4

-----------------------------------------------------------------------------
(* Clean paths.                                                            *)

LEMMA DotAndSlash ==
    /\ "." \in Name /\ "/" \in Name
    /\ Here \in Path /\ Here # << >> /\ Len(Here) = 1 /\ Here[1] = "."
    /\ Root \in Path /\ Root # << >> /\ Len(Root) = 1 /\ Root[1] = "/"
    /\ Here # Root
<1>1. "." \in Name /\ "/" \in Name
  BY NameAssumption
<1>2. "." # "/"
  OBVIOUS
<1> QED BY <1>1, <1>2, PathOne DEF Here, Root

Dotless(p) == p \in Path /\ p # << >> /\ \A i \in 1..Len(p) : p[i] # "."

LEMMA CleanIs ==
    ASSUME NEW p \in Path
    PROVE  /\ Clean(p) = Here \/ Dotless(Clean(p))
           /\ Clean(p) \in Path /\ Clean(p) # << >>
           /\ Dotless(p) => Clean(p) = p
           /\ p = Here => Clean(p) = p
           /\ Clean(Clean(p)) = Clean(p)
<1>1. /\ Without(p, ".") \in Path
      /\ \A i \in 1..Len(Without(p, ".")) : Without(p, ".")[i] # "."
      /\ Dotless(p) => Without(p, ".") = p
  BY DotAndSlash, WithoutDef, WithoutNames DEF Dotless
<1>2. Clean(Here) = Here
  BY DotAndSlash, WithoutNames DEF Clean, Here
<1>3. Clean(p) = Here \/ (Clean(p) = Without(p, ".") /\ Without(p, ".") # << >>)
  BY DEF Clean
<1>4. Clean(p) = Here \/ Dotless(Clean(p))
  BY <1>1, <1>3 DEF Dotless
<1>5. ASSUME NEW q \in Path, Dotless(q) PROVE Clean(q) = q
  <2>1. Without(q, ".") = q
    BY <1>5, DotAndSlash, WithoutNames DEF Dotless
  <2> QED BY <1>5, <2>1 DEF Clean, Dotless
<1>6. Clean(p) \in Path /\ Clean(p) # << >>
  BY <1>4, DotAndSlash DEF Dotless
<1> QED BY <1>2, <1>4, <1>5, <1>6

(* Joining: to a directory that is clean, and with "." in between.         *)
LEMMA JoinIs ==
    ASSUME NEW d \in Path, NEW q \in Path
    PROVE  /\ Join(d, q) = Here \/ Dotless(Join(d, q))
           /\ Dotless(d) /\ Dotless(q) => Join(d, q) = d \o q /\ Dotless(d \o q)
           /\ Dotless(q) => Join(Here, q) = q
           /\ Join(d, Here \o q) = Join(d, q)
<1>1. d \o q \in Path /\ Here \in Path /\ Here \o q \in Path /\ "." \in Name
  BY PathConcat, DotAndSlash
<1>2. Join(d, q) = Here \/ Dotless(Join(d, q))
  BY <1>1, CleanIs DEF Join
<1>3. ASSUME Dotless(d), Dotless(q) PROVE Dotless(d \o q)
  <2>1. Len(d) \in Nat /\ Len(q) \in Nat /\ Len(d \o q) = Len(d) + Len(q)
    BY PathConcat, PathParts
  <2>2. ASSUME NEW i \in 1..Len(d \o q) PROVE (d \o q)[i] # "."
    <3>1. CASE i <= Len(d)
      BY <1>3, <2>1, <3>1, PathConcat DEF Dotless
    <3>2. CASE i > Len(d)
      <4>1. i - Len(d) \in 1..Len(q) /\ Len(d) + (i - Len(d)) = i
        BY <2>1, <3>2
      <4>2. (d \o q)[Len(d) + (i - Len(d))] = q[i - Len(d)]
        BY <4>1, PathConcat
      <4> QED BY <1>3, <4>1, <4>2 DEF Dotless
    <3> QED BY <2>1, <3>1, <3>2
  <2>3. d \o q # << >>
    <3>1. Len(d) # 0
      BY <1>3, EmptySeq DEF Dotless, Path
    <3> QED BY <2>1, <3>1, PathOne
  <2> QED BY <1>1, <2>2, <2>3 DEF Dotless
<1>4. Without(Here \o q, ".") = Without(q, ".") /\ Without(q, ".") \in Path
  <2>1. Without(Here \o q, ".") = << >> \o Without(q, ".") /\ Without(q, ".") \in Path
    <3>1. Without(Here, ".") = << >>
      BY <1>1, WithoutNames DEF Here
    <3>2. Without(Here \o q, ".") = Without(Here, ".") \o Without(q, ".")
      BY <1>1, WithoutConcat
    <3> QED BY <1>1, <3>1, <3>2, WithoutDef
  <2> QED BY <2>1, PathParts
<1>5. Without(d \o (Here \o q), ".") = Without(d \o q, ".")
  <2>1. Without(d \o (Here \o q), ".") = Without(d, ".") \o Without(Here \o q, ".")
    BY <1>1, WithoutConcat
  <2>2. Without(d \o q, ".") = Without(d, ".") \o Without(q, ".")
    BY <1>1, WithoutConcat
  <2> QED BY <1>4, <2>1, <2>2
<1>6. Join(d, Here \o q) = Join(d, q)
  BY <1>5 DEF Join, Clean
<1>7. ASSUME Dotless(q) PROVE Join(Here, q) = q
  <2>1. Without(q, ".") = q
    BY <1>1, <1>7, WithoutNames DEF Dotless
  <2> QED BY <1>4, <1>7, <2>1 DEF Join, Clean, Dotless
<1> QED BY <1>1, <1>2, <1>3, <1>6, <1>7, CleanIs DEF Join

(* What is under a directory has the directory in front.                   *)
CleanDir(p) == p = Here \/ Dotless(p)

LEMMA BelowIs ==
    ASSUME NEW d, CleanDir(d), NEW f, Dotless(f), Under(d, f)
    PROVE  /\ d \in Path /\ Below(d, f) \in Path /\ Dotless(Below(d, f))
           /\ d # Here => f = d \o Below(d, f) /\ Len(d) < Len(f)
           /\ d = Here => f = Below(d, f)
           /\ \A i \in 1..Len(Below(d, f)) :
                \E j \in 1..Len(f) : Below(d, f)[i] = f[j] /\ (d # Here => j > 1)
<1>1. f \in Path /\ d \in Path /\ d # << >> /\ Len(f) \in Nat /\ Len(d) \in Nat
  BY DotAndSlash, PathParts DEF CleanDir, Dotless
<1>2. CASE d = Here
  <2>1. Below(d, f) = f
    BY <1>2 DEF Below
  <2> QED BY <1>1, <1>2, <2>1
<1>3. CASE d # Here
  <2> DEFINE r == SubSeq(f, Len(d) + 1, Len(f))
  <2>1. Below(d, f) = r /\ IsPrefix(d, f) /\ d # f
    BY <1>3 DEF Under, Below, IsStrictPrefix
  <2>2. Len(d) < Len(f)
    BY <1>1, <2>1, PrefixDef, PathEqual
  <2>3. /\ r \in Path /\ Len(r) = Len(f) - Len(d) /\ f = d \o r
        /\ \A i \in 1..Len(f) - Len(d) : r[i] = f[Len(d) + i]
    BY <1>1, <2>1, PrefixSplit
  <2> HIDE DEF r
  <2>5. ASSUME NEW i \in 1..Len(r) PROVE Len(d) + i \in 1..Len(f) /\ Len(d) + i > 1
    <3>1. Len(d) # 0
      BY <1>1, EmptySeq DEF Path
    <3> QED BY <1>1, <2>3, <3>1
  <2>6. Dotless(r)
    <3>1. r # << >>
      BY <1>1, <2>2, <2>3, PathOne
    <3> QED BY <2>3, <2>5, <3>1 DEF Dotless
  <2> QED BY <1>1, <1>3, <2>1, <2>2, <2>3, <2>5, <2>6
<1> QED BY <1>2, <1>3

(* A file is at one place below a directory.                               *)
LEMMA BelowOne ==
    ASSUME NEW d, CleanDir(d), NEW f, Dotless(f), Under(d, f), NEW g, Dotless(g), Under(d, g),
           Below(d, f) = Below(d, g)
    PROVE  f = g
<1>1. d = Here => f = g
  BY BelowIs
<1>2. d # Here => f = d \o Below(d, f) /\ g = d \o Below(d, g)
  BY BelowIs
<1> QED BY <1>1, <1>2

-----------------------------------------------------------------------------
(* Host to pod.                                                            *)

LEMMA NamesIs ==
    ASSUME NEW p, IsSpelled(p)
    PROVE  /\ p \in Path /\ Names(p) \in Path
           /\ p[1] = "/" => Names(p) = Tail(p) /\ p = Root \o Tail(p)
           /\ p[1] # "/" => Names(p) = p
<1>1. /\ p \in Path /\ p # << >> /\ "/" \in Name /\ Len(p) \in Nat /\ DOMAIN p = 1..Len(p)
      /\ Head(p) = p[1] /\ Tail(p) \in Path /\ p = <<Head(p)>> \o Tail(p)
      /\ Len(Tail(p)) = Len(p) - 1 /\ \A i \in 1..Len(p) - 1 : Tail(p)[i] = p[i + 1]
  BY PathParts, DotAndSlash DEF IsSpelled
<1>2. \A i \in 1..Len(Tail(p)) : Tail(p)[i] # "/"
  BY <1>1 DEF IsSpelled
<1>3. Without(Tail(p), "/") = Tail(p)
  BY <1>1, <1>2, WithoutNames
<1>4. CASE p[1] = "/"
  BY <1>1, <1>3, <1>4, WithoutDef DEF Names, Root
<1>5. CASE p[1] # "/"
  BY <1>1, <1>3, <1>5, WithoutDef DEF Names
<1> QED BY <1>1, <1>4, <1>5

LEMMA ReplaceFirst ==
    ASSUME NEW old \in Path, old # << >>, NEW new \in Path, NEW p \in Path
    PROVE  ReplaceIn(old \o p, old, new) = new \o ReplaceIn(p, old, new)
<1>1. old \o p \in Path /\ IsPrefix(old, old \o p)
  BY PathConcat, PrefixOfConcat
<1>2. SubSeq(old \o p, Len(old) + 1, Len(old \o p)) = p
  BY PrefixOfConcat
<1>3. old \o p # << >>
  <2>1. Len(old \o p) = Len(old) + Len(p) /\ Len(old) \in Nat /\ Len(p) \in Nat
    BY PathConcat, PathParts
  <2>2. Len(old) # 0
    BY EmptySeq DEF Path
  <2> QED BY <2>1, <2>2, PathOne
<1> QED BY <1>1, <1>2, <1>3, ReplacingDef DEF ReplaceIn

LEMMA MiddleOfConcat ==
    ASSUME NEW a \in Path, NEW old \in Path, NEW b \in Path
    PROVE  old \in SubSeqs(a \o (old \o b))
<1> DEFINE p == a \o (old \o b)
           j == Len(a) + Len(old)
           m == Len(a) + 1
<1>1. /\ Len(a) \in Nat /\ Len(old) \in Nat /\ Len(b) \in Nat /\ old \o b \in Path
      /\ Len(old \o b) = Len(old) + Len(b)
  BY PathParts, PathConcat
<1>2. /\ p \in Path /\ Len(p) = Len(a) + Len(old \o b)
      /\ \A k \in 1..Len(old \o b) : p[Len(a) + k] = (old \o b)[k]
  BY <1>1, PathConcat
<1>3. \A k \in 1..Len(old) : (old \o b)[k] = old[k]
  BY PathConcat
<1> HIDE DEF p
<1>4. ASSUME NEW k \in 1..Len(old) PROVE p[m + k - 1] = old[k]
  <2>1. Len(a) + k = m + k - 1 /\ k \in 1..Len(old \o b)
    BY <1>1
  <2> QED BY <1>2, <1>3, <2>1
<1>5. /\ m \in Nat /\ j \in Nat /\ 1 <= m /\ j <= Len(p) /\ j - m + 1 = Len(old)
      /\ (m <= j \/ Len(old) = 0)
      /\ Len(a) \in 0..Len(p) /\ j \in 0..Len(p)
  BY <1>1, <1>2
<1> HIDE DEF m, j
<1>6. /\ SubSeq(p, m, j) \in Path
      /\ Len(SubSeq(p, m, j)) = IF m <= j THEN j - m + 1 ELSE 0
      /\ \A k \in 1..j - m + 1 : SubSeq(p, m, j)[k] = p[m + k - 1]
  BY <1>2, <1>5, PathSub
<1>7. Len(SubSeq(p, m, j)) = Len(old) /\ \A k \in 1..Len(old) : SubSeq(p, m, j)[k] = old[k]
  BY <1>1, <1>4, <1>5, <1>6
<1>8. SubSeq(p, m, j) = old
  BY <1>6, <1>7, PathEqual
<1>9. SubSeq(p, Len(a) + 1, j) = old
  BY <1>8 DEF m
<1>10. \E k \in 0..Len(p), l \in 0..Len(p) : old = SubSeq(p, k + 1, l)
  BY <1>5, <1>9
<1>11. old \in SubSeqs(p)
  BY <1>10 DEF SubSeqs
<1> QED BY <1>11 DEF p

LEMMA ReplaceNone ==
    ASSUME NEW old \in Path, old # << >>, NEW new \in Path, NEW p \in Path,
           old \notin SubSeqs(p)
    PROVE  ReplaceIn(p, old, new) = p
<1> DEFINE Absent(q) == \A a \in Path, b \in Path : q # a \o (old \o b)
           R(q) == ReplaceIn(q, old, new)
           G == {q \in Path : Absent(q) => R(q) = q}
<1>1. Absent(p)
  BY MiddleOfConcat
<1>2. ASSUME NEW q \in Path, \A r \in Path : Len(r) < Len(q) => r \in G, Absent(q)
      PROVE  R(q) = q
  <2>1. CASE q = << >>
    BY <2>1, ReplacingDef DEF ReplaceIn
  <2>2. CASE q # << >>
    <3>1. ~ IsPrefix(old, q)
      <4> SUFFICES ASSUME IsPrefix(old, q) PROVE FALSE
        OBVIOUS
      <4> DEFINE b == SubSeq(q, Len(old) + 1, Len(q))
      <4>1. b \in Path /\ q = old \o b
        BY PrefixSplit
      <4> HIDE DEF b
      <4>2. << >> \in Path /\ old \o b \in Path /\ << >> \o (old \o b) = old \o b
        BY <4>1, PathConcat, PathOne, PathParts
      <4> QED BY <1>2, <4>1, <4>2
    <3>2. R(q) = <<Head(q)>> \o R(Tail(q))
      BY <2>2, <3>1, ReplacingDef DEF ReplaceIn
    <3>3. Tail(q) \in Path /\ <<Head(q)>> \in Path /\ q = <<Head(q)>> \o Tail(q)
          /\ Len(Tail(q)) < Len(q)
      BY <2>2, PathParts
    <3>4. Absent(Tail(q))
      <4> SUFFICES ASSUME NEW a \in Path, NEW b \in Path, Tail(q) = a \o (old \o b) PROVE FALSE
        OBVIOUS
      <4>1. q = <<Head(q)>> \o (a \o (old \o b))
        BY <3>3, Zenon
      <4>2. old \o b \in Path
        BY PathConcat
      <4>3. \E c \in Path : q = c \o (old \o b)
        <5> DEFINE x == <<Head(q)>>
                   y == old \o b
        <5>1. x \in Path /\ y \in Path /\ q = x \o (a \o y)
          BY <3>3, <4>1, <4>2
        <5> HIDE DEF x, y, Absent, R, G
        <5>2. a \in Path
          OBVIOUS
        <5>3. \E c \in Path : x \o (a \o y) = c \o y
          <6>1. x \in Path
            BY <5>1
          <6>2. y \in Path
            BY <5>1
          <6>3. \A u, v, w \in Path : \E c \in Path : u \o (v \o w) = c \o w
            BY PathShift
          <6> QED BY <5>2, <6>1, <6>2, <6>3
        <5> QED BY <5>1, <5>3 DEF y
      <4> QED BY <1>2, <4>3
    <3>5. R(Tail(q)) = Tail(q)
      BY <1>2, <3>3, <3>4
    <3> QED BY <3>2, <3>3, <3>5
  <2> QED BY <2>1, <2>2
<1>3. \A q \in Path : q \in G
  <2> HIDE DEF R, Absent
  <2>1. ASSUME NEW q \in Path, \A r \in Path : Len(r) < Len(q) => r \in G PROVE q \in G
    BY <1>2, <2>1
  <2> HIDE DEF G
  <2> QED BY <2>1, ByLength
<1> HIDE DEF Absent
<1> QED BY <1>1, <1>3

(* Cleaning leaves a path that can be written one, without a dot in it.    *)
LEMMA CleanSpelled ==
    ASSUME NEW p, IsSpelled(p)
    PROVE  /\ p \in Path /\ IsSpelled(Clean(p))
           /\ Clean(p) = Here \/ (IsPath(Clean(p)) /\ Dotless(Clean(p)))
           /\ Clean(Clean(p)) = Clean(p)
           /\ Clean(p)[1] = "/" => p[1] = "/"
           /\ p[1] = "/" => Clean(p) = Root \o Without(Tail(p), ".")
<1> DEFINE c == Clean(p)
           w == Without(p, ".")
<1>1. /\ p \in Path /\ p # << >> /\ DOMAIN p = 1..Len(p) /\ Len(p) \in Nat
      /\ Head(p) = p[1] /\ Tail(p) \in Path /\ <<Head(p)>> \in Path
      /\ \A i \in 1..Len(p) : i > 1 => p[i] # "/"
  BY PathParts DEF IsSpelled
<1>2. /\ c = Here \/ Dotless(c)
      /\ c \in Path /\ c # << >> /\ Clean(c) = c
  BY <1>1, CleanIs
<1>3. /\ w \in Path
      /\ w = IF Head(p) = "." THEN Without(Tail(p), ".") ELSE <<Head(p)>> \o Without(Tail(p), ".")
      /\ Without(Tail(p), ".") \in Path
  BY <1>1, DotAndSlash, WithoutDef
<1>4. /\ \A i \in 1..Len(w) : \E j \in 1..Len(p) : p[j] = w[i]
      /\ \A i \in 1..Len(Without(Tail(p), ".")) :
            \E j \in 1..Len(Tail(p)) : Tail(p)[j] = Without(Tail(p), ".")[i]
  <2>1. "." \in Name
    BY DotAndSlash
  <2>2. \A q \in Path : \A i \in 1..Len(Without(q, ".")) :
            \E j \in 1..Len(q) : q[j] = Without(q, ".")[i]
    <3> SUFFICES ASSUME NEW q \in Path, NEW i \in 1..Len(Without(q, "."))
                 PROVE  \E j \in 1..Len(q) : q[j] = Without(q, ".")[i]
      OBVIOUS
    <3>1. \A k \in 1..Len(Without(q, ".")) :
             Without(q, ".")[k] # "." /\ \E j \in 1..Len(q) : q[j] = Without(q, ".")[k]
      BY <2>1, WithoutNames
    <3> QED BY <3>1
  <2>3. p \in Path /\ Tail(p) \in Path
    BY <1>1
  <2> QED BY <2>2, <2>3
<1>5. \A i \in 1..Len(Without(Tail(p), ".")) : Without(Tail(p), ".")[i] # "/"
  <2>1. \A j \in 1..Len(Tail(p)) : Tail(p)[j] # "/"
    <3>1. /\ Len(Tail(p)) = Len(p) - 1
          /\ \A i \in 1..Len(p) - 1 : Tail(p)[i] = p[i + 1]
      BY <1>1, PathParts
    <3> QED BY <1>1, <3>1
  <2> QED BY <1>4, <2>1
<1>6. \A i \in 1..Len(w) : i > 1 => w[i] # "/"
  <2> DEFINE v == Without(Tail(p), ".")
  <2>1. Len(v) \in Nat
    BY <1>3, PathParts
  <2>2. CASE w = v
    BY <1>5, <2>2
  <2>3. CASE w = <<Head(p)>> \o v
    <3>1. /\ Head(p) \in Name
          /\ \A i \in 1..Len(v) : w[i + 1] = v[i]
          /\ Len(w) = Len(v) + 1
      BY <1>1, <1>3, <2>3, PathParts, PathCons
    <3> HIDE DEF v, w
    <3>2. ASSUME NEW i \in 1..Len(w), i > 1 PROVE i - 1 \in 1..Len(v) /\ w[i] = v[i - 1]
      BY <2>1, <3>1, <3>2
    <3> QED BY <1>5, <3>2 DEF v
  <2> QED BY <1>3, <2>2, <2>3
<1>7. c = IF w = << >> THEN Here ELSE w
  BY DEF Clean
<1>8. IsSpelled(c)
  <2>1. DOMAIN c = 1..Len(c)
    BY <1>2, PathParts
  <2> QED BY <1>2, <1>6, <1>7, <2>1, DotAndSlash DEF IsSpelled
<1>9. c = Here \/ (IsPath(c) /\ Dotless(c))
  <2>1. DOMAIN c = 1..Len(c)
    BY <1>2, PathParts
  <2> QED BY <1>2, <1>8, <2>1 DEF IsPath, Dotless
<1>10. ASSUME c[1] = "/" PROVE p[1] = "/"
  <2>1. c # Here
    BY <1>10, DotAndSlash
  <2>2. w # << >> /\ c = w
    BY <1>7, <2>1
  <2>3. 1 \in 1..Len(w)
    BY <1>3, <2>2, EmptySeq DEF Path
  <2>4. PICK j \in 1..Len(p) : p[j] = "/"
    BY <1>4, <1>10, <2>2, <2>3
  <2> QED BY <1>1, <2>4
<1>11. ASSUME p[1] = "/" PROVE c = Root \o Without(Tail(p), ".")
  <2>1. w = Root \o Without(Tail(p), ".")
    BY <1>1, <1>3, <1>11 DEF Root
  <2>2. w # << >>
    <3>1. "/" \in Name
      BY DotAndSlash
    <3> QED BY <1>3, <2>1, <3>1, PathCons DEF Root
  <2> QED BY <1>7, <2>1, <2>2
<1> QED BY <1>1, <1>2, <1>8, <1>9, <1>10, <1>11

(* The root of a tar in the pod is "/": what is packed under the names of  *)
(* an absolute path, or below them, ends there.                            *)
LEMMA InPodIs ==
    ASSUME NEW dest, IsSpelled(dest), Absolute(Clean(dest))
    PROVE  /\ Clean(dest) \in Path /\ Names(dest) \in Path
           /\ InPod(Names(dest)) = Clean(dest)
           /\ \A r : Dotless(r) => InPod(Names(dest) \o r) = Clean(dest) \o r
<1> DEFINE n == Names(dest)
           w == Without(n, ".")
<1>1. dest[1] = "/" /\ dest \in Path /\ Clean(dest) \in Path
  BY CleanSpelled, CleanIs DEF Absolute
<1>2. n = Tail(dest) /\ n \in Path
  BY <1>1, NamesIs
<1>3. Clean(dest) = Root \o w
  BY <1>1, <1>2, CleanSpelled
<1>4. w \in Path /\ Root \in Path
  BY <1>2, DotAndSlash, WithoutDef
<1>5. ASSUME NEW r, Dotless(r) PROVE InPod(n \o r) = Clean(dest) \o r
  <2>1. Without(r, ".") = r /\ r \in Path
    BY <1>5, DotAndSlash, WithoutNames DEF Dotless
  <2>2. Without(n \o r, ".") = w \o r
    <3>1. "." \in Name
      BY DotAndSlash
    <3> HIDE DEF n
    <3> QED BY <1>2, <2>1, <3>1, WithoutConcat
  <2> HIDE DEF n, w
  <2>3. (Root \o w) \o r = Root \o (w \o r)
    BY <1>4, <2>1, PathAssoc
  <2> QED BY <1>3, <2>2, <2>3 DEF InPod
<1> QED BY <1>1, <1>2, <1>3, <1>5 DEF InPod

LEMMA NamesNotEmpty ==
    ASSUME NEW p, IsSpelled(p), Clean(p) # Root
    PROVE  Names(p) # << >>
<1>1. CASE p[1] = "/"
  <2>1. p = Root \o Names(p)
    BY <1>1, NamesIs
  <2>2. Root \o << >> = Root
    BY DotAndSlash, PathParts
  <2>3. Clean(Root) = Root
    <3>1. /\ "/" \in Name /\ Root \in Path /\ Root # << >> /\ Len(Root) = 1
          /\ Root[1] = "/" /\ "/" # "."
      BY DotAndSlash
    <3>2. Dotless(Root)
      BY <3>1 DEF Dotless
    <3> QED BY <3>1, <3>2, CleanIs
  <2> QED BY <2>1, <2>2, <2>3
<1>2. CASE p[1] # "/"
  BY <1>2, NamesIs DEF IsSpelled
<1> QED BY <1>1, <1>2

LEMMA PathIsClean ==
    ASSUME NEW p, IsPath(p)
    PROVE  Dotless(p) /\ Clean(p) = p /\ p \in Path /\ p # Here
<1>1. Dotless(p)
  BY PathParts DEF IsPath, IsSpelled, Dotless
<1>2. p # Here
  BY <1>1, DotAndSlash DEF Dotless
<1> QED BY <1>1, <1>2, CleanIs DEF Dotless

(* What the archive calls a file that lies in the directory src.           *)
LEMMA EntryOfDir ==
    ASSUME NEW src, IsSpelled(src), Clean(src) = src, src # Here, src # Root,
           NEW dest, IsSpelled(dest), Absolute(Clean(dest)),
           NEW f, IsPath(f), Under(src, f), Names(src) \notin SubSeqs(Below(src, f))
    PROVE  InPod(EntryName(src, dest, f, TRUE)) = Clean(dest) \o Below(src, f)
<1> DEFINE r == Below(src, f)
           name == ReplaceIn(Names(f), Names(src), Names(dest))
<1>1. Dotless(src) /\ Dotless(f) /\ src \in Path /\ f \in Path
  <2>1. Dotless(src)
    BY CleanSpelled
  <2>2. Dotless(f)
    BY PathIsClean
  <2> QED BY <2>1, <2>2 DEF Dotless
<1>2. /\ r \in Path /\ Dotless(r) /\ f = src \o r /\ Len(src) < Len(f)
      /\ \A i \in 1..Len(r) : \E j \in 1..Len(f) : r[i] = f[j] /\ j > 1
  BY <1>1, BelowIs DEF CleanDir
<1>3. \A i \in 1..Len(r) : r[i] # "/"
  <2>1. \A j \in 1..Len(f) : j > 1 => f[j] # "/"
    <3>1. DOMAIN f = 1..Len(f)
      BY <1>1, PathParts
    <3> QED BY <3>1 DEF IsPath, IsSpelled
  <2> HIDE DEF r
  <2> QED BY <1>2, <2>1
<1>4. Names(f) = Names(src) \o r
  <2> HIDE DEF r
  <2>1. Without(src \o r, "/") = Without(src, "/") \o Without(r, "/")
    BY <1>1, <1>2, DotAndSlash, WithoutConcat
  <2>2. Without(r, "/") = r
    BY <1>2, <1>3, DotAndSlash, WithoutNames
  <2> QED BY <1>2, <2>1, <2>2 DEF Names
<1>5. Names(src) # << >> /\ Names(src) \in Path /\ Names(dest) \in Path
  <2>1. Names(src) \in Path /\ Names(dest) \in Path
    BY NamesIs
  <2>2. CASE src[1] = "/"
    <3>1. src = Root \o Names(src)
      BY <2>2, NamesIs
    <3>2. Root \o << >> = Root
      BY DotAndSlash, PathParts
    <3> QED BY <2>1, <3>1, <3>2
  <2>3. CASE src[1] # "/"
    BY <2>1, <2>3, NamesIs DEF IsSpelled
  <2> QED BY <2>1, <2>2, <2>3
<1>6. name = Names(dest) \o r
  <2> HIDE DEF r
  <2>1. ReplaceIn(Names(src) \o r, Names(src), Names(dest))
          = Names(dest) \o ReplaceIn(r, Names(src), Names(dest))
    BY <1>2, <1>5, ReplaceFirst
  <2>2. ReplaceIn(r, Names(src), Names(dest)) = r
    BY <1>2, <1>5, ReplaceNone DEF r
  <2> QED BY <1>4, <2>1, <2>2
<1>7. \E i \in 1..Len(name) : name[i] = Base(f)
  <2> HIDE DEF r, name
  <2>1. /\ Len(r) \in Nat /\ Len(r) # 0 /\ Len(src) \in Nat
        /\ Len(f) = Len(src) + Len(r) /\ f[Len(src) + Len(r)] = r[Len(r)]
    <3>1. Len(r) \in Nat /\ Len(r) # 0 /\ Len(src) \in Nat
      BY <1>1, <1>2, PathParts, EmptySeq DEF Dotless, Path
    <3>2. Len(r) \in 1..Len(r)
      BY <3>1
    <3> QED BY <1>1, <1>2, <3>1, <3>2, PathConcat
  <2>2. /\ Len(Names(dest)) \in Nat /\ Len(name) = Len(Names(dest)) + Len(r)
        /\ name[Len(Names(dest)) + Len(r)] = r[Len(r)]
    <3>1. Len(r) \in 1..Len(r)
      BY <2>1
    <3> QED BY <1>2, <1>5, <1>6, <3>1, PathConcat, PathParts
  <2>3. Base(f) = r[Len(r)]
    BY <2>1 DEF Base, Last
  <2> QED BY <2>1, <2>2, <2>3
<1>8. EntryName(src, dest, f, TRUE) = name
  BY <1>7 DEF EntryName
<1> QED BY <1>2, <1>6, <1>8, InPodIs

(* The archive of a source that addToTar can deal with brings to the pod   *)
(* what it should: a file as the target, a directory with its files below  *)
(* the target.  (addToTar, tar.go:41-102, and tar in the pod.)             *)
THEOREM PackedIsWanted ==
    ASSUME NEW t, IsTree(t),
           NEW src, IsSpelled(src), Clean(src) # Root,
           NEW dest, IsSpelled(dest), Absolute(Clean(dest)),
           \/ IsFile(t, Clean(src))
           \/ /\ Clean(src) = src /\ src # Here
              /\ \A f \in Walked(t, src) : Names(src) \notin SubSeqs(Below(src, f))
    PROVE  Packed(t, src, dest) = Wanted(t, src, Clean(dest))
<1> DEFINE s == Clean(src)
           To(f) == InPod(EntryName(src, dest, f, ~IsFile(t, s)))
           By(f) == Clean(dest) \o Below(s, f)
           W == Walked(t, src)
           F == IF IsFile(t, s) THEN {s} ELSE {f \in DOMAIN t : Under(s, f)}
<1>1. Packed(t, src, dest) =
        [p \in {To(f) : f \in W} |-> t[Clean(CHOOSE f \in W : To(f) = p)]]
  BY DEF Packed
<1>2. Wanted(t, src, Clean(dest)) =
        [p \in {By(f) : f \in F} |-> t[CHOOSE f \in F : By(f) = p]]
  BY DEF Wanted, Moved
<1>3. CASE IsFile(t, s)
  <2>1. W = {src} /\ F = {s}
    BY <1>3 DEF Walked
  <2>2. IsPath(s)
    BY <1>3 DEF IsFile, IsTree
  <2>3. To(src) = Clean(dest)
    <3>1. /\ Names(src) \in Path /\ Names(dest) \in Path /\ << >> \in Path
          /\ Names(src) \o << >> = Names(src) /\ Names(dest) \o << >> = Names(dest)
      BY NamesIs, PathParts, PathOne, DotAndSlash
    <3>2. Names(src) # << >>
      BY NamesNotEmpty
    <3>3. ReplaceIn(<< >>, Names(src), Names(dest)) = << >>
      BY <3>1, <3>2, ReplacingDef DEF ReplaceIn
    <3>4. ReplaceIn(Names(src) \o << >>, Names(src), Names(dest))
            = Names(dest) \o ReplaceIn(<< >>, Names(src), Names(dest))
      BY <3>1, <3>2, ReplaceFirst
    <3>5. EntryName(src, dest, src, FALSE) = Names(dest)
      BY <3>1, <3>3, <3>4 DEF EntryName
    <3> QED BY <1>3, <3>5, InPodIs
  <2>4. By(s) = Clean(dest)
    <3>1. s # Here
      BY <2>2, PathIsClean
    <3>2. s \in Path /\ Clean(dest) \in Path
      BY CleanSpelled, InPodIs DEF IsSpelled
    <3>3. Below(s, s) = << >>
      <4>1. s \o << >> = s
        BY <3>2, PathParts
      <4>2. SubSeq(s \o << >>, Len(s) + 1, Len(s \o << >>)) = << >>
        BY <3>2, PathOne, DotAndSlash, PrefixOfConcat
      <4> QED BY <3>1, <4>1, <4>2 DEF Below
    <3> QED BY <3>2, <3>3, PathParts
  <2>5. t[Clean(CHOOSE f \in W : To(f) = Clean(dest))] = t[s]
    BY <2>1, <2>3
  <2>6. t[CHOOSE f \in F : By(f) = Clean(dest)] = t[s]
    BY <2>1, <2>4
  <2>7. {To(f) : f \in W} = {Clean(dest)} /\ {By(f) : f \in F} = {Clean(dest)}
    BY <2>1, <2>3, <2>4
  <2> HIDE DEF To, By, W, F, s
  <2>8. \A p \in {To(f) : f \in W} :
          t[Clean(CHOOSE f \in W : To(f) = p)] = t[CHOOSE f \in F : By(f) = p]
    BY <2>5, <2>6, <2>7
  <2> QED BY <1>1, <1>2, <2>7, <2>8
<1>4. CASE ~IsFile(t, s)
  <2>1. s = src /\ src # Here /\ src # Root
        /\ \A f \in W : Names(src) \notin SubSeqs(Below(src, f))
    BY <1>4
  <2>2. W = F /\ F = {f \in DOMAIN t : Under(src, f)}
    BY <1>4, <2>1 DEF Walked
  <2>3. ASSUME NEW f \in F PROVE To(f) = By(f) /\ Clean(f) = f
    <3>1. IsPath(f) /\ Under(src, f)
      BY <2>2 DEF IsTree
    <3>2. Clean(f) = f
      BY <3>1, PathIsClean
    <3>3. InPod(EntryName(src, dest, f, TRUE)) = Clean(dest) \o Below(src, f)
      BY <2>1, <2>2, <3>1, EntryOfDir
    <3>4. (~IsFile(t, s)) = TRUE
      BY <1>4
    <3> QED BY <2>1, <3>2, <3>3, <3>4
  <2> HIDE DEF To, By, F
  <2>4. {To(f) : f \in W} = {By(f) : f \in F}
    BY <2>2, <2>3
  <2>5. ASSUME NEW p \in {By(f) : f \in F}
        PROVE  t[Clean(CHOOSE f \in W : To(f) = p)] = t[CHOOSE f \in F : By(f) = p]
    <3>1. (CHOOSE f \in W : To(f) = p) = (CHOOSE f \in F : By(f) = p)
      BY <2>2, <2>3
    <3>2. (CHOOSE f \in F : By(f) = p) \in F
      BY <2>5
    <3> QED BY <2>3, <3>1, <3>2
  <2> QED BY <1>1, <1>2, <2>4, <2>5
<1> QED BY <1>3, <1>4

-----------------------------------------------------------------------------
(* Pod to host.                                                            *)

IsDotless(t) == \A f \in DOMAIN t : Dotless(f)

LEMMA BaseIs ==
    ASSUME NEW p, Dotless(p)
    PROVE  /\ Base(p) \in Name /\ Base(p) # "." /\ <<Base(p)>> \in Path /\ Dotless(<<Base(p)>>)
           /\ Base(p) = p[Len(p)] /\ Len(p) \in Nat \ {0} /\ p \in Path
<1>1. Len(p) \in Nat \ {0} /\ p \in Path
  BY EmptySeq DEF Dotless, Path
<1>2. Base(p) = p[Len(p)]
  BY DEF Base, Last
<1>3. Len(p) \in 1..Len(p)
  BY <1>1
<1>4. p[Len(p)] \in Name
  BY <1>1, <1>3 DEF Path
<1>5. Base(p) # "."
  BY <1>2, <1>3 DEF Dotless
<1> HIDE DEF Base
<1>6. Dotless(<<Base(p)>>)
  BY <1>2, <1>4, <1>5, PathOne DEF Dotless
<1> QED BY <1>1, <1>2, <1>4, <1>5, <1>6, PathOne

(* To join a path without a dot to a clean directory loses nothing.        *)
LEMMA JoinOne ==
    ASSUME NEW d, CleanDir(d), NEW q, Dotless(q)
    PROVE  /\ d \in Path /\ q \in Path /\ Dotless(Join(d, q))
           /\ Join(d, Here \o q) = Join(d, q)
           /\ d # Here => Join(d, q) = d \o q
           /\ d = Here => Join(d, q) = q
           /\ \A r : Dotless(r) /\ Join(d, q) = Join(d, r) => q = r
<1>1. d \in Path /\ q \in Path
  BY DotAndSlash DEF CleanDir, Dotless
<1>2. d = Here => \A r : Dotless(r) => Join(d, r) = r
  BY DotAndSlash, JoinIs DEF Dotless
<1>3. d # Here => \A r : Dotless(r) => Join(d, r) = d \o r /\ Dotless(d \o r)
  BY <1>1, JoinIs DEF Dotless, CleanDir
<1>4. ASSUME NEW r, Dotless(r), Join(d, q) = Join(d, r) PROVE q = r
  <2>1. CASE d = Here
    BY <1>2, <1>4, <2>1
  <2>2. CASE d # Here
    <3>1. r \in Path /\ d \o q = d \o r
      BY <1>3, <1>4, <2>2 DEF Dotless
    <3> QED BY <1>1, <3>1, PathCancel
  <2> QED BY <2>1, <2>2
<1>5. Join(d, Here \o q) = Join(d, q)
  BY <1>1, JoinIs
<1> QED BY <1>1, <1>2, <1>3, <1>4, <1>5

(* A directory is unpacked as it is expected.                              *)
LEMMA UnpackedDir ==
    ASSUME NEW t, IsDotless(t), NEW p, CleanDir(p), ~IsFile(t, p), NEW h, CleanDir(h), NEW h0
    PROVE  Unpacked(Tarred(t, p, FALSE), h) = Expected(t, h0, p, h)
<1> DEFINE F == {f \in DOMAIN t : Under(p, f)}
           To(f) == Join(h, Below(p, f))
           Rel(f) == Here \o Below(p, f)
           u == [n \in {Rel(f) : f \in F} |-> t[CHOOSE f \in F : Rel(f) = n]]
           U == [q \in {Join(h, n) : n \in DOMAIN u} |-> u[CHOOSE n \in DOMAIN u : Join(h, n) = q]]
           E == [q \in {To(f) : f \in F} |-> t[CHOOSE f \in F : To(f) = q]]
<1>1. Expected(t, h0, p, h) = E
  BY DEF Expected, Moved
<1>2. Tarred(t, p, FALSE) = u
  BY DEF Tarred, Moved
<1>3. Unpacked(Tarred(t, p, FALSE), h) = U
  <2> HIDE DEF u
  <2>1. Unpacked(u, h) = U
    BY Zenon DEF Unpacked
  <2> QED BY <1>2, <2>1
<1>4. ASSUME NEW f \in F PROVE Join(h, Rel(f)) = To(f)
  <2>1. Dotless(Below(p, f))
    BY BelowIs DEF IsDotless
  <2> QED BY <2>1, JoinOne
<1>5. ASSUME NEW f \in F, NEW g \in F, To(f) = To(g) PROVE f = g
  <2>1. Dotless(Below(p, f)) /\ Dotless(Below(p, g)) /\ Dotless(f) /\ Dotless(g)
    BY BelowIs DEF IsDotless
  <2>2. Below(p, f) = Below(p, g)
    BY <1>5, <2>1, JoinOne
  <2> QED BY <2>1, <2>2, BelowOne
<1> HIDE DEF F, To, Rel
<1>6. DOMAIN U = DOMAIN E
  <2>1. DOMAIN U = {Join(h, n) : n \in {Rel(f) : f \in F}} /\ DOMAIN E = {To(f) : f \in F}
    OBVIOUS
  <2>2. {Join(h, n) : n \in {Rel(f) : f \in F}} = {Join(h, Rel(f)) : f \in F}
    OBVIOUS
  <2>3. {Join(h, Rel(f)) : f \in F} = {To(f) : f \in F}
    BY <1>4
  <2> QED BY <2>1, <2>2, <2>3
<1>7. ASSUME NEW q \in DOMAIN E PROVE U[q] = E[q]
  <2>1. PICK f \in F : To(f) = q
    OBVIOUS
  <2>2. E[q] = t[f]
    <3>1. (CHOOSE g \in F : To(g) = q) = f
      BY <1>5, <2>1
    <3> QED BY <3>1
  <2>3. ASSUME NEW n \in {Rel(g) : g \in F}, Join(h, n) = q PROVE u[n] = t[f]
    <3>1. PICK g \in F : n = Rel(g)
      OBVIOUS
    <3>2. \A k \in F : Rel(k) = n => k = f
      BY <1>4, <1>5, <2>1, <2>3
    <3>3. (CHOOSE k \in F : Rel(k) = n) = f
      BY <3>1, <3>2
    <3> QED BY <2>3, <3>3
  <2>4. Rel(f) \in {Rel(g) : g \in F} /\ Join(h, Rel(f)) = q
    BY <1>4, <2>1
  <2>5. PICK n : n = CHOOSE k \in {Rel(g) : g \in F} : Join(h, k) = q
    OBVIOUS
  <2>6. n \in {Rel(g) : g \in F} /\ Join(h, n) = q
    BY <2>4, <2>5
  <2>7. U[q] = u[n]
    BY <1>6, <2>5
  <2> QED BY <2>2, <2>3, <2>6, <2>7
<1> HIDE DEF U, E
<1>8. U = [q \in DOMAIN U |-> U[q]] /\ E = [q \in DOMAIN E |-> E[q]]
  BY DEF U, E
<1>9. U = E
  BY <1>6, <1>7, <1>8
<1> QED BY <1>1, <1>3, <1>9

LEMMA UnpackedFile ==
    ASSUME NEW t, NEW p, NEW d
    PROVE  /\ DOMAIN Unpacked(Tarred(t, p, TRUE), d) = {Join(d, <<Base(p)>>)}
           /\ Unpacked(Tarred(t, p, TRUE), d)[Join(d, <<Base(p)>>)] = t[p]
<1> DEFINE b == <<Base(p)>>
           u == [n \in {b} |-> t[p]]
<1>1. Tarred(t, p, TRUE) = u
  BY DEF Tarred
<1>2. Unpacked(u, d) =
        [q \in {Join(d, n) : n \in {b}} |-> u[CHOOSE n \in {b} : Join(d, n) = q]]
  BY DEF Unpacked
<1> HIDE DEF b
<1>3. {Join(d, n) : n \in {b}} = {Join(d, b)}
  OBVIOUS
<1>4. (CHOOSE n \in {b} : Join(d, n) = Join(d, b)) = b
  OBVIOUS
<1> QED BY <1>1, <1>2, <1>3, <1>4 DEF b

(* The directory that a file is unpacked in, and the names in it.          *)
LEMMA DirIs ==
    ASSUME NEW h, Dotless(h), h # Root, NEW b, Dotless(<<b>>), b \in Name
    PROVE  \/ /\ Len(h) = 1 /\ Dir(h) = Here /\ Join(Dir(h), <<b>>) = <<b>>
           \/ /\ Len(h) > 1 /\ Dotless(Dir(h)) /\ Dir(h) \in Path /\ h \in Path
              /\ Join(Dir(h), <<b>>) = Dir(h) \o <<b>>
              /\ h = Dir(h) \o <<Base(h)>>
<1>1. /\ h \in Path /\ Len(h) \in Nat \ {0} /\ Base(h) = h[Len(h)] /\ <<Base(h)>> \in Path
  BY BaseIs
<1>2. CASE Len(h) = 1
  <2>1. h[1] # "/"
    <3>1. ASSUME h[1] = "/" PROVE FALSE
      <4>1. Root \in Path /\ Len(Root) = 1 /\ \A i \in 1..1 : h[i] = Root[i]
        BY <3>1, DotAndSlash
      <4>2. h = Root
        BY <1>1, <1>2, <4>1, PathEqual
      <4> QED BY <4>2
    <3> QED BY <3>1
  <2>2. Dir(h) = Here
    BY <1>2, <2>1 DEF Dir
  <2>3. Join(Here, <<b>>) = <<b>>
    BY JoinOne DEF CleanDir
  <2> QED BY <1>2, <2>2, <2>3
<1>3. CASE Len(h) > 1
  <2> DEFINE n == Len(h) - 1
             f == SubSeq(h, 1, n)
  <2>1. n \in Nat /\ 1 <= n /\ n <= Len(h) /\ n - 1 + 1 = n /\ n + 1 = Len(h)
        /\ \A i \in 1..n : 1 + i - 1 = i /\ i \in 1..Len(h)
    BY <1>1, <1>3
  <2>2. Dir(h) = f
    BY <1>3 DEF Dir, Front
  <2> HIDE DEF n
  <2>3. /\ f \in Path /\ Len(f) = n /\ \A i \in 1..n : f[i] = h[i]
    <3>1. /\ SubSeq(h, 1, n) \in Path
          /\ Len(SubSeq(h, 1, n)) = IF 1 <= n THEN n - 1 + 1 ELSE 0
          /\ \A i \in 1..n - 1 + 1 : SubSeq(h, 1, n)[i] = h[1 + i - 1]
      <4>1. 1 \in Nat /\ 1 <= 1
        OBVIOUS
      <4> QED BY <1>1, <2>1, <4>1, PathSub
    <3> QED BY <2>1, <3>1
  <2> HIDE DEF f
  <2>4. Dotless(f)
    <3>1. f # << >>
      BY <2>1, <2>3, PathOne, DotAndSlash
    <3> QED BY <2>1, <2>3, <3>1 DEF Dotless
  <2>5. h = f \o <<Base(h)>>
    <3> DEFINE g == f \o <<Base(h)>>
    <3>1. /\ g \in Path /\ Len(g) = n + 1 /\ g[n + 1] = Base(h)
          /\ \A i \in 1..n : g[i] = f[i]
      <4>1. Base(h) \in Name
        BY BaseIs
      <4>2. Len(<<Base(h)>>) = 1 /\ <<Base(h)>>[1] = Base(h) /\ 1 \in 1..Len(<<Base(h)>>)
        BY <4>1, PathOne
      <4> HIDE DEF Base
      <4> QED BY <1>1, <2>3, <4>2, PathConcat
    <3> HIDE DEF g, Base
    <3>2. \A i \in 1..Len(h) : i \in 1..n \/ i = n + 1
      BY <2>1
    <3>3. \A i \in 1..Len(h) : h[i] = g[i]
      BY <1>1, <2>1, <2>3, <3>1, <3>2
    <3>4. h = g
      BY <1>1, <2>1, <3>1, <3>3, PathEqual
    <3> QED BY <3>4 DEF g
  <2>6. Join(f, <<b>>) = f \o <<b>>
    <3>1. f # Here /\ CleanDir(f)
      BY <2>1, <2>3, <2>4, DotAndSlash DEF Dotless, CleanDir
    <3> QED BY <3>1, JoinOne
  <2>7. Join(Dir(h), <<b>>) = Dir(h) \o <<b>>
    BY <2>2, <2>6
  <2>8. h = Dir(h) \o <<Base(h)>>
    BY <2>2, <2>5
  <2>9. Dotless(Dir(h)) /\ Dir(h) \in Path
    BY <2>2, <2>3, <2>4
  <2> QED BY <1>1, <1>3, <2>7, <2>8, <2>9, Zenon
<1>4. Len(h) = 1 \/ Len(h) > 1
  <2>1. \A n \in Nat \ {0} : n = 1 \/ n > 1
    OBVIOUS
  <2> QED BY <1>1, <2>1, Zenon
<1> QED BY <1>2, <1>3, <1>4, Zenon

(* A path and one beside it lie in the same directories.                   *)
LEMMA Beside ==
    ASSUME NEW f \in Path, NEW a \in Name, NEW b \in Name, NEW q \in Path,
           IsStrictPrefix(q, f \o <<a>>)
    PROVE  IsStrictPrefix(q, f \o <<b>>)
<1>1. /\ Len(f) \in Nat /\ Len(q) \in Nat /\ <<a>> \in Path /\ <<b>> \in Path
      /\ Len(<<a>>) = 1 /\ Len(<<b>>) = 1
      /\ f \o <<a>> \in Path /\ f \o <<b>> \in Path
  BY PathOne, PathParts, PathConcat
<1>2. /\ Len(f \o <<a>>) = Len(f) + 1 /\ Len(f \o <<b>>) = Len(f) + 1
      /\ \A i \in 1..Len(f) : (f \o <<a>>)[i] = f[i] /\ (f \o <<b>>)[i] = f[i]
  BY <1>1, PathConcat
<1> DEFINE x == f \o <<a>>
           y == f \o <<b>>
<1> HIDE DEF x, y
<1>3. /\ x \in Path /\ y \in Path /\ Len(x) = Len(f) + 1 /\ Len(y) = Len(f) + 1
      /\ \A i \in 1..Len(f) : x[i] = y[i]
      /\ IsPrefix(q, x) /\ q # x
  BY <1>1, <1>2 DEF x, y, IsStrictPrefix
<1>4. Len(q) <= Len(x) /\ \A i \in 1..Len(q) : q[i] = x[i]
  BY <1>3, PrefixDef
<1>5. Len(q) # Len(x)
  BY <1>3, <1>4, PathEqual
<1>6. Len(q) <= Len(f)
  BY <1>1, <1>3, <1>4, <1>5
<1>7. IsPrefix(q, y)
  <2>1. \A i \in 1..Len(q) : i \in 1..Len(f)
    BY <1>1, <1>6
  <2> QED BY <1>1, <1>3, <1>4, <1>6, <2>1, PrefixDef
<1>8. q # y
  BY <1>1, <1>3, <1>6
<1> QED BY <1>7, <1>8 DEF IsStrictPrefix, y

(* What a copy from the pod may do to the host: H becomes G.  Only files   *)
(* that it touches change or are new, and a directory stays one.           *)
Writes(H, G, T) ==
    /\ DOMAIN G \subseteq DOMAIN H \cup T
    /\ \A q \in DOMAIN H \ T : q \in DOMAIN G /\ G[q] = H[q]
    /\ \A q : Dotless(q) /\ IsDir(H, q) => IsDir(G, q)

(* What it should come to: all that is expected, and nothing beside it.    *)
Brought(G, E, T) == Holds(G, E) /\ DOMAIN G \cap (T \ DOMAIN E) = {}

(* The file p of t is unpacked beside its target h.                        *)
Landed(H, t, H0, p, h) ==
    /\ IsFile(t, p) /\ ~IsDir(H0, h) /\ Dir(h) # Here /\ Base(p) # Base(h)
    /\ Landing(p, h) \in DOMAIN H /\ H[Landing(p, h)] = t[p]

LEMMA PutWrites ==
    ASSUME NEW H, NEW u, NEW T, DOMAIN u \subseteq T
    PROVE  Writes(H, Put(H, u), T)
<1>1. /\ DOMAIN Put(H, u) = DOMAIN H \cup DOMAIN u
      /\ \A q \in DOMAIN H \ DOMAIN u : Put(H, u)[q] = H[q]
  BY DEF Put
<1>2. \A q : IsDir(H, q) => IsDir(Put(H, u), q)
  BY <1>1 DEF IsDir
<1> HIDE DEF Put
<1> QED BY <1>1, <1>2 DEF Writes

Single(q, v) == [f \in {q} |-> v]

(* The target of a file that is not a directory, and its place beside it.  *)
LEMMA TouchedFile ==
    ASSUME NEW t, IsDotless(t), NEW p, CleanDir(p), IsFile(t, p),
           NEW h, CleanDir(h), NEW H0, ~IsDir(H0, h)
    PROVE  /\ Expected(t, H0, p, h) = Single(h, t[p])
           /\ Touched(t, H0, p, h) = {h, Landing(p, h)}
           /\ Dotless(h) /\ h # Root /\ ~IsStrictPrefix(h, Landing(p, h))
<1> DEFINE b == Base(p)
           x == Landing(p, h)
<1>1. Dotless(p) /\ b \in Name /\ b # "." /\ Dotless(<<b>>) /\ <<b>> \in Path
  <2>1. Dotless(p)
    BY DEF IsDotless, IsFile
  <2> QED BY <2>1, BaseIs
<1> HIDE DEF b
<1>2. Dotless(h) /\ h # Root /\ h # Here /\ h \in Path /\ Base(h) \in Name
  <2>1. Dotless(h) /\ h # Root /\ h # Here
    BY DEF IsDir, CleanDir
  <2> QED BY <2>1, BaseIs
<1>3. x = Join(Dir(h), <<b>>)
  BY DEF Landing, b
<1>4. Expected(t, H0, p, h) = Single(h, t[p])
  BY DEF Expected, Single
<1>5. Touched(t, H0, p, h) = {h, x}
  <2>1. ExtractDir(H0, h, TRUE) = Dir(h) /\ IsFile(t, p) = TRUE
    BY DEF ExtractDir, IsFile
  <2>2. Touched(t, H0, p, h) = {h} \cup DOMAIN Unpacked(Tarred(t, p, TRUE), Dir(h))
    BY <1>4, <2>1 DEF Touched, Single
  <2>3. DOMAIN Unpacked(Tarred(t, p, TRUE), Dir(h)) = {Join(Dir(h), <<Base(p)>>)}
    BY UnpackedFile
  <2> QED BY <1>3, <2>2, <2>3 DEF b
<1> HIDE DEF x
<1>6. CASE Len(h) = 1 /\ Dir(h) = Here /\ x = <<b>>
  <2>1. ~IsStrictPrefix(h, <<b>>)
    <3>1. Len(<<b>>) = 1 /\ <<b>>[1] = b /\ \A i \in 1..1 : i = 1
      BY <1>1, PathOne
    <3>2. IsPrefix(h, <<b>>) => h = <<b>>
      BY <1>1, <1>2, <1>6, <3>1, PrefixDef, PathEqual
    <3> QED BY <3>2 DEF IsStrictPrefix
  <2> QED BY <1>2, <1>4, <1>5, <1>6, <2>1 DEF x
<1>7. CASE /\ Dotless(Dir(h)) /\ Dir(h) \in Path
           /\ x = Dir(h) \o <<b>> /\ h = Dir(h) \o <<Base(h)>>
  <2>1. ~IsStrictPrefix(h, x)
    <3>1. IsStrictPrefix(h, x) => IsStrictPrefix(h, h)
      BY <1>1, <1>2, <1>7, Beside
    <3> QED BY <3>1 DEF IsStrictPrefix
  <2> QED BY <1>1, <1>2, <1>4, <1>5, <1>7, <2>1 DEF x, b
<1> QED BY <1>1, <1>2, <1>3, <1>6, <1>7, DirIs

LEMMA TouchedBeside ==
    ASSUME NEW t, IsDotless(t), NEW p, CleanDir(p), IsFile(t, p),
           NEW h, CleanDir(h), NEW H0, ~IsDir(H0, h), Dir(h) # Here
    PROVE  /\ Dotless(Dir(h)) /\ Dir(h) \in Path /\ h \in Path
           /\ Base(p) \in Name /\ Base(h) \in Name
           /\ Landing(p, h) = Dir(h) \o <<Base(p)>> /\ h = Dir(h) \o <<Base(h)>>
<1>1. Dotless(p) /\ Dotless(h) /\ h # Root
  BY DEF IsDotless, IsFile, IsDir, CleanDir
<1>2. Base(p) \in Name /\ Dotless(<<Base(p)>>) /\ h \in Path /\ Base(h) \in Name
  BY <1>1, BaseIs
<1> QED BY <1>1, <1>2, DirIs DEF Landing

LEMMA NotBelow ==
    ASSUME NEW t, IsDotless(t), NEW p, CleanDir(p), IsFile(t, p),
           NEW h, CleanDir(h), NEW H0, ~IsDir(H0, h), NEW f, IsStrictPrefix(h, f)
    PROVE  f \notin Touched(t, H0, p, h)
<1>1. Touched(t, H0, p, h) = {h, Landing(p, h)} /\ ~IsStrictPrefix(h, Landing(p, h))
  BY TouchedFile
<1> QED BY <1>1 DEF IsStrictPrefix

(* What is unpacked counts as touched, if the target is a directory as it  *)
(* was in the beginning.                                                   *)
LEMMA UnpackedTouched ==
    ASSUME NEW t, IsDotless(t), NEW p, CleanDir(p), NEW h, CleanDir(h),
           NEW H0, NEW H, IsFile(t, p) => (IsDir(H, h) <=> IsDir(H0, h))
    PROVE  DOMAIN Unpacked(Tarred(t, p, IsFile(t, p)), ExtractDir(H, h, IsFile(t, p)))
             \subseteq Touched(t, H0, p, h)
<1>1. ExtractDir(H, h, IsFile(t, p)) = ExtractDir(H0, h, IsFile(t, p))
  BY DEF ExtractDir
<1> QED BY <1>1 DEF Touched

(* A file that the host does not hinder is where it should be, or beside   *)
(* it and waits for the rename.                                            *)
LEMMA FileUnpacked ==
    ASSUME NEW t, IsDotless(t), NEW p, CleanDir(p), IsFile(t, p),
           NEW h, CleanDir(h), NEW H0, NEW H, IsDir(H, h) <=> IsDir(H0, h),
           NEW d, d = ExtractDir(H, h, TRUE), NEW u, u = Tarred(t, p, TRUE),
           Blocked(H, u, d) = {}, NEW G, G = Put(H, Unpacked(u, d))
    PROVE  IF NeedsRename(G, p, h, TRUE) THEN Landed(G, t, H0, p, h)
           ELSE Brought(G, Expected(t, H0, p, h), Touched(t, H0, p, h))
<1> DEFINE b == Base(p)
           x == Join(d, <<b>>)
           E == Expected(t, H0, p, h)
           T == Touched(t, H0, p, h)
<1>1. Dotless(p) /\ b \in Name /\ b # "." /\ Dotless(<<b>>) /\ <<b>> \in Path
  <2>1. Dotless(p)
    BY DEF IsDotless, IsFile
  <2> QED BY <2>1, BaseIs
<1> HIDE DEF b
<1>2. DOMAIN Unpacked(u, d) = {x} /\ Unpacked(u, d)[x] = t[p]
  <2>1. /\ DOMAIN Unpacked(Tarred(t, p, TRUE), d) = {Join(d, <<Base(p)>>)}
        /\ Unpacked(Tarred(t, p, TRUE), d)[Join(d, <<Base(p)>>)] = t[p]
    BY UnpackedFile
  <2>2. x = Join(d, <<Base(p)>>)
    BY DEF b
  <2> QED BY <2>1, <2>2
<1>3. E = [q \in {IF IsDir(H0, h) THEN Join(h, <<b>>) ELSE h} |-> t[p]]
  BY DEF Expected, b
<1>4. d = IF IsDir(H0, h) THEN h ELSE Dir(h)
  BY DEF ExtractDir
<1>5. T = DOMAIN E \cup {x}
  <2>1. ExtractDir(H0, h, TRUE) = d
    BY <1>4 DEF ExtractDir
  <2>2. IsFile(t, p) = TRUE
    BY DEF IsFile
  <2>3. T = DOMAIN E \cup DOMAIN Unpacked(Tarred(t, p, TRUE), ExtractDir(H0, h, TRUE))
    BY <2>2 DEF Touched
  <2> QED BY <1>2, <2>1, <2>3
<1>6. d # Here
  <2> SUFFICES ASSUME d = Here PROVE FALSE
    OBVIOUS
  <2>1. x = <<b>>
    BY <1>1, JoinOne DEF CleanDir
  <2>2. ~IsPrefix(Here, <<b>>)
    <3>1. Len(Here) = 1 /\ Here[1] = "." /\ Here \in Path /\ <<b>>[1] = b
      BY <1>1, DotAndSlash, PathOne
    <3> QED BY <1>1, <3>1, PrefixDef
  <2>3. Clean(Here) = Here
    BY DotAndSlash, CleanIs
  <2>4. x \in DOMAIN Unpacked(u, d)
    BY <1>2
  <2> QED BY <2>1, <2>2, <2>3, <2>4 DEF Blocked
<1> HIDE DEF E, T, x
<1>7. x \in DOMAIN G /\ G[x] = t[p] /\ (\A f \in DOMAIN H : f \in DOMAIN G)
      /\ \A f \in DOMAIN G : f \in DOMAIN H \/ f = x
  BY <1>2 DEF Put
<1>8. NeedsRename(G, p, h, TRUE) <=> ~IsDir(G, h) /\ b # Base(h)
  BY DEF NeedsRename, b
<1>9. ASSUME E = [q \in {x} |-> t[p]], ~NeedsRename(G, p, h, TRUE)
      PROVE  Brought(G, E, T)
  BY <1>5, <1>7, <1>9 DEF Brought, Holds, IsFile
<1>10. CASE IsDir(H0, h)
  <2>1. IsDir(G, h)
    BY <1>7, <1>10 DEF IsDir
  <2>2. E = [q \in {x} |-> t[p]]
    BY <1>3, <1>4, <1>10 DEF x
  <2> QED BY <1>8, <1>9, <2>1, <2>2 DEF E, T
<1>11. CASE ~IsDir(H0, h)
  <2>1. d = Dir(h) /\ x = Landing(p, h)
    BY <1>4, <1>11 DEF x, Landing, b
  <2>2. /\ Dotless(h) /\ h # Root /\ ~IsStrictPrefix(h, x)
        /\ x = Dir(h) \o <<b>> /\ h = Dir(h) \o <<Base(h)>>
        /\ E = [q \in {h} |-> t[p]]
    <3>1. Dir(h) # Here
      BY <1>6, <2>1
    <3>2. /\ Dotless(h) /\ h # Root /\ ~IsStrictPrefix(h, Landing(p, h))
          /\ Landing(p, h) = Dir(h) \o <<Base(p)>> /\ h = Dir(h) \o <<Base(h)>>
          /\ Expected(t, H0, p, h) = Single(h, t[p])
      BY <1>11, <3>1, TouchedFile, TouchedBeside
    <3> QED BY <2>1, <3>2 DEF E, b, Single
  <2>3. h # Here
    BY <1>11 DEF IsDir
  <2>4. ~IsDir(G, h)
    BY <1>7, <1>11, <2>2, <2>3 DEF IsDir, Under
  <2>5. CASE b = Base(h)
    BY <1>8, <1>9, <2>2, <2>5 DEF E, T
  <2>6. CASE b # Base(h)
    <3>1. Landed(G, t, H0, p, h)
      BY <1>6, <1>7, <1>11, <2>1, <2>6 DEF Landed, b
    <3> QED BY <1>8, <2>4, <2>6, <3>1
  <2> QED BY <2>5, <2>6
<1> QED BY <1>10, <1>11

(* The rename brings it to the target and leaves nothing beside it.        *)
LEMMA FileRenamed ==
    ASSUME NEW t, IsDotless(t), NEW p, CleanDir(p), NEW h, CleanDir(h), NEW H0, NEW H,
           Landed(H, t, H0, p, h), NEW G, G = Renamed(H, Landing(p, h), h)
    PROVE  /\ Brought(G, Expected(t, H0, p, h), Touched(t, H0, p, h))
           /\ Writes(H, G, Touched(t, H0, p, h))
<1> DEFINE b == Base(p)
           d == Dir(h)
           x == Landing(p, h)
           E == Expected(t, H0, p, h)
           T == Touched(t, H0, p, h)
<1>1. /\ IsFile(t, p) /\ ~IsDir(H0, h) /\ d # Here /\ b # Base(h)
      /\ x \in DOMAIN H /\ H[x] = t[p]
  BY DEF Landed
<1>2. /\ E = [q \in {h} |-> t[p]] /\ T = {h, x}
      /\ d \in Path /\ h \in Path /\ b \in Name /\ Base(h) \in Name
      /\ x = d \o <<b>> /\ h = d \o <<Base(h)>>
  <2>1. /\ Expected(t, H0, p, h) = Single(h, t[p])
        /\ Touched(t, H0, p, h) = {h, Landing(p, h)}
        /\ Dir(h) \in Path /\ h \in Path /\ Base(p) \in Name /\ Base(h) \in Name
        /\ Landing(p, h) = Dir(h) \o <<Base(p)>> /\ h = Dir(h) \o <<Base(h)>>
    <3> HIDE DEF b, d, x, E, T
    <3>1. IsFile(t, p) /\ ~IsDir(H0, h) /\ Dir(h) # Here
      BY DEF Landed
    <3> QED BY <3>1, TouchedFile, TouchedBeside
  <2> QED BY <2>1 DEF Single
<1>3. x # h
  <2>1. <<b>> \in Path /\ <<Base(h)>> \in Path /\ <<b>>[1] = b /\ <<Base(h)>>[1] = Base(h)
    BY <1>2, PathOne
  <2> HIDE DEF b, d, x
  <2> QED BY <1>1, <1>2, <2>1, PathCancel
<1>4. /\ DOMAIN G = (DOMAIN H \ {x}) \cup {h} /\ G[h] = t[p]
      /\ \A q \in DOMAIN H \ {x, h} : G[q] = H[q]
  BY <1>1 DEF Renamed
<1> HIDE DEF E, T, x, b, d
<1>5. Brought(G, E, T)
  BY <1>2, <1>3, <1>4 DEF Brought, Holds, IsFile
<1>6. ASSUME NEW q, Dotless(q), IsDir(H, q) PROVE IsDir(G, q)
  <2>1. CASE q = Root
    BY <2>1 DEF IsDir
  <2>2. CASE q # Root
    <3>1. q # Here /\ q \in Path
      BY <1>6, DotAndSlash DEF Dotless
    <3>2. PICK f \in DOMAIN H : Under(q, f)
      BY <1>6, <2>2, <3>1 DEF IsDir
    <3>3. CASE f = x
      <4>1. Under(q, h)
        BY <1>2, <3>1, <3>2, <3>3, Beside DEF Under
      <4> QED BY <1>4, <4>1 DEF IsDir
    <3>4. CASE f # x
      BY <1>4, <3>2, <3>4 DEF IsDir
    <3> QED BY <3>3, <3>4
  <2> QED BY <2>1, <2>2
<1>7. Writes(H, G, T)
  BY <1>2, <1>4, <1>6 DEF Writes
<1> QED BY <1>5, <1>7 DEF E, T

(* A directory that the host does not hinder is where it should be.        *)
LEMMA DirUnpacked ==
    ASSUME NEW t, IsDotless(t), NEW p, CleanDir(p), ~IsFile(t, p),
           NEW h, CleanDir(h), NEW H0, NEW H, NEW G,
           G = Put(H, Unpacked(Tarred(t, p, FALSE), ExtractDir(H, h, FALSE)))
    PROVE  Brought(G, Expected(t, H0, p, h), Touched(t, H0, p, h))
<1> DEFINE E == Expected(t, H0, p, h)
           T == Touched(t, H0, p, h)
<1>1. Unpacked(Tarred(t, p, FALSE), h) = E
  BY UnpackedDir
<1>2. G = Put(H, E)
  BY <1>1 DEF ExtractDir
<1>3. T = DOMAIN E
  <2>1. IsFile(t, p) = FALSE
    BY DEF IsFile
  <2> QED BY <1>1, <2>1 DEF Touched, ExtractDir
<1> HIDE DEF E, T
<1> QED BY <1>2, <1>3 DEF Brought, Holds, Put, IsFile, E, T

(* An extraction that the host does not hinder brings what it should (a    *)
(* file into a directory or as the target, the contents of a directory     *)
(* into the target) or leaves it to the rename, which does; and neither    *)
(* these steps nor an extraction that ends halfway write anything else     *)
(* (CopyFileFromPod, extractTarGz; pod.go:387-506).                        *)
THEOREM CopyBrings ==
    ASSUME NEW t, IsDotless(t), NEW p, CleanDir(p), NEW h, CleanDir(h),
           NEW H0, NEW H, IsFile(t, p) => (IsDir(H, h) <=> IsDir(H0, h)),
           NEW d, d = ExtractDir(H, h, IsFile(t, p)),
           NEW u, u = Unpacked(Tarred(t, p, IsFile(t, p)), d)
    PROVE  LET E == Expected(t, H0, p, h)
               T == Touched(t, H0, p, h)
               G == Put(H, u)
           IN /\ \A v : DOMAIN v \subseteq DOMAIN u => Writes(H, Put(H, v), T)
              /\ Blocked(H, Tarred(t, p, IsFile(t, p)), d) = {} =>
                   IF NeedsRename(G, p, h, IsFile(t, p)) THEN Landed(G, t, H0, p, h)
                   ELSE Brought(G, E, T)
              /\ Landed(H, t, H0, p, h) =>
                   /\ Writes(H, Renamed(H, Landing(p, h), h), T)
                   /\ Brought(Renamed(H, Landing(p, h), h), E, T)
<1> DEFINE E == Expected(t, H0, p, h)
           T == Touched(t, H0, p, h)
           G == Put(H, u)
           R == Renamed(H, Landing(p, h), h)
           B == Blocked(H, Tarred(t, p, IsFile(t, p)), d)
<1>1. ASSUME NEW v, DOMAIN v \subseteq DOMAIN u PROVE Writes(H, Put(H, v), T)
  <2>1. DOMAIN u \subseteq T
    BY UnpackedTouched
  <2> HIDE DEF T
  <2> QED BY <1>1, <2>1, PutWrites
<1>2. ASSUME B = {}
      PROVE  IF NeedsRename(G, p, h, IsFile(t, p)) THEN Landed(G, t, H0, p, h)
             ELSE Brought(G, E, T)
  <2>1. CASE IsFile(t, p)
    <3>1. IsFile(t, p) = TRUE
      BY <2>1 DEF IsFile
    <3> QED BY <1>2, <2>1, <3>1, FileUnpacked
  <2>2. CASE ~IsFile(t, p)
    <3>1. IsFile(t, p) = FALSE
      BY <2>2 DEF IsFile
    <3>2. Brought(G, E, T)
      BY <2>2, <3>1, DirUnpacked
    <3> QED BY <3>1, <3>2 DEF NeedsRename
  <2> QED BY <2>1, <2>2
<1>3. ASSUME Landed(H, t, H0, p, h) PROVE Writes(H, R, T) /\ Brought(R, E, T)
  BY <1>3, FileRenamed
<1> QED BY <1>1, <1>2, <1>3

================================================================================
