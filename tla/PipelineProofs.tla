--------------------------- MODULE PipelineProofs ---------------------------
(***************************************************************************)
(* What the steps of an invocation keep, for any number of them, any disks, *)
(* inputs, archives and outputs, and whatever the file system refuses:     *)
(* lemmas for the command lines and for the window.                        *)
(***************************************************************************)
EXTENDS Decompile, SequenceTheorems, WellFoundedInduction, TLAPS

\* The least and the largest number of a bounded set of numbers.
LEMMA Least ==
  ASSUME NEW S \in SUBSET Nat, S # {}
  PROVE  \E x \in S : \A y \in S : x <= y
<1>1. PICK x \in S : \A y \in S : ~(<<y, x>> \in OpToRel(<, Nat))
  BY NatLessThanWellFounded, WFMin
<1>2. \A y \in S : ~(y < x)
  BY <1>1 DEF OpToRel
<1> QED
  BY <1>2

LEMMA Largest ==
  ASSUME NEW n \in Nat, NEW S \in SUBSET (0 .. n), S # {}
  PROVE  \E x \in S : \A y \in S : y <= x
<1> DEFINE T == {n - x : x \in S}
<1>1. T \in SUBSET Nat /\ T # {}
  <2>1. \A x \in S : n - x \in Nat
    OBVIOUS
  <2> QED
    BY <2>1
<1>2. PICK t \in T : \A u \in T : t <= u
  BY <1>1, Least
<1>3. PICK x \in S : t = n - x
  OBVIOUS
<1>4. ASSUME NEW y \in S PROVE y <= x
  <2>1. n - x <= n - y
    BY <1>2, <1>3
  <2> QED
    BY <2>1
<1> QED
  BY <1>4

-----------------------------------------------------------------------------
(***************************************************************************)
(* Paths.                                                                  *)
(***************************************************************************)
LEMMA UnderPointwise ==
  ASSUME NEW S, NEW p \in Seq(S), NEW q \in Seq(S)
  PROVE  Under(p, q) <=> Len(q) <= Len(p) /\ \A i \in 1 .. Len(q) : p[i] = q[i]
<1>1. SubSeq(q, 1, Len(q)) = q
  OBVIOUS
<1>2. CASE Len(q) <= Len(p)
  <2>1. /\ SubSeq(p, 1, Len(q)) \in Seq(S) /\ Len(SubSeq(p, 1, Len(q))) = Len(q)
        /\ \A i \in 1 .. Len(q) : SubSeq(p, 1, Len(q))[i] = p[i]
    BY <1>2
  <2>2. q = SubSeq(p, 1, Len(q)) <=> \A i \in 1 .. Len(q) : q[i] = SubSeq(p, 1, Len(q))[i]
    BY <2>1, SeqEqual
  <2> QED
    BY <1>1, <1>2, <2>1, <2>2 DEF Under, IsPrefix
<1>3. CASE ~(Len(q) <= Len(p))
  BY <1>3 DEF Under, IsPrefix
<1> QED
  BY <1>2, <1>3

LEMMA FrontFacts ==
  ASSUME NEW S, NEW p \in Seq(S), p # <<>>
  PROVE  /\ Front(p) \in Seq(S) /\ Len(Front(p)) = Len(p) - 1 /\ Len(p) \in Nat \ {0}
         /\ \A i \in 1 .. Len(p) - 1 : Front(p)[i] = p[i]
<1>1. Len(p) \in Nat \ {0}
  BY EmptySeq
<1>2. /\ SubSeq(p, 1, Len(p) - 1) \in Seq(S) /\ Len(SubSeq(p, 1, Len(p) - 1)) = Len(p) - 1
      /\ \A i \in 1 .. Len(p) - 1 : SubSeq(p, 1, Len(p) - 1)[i] = p[i]
  BY <1>1
<1> QED
  BY <1>1, <1>2 DEF Front

\* The prefixes of a path are what it lies under.
LEMMA PrefixesAreAbove ==
  ASSUME NEW S, NEW p \in Seq(S), NEW q
  PROVE  q \in Prefixes(p) <=> q \in Seq(S) /\ Under(p, q)
<1>1. ASSUME q \in Prefixes(p) PROVE q \in Seq(S) /\ Under(p, q)
  <2>1. PICK n \in 0 .. Len(p) : q = SubSeq(p, 1, n)
    BY <1>1 DEF Prefixes
  <2>2. q \in Seq(S) /\ Len(q) = n /\ \A i \in 1 .. n : q[i] = p[i]
    BY <2>1
  <2> QED
    BY <2>2, UnderPointwise
<1>2. ASSUME q \in Seq(S), Under(p, q) PROVE q \in Prefixes(p)
  <2>1. Len(q) \in 0 .. Len(p)
    BY <1>2, UnderPointwise
  <2>2. q = SubSeq(p, 1, Len(q))
    BY <1>2 DEF Under, IsPrefix
  <2> QED
    BY <2>1, <2>2 DEF Prefixes
<1> QED
  BY <1>1, <1>2

LEMMA UnderIsAnOrder ==
  ASSUME NEW S, NEW p \in Seq(S), NEW q \in Seq(S), NEW r \in Seq(S)
  PROVE  /\ Under(p, p)
         /\ Under(p, q) /\ Under(q, r) => Under(p, r)
         /\ Under(p, q) /\ Under(p, r) => Overlap(q, r)
         /\ Under(p, q) /\ Under(q, p) => p = q
<1>1. Under(p, p)
  BY UnderPointwise
<1>2. Under(p, q) /\ Under(q, r) => Under(p, r)
  BY UnderPointwise
<1>3. Under(p, q) /\ Under(p, r) => Overlap(q, r)
  <2>1. CASE Len(q) <= Len(r)
    BY <2>1, UnderPointwise DEF Overlap
  <2>2. CASE Len(r) <= Len(q)
    BY <2>2, UnderPointwise DEF Overlap
  <2> QED
    BY <2>1, <2>2
<1>4. Under(p, q) /\ Under(q, p) => p = q
  BY UnderPointwise, SeqEqual
<1> QED
  BY <1>1, <1>2, <1>3, <1>4

LEMMA FrontIsAbove ==
  ASSUME NEW S, NEW p \in Seq(S), p # <<>>, NEW q \in Seq(S)
  PROVE  /\ Under(p, Front(p)) /\ ~Under(Front(p), p)
         /\ Under(p, q) => q = p \/ Under(Front(p), q)
<1>1. Under(p, Front(p)) /\ ~Under(Front(p), p)
  BY FrontFacts, UnderPointwise
<1>2. ASSUME Under(p, q), q # p PROVE Under(Front(p), q)
  <2>1. Len(q) # Len(p)
    BY <1>2, UnderPointwise, SeqEqual
  <2> QED
    BY <1>2, <2>1, FrontFacts, UnderPointwise
<1> QED
  BY <1>1, <1>2

-----------------------------------------------------------------------------
(***************************************************************************)
(* Resolve, for a name that safe_relative accepts.                         *)
(***************************************************************************)
\* `at' is the way along the first m names: a recursive function, so it is first
\* shown that there is one.
Resolves(root, rel, m, at) ==
  at = [n \in 0 .. m |-> IF n = 0 THEN root ELSE Enter(at[n - 1], rel[n])]

LEMMA ResolveDefined ==
  ASSUME NEW root, NEW rel, NEW m \in Nat
  PROVE  \E at : Resolves(root, rel, m, at)
<1> DEFINE Bad == {n \in Nat : ~\E at : Resolves(root, rel, n, at)}
<1>1. ASSUME Bad # {} PROVE FALSE
  <2>1. PICK n \in Bad : \A k \in Bad : n <= k
    BY <1>1, Least
  <2>2. CASE n = 0
    <3> DEFINE at == [k \in 0 .. 0 |-> root]
    <3>1. at = [k \in 0 .. 0 |-> IF k = 0 THEN root ELSE Enter(at[k - 1], rel[k])]
      OBVIOUS
    <3> QED
      BY <2>1, <2>2, <3>1 DEF Resolves
  <2>3. CASE n # 0
    <3>1. n - 1 \in Nat /\ n - 1 \notin Bad
      BY <2>1, <2>3
    <3>2. PICK at : Resolves(root, rel, n - 1, at)
      BY <3>1
    <3> DEFINE next == [k \in 0 .. n |-> IF k = n THEN Enter(at[n - 1], rel[n]) ELSE at[k]]
    <3>3. ASSUME NEW k \in 0 .. n
          PROVE  next[k] = IF k = 0 THEN root ELSE Enter(next[k - 1], rel[k])
      <4>1. CASE k = n
        BY <2>3, <4>1
      <4>2. CASE k # n
        <5>1. k \in 0 .. (n - 1) /\ next[k] = at[k]
          BY <4>2
        <5>2. at[k] = IF k = 0 THEN root ELSE Enter(at[k - 1], rel[k])
          BY <3>2, <5>1 DEF Resolves
        <5> QED
          BY <5>1, <5>2
      <4> QED
        BY <4>1, <4>2
    <3>4. Resolves(root, rel, n, next)
      BY <3>3 DEF Resolves
    <3> QED
      BY <2>1, <3>4
  <2> QED
    BY <2>2, <2>3
<1> QED
  BY <1>1

LEMMA ResolveSafe ==
  ASSUME NEW S, NEW root \in Seq(S), NEW rel \in Seq(S), SafeRelative(rel)
  PROVE  Resolve(root, rel) = root \o rel
<1>1. PICK at : Resolves(root, rel, Len(rel), at) /\ Resolve(root, rel) = at[Len(rel)]
  <2> DEFINE Way(f) == f = [n \in 0 .. Len(rel) |-> IF n = 0 THEN root ELSE Enter(f[n - 1], rel[n])]
             at == CHOOSE f : Way(f)
  <2>1. Resolve(root, rel) = at[Len(rel)]
    BY DEF Resolve
  <2>2. \E f : Way(f)
    <3>1. Len(rel) \in Nat
      OBVIOUS
    <3>2. PICK f : Resolves(root, rel, Len(rel), f)
      BY <3>1, ResolveDefined
    <3>3. Way(f)
      BY <3>2 DEF Resolves
    <3> QED
      BY <3>3
  <2>3. Way(at)
    BY <2>2
  <2> QED
    BY <2>1, <2>3 DEF Resolves
<1> DEFINE Bad == {n \in 0 .. Len(rel) : at[n] # root \o SubSeq(rel, 1, n)}
<1>2. ASSUME Bad # {} PROVE FALSE
  <2>1. PICK n \in Bad : \A k \in Bad : n <= k
    <3>1. Bad \in SUBSET Nat
      OBVIOUS
    <3> QED
      BY <1>2, <3>1, Least
  <2>2. at[n] = IF n = 0 THEN root ELSE Enter(at[n - 1], rel[n])
    BY <1>1, <2>1 DEF Resolves
  <2>3. CASE n = 0
    <3>1. root \o SubSeq(rel, 1, 0) = root
      OBVIOUS
    <3> QED
      BY <2>1, <2>2, <2>3, <3>1
  <2>4. CASE n # 0
    <3>1. n - 1 \in 0 .. Len(rel) /\ n \in 1 .. Len(rel) /\ at[n - 1] = root \o SubSeq(rel, 1, n - 1)
      BY <2>1, <2>4
    <3>2. rel[n] \notin UnsafeNames /\ rel[n] \in S
      BY <3>1 DEF SafeRelative
    <3>3. at[n] = Append(at[n - 1], rel[n])
      BY <2>2, <2>4, <3>2 DEF Enter, UnsafeNames
    <3>4. SubSeq(rel, 1, n - 1) \in Seq(S) /\ << rel[n] >> \in Seq(S)
      BY <3>1, <3>2
    <3>5. SubSeq(rel, 1, n) = SubSeq(rel, 1, n - 1) \o << rel[n] >>
      BY <3>1, SubSeqRecursiveSecond
    <3>6. root \o SubSeq(rel, 1, n) = (root \o SubSeq(rel, 1, n - 1)) \o << rel[n] >>
      BY <3>4, <3>5, ConcatAssociative
    <3>7. root \o SubSeq(rel, 1, n - 1) \in Seq(S)
      BY <3>4, ConcatProperties
    <3>8. Append(root \o SubSeq(rel, 1, n - 1), rel[n]) = (root \o SubSeq(rel, 1, n - 1)) \o << rel[n] >>
      BY <3>2, <3>7, AppendIsConcat
    <3> QED
      BY <2>1, <3>1, <3>3, <3>6, <3>8
  <2> QED
    BY <2>3, <2>4
<1>3. at[Len(rel)] = root \o SubSeq(rel, 1, Len(rel))
  <2>1. Len(rel) \in 0 .. Len(rel)
    OBVIOUS
  <2> QED
    BY <1>2, <2>1
<1> QED
  BY <1>1, <1>3, SubSeqFull

\* What a safe name leads to lies under the root.
LEMMA JoinedIsUnder ==
  ASSUME NEW S, NEW root \in Seq(S), NEW rel \in Seq(S)
  PROVE  root \o rel \in Seq(S) /\ Under(root \o rel, root)
<1>1. /\ root \o rel \in Seq(S) /\ Len(root \o rel) = Len(root) + Len(rel)
      /\ \A i \in 1 .. Len(root) : (root \o rel)[i] = root[i]
  BY ConcatProperties
<1>2. Len(root) \in Nat /\ Len(rel) \in Nat
  OBVIOUS
<1>3. Len(root) <= Len(root \o rel) /\ \A i \in 1 .. Len(root) : (root \o rel)[i] = root[i]
  BY <1>1, <1>2
<1> QED
  BY <1>1, <1>3, UnderPointwise

\* The paths of an instance are sequences over one set of names.
Names == UNION {ToSet(p) : p \in Paths}

LEMMA PathsAreSequences ==
  ASSUME NEW p \in Paths
  PROVE  p \in Seq(Names)
<1>1. ToSet(p) \subseteq Names
  BY DEF Names
<1> QED
  BY <1>1, PathAssumption, SeqMonotonic

LEMMA PathsAbove ==
  ASSUME NEW p \in Paths, NEW q
  PROVE  /\ q \in Prefixes(p) <=> q \in Paths /\ Under(p, q)
         /\ p # <<>> => Front(p) \in Paths
<1>1. q \in Prefixes(p) <=> q \in Seq(Names) /\ Under(p, q)
  BY PathsAreSequences, PrefixesAreAbove
<1>2. q \in Prefixes(p) => q \in Paths
  BY PathAssumption
<1>3. ASSUME p # <<>> PROVE Front(p) \in Paths
  <2>1. Front(p) \in Seq(Names) /\ Under(p, Front(p))
    BY <1>3, PathsAreSequences, FrontFacts, FrontIsAbove
  <2>2. Front(p) \in Prefixes(p)
    BY <2>1, PathsAreSequences, PrefixesAreAbove
  <2> QED
    BY <2>2, PathAssumption
<1> QED
  BY <1>1, <1>2, <1>3, PathsAreSequences

-----------------------------------------------------------------------------
(***************************************************************************)
(* The disk.                                                               *)
(***************************************************************************)
Content(c) == c \in {Absent, Dir, Torn} \/ c.type = "text" \/ c \in AllImages

GoodDisk(d) == DOMAIN d = Paths /\ IsTree(d) /\ \A p \in Paths : Content(d[p])

LEMMA Contents ==
  ASSUME NEW c, Content(c)
  PROVE  /\ c.type \in {"absent", "dir", "torn", "text", "image"}
         /\ c.type = "absent" <=> c = Absent
         /\ c.type = "dir" <=> c = Dir
         /\ c.type = "image" <=> c \in AllImages
BY DEF Content, Absent, Dir, Torn, AllImages

\* Nothing lies below what is no directory.
LEMMA NothingBelow ==
  ASSUME NEW d, GoodDisk(d), NEW p \in Paths, NEW q \in Paths, Under(q, p), q # p, Exists(d, q)
  PROVE  d[p].type = "dir"
<1> SUFFICES ASSUME d[p].type # "dir" PROVE FALSE
  OBVIOUS
<1> DEFINE Bad == {k \in 0 .. Len(q) : SubSeq(q, 1, k) # q /\ d[SubSeq(q, 1, k)].type # "dir"}
<1>1. p \in Seq(Names) /\ q \in Seq(Names) /\ Len(q) \in Nat /\ Len(p) \in Nat
  BY PathsAreSequences
<1>2. Len(p) \in Bad
  <2>1. p = SubSeq(q, 1, Len(p)) /\ Len(p) <= Len(q)
    BY <1>1, SubSeqFull DEF Under, IsPrefix
  <2>2. Len(p) \in 0 .. Len(q)
    BY <1>1, <2>1
  <2> QED
    BY <2>1, <2>2
<1>3. PICK k \in Bad : \A j \in Bad : j <= k
  <2>1. Bad \in SUBSET (0 .. Len(q))
    OBVIOUS
  <2> QED
    BY <1>1, <1>2, <2>1, Largest
<1> DEFINE next == SubSeq(q, 1, k + 1)
<1>4. k + 1 \in 1 .. Len(q)
  BY <1>1, <1>3, SubSeqFull
<1>5. next \in Seq(Names) /\ Len(next) = k + 1 /\ \A i \in 1 .. k + 1 : next[i] = q[i]
  BY <1>1, <1>4
<1>6. next \in Paths /\ next # <<>>
  <2>1. next \in Prefixes(q)
    BY <1>4 DEF Prefixes
  <2>2. next # <<>>
    BY <1>4, <1>5
  <2> QED
    BY <2>1, <2>2, PathsAbove
<1>7. Exists(d, next)
  <2>1. CASE next = q
    BY <2>1
  <2>2. CASE next # q
    <3>1. k + 1 \notin Bad
      BY <1>3
    <3> QED
      BY <1>4, <2>2, <3>1 DEF Exists
  <2> QED
    BY <2>1, <2>2
<1>8. Front(next) = SubSeq(q, 1, k)
  <2>1. /\ Front(next) \in Seq(Names) /\ Len(Front(next)) = k
        /\ \A i \in 1 .. k : Front(next)[i] = q[i]
    <3>1. k \in Nat /\ Len(next) - 1 = k /\ next \in Seq(Names) /\ next # <<>>
      BY <1>3, <1>5, <1>6
    <3>2. /\ Front(next) \in Seq(Names) /\ Len(Front(next)) = k
          /\ \A i \in 1 .. k : Front(next)[i] = next[i]
      BY <3>1, FrontFacts
    <3> QED
      BY <1>5, <3>1, <3>2
  <2>2. /\ SubSeq(q, 1, k) \in Seq(Names) /\ Len(SubSeq(q, 1, k)) = k
        /\ \A i \in 1 .. k : SubSeq(q, 1, k)[i] = q[i]
    BY <1>1, <1>3
  <2> QED
    BY <2>1, <2>2, SeqEqual
<1> QED
  BY <1>3, <1>6, <1>7, <1>8 DEF GoodDisk, IsTree

LEMMA RemoveKeeps ==
  ASSUME NEW d, GoodDisk(d), NEW p \in Paths
  PROVE  GoodDisk(RemoveExisting(d, p))
<1> DEFINE e == RemoveExisting(d, p)
<1>1. DOMAIN e = Paths /\ \A q \in Paths : e[q] = IF Under(q, p) THEN Absent ELSE d[q]
  BY DEF RemoveExisting, GoodDisk
<1>2. ASSUME NEW q \in Paths, q # <<>>, Exists(e, q) PROVE e[Front(q)].type = "dir"
  <2>1. ~Under(q, p) /\ Exists(d, q)
    BY <1>1, <1>2 DEF Exists, Absent
  <2>2. Front(q) \in Paths /\ d[Front(q)].type = "dir"
    BY <1>2, <2>1, PathsAbove DEF GoodDisk, IsTree
  <2>3. ~Under(Front(q), p)
    BY <1>2, <2>1, <2>2, PathsAreSequences, FrontIsAbove, UnderIsAnOrder
  <2> QED
    BY <1>1, <2>2, <2>3
<1>3. \A q \in Paths : Content(e[q])
  BY <1>1 DEF GoodDisk, Content
<1> QED
  BY <1>1, <1>2, <1>3 DEF GoodDisk, IsTree

LEMMA CreateKeeps ==
  ASSUME NEW d, GoodDisk(d), NEW p \in Paths
  PROVE  GoodDisk(CreateDirAll(d, p))
<1> DEFINE e == CreateDirAll(d, p)
<1>1. DOMAIN e = Paths /\ \A q \in Paths : e[q] = IF q \in Prefixes(p) THEN Dir ELSE d[q]
  BY DEF CreateDirAll, GoodDisk
<1>2. ASSUME NEW q \in Paths, q # <<>>, Exists(e, q) PROVE e[Front(q)].type = "dir"
  <2>1. Front(q) \in Paths
    BY <1>2, PathsAbove
  <2>2. CASE q \in Prefixes(p)
    <3>1. Under(p, Front(q))
      BY <1>2, <2>1, <2>2, PathsAbove, PathsAreSequences, FrontIsAbove, UnderIsAnOrder
    <3> QED
      BY <1>1, <2>1, <3>1, PathsAbove DEF Dir
  <2>3. CASE q \notin Prefixes(p)
    BY <1>1, <1>2, <2>1, <2>3 DEF Exists, GoodDisk, IsTree, Dir
  <2> QED
    BY <2>2, <2>3
<1>3. \A q \in Paths : Content(e[q])
  BY <1>1 DEF GoodDisk, Content
<1> QED
  BY <1>1, <1>2, <1>3 DEF GoodDisk, IsTree

\* create_dir_all makes directories where nothing was, and touches no file.
LEMMA CreatesDirsOnly ==
  ASSUME NEW d, GoodDisk(d), NEW p \in Paths, CanCreateDirs(d, p), NEW q \in Paths
  PROVE  /\ CreateDirAll(d, p)[q] # d[q] => /\ Under(p, q) /\ d[q] = Absent
                                            /\ CreateDirAll(d, p)[q] = Dir
         /\ IsFile(CreateDirAll(d, p), q) <=> IsFile(d, q)
         /\ IsFile(d, q) => CreateDirAll(d, p)[q] = d[q]
<1>1. CreateDirAll(d, p)[q] = IF q \in Prefixes(p) THEN Dir ELSE d[q]
  BY DEF CreateDirAll, GoodDisk
<1>2. q \in Prefixes(p) => Under(p, q) /\ ~IsFile(d, q)
  BY PathsAbove DEF CanCreateDirs
<1>3. ~IsFile(d, q) => d[q] = Absent \/ d[q] = Dir
  BY Contents DEF GoodDisk, IsFile, Exists
<1>4. ~IsFile(CreateDirAll(d, p), q) \/ CreateDirAll(d, p)[q] = d[q]
  BY <1>1 DEF IsFile, Exists, Dir
<1>5. CreateDirAll(d, p)[q] = d[q] => (IsFile(CreateDirAll(d, p), q) <=> IsFile(d, q))
  BY DEF IsFile, Exists
<1> QED
  BY <1>1, <1>2, <1>3, <1>4, <1>5

LEMMA WriteKeeps ==
  ASSUME NEW d, GoodDisk(d), NEW p \in Paths, CanWrite(d, p), NEW c, Content(c), c.type # "dir"
  PROVE  GoodDisk([d EXCEPT ![p] = c])
<1> DEFINE e == [d EXCEPT ![p] = c]
<1>1. DOMAIN e = Paths /\ \A q \in Paths : e[q] = IF q = p THEN c ELSE d[q]
  BY DEF GoodDisk
<1>2. ASSUME NEW q \in Paths, q # <<>>, Exists(e, q) PROVE e[Front(q)].type = "dir"
  <2>1. Front(q) \in Paths /\ d[Front(q)].type = "dir"
    BY <1>1, <1>2, PathsAbove DEF CanWrite, Exists, GoodDisk, IsTree
  <2>2. Front(q) # p
    BY <2>1 DEF CanWrite
  <2> QED
    BY <1>1, <2>1, <2>2
<1>3. \A q \in Paths : Content(e[q])
  BY <1>1 DEF GoodDisk
<1> QED
  BY <1>1, <1>2, <1>3 DEF GoodDisk, IsTree

\* Some files go.
LEMMA DropKeeps ==
  ASSUME NEW d, GoodDisk(d), NEW left, \A p \in left : IsFile(d, p)
  PROVE  GoodDisk([p \in Paths |-> IF p \in left THEN Absent ELSE d[p]])
<1> DEFINE e == [p \in Paths |-> IF p \in left THEN Absent ELSE d[p]]
<1>1. ASSUME NEW q \in Paths, q # <<>>, Exists(e, q) PROVE e[Front(q)].type = "dir"
  <2>1. Exists(d, q)
    BY <1>1 DEF Exists, Absent
  <2>2. Front(q) \in Paths /\ d[Front(q)].type = "dir"
    BY <1>1, <2>1, PathsAbove DEF GoodDisk, IsTree
  <2>3. Front(q) \notin left
    BY <2>2 DEF IsFile
  <2> QED
    BY <2>2, <2>3
<1>2. \A q \in Paths : Content(e[q])
  BY DEF GoodDisk, Content
<1> QED
  BY <1>1, <1>2 DEF GoodDisk, IsTree

-----------------------------------------------------------------------------
(***************************************************************************)
(* The runs.                                                               *)
(***************************************************************************)
Files(run)      == EngineFiles(run.kind, run.data)
SafeAt(run, n)  == run.kind \in TreeKinds => SafeRelative(Files(run)[n])
FileAt(run, n)  == IF run.kind \in TreeKinds THEN Resolve(run.output, Files(run)[n]) ELSE run.output
TextAt(run, n)  == EngineText(run.kind, run.format, run.data, n)
WrittenBy(run)  == {FileAt(run, n) : n \in 1 .. run.written}

Fields == {"stage", "input", "output", "force", "format", "kind", "data", "written", "error"}

HasRead(run) == run.stage \notin {"detect", "read"} /\ run.error \notin {"detect", "input"}
Writes(run)  == run.stage \in {"write", "ok"} \/ run.error \in {"write", "path"}

\* A run that writes has an engine's files, and has written the first of them under
\* names that are safe.
GoodRun(run) ==
  /\ DOMAIN run = Fields
  /\ RunRecord(run)
  /\ run.output \in AllOutputs
  /\ Content(run.data)
  /\ HasRead(run) => run.data.type \notin {"absent", "dir"}
  /\ ~Writes(run) => run.written = 0
  /\ Writes(run) => /\ EngineAccepts(run.kind, run.data)
                    /\ run.written \in 0 .. Len(Files(run))
                    /\ \A n \in 1 .. run.written : SafeAt(run, n)
  /\ run.stage = "ok" => run.written = Len(Files(run))

Typed ==
  /\ GoodDisk(disk)
  /\ DOMAIN runs = Runs
  /\ \A r \in Runs : runs[r] = Idle \/ GoodRun(runs[r])

\* What a step of r may do to the disk.
Footprint(r) ==
  \A p \in Paths : disk'[p] # disk[p] =>
    \/ Under(p, runs[r].output)
    \/ Under(runs[r].output, p) /\ disk[p] = Absent /\ disk'[p] = Dir

\* A step of r changes its own record, and of that what is listed.
Becomes(r, stage, error, kind, data, written) ==
  /\ DOMAIN runs' = Runs
  /\ \A q \in Runs \ {r} : runs'[q] = runs[q]
  /\ DOMAIN runs'[r] = Fields
  /\ runs'[r].stage = stage /\ runs'[r].error = error
  /\ runs'[r].kind = kind /\ runs'[r].data = data /\ runs'[r].written = written
  /\ runs'[r].input = runs[r].input /\ runs'[r].output = runs[r].output
  /\ runs'[r].force = runs[r].force /\ runs'[r].format = runs[r].format

LEMMA NotIdle ==
  ASSUME Typed, NEW r \in Runs, ~At(r, "idle")
  PROVE  GoodRun(runs[r])
BY DEF Typed, At, Idle

LEMMA Moves ==
  ASSUME Typed, NEW r \in Runs, GoodRun(runs[r])
  PROVE  /\ \A s : Goto(r, s) =>
              Becomes(r, s, runs[r].error, runs[r].kind, runs[r].data, runs[r].written)
         /\ \A e : Fail(r, e) =>
              Becomes(r, "err", e, runs[r].kind, runs[r].data, runs[r].written)
         /\ \A s, k : runs' = [runs EXCEPT ![r].stage = s, ![r].kind = k] =>
              Becomes(r, s, runs[r].error, k, runs[r].data, runs[r].written)
         /\ \A s, d : runs' = [runs EXCEPT ![r].stage = s, ![r].data = d] =>
              Becomes(r, s, runs[r].error, runs[r].kind, d, runs[r].written)
         /\ runs' = [runs EXCEPT ![r].written = @ + 1] =>
              Becomes(r, runs[r].stage, runs[r].error, runs[r].kind, runs[r].data, runs[r].written + 1)
<1> USE DEF Becomes, GoodRun, Fields, Typed
<1>1. ASSUME NEW s, Goto(r, s)
      PROVE  Becomes(r, s, runs[r].error, runs[r].kind, runs[r].data, runs[r].written)
  BY <1>1 DEF Goto
<1>2. ASSUME NEW e, Fail(r, e)
      PROVE  Becomes(r, "err", e, runs[r].kind, runs[r].data, runs[r].written)
  BY <1>2 DEF Fail
<1>3. ASSUME NEW s, NEW k, runs' = [runs EXCEPT ![r].stage = s, ![r].kind = k]
      PROVE  Becomes(r, s, runs[r].error, k, runs[r].data, runs[r].written)
  BY <1>3
<1>4. ASSUME NEW s, NEW d, runs' = [runs EXCEPT ![r].stage = s, ![r].data = d]
      PROVE  Becomes(r, s, runs[r].error, runs[r].kind, d, runs[r].written)
  BY <1>4
<1>5. ASSUME runs' = [runs EXCEPT ![r].written = @ + 1]
      PROVE  Becomes(r, runs[r].stage, runs[r].error, runs[r].kind, runs[r].data, runs[r].written + 1)
  BY <1>5
<1> QED
  BY <1>1, <1>2, <1>3, <1>4, <1>5

LEMMA KindIsKnown ==
  ASSUME NEW c, Content(c), c.type \notin {"absent", "dir"}
  PROVE  KindOf(c) \in FileKinds /\ KindOf(c) \in {i.kind : i \in AllImages} \cup TotalKinds
<1>1. CASE c.type = "image"
  <2>1. c \in AllImages /\ KindOf(c) = c.kind
    BY <1>1, Contents DEF KindOf
  <2> QED
    BY <2>1, ImageAssumption
<1>2. CASE c.type = "text"
  BY <1>2 DEF KindOf, FileKinds, TotalKinds
<1>3. CASE c.type = "torn"
  BY <1>3 DEF KindOf, FileKinds, TotalKinds
<1> QED
  BY <1>1, <1>2, <1>3, Contents

\* The files of an engine that accepts the data, and where they go.
LEMMA FilesOf ==
  ASSUME NEW run, GoodRun(run), EngineAccepts(run.kind, run.data)
  PROVE  /\ Len(Files(run)) \in Nat /\ DOMAIN Files(run) = 1 .. Len(Files(run))
         /\ \A n \in 1 .. Len(Files(run)) : SafeAt(run, n) =>
              FileAt(run, n) \in Paths /\ Under(FileAt(run, n), run.output)
<1>1. run.output \in Paths
  BY DEF GoodRun, RunRecord
<1>2. CASE run.kind \notin TreeKinds
  <2>1. Files(run) = << <<>> >>
    BY <1>2 DEF Files, EngineFiles
  <2>2. Under(run.output, run.output)
    BY <1>1, PathsAreSequences, UnderIsAnOrder
  <2> QED
    BY <1>1, <1>2, <2>1, <2>2 DEF FileAt
<1>3. CASE run.kind \in TreeKinds
  <2>1. run.data.type = "image" /\ run.data.kind = run.kind
    BY <1>3 DEF EngineAccepts, TreeKinds, TotalKinds
  <2>2. run.data \in AllImages
    BY <2>1, Contents DEF GoodRun
  <2>3. /\ Files(run) = run.data.members /\ run.data.members \in Seq(ToSet(run.data.members))
        /\ \A m \in ToSet(run.data.members) : m \in Seq(ToSet(m))
    BY <1>3, <2>1, <2>2, ImageAssumption DEF Files, EngineFiles
  <2>4. Len(Files(run)) \in Nat /\ DOMAIN Files(run) = 1 .. Len(Files(run))
    BY <2>3
  <2>5. ASSUME NEW n \in 1 .. Len(Files(run)), SafeAt(run, n)
        PROVE  FileAt(run, n) \in Paths /\ Under(FileAt(run, n), run.output)
    <3> DEFINE m == Files(run)[n]
               S == Names \cup ToSet(m)
    <3>1. m \in ToSet(run.data.members) /\ SafeRelative(m)
      BY <1>3, <2>3, <2>5 DEF ToSet, SafeAt
    <3>2. m \in Seq(ToSet(m))
      BY <2>3, <3>1
    <3>3. m \in Seq(S) /\ run.output \in Seq(S)
      <4>1. Names \subseteq S /\ ToSet(m) \subseteq S
        OBVIOUS
      <4>2. m \in Seq(S)
        BY <3>2, <4>1, SeqMonotonic
      <4>3. run.output \in Seq(S)
        BY <1>1, <4>1, PathsAreSequences, SeqMonotonic
      <4> QED
        BY <4>2, <4>3
    <3>4. FileAt(run, n) = run.output \o m
      BY <1>3, <3>1, <3>3, ResolveSafe DEF FileAt
    <3>5. run.output \o m \in Paths
      BY <1>3, <2>1, <2>2, <3>1, OutputAssumption DEF GoodRun
    <3>6. Under(run.output \o m, run.output)
      BY <3>3, JoinedIsUnder
    <3> QED
      BY <3>4, <3>5, <3>6
  <2> QED
    BY <2>4, <2>5
<1> QED
  BY <1>2, <1>3

\* What an engine returns is no directory.
LEMMA TextIsFile ==
  ASSUME NEW run, GoodRun(run), HasRead(run), NEW n
  PROVE  Content(TextAt(run, n)) /\ TextAt(run, n).type \notin {"absent", "dir"}
<1>1. CASE run.kind = "source"
  BY <1>1 DEF TextAt, EngineText, GoodRun
<1>2. CASE run.kind # "source"
  <2>1. TextAt(run, n).type = "text"
    BY <1>2 DEF TextAt, EngineText, Text
  <2> QED
    BY <2>1 DEF Content
<1> QED
  BY <1>1, <1>2

-----------------------------------------------------------------------------
(***************************************************************************)
(* The steps, one lemma for each that changes the disk or says more of the *)
(* record.                                                                 *)
(***************************************************************************)
StepIsGood(r) ==
  /\ GoodDisk(disk')
  /\ Footprint(r)
  /\ DOMAIN runs' = Runs /\ \A q \in Runs \ {r} : runs'[q] = runs[q]
  /\ GoodRun(runs'[r])
  /\ runs'[r].output = runs[r].output /\ runs'[r].input = runs[r].input
  /\ runs'[r].format = runs[r].format

LEMMA DiskSame ==
  ASSUME Typed, NEW r \in Runs, UNCHANGED disk
  PROVE  GoodDisk(disk') /\ Footprint(r)
BY DEF Typed, Footprint

LEMMA Detects ==
  ASSUME Typed, NEW r \in Runs, GoodRun(runs[r]), Detect(r)
  PROVE  StepIsGood(r)
<1>1. runs[r].stage = "detect" /\ UNCHANGED disk /\ runs[r].input \in Paths /\ GoodDisk(disk)
  BY PathAssumption DEF Detect, At, Typed, GoodRun, RunRecord
<1>2. CASE Fail(r, "detect")
  <2>1. Becomes(r, "err", "detect", runs[r].kind, runs[r].data, runs[r].written)
    BY <1>2, Moves
  <2>2. GoodRun(runs'[r])
    BY <1>1, <2>1 DEF Becomes, GoodRun, RunRecord, HasRead, Writes
  <2> QED
    BY <1>1, <2>1, <2>2, DiskSame DEF Becomes, StepIsGood
<1>3. CASE /\ IsFile(disk, runs[r].input)
           /\ runs' = [runs EXCEPT ![r].stage = "read", ![r].kind = KindOf(disk[runs[r].input])]
  <2>1. Becomes(r, "read", runs[r].error, KindOf(disk[runs[r].input]), runs[r].data, runs[r].written)
    BY <1>3, Moves
  <2>2. KindOf(disk[runs[r].input]) \in FileKinds
    BY <1>1, <1>3, KindIsKnown DEF GoodDisk, IsFile, Exists
  <2>3. GoodRun(runs'[r])
    BY <1>1, <2>1, <2>2 DEF Becomes, GoodRun, RunRecord, HasRead, Writes
  <2> QED
    BY <1>1, <2>1, <2>3, DiskSame DEF Becomes, StepIsGood
<1> QED
  BY <1>2, <1>3 DEF Detect

LEMMA Reads ==
  ASSUME Typed, NEW r \in Runs, GoodRun(runs[r]), ReadInput(r)
  PROVE  StepIsGood(r)
<1>1. runs[r].stage = "read" /\ UNCHANGED disk /\ runs[r].input \in Paths /\ GoodDisk(disk)
  BY PathAssumption DEF ReadInput, At, Typed, GoodRun, RunRecord
<1>2. CASE Fail(r, "input")
  <2>1. Becomes(r, "err", "input", runs[r].kind, runs[r].data, runs[r].written)
    BY <1>2, Moves
  <2>2. GoodRun(runs'[r])
    BY <1>1, <2>1 DEF Becomes, GoodRun, RunRecord, HasRead, Writes
  <2> QED
    BY <1>1, <2>1, <2>2, DiskSame DEF Becomes, StepIsGood
<1>3. CASE /\ IsFile(disk, runs[r].input)
           /\ runs' = [runs EXCEPT ![r].stage = "prepare", ![r].data = disk[runs[r].input]]
  <2>1. Becomes(r, "prepare", runs[r].error, runs[r].kind, disk[runs[r].input], runs[r].written)
    BY <1>3, Moves
  <2>2. Content(disk[runs[r].input]) /\ disk[runs[r].input].type \notin {"absent", "dir"}
    BY <1>1, <1>3 DEF GoodDisk, IsFile, Exists
  <2>3. GoodRun(runs'[r])
    BY <1>1, <2>1, <2>2 DEF Becomes, GoodRun, RunRecord, HasRead, Writes
  <2> QED
    BY <1>1, <2>1, <2>3, DiskSame DEF Becomes, StepIsGood
<1> QED
  BY <1>2, <1>3 DEF ReadInput

LEMMA Refused ==
  ASSUME Typed, NEW r \in Runs, GoodRun(runs[r]), OutputExists(r)
  PROVE  StepIsGood(r)
<1>1. runs[r].stage = "prepare" /\ UNCHANGED disk
  BY DEF OutputExists, At
<1>2. Becomes(r, "err", "exists", runs[r].kind, runs[r].data, runs[r].written)
  BY Moves DEF OutputExists
<1>3. GoodRun(runs'[r])
  BY <1>1, <1>2 DEF Becomes, GoodRun, RunRecord, HasRead, Writes
<1> QED
  BY <1>1, <1>2, <1>3, DiskSame DEF Becomes, StepIsGood

\* The output goes, and the directories above it come.
LEMMA PreparedDisk ==
  ASSUME NEW d, GoodDisk(d), NEW out \in Paths \ {<<>>}, CanCreateDirs(RemoveExisting(d, out), Front(out))
  PROVE  LET e == CreateDirAll(RemoveExisting(d, out), Front(out))
         IN  /\ GoodDisk(e)
             /\ \A p \in Paths : Under(p, out) => e[p] = Absent
             /\ \A p \in Paths : e[p] # d[p] =>
                  \/ Under(p, out)
                  \/ Under(out, p) /\ d[p] = Absent /\ e[p] = Dir
<1> DEFINE c == RemoveExisting(d, out)
           e == CreateDirAll(c, Front(out))
<1>1. GoodDisk(c) /\ Front(out) \in Paths
  BY RemoveKeeps, PathsAbove
<1>2. GoodDisk(e)
  BY <1>1, CreateKeeps
<1>3. ASSUME NEW p \in Paths
      PROVE  /\ c[p] = IF Under(p, out) THEN Absent ELSE d[p]
             /\ e[p] # c[p] => Under(Front(out), p) /\ c[p] = Absent /\ e[p] = Dir
             /\ Under(Front(out), p) => Under(out, p) /\ ~Under(p, out)
  <2>1. c[p] = IF Under(p, out) THEN Absent ELSE d[p]
    BY DEF RemoveExisting, GoodDisk
  <2>2. e[p] # c[p] => Under(Front(out), p) /\ c[p] = Absent /\ e[p] = Dir
    BY <1>1, CreatesDirsOnly
  <2>3. ASSUME Under(Front(out), p) PROVE Under(out, p) /\ ~Under(p, out)
    <3>1. out \in Seq(Names) /\ p \in Seq(Names) /\ Front(out) \in Seq(Names)
      BY <1>1, PathsAreSequences
    <3>2. Under(out, Front(out)) /\ ~Under(Front(out), out)
      BY <3>1, FrontIsAbove
    <3> QED
      BY <2>3, <3>1, <3>2, UnderIsAnOrder
  <2> QED
    BY <2>1, <2>2, <2>3
<1>4. \A p \in Paths : Under(p, out) => e[p] = Absent
  BY <1>3
<1>5. \A p \in Paths : e[p] # d[p] =>
        \/ Under(p, out)
        \/ Under(out, p) /\ d[p] = Absent /\ e[p] = Dir
  BY <1>3
<1> QED
  BY <1>2, <1>4, <1>5

LEMMA Prepares ==
  ASSUME Typed, NEW r \in Runs, GoodRun(runs[r]), PrepareOutput(r)
  PROVE  StepIsGood(r)
<1> DEFINE out     == runs[r].output
           cleared == RemoveExisting(disk, out)
<1>1. runs[r].stage = "prepare" /\ out \in Paths \ {<<>>} /\ GoodDisk(disk)
  BY OutputAssumption DEF PrepareOutput, At, Typed, GoodRun
<1>2. CASE CanCreateDirs(cleared, Front(out))
  <2>1. disk' = CreateDirAll(cleared, Front(out)) /\ Goto(r, "engine")
    BY <1>2 DEF PrepareOutput
  <2>2. Becomes(r, "engine", runs[r].error, runs[r].kind, runs[r].data, runs[r].written)
    BY <2>1, Moves
  <2>3. GoodDisk(disk') /\ Footprint(r)
    BY <1>1, <1>2, <2>1, PreparedDisk DEF Footprint
  <2>4. GoodRun(runs'[r])
    BY <1>1, <2>2 DEF Becomes, GoodRun, RunRecord, HasRead, Writes
  <2> QED
    BY <2>2, <2>3, <2>4 DEF Becomes, StepIsGood
<1>3. CASE ~CanCreateDirs(cleared, Front(out))
  <2>1. disk' = cleared /\ Fail(r, "prepare")
    BY <1>3 DEF PrepareOutput
  <2>2. Becomes(r, "err", "prepare", runs[r].kind, runs[r].data, runs[r].written)
    BY <2>1, Moves
  <2>3. GoodDisk(disk')
    BY <1>1, <2>1, RemoveKeeps
  <2>4. Footprint(r)
    BY <1>1, <2>1 DEF Footprint, RemoveExisting, GoodDisk
  <2>5. GoodRun(runs'[r])
    BY <1>1, <2>2 DEF Becomes, GoodRun, RunRecord, HasRead, Writes
  <2> QED
    BY <2>2, <2>3, <2>4, <2>5 DEF Becomes, StepIsGood
<1> QED
  BY <1>2, <1>3

LEMMA PrepareFaults ==
  ASSUME Typed, NEW r \in Runs, GoodRun(runs[r]), PrepareFault(r)
  PROVE  StepIsGood(r)
<1>1. runs[r].stage = "prepare" /\ GoodDisk(disk)
  BY DEF PrepareFault, At, Typed
<1>2. PICK left \in SUBSET {p \in Paths : Under(p, runs[r].output) /\ IsFile(disk, p)} :
        disk' = [p \in Paths |-> IF p \in left THEN Absent ELSE disk[p]]
  BY DEF PrepareFault
<1>3. Becomes(r, "err", "prepare", runs[r].kind, runs[r].data, runs[r].written)
  BY Moves DEF PrepareFault
<1>4. GoodDisk(disk')
  BY <1>1, <1>2, DropKeeps
<1>5. Footprint(r)
  BY <1>2 DEF Footprint
<1>6. GoodRun(runs'[r])
  BY <1>1, <1>3 DEF Becomes, GoodRun, RunRecord, HasRead, Writes
<1> QED
  BY <1>3, <1>4, <1>5, <1>6 DEF Becomes, StepIsGood

LEMMA EngineRejects ==
  ASSUME Typed, NEW r \in Runs, GoodRun(runs[r]), EngineFails(r)
  PROVE  StepIsGood(r)
<1>1. runs[r].stage = "engine" /\ UNCHANGED disk
  BY DEF EngineFails, At
<1>2. Becomes(r, "err", "engine", runs[r].kind, runs[r].data, runs[r].written)
  BY Moves DEF EngineFails
<1>3. GoodRun(runs'[r])
  BY <1>1, <1>2 DEF Becomes, GoodRun, RunRecord, HasRead, Writes
<1> QED
  BY <1>1, <1>2, <1>3, DiskSame DEF Becomes, StepIsGood

LEMMA EngineReturns ==
  ASSUME Typed, NEW r \in Runs, GoodRun(runs[r]), RunEngine(r)
  PROVE  /\ StepIsGood(r)
         /\ \A p \in Paths : disk'[p] # disk[p] => disk[p] = Absent /\ disk'[p] = Dir
<1>1. /\ runs[r].stage = "engine" /\ runs[r].output \in Paths /\ GoodDisk(disk)
      /\ EngineAccepts(runs[r].kind, runs[r].data) /\ runs[r].error = "none"
  BY DEF RunEngine, At, Typed, GoodRun, RunRecord
<1>2. Len(Files(runs[r])) \in Nat
  BY <1>1, FilesOf
<1>3. CASE UNCHANGED disk /\ Fail(r, "write")
  <2>1. Becomes(r, "err", "write", runs[r].kind, runs[r].data, runs[r].written)
    BY <1>3, Moves
  <2>2. GoodRun(runs'[r])
    BY <1>1, <1>2, <2>1 DEF Becomes, GoodRun, RunRecord, HasRead, Writes, Files
  <2> QED
    BY <1>3, <2>1, <2>2, DiskSame DEF Becomes, StepIsGood
<1>4. CASE /\ InTree(r) => CanCreateDirs(disk, runs[r].output)
           /\ disk' = IF InTree(r) THEN CreateDirAll(disk, runs[r].output) ELSE disk
           /\ Goto(r, "write")
  <2>1. Becomes(r, "write", runs[r].error, runs[r].kind, runs[r].data, runs[r].written)
    BY <1>4, Moves
  <2>2. GoodRun(runs'[r])
    BY <1>1, <1>2, <2>1 DEF Becomes, GoodRun, RunRecord, HasRead, Writes, Files
  <2>3. GoodDisk(disk')
    BY <1>1, <1>4, CreateKeeps
  <2>4. \A p \in Paths : disk'[p] # disk[p] => /\ Under(runs[r].output, p)
                                               /\ disk[p] = Absent /\ disk'[p] = Dir
    BY <1>1, <1>4, CreatesDirsOnly
  <2> QED
    BY <2>1, <2>2, <2>3, <2>4 DEF Becomes, StepIsGood, Footprint
<1> QED
  BY <1>3, <1>4 DEF RunEngine

\* The next file, and the directories made for it.
LEMMA NextFile ==
  ASSUME Typed, NEW r \in Runs, GoodRun(runs[r]), At(r, "write"), MoreFiles(r), NameIsSafe(r)
  PROVE  /\ EngineAccepts(runs[r].kind, runs[r].data)
         /\ runs[r].written + 1 \in 1 .. Len(Files(runs[r]))
         /\ SafeAt(runs[r], runs[r].written + 1)
         /\ NextPath(r) = FileAt(runs[r], runs[r].written + 1)
         /\ NextPath(r) \in Paths \ {<<>>} /\ Under(NextPath(r), runs[r].output)
         /\ Front(NextPath(r)) \in Paths
<1>1. EngineAccepts(runs[r].kind, runs[r].data) /\ runs[r].written \in 0 .. Len(Files(runs[r]))
  BY DEF GoodRun, At, Writes
<1>2. runs[r].written < Len(Files(runs[r])) /\ Len(Files(runs[r])) \in Nat
  BY <1>1, FilesOf DEF MoreFiles, Files
<1>3. runs[r].written + 1 \in 1 .. Len(Files(runs[r]))
  BY <1>1, <1>2
<1>4. SafeAt(runs[r], runs[r].written + 1)
  BY DEF NameIsSafe, SafeAt, InTree, NextName, Files
<1>5. NextPath(r) = FileAt(runs[r], runs[r].written + 1)
  BY DEF NextPath, FileAt, InTree, NextName, Files
<1>6. NextPath(r) \in Paths /\ Under(NextPath(r), runs[r].output)
  BY <1>1, <1>3, <1>4, <1>5, FilesOf
<1>7. NextPath(r) # <<>>
  <2>1. runs[r].output \in Paths \ {<<>>}
    BY OutputAssumption DEF GoodRun
  <2>2. runs[r].output \in Seq(Names) /\ Len(runs[r].output) \in Nat \ {0}
    BY <2>1, PathsAreSequences, EmptySeq
  <2> QED
    BY <1>6, <2>2 DEF Under, IsPrefix
<1> QED
  BY <1>1, <1>3, <1>4, <1>5, <1>6, <1>7, PathsAbove

LEMMA Made ==
  ASSUME Typed, NEW r \in Runs, GoodRun(runs[r]), At(r, "write"), MoreFiles(r), NameIsSafe(r), CanMake(r)
  PROVE  /\ GoodDisk(NextMade(r))
         /\ \A q \in Paths :
              /\ NextMade(r)[q] # disk[q] =>
                   /\ Under(q, runs[r].output) \/ Under(runs[r].output, q)
                   /\ disk[q] = Absent /\ NextMade(r)[q] = Dir
              /\ IsFile(NextMade(r), q) <=> IsFile(disk, q)
              /\ IsFile(disk, q) => NextMade(r)[q] = disk[q]
<1>1. GoodDisk(disk) /\ runs[r].output \in Paths
  BY DEF Typed, GoodRun, RunRecord
<1>2. NextPath(r) \in Paths \ {<<>>} /\ Under(NextPath(r), runs[r].output) /\ Front(NextPath(r)) \in Paths
  BY NextFile
<1>3. CASE InTree(r)
  <2>1. NextMade(r) = CreateDirAll(disk, Front(NextPath(r))) /\ CanCreateDirs(disk, Front(NextPath(r)))
    BY <1>3 DEF NextMade, CanMake
  <2>2. GoodDisk(NextMade(r))
    BY <1>1, <1>2, <2>1, CreateKeeps
  <2>3. ASSUME NEW q \in Paths, Under(Front(NextPath(r)), q)
        PROVE  Under(q, runs[r].output) \/ Under(runs[r].output, q)
    <3>1. /\ NextPath(r) \in Seq(Names) /\ q \in Seq(Names) /\ runs[r].output \in Seq(Names)
          /\ Front(NextPath(r)) \in Seq(Names)
      BY <1>1, <1>2, PathsAreSequences
    <3>2. Under(NextPath(r), q)
      BY <1>2, <2>3, <3>1, FrontIsAbove, UnderIsAnOrder
    <3> QED
      BY <1>2, <3>1, <3>2, UnderIsAnOrder DEF Overlap
  <2> QED
    BY <1>1, <1>2, <2>1, <2>2, <2>3, CreatesDirsOnly
<1>4. CASE ~InTree(r)
  BY <1>1, <1>4 DEF NextMade, IsFile, Exists
<1> QED
  BY <1>3, <1>4

LEMMA FilePut ==
  ASSUME Typed, NEW r \in Runs, GoodRun(runs[r]), At(r, "write"), MoreFiles(r), NameIsSafe(r), CanMake(r),
         CanWrite(NextMade(r), NextPath(r)), NEW c, Content(c), c.type # "dir",
         disk' = [NextMade(r) EXCEPT ![NextPath(r)] = c]
  PROVE  /\ GoodDisk(disk') /\ Footprint(r)
         /\ \A q \in Paths : disk'[q] = IF q = NextPath(r) THEN c ELSE NextMade(r)[q]
<1>1. GoodDisk(NextMade(r)) /\ NextPath(r) \in Paths /\ Under(NextPath(r), runs[r].output)
  BY NextFile, Made
<1>2. GoodDisk(disk')
  BY <1>1, WriteKeeps
<1>3. \A q \in Paths : disk'[q] = IF q = NextPath(r) THEN c ELSE NextMade(r)[q]
  BY <1>1 DEF GoodDisk
<1>4. Footprint(r)
  BY <1>1, <1>3, Made DEF Footprint
<1> QED
  BY <1>2, <1>3, <1>4

LEMMA FileWritten ==
  ASSUME Typed, NEW r \in Runs, GoodRun(runs[r]), WriteFile(r)
  PROVE  StepIsGood(r)
<1>1. /\ runs[r].stage = "write" /\ At(r, "write") /\ MoreFiles(r) /\ NameIsSafe(r) /\ CanMake(r)
      /\ CanWrite(NextMade(r), NextPath(r))
      /\ disk' = [NextMade(r) EXCEPT ![NextPath(r)] = TextAt(runs[r], runs[r].written + 1)]
  BY DEF WriteFile, At, TextAt
<1>2. HasRead(runs[r])
  BY <1>1 DEF HasRead, GoodRun, RunRecord
<1>3. GoodDisk(disk') /\ Footprint(r)
  BY <1>1, <1>2, TextIsFile, FilePut
<1>4. Becomes(r, runs[r].stage, runs[r].error, runs[r].kind, runs[r].data, runs[r].written + 1)
  BY Moves DEF WriteFile
<1>5. runs[r].written + 1 \in 1 .. Len(Files(runs[r])) /\ SafeAt(runs[r], runs[r].written + 1)
  BY <1>1, NextFile
<1>6. GoodRun(runs'[r])
  <2>1. \A n \in 1 .. runs[r].written + 1 : SafeAt(runs[r], n)
    BY <1>1, <1>5 DEF GoodRun, Writes, RunRecord
  <2>2. Files(runs'[r]) = Files(runs[r]) /\ \A n : SafeAt(runs'[r], n) <=> SafeAt(runs[r], n)
    BY <1>4 DEF Files, SafeAt, Becomes
  <2>3. runs'[r].written \in 0 .. Len(Files(runs'[r])) /\ runs'[r].written \in Nat
        /\ \A n \in 1 .. runs'[r].written : SafeAt(runs'[r], n)
    BY <1>4, <1>5, <2>1, <2>2 DEF Becomes
  <2>4. EngineAccepts(runs'[r].kind, runs'[r].data)
    BY <1>1, <1>4, NextFile DEF Becomes
  <2> QED
    BY <1>1, <1>4, <2>3, <2>4 DEF Becomes, GoodRun, RunRecord, HasRead, Writes
<1> QED
  BY <1>3, <1>4, <1>6 DEF Becomes, StepIsGood

\* The record of a run that stops while it writes.
LEMMA Stopped ==
  ASSUME Typed, NEW r \in Runs, GoodRun(runs[r]), At(r, "write"), NEW e \in {"write", "path"}, Fail(r, e)
  PROVE  GoodRun(runs'[r]) /\ Becomes(r, "err", e, runs[r].kind, runs[r].data, runs[r].written)
<1>1. Becomes(r, "err", e, runs[r].kind, runs[r].data, runs[r].written)
  BY Moves
<1>2. GoodRun(runs'[r])
  BY <1>1 DEF At, Becomes, GoodRun, RunRecord, HasRead, Writes, Files, SafeAt
<1> QED
  BY <1>1, <1>2

LEMMA WriteRefused ==
  ASSUME Typed, NEW r \in Runs, GoodRun(runs[r]), WriteFails(r)
  PROVE  StepIsGood(r)
<1>1. At(r, "write") /\ MoreFiles(r) /\ NameIsSafe(r) /\ Fail(r, "write")
  BY DEF WriteFails
<1>2. GoodRun(runs'[r]) /\ Becomes(r, "err", "write", runs[r].kind, runs[r].data, runs[r].written)
  BY <1>1, Stopped
<1>3. GoodDisk(disk') /\ Footprint(r)
  <2>1. CASE UNCHANGED disk
    BY <2>1, DiskSame
  <2>2. CASE CanMake(r) /\ disk' = NextMade(r)
    BY <1>1, <2>2, Made DEF Footprint
  <2> QED
    BY <2>1, <2>2 DEF WriteFails
<1> QED
  BY <1>2, <1>3 DEF Becomes, StepIsGood

LEMMA WriteTorn ==
  ASSUME Typed, NEW r \in Runs, GoodRun(runs[r]), WriteFault(r)
  PROVE  StepIsGood(r)
<1>1. /\ At(r, "write") /\ MoreFiles(r) /\ NameIsSafe(r) /\ CanMake(r) /\ Fail(r, "write")
      /\ CanWrite(NextMade(r), NextPath(r)) /\ disk' = [NextMade(r) EXCEPT ![NextPath(r)] = Torn]
  BY DEF WriteFault
<1>2. GoodRun(runs'[r]) /\ Becomes(r, "err", "write", runs[r].kind, runs[r].data, runs[r].written)
  BY <1>1, Stopped
<1>3. Content(Torn) /\ Torn.type # "dir"
  BY DEF Content, Torn
<1>4. GoodDisk(disk') /\ Footprint(r)
  BY <1>1, <1>3, FilePut
<1> QED
  BY <1>2, <1>4 DEF Becomes, StepIsGood

LEMMA NameRejected ==
  ASSUME Typed, NEW r \in Runs, GoodRun(runs[r]), RejectName(r)
  PROVE  StepIsGood(r)
<1>1. At(r, "write") /\ Fail(r, "path") /\ UNCHANGED disk
  BY DEF RejectName
<1>2. GoodRun(runs'[r]) /\ Becomes(r, "err", "path", runs[r].kind, runs[r].data, runs[r].written)
  BY <1>1, Stopped
<1> QED
  BY <1>1, <1>2, DiskSame DEF Becomes, StepIsGood

LEMMA Finishes ==
  ASSUME Typed, NEW r \in Runs, GoodRun(runs[r]), Finish(r)
  PROVE  StepIsGood(r) /\ runs[r].written = Len(Files(runs[r]))
<1>1. runs[r].stage = "write" /\ UNCHANGED disk
  BY DEF Finish, At
<1>2. Becomes(r, "ok", runs[r].error, runs[r].kind, runs[r].data, runs[r].written)
  BY Moves DEF Finish
<1>3. EngineAccepts(runs[r].kind, runs[r].data) /\ runs[r].written \in 0 .. Len(Files(runs[r]))
  BY <1>1 DEF GoodRun, Writes
<1>4. runs[r].written = Len(Files(runs[r]))
  BY <1>3, FilesOf DEF Finish, MoreFiles, Files
<1>5. GoodRun(runs'[r])
  BY <1>1, <1>2, <1>4 DEF Becomes, GoodRun, RunRecord, HasRead, Writes, Files, SafeAt
<1> QED
  BY <1>1, <1>2, <1>4, <1>5, DiskSame DEF Becomes, StepIsGood

LEMMA RunSteps ==
  ASSUME Typed, NEW r \in Runs, RunStep(r)
  PROVE  GoodRun(runs[r]) /\ StepIsGood(r)
<1>1. ~At(r, "idle")
  BY DEF RunStep, Detect, ReadInput, OutputExists, PrepareOutput, PrepareFault, EngineFails,
         RunEngine, WriteFile, WriteFails, WriteFault, RejectName, Finish, At
<1>2. GoodRun(runs[r])
  BY <1>1, NotIdle
<1> QED
  BY <1>2, Detects, Reads, Refused, Prepares, PrepareFaults, EngineRejects, EngineReturns,
     FileWritten, WriteRefused, WriteTorn, NameRejected, Finishes DEF RunStep

-----------------------------------------------------------------------------
LEMMA InitTyped ==
  ASSUME disk \in Disks, RunInit
  PROVE  Typed
<1>1. GoodDisk(disk)
  <2>1. ASSUME NEW p \in Paths PROVE Content(disk[p])
    <3>1. disk[p] \in {Absent, Dir, Torn} \/ disk[p].type \in {"image", "text"}
      BY DiskAssumption
    <3>2. disk[p].type = "image" => disk[p] \in AllImages
      BY DEF AllImages
    <3> QED
      BY <3>1, <3>2 DEF Content
  <2> QED
    BY <2>1, DiskAssumption DEF GoodDisk
<1> QED
  BY <1>1 DEF RunInit, Typed

LEMMA StartTyped ==
  ASSUME Typed, NEW r \in Runs, NEW i \in Inputs, NEW o \in AllOutputs, NEW force \in BOOLEAN,
         NEW f \in Formats, Start(r, i, o, force, f), UNCHANGED disk
  PROVE  /\ Typed' /\ runs[r] = Idle
         /\ runs'[r] = NewRun(i, o, force, f) /\ \A q \in Runs \ {r} : runs'[q] = runs[q]
<1>1. runs[r] = Idle
  BY DEF Start, At, Typed, GoodRun, RunRecord
<1>2. runs' = [runs EXCEPT ![r] = NewRun(i, o, force, f)]
  BY DEF Start
<1>3. GoodRun(NewRun(i, o, force, f))
  BY OutputAssumption
  DEF GoodRun, NewRun, Fields, RunRecord, HasRead, Writes, Content, FileKinds, TotalKinds
<1> QED
  BY <1>1, <1>2, <1>3 DEF Typed, GoodDisk, IsTree, Exists

\* The automatic output of a file is an output.
LEMMA DefaultIsOutput ==
  ASSUME Typed, NEW i \in Inputs, IsFile(disk, i), NEW f \in Formats
  PROVE  /\ KindOf(disk[i]) \in FileKinds
         /\ DefaultOutput(i, KindOf(disk[i]), f) \in AllOutputs
<1>1. Content(disk[i]) /\ disk[i].type \notin {"absent", "dir"}
  BY PathAssumption DEF Typed, GoodDisk, IsFile, Exists
<1>2. /\ KindOf(disk[i]) \in FileKinds
      /\ KindOf(disk[i]) \in {j.kind : j \in AllImages} \cup TotalKinds
  BY <1>1, KindIsKnown
<1> QED
  BY <1>2 DEF AllOutputs

LEMMA EditTyped ==
  ASSUME Typed, UNCHANGED runs, NEW p \in Inputs, UserDeletes(p) \/ \E i \in Images : UserWrites(p, i)
  PROVE  Typed' /\ \A q \in Paths \ {p} : disk'[q] = disk[q]
<1>1. p \in Paths /\ GoodDisk(disk)
  BY PathAssumption DEF Typed
<1>2. GoodDisk(disk') /\ \A q \in Paths \ {p} : disk'[q] = disk[q]
  <2>1. CASE UserDeletes(p)
    <3>1. IsFile(disk, p) /\ disk' = [q \in Paths |-> IF q \in {p} THEN Absent ELSE disk[q]]
      BY <1>1, <2>1 DEF UserDeletes, GoodDisk
    <3> QED
      BY <1>1, <3>1, DropKeeps
  <2>2. CASE \E i \in Images : UserWrites(p, i)
    <3>1. PICK i \in Images : CanWrite(disk, p) /\ disk' = [disk EXCEPT ![p] = i]
      BY <2>2 DEF UserWrites
    <3>2. Content(i) /\ i.type # "dir"
      BY PathAssumption DEF Content, AllImages
    <3>3. GoodDisk([disk EXCEPT ![p] = i])
      BY <1>1, <3>1, <3>2, WriteKeeps
    <3> QED
      BY <3>1, <3>3 DEF GoodDisk
  <2> QED
    BY <2>1, <2>2
<1> QED
  BY <1>2 DEF Typed

LEMMA StepTyped ==
  ASSUME Typed, NEW r \in Runs, RunStep(r)
  PROVE  Typed'
<1>1. StepIsGood(r)
  BY RunSteps
<1>2. ASSUME NEW q \in Runs PROVE runs'[q] = Idle \/ GoodRun(runs'[q])
  BY <1>1 DEF StepIsGood, Typed
<1> QED
  BY <1>1, <1>2 DEF StepIsGood, Typed

-----------------------------------------------------------------------------
(***************************************************************************)
(* What lies under the output of a run that nobody else works on.          *)
(***************************************************************************)
\* The files under the output are those written so far; the last one written under a
\* name is whole.
Holds(run, d) ==
  /\ \A p \in Paths : Under(p, run.output) => (IsFile(d, p) <=> p \in WrittenBy(run))
  /\ \A n \in 1 .. run.written :
       (\A m \in 1 .. run.written : FileAt(run, m) = FileAt(run, n) => m <= n) =>
         d[FileAt(run, n)] = TextAt(run, n)

\* ... and at most the next one, torn.
HoldsTorn(run, d) ==
  \A p \in Paths : Under(p, run.output) =>
    (IsFile(d, p) <=> \/ p \in WrittenBy(run)
                      \/ /\ d[p] = Torn
                         /\ run.written < Len(Files(run)) /\ p = FileAt(run, run.written + 1))

Output(run, d) ==
  /\ run.stage = "engine" \/ run.error = "engine" =>
       \A p \in Paths : Under(p, run.output) => ~Exists(d, p)
  /\ run.stage \in {"write", "ok"} => Holds(run, d)
  /\ run.error \in {"write", "path"} => HoldsTorn(run, d)

\* Only what lies under the output counts.
LEMMA OutputLocal ==
  ASSUME NEW run, GoodRun(run), NEW d, NEW e,
         \A p \in Paths : Under(p, run.output) => e[p] = d[p], Output(run, d)
  PROVE  Output(run, e)
<1>1. ASSUME NEW p \in Paths, Under(p, run.output)
      PROVE  (Exists(e, p) <=> Exists(d, p)) /\ (IsFile(e, p) <=> IsFile(d, p)) /\ e[p] = d[p]
  BY <1>1 DEF Exists, IsFile
<1>2. ASSUME Holds(run, d), run.stage \in {"write", "ok"} PROVE Holds(run, e)
  <2>1. ASSUME NEW n \in 1 .. run.written PROVE e[FileAt(run, n)] = d[FileAt(run, n)]
    <3>1. /\ EngineAccepts(run.kind, run.data) /\ SafeAt(run, n)
          /\ run.written \in 0 .. Len(Files(run))
      BY <1>2 DEF GoodRun, Writes
    <3>2. n \in 1 .. Len(Files(run))
      BY <3>1, FilesOf
    <3> QED
      BY <1>1, <3>1, <3>2, FilesOf
  <2> QED
    BY <1>1, <1>2, <2>1 DEF Holds
<1>3. ASSUME HoldsTorn(run, d) PROVE HoldsTorn(run, e)
  BY <1>1, <1>3 DEF HoldsTorn
<1>4. Output(run, d) => /\ run.stage = "engine" \/ run.error = "engine" =>
                            \A p \in Paths : Under(p, run.output) => ~Exists(d, p)
  BY DEF Output
<1>5. /\ run.stage = "engine" \/ run.error = "engine" =>
           \A p \in Paths : Under(p, run.output) => ~Exists(e, p)
      /\ run.stage \in {"write", "ok"} => Holds(run, e)
      /\ run.error \in {"write", "path"} => HoldsTorn(run, e)
  BY <1>1, <1>2, <1>3 DEF Output
<1> QED
  BY <1>5 DEF Output

\* While the kind and the data stay, so do the files.
LEMMA SameFiles ==
  ASSUME NEW r \in Runs, NEW stage, NEW error, NEW written,
         Becomes(r, stage, error, runs[r].kind, runs[r].data, written)
  PROVE  /\ Files(runs'[r]) = Files(runs[r])
         /\ \A n : FileAt(runs'[r], n) = FileAt(runs[r], n) /\ TextAt(runs'[r], n) = TextAt(runs[r], n)
         /\ WrittenBy(runs'[r]) = {FileAt(runs[r], n) : n \in 1 .. written}
BY DEF Becomes, Files, FileAt, TextAt, WrittenBy

LEMMA PreparedOutput ==
  ASSUME Typed, NEW r \in Runs, GoodRun(runs[r]), PrepareOutput(r)
  PROVE  Output(runs'[r], disk')
<1> DEFINE out     == runs[r].output
           cleared == RemoveExisting(disk, out)
<1>1. runs[r].stage = "prepare" /\ runs[r].error = "none" /\ out \in Paths \ {<<>>} /\ GoodDisk(disk)
  BY OutputAssumption DEF PrepareOutput, At, Typed, GoodRun, RunRecord
<1>2. CASE CanCreateDirs(cleared, Front(out))
  <2>1. disk' = CreateDirAll(cleared, Front(out)) /\ Goto(r, "engine")
    BY <1>2 DEF PrepareOutput
  <2>2. Becomes(r, "engine", runs[r].error, runs[r].kind, runs[r].data, runs[r].written)
    BY <2>1, Moves
  <2>3. \A p \in Paths : Under(p, out) => disk'[p] = Absent
    BY <1>1, <1>2, <2>1, PreparedDisk
  <2> QED
    BY <1>1, <2>2, <2>3 DEF Becomes, Output, Exists, Absent
<1>3. CASE ~CanCreateDirs(cleared, Front(out))
  <2>1. Becomes(r, "err", "prepare", runs[r].kind, runs[r].data, runs[r].written)
    BY <1>3, Moves DEF PrepareOutput
  <2> QED
    BY <2>1 DEF Becomes, Output
<1> QED
  BY <1>2, <1>3

\* Before its first file a run has none under its output.
LEMMA FirstOutput ==
  ASSUME Typed, NEW r \in Runs, GoodRun(runs[r]), RunEngine(r), Output(runs[r], disk)
  PROVE  Output(runs'[r], disk')
<1>1. /\ runs[r].stage = "engine" /\ runs[r].error = "none" /\ runs[r].written = 0
      /\ \A p \in Paths : Under(p, runs[r].output) => ~Exists(disk, p)
  BY DEF RunEngine, At, GoodRun, RunRecord, Writes, Output
<1>2. \A p \in Paths : Under(p, runs[r].output) => disk'[p] = disk[p] \/ disk'[p] = Dir
  BY EngineReturns
<1>3. \A p \in Paths : Under(p, runs[r].output) => ~IsFile(disk', p) /\ disk'[p] # Torn
  BY <1>1, <1>2 DEF IsFile, Exists, Dir, Torn
<1>4. \/ Becomes(r, "write", runs[r].error, runs[r].kind, runs[r].data, runs[r].written)
      \/ Becomes(r, "err", "write", runs[r].kind, runs[r].data, runs[r].written)
  BY Moves DEF RunEngine
<1>5. WrittenBy(runs'[r]) = {} /\ 1 .. runs'[r].written = {} /\ runs'[r].output = runs[r].output
  BY <1>1, <1>4 DEF WrittenBy, Becomes
<1>6. Holds(runs'[r], disk') /\ HoldsTorn(runs'[r], disk')
  BY <1>3, <1>5 DEF Holds, HoldsTorn
<1> QED
  BY <1>1, <1>4, <1>6 DEF Becomes, Output

LEMMA MoreOutput ==
  ASSUME Typed, NEW r \in Runs, GoodRun(runs[r]), WriteFile(r), Output(runs[r], disk)
  PROVE  Output(runs'[r], disk')
<1> DEFINE k == runs[r].written + 1
           text == TextAt(runs[r], k)
<1>1. /\ runs[r].stage = "write" /\ At(r, "write") /\ MoreFiles(r) /\ NameIsSafe(r) /\ CanMake(r)
      /\ CanWrite(NextMade(r), NextPath(r))
      /\ disk' = [NextMade(r) EXCEPT ![NextPath(r)] = text]
  BY DEF WriteFile, At, TextAt
<1>2. runs[r].error = "none" /\ HasRead(runs[r]) /\ Holds(runs[r], disk) /\ runs[r].written \in Nat
  BY <1>1 DEF HasRead, GoodRun, RunRecord, Output
<1>3. Content(text) /\ text.type \notin {"absent", "dir"}
  BY <1>2, TextIsFile
<1>4. \A q \in Paths : disk'[q] = IF q = NextPath(r) THEN text ELSE NextMade(r)[q]
  BY <1>1, <1>3, FilePut
<1>5. Becomes(r, "write", "none", runs[r].kind, runs[r].data, k)
  BY <1>1, <1>2, Moves DEF WriteFile
<1>6. /\ NextPath(r) = FileAt(runs[r], k) /\ NextPath(r) \in Paths
      /\ EngineAccepts(runs[r].kind, runs[r].data) /\ k \in 1 .. Len(Files(runs[r]))
  BY <1>1, NextFile
<1>7. WrittenBy(runs'[r]) = WrittenBy(runs[r]) \cup {NextPath(r)}
  <2>1. WrittenBy(runs'[r]) = {FileAt(runs[r], n) : n \in 1 .. k}
    BY <1>5, SameFiles
  <2>2. 1 .. k = (1 .. runs[r].written) \cup {k}
    BY <1>2
  <2> QED
    BY <1>6, <2>1, <2>2 DEF WrittenBy
<1>8. ASSUME NEW p \in Paths, Under(p, runs[r].output)
      PROVE  IsFile(disk', p) <=> p \in WrittenBy(runs'[r])
  <2>1. CASE p = NextPath(r)
    BY <1>3, <1>4, <1>7, <2>1 DEF IsFile, Exists
  <2>2. CASE p # NextPath(r)
    <3>1. IsFile(disk', p) <=> IsFile(NextMade(r), p)
      BY <1>4, <2>2 DEF IsFile, Exists
    <3>2. IsFile(NextMade(r), p) <=> IsFile(disk, p)
      BY <1>1, Made
    <3> QED
      BY <1>2, <1>7, <1>8, <2>2, <3>1, <3>2 DEF Holds
  <2> QED
    BY <2>1, <2>2
<1>9. ASSUME NEW n \in 1 .. k, \A m \in 1 .. k : FileAt(runs[r], m) = FileAt(runs[r], n) => m <= n
      PROVE  disk'[FileAt(runs[r], n)] = TextAt(runs[r], n)
  <2>1. CASE n = k
    BY <1>4, <1>6, <2>1
  <2>2. CASE n # k
    <3>1. n \in 1 .. runs[r].written /\ FileAt(runs[r], n) # NextPath(r)
      BY <1>2, <1>6, <1>9, <2>2
    <3>2. disk[FileAt(runs[r], n)] = TextAt(runs[r], n)
      <4>1. \A m \in 1 .. runs[r].written : FileAt(runs[r], m) = FileAt(runs[r], n) => m <= n
        BY <1>2, <1>9
      <4> QED
        BY <1>2, <3>1, <4>1 DEF Holds
    <3>3. FileAt(runs[r], n) \in Paths
      <4>1. SafeAt(runs[r], n) /\ n \in 1 .. Len(Files(runs[r]))
        BY <1>1, <1>2, <1>6, <3>1 DEF GoodRun, Writes
      <4> QED
        BY <1>6, <4>1, FilesOf
    <3>4. IsFile(disk, FileAt(runs[r], n))
      BY <1>2, <3>2, TextIsFile DEF IsFile, Exists
    <3>5. NextMade(r)[FileAt(runs[r], n)] = disk[FileAt(runs[r], n)]
      BY <1>1, <3>3, <3>4, Made
    <3> QED
      BY <1>4, <3>1, <3>2, <3>3, <3>5
  <2> QED
    BY <2>1, <2>2
<1>10. Holds(runs'[r], disk')
  <2>1. runs'[r].output = runs[r].output /\ runs'[r].written = k
    BY <1>5 DEF Becomes
  <2>2. \A n : FileAt(runs'[r], n) = FileAt(runs[r], n) /\ TextAt(runs'[r], n) = TextAt(runs[r], n)
    BY <1>5, SameFiles
  <2>3. \A n \in 1 .. k :
          (\A m \in 1 .. k : FileAt(runs'[r], m) = FileAt(runs'[r], n) => m <= n) =>
            disk'[FileAt(runs'[r], n)] = TextAt(runs'[r], n)
    BY <1>9, <2>2
  <2> QED
    BY <1>8, <2>1, <2>3 DEF Holds
<1> QED
  BY <1>5, <1>10 DEF Becomes, Output

\* What a run leaves that stops while it writes.
LEMMA LastOutput ==
  ASSUME Typed, NEW r \in Runs, GoodRun(runs[r]), At(r, "write"), Output(runs[r], disk),
         NEW e \in {"write", "path"}, Fail(r, e),
         \A p \in Paths : Under(p, runs[r].output) =>
           \/ IsFile(disk', p) <=> IsFile(disk, p)
           \/ disk'[p] = Torn /\ MoreFiles(r) /\ p = FileAt(runs[r], runs[r].written + 1)
  PROVE  Output(runs'[r], disk')
<1>1. Becomes(r, "err", e, runs[r].kind, runs[r].data, runs[r].written)
  BY Stopped
<1>2. Holds(runs[r], disk)
  BY DEF Output, At
<1>3. /\ WrittenBy(runs'[r]) = WrittenBy(runs[r]) /\ Files(runs'[r]) = Files(runs[r])
      /\ \A n : FileAt(runs'[r], n) = FileAt(runs[r], n)
      /\ runs'[r].output = runs[r].output /\ runs'[r].written = runs[r].written
  BY <1>1, SameFiles DEF Becomes, WrittenBy
<1>4. ASSUME NEW p \in Paths, Under(p, runs[r].output)
      PROVE  IsFile(disk', p) <=> \/ p \in WrittenBy(runs[r])
                                  \/ /\ disk'[p] = Torn
                                     /\ runs[r].written < Len(Files(runs[r]))
                                     /\ p = FileAt(runs[r], runs[r].written + 1)
  <2>1. IsFile(disk, p) <=> p \in WrittenBy(runs[r])
    BY <1>2, <1>4 DEF Holds
  <2>2. disk'[p] = Torn => IsFile(disk', p)
    BY DEF IsFile, Exists, Torn
  <2> QED
    BY <1>4, <2>1, <2>2 DEF MoreFiles, Files
<1>5. HoldsTorn(runs'[r], disk')
  BY <1>3, <1>4 DEF HoldsTorn
<1> QED
  BY <1>1, <1>5 DEF Becomes, Output

LEMMA OwnStep ==
  ASSUME Typed, NEW r \in Runs, RunStep(r), Output(runs[r], disk)
  PROVE  Output(runs'[r], disk')
<1>1. GoodRun(runs[r])
  BY RunSteps
<1>2. runs[r].stage # "err" => runs[r].error = "none"
  BY <1>1 DEF GoodRun, RunRecord
<1>3. CASE Detect(r)
  <2>1. \/ \E k : Becomes(r, "read", runs[r].error, k, runs[r].data, runs[r].written)
        \/ Becomes(r, "err", "detect", runs[r].kind, runs[r].data, runs[r].written)
    BY <1>1, <1>3, Moves DEF Detect
  <2> QED
    BY <1>2, <1>3, <2>1 DEF Detect, At, Becomes, Output
<1>4. CASE ReadInput(r)
  <2>1. \/ \E d : Becomes(r, "prepare", runs[r].error, runs[r].kind, d, runs[r].written)
        \/ Becomes(r, "err", "input", runs[r].kind, runs[r].data, runs[r].written)
    BY <1>1, <1>4, Moves DEF ReadInput
  <2> QED
    BY <1>2, <1>4, <2>1 DEF ReadInput, At, Becomes, Output
<1>5. CASE OutputExists(r) \/ PrepareFault(r)
  <2>1. \E e \in {"exists", "prepare"} :
          Becomes(r, "err", e, runs[r].kind, runs[r].data, runs[r].written)
    BY <1>1, <1>5, Moves DEF OutputExists, PrepareFault
  <2> QED
    BY <2>1 DEF Becomes, Output
<1>6. CASE EngineFails(r)
  <2>1. Becomes(r, "err", "engine", runs[r].kind, runs[r].data, runs[r].written)
    BY <1>1, <1>6, Moves DEF EngineFails
  <2>2. UNCHANGED disk /\ runs[r].stage = "engine"
    BY <1>6 DEF EngineFails, At
  <2> QED
    BY <2>1, <2>2 DEF Becomes, Output
<1>7. CASE WriteFails(r)
  <2>1. At(r, "write") /\ MoreFiles(r) /\ NameIsSafe(r) /\ Fail(r, "write")
    BY <1>7 DEF WriteFails
  <2>2. \A p \in Paths : IsFile(disk', p) <=> IsFile(disk, p)
    <3>1. CASE UNCHANGED disk
      BY <3>1 DEF IsFile, Exists
    <3>2. CASE CanMake(r) /\ disk' = NextMade(r)
      <4>1. \A p \in Paths : IsFile(NextMade(r), p) <=> IsFile(disk, p)
        BY <1>1, <2>1, <3>2, Made
      <4> QED
        BY <3>2, <4>1 DEF IsFile, Exists
    <3> QED
      BY <1>7, <3>1, <3>2 DEF WriteFails
  <2> QED
    BY <1>1, <2>1, <2>2, LastOutput
<1>8. CASE WriteFault(r)
  <2>1. /\ At(r, "write") /\ MoreFiles(r) /\ NameIsSafe(r) /\ CanMake(r) /\ Fail(r, "write")
        /\ CanWrite(NextMade(r), NextPath(r)) /\ disk' = [NextMade(r) EXCEPT ![NextPath(r)] = Torn]
    BY <1>8 DEF WriteFault
  <2>2. Content(Torn) /\ Torn.type # "dir"
    BY DEF Content, Torn
  <2>3. \A q \in Paths : disk'[q] = IF q = NextPath(r) THEN Torn ELSE NextMade(r)[q]
    BY <1>1, <2>1, <2>2, FilePut
  <2>4. NextPath(r) = FileAt(runs[r], runs[r].written + 1)
    BY <1>1, <2>1, NextFile
  <2>5. ASSUME NEW p \in Paths, p # NextPath(r) PROVE IsFile(disk', p) <=> IsFile(disk, p)
    <3>1. IsFile(NextMade(r), p) <=> IsFile(disk, p)
      BY <1>1, <2>1, Made
    <3> QED
      BY <2>3, <2>5, <3>1 DEF IsFile, Exists
  <2> QED
    BY <1>1, <2>1, <2>3, <2>4, <2>5, LastOutput
<1>9. CASE RejectName(r)
  <2>1. At(r, "write") /\ Fail(r, "path") /\ UNCHANGED disk
    BY <1>9 DEF RejectName
  <2>2. \A p \in Paths : IsFile(disk', p) <=> IsFile(disk, p)
    BY <2>1 DEF IsFile, Exists
  <2> QED
    BY <1>1, <2>1, <2>2, LastOutput
<1>10. CASE Finish(r)
  <2>1. runs[r].stage = "write" /\ UNCHANGED disk
    BY <1>10 DEF Finish, At
  <2>2. Becomes(r, "ok", runs[r].error, runs[r].kind, runs[r].data, runs[r].written)
    BY <1>1, <1>10, Moves DEF Finish
  <2>3. Holds(runs[r], disk)
    BY <2>1 DEF Output
  <2>4. Holds(runs'[r], disk')
    BY <2>1, <2>2, <2>3, SameFiles DEF Holds, Becomes, WrittenBy
  <2> QED
    BY <1>2, <2>1, <2>2, <2>4 DEF Becomes, Output
<1> QED
  BY <1>1, <1>3, <1>4, <1>5, <1>6, <1>7, <1>8, <1>9, <1>10, PreparedOutput, FirstOutput, MoreOutput
  DEF RunStep

\* Produced, in the words of the invariant.
LEMMA ProducedFiles ==
  ASSUME NEW r \in Runs, GoodRun(runs[r]), At(r, "ok")
  PROVE  /\ DOMAIN Produced(r) = WrittenBy(runs[r])
         /\ \A p \in DOMAIN Produced(r) :
              \E n \in 1 .. runs[r].written :
                /\ FileAt(runs[r], n) = p /\ Produced(r)[p] = TextAt(runs[r], n)
                /\ \A m \in 1 .. runs[r].written : FileAt(runs[r], m) = p => m <= n
<1> DEFINE run     == runs[r]
           path(n) == IF InTree(r) THEN Resolve(run.output, Files(run)[n]) ELSE run.output
           last(p) == CHOOSE n \in DOMAIN Files(run) :
                        path(n) = p /\ \A m \in DOMAIN Files(run) : path(m) = p => m <= n
<1>1. /\ EngineAccepts(run.kind, run.data) /\ run.written = Len(Files(run))
  BY DEF At, GoodRun, Writes
<1>2. DOMAIN Files(run) = 1 .. run.written /\ run.written \in Nat
  BY <1>1, FilesOf
<1>3. Produced(r) = [p \in {path(n) : n \in DOMAIN Files(run)} |-> TextAt(run, last(p))]
  BY DEF Produced, TextAt, Files
<1>4. \A n : path(n) = FileAt(run, n)
  BY DEF FileAt, InTree
<1>5. DOMAIN Produced(r) = WrittenBy(run)
  BY <1>2, <1>3, <1>4 DEF WrittenBy
<1>6. ASSUME NEW p \in DOMAIN Produced(r)
      PROVE  \E n \in 1 .. run.written :
               /\ FileAt(run, n) = p /\ Produced(r)[p] = TextAt(run, n)
               /\ \A m \in 1 .. run.written : FileAt(run, m) = p => m <= n
  <2> DEFINE Same == {n \in 1 .. run.written : path(n) = p}
  <2>1. Same # {}
    BY <1>2, <1>3, <1>6
  <2>2. Same \in SUBSET (0 .. run.written)
    BY <1>2
  <2>3. \E n \in Same : \A m \in Same : m <= n
    BY <1>2, <2>1, <2>2, Largest
  <2>4. \E n \in DOMAIN Files(run) :
          path(n) = p /\ \A m \in DOMAIN Files(run) : path(m) = p => m <= n
    BY <1>2, <2>3
  <2>5. /\ last(p) \in DOMAIN Files(run) /\ path(last(p)) = p
        /\ \A m \in DOMAIN Files(run) : path(m) = p => m <= last(p)
    BY <2>4
  <2>6. Produced(r)[p] = TextAt(run, last(p))
    BY <1>3, <1>6
  <2> HIDE DEF last, path
  <2> QED
    BY <1>2, <1>4, <2>5, <2>6
<1> QED
  BY <1>5, <1>6

\* What is on the disk when a run has succeeded.
LEMMA ExactOutput ==
  ASSUME NEW r \in Runs, GoodRun(runs[r]), At(r, "ok"), Output(runs[r], disk)
  PROVE  /\ FilesUnder(runs[r].output) = DOMAIN Produced(r)
         /\ \A p \in DOMAIN Produced(r) : disk[p] = Produced(r)[p]
<1>1. Holds(runs[r], disk)
  BY DEF At, Output
<1>2. \A p \in WrittenBy(runs[r]) : p \in Paths /\ Under(p, runs[r].output)
  <2>1. /\ EngineAccepts(runs[r].kind, runs[r].data) /\ runs[r].written = Len(Files(runs[r]))
        /\ \A n \in 1 .. runs[r].written : SafeAt(runs[r], n)
    BY DEF At, GoodRun, Writes
  <2> QED
    BY <2>1, FilesOf DEF WrittenBy
<1>3. FilesUnder(runs[r].output) = WrittenBy(runs[r])
  BY <1>1, <1>2 DEF Holds, FilesUnder
<1>4. ASSUME NEW p \in DOMAIN Produced(r) PROVE disk[p] = Produced(r)[p]
  <2>1. PICK n \in 1 .. runs[r].written :
          /\ FileAt(runs[r], n) = p /\ Produced(r)[p] = TextAt(runs[r], n)
          /\ \A m \in 1 .. runs[r].written : FileAt(runs[r], m) = p => m <= n
    BY <1>4, ProducedFiles
  <2> QED
    BY <1>1, <2>1 DEF Holds
<1> QED
  BY <1>3, <1>4, ProducedFiles
=============================================================================
